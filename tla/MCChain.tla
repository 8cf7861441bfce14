------------------------------ MODULE MCChain -------------------------------
(* Instances of Chain for TLC: data too short for a loan, and data of a    *)
(* repayment, with and without the ID of the first loan; 25 times one of   *)
(* the amounts is past the word.                                           *)
EXTENDS Chain

Short == [bytes |-> 20, amount |-> 0, loan |-> 0]
Full == [bytes |-> 72, amount |-> 33, loan |-> 1]
Other == [bytes |-> 40, amount |-> 60, loan |-> 0]

TwoData == {Short, Full}
AllData == {Short, Full, Other}
Mixed == {[type |-> "repay", data |-> Full], [type |-> "loan", data |-> Full],
          [type |-> "loan", data |-> Short]}
AllMixed == Mixed \cup {[type |-> "repay", data |-> Other]}
=============================================================================
