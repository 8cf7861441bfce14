------------------------------- MODULE Merkle --------------------------------
(***************************************************************************)
(* The commitment tree of store/merkle.go: the root over the sorted        *)
(* commitments and its cache, an inclusion proof and its verification.  A  *)
(* hash is the term that was hashed, so two hashes are equal exactly when  *)
(* the code's would be without a collision; a commitment is a number.      *)
(***************************************************************************)
EXTENDS Integers, Sequences, FiniteSets

CONSTANTS Commitments

ASSUME MerkleAssumption == Commitments \subseteq Nat /\ IsFiniteSet(Commitments)

VARIABLES leaves, root, dirty,  \* commitments, root and dirty of the tree
          held   \* a proof somebody holds, with the tree it was made from

merkleVars == <<leaves, root, dirty, held>>

HashLeaf(c) == [leaf |-> c]
HashPair(l, r) == [left |-> l, right |-> r]
ZeroHash == [zero |-> 0]

\* The code's list: sorted, without repetitions.
Sorted(cs) ==
  [i \in 1..Cardinality(cs) |->
     CHOOSE c \in cs : Cardinality({d \in cs : d < c}) = i - 1]

\* The last of an odd level is hashed alone.
NextLevelAlone(s) ==
  [i \in 1..((Len(s) + 1) \div 2) |->
     IF 2 * i <= Len(s) THEN HashPair(s[2 * i - 1], s[2 * i]) ELSE s[2 * i - 1]]

(* One level up; the last of an odd level is paired with itself.           *)
NextLevel(s) ==
  [i \in 1..((Len(s) + 1) \div 2) |->
     HashPair(s[2 * i - 1], IF 2 * i <= Len(s) THEN s[2 * i] ELSE s[2 * i - 1])]

\* The levels from the leaves up; the tree has no more than it has leaves.
Levels(cs) ==
  LET list == Sorted(cs)
      level[n \in 0..Cardinality(cs)] ==
        IF n = 0 THEN [i \in DOMAIN list |-> HashLeaf(list[i])] ELSE NextLevel(level[n - 1])
  IN  level

\* The loop ends at the first level of one node.
Height(cs) == CHOOSE h \in 0..Cardinality(cs) :
                Len(Levels(cs)[h]) = 1 /\ \A k \in 0..(h - 1) : Len(Levels(cs)[k]) > 1

ComputeMerkleRoot(cs) == IF cs = {} THEN ZeroHash ELSE Levels(cs)[Height(cs)][1]

\* The position at level n of the leaf at an index, from 0.
At(index, n) ==
  LET half[k \in 0..n] == IF k = 0 THEN index ELSE half[k - 1] \div 2 IN half[n]

(* The siblings from the leaf up; one that is missing is the node itself.  *)
GenerateProof(cs, c) ==
  LET index == Cardinality({d \in cs : d < c})
      sibling(level, i) ==
        LET s == IF i % 2 = 0 THEN i + 1 ELSE i - 1
        IN  IF s < Len(level) THEN level[s + 1] ELSE level[i + 1]
  IN  [index |-> index,
       siblings |-> [n \in 1..Height(cs) |-> sibling(Levels(cs)[n - 1], At(index, n - 1))]]

VerifyProof(r, proof, c) ==
  LET hash[n \in 0..Len(proof.siblings)] ==
        IF n = 0 THEN HashLeaf(c)
        ELSE IF At(proof.index, n - 1) % 2 = 0 THEN HashPair(hash[n - 1], proof.siblings[n])
        ELSE HashPair(proof.siblings[n], hash[n - 1])
  IN  hash[Len(proof.siblings)] = r

-----------------------------------------------------------------------------
MerkleInit == leaves = {} /\ root = ZeroHash /\ dirty = TRUE /\ held = <<>>

\* AddCommitment without the dirty mark.
AddClean(c) == leaves' = leaves \cup {c} /\ UNCHANGED <<root, dirty, held>>

AddCommitment(c) ==
  /\ leaves' = leaves \cup {c}
  /\ dirty' = (dirty \/ c \notin leaves)
  /\ UNCHANGED <<root, held>>

RemoveCommitment(c) ==
  /\ c \in leaves
  /\ leaves' = leaves \ {c} /\ dirty' = TRUE
  /\ UNCHANGED <<root, held>>

(* Root computes only when the commitments changed.                        *)
Root == IF dirty THEN ComputeMerkleRoot(leaves) ELSE root

ReadRoot == root' = Root /\ dirty' = FALSE /\ UNCHANGED <<leaves, held>>

TakeProof(c) ==
  /\ c \in leaves
  /\ held' = <<[proof |-> GenerateProof(leaves, c), of |-> c, tree |-> leaves]>>
  /\ UNCHANGED <<leaves, root, dirty>>

(* A new keeper restores the commitments from the store.                   *)
Restore ==
  /\ root' = ZeroHash /\ dirty' = TRUE
  /\ UNCHANGED <<leaves, held>>

MerkleNext ==
  \/ \E c \in Commitments : AddCommitment(c) \/ RemoveCommitment(c) \/ TakeProof(c)
  \/ ReadRoot \/ Restore

MerkleSpec == MerkleInit /\ [][MerkleNext]_merkleVars

-----------------------------------------------------------------------------
(* The root that Root answers is that of the present commitments, cached   *)
(* or not.                                                                 *)
RootFresh == Root = ComputeMerkleRoot(leaves)

(* A proof verifies for its commitment as long as the tree is the one it   *)
(* was made from, so one taken before another caller's change is refused;  *)
(* and for no commitment that is not in the tree.                          *)
ProofsVerify ==
  LET now == Root IN
  \A i \in DOMAIN held :
    /\ VerifyProof(now, held[i].proof, held[i].of) <=> leaves = held[i].tree
    /\ \A d \in Commitments : VerifyProof(now, held[i].proof, d) => d \in leaves

(* The cached tree answers as one computed now would.                      *)
TreeSound == RootFresh /\ ProofsVerify
=============================================================================
