------------------------------- MODULE MCBright ------------------------------
(* The bright chain: its users, their governance, and the managers beside  *)
(* them.  The parts share no variable but the users; a behaviour picks one *)
(* part, and in the governance one kind of disturbance.                    *)
EXTENDS Governance, Defaults, Params, Validators, TLC

CONSTANTS g1, g2, h1, h2, k1, k2, p1, p2, p3

VARIABLE part

Governed == {"bans", "stops", "appointments", "relays", "absences"}

Member(seed, role) ==
  [seed |-> seed, role |-> role, by |-> <<>>, salary |-> 0, games |-> 0, weight |-> 10,
   limit |-> IF seed THEN 10 ELSE 0]

\* Two founders and an official who was registered later.
Grown ==
  /\ users = (1 :> Member(FALSE, "none") @@ 2 :> Member(FALSE, "none") @@ 3 :> Member(TRUE, "relay"))
  /\ bonds = <<>> /\ vouched = (1 :> {} @@ 2 :> {} @@ 3 :> {1, 2})
  /\ pool = WithFee(NoFees, 100) /\ calls = [c \in Callers |-> Idle]
  /\ fresh = TRUE /\ liability = NoLiability /\ shared = 0

Creds == {<<>>} \cup {<<[inviter |-> i, genuine |-> g], [inviter |-> j, genuine |-> TRUE]>> :
                        i \in {1, 2}, j \in {2, 3}, g \in BOOLEAN}

JoinNext ==
  \/ \E c \in Callers :
       \/ \E a \in Accounts, creds \in Creds :
            a <= Cardinality(Registered) + 2 /\ RegisterUser(c, a, creds)
       \/ Admit(c) \/ Describe(c) \/ PutUser(c)
  \/ {1, 2, 3} \subseteq Registered /\ bonds = <<>> /\ \E i \in {1, 3} : CreateBond(i, 2, 1)
  \/ bonds # <<>> /\ Recalculate

TrustNext ==
  \/ \E i, e \in 1..3 :
       /\ CreateBond(i, e, 1)
       /\ SumOf(DOMAIN users', LAMBDA u : Len(users'[u].by)) <= 3 /\ Cardinality(DOMAIN bonds') <= 2
  \/ \E b \in DOMAIN bonds, s \in {"released", "forfeited"} : SetBond(b, s)
  \/ Recalculate
  \/ \E u \in Accounts, d \in {20, 150} : Liable(u, d) /\ liability.id = 0

FeesNext ==
  \/ \E c \in Callers :
       \/ \E n \in {7, Wrap - 1} : pool.fees < 3 /\ CollectFees(c, n)
       \/ \E s \in {2, 4} : shared = 0 /\ RecordGameTx(c, 2, s, 9, 30, 50)
       \/ SetPool(c) \/ PayShares(c)
  \/ liability.id = 0 /\ BindGameServer(1)
  \/ \E u \in {1, 3} : liability.id = 0 /\ Liable(u, 30)
  \/ users[3].weight > 8 /\ Deduct(3, 15)

Init ==
  /\ part \in {"join", "trust", "fees", "recourse", "claims", "params", "beacon", "epochs"} \cup Governed
  /\ IF part \in Governed \cup {"trust", "fees"} THEN Grown ELSE UsersInit
  /\ GovernanceInit /\ RecourseInit /\ ClaimsInit /\ ParamsInit /\ RandBeaconInit /\ GlobalEpochsInit

Next ==
  /\ UNCHANGED part
  /\ \/ /\ \/ part = "join" /\ JoinNext
           \/ part = "trust" /\ TrustNext
           \/ part = "fees" /\ FeesNext
        /\ UNCHANGED <<governVars, recourseVars, claimsVars, paramsVars, beaconVars, epochVars>>
     \/ /\ part \in Governed /\ GovernanceNext
        /\ bans' > 0 => part = "bans"
        /\ stops' > 0 => part = "stops"
        /\ (appointed' # appointed /\ pc' # "down") => part = "appointments" /\ appointed = {3}
        /\ relays' # Zeros => part = "relays"
        /\ \A u \in Accounts : recorded'[u].online < recorded'[u].total => part = "absences" /\ u = 3
        /\ UNCHANGED <<recourseVars, claimsVars, paramsVars, beaconVars, epochVars>>
     \/ /\ part = "recourse" /\ RecourseNext
        /\ UNCHANGED <<usersVars, governVars, claimsVars, paramsVars, beaconVars, epochVars>>
     \/ /\ part = "claims" /\ ClaimsNext
        /\ UNCHANGED <<usersVars, governVars, recourseVars, paramsVars, beaconVars, epochVars>>
     \/ /\ part = "params" /\ ParamsNext
        /\ UNCHANGED <<usersVars, governVars, recourseVars, claimsVars, beaconVars, epochVars>>
     \/ /\ part = "beacon" /\ RandBeaconNext
        \* One participant chooses between two seeds.
        /\ \A n \in Keepers : \A p \in DOMAIN committed'[n] : committed'[n][p] = 1 \/ p = p3
        /\ UNCHANGED <<usersVars, governVars, recourseVars, claimsVars, paramsVars, epochVars>>
     \/ /\ part = "epochs" /\ GlobalEpochsNext
        /\ UNCHANGED <<usersVars, governVars, recourseVars, claimsVars, paramsVars, beaconVars>>

Spec == Init /\ [][Next]_<<part, usersVars, governVars, recourseVars, claimsVars, paramsVars,
                          beaconVars, epochVars>>

Sym == Permutations({g1, g2}) \cup Permutations({k1, k2}) \cup Permutations({h1, h2}) \cup Permutations({p1, p2})
ThreeRates == <<30, 70, 100>>

==============================================================================
