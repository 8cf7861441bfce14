------------------------------ MODULE Identity ------------------------------
(* By what a community is known: its namespaces, and the avatar it signs   *)
(* with.                                                                   *)
EXTENDS Integers, Sequences, FiniteSets, SequencesExt

(***************************************************************************)
(* The namespace router of x/vrg/namespace.go: namespaces get 16-bit IDs   *)
(* one after the other from the first that is free for communities, and    *)
(* are looked up by ID and by owner.                                       *)
(***************************************************************************)

CONSTANTS Owners,
          IDWidth, FirstID,  \* 2^16 and 100 in the code
          MaxNames, MaxHeight  \* bounds of the model

ASSUME NamespacesAssumption ==
  /\ IDWidth \in Nat \ {0} /\ FirstID \in 0..(IDWidth - 1)
  /\ MaxNames \in Nat /\ MaxHeight \in Nat

VARIABLES nextID, namespaces,  \* [owner, name, height] by ID
          byOwner,             \* IDs by owner
          registered           \* history: the owners, in the order they came

namesVars == <<nextID, namespaces, byOwner, registered>>

NamesInit ==
  /\ nextID = FirstID /\ namespaces = <<>> /\ byOwner = [o \in Owners |-> <<>>]
  /\ registered = <<>>

\* The counter starts again at the first ID of communities.
FollowingRestarts == IF nextID + 1 = IDWidth THEN FirstID ELSE nextID + 1

Following == (nextID + 1) % IDWidth

RegisterNamespace(o) ==
  /\ Len(registered) < MaxNames
  /\ namespaces' = [i \in DOMAIN namespaces \cup {nextID} |->
                      IF i = nextID THEN [owner |-> o, name |-> Len(registered) + 1, height |-> 0]
                      ELSE namespaces[i]]
  /\ nextID' = Following
  /\ byOwner' = [byOwner EXCEPT ![o] = Append(@, nextID)]
  /\ registered' = Append(registered, o)

(* Any height is taken, an earlier one, too.                               *)
UpdateStateRoot(id, h) ==
  /\ id \in DOMAIN namespaces
  /\ namespaces' = [namespaces EXCEPT ![id].height = h]
  /\ UNCHANGED <<nextID, byOwner, registered>>

NamesNext ==
  \/ \E o \in Owners : RegisterNamespace(o)
  \/ \E id \in DOMAIN namespaces, h \in 1..MaxHeight : UpdateStateRoot(id, h)

-----------------------------------------------------------------------------
\* GetNamespacesByOwner.
NamespacesOf(o) == {namespaces[id].name : id \in ToSet(byOwner[o])}

(* An owner finds exactly the namespaces it registered as long as no more  *)
(* than 2^16 were registered; the next one takes the place of the first,   *)
(* whose owner then finds a namespace of somebody else.                    *)
OwnersFindTheirs ==
  \A o \in Owners :
    LET own == {i \in DOMAIN registered : registered[i] = o}
        last == {i \in DOMAIN registered : i + IDWidth > Len(registered)}
    IN  /\ Len(registered) <= IDWidth => NamespacesOf(o) = own
        /\ own \cap last \subseteq NamespacesOf(o)
        /\ NamespacesOf(o) \subseteq last

-----------------------------------------------------------------------------
(***************************************************************************)
(* The avatar of a community (x/vrg/community_avatar.go over               *)
(* crypto/threshold_sign.go): its sorted keys, the threshold of two        *)
(* thirds, and what needs it: adding, removing and rotating a key, and the *)
(* roots of the state.  A signature names the place of its key in the      *)
(* list; approvals are collected while other ones change the list, and are *)
(* never used up: what was approved once can be carried out again.         *)
(***************************************************************************)

CONSTANTS Keys,      \* a set of numbers
          Founders,  \* the first members
          Hashes,    \* of states
          MaxRequests, MaxRoots, MaxMembers  \* bounds of the model

ASSUME AvatarsAssumption ==
  /\ Keys \subseteq Nat /\ IsFiniteSet(Keys) /\ Founders \subseteq Keys /\ Founders # {}
  /\ MaxRequests \in Nat /\ MaxRoots \in Nat /\ MaxMembers \in Nat

VARIABLES members, threshold,  \* MemberKeys in order; Threshold
          requests,   \* what was asked for: the data, the entries signed so far,
                      \* and how many roots there were
          roots,      \* history of the finalized roots; the last is current
          doubled,    \* history: some key was rotated to one that is a member
          weighed,    \* history: of the last change that was made, how many distinct
                      \* keys approved it, the members, and doubled before it
          finalized   \* history: the proposal of each root, 0 if there was none

avatarVars == <<members, threshold, requests, roots, doubled, weighed, finalized>>

Ascending(s) == \A i, j \in DOMAIN s : i < j => s[i] <= s[j]
Orders(n) == {p \in [1..n -> 1..n] : IsInjective(p)}

\* The keys of s in ascending order.
Sorted(s) == {t \in {[i \in 1..Len(s) |-> s[p[i]]] : p \in Orders(Len(s))} : Ascending(t)}

\* Two thirds, rounded down.
ThresholdFloor(n) == (2 * n) \div 3

Threshold(n) == ((2 * n) + 2) \div 3

AvatarInit ==
  /\ members \in Sorted(SetToSeq(Founders)) /\ threshold = Threshold(Cardinality(Founders))
  /\ requests = <<>> /\ roots = <<>> /\ doubled = FALSE /\ weighed = {} /\ finalized = <<>>

CurrentHash == IF roots = <<>> THEN 0 ELSE Last(roots).hash

\* Somebody asks for signatures of a change ...
Request(data) ==
  /\ Len(requests) < MaxRequests
  /\ requests' = Append(requests, [data |-> data, entries |-> {}, after |-> Len(roots)])
  /\ UNCHANGED <<members, threshold, roots, doubled, weighed, finalized>>

Adding(k) == [op |-> "add", key |-> k]
Removing(k) == [op |-> "remove", key |-> k]
Rotating(old, new) == [op |-> "rotate", key |-> old, new |-> new]
StateRoot(hash, prev) == [op |-> "root", hash |-> hash, prev |-> prev]

\* The root before the current one.
PreviousStale == IF Len(roots) < 2 THEN 0 ELSE roots[Len(roots) - 1].hash

Previous == CurrentHash

\* ... or of a state root, which follows the current one.
ProposeStateRoot(hash) == Request(StateRoot(hash, Previous))

\* A member signs for each of its places in the list, once per place.
SignThreshold(r, i) ==
  /\ <<i, members[i]>> \notin requests[r].entries
  /\ requests' = [requests EXCEPT ![r].entries = @ \cup {<<i, members[i]>>}]
  /\ UNCHANGED <<members, threshold, roots, doubled, weighed, finalized>>

(* A signature counts if its key is still at the place it names.  Who      *)
(* gathers them states T, which is refused unless it is the threshold.     *)
Valid(r) == {e \in requests[r].entries : e[1] \in DOMAIN members /\ members[e[1]] = e[2]}

VerifyThresholdSignature(r) == Cardinality(Valid(r)) >= threshold

Signers(r) == {e[2] : e \in Valid(r)}

Weighed(r) == weighed' = {<<Cardinality(Signers(r)), Len(members), doubled>>}

Carry(r, keys) ==
  /\ VerifyThresholdSignature(r) /\ members' \in Sorted(keys) /\ Weighed(r)
  /\ UNCHANGED <<requests, roots, finalized>>

\* A key can be added again.
MayAddAgain(k) == TRUE

MayAdd(k) == k \notin ToSet(members)

AddMember(r) ==
  LET k == requests[r].data.key IN
  /\ requests[r].data.op = "add" /\ MayAdd(k) /\ Len(members) < MaxMembers
  /\ Carry(r, Append(members, k))
  /\ threshold' = Threshold(Len(members) + 1)
  /\ UNCHANGED doubled

RemoveMember(r) ==
  LET k == requests[r].data.key
      i == CHOOSE j \in DOMAIN members : members[j] = k /\ \A h \in 1..(j - 1) : members[h] # k
  IN  /\ requests[r].data.op = "remove" /\ k \in ToSet(members) /\ Len(members) > 1
      /\ Carry(r, RemoveAt(members, i))
      /\ threshold' = Threshold(Len(members) - 1)
      /\ UNCHANGED doubled

(* The new key may be one of a member.                                     *)
RotateMemberKey(r) ==
  LET d == requests[r].data
      i == CHOOSE j \in DOMAIN members : members[j] = d.key /\ \A h \in 1..(j - 1) : members[h] # d.key
  IN  /\ d.op = "rotate" /\ d.key \in ToSet(members)
      /\ Carry(r, [members EXCEPT ![i] = d.new])
      /\ doubled' = (doubled \/ d.new \in ToSet(members))
      /\ UNCHANGED threshold

ProposalsOf(root) == {q \in DOMAIN requests : requests[q].data = root}

(* Any root is taken, with signatures of any data: they are not compared,  *)
(* and the root need not follow the current one.                           *)
FinalizeStateRoot(root, r) ==
  /\ VerifyThresholdSignature(r) /\ Len(roots) < MaxRoots
  /\ roots' = Append(roots, root) /\ Weighed(r)
  /\ \E q \in IF ProposalsOf(root) = {} THEN {0} ELSE ProposalsOf(root) :
       finalized' = Append(finalized, q)
  /\ UNCHANGED <<members, threshold, requests, doubled>>

AvatarNext ==
  \/ \E k \in Keys : Request(Adding(k)) \/ Request(Removing(k))
                      \/ \E new \in Keys \ {k} : Request(Rotating(k, new))
  \/ \E h \in Hashes : ProposeStateRoot(h)
  \/ \E r \in DOMAIN requests :
       \/ \E i \in DOMAIN members : SignThreshold(r, i)
       \/ AddMember(r) \/ RemoveMember(r) \/ RotateMemberKey(r)
       \/ \E h \in Hashes, p \in Hashes \cup {0} : FinalizeStateRoot(StateRoot(h, p), r)

\* The namespaces and the avatar, each by itself.
IdentityInit == NamesInit /\ AvatarInit
IdentityNext == (NamesNext /\ UNCHANGED avatarVars) \/ (AvatarNext /\ UNCHANGED namesVars)
IdentitySpec == IdentityInit /\ [][IdentityNext]_<<namesVars, avatarVars>>

-----------------------------------------------------------------------------
(* Whatever is carried out has the signatures of two thirds of those who   *)
(* are members at that time, even if they signed before the list changed   *)
(* or for the first of several times; only after a key was rotated to      *)
(* another member's can one key count for two of them.  For a change they  *)
(* signed this change; for a root they may have signed anything.           *)
TwoThirds == \A w \in weighed : w[3] \/ 3 * w[1] >= 2 * w[2]

(* The list never has a key twice unless one was rotated to a member's     *)
(* key, and the threshold is always that of the list.                      *)
KeysDistinct ==
  /\ ~doubled => IsInjective(members)
  /\ threshold = Threshold(Len(members)) /\ members # <<>>

(* A root that ProposeStateRoot made and that does not follow the one      *)
(* before it was proposed before that one was finalized: two proposals     *)
(* were under way, or one was finalized twice.  Nothing holds of a root    *)
(* that was never proposed.                                                *)
ForkExplained ==
  \A i \in DOMAIN roots :
    roots[i].prev # (IF i = 1 THEN 0 ELSE roots[i - 1].hash) =>
      finalized[i] = 0 \/ requests[finalized[i]].after < i - 1

(* The shared avatar changes hands by two thirds of distinct keys, and two *)
(* proposed versions of it fork only where proposals cross.                *)
AvatarSound == TwoThirds /\ KeysDistinct /\ ForkExplained

(* A community finds its names and passes on its avatar.                   *)
NamespacesSound == OwnersFindTheirs /\ AvatarSound
=============================================================================
