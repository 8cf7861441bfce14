# nekop2p in TLA+

A TLA+ development beside the Go code of nekop2p: models of its stateful parts,
TLC runs on small instances, and TLAPS proofs for every instance of the parts
that matter most. Paths below are relative to `nekop2p/` in the repository. All
models describe the default build (no `cosmos` tag).

    tlc -workers 2 -config Chain.cfg MCChain             # one run
    tlapm PBFT_proofs.tla                                # one proof module

`PROJECT.json` lists the components, the runs, mutants of the code for every
property, the source lines of every definition, the hazards and the findings.

## 1. The system

| component | state | operations | hard because | what makes it correct |
|---|---|---|---|---|
| **PBFT engine** `consensus/pbft.go` | height, round, step, vote maps, lock, proposal; one mutex, one loop goroutine | Start, Stop, ProposeBlock, handlers of proposal, vote and timeout, CommitBlock | the network loses, repeats and reorders; the mutex is released around CommitBlock and ProposeBlock | votes, locks and commits are backed by quorums; one height, one block; the chain advances |
| **Region nodes** `region/`, `node/region_integration.go` | members with balance and lock, sequence, chain, queue, earnings; locks `mu` and `chainMu` | register, local and cross-region transactions, ProcessLoop, MonthlySettle, SaveSnapshot, LoadSnapshot, Failover | a transaction is many critical sections under two locks, of two nodes; restarts | money conserved, locks owned, numbers and IDs unique and in order, every call returns |
| **Block loop** `app/chain.go`, `app/app.go`, `app/mempool.go`, **SimpleEngine** `consensus/consensus.go` | mempool, history, replay cache, height; a channel of 10 block events | SubmitTx, RunChain, BeginBlocker, executeTx, ConfirmTxs, EndBlocker, Shutdown | submitters race the block; events are dropped; the cache forgets; a crash between any two writes | executed once and in order; history, height and fee pool agree with what ran; the chain goes on |
| **Ratchet** `ratchet/` | root, chain and skipped keys | Encrypt, Decrypt, DH step | reordered and lost messages | what was sent can be read once |
| **Peers and frames** `peer/`, `frame/` | connections by ID, nonces | Add, Remove, read loop, broadcast | reconnect races the old loop; several writers | the live connection stays; frames arrive whole |
| **Handshake** `noise/`, `node/connection.go` | hash, chain key, ephemeral keys of a session | three dialers (friend, public, padding), the answerer | addresses are old, tables differ, the two ends must derive the same keys crosswise | keys, identities and roles of the ends agree |
| **Node** `node/`, `beacon/`, `onion/`, `anon/` | state OFFLINE/LIMBO/ONLINE, marks of friends, seen tags and nonces, anonymous channel | GoOnline, limboSequence, beacon flood and answers, callbacks of the peer manager, SwitchTo, SendAnonMessage | every frame in a goroutine of its own, callbacks outside of locks, cycles, answers that are late | a beacon is answered and relayed once, marks agree with connections, a message is peeled in order |
| **Dark chain keeper** `x/darkchain`, `store/merkle.go` | loans, credit notes, commitment tree, nullifiers | request, approve, reveal, settle, default; spend of several notes | tree in memory, notes in the store; read and write are two transactions | no double spend, no lost note; a loan ends once, its seed is fair |
| **Inkwell** `inkwell/` | cross-domain transfers, fragments of a debt | lock, assign, release, refund, fail; split, schedule, pay | a refund races a late release; several payers | money leaves the pool once; a debt is split exactly |
| **Ferries and epochs** `x/vrg/ferry_node.go`, `epoch.go` | receipts shared without a lock; bindings by epoch | pick up, deliver, inject, purge; bind, register, merge, prune | two ferries with one receipt; late and duplicated receipts | a receipt is settled once, a second binding is reported |
| **Virtual root graph** `x/vrg/` | tree of communities, trust edges, bonds, namespaces, pools, keys of an avatar | invite, propose, freeze, sever, slash, appeal, transfer, sign | a slashing walks over edges others change; IDs and counters wrap; approvals name places in a list that changes | bonds and stakes conserved, a slashed community is cut off, pools backed |
| **Bright chain keeper** `x/brightchain` | users, bonds, pool, provisions, claims, votes | registration, credit, fees, recourse, claims, proposals | cascades in every block, IDs that collide, a lock taken twice | debts are collected once; a lock has one claim; votes decide |
| **Governance** `x/node`, `app/app.go` | roles, terms, salaries, slashes, blacklist | the hooks of a block, bans, appointments | memory-only counters, restarts, records written back late | one salary a month, slashing bounded, the banned stay out |
| **Random beacon, global epoch** `randbeacon/`, `consensus/epoch.go` | commitments, reveals; block and epoch counters | commit, reveal, finalise; count, merge | late and missing reveals; merges with old numbers | value fixed by what was committed; no epoch twice |
| **Game** `app/game/` | players, market, guilds, parties, boards, gold, parameters | operations, trades, proposals, payouts | things listed and traded at once, votes of members who left, shared maps | gold conserved, one leader, changes announced |
| crypto, zk, interfaces, configuration | almost none | encodings, cryptography | | taken as perfect, or input and output |

How they interact: `cmd` starts a `node`, which owns the peer manager, the
region nodes and, through `app`, the chain. SimpleEngine sends block events over
`blockCh` to `RunChain`; a block calls the keepers, which write the BoltDB
store. `node/region_integration.go` calls the methods of two region nodes from
the goroutine of the caller. Connections come out of the handshake, feed the
frames of the peer manager, and their callbacks set the marks of friends.
Nothing in the default build connects the PBFT engine to the application: the
engine is a library with channels. The Inkwell, the virtual root graph and the
dark chain meet in `app/vrg_bridge.go`.

## 2. How the models are built

One module per component, with the fields of the Go structs as variables and one
action per operation or, where it releases a lock or writes the store between,
per critical section or write. A module with several writers of an unlocked field
has its read and its write as two actions. History variables, marked as such,
record what the code does not keep. Keys, hashes and signatures are terms or
model values: equal exactly when the code's would be without a collision.

Seven `MC` modules instantiate the others. `MCLinks`, `MCLedger`, `MCWorld` and
`MCBright` hold several components each. Components that share no variable and
do not call each other cannot disturb each other, so an interleaving of two of
them shows nothing that one alone does not: the variable `part` picks one part
at the start, and the others stand still. Where components share state, they
are in one part: users and governance, slashing and trust edges, bridge and
trust edges. The theorems are about a specification of the component itself
(`PeerSpec`, `NotesSpec`, `BridgeSpec`, `DefaultsSpec` and so on), whose actions
the MC module interleaves.

| run | module | checks |
|---|---|---|
| `PBFT_app` | MCPBFT | quorums behind votes, locks and commits; one height, one block |
| `PBFT_agreement` | MCPBFT | violated: `Agreement` |
| `PBFT_progress` | MCPBFT | violated: `EventuallyCommits` |
| `Region` | MCRegion | money, locks, fees, IDs and block numbers, with settlement, snapshots, a restart; every call returns |
| `Region_lockorder` | MCRegion | violated: `SaveReturns` |
| `Chain` | MCChain | execution, history, height and pool over crashes; the mempool drains |
| `Chain_pending` | MCChain | violated: `PendingResolved` |
| `Links` | MCLinks | connections, frames, ratchet, handshakes, beacons, presence, onion |
| `Links_keys` | MCLinks | violated: `FramesReadable` |
| `Ledger` | MCLedger | notes, tree, loans, router, fragments, ferries, epochs |
| `World` | MCWorld | tree, edges, slashing, bridge, namespaces, avatars, game, guilds, parties, boards, gold, author |
| `Bright` | MCBright | users, governance, recourse, claims, parameters, beacon, global epochs |

Deadlock is not checked: every component may rest when its bounded inputs are
used up. Symmetry is used only where no liveness property is checked and no
order of the values is read.

## 3. The models

### PBFT (`PBFT`, `MCPBFT`, `PBFT_proofs`)

One engine per validator. The fields of the Go struct are the variables
`height`, `round`, `step`, `prevotes`, `precommits`, `lockedBlock`,
`currentProposal`; `loop` says what the loop goroutine is doing and `proposing`
the calls of ProposeBlock between their two critical sections: the loop's and the
application's may overlap. `proposals` and
`votes` are everything ever broadcast: a handler may take any member at any time
and any number of times, or never, which covers loss (also at a full channel),
delay, duplication and reordering. A handler under the mutex is one action;
where the code releases it (the propose timer, the two halves of ProposeBlock,
the commit) there are several. A block stands for its hash, and what is committed
is the event: the hash of `BlockData` has the transactions in it, and the height
only where there are none. The code's own
deadlock is kept: after its first quorum of precommits an engine's loop calls
`enterNewHeight` with the mutex held and stays there (`"deadlocked"`).

- `PBFT_app` (two engines, an application that proposes, heights to 2, rounds to
  1): `QuorumsBacked` (what an engine precommits, locks or commits was voted for
  by a quorum) and `PrevotesAgree`. Two engines are enough for vote maps of
  different heights, a proposal out of turn and stale votes; the quorum of two
  is both of them, and the proofs cover every other number.
- `Agreement` is what the header of `pbft.go` promises and is violated: an engine
  commits its *current* proposal on a quorum for another block. There are two
  payloads, so the two events of a height differ.
- `EventuallyCommits` is violated: the proposer increments its height before it
  proposes, so nobody accepts the proposal (four engines; the heights bound is
  4, and the engine never gets there).

Fairness (`AloneSpec`, of the liveness run): the loop goroutine keeps running,
timers fire and broadcast messages are delivered, that is weak fairness of each
step of the loop; nobody stops an engine. This is the best environment the
engine can have, so the violation is the code's. Timeouts have no fairness.

### Regions (`Region`, `MCRegion`, `Region_proofs`)

`members`, `balance` and `locked` are the Members map, `txSeq`, `chain` and
`queue` the numbering, chain and TxQueue of a node, `chainMu` who holds that
lock, `client` where each goroutine in SubmitRegionTx is. `mu` is held only
inside one access, so an access is one action; SaveSnapshot holds it while it
waits for `chainMu` (`saving`) and blocks the accesses of others. `r.Earnings +=
fee` runs without `mu`: its read and its write are two actions. 64-bit numbers
are numbers modulo `W`, and the fee of an odd amount is split as in the code.

What the environment may do is a plan chosen at the start (`Budgets`): three
submissions; two with a settlement; or two with two snapshots, of which one may
be old, and a restart. With snapshots, transactions start at one node and wrap
nothing (`PlannedSpec`). Two goroutines, both nodes as origin, a member who lives
elsewhere, an amount whose total wraps, and a queue of 1 so that it is full.

- `MoneyKept`: balances, locks and transfers under way add up (`Conservation`),
  every lock has an owner (`LockedBacked`, until the locks of a member go past a
  word, which `wrapped` remembers), and what the nodes earned is what was charged
  (`FeesAccounted`, before a first settlement and while fees fit a word: see the
  observations).
- `ChainSound`: blocks in order, no ID twice.
- `SubmitReturns`, under fairness: a call returns, unless SaveSnapshot and a
  transaction block each other.
- `SaveReturns` is violated: SaveSnapshot takes `mu` then `chainMu`, a local
  transaction `chainMu` then `mu`.

Fairness: goroutines that can run do run, the process loop of each node and a
snapshot that has begun too. Submissions, settlements and restarts are the
environment's and have none.

### Chain (`Chain`, `MCChain`, `Chain_proofs`)

`txs` are the Tx objects in the order they entered the mempool, `mempool`,
`history`, `executed` (executedTxIDs) and `height` the memory of the process,
`saved`, `pool` and `loans` the store. `pc` is where RunChain is: each write of
the store is an action of its own, and `Crash`, `Shutdown` or a panic may come
between any two; `Restart` is NewNekoApp with the stored height. SubmitTx is two
actions, because a block fits between Submit and RecordTx. The ID of a
transaction is the hash of its data, so equal data is one ID; beyond its cap the
replay cache keeps an arbitrary part (Go's map order). `ran` and `forgot` are
history variables: what was executed, and what the cache lost.

The transactions are `repay` and `loan`, the two that reach the dark chain, with
data that is long, medium or too short for a loan (the slice panics). There is
no registered user here, so the loops over users do nothing; they are the
`Governance` module.

`Chain`: two submitters, two transactions of four payloads two of which share an
ID, batches of 1, one event waiting, a cache of 1 and a history of 2 that
overflow, three heights, one stop, words of 1024 and an amount whose product with
25 is past them. Each cap is reached with room left, so a larger
instance repeats what happens at the cap. It checks `RunsSound` (executed once
unless the ID was forgotten, and in order), `HistorySound` (what the history
confirms has run, at a height that is stored once the block ends), `PoolParts`
and, under fairness, `BlocksProgress` (the mempool drains, overdue loans are
marked, though events are dropped and the process may stop).
`PendingResolved` is violated: a block between Submit and RecordTx executes a
transaction which is recorded as pending afterwards.

Fairness: the ticker, the block loop and a SubmitTx under way go on while the
process is up. Stops and restarts are the environment's, so the properties
accept a process that is down.

### Links: a node and its network (`MCLinks`, `Links_proofs`)

**Peers and frames** (`Peer`). `peers` is the map of the manager,
`loop` where each readLoop is, `fate` how far Remove is with a connection it took
out (its critical section and the Close after it are two actions), `shutdown` and
`toClose` the two phases of Shutdown. Add may meet an ID that is in the map: all
anonymous callers share the chain ID of the zero key. `stream`, `sendNonce`,
`lastNonce` and `writer` are the frames: the nonce is taken under a lock, then
length, nonce and ciphertext are three unlocked writes, so `Write` is one piece.
Two connections with one ID, two writers on one of them, two frames of three
pieces, a shutdown at any point: every way to tear a frame and every inversion of
two nonces. `ConnectionsKept` (a listed peer has a read loop; who ends a
connection takes it out and closes it, but for one that was replaced),
`FramesInOrder` (frames arrive whole and in order, and none is refused before two
writers have overlapped), and the part `LoopsStop` of `LinksProgress`: after
Shutdown every read loop returns, but for one that hangs in the answer to a ping.
`readLoop` writes the pong with no deadline (only its reads have one), and so does
Shutdown with the close frame, so a peer that pings and does not read holds a loop
until its connection is closed, and may hold Shutdown itself: `AnswerPing` has no
fairness while the connection is open (`Stuck`), and `CloseCollected` has none.

**Ratchet** (`Channel`, `Ratchet`). `state` is `ratchet.State` of
the two parties. Keys are symbols: a root key is the sequence of shared secrets
mixed into it, a chain key is a root and a number of steps, so two parties have
the same key exactly when they made the same derivations. `SendMessage` is
Encrypt; Decrypt is split by its outcome into `ReadSkipped`, `ReadNext`, `Refuse`
(an error before the chain moves) and `Garble` (authentication fails after it
moved, which the code does not undo). `sent` is every message ever encrypted and a
handler may take any of them at any time, repeatedly or never: `SendMessage` in
`node/node.go` encrypts under `ratchsMu` and sends after it, `handleFrame` runs
each frame in a goroutine of its own and drops it at 100 of them. Each party sends
up to three messages and makes up to five DH keys, MaxSkip 1: chains that follow
each other, a key stored, more than MaxSkip messages missing, a message of an
abandoned chain. Larger instances are left to the proof. `SessionSound` (a used key
is nowhere, but for that of the last message sent, which `PrevSendChainKey` gives;
as long as no message of an abandoned chain arrives, what belongs to the current
chain or the next can be read) and `ReadOnce`: the session implements `Channel`,
the abstract specification in which a message is read at most once and was sent.

**Handshake.** The IK and NK patterns with keys, hash and chain key as the terms
that went into them; three dialers, the answerer, which tries one pattern after
the other, and the frame keys that `addPeerSession` derives. Three nodes, two
calls, every role, to the right and to old addresses, with a friend that forgot
the caller. `HandshakesAgree`: the two ends have matching keys in both directions
and different ones for each, each knows who the other is, roles agree, and padding
is always refused (below). `FramesReadable` is violated (`Links_keys`): the labels
of the two frame keys are the same at both ends instead of crossed, so the first
frame cannot be decrypted. `Peer` and `Ratchet` therefore say what happens once
keys agree.

**Beacons.** One slot per friend, relays through goroutines that overtake each
other, tags and nonces that are forgotten after a time, answers by UDP, which may
come twice or never. Five hosts with a cycle, two hops, two slots, a relay queue
of 1, three ticks. `BeaconsSound`: a friend answers a beacon once, one answer is
accepted, no node relays a tag twice in its lifetime or beyond the last hop.

**Presence.** GoOnline, limboSequence, waitForResponses and the callbacks, which
the peer manager makes outside its lock. Two callers, two friends, two attempts, a
signal channel of 1. `PresenceSound`: the marks of friends agree with the map when
no callback is under way, except where the last one told of the past or an answer
to a beacon set it; the state tells what runs as long as one caller decides at a
time. `LimboHears` (in `LinksProgress`): a friend that is online while the sequence
waits brings the node online, also when its signal was dropped.

**Onion.** The switch of channels, the choice of a path and the way of a packet,
hop by hop. A path has no address and port twice, but the next hop is looked up by
its address alone, at whichever connection has it. Five stations of which two
share an address on different ports, two switches and two messages, paths of 2 and 3 for the code's
3 and 5, the offset of the identities 1 for 9999. `OnionSound`: layers come off in
the order of the path, a message arrives at most once and only at its last hop,
identities are fresh until the counter reaches the offset.

Fairness of `Links` (`FairSpec`): a read loop goes on (its read returns at the 60 s
deadline or when the connection is closed; a pong only when the connection is
closed), and so do the timer of
`waitForResponses` and the change of state after it. Writers, new connections and
removals have none. Dialing and the reads of a handshake have no deadline in the
code, so nothing is claimed about GoOnline or limbo ending.

### Ledger: where value is kept and how it crosses (`MCLedger`, `Ledger_proofs`)

- `Notes`: spends of several notes over one tree, its copy in the store and the
  nullifiers. The credits of the genesis are given user by user before any spend
  (`InitializeGenesisCredits`). Two callers with two calls, two secrets, a genesis
  of 6 and 5, one stop anywhere. `NotesSound`: tree and store differ by what a caller is about to
  write, a note pays once, no value is made, and a call that fails halfway overlapped
  with another, named a note twice or met one torn by a crash.
- `Merkle`: the root and its cache, proofs, verification, up to five commitments
  (odd levels). `TreeSound`: the cached root is the fresh one, and a proof verifies
  for exactly its commitment and exactly its tree.
- `Loans`: the block loop and two callers of the message server on one loan, a
  crash. `LoansSound`: the combined seed is of the two seeds in the record and the
  lender chose blind; an ended loan stays so, and one claim is issued, unless a
  handler wrote over another's change (a reason the state records).
- `Escrow`, `CrossDomain`: the router refines an escrow that holds an amount once
  and pays it out or returns it, never both; `RouterSound` adds that every unit is
  in the pool, handed out or a fee, with counters modulo 512 that wrap.
- `Fragments`: debts 0, 2, 5 and 30 in 1 or 3 fragments, two payers, products that
  wrap. `FragmentsSound`: the split is exact and has no zero part above its number;
  a debt counts as paid while some of it remains only after a fragment was paid
  twice, and that happens only as recorded.
- `ShadowReceipts`, ferries and epochs: two ferries, two receipts of one ID, one forged,
  one expiring, one that StoreReceipt may put into the hold of a ferry at any time
  (`Storing`; that tests nothing and replaces what is there);
  two receipts of an asset over three blocks and merges to epoch 4. InjectReceipts
  tests the status of a receipt twice and may be overtaken between (`InjectMark`).
  `ReceiptsSound`: without a race a receipt has one bearer, except for who was given
  it by StoreReceipt (`given`), is counted once and stays delivered; a
  second binding in an epoch is reported unless it comes after the pruning; epochs
  are what blocks and merges give.

### World: communities and players (`MCWorld`, `World_proofs`)

- `Topology`: all trees of five communities, and the trust edges of two of them in
  any order of proposing, activating, freezing, thawing and severing. `GraphSound`:
  ancestor and distance agree with their definitions on the tree, a nearer pair
  clears when a farther one does; two active edges between the same parties, and
  lost stakes, have the one cause named.
- `Slashing`: the steps of a slashing over a branch of four communities while edges
  change (offenders `b` and `c`; stakes fixed). `SlashingSound`: bonds are conserved,
  a blacklisted community keeps only edges the walk passed over, and nobody but
  the offender and its ancestors below the root pays.
- `Bridge`: two callers between two namespaces, one edge, amounts and a pool of
  width 4 that wraps. An ID is a text cut to 32 bytes, so `Kept` says what it keeps:
  here the second of an amount of 1, and neither second nor amount of longer ones
  (the theorem has any `Kept`). `BridgeSound`: a pool is what
  its transfers hold and what was stuck, and a release is refused only after a wrap.
- `Identity`, namespaces and avatars: IDs of 4 values for the code's 2^16; three keys in
  a list of at most four (rotating a key to another member's and adding it again
  makes the code's list grow without end), two requests, two roots, with roots in a
  part of their own. Approvals are not used up, and `FinalizeStateRoot` compares the
  signed data with nothing, so it takes any root with two thirds' signatures of
  anything, against community_avatar.go:10 ("signed jointly by the members").
  `NamespacesSound`: owners find theirs until the IDs wrap; what is carried out has
  two thirds of the members of that time; forks among the roots that
  `ProposeStateRoot` made come only where two proposals cross. That
  `FinalizeStateRoot` reads the keys under another lock than the one they are
  sorted under is not modelled.
- `Game`: parts for the market, one asset, the monsters and the places. Three
  players, of whom one has a name of less than eight bytes: the slice for the name
  of what he makes panics when his gold is gone. Price and XP may be the caller's,
  and XP are words. `GameSound`: gold adds up, an asset is in one place, XP and
  levels are what was given, a payment makes something but for the brief names,
  regions hold. The materials of the asset package, which nothing calls, are left out.
- `Guilds`: parts for members, council, naming and wealth. In the council an officer
  withdraws from the treasury on which a proposal counts; naming has two guilds that
  take each other's name by a vote; treasuries and XP are words that go over.
  `GuildsSound`: one guild for a player, one leader for a guild, treasuries that
  balance, names that are unique but for a vote, decisions by members or by votes of
  those who left.
- `Parties`: `PartiesSound`, with the boards of two places and the list of a reader
  (proved in `Bright_proofs`).
- `Economy`: the two rates of the code, apart, in shares of gold for one outside unit
  (the code has floats, whose rounding is left out; so is a price map that is nil),
  and a change of parameters that replaces rates, cooldown, limit and map at once.
  Only the reserve is guarded against going over a word: circulation and the sum of a
  day wrap. Parts for gold alone, for the author's changes alone, and for both
  together. `EconomySound`: gold can be traced, payouts at the rates of their time
  are worth no more than the gold that came in, the limit of a day holds at each
  withdrawal, and parameters in force were announced, with prices in a map that is
  shared.

### Bright: users and those who govern them (`MCBright`, `Bright_proofs`, `PBFT_proofs`)

- `Users`: parts for joining on credentials, bonds, and fees, with four accounts and
  two callers, the block loop and the message server. A registration is four
  transactions of the store (`RegisterUser`, `Admit`, `Describe`, `PutUser`) and a
  payment into the pool two, so calls overlap: there may be one founder more for
  every other caller, and a stale pool takes a fee back. Sums and products of a fee
  are words. `UsersSound`: everybody is vouched for from the founders on, weights do
  not grow block by block, the total of the pool is exactly its parts, the shares of
  games and what rounding lost (less than five units a fee, until the products of one
  wrap), and recovering a debt takes the debt exactly or less. That
  recovery (at once, which the code keeps for its tests) walks over users and bonds in
  several transactions is not split.
- `Governance`: six blocks of the hooks, which read all users and write them back
  one by one, with one kind of disturbance in a behaviour: bans, stops,
  appointments or relays. The score takes what `isOnline` answers in a block; a slash
  is two writes, of the user and of the pool, with a stop between them. `GovernanceSound`: payouts, slashes and terms hold to
  their limits over restarts, the banned are no officials but for older records
  written back, and two slashes are a streak apart.
- `Defaults`, recourse and claims: `DefaultsSound`: no more of a debt is taken than
  the share of its epoch, never under appeal, and every unit is accounted for (who
  pays is in section 4); a lock has one active claim, every face issued is
  accounted for, claims end for good (proved in `PBFT_proofs`).
- `Params`: `ParamsSound`: what is executed was voted for and tallied, and votes are
  closed after their time. The hang of `UpdateActiveUserCount` is in the model, and no
  property relies on it (section 4). Sums of weights are assumed to fit their word.
- `Validators`, random beacon and global epoch: one round on two keepers with three participants,
  one of whom chooses between two seeds; two sides with three blocks and two
  merges. `ValidatorsSound`: equal reveals give equal values unless a node finalised
  early, commitments are blind, and no side is in an epoch twice.

### Why the bounds are enough

Each bound leaves room for the case it is about: a cap is met with something left
over, a number wraps, an ID collides, two actors meet in one critical section, a
process stops between any two writes and comes back. Where two such cases multiply
without sharing state they are in different parts or plans. What is scaled down
keeps its role: an offset, a month or a window becomes 1 or 2 and both sides of its
boundary are reached.

## 4. What the runs found beside the violations

Visible in the models, without a run of their own.

- PBFT: the loop of an engine that commits calls `enterNewHeight` with its mutex
  held and waits for ever, so it handles no message of the next height.
- Region: MonthlySettle under `mu` can fall between the read and the write of
  Earnings, and its fees come back (hence "before a first settlement").
  SaveSnapshot saves balances and not `LockedAmt`, so an amount locked at the time
  of the snapshot is gone after a restart. `amount + fee` wraps at 2^64, so a huge
  amount is locked for a small sum. A queued cross-region transaction is numbered
  again by ProcessLoop, so its `Seq` is not the number in its ID. A forwarded
  transaction keeps its lock for ever: `sendCrossRegionRequest` only logs.
- Chain: a repayment names its loan in 32 bytes, loan IDs have 45, so `SettleLoan`
  never settles one. A second repayment with the same bytes is dropped as a replay
  and reported as confirmed. The cache evicts arbitrary IDs where its comment says
  the latest 8000 stay. Each keeper call is a store transaction of its own where a
  comment says one per block. `RunChain` does not return when the engine stops:
  `blockCh` is never closed.
- Ratchet: a late message of an abandoned chain has a key that is not the current
  one, so Decrypt makes a DH step with the old key before it looks for the stored
  one, and the session is lost although the header of `ratchet.go` calls it tolerant
  of disorder. Encrypt copies the chain key to `PrevSendChainKey` before it moves it
  on, and nothing reads or clears the field: a state gives away the key of the last
  message sent, where the header says a key is destroyed once used
  (`ratchet.go:6`). Encrypt copies `SendMsgNum` to `PrevSendMsgNum` on every message, so
  the announced length of the previous chain is the message's own number.
  `Node.InitRatchet` discards the public key that InitAsInitiator returns; the model
  starts with both keys known.
- Peers: when a connection is replaced, its read loop removes the one that replaced
  it and nothing closes its own. `WriteEncryptedFrame`, called safe for several
  goroutines, tears and reorders frames when two overlap.
- Handshake: padding puts a prologue into the hash that no answerer tries, so a
  padding connection never opens. The token `se` mixes in what `es` has mixed in.
  The keys of the frames do not depend on the prologue.
- Beacons: the first answer uses up the nonce of the beacon, so a second friend
  that answers is ignored. A node that finds itself a target does not relay for the
  other targets. The first copy that arrives, with few hops left, blocks a later
  one with more. Only 32 slots are tried. A node in limbo queues relays it never
  sends. With the default `[::]` the sender's address is zero and answers go nowhere.
- Presence: an ISOLATED node can never go online again; nobody dials a friend again;
  ONLINE does not mean that there is a connection. Two callers of GoOnline can start
  the loops twice, or take an ONLINE node back to LIMBO. The chain ID of an incoming
  connection is not that of the friend, so it marks nobody online.
- Onion: the last hop delivers to itself, never to the target. Leaving the dark keeps
  the identity though a comment says it is destroyed. Without enough hops a message
  goes out directly. Beyond counter 9999 identities collide.
- Notes and loans: a crash between nullifier and tree loses the note. Handlers of a
  loan write over each other, and an approval cut off leaves the loan without claim.
- Inkwell: a failed transfer keeps its amount in the pool. Payments are counted, not
  fragments; GetNextFragment offers the first one until the next is due.
- Virtual root graph: slashing starts at the root's child, so the level of an
  ancestor is its place from the root, not from the offender; frozen edges survive
  it. IDs of transfers collide within a second, and what the first held is stuck.
- Bright chain: `UpdateActiveUserCount` calls, with the lock of the governor held, a
  function that takes it again, and hangs with everybody who needs the lock later:
  the value of the currency never follows the number of users, against
  `x/brightchain/keeper/game_economy.go:5-8` and `118-119`, and no vote starts the
  transition of `330-331` from then on. `recourse.go:322-325` says that the turn passes to the next guarantor and
  that the recourse goes on with that one, but it passes only when nothing is left of
  the debt: guarantors after the first never pay. A slash cut off between its two writes
  takes the limit and gives the reserve nothing. The salary budget is never reduced by
  what is paid. Date of the salary, terms, slashes and blacklist are in memory only.
  Limits are recomputed in every block, which forgets salaries and penalties. A
  second default of a debtor in a block takes the place of the first.
- Game: an asset can be traded while it is listed, and the market then sells what
  the seller no longer has. Votes of members who left count. The treasury of a
  disbanded guild is lost. A list of the board changes under its reader, and
  parameters share the map of their proposal. A name of less than eight
  bytes pays and gets nothing. Loot, which is not modelled, pays
  `K_i × total` where the design divides by the sum of the K (`明域游戏层设计.md:181` in the
  root of the repository).

## 5. What is proved

tlapm checks every proof from nothing. A theorem holds for every value of the
constants, and so for larger instances than those of the runs. The assumptions
are those the modules declare, which TLC evaluates in every run of the module:
they give the constants their types, and beyond that say that the sets of loans,
receipts, commitments and the like are finite, that a null value is none of the
real ones, that the word of a counter has room for one value at least, that the
numbers the governance divides by and its limit of terms are not zero, that weights
may reach the base weight (`MaxWeight >= 50`), and that the rates of a recourse do not fall with its epochs (`ProvisionRates` in
`recourse.go`: 30, 70, 100 percent).

| module | theorems about |
|---|---|
| `PBFT_proofs` | votes, locks and commits of the engine; recourse against guarantors and shadow claims |
| `Region_proofs` | IDs, blocks, money, locks and fees of the regions |
| `Chain_proofs` | execution, history and height over crashes; the division of the fees |
| `Links_proofs` | peers, frames, ratchet, handshake, beacons, presence, onion |
| `Ledger_proofs` | notes, loans, router and escrow, receipts and their epochs, fragments, the commitment tree |
| `World_proofs` | bridge, gold and authors, namespaces and avatars, the game, guilds, the tree of communities, its edges and slashings |
| `Bright_proofs` | random beacon and epochs, parameters, users and their governance; parties and leaderboards |
| `Sums` | sums over finite sets and words, recursion and induction along a rank, loops, sorted lists, used by the others |

A proof module holds what one prover run checks in its time, so the theorems on
`Defaults` stand with those of the engine, with which they share nothing.

**Sums.** `SumFunctionOnSet` is a fold that takes elements by `CHOOSE`, defined
through a recursive function on the subsets of its set. `SumRemove` says that any
element may be taken first, hence the order does not matter; it is proved for a
smallest set that contradicts it (`SmallestNumber` on its cardinality), because
induction over an operator is out of reach here. `SumAdd`, `SumChange`, `SumUnion`,
`SumSubset`, `SumImage`, `SumPlus`, `SumTimes`, `SumMost`, `SumOrder` and
`SumOfAppend` follow, and `SameRest` turns a difference that is a multiple of the
word into equal words. A loop of the code is a recursive function of the model, so a
proof needs that the function exists: `RecursionDefines` gives it for calls that go
down a bounded rank, and `RankInduction` is induction over such a rank for a *set* of
settled cases, since an operator cannot be passed to the provers. The climbs of
`Topology`, the levels of `Game` and the loop of `splitAmount` rest on these two; the
levels of `Merkle` and the hashes of a proof need only one step after another
(`StepByStep`). A loop over all users is a function of the position (`Iterated`,
`LoopDefines`), and a set of accounts has one list in their order (`ListOfRanks`).

**PBFT.** For any number of validators, heights, rounds and messages
`Spec => []TypeOK`, `[]QuorumsBacked` (from `PrecommitsBacked`, `LocksBacked` and
`CommitsBacked`) and `[]PrevotesAgree`, and that two quorums share more than a
third of the validators. The invariant `IInv` adds to these what the steps need:
the votes an engine has recorded were broadcast by their validators
(`VotesRecorded`: without it a quorum of *recorded* votes says nothing about who
voted); a proposer made one proposal per height, those not yet broadcast included
(`ProposalsMade`); a prevote is for a proposal of the height's proposer
(`PrevotesJustified`); an engine that commits has seen a quorum of precommits
(`CommitsJustified`). Broadcast votes only grow (`VotesGrow`), so a quorum once
there stays.

**Regions.** For any nodes, users, goroutines, amounts, rates, plans and word
size `Spec => []TypeOK`, mutual exclusion in the `chainMu` section, `[]ChainSound`
and `[]MoneyKept`. The invariant says that a goroutine's record has what its step
needs and that one inside ExecuteLocalTx holds `chainMu` of its node
(`ClientsOK`), and that every number given out (in the chain, the queue, or in a
goroutine about to enqueue) is at most the node's counter, exactly once. The
number of a queued transaction may be *below* numbers already in the chain; it
is renumbered when it enters, which is why the chain stays ordered. Money is
counted in integers and compared as words: each step changes what is held by what
it issues, up to a multiple of `W` (`DriftInv`), wherever a balance wraps. Locks
are backed (`HoldInv`) because a goroutine that locked keeps ID and amount until it
unlocks or hands both over to the queue. For the fees the invariant carries the
value that a node has read and not yet written (`FeesInv`).

**Chain.** For any submitters, payloads, caps, blocks, crashes and restarts
`Spec => []TypeOK`, `[]RunsSound` and `[]HistorySound`, each from the theorems
about its two parts. None of them is inductive. The order of execution depends on
where the loop stands in its batch and on everything between a submitter and the
store, so the invariant says that what was executed comes before the rest of the
batch, which comes before the mempool (`Queued`), that a stopped process has lost
its memory and a running one stands inside its batch (`Placed`), that every mark
of the replay cache, and every entry of the batch already passed, has an execution
with that ID at a height not after this one (`Remembered`), that a transaction
between Submit and RecordTx is pending, not yet in the history and different for
each submitter (`Unrecorded`: otherwise RecordTx could add a confirmed one), and
that no block of the history is above the height (`HistoryBounded`).
`ExecutedOnce` needs the cache's losses as a history variable, because the code
forgets; it is the strongest statement about repeats that the code keeps.
`PoolIsDivided` (`PoolParts`): the six counters of the pool wrap, so what is proved
of total and funds is their difference as a word. Each repayment adds at most 4 to
it (`RestGrows`, `Wrapped`), until the product of its amount and a percentage wraps:
then the funds get less and the property promises nothing more (`Divisible`).

**Links.** *Peers*: a connection never added is untouched, and one that was added
is in the map, taken out or replaced (`Traced`); while the writers of a connection
have not overlapped, the bytes on the way are exactly the pieces that follow the
last frame read, and the writer, if there is one, holds the next (`Lockstep`).
*Ratchet*: keys are ordered by the length of their root: every chain and stored key
comes from a root no longer than the present one (`Sound`), so a DH step cannot
bring back an old key; a used key is `Gone` from the reader and `Spent` at the
sender, where `PrevSendChainKey` is past all messages but the last (`LastOnly`),
from which the refinement `ReadOnce` follows. That nothing of the current
chains is unreadable (`SessionsAreSound`) needs both parties at once: until a
message of an abandoned chain arrives, one party is one DH step ahead, its
receiving root is the sending root of the other, and every message on the way is of
one of the chains between them (`StepsAgree`). *Handshake*: the terms of the two
ends are built from the same message, so ends that finish have the same secrets.
*Beacons*: answers and relays are counted by tag and life of a node. *Presence*: the
marks differ from the connections by the callbacks still to be made. *Onion*: the
layers left in a packet are the rest of its path.

**Ledger.** *Notes* (`NotesAreSound`): what each caller has taken out of the tree
and not yet put into the nullifiers is its own alone (`OwnInv`), change is made of
what was taken (`ChangeInv`), so what was paid and all live notes sum to no more
than the genesis (`MoneyInv`); a note used is known, used once and in no set
(`UsesInv`); a caller that met nobody finds its notes (`FindsInv`), and a nullifier
whose note is in the tree is under way or of a crash (`NullifiersInv`). *Loans*
(`LoansAreSound`): what a handler is about to write is what it read changed by its
own step (`WritesInv`), an ended loan changes only by a recorded overwriting
(`EndInv`), and claims are counted through the handlers about to issue them
(`ClaimsInv`). *Router*: the pool is the sum of what is neither released nor
refunded; the escrow is refined step by step. *Receipts* (`ReceiptsAreSound`):
without a race a receipt is in one hand and each hand knows its status; what was
accepted stays registered until its epoch can be pruned (`AcceptedInv`).
*Fragments* (`FragmentsAreSound`): rounding down never gives out more than the debt,
also when a product wraps (`ProportionalIs`), the last fragment takes the rest
(`RoundedIs`), and each step of the loop moves one unit from the largest fragment,
which has two as long as the debt is above their number (`TopUpIs`). The payments
keep that a fragment two payers never had at a time, and that is not the first, has
one payer or one record (`PaidOnce`); as many different records as fragments are all
of them, so a debt that counts as paid too early was paid twice somewhere.
*Tree* (`TreeIsSound`): a leaf is no pair, so two levels without repetitions that
hash to the same level above are equal (`NextLevelTells`, where the last of an odd
level is paired with itself), and a root tells its commitments (`RootTells`): that is
why a proof made for another tree is refused. A proof climbs its own tree
(`ProofFits`), and one that verifies for some commitment ends in a leaf of the tree
whose root it gives, a proof that is longer or shorter than the tree is high included
(`ProofOfNone`). The cache adds that a root that is not dirty is that of the
commitments (`MerkleInv`).

**World.** *Bridge*: the pool is the sum of what transfers hold and what is stuck,
in words. *Economy*: gold in circulation and reserve is what came in less what went
out, limits hold for the amounts of the day in order (`DailyInv`), and a change is
in one of the places checked, pending, logged, dropped (`AuthorInv`). *Identity*:
the name of the n-th owner has the ID that n gives modulo the width (`NamesInv`);
a final request had two thirds of the members of its time, and each root comes from
a request that saw the one before or from two at once (`AvatarInv`).
*Game* (`GameIsSound`): gold is summed over the players with what was given, spent
and capped; an asset is in the inventory of one player, its owner, or on the market,
and in one list once; a level is worth the XP it costs. *Topology* (`GraphIsSound`):
the parent of a community is above it and the root has depth 0 (`Tree`), so the climb
of FindLCA ends at the deepest common ancestor; distances come from the recursion;
bonds and stakes of an edge agree (`Bonded`, `Edged`); and of two edges of the same
parties one was open when the other was proposed. That last fact speaks of edges
that were not severed (`Paired`): a slashing severs edges whose parties then may
propose again. *Slashing* (`SlashingIsSound`) carries for each slashing which
ancestors it has still to charge and which edges it has still to cut (`Cut`).
*Guilds* (`GuildsAreSound`): the list of a guild has no player twice and one leader
(`AllLed`), the index gives the one list of each (`Indexes`), deposits are in a
treasury, paid out or lost with a disbanded guild (`Banked`), guilds of one name come
from a change of name (`NamedApart`), levels and skills are worth the XP
(`AllEarned`). A proposal that is carried out had approvals of more than half of the
members of that moment, though some of them may have left.

**Bright.** *Users* (`UsersAreSound`): everybody is reached from the founders if no
smaller set contains them and everybody vouched for from within (`RootsInv`); a new
user is reached from where his inviters are. The cascade is a loop over the users in
their order, proved to exist and to read only references and its own earlier results
(`Cascade`), so a second one without a new reference gives the same weights
(`WeightsInv`), and a weight above the base needs a reference that sorts not after
the user. The pool is summed in parts (`PoolInv`): each fee is divided with a
remainder, and each change of a user is one summand of the sum over all. Recovering a
debt is five rounds, and each takes from limits and bonds exactly what it takes off
the debt (`Recovery`), so what was taken and what is left of the debt make it up.
*Governance* (`GovernanceIsSound`): the invariant (`GovernanceInv`) says where the
loop is and what its hook has still to write (`LoopInv`, `TodoInv`). A salary not yet
credited is a part of the payout already announced (`PayInv`), and payouts are counted
by the months begun, with one forgotten date per restart (`Counted`). The
counter of what a node was slashed by wraps only to less, so the cap holds
(`SlashesCapped`); the streak of a node fits
between its last slash and the last block whose slashing is done (`ApartInv`). The
terms of a user are those in the history and the one that goes on, unless one was
written over (`TermsInv`), and `Promote` runs only for a user whom `Check` let pass
(`ToRise`), so a row of terms grows only below its limit. An official in the store has
a term or a reason (`Serve`), and a hook that writes back an older record of a user
banned meanwhile is such a reason (`overtaken`). At the end of the block all limits
written are those of the seed (`LimitsInv`). *Validators*: reveals open commitments and none is accepted after the
window, so a node that finalises at the end has all of them (`BeaconInv`); epochs
only grow on each side, merges included (`EpochInv`). *Parameters*: executions and
ballots that have passed and wait are together no more than tallies (`ParamsInv`).
*Recourse*: the share taken is that of an epoch not after the last, which is where
rates that do not fall are needed, and debts are what was taken, gone and left
(`RecourseInv`). *Claims*: the list of an owner holds its claims, each once unless
its ID was reused (`ListsKept`), so a transfer leaves the list of the seller; the
faces of the active claims are summed with the theorems of `Sums` (`ClaimsInv`).
*Parties* (`PartiesAreSound`): as no invited player ever joins, each party is of the
one who made it and goes with that one (`PartiesInv`). *Leaderboards*: the sorted
list is shown to be a permutation by counting who is ahead of an entry, so trimming
keeps the best, and ranks agree with scores but for what was written since
(`BoardInv`).

Left to TLC is liveness (`SubmitReturns`, `BlocksProgress`, `LinksProgress`) with its
violations, which these provers do not reach: fairness needs ENABLED. Every other
property of a passing run has its theorem.

## 6. What is not modelled, and the plan

- Failover, Partner and heartbeats of a region. After a failover two nodes use
  one Members map under two mutexes; `isActive` is read by no transaction.
- Changes of the PBFT validator set while engines run.
- Padding budget, table of neighbours and circuits with a reply path of the node,
  which nothing calls or which hold no state the properties read; sync frames,
  which answer from a callback.
- Store, fees and recorded slashing texts of the virtual root graph; the loot and the
  materials of the game; the examiner of the governance: pure computations, or without callers.
- The relay path and the exchange of seeds of the Inkwell (the seeds are in `Loans`),
  wages of ferries, the log of epoch events.
- Cryptography, circuits and the verifier: taken as perfect. Encodings, interfaces,
  configuration, generated code and the `cosmos` variant: input and output, or not
  in the default build.

Everything in `PROJECT.json` with the status `not_modelled` has its reason there.

The models to extend next are the failover of a region and the composition of
`Governance` with the crashes of `Chain`; their proofs would start from
`GovernanceInv` and from the invariant of the block loop.
