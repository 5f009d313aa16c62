# A TLA+ verification of Sinar Chain

Sinar Chain is a Go node of a DAG blockchain in the style of Fantom's Lachesis:
nodes create *events* that point to parent events, a consensus engine gives the
events rounds, votes on witnesses, selects Clothos, turns them into Atropos and
makes blocks of them. This directory holds TLA+ modules translated from that
code, TLC configurations that check them on small instances, and TLAPS proofs.
Paths below are relative to `src/src/` of the repository.

## 1. Inventory

| Component (file) | State | Operations | Talks to | Correct when |
|---|---|---|---|---|
| Event (`event.go`) | header, transactions, consensus fields | `NewEvent`, `Hash`, sign, encode, `Reset` | everyone | an ID identifies an event |
| DAG (`dag.go`) | `Events`, `Rounds`, `mu` | `AddEvent`, `GetParents`, `IsAncestor`, `AssignRound` | shares both maps with the Poset | the ancestor search ends and is right |
| Poset (`poset.go`) | `Events`, `Heads`, `Rounds`, `LastRound`, `mu` | `AddEvent` and getters | fed by the engine; shares the round table with round assignment | store is write-once; witnesses, roots and last round agree with it |
| Round assignment (`round_assignment.go`) | none of its own | `AssignRound` | reads and writes events and round table | rounds contiguous and supported by the parents; roots listed under their rounds |
| Fame voting (`fame_voting.go`) | votes, famous, decided, `fv.mu` | `StartFameVoting`, `Reset` | reads events | fame is decided by 2/3 of enough votes |
| Clotho selection (`clotho.go`) | clothos per round, `cs.mu` | `SelectClothos`, `Reset` | asks fame voting | a selection is justified by the next round |
| Finality (`finality.go`) | a cache | `FinalizeEvents`, `GetFinalizedEvents` | reads round table, marks events | only seen Clothos become Atropos |
| Consensus engine (`consensus.go`) | queues, cache, context, `ce.mu` | `AddEvent`, `Start`, `Stop`, the goroutines `processEvents`, `consensusLoop`, `createBlocks` | owns all of the above | what is accepted is stored; stages run and do not block; shutdown is clean |
| Parallel processor (`consensus.go`) | three channels, `running`, `pp.mu` | `Start`, `Stop`, `AddEvent`, `AddConsensusTask`, workers, result processor | called by the engine | work is neither lost nor repeated; everything ends after `Stop` |
| Cache manager (`consensus.go`) | four maps, a size limit | get, set, evict, clear | engine, finality | a cached value is the stored one; the limit holds |
| SINAR token (`state.go`) | balances, `CurrentSupply` | transfer, mint, burn, initial distribution | HTTP handlers | money is conserved, no account is overdrawn, the supply is the sum of the balances and within the cap |
| State database (`state.go`) | accounts, validators, delegations, proposals, cached root, `s.mu` | `GetAccount`, setters, staking, governance, `IntermediateRoot`, `Commit` | blockchain, API | an account handed out is the stored one; the tally covers the votes; calls return |
| Memory optimizer (`state.go`, `event.go`, `blockchain.go`) | object pools | get, put | `createBlock` takes; nobody gives back | an object in use is not in a pool |
| Blockchain (`blockchain.go`) | blocks, head, `bc.mu` | `ProcessAtroposEvents`, `CreateBlock`, `AddBlock`, `GetBlockStats` | reads the DAG under `d.mu`, writes the state database | one chain; calls return |
| Transaction pool (`txpool.go`) | pending transactions | add, select, remove, clear | blockchain, API | a selection respects the gas limit and takes the best paid |
| Validator set (`validator.go`) | validators, stakes | add, remove, rewards | engine (which keeps a second map) | the two maps agree |
| Network (`network.go`) | peers, statistics, scores, three queues | libp2p callbacks, tickers, gossip, `Stop` | engine, libp2p | entries belong to connections; counts cover them; queued messages go out; silent peers are dropped |
| API server (`api_server.go`) | rate limiter | HTTP handlers | everything | limits are kept |
| EVM (`evm.go`) | none of its own | a wrapper around go-ethereum | state | external |
| Node start-up (`main.go`), multi-node test | none | wiring, demo | everything | – |

What is hard in this code: goroutines that share maps under *different* locks
(`ce.mu` for the passes, `p.mu` for the store, `d.mu` for ancestor queries);
iteration over Go maps in random order where the order matters; IDs that do not
identify events; bounded channels that `Stop` closes under their senders; locks
taken twice; a read lock under which a map is written; callbacks of libp2p that
arrive late. `PROJECT.json` lists these hazards line by line, each with the
properties that bear on it. Where a property covers a hazard only in part (it is
one-sided, or excuses the very case in which the code goes wrong) the hazard has a
note that says what is not covered.

### Facts about the source that shape the models

* **An ID covers the transactions only.** `Event.Hash` (event.go:80) encodes the
  header with RLP and drops the error; the header has an `int` field, which RLP
  refuses. Events with equal transactions and different creators or parents share
  an ID. Parents may be missing, and the parent relation may have cycles. All
  models allow that.
* **One pair of maps.** `NewConsensusEngine` gives the DAG and the Poset the same
  `Events` and `Rounds`. The Poset registers an event under its *Lamport* round,
  round assignment under its *structural* round, in the same table.
* **The constructor of the selector.** `NewClothoSelector` takes a DAG and a fame
  voting object and is called with the DAG only, so the tree does not build as it
  stands. `FameAttached` is therefore a constant: the two ways of repairing it are
  its two values.
* **Nothing downstream of fame ever happens.** `currentRound` is never assigned,
  a witness gets one vote per round where three are asked for, and no code sets
  `IsFamous`, `IsClotho` or `Rounds[r].Clothos`. The models keep all the control
  of the later stages. That no witness is found famous (`FameInert`) is what
  protects the engine from the self-deadlock in `decideRound`. See also "Where the
  code departs from its comments".
* **Calls that wait for themselves.** `SetBalance`, `SetNonce`, `SetCode`,
  `SetStorage`, `CreateContract`, `AddValidator`, `RemoveValidator`, and (past their
  tests) `Delegate` and `Undelegate` hold `s.mu` and lock it again; `AddBlock` does
  so with `bc.mu` and `DAG.AddEvent` with `d.mu`. Go's mutexes are not reentrant.
  The models keep what stands behind the second lock, under the test whether it can
  be had. `SetSINARBalance` writes a balance without any lock and does return.
* **The state root says nothing.** `calculateStateRoot` encodes Go maps with RLP,
  which refuses maps, and drops the error; the root is a constant.
* **No stream handler is registered** with libp2p, so no peer of this program
  accepts an event stream, and `DAG.AddEvent` is reached from the network only
  through `NetworkManager.AddTransaction` (network.go:772).
* **Callers that do not exist yet.** Nothing in the repository calls
  `ProcessAtroposEvents`, `StateDB.AddValidator` or `CacheManager.ClearCache`. They are
  public operations and modelled as such.

### Where the code departs from its comments

Four disagreements are runs of their own that TLC must find violated (section 3). The
following ones show in the models as well; a theorem says what the code does, for all
values of the constants, and none of them is counted as a property the system should
have.

| The comment | The code | Shown by |
|---|---|---|
| Events of round 0 may become Clothos before there is a next round (clotho.go:138-142, clotho.go:164-167, clotho.go:272-287) | a candidate must be famous, which no event is, and without a next round the visibility condition divides zero by zero: every selection is empty | theorem `NoClotho` |
| Clothos become Atropos and Atropos become blocks (finality.go:65, consensus.go:719, doc/doc.txt:41) | nothing fills the lists finality reads: no event is finalised, no block is made | theorem `NothingFinal` |
| "set balance", "add validator" (state.go:308, state.go:408) | the call waits for the lock it holds; no validator is ever registered, and nothing can be delegated | theorem `NoStake` |
| Atropos events become blocks of the chain (blockchain.go:289) and `DAG.AddEvent` assigns the round (dag.go:35) | `AddBlock` and `DAG.AddEvent` wait for their own locks: no block joins the chain | theorem `EmptyChain` |
| `Heads` holds the last event of each node (poset.go:17) | the last one to *arrive*: an older event that comes late becomes the head (poset.go:97); only the getter `GetLatestEvents` reads the heads, and nobody calls it | the step `Poset!AddEvent` |
| an event found to be a witness or root is entered in its round (poset.go:132-139, round_assignment.go:55-59) | the other goroutine may replace the entry it was put in | `WitnessLostOnlyToPass`, `RootLostOnlyToStore` say when, and only when |
| the sender must have the amount (state.go:815) | a negative amount passes the test, and the credit makes the receiver's balance negative (state.go:826) | `NeverOverdrawn` says that this is the only way |

## 2. Modules

| Module | Models | Builds on |
|---|---|---|
| `GoMap` | assignment to and deletion from a Go map (no state) | – |
| `EventDag` | events, IDs, round table entries, the ancestor relation (no state) | `GoMap` |
| `AncestorSearch` | `Poset.isAncestor`, `DAG.IsAncestor` step by step | `EventDag` |
| `EventLedger` | abstract specification: a write-once table of events | `EventDag` |
| `Poset` | `Poset.AddEvent` | `EventDag`, refines `EventLedger` |
| `RoundAssignment` | the pass of `runRoundAssignment` against stores | `Poset` |
| `FameVoting` | `StartFameVoting`, `Reset` | `RoundAssignment` |
| `ClothoSelector` | `SelectClothos`, `Reset` | `FameVoting` |
| `FinalityEngine` | `FinalizeEvents` and its cache | `ClothoSelector` |
| `ConsensusEngine` | the goroutines, the queue, the event cache below its limit, `Stop` | `FinalityEngine` |
| `ParallelProcessor` | workers, result processor, channels, `Stop` | – |
| `SinarToken` | the token's calls, one step per access | – |
| `RWMutex` | `sync.RWMutex`: readers, a writer, a waiting writer (no state) | – |
| `Goroutines` | callers, where each is in its call, and the locks `s.mu`, `bc.mu`, `d.mu` | `RWMutex` |
| `StateDB` | accounts, staking, governance, state root | `Goroutines`, `GoMap` |
| `Blockchain` | `ProcessAtroposEvents` down to `AddBlock`, `GetBlockStats`, `DAG.AddEvent` | `Goroutines`, `GoMap` |
| `TxPool` | the transaction pool | – |
| `CacheManager` | the engine's event cache with eviction | `GoMap` |
| `Node` | these four side by side, with `processEvents` in front of the shared event map | `StateDB`, `Blockchain`, `TxPool`, `CacheManager` |
| `Network` | peers, statistics, cleanup, gossip queue, `Stop` | `GoMap` |
| `SumProofs` | lemmas about sums over finite sets, for the proofs that add something up | – |
| `AncestorSearchProofs`, `RoundAssignmentProofs`, `ProcessorProofs`, `NetworkProofs` | theorems about the module of that name (`ProcessorProofs`: `ParallelProcessor`) | their modules |
| `ConsensusProofs` | theorems about `FameVoting`, `ClothoSelector` and `ConsensusEngine` | `RoundAssignmentProofs` |
| `SinarTokenProofs`, `NodeProofs` | theorems about the token and about the composed node | `SumProofs` |
| `MC...` | instances for TLC | their modules |

Operators marked *Mutant* stand directly before the definition they vary. Each is
that definition with a plausible mistake in it; none is used by a specification.
They document which slip each property would notice.

### How state and actions correspond to the code

* **EventDag.** `Event` has the fields some component reads. `IsFamous` is a
  pointer whose nil and false are never told apart; `atropos` says whether the
  Atropos field is set. `IsAncestor(evs, a, b)` is defined by closure: `a` lies in
  every parent-closed set around `b`. `AncestorSearch` shows that the searches in
  the code compute it.
* **AncestorSearch.** The queue of one search and the recursion of the other are
  one set `frontier` from which any member may be next.
* **Poset.** `AddEvent` runs under `p.mu`, but the passes use the same round table
  under `ce.mu`, so it is split at its accesses to the table: `AddEvent` (duplicate
  check, store, head, and the test for the entry of the Lamport round), `CreateEntry`
  when the test found none, whatever is there by then, `RegisterWitness`,
  `RegisterRoot` with the last round. `storing` and `storeStep` are the program counter.
  The stages it calls next are empty functions.
* **RoundAssignment.** `StartPass`, `Visit`, `EndPass` are the loop over the map;
  `Visit` may take the remaining IDs in any order, sets the event's round and tests for
  the entry of that round; `EnsureEntry`, `VisitWitness`, `VisitRoot` are the accesses to
  the table that follow (`VisitGoesOn`). `Store` and `StoreGoesOn` are the concurrent
  `Poset.AddEvent`, whose entry the running iteration may or may not produce; `MapRace`
  is the Go runtime killing the process instead.
* **FameVoting.** `BeginVoting`, one `VoteFor` per witness, `EndVoting`: the call
  holds `fv.mu`, and stores may fall between two votes. `fvDeadlocked` is the
  second `fv.mu.Lock` of `decideRound`. Float comparisons with 2.0/3.0 are
  integer comparisons `3n >= 2t`, with 0/0 comparing false as NaN does.
* **ClothoSelector.** One step per call. Where the code depends on map order
  (the fallback for round 0, the first event met of each validator) the action
  chooses; the choice is made anew for each witness, as the code ranges anew.
* **FinalityEngine.** One step per round of the table. `feCache` has one entry per
  round that both getters overwrite. `RangeMayMeet`: a round that a store enters during
  the range may or may not be produced by it.
* **ConsensusEngine.** `stage` is the program counter of the consensus goroutine:
  `loop` (consensusLoop), `select` (runConsensus), then the four stages, then
  `blocks`, where createBlocks never returns. `Submit` is AddEvent, `EventLoop`
  one turn of processEvents (`ProcessEvent`, then `ProcessStore` for the steps of
  `Poset.AddEvent`), `Stop` three steps. `CreateBlock` stands for both
  createBlocks loops and waits for `ce.mu`.
* **ParallelProcessor.** A worker receives, tests `running`, sends. Each send to a
  closed channel panics, which ends the process.
* **SinarToken.** The methods take `s.mu` for single lookups only, so a call is a
  record with a program counter: read and test, write a balance (`SetSINARBalance`),
  add up the accounts one by one in any order, assign `CurrentSupply`, and so on.
  `overlapped` is a history variable: two calls have been in progress at once. A
  process that dies of a concurrent map write is a behaviour that stops. Amounts are
  integers of either sign, as the handler parses any and nobody tests the sign;
  `drained` is a history variable, the receivers of a negative amount.
* **Goroutines, RWMutex.** `call[g]` names the operation of goroutine `g` and where
  it is: `rlock`, `lock` (waiting), `body` (holding the write lock), later steps,
  `stuck`. A mutex has the goroutines that hold it for reading or writing and the
  writer that waits; a waiting writer keeps new readers out. `stuck` is a goroutine
  that waits for a lock it holds itself.
* **StateDB.** One action per method. A writer's body runs under the lock in one
  step. `GetAccount` takes two steps under the *read* lock, `LookUp` and `Enter`, as
  two callers may be in it at once; `MapRace` is the runtime noticing. `handle` is
  what a caller of `GetAccount` holds, `overlapped` a history variable: two
  goroutines have been making accounts at once. `SetField` stands for the four
  setters. `SetSINARBalance` calls `GetAccount` and then writes to the account it was
  given, without a lock; if another caller's account has replaced it in the map, nobody
  sees the write. An account is known by the goroutine that made it.
* **Blockchain.** `ProcessAtroposEvents` is split where it takes and releases locks:
  `ScanDag`, one `Collect` per event, `ScanEnds`, `CreateBlock` (number under the
  lock), `SignBlock` (parent without), `LockChain`, `AddBlock`. The result of the EVM
  and the `SetBalance` inside `updateStateDB` are choices there. `PosetStores` and
  `FinalityMarks` are what other components do to the shared events.
* **TxPool.** One step per method; the selection chooses among the orders the sort
  may return and counts gas modulo `Word`, 2^64 in the code.
* **CacheManager, Node.** `Evictions` are the sets a full cache may drop: what a range
  over the map meets first, not the oldest. `ClearCache` empties the map at any time; what
  it held counts as dropped. `ProcessEvent` is one turn of
  `processEvents`: cache, duplicate check, store. `evicted` and `direct` are history
  variables.
* **Network.** A connection goes from `none` through `opened`, `up`, `down` back to
  `none`; `closing` is one that ended before it was announced. The callbacks and the
  tickers run under `nm.mu` and are one step each. `LastSeen` is `recent` or `old`
  (five minutes). Every `sendEventToPeer` goroutine is an element of `sending`.

## 3. Runs

| Run | Module | Checks | Shows |
|---|---|---|---|
| `ancestor` | MCAncestorSearch | `AnswerCorrect`, `SearchTerminates` | on all maps over three IDs, with cycles and missing parents, every search ends with the right answer |
| `rounds` | MCRoundAssignment | `RoundTypeOK`, `RoundsContiguous`, `RoundSupported`, `EveryRoundHasRoot`, `WitnessLostOnlyToPass`, `RootLostOnlyToStore`, `LastRoundIsGreatest`, `StoreIsWriteOnce` | passes in any order, interleaved with stores at every access to the round table, keep rounds without gaps, supported by parents, and every entry with a root; a witness or a root drops out of the table only when the other goroutine creates the entry a second time; the last round follows the store in any arrival order, and the store refines the ledger |
| `rounds_order` | same, `RoundOrder.cfg` | `RoundNotBelowParents` (violated) | a child visited before its parent stays below it |
| `selector` | MCClothoSelector | `FameInert`, `VotesUnanimous` | no witness is decided famous, so `fv.mu` is never locked twice, and every vote is a yes, with stores, passes and resets in between |
| `engine` | MCConsensusEngine | `EngineTypeOK`, `AcceptedIsStored`, `FirstPassCompletes` | the composed engine stores what it accepts and completes its first pass, with `Stop` at any time |
| `engine_shutdown` | same, `EngineShutdown.cfg` | `StopIsGraceful` (violated) | `Stop` between two stages makes the next task send panic |
| `engine_tick` | same, `EngineTick.cfg` | `ConsensusKeepsRunning` (violated) | the stages run once |
| `processor` | MCParallelProcessor | `TypeOK`, `WorkConserved`, `AcceptedIsHandled`, `StopTerminates` | work is conserved, nobody blocks for good, everyone ends after `Stop` |
| `token` | MCSinarToken | `NeverOverdrawn`, `TransferConserves`, `SupplySettles` | no interleaving overdraws an account, unless it has received a negative amount; calls that do not overlap conserve money in transfers, also to oneself, and leave the supply right |
| `token_cap` | same, `TokenCap.cfg` | `SupplyWithinCap` (violated) | calls one after the other exceed the total supply |
| `network` | MCNetwork | `NetTypeOK`, `CountsCoverPeers`, `NoGhostPeers`, `QueuedIsTaken`, `SilentPeerForgotten` | late and repeated announcements and cleanups leave the counters at or above the peers and no entry without a connection; queued messages leave the queue; a peer that takes no events is forgotten |
| `node` | MCNode | `NodeTypeOK`, `TallyCoversVotes`, `HandleIsStored`, `CacheBounded`, `CacheMatchesStore`, `WithinLimit`, `BestPaidFirst`, `CallsReturn` | the tally covers the votes; accounts handed out are stored unless two are made at once; cache and store agree up to eviction, clearing and the DAG; selections fit and are the best paid; nothing but a self-lock blocks a call |

The four violations are disagreements between the code and its own comments;
`PROJECT.json` quotes the lines under `findings`.

### Bounds and why they are enough

* `ancestor`: three IDs give every shape of cycle up to length three, self-loops,
  missing parents, and a target that is referred to but not stored.
* `rounds`: eight headers over five IDs, in three Lamport rounds with `BlockMs` = 2,
  reach structural round 3, contain a cycle, three pairs that share an ID, and every
  missing parent through partial arrivals. Structural and Lamport rounds meet in the
  same entries, so each goroutine can replace an entry of the other (1.6 million states).
* `selector`: a genesis event and three successors of three creators: a next round
  with `minVisibilityCount` = 3 events that all see the first. Rounds 0 and 1 are
  asked about (the engine only asks about 0).
* `engine`: two IDs, three headers, a queue of two, a block queue of one. Any
  number of submissions; the queue's capacity is what bounds the state.
* `processor`: two event workers, one consensus worker, four pieces of work and
  channels of one place: each queue can be full, and two workers can wait for the
  result channel while a third sends.
* `token`: two callers (interchangeable, hence the symmetry), two wallets, amounts 1
  and -1 under a cap of 3, at most `MaxCalls` = 3 calls. Lost updates need two calls;
  the third sets up or observes. `token_cap` needs two calls, one after the other, with
  amounts 1 and 2 and a user besides the wallets.
* `network`: a peer with two connections, so that entries are replaced and removed
  under a living connection, and one that accepts events; `MaxOpens` = 3 lets a
  connection be opened again; a queue of one place and two events fill it.
* `node`: two goroutines and `MaxCalls` = 4 calls in all. A self-lock, or an overlap
  in `GetAccount`, needs two callers; the remaining calls set up or wait behind. One
  address, at which all calls meet, and stakes 1 and 2 around `MinStake` = 2 give
  repeated votes and both sides of each test; votes of several voters add up
  independently, and the theorem about the tally covers them. Three IDs with two contents each against a cache of two that
  drops one (`EvictPart` = 2; 1/5 of 10000 in the code) give eviction and an ID that
  comes back with another content. Gas of 3, 5 and 13 modulo `Word` = 16 under a
  limit of 7: a pair that does not fit, and a sum that wraps.

Deadlock checking is off everywhere because each of these systems may come to
rest: the inputs are finite and the process can end (search answered, all events
stored, panic). That nothing stops too early is what the liveness properties say.

### Fairness

* `AncestorSearch!FairSpec`: the loop of a running goroutine goes on.
* `EngineFairSpec`: weak fairness of `EventLoop` (processEvents) and of the consensus goroutine.
  Both are goroutines (or tickers) that the Go scheduler runs when they can run.
  Callers of `AddEvent` and `Stop`, `createBlocks` and the runtime's race detection
  get none.
* `RunningSpec`: the same without `Stop` and without a crash, so that
  `engine_tick` shows a fair behaviour of a healthy engine.
* `ParallelProcessor!FairSpec`: weak fairness of each worker, of the result
  processor and of a `Stop` that has begun, and strong fairness of a worker's send:
  Go queues the senders blocked on a channel first in, first out, so none is
  overtaken for ever.
* `NetFairSpec`: weak fairness of libp2p's announcements, of the clock, of the cleanup
  ticker and of the goroutine that takes messages. Connecting, closing, gossiping and
  `Stop` get none, and neither do the senders.
* `NodeFairSpec`: weak fairness of the steps of every goroutine that is in a call.
  Making a call gets none.

## 4. Proofs

Every invariant and every action property that a passing run checks is also a
theorem; TLC checks the rest, which is liveness. The theorems hold for every value of
the constants that satisfies the named assumptions:

* `HeadersAssumption` (headers are well formed), `EventIDAssumption` (the set of IDs is
  finite, so that cardinalities are numbers), `BlockMsAssumption` (the block time is a
  positive number of milliseconds), `NoEventAssumption` (the mark for "none" is no ID), `MapsAssumption` (the searched maps are event maps);
* voting and the engine: `MinVotesAssumption` (at least two votes are asked for; the
  code asks for three), `VoteRoundsAssumption`, `CurrentRoundAssumption` (the rounds asked
  about are numbers, and the engine's one is among them), `ClothoAssumption`,
  `CapAssumption` (the queue has a place);
* the parallel processor: `WorkAssumption` (events and tasks, and the two kinds of
  workers, are different things) and `ChannelAssumption` (channels have a place);
* the token: `AddressAssumption`, `CallersAssumption` (finitely many accounts and
  callers, so that sums exist), `AmountsAssumption` (amounts are integers, the total
  supply is a natural number), `GroupsAssumption` (percentages are natural numbers);
* the network: `PeerAssumption`, `SlotAssumption`, `NetAssumption` (finitely many peers,
  connections belong to peers, bounds are numbers);
* the node: `MaxCallsAssumption`, `StakesAssumption` (stakes are natural
  numbers, balances integers), `WindowAssumption`,
  `CacheAssumption` (a limit, and a part greater than one that a full cache drops),
  `TxAssumption` (gas and limits are machine words, and a limit is below half of the
  range; 30 million against 2^64 in the code).

* **`AncestorSearchProofs`.** `AncestorSearchCorrect`: a search that has ended
  answers `IsAncestor`. `AnswerCorrect` is not inductive: a "no" is right only
  because the visited set is closed. `SearchInv` adds that everything met lies in
  every parent-closed set around the descendant (so "yes" is right), that the
  target has not been visited, and that visited and frontier together are closed
  (so with an empty frontier the visited set is a parent-closed set without the
  target, and "no" is right).
* **`RoundAssignmentProofs`.** `RoundInvariant`: `RoundSpec => []RoundInv`, and from
  it one theorem per invariant the run `rounds` checks: `RoundTypes`,
  `RoundsHaveRoots`, `WitnessesKept`, `RootsKept`, `NoRoundGap`, `RoundsSupported`.
  What makes the race between store and visit harmless for `EveryRoundHasRoot` is
  `RoundsOpened`: a visit that is about to create the entry of round *r* is the first
  to make a root of round *r*, and a store about to create it the first to store an
  event of Lamport round *r*. So an entry is created at most twice, once by each side;
  whoever creates it second empties it and then registers its own event in it, a visit
  as witness and root, a store as the only witness of the entry, which therefore is a
  root (`LoneWitnessIsRoot`, a cardinality argument). `VisitFills` and `StoreFills` say
  that this is under way. What the other side had entered is lost, and the two
  properties `WitnessLostOnlyToPass` and `RootLostOnlyToStore` say that nothing else
  loses it: whenever an earliest event is missing, the entry lists a root of that round
  that a visit has put there, and conversely. `RoundsContiguous` needs that a parent
  counted as a root stays in its round, hence the test `Unassigned` in the guard of a
  visit. `LastRoundFollowsStore` needs types only, and that a pass leaves Lamport times
  alone.
* **`SinarTokenProofs`.** `NoOverdraft`: a balance is negative only in an account that
  has received a negative amount, for any number of callers, addresses and calls and for
  any integers as amounts. The test of a balance and the subtraction
  are several steps apart, and in between others may change it; the proof shows that
  this is harmless for *this* property, because a debit writes the tested value
  minus the amount. The invariant `TokenInv` (theorem `TokenInvariant`) says so: a call
  about to debit has read at least the amount, and one about to credit has read a
  negative balance only in an account that is drained already (`Covered`).
  `DebitInPlace`, which subtracts from the current balance, breaks it.
  `TransfersConserve` and `SupplyIsSettled` are action properties about calls that do
  not overlap. `SerialInv` (`SerialInvariant`) is what they need: every call is at a
  step of its own operation (`WellPlaced`), and until two calls have overlapped one is
  in progress and what it has read is what the accounts hold (`Fresh`): the balance it
  will write back, and the running total, which is the sum over the accounts it has
  visited in whatever order. One lemma, `StepFacts`, goes through the steps of a call:
  a debit moves the amount from the balances into flight, a credit back, and the last
  assignment of a transfer or a distribution is the whole sum.
* **`SumProofs`.** What the folds of the community modules compute. A fold is chosen by
  its recursive equation; that the equation has a solution, and one only, is induction
  over the subsets of a finite set. The induction theorems of the library take an
  operator, which the installed provers cannot instantiate, so induction is stated about
  a *set* here: the sizes of the subsets that break a claim have a least element
  (`LeastNumber`, from `WFMin`), hence `SubsetInduction`. From it follow `SumType`,
  `SumSplit`, `SumAdd`, `SumMonotone`, `SumChange`, `SumModulo`.
* **The store (in `RoundAssignmentProofs`).**
  `StoreRefinesLedger`: the refinement `StoreIsWriteOnce`. Every initial state maps to
  an empty ledger, a store to a ledger step or a stutter, and everything else, which
  writes consensus fields of stored events, to a stutter.
* **`ConsensusProofs`.** `FameInvariant`: `ClothoSpec => []FameInv`. `FameInert` is not
  inductive: that a witness is not found famous rests on the number of its votes. The
  invariant adds that votes are keyed by witness and round (`PairKeys`), that voting in
  progress keeps the passes out (`VoteLocked`: they share `ce.mu`), so that a witness on
  the ballot is still of the round voted on and its vote counts itself, and that no
  event is famous (`NobodyFamous`). With at most one vote per witness and two asked
  for, nothing is decided (`FameStaysInert`), every vote is a yes (`EveryVoteYes`) and
  every selection empty (`NoClotho`). With `MinVotes` = 1 the proof fails, and so does
  the engine: `decideRound` then locks `fv.mu` again.
  `EngineInvariant`: `EngineSpec => []EngineInv` for the composed engine, with
  submissions, the store, its race with the passes, panics and `Stop` at any time.
  `FameInv` carries over because a pass runs only in the stage `rounds` and a vote only
  in `voting` (`StageLocks`). `NothingFinalized` alone is not inductive: finality
  promotes what it finds in the lists of Clothos, the table's or the ones in its cache,
  and the cache outlives the table's state. `Barren` says that both are without a Clotho,
  that no event is an Atropos and that no block was made; then `FinalizeRound` changes
  its cache and nothing else (`NothingPromoted`). From it `NothingFinal` and
  `EngineTypes`.
* **`ProcessorProofs`.** `ProcessorConserves`: for every piece of work the copies in the
  three channels, in the hands of workers and result processor, handled and dropped add
  up to one if it was offered and to none if not. As an invariant it needs that a
  goroutine has work in hand exactly between taking and passing it on (`HandsFull`), and
  that before `Start` there is no goroutine (`NotStarted`): `ProcInv`, with the types of
  `ProcessorTypes`. Copies in a channel are cardinalities of index sets; the lemmas say
  what `Append` and `Tail` do to them, and each step moves one copy from one place to
  another or leaves the places alone.
* **`NetworkProofs`.** `NetworkTyped`, `PeersCounted`, `PeersConnected`: the three
  invariants of the run are inductive together. The counters stay above the map because
  an entry made adds one, an entry removed by a callback takes one off and was counted,
  and one removed by the cleanup leaves them alone (cardinalities of the peer map).
* **`NodeProofs`.** `NodeInvariant`, `NoStake`, `EmptyChain`: for any number of
  goroutines and calls. The invariant says that whoever runs a body holds the write lock
  of that body (`LocksHeld`), so that its own second lock cannot be had; what follows
  that lock is unreachable, and validators, blocks and the rounds of the chain's DAG keep
  their initial values. (Balances do not: `SetSINARBalance` needs no second lock.)
  `HandlesStored`: until two goroutines make accounts at once there
  is one maker, and the account it did not find is still missing (`OneMaker`), with a
  handle that is not set yet (`MakersAsk`).
  `CacheWithinLimit`: a limit of at least `EvictPart` makes a full cache drop something
  before it takes an entry. `CacheCoherent`: every ID stored through the engine was
  cached or has been dropped, by eviction or by `ClearCache` (`StoredIsCached`), so an ID that is neither cached nor
  dropped is new to both, or came through `DAG.AddEvent`.
  `VotesCovered`: a vote cast again replaces a stake on record and adds to the tally, so
  each of the three counts stays at or above its sum; the invariant `TallyInv` keeps them
  apart, and the total above the two sides together (`StakeIn`, sums over the ballots).
  `GasWithinLimit`: the count is kept modulo the word size. As long as no transaction
  exceeds the limit by itself, and the limit is below half a word, the count before each
  test is the true sum and the sum tested does not wrap; the proof is an induction along
  the selection, through the prefix at which the sum first exceeds the limit.
  `BestPaidTaken`: the selection is a prefix of a sorted order of the pool, and what is
  left stands behind it. `NodeTypes` puts the invariants of the parts together.

Only model-checked: liveness (`SearchTerminates`, `AcceptedIsStored`,
`FirstPassCompletes`, `AcceptedIsHandled`, `StopTerminates`, `QueuedIsTaken`,
`SilentPeerForgotten`, `CallsReturn`), which with fairness and ENABLED is beyond this
prover. No module declares a RECURSIVE operator. What the proofs say of recursive
definitions is what the set form of induction in `SumProofs` gives.

## 5. Not modelled

* Signatures, RLP encodings, wall-clock times, statistics and logging; block contents.
* The EVM and libp2p (external); HTTP and JSON (pure I/O). The API's handlers call the
  operations modelled here; its rate limiter is left out.
* The stream handlers of the network, which are never registered; the bandwidth figure,
  which is always zero; the high- and low-priority queues, to which nothing sends.
* The validator set and the engine's second validator map: map operations with one guard
  each, under one lock. `NewValidator` never sets the address, so the second map has at
  most one entry, and only a getter reads it.
* The memory optimizer: nothing is ever given back to a pool, so nothing is reused.
* The scans of `isWitness` and `isRoot` over the events and the witnesses are one step
  with the registration they decide. Votes are taken with non-negative stakes, which
  `Vote` leaves to its callers. The rounding in finality's threshold is not reached.
* The exchange sort of the pool is given by its postcondition, a permutation in
  descending order of price.
* Memory effects of Go data races beyond the concurrent map accesses named above.

## 6. Plan

Done, in this order: `EventDag`, `AncestorSearch`, `Poset` with `EventLedger`,
`RoundAssignment` with its proofs, `FameVoting`, `ClothoSelector`,
`FinalityEngine`, `ConsensusEngine`, `ParallelProcessor`, `SinarToken` with its
proof; `StateDB`, `Blockchain`, `TxPool` and `CacheManager` composed in `Node`, and
`Network`, with their proofs; the proofs about the store, voting, selection, the engine
and the parallel processor; sums, and with them the proofs about the token, the tally and
the gas of a block; then the round table at the grain of its accesses, amounts of either sign,
`SetSINARBalance` and `ClearCache`, with the proofs redone.

Left: the API's rate limiter; the engine's refinement of an abstract pipeline of stages.
