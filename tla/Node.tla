--------------------------------- MODULE Node ---------------------------------
(***************************************************************************)
(* The components a node's goroutines call into side by side: the state    *)
(* database, the block chain with the DAG, the transaction pool, and the   *)
(* engine's cache in front of the store of events, which the poset and the *)
(* DAG share.                                                              *)
(***************************************************************************)
EXTENDS StateDB, Blockchain, TxPool, CacheManager

nodeVars == <<goVars, stateVars, chainVars, poolVars, cacheVars>>

NodeInit == GoInit /\ StateInit /\ ChainInit /\ PoolInit /\ CacheInit

(* processEvents takes event e with body b from the engine's queue: cache, *)
(* duplicate check, Poset.AddEvent.                                        *)
ProcessEvent(e, b) ==
    /\ CacheEvent(e, b)
    /\ IF e \in DOMAIN dag THEN UNCHANGED chainVars ELSE PosetStores(e, GetEvent(e, b))

(* The steps of goroutine g in a call. *)
Step(g) == /\ \/ StateStep(g) /\ UNCHANGED chainVars
              \/ ChainStep(g) /\ UNCHANGED stateVars
           /\ UNCHANGED <<poolVars, cacheVars>>

(* Goroutine g begins a call, or dies in one. *)
Start(g) == /\ \/ CallState(g) /\ UNCHANGED chainVars
               \/ MapRace(g) /\ UNCHANGED chainVars
               \/ CallChain(g) /\ UNCHANGED stateVars
            /\ UNCHANGED <<poolVars, cacheVars>>

(* What the engine and the users of the pool do, in one step each. *)
Elsewhere == /\ ShortCall
             /\ \/ /\ \E e \in Event, b \in Body : ProcessEvent(e, b)
                   /\ UNCHANGED poolVars
                \/ /\ \E e \in Event : FinalityMarks(e)
                   /\ UNCHANGED <<poolVars, cacheVars>>
                \/ ClearCache /\ UNCHANGED <<poolVars, chainVars>>
                \/ PoolStep /\ UNCHANGED <<chainVars, cacheVars>>
             /\ UNCHANGED stateVars

NodeNext == (\E g \in Caller : Step(g) \/ Start(g)) \/ Elsewhere

NodeSpec == NodeInit /\ [][NodeNext]_nodeVars

(* The Go scheduler runs every goroutine that can run. *)
NodeFairSpec == NodeSpec /\ \A g \in Caller : WF_nodeVars(Step(g))

-----------------------------------------------------------------------------
(* Types of the components' state: mutexes and calls well formed, the      *)
(* proposal's tally without a negative part (state.go:597-606).            *)
NodeTypeOK == GoTypeOK(StateOps \cup ChainOps) /\ StateTypeOK /\ ChainTypeOK /\ PoolTypeOK

(* A cached event is in the store, and it is the stored one unless the     *)
(* cache has dropped its ID before or DAG.AddEvent has put another event   *)
(* with that ID there (consensus.go:417-431, dag.go:34).                   *)
CacheMatchesStore ==
    \A id \in DOMAIN eventCache :
        /\ id \in DOMAIN dag
        /\ id \notin evicted \cup direct => eventCache[id] = dag[id]

(* A call that will not return: it waits for the lock it holds, or is about *)
(* to (AddBlock).                                                          *)
Lost(g) == call[g].at = "stuck" \/ In(g, "ProcessAtroposEvents", "lock")

(* Every call returns, unless the process dies or a call of the same       *)
(* component has locked itself out: no other order of calls, errors and    *)
(* waiting writers blocks a caller for ever, and the state database and    *)
(* the chain do not block each other (state.go:309, blockchain.go:408,     *)
(* dag.go:26).  The calls are finitely many, so a component none of whose  *)
(* calls is for ever under way comes to rest.                              *)
CallsReturn ==
    []<>(died \/ \A ops \in {StateOps, ChainOps} :
                    \/ \A g \in Caller : call[g].op \notin ops
                    \/ \E h \in Caller : call[h].op \in ops /\ Lost(h))

=============================================================================
