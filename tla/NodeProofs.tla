------------------------------ MODULE NodeProofs ------------------------------
(***************************************************************************)
(* What holds in every run of a node, for any number of goroutines, calls, *)
(* addresses, events and transactions: the calls that take a lock twice    *)
(* never get past the second one; what GetAccount hands out; the event     *)
(* cache against the store; the tally against the votes; what is selected  *)
(* for a block; and the types.                                             *)
(***************************************************************************)
EXTENDS Node, SumProofs, FiniteSetTheorems, TLAPS

(* The lock under which a call runs its body. *)
LockOf(op) == IF op = "AddEvent" THEN "dag"
              ELSE IF op = "ProcessAtroposEvents" THEN "chain" ELSE "state"

(* A goroutine in the body of a call holds the lock of that call. *)
LocksHeld == \A g \in Caller : call[g].at = "body" => mu[LockOf(call[g].op)].writer = {g}

GoInv == GoTypeOK(StateOps \cup ChainOps) /\ LocksHeld

CallRec == [op : StateOps \cup ChainOps \cup {"none"}, at : Pc]

-----------------------------------------------------------------------------
(* What goroutines do to the locks. *)

LEMMA LockOfLock == \A op : LockOf(op) \in Lock
BY DEF LockOf, Lock

(* Who holds the lock of its body cannot have it again. *)
LEMMA LockedOut ==
    ASSUME GoInv, NEW g \in Caller, call[g].at = "body"
    PROVE  /\ ~CanRLock(mu[LockOf(call[g].op)])
           /\ ~CanLock(mu[LockOf(call[g].op)], g)
BY DEF GoInv, LocksHeld, CanRLock, CanLock, CanTryLock

(* A step of g that leaves no body entered and no writer changed. *)
LEMMA MoveInv ==
    ASSUME GoInv, NEW g \in Caller,
           call' \in [Caller -> CallRec], mu' \in [Lock -> Mutex(Caller)],
           calls' \in 0..MaxCalls, died' \in BOOLEAN,
           call'[g].at # "body",
           \A h \in Caller \ {g} : call'[h] = call[h],
           \A l \in Lock : mu'[l].writer = mu[l].writer
    PROVE  GoInv'
BY LockOfLock DEF GoInv, GoTypeOK, LocksHeld, CallRec

LEMMA GoToFacts ==
    ASSUME call \in [Caller -> CallRec], NEW g \in Caller, NEW at \in Pc, GoTo(g, at)
    PROVE  /\ call' \in [Caller -> CallRec]
           /\ call'[g].at = at
           /\ call'[g].op = call[g].op
           /\ \A h \in Caller \ {g} : call'[h] = call[h]
BY DEF GoTo, CallRec

LEMMA ReturnFacts ==
    ASSUME call \in [Caller -> CallRec], NEW g \in Caller, Return(g)
    PROVE  /\ call' \in [Caller -> CallRec]
           /\ call'[g].at = "idle"
           /\ \A h \in Caller \ {g} : call'[h] = call[h]
<1>1. Idle \in CallRec /\ Idle.at = "idle"
  BY DEF Idle, CallRec, Pc
<1>2. call' = [call EXCEPT ![g] = Idle]
  BY DEF Return
<1> QED BY <1>1, <1>2

LEMMA RLockFacts ==
    ASSUME mu \in [Lock -> Mutex(Caller)], NEW g \in Caller, NEW k \in Lock,
           TakeRLock(g, k) \/ DropRLock(g, k)
    PROVE  /\ mu' \in [Lock -> Mutex(Caller)]
           /\ \A l \in Lock : mu'[l].writer = mu[l].writer
<1>1. \A m \in Mutex(Caller) :
        /\ RLocked(m, g) \in Mutex(Caller) /\ RLocked(m, g).writer = m.writer
        /\ RUnlocked(m, g) \in Mutex(Caller) /\ RUnlocked(m, g).writer = m.writer
  BY DEF Mutex, RLocked, RUnlocked
<1>2. CASE TakeRLock(g, k)
  <2>1. mu' = [mu EXCEPT ![k] = RLocked(mu[k], g)]
    BY <1>2 DEF TakeRLock
  <2> QED BY <1>1, <2>1
<1>3. CASE DropRLock(g, k)
  <2>1. mu' = [mu EXCEPT ![k] = RUnlocked(mu[k], g)]
    BY <1>3 DEF DropRLock
  <2> QED BY <1>1, <2>1
<1> QED BY <1>2, <1>3

LEMMA BeginInv ==
    ASSUME GoInv, NEW g \in Caller, NEW op \in StateOps \cup ChainOps, NEW at \in Pc \ {"body"},
           Begin(g, op, at)
    PROVE  GoInv'
<1>1. call \in [Caller -> CallRec] /\ mu \in [Lock -> Mutex(Caller)]
  BY DEF GoInv, GoTypeOK, CallRec
<1>2. /\ call' \in [Caller -> CallRec]
      /\ call'[g].at # "body"
      /\ \A h \in Caller \ {g} : call'[h] = call[h]
  BY <1>1 DEF Begin, CallRec
<1>3. calls' \in 0..MaxCalls /\ died' \in BOOLEAN /\ mu' = mu
  BY MaxCallsAssumption DEF Begin, GoInv, GoTypeOK
<1> QED BY <1>1, <1>2, <1>3, MoveInv

LEMMA TakeLockInv ==
    ASSUME GoInv, NEW g \in Caller, NEW l \in Lock, l = LockOf(call[g].op), TakeLock(g, l)
    PROVE  GoInv'
<1>1. call \in [Caller -> CallRec] /\ mu \in [Lock -> Mutex(Caller)]
  BY DEF GoInv, GoTypeOK, CallRec
<1>2. /\ mu[l].writer = {}
      /\ mu' = [mu EXCEPT ![l] = TriedLock(mu[l], g)]
      /\ calls' \in 0..MaxCalls /\ died' \in BOOLEAN
  BY DEF TakeLock, CanTryLock, GoInv, GoTypeOK
<1>3. TriedLock(mu[l], g) \in Mutex(Caller)
  BY <1>1 DEF Mutex, TriedLock
<1>4. mu' \in [Lock -> Mutex(Caller)] /\ \A k \in Lock \ {l} : mu'[k] = mu[k]
  BY <1>1, <1>2, <1>3
<1>5. CASE CanLock(mu[l], g)
  <2>1. mu'[l].writer = {g}
    <3>1. mu[l].readers = {} /\ mu[l] \in Mutex(Caller)
      BY <1>1, <1>5 DEF CanLock
    <3> QED BY <1>1, <1>2, <3>1 DEF TriedLock, Mutex
  <2>2. /\ call' \in [Caller -> CallRec] /\ call'[g].op = call[g].op
        /\ \A h \in Caller \ {g} : call'[h] = call[h]
    BY <1>1, <1>5, GoToFacts DEF TakeLock, Pc
  <2>3. LocksHeld'
    <3> SUFFICES ASSUME NEW h \in Caller, call'[h].at = "body"
                 PROVE  mu'[LockOf(call'[h].op)].writer = {h}
      BY DEF LocksHeld
    <3>1. CASE h = g
      BY <2>1, <2>2, <3>1
    <3>2. CASE h # g
      <4>1. mu[LockOf(call[h].op)].writer = {h} /\ call'[h] = call[h]
        BY <2>2, <3>2 DEF GoInv, LocksHeld
      <4> QED BY <1>2, <1>4, <4>1, LockOfLock
    <3> QED BY <3>1, <3>2
  <2> QED BY <1>2, <1>4, <2>2, <2>3 DEF GoInv, GoTypeOK, CallRec
<1>6. CASE ~CanLock(mu[l], g)
  <2>1. mu'[l].writer = {}
    <3>1. mu[l].readers # {} /\ mu[l] \in Mutex(Caller)
      BY <1>1, <1>6 DEF CanLock, TakeLock
    <3> QED BY <1>1, <1>2, <3>1 DEF TriedLock, Mutex
  <2>2. call' = call /\ call'[g].at # "body"
    BY <1>6 DEF TakeLock
  <2> QED BY <1>1, <1>2, <1>4, <2>1, <2>2, MoveInv
<1> QED BY <1>5, <1>6

(* Release by the holder. *)
LEMMA FinishInv ==
    ASSUME GoInv, NEW g \in Caller, call[g].at = "body",
           NEW l \in Lock, l = LockOf(call[g].op), Finish(g, l)
    PROVE  GoInv'
<1>1. call \in [Caller -> CallRec] /\ mu \in [Lock -> Mutex(Caller)] /\ mu[l].writer = {g}
  BY DEF GoInv, GoTypeOK, CallRec, LocksHeld
<1>2. /\ mu' = [mu EXCEPT ![l] = Released(mu[l])]
      /\ calls' \in 0..MaxCalls /\ died' \in BOOLEAN
  BY DEF Finish, GoInv, GoTypeOK
<1>3. Released(mu[l]) \in Mutex(Caller)
  BY <1>1 DEF Mutex, Released
<1>4. mu' \in [Lock -> Mutex(Caller)] /\ \A k \in Lock \ {l} : mu'[k] = mu[k]
  BY <1>1, <1>2, <1>3
<1>5. /\ call' \in [Caller -> CallRec] /\ call'[g].at = "idle"
      /\ \A h \in Caller \ {g} : call'[h] = call[h]
  BY <1>1, ReturnFacts DEF Finish
<1>6. LocksHeld'
  <2> SUFFICES ASSUME NEW h \in Caller, call'[h].at = "body"
               PROVE  mu'[LockOf(call'[h].op)].writer = {h}
    BY DEF LocksHeld
  <2>1. h # g
    BY <1>5
  <2>2. mu[LockOf(call[h].op)].writer = {h} /\ call'[h] = call[h]
    BY <1>5, <2>1 DEF GoInv, LocksHeld
  <2> QED BY <1>1, <1>4, <2>1, <2>2, LockOfLock
<1> QED BY <1>2, <1>4, <1>5, <1>6 DEF GoInv, GoTypeOK, CallRec

LEMMA HangInv ==
    ASSUME GoInv, NEW g \in Caller, Hang(g)
    PROVE  GoInv'
<1>1. call \in [Caller -> CallRec] /\ mu' = mu /\ calls' = calls /\ died' = died
  BY DEF Hang, GoInv, GoTypeOK, CallRec
<1>2. /\ call' \in [Caller -> CallRec] /\ call'[g].at # "body"
      /\ \A h \in Caller \ {g} : call'[h] = call[h]
  BY <1>1, GoToFacts DEF Hang, Pc
<1> QED BY <1>1, <1>2, MoveInv DEF GoInv, GoTypeOK

-----------------------------------------------------------------------------
(* The state database. *)

StakeInv == balance \in [Address -> Int] /\ NoValidators

LEMMA SameStake ==
    ASSUME StakeInv, UNCHANGED <<balance, validators>>
    PROVE  StakeInv'
BY DEF StakeInv, NoValidators

LEMMA StateOpsFacts ==
    \A op \in Plain \cup Nesting : op \in StateOps /\ LockOf(op) = "state"
BY DEF Plain, Nesting, StateOps, LockOf

LEMMA CallStateInv ==
    ASSUME GoInv, StakeInv, NEW g \in Caller, CallState(g)
    PROVE  GoInv' /\ StakeInv'
<1>1. UNCHANGED <<balance, validators>>
  BY DEF CallState, stateVars, dataVars
<1>2. CASE \E op \in Finders : Begin(g, op, "rlock")
  <2>1. PICK op \in Finders : Begin(g, op, "rlock")
    BY <1>2
  <2>2. op \in StateOps /\ "rlock" \in Pc \ {"body"}
    BY DEF Pc, StateOps
  <2> QED BY <1>1, <2>1, <2>2, BeginInv, SameStake
<1>3. CASE \E op \in Plain \cup Nesting : Begin(g, op, "lock")
  <2>1. PICK op \in Plain \cup Nesting : Begin(g, op, "lock")
    BY <1>3
  <2>2. op \in StateOps /\ "lock" \in Pc \ {"body"}
    BY StateOpsFacts DEF Pc
  <2> QED BY <1>1, <2>1, <2>2, BeginInv, SameStake
<1> QED BY <1>2, <1>3 DEF CallState

(* GetAccount returns, to its caller or to SetSINARBalance. *)
LEMMA FoundFacts ==
    ASSUME call \in [Caller -> CallRec], NEW g \in Caller, Found(g)
    PROVE  /\ call' \in [Caller -> CallRec] /\ call'[g].at \notin {"body", "enter"}
           /\ \A h \in Caller \ {g} : call'[h] = call[h]
<1>1. CASE Return(g)
  BY <1>1, ReturnFacts
<1>2. CASE GoTo(g, "write")
  <2>1. "write" \in Pc
    BY DEF Pc
  <2> QED BY <1>2, <2>1, GoToFacts
<1> QED BY <1>1, <1>2 DEF Found

(* GetAccount: its two steps hold the read lock at most, and the write of  *)
(* SetSINARBalance holds none.                                             *)
LEMMA GetAccountInv ==
    ASSUME GoInv, StakeInv, NEW g \in Caller,
           LookUp(g) \/ Enter(g) \/ SetSINARBalance(g) \/ MapRace(g)
    PROVE  GoInv' /\ StakeInv'
<1>1. /\ call \in [Caller -> CallRec] /\ mu \in [Lock -> Mutex(Caller)]
      /\ calls \in 0..MaxCalls /\ died \in BOOLEAN /\ "state" \in Lock
  BY DEF GoInv, GoTypeOK, CallRec, Lock
<1>2. CASE LookUp(g)
  <2>1. UNCHANGED <<calls, died, balance, validators>>
    BY <1>2 DEF LookUp, dataVars
  <2>2. \/ Found(g) /\ mu' = mu
        \/ TakeRLock(g, "state") /\ GoTo(g, "enter")
    BY <1>2 DEF LookUp
  <2>3. CASE Found(g) /\ mu' = mu
    BY <1>1, <2>1, <2>3, FoundFacts, MoveInv, SameStake
  <2>4. CASE TakeRLock(g, "state") /\ GoTo(g, "enter")
    <3>1. "enter" \in Pc /\ "enter" # "body"
      BY DEF Pc
    <3>2. /\ call' \in [Caller -> CallRec] /\ call'[g].at = "enter"
          /\ \A h \in Caller \ {g} : call'[h] = call[h]
      BY <1>1, <2>4, <3>1, GoToFacts
    <3>3. mu' \in [Lock -> Mutex(Caller)] /\ \A l \in Lock : mu'[l].writer = mu[l].writer
      BY <1>1, <2>4, RLockFacts
    <3> QED BY <1>1, <2>1, <3>1, <3>2, <3>3, MoveInv, SameStake
  <2> QED BY <2>2, <2>3, <2>4
<1>3. CASE Enter(g)
  <2>1. UNCHANGED <<calls, died, validators>> /\ DropRLock(g, "state") /\ Found(g)
    BY <1>3 DEF Enter
  <2>2. GoInv'
    <3>1. mu' \in [Lock -> Mutex(Caller)] /\ \A l \in Lock : mu'[l].writer = mu[l].writer
      BY <1>1, <2>1, RLockFacts
    <3>2. /\ call' \in [Caller -> CallRec] /\ call'[g].at # "body"
          /\ \A h \in Caller \ {g} : call'[h] = call[h]
      BY <1>1, <2>1, FoundFacts
    <3> QED BY <1>1, <2>1, <3>1, <3>2, MoveInv
  <2>3. StakeInv'
    <3>1. balance' = [balance EXCEPT ![handle[g].address] = 0]
      BY <1>3 DEF Enter
    <3>2. balance' \in [Address -> Int]
      <4>1. \A f \in [Address -> Int], v \in Int : \A x : [f EXCEPT ![x] = v] \in [Address -> Int]
        OBVIOUS
      <4>2. balance \in [Address -> Int] /\ 0 \in Int
        BY DEF StakeInv
      <4> QED BY <3>1, <4>1, <4>2
    <3>3. DOMAIN validators' = {}
      BY <2>1 DEF StakeInv, NoValidators
    <3> QED BY <3>2, <3>3 DEF StakeInv, NoValidators
  <2> QED BY <2>2, <2>3
<1>4. CASE MapRace(g)
  <2>1. /\ call' = call /\ mu' = mu /\ calls' = calls /\ died' \in BOOLEAN
        /\ UNCHANGED <<balance, validators>>
    BY <1>4 DEF MapRace, stateVars, dataVars
  <2>2. call[g].at # "body"
    BY <1>4 DEF MapRace, Finding, In
  <2> QED BY <1>1, <2>1, <2>2, MoveInv, SameStake
<1>5. CASE SetSINARBalance(g)
  <2>1. /\ mu' = mu /\ calls' = calls /\ died' = died /\ validators' = validators
        /\ Return(g)
        /\ \/ balance' = balance
           \/ \E v \in Balances : balance' = [balance EXCEPT ![handle[g].address] = v]
    BY <1>5 DEF SetSINARBalance
  <2>2. GoInv'
    BY <1>1, <2>1, ReturnFacts, MoveInv
  <2>3. StakeInv'
    BY <2>1, StakesAssumption DEF StakeInv, NoValidators
  <2> QED BY <2>2, <2>3
<1> QED BY <1>2, <1>3, <1>4, <1>5

LEMMA LockStateInv ==
    ASSUME GoInv, StakeInv, NEW g \in Caller, LockState(g)
    PROVE  GoInv' /\ StakeInv'
<1>1. call[g].op \in Plain \cup Nesting /\ TakeLock(g, "state") /\ UNCHANGED <<balance, validators>>
  BY DEF LockState, stateVars, dataVars
<1>2. "state" \in Lock /\ LockOf(call[g].op) = "state"
  BY <1>1, StateOpsFacts DEF Lock
<1> QED BY <1>1, <1>2, TakeLockInv, SameStake

(* The body of a writer is locked out of the lock it holds, and may        *)
(* release it or hang.                                                     *)
LEMMA StateBody ==
    ASSUME GoInv, NEW g \in Caller, NEW op \in Plain \cup Nesting, In(g, op, "body")
    PROVE  /\ ~CanFindAccount
           /\ ~CanLock(mu["state"], g)
           /\ Done(g) => GoInv'
           /\ Hang(g) => GoInv'
<1>1. call[g].at = "body" /\ call[g].op = op /\ LockOf(op) = "state" /\ "state" \in Lock
  BY StateOpsFacts DEF In, Lock
<1>2. ~CanFindAccount /\ ~CanLock(mu["state"], g)
  BY <1>1, LockedOut DEF CanFindAccount
<1>3. ASSUME Done(g) PROVE GoInv'
  BY <1>1, <1>3, FinishInv DEF Done
<1>4. ASSUME Hang(g) PROVE GoInv'
  BY <1>4, HangInv
<1> QED BY <1>2, <1>3, <1>4

(* The writers that take the lock a second time. *)
LEMMA NestingInv ==
    ASSUME GoInv, StakeInv, NEW g \in Caller,
           \/ SetField(g) \/ CreateContract(g)
           \/ AddValidator(g) \/ RemoveValidator(g) \/ Delegate(g) \/ Undelegate(g)
    PROVE  GoInv' /\ StakeInv'
<1> DEFINE Stays == (Done(g) \/ Hang(g)) /\ UNCHANGED <<balance, validators>>
<1>1. ASSUME NEW op \in Plain \cup Nesting, In(g, op, "body"), Stays
      PROVE  GoInv' /\ StakeInv'
  BY <1>1, StateBody, SameStake
<1>2. \A v \in Address : v \notin DOMAIN validators
  BY DEF StakeInv, NoValidators
<1>3. CASE SetField(g)
  <2>1. In(g, "SetField", "body") /\ "SetField" \in Plain \cup Nesting
    BY <1>3 DEF SetField, Nesting
  <2>2. Stays
    BY <1>3, <2>1, StateBody DEF SetField, Wedge, stateVars, dataVars
  <2> QED BY <1>1, <2>1, <2>2
<1>4. CASE CreateContract(g)
  <2>1. In(g, "CreateContract", "body") /\ "CreateContract" \in Plain \cup Nesting
    BY <1>4 DEF CreateContract, Nesting
  <2>2. Stays
    BY <1>4, <2>1, StateBody DEF CreateContract, Wedge, stateVars, dataVars
  <2> QED BY <1>1, <2>1, <2>2
<1>5. CASE AddValidator(g)
  <2>1. In(g, "AddValidator", "body") /\ "AddValidator" \in Plain \cup Nesting
    BY <1>5 DEF AddValidator, Nesting
  <2>2. Stays
    BY <1>5, <2>1, StateBody DEF AddValidator, Refuse, Wedge, stateVars, dataVars
  <2> QED BY <1>1, <2>1, <2>2
<1>6. CASE RemoveValidator(g)
  <2>1. In(g, "RemoveValidator", "body") /\ "RemoveValidator" \in Plain \cup Nesting
    BY <1>6 DEF RemoveValidator, Nesting
  <2>2. Stays
    BY <1>6, <2>1, StateBody DEF RemoveValidator, Wedge, stateVars, dataVars
  <2> QED BY <1>1, <2>1, <2>2
<1>7. CASE Delegate(g)
  <2>1. In(g, "Delegate", "body") /\ "Delegate" \in Plain \cup Nesting
    BY <1>7 DEF Delegate, Nesting
  <2>2. Refuse(g)
    BY <1>2, <1>7 DEF Delegate
  <2>3. Stays
    BY <2>2 DEF Refuse, dataVars
  <2> QED BY <1>1, <2>1, <2>3
<1>8. CASE Undelegate(g)
  <2>1. In(g, "Undelegate", "body") /\ "Undelegate" \in Plain \cup Nesting
    BY <1>8 DEF Undelegate, Nesting
  <2>2. Refuse(g)
    BY <1>2, <1>8 DEF Undelegate
  <2>3. Stays
    BY <2>2 DEF Refuse, dataVars
  <2> QED BY <1>1, <2>1, <2>3
<1> QED BY <1>3, <1>4, <1>5, <1>6, <1>7, <1>8

(* The writers that take it once touch neither balances nor validators. *)
LEMMA PlainInv ==
    ASSUME GoInv, StakeInv, NEW g \in Caller,
           CreateProposal(g) \/ Vote(g) \/ IntermediateRoot(g) \/ Commit(g)
    PROVE  GoInv' /\ StakeInv'
<1>1. PICK op \in Plain : In(g, op, "body")
  BY DEF CreateProposal, Vote, IntermediateRoot, Commit, Plain
<1>2. Done(g) /\ UNCHANGED <<balance, validators>>
  BY DEF CreateProposal, Vote, Refuse, CastVote, IntermediateRoot, Commit, dataVars
<1> QED BY <1>1, <1>2, StateBody, SameStake

-----------------------------------------------------------------------------
(* The chain and the DAG. *)

LEMMA SameChain ==
    ASSUME ChainStaysEmpty, UNCHANGED <<blocks, latest, rounded>>
    PROVE  ChainStaysEmpty'
BY DEF ChainStaysEmpty

LEMMA CallChainInv ==
    ASSUME GoInv, ChainStaysEmpty, NEW g \in Caller, CallChain(g)
    PROVE  GoInv' /\ ChainStaysEmpty'
<1>1. UNCHANGED <<blocks, latest, rounded>>
  BY DEF CallChain, chainVars
<1>2. PICK op \in ChainOps, at \in Pc \ {"body"} : Begin(g, op, at)
  BY DEF CallChain, ChainOps, Pc
<1> QED BY <1>1, <1>2, BeginInv, SameChain

LEMMA ChainLockInv ==
    ASSUME GoInv, ChainStaysEmpty, NEW g \in Caller, LockDag(g) \/ LockChain(g)
    PROVE  GoInv' /\ ChainStaysEmpty'
<1>1. UNCHANGED <<blocks, latest, rounded>>
  BY DEF LockDag, LockChain, chainVars
<1>2. PICK l \in Lock : l = LockOf(call[g].op) /\ TakeLock(g, l)
  BY DEF LockDag, LockChain, LockOf, Lock
<1> QED BY <1>1, <1>2, TakeLockInv, SameChain

(* DAG.AddEvent refuses an event, or stores it and hangs. *)
LEMMA AddEventInv ==
    ASSUME GoInv, ChainStaysEmpty, NEW g \in Caller, AddEvent(g)
    PROVE  GoInv' /\ ChainStaysEmpty'
<1>1. call[g].at = "body" /\ LockOf(call[g].op) = "dag" /\ "dag" \in Lock
  BY DEF AddEvent, In, LockOf, Lock
<1>2. ~CanRLock(mu["dag"])
  BY <1>1, LockedOut
<1>3. (Finish(g, "dag") \/ Hang(g)) /\ UNCHANGED <<blocks, latest, rounded>>
  BY <1>2 DEF AddEvent
<1> QED BY <1>1, <1>3, FinishInv, HangInv, SameChain

(* AddBlock hangs. *)
LEMMA AddBlockInv ==
    ASSUME GoInv, ChainStaysEmpty, NEW g \in Caller, AddBlock(g)
    PROVE  GoInv' /\ ChainStaysEmpty'
<1>1. call[g].at = "body" /\ LockOf(call[g].op) = "chain" /\ "chain" \in Lock
  BY DEF AddBlock, In, LockOf, Lock
<1>2. ~CanRLock(mu["chain"])
  BY <1>1, LockedOut
<1>3. Hang(g) /\ UNCHANGED <<blocks, latest, rounded>>
  BY <1>2 DEF AddBlock
<1> QED BY <1>3, HangInv, SameChain

(* The readers. *)
LEMMA ChainReadInv ==
    ASSUME GoInv, ChainStaysEmpty, NEW g \in Caller,
           \/ ScanDag(g) \/ (\E e \in Event : Collect(g, e)) \/ ScanEnds(g)
           \/ CreateBlock(g) \/ SignBlock(g) \/ StatsLock(g) \/ StatsNested(g)
    PROVE  GoInv' /\ ChainStaysEmpty'
<1>1. /\ call \in [Caller -> CallRec] /\ mu \in [Lock -> Mutex(Caller)]
      /\ calls \in 0..MaxCalls /\ died \in BOOLEAN
  BY DEF GoInv, GoTypeOK, CallRec
<1>2. UNCHANGED <<blocks, latest, rounded, calls, died>>
  BY DEF ScanDag, Collect, ScanEnds, CreateBlock, SignBlock, StatsLock, StatsNested,
         chainVars, goVars
<1>3. /\ mu' \in [Lock -> Mutex(Caller)]
      /\ \A l \in Lock : mu'[l].writer = mu[l].writer
  <2>1. \/ mu' = mu
        \/ \E l \in Lock : TakeRLock(g, l) \/ DropRLock(g, l)
    BY DEF ScanDag, Collect, ScanEnds, CreateBlock, SignBlock, StatsLock, StatsNested,
           goVars, Lock
  <2> QED BY <1>1, <2>1, RLockFacts
<1>4. /\ call' \in [Caller -> CallRec] /\ call'[g].at # "body"
      /\ \A h \in Caller \ {g} : call'[h] = call[h]
  <2>1. \/ call' = call /\ call[g].at # "body"
        \/ Return(g)
        \/ \E at \in Pc \ {"body"} : GoTo(g, at)
    BY DEF ScanDag, Collect, ScanEnds, CreateBlock, SignBlock, StatsLock, StatsNested,
           goVars, In, Pc
  <2> QED BY <1>1, <2>1, ReturnFacts, GoToFacts
<1> QED BY <1>1, <1>2, <1>3, <1>4, MoveInv, SameChain

-----------------------------------------------------------------------------
(* The node. *)

NodeInv == GoInv /\ StakeInv /\ ChainStaysEmpty

LEMMA NodeInvInit == NodeInit => NodeInv
<1> SUFFICES ASSUME NodeInit PROVE NodeInv
  OBVIOUS
<1>1. GoInv
  <2>1. Idle \in CallRec /\ Idle.at # "body"
    BY DEF Idle, CallRec, Pc
  <2>2. Unlocked \in Mutex(Caller)
    BY DEF Unlocked, Mutex
  <2>3. /\ call = [g \in Caller |-> Idle] /\ mu = [l \in Lock |-> Unlocked]
        /\ calls = 0 /\ died = FALSE
    BY DEF NodeInit, GoInit
  <2>4. calls \in 0..MaxCalls
    BY <2>3, MaxCallsAssumption
  <2>5. died \in BOOLEAN
    BY <2>3
  <2> QED BY <2>1, <2>2, <2>3, <2>4, <2>5 DEF GoInv, GoTypeOK, LocksHeld, CallRec
<1>2. StakeInv
  BY DEF NodeInit, StateInit, StakeInv, NoValidators
<1>3. ChainStaysEmpty
  BY DEF NodeInit, ChainInit, ChainStaysEmpty
<1> QED BY <1>1, <1>2, <1>3 DEF NodeInv

LEMMA NodeInvStep == NodeInv /\ [NodeNext]_nodeVars => NodeInv'
<1> SUFFICES ASSUME NodeInv, [NodeNext]_nodeVars PROVE NodeInv'
  OBVIOUS
<1> USE DEF NodeInv
<1>1. ASSUME NEW g \in Caller, Step(g) PROVE NodeInv'
  <2>1. CASE StateStep(g) /\ UNCHANGED chainVars
    <3>1. GoInv' /\ StakeInv'
      BY <2>1, GetAccountInv, LockStateInv, NestingInv, PlainInv DEF StateStep
    <3>2. ChainStaysEmpty'
      BY <2>1, SameChain DEF chainVars
    <3> QED BY <3>1, <3>2
  <2>2. CASE ChainStep(g) /\ UNCHANGED stateVars
    <3>1. GoInv' /\ ChainStaysEmpty'
      BY <2>2, ChainLockInv, AddEventInv, AddBlockInv, ChainReadInv DEF ChainStep
    <3>2. StakeInv'
      BY <2>2, SameStake DEF stateVars, dataVars
    <3> QED BY <3>1, <3>2
  <2> QED BY <1>1, <2>1, <2>2 DEF Step
<1>2. ASSUME NEW g \in Caller, Start(g) PROVE NodeInv'
  <2>1. CASE (CallState(g) \/ MapRace(g)) /\ UNCHANGED chainVars
    <3>1. GoInv' /\ StakeInv'
      BY <2>1, CallStateInv, GetAccountInv
    <3>2. ChainStaysEmpty'
      BY <2>1, SameChain DEF chainVars
    <3> QED BY <3>1, <3>2
  <2>2. CASE CallChain(g) /\ UNCHANGED stateVars
    <3>1. GoInv' /\ ChainStaysEmpty'
      BY <2>2, CallChainInv
    <3>2. StakeInv'
      BY <2>2, SameStake DEF stateVars, dataVars
    <3> QED BY <3>1, <3>2
  <2> QED BY <1>2, <2>1, <2>2 DEF Start
<1>3. CASE Elsewhere
  <2>1. GoInv'
    <3>1. /\ call' = call /\ mu' = mu /\ died' = died
          /\ calls' \in 0..MaxCalls
      BY <1>3, MaxCallsAssumption DEF Elsewhere, ShortCall, GoInv, GoTypeOK
    <3> QED BY <3>1 DEF GoInv, GoTypeOK, LocksHeld
  <2>2. StakeInv'
    BY <1>3, SameStake DEF Elsewhere, stateVars, dataVars
  <2>3. UNCHANGED <<blocks, latest, rounded>>
    <3>1. CASE \E e \in Event, b \in Body : ProcessEvent(e, b)
      <4>1. PICK e \in Event, b \in Body : ProcessEvent(e, b)
        BY <3>1
      <4>2. PosetStores(e, GetEvent(e, b)) \/ UNCHANGED chainVars
        BY <4>1 DEF ProcessEvent
      <4> QED BY <4>2 DEF PosetStores, chainVars
    <3>2. CASE \E e \in Event : FinalityMarks(e)
      BY <3>2 DEF FinalityMarks
    <3>3. CASE UNCHANGED chainVars
      BY <3>3 DEF chainVars
    <3> QED BY <1>3, <3>1, <3>2, <3>3 DEF Elsewhere
  <2> QED BY <2>1, <2>2, <2>3, SameChain
<1>4. CASE UNCHANGED nodeVars
  <2>1. GoInv'
    BY <1>4 DEF nodeVars, goVars, GoInv, GoTypeOK, LocksHeld
  <2>2. StakeInv' /\ ChainStaysEmpty'
    BY <1>4, SameStake, SameChain DEF nodeVars, stateVars, dataVars, chainVars
  <2> QED BY <2>1, <2>2
<1> QED BY <1>1, <1>2, <1>3, <1>4 DEF NodeNext

(* The inductive invariant: who runs a body holds the lock of that body,   *)
(* and nothing behind a second lock has happened.                          *)
THEOREM NodeInvariant == NodeSpec => []NodeInv
<1>1. NodeInit => NodeInv
  BY NodeInvInit
<1>2. NodeInv /\ [NodeNext]_nodeVars => NodeInv'
  BY NodeInvStep
<1> QED BY <1>1, <1>2, PTL DEF NodeSpec

(* No validator is ever registered, for any number of callers, addresses   *)
(* and calls, although AddValidator says that it adds one (state.go:408):  *)
(* it waits for the lock it holds (state.go:417).  Nothing can therefore   *)
(* be delegated.                                                           *)
THEOREM NoStake == NodeSpec => []NoValidators
<1>1. NodeInv => NoValidators
  BY DEF NodeInv, StakeInv
<1> QED BY <1>1, NodeInvariant, PTL

(* No block joins the chain and no round is assigned through the DAG, for  *)
(* any number of callers, events and calls, although Atropos events are    *)
(* said to become blocks (doc.txt:41, blockchain.go:289) and DAG.AddEvent  *)
(* to assign the round (dag.go:34-35): AddBlock and DAG.AddEvent wait for  *)
(* the locks they hold (blockchain.go:191, dag.go:125).                    *)
THEOREM EmptyChain == NodeSpec => []ChainStaysEmpty
<1>1. NodeInv => ChainStaysEmpty
  BY DEF NodeInv
<1> QED BY <1>1, NodeInvariant, PTL

-----------------------------------------------------------------------------
(* Handles. *)

Making(g) == call[g].at = "enter"

(* Unless two goroutines have been making accounts at once, only one does, *)
(* and the account it has not found is still missing.                      *)
OneMaker == \A g \in Caller : Making(g) =>
                /\ accounts[handle[g].address] = Nobody
                /\ \A h \in Caller : Making(h) => h = g

HandleTypes ==
    /\ accounts \in [Address -> Caller \cup {Nobody}]
    /\ handle \in [Caller -> [address : Address \cup {Nobody}, account : Caller \cup {Nobody}]]

MakersAsk == \A g \in Caller : Making(g) => /\ handle[g].address \in Address
                                            /\ handle[g].account = Nobody

HandleInv == HandleTypes /\ MakersAsk /\ (overlapped \/ OneMaker) /\ HandleIsStored

(* A step of g that makes no account and sends nobody to make one. *)
Quiet(g) == /\ UNCHANGED <<accounts, handle, overlapped>>
            /\ \/ UNCHANGED call
               \/ Return(g)
               \/ \E at \in Pc \ {"enter"} : GoTo(g, at)
               \/ \E op \in StateOps \cup ChainOps, at \in Pc \ {"enter"} : Begin(g, op, at)

LEMMA QuietInv ==
    ASSUME GoInv, HandleInv, NEW g \in Caller, Quiet(g)
    PROVE  HandleInv'
<1>1. call \in [Caller -> CallRec]
  BY DEF GoInv, GoTypeOK, CallRec
<1>2. \A h \in Caller : Making(h)' => Making(h)
  <2>1. CASE UNCHANGED call
    BY <2>1 DEF Making
  <2>2. CASE Return(g)
    BY <1>1, <2>2, ReturnFacts DEF Making
  <2>3. CASE \E at \in Pc \ {"enter"} : GoTo(g, at)
    BY <1>1, <2>3, GoToFacts DEF Making
  <2>4. CASE \E op \in StateOps \cup ChainOps, at \in Pc \ {"enter"} : Begin(g, op, at)
    BY <1>1, <2>4 DEF Making, Begin, CallRec
  <2> QED BY <2>1, <2>2, <2>3, <2>4 DEF Quiet
<1>3. accounts' = accounts /\ handle' = handle /\ (overlapped' <=> overlapped)
  BY DEF Quiet
<1>4. HandleTypes' /\ MakersAsk'
  BY <1>2, <1>3 DEF HandleInv, HandleTypes, MakersAsk
<1>5. OneMaker => OneMaker'
  BY <1>2, <1>3 DEF OneMaker
<1>6. HandleIsStored'
  BY <1>3 DEF HandleInv, HandleIsStored
<1> QED BY <1>3, <1>4, <1>5, <1>6 DEF HandleInv

LEMMA LookUpInv ==
    ASSUME GoInv, HandleInv, NEW g \in Caller, LookUp(g)
    PROVE  HandleInv'
<1>1. call \in [Caller -> CallRec] /\ "enter" \in Pc /\ call[g].at = "rlock"
  BY DEF GoInv, GoTypeOK, CallRec, Pc, LookUp, Finding, In
<1>2. PICK a \in Address :
        /\ handle' = [handle EXCEPT ![g] = [address |-> a, account |-> accounts[a]]]
        /\ IF accounts[a] # Nobody
           THEN Found(g) /\ overlapped' = overlapped
           ELSE /\ GoTo(g, "enter")
                /\ overlapped' = (overlapped \/ \E o \in Caller : call[o].at = "enter")
  BY DEF LookUp
<1>3. accounts' = accounts
  BY DEF LookUp, dataVars
<1>4. /\ handle' \in [Caller -> [address : Address \cup {Nobody}, account : Caller \cup {Nobody}]]
      /\ handle'[g].address = a /\ handle'[g].account = accounts[a]
      /\ \A h \in Caller \ {g} : handle'[h] = handle[h]
  BY <1>2 DEF HandleInv, HandleTypes
<1>5. HandleTypes' /\ HandleIsStored'
  <2>1. HandleTypes'
    BY <1>3, <1>4 DEF HandleInv, HandleTypes
  <2>2. overlapped => overlapped'
    BY <1>2
  <2>3. (\A h \in Caller : handle[h].account # Nobody
                              => accounts[handle[h].address] = handle[h].account)
        => (\A h \in Caller : handle'[h].account # Nobody
                              => accounts'[handle'[h].address] = handle'[h].account)
    BY <1>3, <1>4
  <2> QED BY <2>1, <2>2, <2>3 DEF HandleInv, HandleIsStored
<1>6. \A h \in Caller \ {g} : Making(h)' <=> Making(h)
  BY <1>1, <1>2, FoundFacts, GoToFacts DEF Making
<1>7. CASE accounts[a] # Nobody
  <2>1. ~Making(g)' /\ (overlapped' <=> overlapped)
    BY <1>1, <1>2, <1>7, FoundFacts DEF Making
  <2>2. MakersAsk'
    BY <1>4, <1>6, <2>1 DEF HandleInv, MakersAsk
  <2>3. OneMaker => OneMaker'
    BY <1>3, <1>4, <1>6, <2>1 DEF OneMaker
  <2> QED BY <1>5, <2>1, <2>2, <2>3 DEF HandleInv
<1>8. CASE accounts[a] = Nobody
  <2>1. MakersAsk'
    BY <1>4, <1>6, <1>8 DEF HandleInv, MakersAsk
  <2>2. overlapped' <=> (overlapped \/ \E o \in Caller : Making(o))
    BY <1>2, <1>8 DEF Making
  <2>3. ASSUME ~\E o \in Caller : Making(o) PROVE OneMaker'
    BY <1>3, <1>4, <1>6, <1>8, <2>3 DEF OneMaker
  <2> QED BY <1>5, <2>1, <2>2, <2>3 DEF HandleInv
<1> QED BY <1>7, <1>8

LEMMA EnterInv ==
    ASSUME GoInv, HandleInv, NEW g \in Caller, Enter(g)
    PROVE  HandleInv'
<1> DEFINE a == handle[g].address
<1>1. call \in [Caller -> CallRec] /\ Making(g) /\ a \in Address
  BY DEF GoInv, GoTypeOK, CallRec, HandleInv, MakersAsk, Making, Enter, Finding, In
<1>2. /\ accounts' = [accounts EXCEPT ![a] = g]
      /\ handle' = [handle EXCEPT ![g].account = g]
      /\ overlapped' <=> overlapped
      /\ Found(g)
  BY DEF Enter
<1>3. ~Making(g)' /\ \A h \in Caller \ {g} : Making(h)' <=> Making(h)
  BY <1>1, <1>2, FoundFacts DEF Making
<1>4. /\ handle'[g].account = g /\ handle'[g].address = a
      /\ \A h \in Caller \ {g} : handle'[h] = handle[h]
      /\ HandleTypes'
  BY <1>1, <1>2 DEF HandleInv, HandleTypes
<1>5. MakersAsk'
  BY <1>3, <1>4 DEF HandleInv, MakersAsk
<1>6. ASSUME OneMaker PROVE OneMaker'
  <2>1. \A h \in Caller : ~Making(h)'
    BY <1>1, <1>3, <1>6 DEF OneMaker
  <2> QED BY <2>1 DEF OneMaker
<1>7. ASSUME OneMaker, ~overlapped PROVE HandleIsStored'
  <2> SUFFICES ASSUME NEW h \in Caller, handle'[h].account # Nobody
               PROVE  accounts'[handle'[h].address] = handle'[h].account
    BY DEF HandleIsStored
  <2>1. accounts'[a] = g /\ accounts[a] = Nobody
    BY <1>1, <1>2, <1>7 DEF OneMaker, HandleInv, HandleTypes
  <2>2. CASE h = g
    BY <1>4, <2>1, <2>2
  <2>3. CASE h # g
    <3>1. handle'[h] = handle[h] /\ accounts[handle[h].address] = handle[h].account
      BY <1>4, <1>7, <2>3 DEF HandleInv, HandleIsStored
    <3>2. handle[h].address # a
      BY <2>1, <3>1
    <3> HIDE DEF a
    <3> QED BY <1>2, <3>1, <3>2 DEF HandleInv, HandleTypes
  <2> QED BY <2>2, <2>3
<1>8. overlapped => HandleIsStored'
  BY <1>2 DEF HandleIsStored
<1> QED BY <1>2, <1>4, <1>5, <1>6, <1>7, <1>8 DEF HandleInv

(* All other steps are quiet. *)
LEMMA QuietState ==
    ASSUME NEW g \in Caller,
           \/ CallState(g) \/ MapRace(g) \/ LockState(g) \/ SetSINARBalance(g)
           \/ SetField(g) \/ CreateContract(g)
           \/ AddValidator(g) \/ RemoveValidator(g) \/ Delegate(g) \/ Undelegate(g)
           \/ CreateProposal(g) \/ Vote(g) \/ IntermediateRoot(g) \/ Commit(g)
    PROVE  Quiet(g)
<1> USE DEF Quiet
<1>1. Wedge(g) => Quiet(g)
  BY DEF Wedge, Hang, stateVars, dataVars, Pc
<1>2. Done(g) => Return(g) /\ UNCHANGED <<handle, overlapped>>
  BY DEF Done, Finish
<1>3. Refuse(g) => Quiet(g)
  BY <1>2 DEF Refuse, dataVars
<1>4. CASE CallState(g)
  BY <1>4 DEF CallState, StateOps, stateVars, dataVars, Pc
<1>5. CASE MapRace(g)
  BY <1>5 DEF MapRace, stateVars, dataVars
<1>6. CASE LockState(g)
  BY <1>6 DEF LockState, TakeLock, stateVars, dataVars, Pc
<1>7. CASE SetField(g)
  BY <1>1, <1>2, <1>7 DEF SetField
<1>8. CASE CreateContract(g)
  BY <1>1, <1>2, <1>8 DEF CreateContract
<1>9. CASE AddValidator(g)
  BY <1>1, <1>2, <1>3, <1>9 DEF AddValidator
<1>10. CASE RemoveValidator(g)
  BY <1>1, <1>2, <1>10 DEF RemoveValidator
<1>11. CASE Delegate(g)
  BY <1>1, <1>2, <1>3, <1>11 DEF Delegate
<1>12. CASE Undelegate(g)
  BY <1>2, <1>3, <1>12 DEF Undelegate, Hang, Pc
<1>13. CASE CreateProposal(g)
  BY <1>2, <1>13 DEF CreateProposal
<1>14. CASE Vote(g)
  BY <1>2, <1>3, <1>14 DEF Vote, CastVote
<1>15. CASE IntermediateRoot(g)
  BY <1>2, <1>15 DEF IntermediateRoot
<1>16. CASE Commit(g)
  BY <1>2, <1>16 DEF Commit
<1>17. CASE SetSINARBalance(g)
  BY <1>17 DEF SetSINARBalance
<1> QED BY <1>4, <1>5, <1>6, <1>7, <1>8, <1>9, <1>10, <1>11, <1>12, <1>13, <1>14, <1>15, <1>16,
           <1>17

LEMMA QuietChain ==
    ASSUME NEW g \in Caller, CallChain(g) \/ ChainStep(g), UNCHANGED stateVars
    PROVE  Quiet(g)
<1>1. UNCHANGED <<accounts, handle, overlapped>>
  BY DEF stateVars, dataVars
<1> USE <1>1 DEF Quiet
<1>2. CASE CallChain(g)
  BY <1>2 DEF CallChain, ChainOps, Pc
<1>3. CASE LockDag(g) \/ LockChain(g)
  BY <1>3 DEF LockDag, LockChain, TakeLock, Pc
<1>4. CASE AddEvent(g)
  BY <1>4 DEF AddEvent, Finish, Hang, Pc
<1>5. CASE ScanDag(g) \/ (\E e \in Event : Collect(g, e)) \/ ScanEnds(g)
  BY <1>5 DEF ScanDag, Collect, ScanEnds, goVars, Pc
<1>6. CASE CreateBlock(g) \/ SignBlock(g)
  BY <1>6 DEF CreateBlock, SignBlock, Pc
<1>7. CASE AddBlock(g)
  BY <1>7 DEF AddBlock, Hang, Pc
<1>8. CASE StatsLock(g) \/ StatsNested(g)
  BY <1>8 DEF StatsLock, StatsNested, Pc
<1> QED BY <1>2, <1>3, <1>4, <1>5, <1>6, <1>7, <1>8 DEF ChainStep

LEMMA HandleInvStep == GoInv /\ HandleInv /\ [NodeNext]_nodeVars => HandleInv'
<1> SUFFICES ASSUME GoInv, HandleInv, [NodeNext]_nodeVars PROVE HandleInv'
  OBVIOUS
<1>1. ASSUME NEW g \in Caller, Step(g) \/ Start(g) PROVE HandleInv'
  <2>1. LookUp(g) \/ Enter(g) \/ Quiet(g)
    BY <1>1, QuietState, QuietChain DEF Step, Start, StateStep
  <2> QED BY <2>1, LookUpInv, EnterInv, QuietInv
<1>2. ASSUME UNCHANGED <<call, accounts, handle, overlapped>> PROVE HandleInv'
  BY <1>2 DEF HandleInv, HandleTypes, MakersAsk, OneMaker, Making, HandleIsStored
<1>3. Elsewhere => UNCHANGED <<call, accounts, handle, overlapped>>
  BY DEF Elsewhere, ShortCall, stateVars, dataVars
<1>4. UNCHANGED nodeVars => UNCHANGED <<call, accounts, handle, overlapped>>
  BY DEF nodeVars, goVars, stateVars, dataVars
<1> QED BY <1>1, <1>2, <1>3, <1>4 DEF NodeNext

LEMMA HandleInvariant == NodeSpec => []HandleInv
<1>1. NodeInit => HandleInv
  BY DEF NodeInit, GoInit, StateInit, HandleInv, HandleTypes, MakersAsk, OneMaker, Making,
         HandleIsStored, Idle, NoHandle
<1>2. NodeInv /\ HandleInv /\ [NodeNext]_nodeVars => HandleInv'
  BY HandleInvStep DEF NodeInv
<1> QED BY <1>1, <1>2, NodeInvariant, PTL DEF NodeSpec

(* A caller of GetAccount holds the account that is in the map, unless two *)
(* goroutines have made accounts at the same time (state.go:283-305).      *)
THEOREM HandlesStored == NodeSpec => []HandleIsStored
<1>1. HandleInv => HandleIsStored
  BY DEF HandleInv
<1> QED BY <1>1, HandleInvariant, PTL

-----------------------------------------------------------------------------
(* The event cache. *)

(* What is stored and has neither been dropped by the cache nor come       *)
(* through DAG.AddEvent is cached.                                         *)
StoredIsCached == \A id \in DOMAIN dag \ (evicted \cup direct) : id \in DOMAIN eventCache

CacheInv == /\ CacheMatchesStore
            /\ StoredIsCached
            /\ IsFiniteSet(DOMAIN eventCache)
            /\ CacheBounded

(* The part a full cache drops is neither nothing nor everything. *)
LEMMA PartOf ==
    ASSUME NEW c \in Nat, NEW p \in Nat, p > 1, c >= p
    PROVE  c \div p \in Nat /\ c \div p >= 1 /\ c \div p < c
<1>1. c = p * (c \div p) + (c % p) /\ c % p \in 0..(p - 1) /\ c \div p \in Int
  OBVIOUS
<1> DEFINE q == c \div p
<1>2. q >= 1
  BY <1>1
<1>3. q < c
  BY <1>1, <1>2
<1> QED BY <1>1, <1>2, <1>3

(* DAG.AddEvent writes to the store behind the cache's back. *)
LEMMA DirectInv ==
    ASSUME CacheInv, NEW g \in Caller, AddEvent(g), UNCHANGED cacheVars
    PROVE  CacheInv'
<1>1. eventCache' = eventCache /\ evicted' = evicted
  BY DEF cacheVars
<1>2. \/ dag' = dag /\ direct' = direct
      \/ \E e, b : e \notin DOMAIN dag /\ dag' = Put(dag, e, b) /\ direct' = direct \cup {e}
  BY DEF AddEvent
<1>3. CacheMatchesStore' /\ StoredIsCached'
  <2>1. CASE dag' = dag /\ direct' = direct
    BY <1>1, <2>1 DEF CacheInv, CacheMatchesStore, StoredIsCached
  <2>2. CASE \E e, b : e \notin DOMAIN dag /\ dag' = Put(dag, e, b) /\ direct' = direct \cup {e}
    <3>1. PICK e, b : e \notin DOMAIN dag /\ dag' = Put(dag, e, b) /\ direct' = direct \cup {e}
      BY <2>2
    <3>2. DOMAIN dag' = DOMAIN dag \cup {e} /\ \A x \in DOMAIN dag : dag'[x] = dag[x]
      BY <3>1 DEF Put
    <3> QED BY <1>1, <3>1, <3>2 DEF CacheInv, CacheMatchesStore, StoredIsCached
  <2> QED BY <1>2, <2>1, <2>2
<1> QED BY <1>1, <1>3 DEF CacheInv, CacheBounded

(* processEvents: the cache stays within its limit ... *)
LEMMA EvictionBounds ==
    ASSUME CacheInv, NEW id, id \notin DOMAIN eventCache, NEW gone \in Evictions
    PROVE  /\ gone \subseteq DOMAIN eventCache
           /\ IsFiniteSet((DOMAIN eventCache \ gone) \cup {id})
           /\ CacheMax >= EvictPart =>
                 Cardinality((DOMAIN eventCache \ gone) \cup {id}) <= CacheMax
<1> DEFINE D == DOMAIN eventCache
           n == Cardinality(D)
           k == Cardinality(gone)
<1>1. IsFiniteSet(D) /\ n \in Nat
  BY FS_CardinalityType DEF CacheInv
<1>2. gone \subseteq D
  BY DEF Evictions, kSubset
<1>3. IsFiniteSet(D \ gone) /\ Cardinality(D \ gone) = n - k
  <2>1. D \cap gone = gone
    BY <1>2
  <2> QED BY <1>1, <2>1, FS_Difference
<1>4. IsFiniteSet((D \ gone) \cup {id}) /\ Cardinality((D \ gone) \cup {id}) = n - k + 1
  <2>1. id \notin D \ gone
    OBVIOUS
  <2>2. /\ IsFiniteSet((D \ gone) \cup {id})
        /\ Cardinality((D \ gone) \cup {id}) = Cardinality(D \ gone) + 1
    BY <1>3, <2>1, FS_AddElement
  <2> QED BY <1>3, <2>2
<1>5. ASSUME CacheMax >= EvictPart
      PROVE  n - k + 1 <= CacheMax
  <2>1. EvictCount \in Nat /\ EvictCount >= 1 /\ EvictCount < CacheMax /\ CacheMax \in Nat
    BY <1>5, CacheAssumption, PartOf DEF EvictCount
  <2>2. n <= CacheMax
    BY <1>5 DEF CacheInv, CacheBounded
  <2>3. CASE n >= CacheMax /\ n > EvictCount
    <3>1. k = EvictCount
      BY <2>3 DEF Evictions, kSubset
    <3> QED BY <1>1, <2>1, <2>2, <3>1
  <2>4. CASE ~(n >= CacheMax /\ n > EvictCount)
    <3>1. gone = {}
      BY <2>4 DEF Evictions
    <3>2. k = 0
      BY <3>1, FS_EmptySet
    <3>3. n < CacheMax
      BY <1>1, <2>1, <2>4
    <3> QED BY <1>1, <2>1, <3>2, <3>3
  <2> QED BY <2>3, <2>4
<1> QED BY <1>2, <1>4, <1>5

(* ... and what it caches is what it stores. *)
LEMMA ProcessInv ==
    ASSUME CacheInv, NEW e, NEW b, ProcessEvent(e, b)
    PROVE  CacheInv'
<1>1. CASE e \in DOMAIN eventCache
  <2>1. eventCache' = eventCache /\ evicted' = evicted /\ e \in DOMAIN dag
    BY <1>1 DEF ProcessEvent, CacheEvent, cacheVars, CacheInv, CacheMatchesStore
  <2>2. dag' = dag /\ direct' = direct
    BY <2>1 DEF ProcessEvent, chainVars
  <2> QED BY <2>1, <2>2 DEF CacheInv, CacheMatchesStore, StoredIsCached, CacheBounded
<1>2. CASE e \notin DOMAIN eventCache
  <2>1. PICK gone \in Evictions :
          /\ eventCache' = Put(Delete(eventCache, gone), e, b)
          /\ evicted' = evicted \cup gone
    BY <1>2 DEF ProcessEvent, CacheEvent, SetEvent
  <2>2. /\ gone \subseteq DOMAIN eventCache
        /\ IsFiniteSet((DOMAIN eventCache \ gone) \cup {e})
        /\ CacheMax >= EvictPart => Cardinality((DOMAIN eventCache \ gone) \cup {e}) <= CacheMax
    BY <1>2, EvictionBounds
  <2>3. /\ DOMAIN eventCache' = (DOMAIN eventCache \ gone) \cup {e}
        /\ eventCache'[e] = b
        /\ \A x \in DOMAIN eventCache \ gone : eventCache'[x] = eventCache[x]
    BY <1>2, <2>1, <2>2 DEF Put, Delete
  <2>4. /\ direct' = direct
        /\ DOMAIN dag' = DOMAIN dag \cup {e}
        /\ \A x \in DOMAIN dag : dag'[x] = dag[x]
        /\ e \notin DOMAIN dag => dag'[e] = b
    <3>1. CASE e \in DOMAIN dag
      BY <3>1 DEF ProcessEvent, chainVars
    <3>2. CASE e \notin DOMAIN dag
      <4>1. dag' = Put(dag, e, b) /\ direct' = direct
        BY <1>2, <3>2 DEF ProcessEvent, PosetStores, GetEvent
      <4> QED BY <3>2, <4>1 DEF Put
    <3> QED BY <3>1, <3>2
  <2>5. e \in DOMAIN dag => e \in evicted \cup direct
    BY <1>2 DEF CacheInv, StoredIsCached
  <2>6. CacheMatchesStore'
    <3> SUFFICES ASSUME NEW id \in DOMAIN eventCache'
                 PROVE  /\ id \in DOMAIN dag'
                        /\ id \notin evicted' \cup direct' => eventCache'[id] = dag'[id]
      BY DEF CacheMatchesStore
    <3>1. CASE id = e
      BY <2>1, <2>3, <2>4, <2>5, <3>1
    <3>2. CASE id # e
      BY <2>1, <2>3, <2>4, <3>2 DEF CacheInv, CacheMatchesStore
    <3> QED BY <3>1, <3>2
  <2>7. StoredIsCached'
    BY <2>1, <2>3, <2>4 DEF CacheInv, StoredIsCached
  <2>8. IsFiniteSet(DOMAIN eventCache') /\ CacheBounded'
    BY <2>2, <2>3 DEF CacheBounded
  <2> QED BY <2>6, <2>7, <2>8 DEF CacheInv
<1> QED BY <1>1, <1>2

(* ClearCache drops every entry, and leaves none to disagree. *)
LEMMA ClearInv ==
    ASSUME CacheInv, ClearCache, UNCHANGED chainVars
    PROVE  CacheInv'
<1>1. /\ DOMAIN eventCache' = {} /\ evicted' = evicted \cup DOMAIN eventCache
      /\ dag' = dag /\ direct' = direct
  BY DEF ClearCache, chainVars
<1>2. CacheMatchesStore' /\ StoredIsCached'
  BY <1>1 DEF CacheInv, CacheMatchesStore, StoredIsCached
<1>3. IsFiniteSet(DOMAIN eventCache') /\ Cardinality(DOMAIN eventCache') = 0
  BY <1>1, FS_EmptySet
<1> QED BY <1>2, <1>3, CacheAssumption DEF CacheInv, CacheBounded

LEMMA CacheInvStep == CacheInv /\ [NodeNext]_nodeVars => CacheInv'
<1> SUFFICES ASSUME CacheInv, [NodeNext]_nodeVars PROVE CacheInv'
  OBVIOUS
<1>1. ASSUME UNCHANGED <<dag, direct, cacheVars>> PROVE CacheInv'
  BY <1>1 DEF cacheVars, CacheInv, CacheMatchesStore, StoredIsCached, CacheBounded
<1>2. ASSUME NEW g \in Caller, ChainStep(g), UNCHANGED cacheVars PROVE CacheInv'
  <2>1. CASE AddEvent(g)
    BY <1>2, <2>1, DirectInv
  <2>2. CASE ~AddEvent(g)
    <3>1. dag' = dag /\ direct' = direct
      BY <1>2, <2>2 DEF ChainStep, LockDag, LockChain, ScanDag, Collect, ScanEnds, CreateBlock,
            SignBlock, AddBlock, StatsLock, StatsNested, chainVars
    <3> QED BY <1>1, <1>2, <3>1
  <2> QED BY <2>1, <2>2
<1>3. ASSUME NEW g \in Caller, Step(g) \/ Start(g) PROVE CacheInv'
  <2>1. UNCHANGED cacheVars
    BY <1>3 DEF Step, Start
  <2>2. ChainStep(g) \/ UNCHANGED <<dag, direct>>
    BY <1>3 DEF Step, Start, CallChain, chainVars
  <2> QED BY <1>1, <1>2, <2>1, <2>2
<1>4. CASE Elsewhere
  <2>1. CASE \E e \in Event, b \in Body : ProcessEvent(e, b)
    BY <2>1, ProcessInv
  <2>2. CASE (\E e \in Event : FinalityMarks(e)) /\ UNCHANGED cacheVars
    BY <1>1, <2>2 DEF FinalityMarks
  <2>3. CASE UNCHANGED <<chainVars, cacheVars>>
    BY <1>1, <2>3 DEF chainVars
  <2>4. CASE ClearCache /\ UNCHANGED chainVars
    BY <2>4, ClearInv
  <2> QED BY <1>4, <2>1, <2>2, <2>3, <2>4 DEF Elsewhere
<1>5. CASE UNCHANGED nodeVars
  BY <1>1, <1>5 DEF nodeVars, chainVars
<1> QED BY <1>3, <1>4, <1>5 DEF NodeNext

LEMMA CacheInvariant == NodeSpec => []CacheInv
<1>1. NodeInit => CacheInv
  <2> SUFFICES ASSUME NodeInit PROVE CacheInv
    OBVIOUS
  <2>1. DOMAIN eventCache = {} /\ DOMAIN dag = {}
    BY DEF NodeInit, CacheInit, ChainInit
  <2>2. IsFiniteSet(DOMAIN eventCache) /\ Cardinality(DOMAIN eventCache) = 0
    BY <2>1, FS_EmptySet
  <2> QED BY <2>1, <2>2, CacheAssumption
          DEF CacheInv, CacheMatchesStore, StoredIsCached, CacheBounded
<1>2. CacheInv /\ [NodeNext]_nodeVars => CacheInv'
  BY CacheInvStep
<1> QED BY <1>1, <1>2, PTL DEF NodeSpec

(* The event cache never outgrows maxCacheSize when that is at least the   *)
(* part evictOldest divides by (consensus.go:62, consensus.go:156).        *)
THEOREM CacheWithinLimit == NodeSpec => []CacheBounded
<1>1. CacheInv => CacheBounded
  BY DEF CacheInv
<1> QED BY <1>1, CacheInvariant, PTL

(* A cached event is stored, and is the stored one unless its ID has been  *)
(* evicted or DAG.AddEvent has used it (consensus.go:417-431, dag.go:34).  *)
THEOREM CacheCoherent == NodeSpec => []CacheMatchesStore
<1>1. CacheInv => CacheMatchesStore
  BY DEF CacheInv
<1> QED BY <1>1, CacheInvariant, PTL

-----------------------------------------------------------------------------
(* Proposals and votes. *)

(* What the ballots b put behind some choices, as a sum over its voters. *)
VotersOf(b, choices) == {v \in DOMAIN b : b[v].choice \in choices}
StakeBy(b) == [v \in DOMAIN b |-> b[v].stake]
StakeIn(b, choices) == SumFunctionOnSet(StakeBy(b), VotersOf(b, choices))

LEMMA StakeOfSum == \A choices : StakeOf(choices) = StakeIn(ballots, choices)
  BY Zenon DEF StakeOf, StakeIn, StakeBy, VotersOf, SumFunctionOnSet

IsBallots(b) == /\ DOMAIN b \subseteq Address /\ IsFiniteSet(DOMAIN b)
                /\ b \in [DOMAIN b -> [choice : Choice, stake : Stakes]]

LEMMA StakeInNat ==
    ASSUME NEW b, IsBallots(b), NEW choices
    PROVE  StakeIn(b, choices) \in Nat
<1>1. IsFiniteSet(VotersOf(b, choices))
  BY FS_Subset DEF IsBallots, VotersOf
<1>2. \A v \in VotersOf(b, choices) : StakeBy(b)[v] \in Nat
  BY StakesAssumption DEF IsBallots, VotersOf, StakeBy
<1> QED BY <1>1, <1>2, SumNat DEF StakeIn

(* A ballot adds at most its stake to what stands behind its choice, and   *)
(* nothing to the others: the voter's earlier ballot is gone.              *)
LEMMA BallotAdds ==
    ASSUME NEW b, IsBallots(b),
           NEW voter \in Address, NEW choice \in Choice, NEW stake \in Stakes,
           NEW choices
    PROVE  LET b1 == Put(b, voter, [choice |-> choice, stake |-> stake])
           IN  /\ IsBallots(b1)
               /\ StakeIn(b1, choices)
                      <= StakeIn(b, choices) + (IF choice \in choices THEN stake ELSE 0)
<1> DEFINE b1 == Put(b, voter, [choice |-> choice, stake |-> stake])
           S == VotersOf(b, choices)
           f == StakeBy(b)
           R == S \ {voter}
           S1 == VotersOf(b1, choices)
           f1 == StakeBy(b1)
<1>1. /\ IsFiniteSet(S) /\ IsFiniteSet(R)
      /\ \A v \in S : f[v] \in Nat
      /\ stake \in Nat
  BY FS_Subset, FS_RemoveElement, StakesAssumption DEF IsBallots, VotersOf, StakeBy
<1>2. /\ DOMAIN b1 = DOMAIN b \cup {voter}
      /\ b1[voter] = [choice |-> choice, stake |-> stake]
      /\ \A v \in DOMAIN b : v # voter => b1[v] = b[v]
  BY DEF Put
<1>3. IsBallots(b1)
  <2>1. IsFiniteSet(DOMAIN b1)
    BY <1>2, FS_AddElement DEF IsBallots
  <2> HIDE DEF b1
  <2>2. b1 = [v \in DOMAIN b1 |-> b1[v]]
    BY DEF b1, Put
  <2>3. \A v \in DOMAIN b1 : b1[v] \in [choice : Choice, stake : Stakes]
    BY <1>2 DEF IsBallots
  <2> QED BY <1>2, <2>1, <2>2, <2>3 DEF IsBallots
<1> HIDE DEF b1
<1>4. /\ S1 = IF choice \in choices THEN R \cup {voter} ELSE R
      /\ f1[voter] = stake
      /\ \A v \in R : f1[v] = f[v]
  BY <1>2 DEF VotersOf, StakeBy
<1>5. voter \notin R /\ R \subseteq S
  OBVIOUS
<1>6. StakeIn(b, choices) = SumFunctionOnSet(f, S) /\ StakeIn(b1, choices) = SumFunctionOnSet(f1, S1)
  BY DEF StakeIn
<1> HIDE DEF S, f, R, S1, f1
<1>7. SumFunctionOnSet(f, R) \in Nat /\ SumFunctionOnSet(f, S) \in Nat
  BY <1>1, <1>5, SumNat
<1>8. SumFunctionOnSet(f, R) <= SumFunctionOnSet(f, S)
  <2>1. CASE voter \in S
    <3>1. SumFunctionOnSet(f, S) = f[voter] + SumFunctionOnSet(f, R)
      BY <1>1, <2>1, SumSplit DEF R
    <3>2. f[voter] \in Nat
      BY <1>1, <2>1
    <3> QED BY <3>1, <3>2, <1>7
  <2>2. CASE voter \notin S
    <3>1. R = S
      BY <2>2 DEF R
    <3> QED BY <3>1, <1>7
  <2> QED BY <2>1, <2>2
<1>9. SumFunctionOnSet(f, R) = SumFunctionOnSet(f1, R)
  <2>1. \A v \in R : f[v] \in Int /\ f1[v] = f[v]
    BY <1>1, <1>4, <1>5
  <2> QED BY <1>1, <2>1, SumSame
<1>10. choice \in choices => SumFunctionOnSet(f1, S1) = stake + SumFunctionOnSet(f1, R)
  <2>1. \A v \in R \cup {voter} : f1[v] \in Int
    BY <1>1, <1>4, <1>5
  <2>2. SumFunctionOnSet(f1, R \cup {voter}) = f1[voter] + SumFunctionOnSet(f1, R)
    BY <1>1, <1>5, <2>1, SumAdd
  <2> QED BY <1>4, <2>2
<1>11. StakeIn(b1, choices) <= StakeIn(b, choices) + (IF choice \in choices THEN stake ELSE 0)
  BY <1>1, <1>4, <1>6, <1>7, <1>8, <1>9, <1>10
<1> QED BY <1>3, <1>11 DEF b1

(* The votes on record never exceed the tally. *)
Covers(p, b) ==
    /\ p.votesFor >= StakeIn(b, {"for"})
    /\ p.votesAgainst >= StakeIn(b, {"against"})
    /\ p.total >= StakeIn(b, Choice)
    /\ p.total >= p.votesFor + p.votesAgainst

TallyRec == [open : BOOLEAN, votesFor : Nat, votesAgainst : Nat, total : Nat]
TallyInv == proposal \in TallyRec /\ IsBallots(ballots) /\ Covers(proposal, ballots)

LEMMA VoteCounted ==
    ASSUME TallyInv, NEW voter \in Address, NEW choice \in Choice, NEW stake \in Stakes,
           CastVote(voter, choice, stake)
    PROVE  TallyInv'
<1> DEFINE b == ballots
           b1 == Put(b, voter, [choice |-> choice, stake |-> stake])
           p == proposal
           p1 == Tally(p, choice, stake)
           N(choices) == StakeIn(b, choices)
           N1(choices) == StakeIn(b1, choices)
<1>1. ballots' = b1 /\ proposal' = p1
  BY DEF CastVote
<1>2. /\ IsBallots(b1)
      /\ \A choices : N1(choices) <= N(choices) + (IF choice \in choices THEN stake ELSE 0)
  BY BallotAdds DEF TallyInv
<1>3. \A choices : N1(choices) \in Nat /\ N(choices) \in Nat
  BY <1>2, StakeInNat DEF TallyInv
<1>4. stake \in Nat
  BY StakesAssumption
<1>5. /\ p1 \in TallyRec
      /\ p1.votesFor = p.votesFor + (IF choice = "for" THEN stake ELSE 0)
      /\ p1.votesAgainst = p.votesAgainst + (IF choice = "against" THEN stake ELSE 0)
      /\ p1.total = p.total + stake
  <2> DEFINE x == p.votesFor + (IF choice = "for" THEN stake ELSE 0)
             y == p.votesAgainst + (IF choice = "against" THEN stake ELSE 0)
             z == p.total + stake
  <2>1. x \in Nat /\ y \in Nat /\ z \in Nat
    BY <1>4 DEF TallyInv, TallyRec
  <2>2. /\ x = IF choice = "for" THEN p.votesFor + stake ELSE p.votesFor
        /\ y = IF choice = "against" THEN p.votesAgainst + stake ELSE p.votesAgainst
    BY <1>4 DEF TallyInv, TallyRec
  <2> HIDE DEF x, y
  <2>3. p1 = [p EXCEPT !.votesFor = x, !.votesAgainst = y, !.total = z]
    BY <2>2, Zenon DEF Tally
  <2> HIDE DEF x, y, z, p1
  <2> QED BY <2>1, <2>3 DEF TallyInv, TallyRec, x, y, z
<1>6. p \in TallyRec /\ Covers(p, b)
  BY DEF TallyInv
<1> HIDE DEF b1, p1, N, N1
<1>7. /\ N1({"for"}) <= N({"for"}) + (IF choice = "for" THEN stake ELSE 0)
      /\ N1({"against"}) <= N({"against"}) + (IF choice = "against" THEN stake ELSE 0)
      /\ N1(Choice) <= N(Choice) + stake
  BY <1>2
<1>8. /\ p.votesFor >= N({"for"}) /\ p.votesAgainst >= N({"against"}) /\ p.total >= N(Choice)
      /\ p.total >= p.votesFor + p.votesAgainst
  BY <1>6 DEF Covers, N
<1>9. p.votesFor \in Nat /\ p.votesAgainst \in Nat /\ p.total \in Nat
  BY <1>6 DEF TallyRec
<1>10. choice = "for" => choice # "against"
  OBVIOUS
<1>11. /\ p1.votesFor >= N1({"for"}) /\ p1.votesAgainst >= N1({"against"}) /\ p1.total >= N1(Choice)
       /\ p1.total >= p1.votesFor + p1.votesAgainst
  BY <1>3, <1>4, <1>5, <1>7, <1>8, <1>9, <1>10
<1> QED BY <1>1, <1>2, <1>5, <1>11 DEF TallyInv, Covers, N1

LEMMA NoBallots == IsBallots(<<>>) /\ \A choices : StakeIn(<<>>, choices) = 0
<1>1. IsBallots(<<>>)
  BY FS_EmptySet DEF IsBallots
<1>2. ASSUME NEW choices PROVE StakeIn(<<>>, choices) = 0
  <2>1. VotersOf(<<>>, choices) = {}
    BY DEF VotersOf
  <2> QED BY <2>1, SumEmpty DEF StakeIn
<1> QED BY <1>1, <1>2

LEMMA ProposalMade ==
    ASSUME proposal' = NewProposal, ballots' = <<>>
    PROVE  TallyInv'
<1>1. NoProposal \in TallyRec
  BY DEF NoProposal, TallyRec
<1>2. /\ NewProposal \in TallyRec
      /\ NewProposal.votesFor = NoProposal.votesFor
      /\ NewProposal.votesAgainst = NoProposal.votesAgainst
      /\ NewProposal.total = NoProposal.total
  BY <1>1 DEF NewProposal, TallyRec
<1>3. Covers(NewProposal, <<>>)
  BY <1>2, NoBallots DEF Covers, NoProposal
<1> QED BY <1>2, <1>3, NoBallots DEF TallyInv

(* Only the two calls of governance touch the proposal and its votes. *)
LEMMA GovernanceSteps ==
    ASSUME [NodeNext]_nodeVars
    PROVE  \/ proposal' = NewProposal /\ ballots' = <<>>
           \/ \E voter \in Address, choice \in Choice, stake \in Stakes :
                 CastVote(voter, choice, stake)
           \/ UNCHANGED <<proposal, ballots>>
<1> DEFINE Goal == \/ proposal' = NewProposal /\ ballots' = <<>>
                   \/ \E voter \in Address, choice \in Choice, stake \in Stakes :
                         CastVote(voter, choice, stake)
                   \/ UNCHANGED <<proposal, ballots>>
<1>1. ASSUME NEW g \in Caller, StateStep(g) PROVE Goal
  <2>1. CASE LookUp(g) \/ Enter(g) \/ SetSINARBalance(g) \/ LockState(g)
    BY <2>1 DEF LookUp, Enter, SetSINARBalance, LockState, stateVars, dataVars
  <2>2. CASE SetField(g) \/ CreateContract(g) \/ RemoveValidator(g)
    BY <2>2 DEF SetField, CreateContract, RemoveValidator, Wedge, stateVars, dataVars
  <2>3. CASE AddValidator(g) \/ Delegate(g) \/ Undelegate(g)
    BY <2>3 DEF AddValidator, Delegate, Undelegate, Wedge, Refuse, stateVars, dataVars
  <2>4. CASE CreateProposal(g)
    BY <2>4 DEF CreateProposal
  <2>5. CASE Vote(g)
    BY <2>5 DEF Vote, Refuse, dataVars
  <2>6. CASE IntermediateRoot(g) \/ Commit(g)
    BY <2>6 DEF IntermediateRoot, Commit
  <2> QED BY <1>1, <2>1, <2>2, <2>3, <2>4, <2>5, <2>6 DEF StateStep
<1>2. UNCHANGED stateVars => Goal
  BY DEF stateVars, dataVars
<1>3. ASSUME NEW g \in Caller, Step(g) \/ Start(g) PROVE Goal
  BY <1>1, <1>2, <1>3 DEF Step, Start, CallState, MapRace
<1> QED BY <1>2, <1>3 DEF NodeNext, Elsewhere, nodeVars

LEMMA TallyInvariant == NodeSpec => []TallyInv
<1>1. NodeInit => TallyInv
  <2> SUFFICES ASSUME NodeInit PROVE TallyInv
    OBVIOUS
  <2>1. proposal = NoProposal /\ ballots = <<>>
    BY DEF NodeInit, StateInit
  <2>2. Covers(NoProposal, <<>>) /\ NoProposal \in TallyRec
    BY NoBallots DEF Covers, NoProposal, TallyRec
  <2> QED BY <2>1, <2>2, NoBallots DEF TallyInv
<1>2. TallyInv /\ [NodeNext]_nodeVars => TallyInv'
  <2> SUFFICES ASSUME TallyInv, [NodeNext]_nodeVars PROVE TallyInv'
    OBVIOUS
  <2>1. UNCHANGED <<proposal, ballots>> => TallyInv'
    BY DEF TallyInv
  <2> QED BY <2>1, GovernanceSteps, VoteCounted, ProposalMade
<1> QED BY <1>1, <1>2, PTL DEF NodeSpec

(* The tally of a proposal never shows less than the votes on record for   *)
(* it, whatever is voted, voted again or proposed again (state.go:565,     *)
(* state.go:597-606).                                                      *)
THEOREM VotesCovered == NodeSpec => []TallyCoversVotes
<1>1. TallyInv => TallyCoversVotes
  BY StakeOfSum DEF TallyInv, Covers, TallyCoversVotes
<1> QED BY <1>1, TallyInvariant, PTL

-----------------------------------------------------------------------------
(* The transaction pool. *)

(* The gas of the transactions of a list. *)
GasOf(s) == [i \in DOMAIN s |-> Gas[s[i]]]

LEMMA GasFacts ==
    /\ Word \in Nat \ {0}
    /\ \A t \in Tx : Gas[t] \in Nat /\ Gas[t] < Word /\ GasPrice[t] \in Nat
    /\ \A l \in BlockGasLimit : l \in Nat /\ l + l < Word
<1>1. Word \in Nat \ {0} /\ \A t \in Tx : Gas[t] \in Nat /\ Gas[t] < Word /\ GasPrice[t] \in Nat
  BY TxAssumption
<1>2. ASSUME NEW l \in BlockGasLimit PROVE l \in Nat /\ l + l < Word
  <2> DEFINE w == Word - 1
             h == w \div 2
  <2>1. w \in Nat /\ l \in 0..h
    BY <1>1, TxAssumption
  <2>2. w = 2 * h + (w % 2) /\ h \in Int /\ w % 2 \in 0..1
    BY <2>1
  <2> HIDE DEF h
  <2> QED BY <1>1, <2>1, <2>2
<1> QED BY <1>1, <1>2

LEMMA Small ==
    ASSUME NEW W \in Nat \ {0}, NEW x \in Nat, x < W
    PROVE  x % W = x
<1>1. (W * 0 + x) % W = x
  BY RemainderUnique
<1> QED BY <1>1

(* What the code counts is the sum, modulo 2^64. *)
LEMMA CountedGas ==
    ASSUME NEW N \in Nat, NEW s \in [1..N -> Tx], NEW n \in 0..N
    PROVE  CurrentGas(s, n) = SumFunctionOnSet(GasOf(s), 1..n) % Word
<1>1. IsFiniteSet(1..n)
  BY FS_Interval
<1>2. \A x \in 1..n : GasOf(s)[x] \in Int
  BY GasFacts DEF GasOf
<1>3. (CHOOSE g : IsSumModulo(GasOf(s), 1..n, Word, g))[1..n]
          = SumFunctionOnSet(GasOf(s), 1..n) % Word
  BY <1>1, <1>2, GasFacts, SumModulo
<1>4. CurrentGas(s, n) = (CHOOSE g : IsSumModulo(GasOf(s), 1..n, Word, g))[1..n]
  BY Zenon DEF CurrentGas, FoldFunctionOnSet, MapThenFoldSet, IsSumModulo, AnyOf, GasOf
<1> QED BY <1>3, <1>4

(* A selection is as much of the sorted list as fits. *)
LEMMA TakenPrefix ==
    ASSUME NEW N \in Nat, NEW s \in [1..N -> Tx], NEW l
    PROVE  \E n \in 0..N :
              /\ Taken(s, l) = [i \in 1..n |-> s[i]]
              /\ \A i \in 1..n : (CurrentGas(s, i - 1) + Gas[s[i]]) % Word <= l
<1> DEFINE Fits(i) == (CurrentGas(s, i - 1) + Gas[s[i]]) % Word <= l
           stop == {i \in DOMAIN s : ~Fits(i)}
<1>1. Taken(s, l) = IF stop = {} THEN s ELSE SubSeq(s, 1, Min(stop) - 1)
  BY DEF Taken
<1>2. s \in Seq(Tx) /\ Len(s) = N /\ DOMAIN s = 1..N /\ s = [i \in 1..N |-> s[i]]
  OBVIOUS
<1>3. CASE stop = {}
  <2>1. \A i \in 1..N : Fits(i)
    BY <1>2, <1>3
  <2>2. Taken(s, l) = [i \in 1..N |-> s[i]]
    BY <1>1, <1>2, <1>3
  <2> QED BY <2>1, <2>2
<1>4. CASE stop # {}
  <2> HIDE DEF Fits
  <2>1. stop \subseteq 1..N
    BY <1>2
  <2>2. \E x \in stop : \A y \in stop : x <= y
    <3>1. stop \subseteq Nat
      BY <2>1
    <3> HIDE DEF stop
    <3> QED BY <1>4, <3>1, LeastNumber
  <2>3. Min(stop) \in stop /\ \A y \in stop : Min(stop) <= y
    <3> HIDE DEF stop
    <3> QED BY <2>2 DEF Min
  <2> DEFINE n == Min(stop) - 1
  <2>4. n \in 0..N /\ n < Min(stop)
    BY <2>1, <2>3
  <2>5. \A i \in 1..n : i \in DOMAIN s /\ i \notin stop
    BY <1>2, <2>1, <2>3, <2>4
  <2>6. \A i \in 1..n : Fits(i)
    BY <2>5
  <2> HIDE DEF stop, n
  <2>7. SubSeq(s, 1, n) = [i \in 1..n |-> s[i]]
    BY <1>2, <2>4
  <2>8. Taken(s, l) = [i \in 1..n |-> s[i]]
    BY <1>1, <1>4, <2>7 DEF n
  <2> QED BY <2>4, <2>6, <2>8 DEF Fits
<1> QED BY <1>3, <1>4

(* The count does not wrap as long as no transaction has more gas than the *)
(* limit by itself.                                                        *)
LEMMA PrefixWithin ==
    ASSUME NEW N \in Nat, NEW s \in [1..N -> Tx], NEW l \in BlockGasLimit, NEW n \in 0..N,
           \A i \in 1..n : (CurrentGas(s, i - 1) + Gas[s[i]]) % Word <= l,
           \A i \in 1..n : Gas[s[i]] <= l
    PROVE  \A k \in 0..n : SumFunctionOnSet(GasOf(s), 1..k) <= l
<1> DEFINE Sum(k) == SumFunctionOnSet(GasOf(s), 1..k)
           over == {k \in 0..n : ~(Sum(k) <= l)}
<1>1. \A i \in 1..N : GasOf(s)[i] = Gas[s[i]] /\ Gas[s[i]] \in Nat
  BY GasFacts DEF GasOf
<1>2. ASSUME NEW k \in 0..n PROVE Sum(k) \in Nat
  <2>1. IsFiniteSet(1..k)
    BY FS_Interval
  <2>2. \A i \in 1..k : GasOf(s)[i] \in Nat
    BY <1>1
  <2> QED BY <2>1, <2>2, SumNat
<1>3. Sum(0) = 0
  <2>1. 1..0 = {}
    OBVIOUS
  <2> QED BY <2>1, SumEmpty
<1>4. ASSUME NEW k \in 0..n, k # 0, Sum(k - 1) <= l PROVE Sum(k) <= l
  <2>1. k - 1 \in 0..n /\ k - 1 \in 0..N /\ k \in 1..n /\ k \in 1..N
    BY <1>4
  <2>2. Sum(k) = Gas[s[k]] + Sum(k - 1)
    <3>4. IsFiniteSet(1..(k - 1))
      BY <2>1, FS_Interval
    <3>1. 1..k = (1..(k - 1)) \cup {k} /\ k \notin 1..(k - 1)
      BY <2>1
    <3>2. \A i \in (1..(k - 1)) \cup {k} : GasOf(s)[i] \in Int
      BY <1>1, <2>1
    <3>3. SumFunctionOnSet(GasOf(s), (1..(k - 1)) \cup {k})
            = GasOf(s)[k] + SumFunctionOnSet(GasOf(s), 1..(k - 1))
      BY <3>4, <3>1, <3>2, SumAdd
    <3> QED BY <1>1, <2>1, <3>1, <3>3
  <2> DEFINE x == Sum(k - 1)
             y == Gas[s[k]]
  <2>3. x \in Nat /\ y \in Nat /\ l \in Nat /\ l + l < Word /\ Word \in Nat \ {0}
    BY <1>1, <1>2, <2>1, GasFacts
  <2>4. y <= l /\ (CurrentGas(s, k - 1) + y) % Word <= l
    BY <2>1
  <2>5. CurrentGas(s, k - 1) = x % Word
    BY <2>1, CountedGas
  <2> HIDE DEF x, y
  <2>6. x <= l /\ Sum(k) = y + x
    BY <1>4, <2>2 DEF x, y
  <2>7. x % Word = x
    BY <2>3, <2>6, Small
  <2>8. (x + y) % Word = x + y
    <3>1. x + y \in Nat /\ x + y < Word
      BY <2>3, <2>4, <2>6
    <3> QED BY <2>3, <3>1, Small
  <2>9. x + y <= l
    BY <2>4, <2>5, <2>7, <2>8
  <2> QED BY <2>3, <2>6, <2>9
<1> HIDE DEF Sum
<1>5. ASSUME over # {} PROVE FALSE
  <2>0. over \subseteq Nat
    OBVIOUS
  <2>1. PICK k \in over : \A j \in over : k <= j
    <3> HIDE DEF over
    <3> QED BY <1>5, <2>0, LeastNumber
  <2>2. k \in 0..n /\ ~(Sum(k) <= l)
    BY <2>1
  <2>3. k # 0
    BY <1>3, <2>2, GasFacts
  <2>4. k - 1 \in 0..n /\ k - 1 \notin over
    BY <2>1, <2>2, <2>3
  <2>5. Sum(k - 1) <= l
    BY <2>4
  <2> QED BY <1>4, <2>2, <2>3, <2>5
<1> QED BY <1>5 DEF Sum

(* A sorted list of a finite set names each of its members. *)
LEMMA SortedNamesAll ==
    ASSUME NEW S, IsFiniteSet(S), NEW s \in SortsOf(S)
    PROVE  /\ Cardinality(S) \in Nat
           /\ s \in [1..Cardinality(S) -> S]
           /\ \A u \in S : \E i \in 1..Cardinality(S) : s[i] = u
           /\ \A i, j \in 1..Cardinality(S) : i < j => GasPrice[s[i]] >= GasPrice[s[j]]
<1> DEFINE N == Cardinality(S)
<1>1. N \in Nat
  BY FS_CardinalityType
<1>2. s \in [1..N -> S] /\ \A i, j \in 1..N : i # j => s[i] # s[j]
  BY DEF SortsOf, SetToSeqs
<1>3. \A i, j \in 1..N : i < j => GasPrice[s[i]] >= GasPrice[s[j]]
  BY <1>2 DEF SortsOf
<1> HIDE DEF N
<1>4. s \in Injection(1..N, S)
  BY <1>2 DEF Injection, IsInjective
<1>5. Cardinality(1..N) = N
  BY <1>1, FS_Interval
<1>6. s \in Surjection(1..N, S)
  BY <1>4, <1>5, FS_Injection DEF N
<1>7. \A u \in S : \E i \in 1..N : s[i] = u
  BY <1>6 DEF Surjection
<1> QED BY <1>1, <1>2, <1>3, <1>7 DEF N

Within(s, l) == (\A i \in DOMAIN s : Gas[s[i]] <= l)
                    => SumFunctionOnSet(GasOf(s), DOMAIN s) <= l

PoolInv == PoolTypeOK /\ IsFiniteSet(pending) /\ Within(selected, limit)

(* What a step of GetTransactionsForBlock selects. *)
LEMMA Selection ==
    ASSUME PoolTypeOK, IsFiniteSet(pending), GetTransactionsForBlock
    PROVE  \E l \in BlockGasLimit, N \in Nat : \E s \in [1..N -> Tx], n \in 0..N :
              /\ selected' = [i \in 1..n |-> s[i]] /\ limit' = l
              /\ pending' = pending \ Range(selected')
              /\ \A i \in 1..n : (CurrentGas(s, i - 1) + Gas[s[i]]) % Word <= l
              /\ \A u \in pending : \E i \in 1..N : s[i] = u
              /\ \A i, j \in 1..N : i < j => GasPrice[s[i]] >= GasPrice[s[j]]
<1>1. PICK l \in BlockGasLimit, s \in SortsOf(pending) :
         selected' = Taken(s, l) /\ limit' = l /\ pending' = pending \ Range(selected')
  BY DEF GetTransactionsForBlock
<1> DEFINE N == Cardinality(pending)
<1>2. /\ N \in Nat /\ s \in [1..N -> pending]
      /\ \A u \in pending : \E i \in 1..N : s[i] = u
      /\ \A i, j \in 1..N : i < j => GasPrice[s[i]] >= GasPrice[s[j]]
  BY SortedNamesAll
<1> HIDE DEF N
<1>3. s \in [1..N -> Tx]
  BY <1>2 DEF PoolTypeOK
<1>4. PICK n \in 0..N :
         /\ Taken(s, l) = [i \in 1..n |-> s[i]]
         /\ \A i \in 1..n : (CurrentGas(s, i - 1) + Gas[s[i]]) % Word <= l
  BY <1>2, <1>3, TakenPrefix
<1>5. selected' = [i \in 1..n |-> s[i]]
  BY <1>1, <1>4
<1> QED BY <1>1, <1>2, <1>3, <1>4, <1>5

LEMMA SelectionInv ==
    ASSUME PoolInv, GetTransactionsForBlock
    PROVE  PoolInv'
<1>1. PICK l \in BlockGasLimit, N \in Nat : \E s \in [1..N -> Tx], n \in 0..N :
         /\ selected' = [i \in 1..n |-> s[i]] /\ limit' = l
         /\ pending' = pending \ Range(selected')
         /\ \A i \in 1..n : (CurrentGas(s, i - 1) + Gas[s[i]]) % Word <= l
  BY Selection DEF PoolInv
<1>2. PICK s \in [1..N -> Tx], n \in 0..N :
         /\ selected' = [i \in 1..n |-> s[i]] /\ limit' = l
         /\ pending' = pending \ Range(selected')
         /\ \A i \in 1..n : (CurrentGas(s, i - 1) + Gas[s[i]]) % Word <= l
  BY <1>1
<1>3. DOMAIN selected' = 1..n /\ \A i \in 1..n : selected'[i] = s[i] /\ s[i] \in Tx
  BY <1>2
<1>4. PoolTypeOK'
  <2>1. selected' \in Seq(Tx)
    BY <1>2
  <2>2. limit' \in Nat
    BY <1>2, GasFacts
  <2> QED BY <1>2, <2>1, <2>2 DEF PoolInv, PoolTypeOK
<1>5. IsFiniteSet(pending')
  BY <1>2, FS_Subset DEF PoolInv
<1>6. ASSUME \A i \in DOMAIN selected' : Gas[selected'[i]] <= limit'
      PROVE  SumFunctionOnSet(GasOf(selected'), DOMAIN selected') <= limit'
  <2>1. \A i \in 1..n : Gas[s[i]] <= l
    BY <1>2, <1>3, <1>6
  <2>2. SumFunctionOnSet(GasOf(s), 1..n) <= l
    <3>1. \A k \in 0..n : SumFunctionOnSet(GasOf(s), 1..k) <= l
      BY <1>2, <2>1, PrefixWithin
    <3> QED BY <3>1
  <2>3. \A i \in 1..n : GasOf(s)[i] \in Int /\ GasOf(selected')[i] = GasOf(s)[i]
    BY <1>3, GasFacts DEF GasOf
  <2>4. IsFiniteSet(1..n)
    BY FS_Interval
  <2>5. SumFunctionOnSet(GasOf(s), 1..n) = SumFunctionOnSet(GasOf(selected'), 1..n)
    BY <2>3, <2>4, SumSame
  <2> QED BY <1>2, <1>3, <2>2, <2>5
<1>7. Within(selected, limit)'
  BY <1>6 DEF Within
<1> QED BY <1>4, <1>5, <1>7 DEF PoolInv

LEMMA PoolStepInv == PoolInv /\ [NodeNext]_nodeVars => PoolInv'
<1> SUFFICES ASSUME PoolInv, [NodeNext]_nodeVars PROVE PoolInv'
  OBVIOUS
<1>1. PoolStep \/ UNCHANGED poolVars
  BY DEF NodeNext, Step, Start, Elsewhere, nodeVars
<1>2. ASSUME UNCHANGED <<selected, limit>>, pending' \subseteq Tx, IsFiniteSet(pending')
      PROVE  PoolInv'
  BY <1>2 DEF PoolInv, PoolTypeOK
<1>3. ASSUME NEW t \in Tx, AddTransaction(t) PROVE PoolInv'
  <2>1. IsFiniteSet(pending')
    BY <1>3, FS_AddElement DEF PoolInv, AddTransaction
  <2> QED BY <1>2, <1>3, <2>1 DEF PoolInv, PoolTypeOK, AddTransaction
<1>4. ASSUME NEW t \in Tx, RemoveTransaction(t) PROVE PoolInv'
  <2>1. IsFiniteSet(pending')
    BY <1>4, FS_RemoveElement DEF PoolInv, RemoveTransaction
  <2> QED BY <1>2, <1>4, <2>1 DEF PoolInv, PoolTypeOK, RemoveTransaction
<1>5. ASSUME ClearPool PROVE PoolInv'
  BY <1>2, <1>5, FS_EmptySet DEF ClearPool
<1>6. ASSUME UNCHANGED poolVars PROVE PoolInv'
  BY <1>2, <1>6 DEF poolVars, PoolInv, PoolTypeOK
<1> QED BY <1>1, <1>3, <1>4, <1>5, <1>6, SelectionInv DEF PoolStep

LEMMA PoolInvariant == NodeSpec => []PoolInv
<1>1. NodeInit => PoolInv
  <2> SUFFICES ASSUME NodeInit PROVE PoolInv
    OBVIOUS
  <2>1. pending = {} /\ selected = <<>> /\ limit = 0
    BY DEF NodeInit, PoolInit
  <2>2. DOMAIN selected = {}
    BY <2>1
  <2>3. SumFunctionOnSet(GasOf(selected), DOMAIN selected) <= limit
    BY <2>1, <2>2, SumEmpty
  <2>4. Within(selected, limit)
    BY <2>3 DEF Within
  <2> QED BY <2>1, <2>4, FS_EmptySet DEF PoolInv, PoolTypeOK
<1>2. PoolInv /\ [NodeNext]_nodeVars => PoolInv'
  BY PoolStepInv
<1> QED BY <1>1, <1>2, PTL DEF NodeSpec

(* A block's transactions stay within its gas limit, unless one of them    *)
(* has more gas than the limit by itself: the 64-bit count of              *)
(* GetTransactionsForBlock wraps for no other reason (txpool.go:73).       *)
THEOREM GasWithinLimit == NodeSpec => []WithinLimit
<1>1. Within(selected, limit) => WithinLimit
  BY Zenon DEF Within, WithinLimit, SumFunctionOnSet, GasOf
<1>2. PoolInv => WithinLimit
  BY <1>1 DEF PoolInv
<1> QED BY <1>2, PoolInvariant, PTL

(* Nothing that GetTransactionsForBlock leaves in the pool pays more than  *)
(* what it takes (txpool.go:70-81).                                        *)
THEOREM BestPaidTaken == NodeSpec => BestPaidFirst
<1> DEFINE Best == selected' # selected =>
                     \A t \in Range(selected'), u \in pending' : GasPrice[t] >= GasPrice[u]
<1>1. PoolInv /\ [NodeNext]_nodeVars => [Best]_poolVars
  <2> SUFFICES ASSUME PoolInv, [NodeNext]_nodeVars, selected' # selected PROVE Best
    BY DEF poolVars
  <2>1. GetTransactionsForBlock
    <3>1. PoolStep
      BY DEF NodeNext, Step, Start, Elsewhere, nodeVars, poolVars
    <3> QED BY <3>1 DEF PoolStep, AddTransaction, RemoveTransaction, ClearPool
  <2>2. PICK l \in BlockGasLimit, N \in Nat : \E s \in [1..N -> Tx], n \in 0..N :
              /\ selected' = [i \in 1..n |-> s[i]]
              /\ pending' = pending \ Range(selected')
              /\ \A u \in pending : \E i \in 1..N : s[i] = u
              /\ \A i, j \in 1..N : i < j => GasPrice[s[i]] >= GasPrice[s[j]]
    BY <2>1, Selection DEF PoolInv
  <2>3. PICK s \in [1..N -> Tx], n \in 0..N :
              /\ selected' = [i \in 1..n |-> s[i]]
              /\ pending' = pending \ Range(selected')
              /\ \A u \in pending : \E i \in 1..N : s[i] = u
              /\ \A i, j \in 1..N : i < j => GasPrice[s[i]] >= GasPrice[s[j]]
    BY <2>2
  <2> SUFFICES ASSUME NEW t \in Range(selected'), NEW u \in pending'
               PROVE  GasPrice[t] >= GasPrice[u]
    OBVIOUS
  <2>4. PICK i \in 1..n : t = s[i]
    BY <2>3 DEF Range
  <2>5. PICK j \in 1..N : s[j] = u
    BY <2>3
  <2>6. j \notin 1..n
    BY <2>3, <2>5 DEF Range
  <2>7. i \in 1..N /\ i < j
    BY <2>6
  <2> QED BY <2>3, <2>4, <2>5, <2>7
<1> QED BY <1>1, PoolInvariant, PTL DEF NodeSpec, BestPaidFirst

-----------------------------------------------------------------------------
(* The types of what remains. *)

RootTypes == root \in [cached : BOOLEAN, dirty : BOOLEAN] /\ overlapped \in BOOLEAN

LEMMA RootSteps ==
    ASSUME [NodeNext]_nodeVars
    PROVE  /\ MarkDirty \/ root' = [cached |-> TRUE, dirty |-> FALSE] \/ root' = root
           /\ \/ overlapped' = (overlapped \/ \E o \in Caller : call[o].at = "enter")
              \/ overlapped' = overlapped
<1> DEFINE R == MarkDirty \/ root' = [cached |-> TRUE, dirty |-> FALSE] \/ root' = root
           O == \/ overlapped' = (overlapped \/ \E o \in Caller : call[o].at = "enter")
                \/ overlapped' = overlapped
<1>1. ASSUME NEW g \in Caller, StateStep(g) PROVE R /\ O
  <2>1. CASE LookUp(g) \/ Enter(g) \/ SetSINARBalance(g) \/ LockState(g)
    BY <2>1 DEF LookUp, Enter, SetSINARBalance, LockState, stateVars, dataVars
  <2>2. CASE SetField(g) \/ CreateContract(g) \/ RemoveValidator(g)
    BY <2>2 DEF SetField, CreateContract, RemoveValidator, Wedge, Done, stateVars, dataVars
  <2>3. CASE AddValidator(g)
    BY <2>3 DEF AddValidator, Wedge, Refuse, Done, stateVars, dataVars
  <2>4. CASE Delegate(g)
    BY <2>4 DEF Delegate, Wedge, Refuse, Done, stateVars, dataVars
  <2>5. CASE Undelegate(g)
    BY <2>5 DEF Undelegate, Refuse, Done, dataVars
  <2>6. CASE CreateProposal(g) \/ Commit(g)
    BY <2>6 DEF CreateProposal, Commit, Done
  <2>7. CASE Vote(g)
    BY <2>7 DEF Vote, CastVote, Refuse, Done, dataVars
  <2>8. CASE IntermediateRoot(g)
    <3>1. root' = [cached |-> TRUE, dirty |-> FALSE] \/ root' = root
      BY <2>8 DEF IntermediateRoot
    <3> QED BY <2>8, <3>1 DEF IntermediateRoot, Done
  <2> QED BY <1>1, <2>1, <2>2, <2>3, <2>4, <2>5, <2>6, <2>7, <2>8 DEF StateStep
<1>2. UNCHANGED stateVars => R /\ O
  BY DEF stateVars, dataVars
<1>3. ASSUME NEW g \in Caller, Step(g) \/ Start(g) PROVE R /\ O
  BY <1>1, <1>2, <1>3 DEF Step, Start, CallState, MapRace
<1> QED BY <1>2, <1>3 DEF NodeNext, Elsewhere, nodeVars

LEMMA RootInvariant == NodeSpec => []RootTypes
<1>1. NodeInit => RootTypes
  <2> SUFFICES ASSUME NodeInit PROVE RootTypes
    OBVIOUS
  <2>1. root = [cached |-> FALSE, dirty |-> TRUE] /\ overlapped = FALSE
    BY DEF NodeInit, StateInit
  <2>2. root \in [cached : BOOLEAN, dirty : BOOLEAN]
    BY <2>1, Zenon
  <2>3. overlapped \in BOOLEAN
    BY <2>1, Zenon
  <2> QED BY <2>2, <2>3 DEF RootTypes
<1>2. RootTypes /\ [NodeNext]_nodeVars => RootTypes'
  <2> SUFFICES ASSUME RootTypes, [NodeNext]_nodeVars PROVE RootTypes'
    OBVIOUS
  <2>1. root' \in [cached : BOOLEAN, dirty : BOOLEAN]
    <3>1. MarkDirty => root' \in [cached : BOOLEAN, dirty : BOOLEAN]
      BY DEF RootTypes, MarkDirty
    <3>2. [cached |-> TRUE, dirty |-> FALSE] \in [cached : BOOLEAN, dirty : BOOLEAN]
      BY Zenon
    <3>3. MarkDirty \/ root' = [cached |-> TRUE, dirty |-> FALSE] \/ root' = root
      BY RootSteps
    <3> QED BY <3>1, <3>2, <3>3, Zenon DEF RootTypes
  <2>2. overlapped' \in BOOLEAN
    BY RootSteps DEF RootTypes
  <2> QED BY <2>1, <2>2 DEF RootTypes
<1> QED BY <1>1, <1>2, PTL DEF NodeSpec

DraftRec == [number : Nat, parent : [number : Nat, events : SUBSET Event], events : SUBSET Event]

StoreTypes == /\ IsMap(dag, Event, Body) /\ IsMap(eventCache, Event, Body)
              /\ direct \subseteq Event /\ atropos \subseteq Event
BlockTypes == /\ scan \in [Caller -> SUBSET Event]
              /\ batch \in [Caller -> SUBSET Event]
              /\ draft \in [Caller -> DraftRec]

LEMMA PutIsMap ==
    ASSUME NEW K, NEW V, NEW m, IsMap(m, K, V), NEW k \in K, NEW v \in V
    PROVE  IsMap(Put(m, k, v), K, V)
<1>1. /\ DOMAIN Put(m, k, v) = DOMAIN m \cup {k}
      /\ \A x \in DOMAIN m \cup {k} : Put(m, k, v)[x] \in V
      /\ Put(m, k, v) \in [DOMAIN m \cup {k} -> V]
  BY DEF Put, IsMap
<1> QED BY <1>1 DEF IsMap

LEMMA DeleteIsMap ==
    ASSUME NEW K, NEW V, NEW m, IsMap(m, K, V), NEW X
    PROVE  IsMap(Delete(m, X), K, V)
BY DEF Delete, IsMap

(* The goroutine steps on the chain and the DAG. *)
LEMMA ChainTypesStep ==
    ASSUME StoreTypes, BlockTypes, ChainStaysEmpty, NEW g \in Caller, ChainStep(g),
           UNCHANGED cacheVars, GoInv
    PROVE  StoreTypes' /\ BlockTypes'
<1>1. CASE AddEvent(g)
  <2>1. /\ UNCHANGED <<atropos, scan, batch, draft, eventCache>>
        /\ \/ UNCHANGED <<dag, direct>>
           \/ \E e \in Event, b \in Body : dag' = Put(dag, e, b) /\ direct' = direct \cup {e}
    BY <1>1 DEF AddEvent, cacheVars
  <2>2. StoreTypes'
    <3>1. CASE UNCHANGED <<dag, direct>>
      BY <2>1, <3>1 DEF StoreTypes
    <3>2. CASE \E e \in Event, b \in Body : dag' = Put(dag, e, b) /\ direct' = direct \cup {e}
      BY <2>1, <3>2, PutIsMap DEF StoreTypes
    <3> QED BY <2>1, <3>1, <3>2
  <2>3. BlockTypes'
    BY <2>1 DEF BlockTypes
  <2> QED BY <2>2, <2>3
<1>2. ASSUME UNCHANGED <<dag, direct, atropos>> PROVE StoreTypes'
  BY <1>2 DEF StoreTypes, cacheVars
<1>3. CASE LockDag(g) \/ LockChain(g) \/ ScanEnds(g) \/ StatsLock(g) \/ StatsNested(g)
  <2>1. UNCHANGED chainVars
    BY <1>3 DEF LockDag, LockChain, ScanEnds, StatsLock, StatsNested
  <2> QED BY <1>2, <2>1 DEF chainVars, BlockTypes
<1>4. CASE ScanDag(g)
  <2>1. /\ scan' = [scan EXCEPT ![g] = DOMAIN dag] /\ batch' = [batch EXCEPT ![g] = {}]
        /\ UNCHANGED <<dag, direct, atropos, draft>>
    BY <1>4 DEF ScanDag
  <2> QED BY <1>2, <2>1 DEF StoreTypes, IsMap, BlockTypes
<1>5. ASSUME NEW e \in Event, Collect(g, e) PROVE StoreTypes' /\ BlockTypes'
  <2>1. /\ scan' = [scan EXCEPT ![g] = @ \ {e}]
        /\ batch' = batch \/ batch' = [batch EXCEPT ![g] = @ \cup {e}]
        /\ UNCHANGED <<dag, direct, atropos, draft>>
    <3>1. batch' = batch \/ batch' = [batch EXCEPT ![g] = IF IsEventInBlock(e) THEN @ ELSE @ \cup {e}]
      BY <1>5 DEF Collect
    <3>2. batch = [batch EXCEPT ![g] = @]
      BY DEF BlockTypes
    <3>3. CASE IsEventInBlock(e)
      BY <1>5, <3>1, <3>2, <3>3 DEF Collect
    <3>4. CASE ~IsEventInBlock(e)
      BY <1>5, <3>1, <3>4 DEF Collect
    <3> QED BY <3>3, <3>4
  <2> QED BY <1>2, <2>1 DEF BlockTypes
<1>6. CASE CreateBlock(g)
  <2>1. PICK group \in Groups(batch[g]) :
          draft' = [draft EXCEPT ![g] = [number |-> latest.number + 1,
                                         parent |-> Genesis, events |-> group]]
    BY <1>6 DEF CreateBlock
  <2>2. group \subseteq Event
    BY DEF Groups, BlockTypes
  <2>3. [number |-> latest.number + 1, parent |-> Genesis, events |-> group] \in DraftRec
    BY <2>2 DEF DraftRec, Genesis, ChainStaysEmpty
  <2>4. UNCHANGED <<dag, direct, atropos, scan, batch>>
    BY <1>6 DEF CreateBlock
  <2> QED BY <1>2, <2>1, <2>3, <2>4 DEF BlockTypes
<1>7. CASE SignBlock(g)
  <2>1. draft' = draft \/ draft' = [draft EXCEPT ![g].parent = latest]
    BY <1>7 DEF SignBlock
  <2>2. latest \in [number : Nat, events : SUBSET Event]
    BY DEF ChainStaysEmpty, Genesis
  <2>3. UNCHANGED <<dag, direct, atropos, scan, batch>>
    BY <1>7 DEF SignBlock
  <2> QED BY <1>2, <2>1, <2>2, <2>3 DEF BlockTypes, DraftRec
<1>8. CASE AddBlock(g)
  <2>1. call[g].at = "body" /\ LockOf(call[g].op) = "chain"
    BY <1>8 DEF AddBlock, In, LockOf
  <2>2. UNCHANGED <<dag, direct, atropos, scan, batch, draft>>
    BY <1>8, <2>1, LockedOut DEF AddBlock
  <2> QED BY <1>2, <2>2 DEF BlockTypes
<1> QED BY <1>1, <1>3, <1>4, <1>5, <1>6, <1>7, <1>8 DEF ChainStep

LEMMA ProcessTypes ==
    ASSUME StoreTypes, BlockTypes, NEW e \in Event, NEW b \in Body, ProcessEvent(e, b)
    PROVE  StoreTypes' /\ BlockTypes'
<1>1. UNCHANGED <<direct, atropos, scan, batch, draft>>
  BY DEF ProcessEvent, PosetStores, chainVars
<1>2. IsMap(eventCache', Event, Body)
  <2>1. \/ eventCache' = eventCache
        \/ \E gone : eventCache' = Put(Delete(eventCache, gone), e, b)
    BY DEF ProcessEvent, CacheEvent, SetEvent, cacheVars
  <2> QED BY <2>1, PutIsMap, DeleteIsMap DEF StoreTypes
<1>3. IsMap(dag', Event, Body)
  <2>1. GetEvent(e, b) \in Body
    BY DEF GetEvent, StoreTypes, IsMap
  <2>2. dag' = dag \/ dag' = Put(dag, e, GetEvent(e, b))
    BY DEF ProcessEvent, PosetStores, chainVars
  <2> QED BY <2>1, <2>2, PutIsMap DEF StoreTypes
<1> QED BY <1>1, <1>2, <1>3 DEF StoreTypes, BlockTypes

LEMMA StoreTypesStep ==
    NodeInv /\ StoreTypes /\ BlockTypes /\ [NodeNext]_nodeVars => StoreTypes' /\ BlockTypes'
<1> SUFFICES ASSUME NodeInv, StoreTypes, BlockTypes, [NodeNext]_nodeVars
             PROVE  StoreTypes' /\ BlockTypes'
  OBVIOUS
<1>1. ASSUME UNCHANGED <<chainVars, cacheVars>> PROVE StoreTypes' /\ BlockTypes'
  BY <1>1 DEF chainVars, cacheVars, StoreTypes, BlockTypes
<1>2. ASSUME NEW g \in Caller, Step(g) \/ Start(g) PROVE StoreTypes' /\ BlockTypes'
  <2>1. \/ ChainStep(g) /\ UNCHANGED cacheVars
        \/ UNCHANGED <<chainVars, cacheVars>>
    BY <1>2 DEF Step, Start, CallChain
  <2> QED BY <1>1, <2>1, ChainTypesStep DEF NodeInv
<1>3. CASE Elsewhere
  <2>1. CASE \E e \in Event, b \in Body : ProcessEvent(e, b)
    BY <2>1, ProcessTypes
  <2>2. ASSUME NEW e \in Event, FinalityMarks(e), UNCHANGED cacheVars
        PROVE  StoreTypes' /\ BlockTypes'
    BY <2>2 DEF FinalityMarks, cacheVars, StoreTypes, BlockTypes
  <2>3. ASSUME ClearCache, UNCHANGED chainVars PROVE StoreTypes' /\ BlockTypes'
    <3>1. IsMap(<<>>, Event, Body)
      BY DEF IsMap
    <3> QED BY <2>3, <3>1 DEF ClearCache, chainVars, StoreTypes, BlockTypes
  <2> QED BY <1>1, <1>3, <2>1, <2>2, <2>3 DEF Elsewhere
<1> QED BY <1>1, <1>2, <1>3 DEF NodeNext, nodeVars

LEMMA StoreTypesInvariant == NodeSpec => [](StoreTypes /\ BlockTypes)
<1>1. NodeInit => StoreTypes /\ BlockTypes
  <2> SUFFICES ASSUME NodeInit PROVE StoreTypes /\ BlockTypes
    OBVIOUS
  <2>1. dag = <<>> /\ eventCache = <<>> /\ direct = {} /\ atropos = {}
    BY DEF NodeInit, ChainInit, CacheInit
  <2>2. IsMap(<<>>, Event, Body)
    BY DEF IsMap
  <2>3. NoDraft \in DraftRec
    BY DEF NoDraft, DraftRec, Genesis
  <2>4. BlockTypes
    BY <2>3 DEF NodeInit, ChainInit, BlockTypes
  <2> QED BY <2>1, <2>2, <2>4 DEF StoreTypes
<1>2. NodeInv /\ StoreTypes /\ BlockTypes /\ [NodeNext]_nodeVars => StoreTypes' /\ BlockTypes'
  BY StoreTypesStep
<1> QED BY <1>1, <1>2, NodeInvariant, PTL DEF NodeSpec

(* Every variable of the node keeps its type, whatever its goroutines, the *)
(* engine and the users of the pool do.                                    *)
THEOREM NodeTypes == NodeSpec => []NodeTypeOK
<1>1. /\ NodeInv /\ HandleInv /\ TallyInv /\ PoolInv
      /\ RootTypes /\ StoreTypes /\ BlockTypes
      => NodeTypeOK
  <2> SUFFICES ASSUME NodeInv, HandleInv, TallyInv, PoolInv, RootTypes, StoreTypes, BlockTypes
               PROVE  NodeTypeOK
    OBVIOUS
  <2>1. GoTypeOK(StateOps \cup ChainOps) /\ PoolTypeOK
    BY DEF NodeInv, GoInv, PoolInv
  <2>2. StateTypeOK
    <3>1. balance \in [Address -> Int] /\ DOMAIN validators \subseteq Address
      BY DEF NodeInv, StakeInv, NoValidators
    <3> QED BY <3>1 DEF StateTypeOK, HandleInv, HandleTypes, TallyInv, TallyRec, IsBallots, RootTypes
  <2>3. ChainTypeOK
    <3>1. /\ blocks \subseteq [number : Nat, events : SUBSET Event]
          /\ latest \in [number : Nat, events : SUBSET Event] /\ rounded \subseteq Event
      BY DEF NodeInv, ChainStaysEmpty, Genesis
    <3> QED BY <3>1 DEF ChainTypeOK, StoreTypes, BlockTypes, DraftRec, IsMap
  <2> QED BY <2>1, <2>2, <2>3 DEF NodeTypeOK
<1> QED BY <1>1, NodeInvariant, HandleInvariant, TallyInvariant, PoolInvariant, RootInvariant,
           StoreTypesInvariant, PTL

=============================================================================
