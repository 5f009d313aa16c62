------------------------------ MODULE Goroutines ------------------------------
(***************************************************************************)
(* The goroutines that call into the node's components (HTTP handlers,     *)
(* stream handlers, the engine's own), and the components' locks.  A call  *)
(* waits for a lock at "lock" or "rlock" and holds it in its later steps.  *)
(***************************************************************************)
EXTENDS RWMutex, Integers, FiniteSets

CONSTANTS Caller,    \* goroutines
          MaxCalls   \* bound: calls made in all, one-step calls included

ASSUME MaxCallsAssumption == MaxCalls \in Nat

VARIABLES call,    \* what each goroutine does: [op, at]
          mu,      \* s.mu, bc.mu and d.mu
          calls,   \* calls made so far
          died     \* the runtime has killed the process

goVars == <<call, mu, calls, died>>

Lock == {"state", "chain", "dag"}

Idle == [op |-> "none", at |-> "idle"]

GoInit == /\ call = [g \in Caller |-> Idle]
          /\ mu = [l \in Lock |-> Unlocked]
          /\ calls = 0
          /\ died = FALSE

In(g, op, at) == ~died /\ call[g] = [op |-> op, at |-> at]
GoTo(g, at) == call' = [call EXCEPT ![g].at = at]
Return(g) == call' = [call EXCEPT ![g] = Idle]

(* A goroutine makes a call that first does what "at" names. *)
Begin(g, op, at) ==
    /\ ~died
    /\ call[g] = Idle
    /\ calls < MaxCalls
    /\ call' = [call EXCEPT ![g] = [op |-> op, at |-> at]]
    /\ calls' = calls + 1
    /\ UNCHANGED <<mu, died>>

(* A call that takes no lock twice and is over in one step. *)
ShortCall ==
    /\ ~died
    /\ calls < MaxCalls
    /\ calls' = calls + 1
    /\ UNCHANGED <<call, mu, died>>

(* mu.Lock() of a call that is at "lock": get in, or wait for the readers. *)
TakeLock(g, l) ==
    /\ ~died
    /\ call[g].at = "lock"
    /\ CanTryLock(mu[l], g)
    /\ mu' = [mu EXCEPT ![l] = TriedLock(@, g)]
    /\ mu' # mu
    /\ IF CanLock(mu[l], g) THEN GoTo(g, "body") ELSE UNCHANGED call
    /\ UNCHANGED <<calls, died>>

(* Return with the lock released. *)
Finish(g, l) == /\ mu' = [mu EXCEPT ![l] = Released(@)]
                /\ Return(g)
                /\ UNCHANGED <<calls, died>>

(* Wait for a lock that this goroutine holds. *)
Hang(g) == /\ GoTo(g, "stuck")
           /\ UNCHANGED <<mu, calls, died>>

(* Take and release a read lock. *)
TakeRLock(g, l) == CanRLock(mu[l]) /\ mu' = [mu EXCEPT ![l] = RLocked(@, g)]
DropRLock(g, l) == mu' = [mu EXCEPT ![l] = RUnlocked(@, g)]

Pc == {"idle", "rlock", "lock", "body", "enter", "collect", "build", "parent",
       "nested", "write", "stuck"}
GoTypeOK(Op) == /\ call \in [Caller -> [op : Op \cup {"none"}, at : Pc]]
                /\ mu \in [Lock -> Mutex(Caller)]
                /\ calls \in 0..MaxCalls
                /\ died \in BOOLEAN

=============================================================================
