-------------------------------- MODULE RWMutex --------------------------------
(***************************************************************************)
(* Go's sync.RWMutex, which guards every component of the node: operators  *)
(* over a mutex [readers, writer, waiting], the sets of goroutines that    *)
(* hold it for reading, hold it for writing, and are next to hold it for   *)
(* writing (at most one; the others queue behind it unseen).  A waiting    *)
(* writer keeps new readers out, so that it is not overtaken for ever.     *)
(* The mutex does not know its holders: a goroutine that asks again for    *)
(* what it holds waits like any other.                                     *)
(***************************************************************************)

Unlocked == [readers |-> {}, writer |-> {}, waiting |-> {}]

Mutex(Goroutine) == [readers : SUBSET Goroutine, writer : SUBSET Goroutine,
                     waiting : SUBSET Goroutine]

(* RLock would not block. *)
CanRLock(m) == m.writer = {} /\ m.waiting = {}

(* Lock by goroutine g can get on, and would not block. *)
CanTryLock(m, g) == m.writer = {} /\ m.waiting \subseteq {g}
CanLock(m, g) == CanTryLock(m, g) /\ m.readers = {}

(* The mutex after RLock and RUnlock, after Lock has got on (it waits for  *)
(* the readers that are in), and after Unlock.                             *)
RLocked(m, g)   == [m EXCEPT !.readers = @ \cup {g}]
RUnlocked(m, g) == [m EXCEPT !.readers = @ \ {g}]
TriedLock(m, g) == IF m.readers = {} THEN [m EXCEPT !.waiting = {}, !.writer = {g}]
                                     ELSE [m EXCEPT !.waiting = {g}]
Released(m)     == [m EXCEPT !.writer = {}]

=============================================================================
