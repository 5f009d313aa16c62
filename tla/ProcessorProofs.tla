---------------------------- MODULE ProcessorProofs ----------------------------
(***************************************************************************)
(* The parallel processor, for every set of work, any number of workers    *)
(* and any capacities: its types, and that work is neither lost nor done   *)
(* twice.  Neither is inductive by itself: that a worker overwrites no     *)
(* work when it receives, and drops or sends only work, needs HandsFull;   *)
(* that Start finds nobody at work needs NotStarted.                       *)
(***************************************************************************)
EXTENDS ParallelProcessor, FiniteSetTheorems, TLAPS

-----------------------------------------------------------------------------
(* The number of copies of x in a channel. *)

LEMMA CopiesNat ==
    ASSUME NEW V, NEW s \in Seq(V), NEW x
    PROVE  /\ IsFiniteSet({i \in DOMAIN s : s[i] = x})
           /\ Copies(s, x) \in Nat
<1>1. IsFiniteSet(1..Len(s)) /\ DOMAIN s = 1..Len(s)
  BY FS_Interval
<1>2. IsFiniteSet({i \in DOMAIN s : s[i] = x})
  BY <1>1, FS_Subset
<1>3. QED
  BY <1>2, FS_CardinalityType DEF Copies

LEMMA CopiesEmpty == \A x : Copies(<<>>, x) = 0
<1>1. \A x : {i \in DOMAIN <<>> : <<>>[i] = x} = {}
  OBVIOUS
<1>2. QED
  BY <1>1, FS_EmptySet DEF Copies

(* A send adds a copy of what is sent. *)
LEMMA CopiesAppend ==
    ASSUME NEW V, NEW s \in Seq(V), NEW y \in V, NEW x
    PROVE  Copies(Append(s, y), x) = Copies(s, x) + (IF y = x THEN 1 ELSE 0)
<1> DEFINE A == {i \in DOMAIN s : s[i] = x}
           t == Append(s, y)
           B == {i \in DOMAIN t : t[i] = x}
           n == Len(s) + 1
<1>1. /\ DOMAIN s = 1..Len(s) /\ Len(s) \in Nat
      /\ DOMAIN t = 1..n /\ t[n] = y
      /\ \A i \in 1..Len(s) : t[i] = s[i]
  OBVIOUS
<1>2. B = IF y = x THEN A \cup {n} ELSE A
  <2> HIDE DEF t
  <2> QED BY <1>1
<1>3. n \notin A
  BY <1>1
<1>4. IsFiniteSet(A) /\ Cardinality(A) \in Nat
  BY CopiesNat, FS_CardinalityType
<1>5. Cardinality(B) = Cardinality(A) + (IF y = x THEN 1 ELSE 0)
  <2> HIDE DEF A, B, n
  <2>1. CASE y = x
    BY <2>1, <1>2, <1>3, <1>4, FS_AddElement
  <2>2. CASE y # x
    BY <2>2, <1>2, <1>4
  <2>3. QED
    BY <2>1, <2>2
<1>6. QED
  BY <1>5 DEF Copies

(* A receive takes away the copy that is received. *)
LEMMA CopiesTail ==
    ASSUME NEW V, NEW s \in Seq(V), s # <<>>, NEW x
    PROVE  Copies(Tail(s), x) = Copies(s, x) - (IF Head(s) = x THEN 1 ELSE 0)
<1> DEFINE A == {i \in DOMAIN s : s[i] = x}
           t == Tail(s)
           B == {i \in DOMAIN t : t[i] = x}
           A1 == A \ {1}
           f == [i \in B |-> i + 1]
<1>1. /\ DOMAIN s = 1..Len(s) /\ Len(s) \in Nat /\ Len(s) # 0
      /\ t \in Seq(V) /\ Len(t) = Len(s) - 1 /\ DOMAIN t = 1..Len(t)
      /\ \A i \in 1..Len(t) : t[i] = s[i + 1]
      /\ Head(s) = s[1]
  OBVIOUS
<1>2. IsFiniteSet(A) /\ IsFiniteSet(B) /\ Cardinality(A) \in Nat /\ Cardinality(B) \in Nat
  <2>1. IsFiniteSet(A)
    BY CopiesNat
  <2>2. IsFiniteSet(B)
    <3> HIDE DEF t
    <3> QED BY <1>1, CopiesNat
  <2> HIDE DEF A, B
  <2>3. QED
    BY <2>1, <2>2, FS_CardinalityType
<1>3. f \in Bijection(B, A1)
  <2> HIDE DEF t
  <2>1. \A i \in B : i \in Nat /\ i + 1 \in A1
    BY <1>1
  <2>2. \A j \in A1 : j - 1 \in B /\ (j - 1) + 1 = j
    BY <1>1
  <2> HIDE DEF A1, B
  <2>3. f \in [B -> A1] /\ \A i, j \in B : f[i] = f[j] => i = j
    BY <2>1
  <2>4. \A j \in A1 : \E i \in B : f[i] = j
    BY <2>2
  <2>5. QED
    BY <2>3, <2>4 DEF Bijection, Injection, Surjection, IsInjective
<1>4. Cardinality(A1) = Cardinality(B)
  <2> HIDE DEF A1, B, f
  <2> QED BY <1>2, <1>3, FS_Bijection DEF ExistsBijection
<1>5. Cardinality(A1) = IF 1 \in A THEN Cardinality(A) - 1 ELSE Cardinality(A)
  <2> HIDE DEF A
  <2> QED BY <1>2, FS_RemoveElement
<1>6. 1 \in A <=> Head(s) = x
  BY <1>1
<1>7. Cardinality(B) = Cardinality(A) - (IF Head(s) = x THEN 1 ELSE 0)
  <2> HIDE DEF A, A1, B
  <2> QED BY <1>2, <1>4, <1>5, <1>6
<1>8. QED
  BY <1>7 DEF Copies

-----------------------------------------------------------------------------
(* A goroutine has work in hand exactly while it checks or sends it. *)
HandsFull ==
    /\ \A w \in Workers : hand[w] # NoWork <=> pc[w] \in {"check", "send"}
    /\ rpHand # NoWork <=> rp = "check"

(* Before Start no goroutine exists. *)
NotStarted ==
    ~running /\ stopping = "no" => rp = "none" /\ \A w \in Workers : pc[w] = "none"

ProcInv == TypeOK /\ HandsFull /\ NotStarted

LEMMA ProcInvInit == Init => ProcInv
<1> SUFFICES ASSUME Init PROVE ProcInv
  OBVIOUS
<1>1. /\ eventQueue \in Seq(Events) /\ consensusQueue \in Seq(Tasks)
      /\ results \in Seq(Work) /\ handled \in Seq(Work)
      /\ Len(eventQueue) = 0 /\ Len(consensusQueue) = 0 /\ Len(results) = 0
  BY DEF Init
<1>2. running \in BOOLEAN /\ panicked \in BOOLEAN
  BY DEF Init
<1>3. TypeOK
  BY <1>1, <1>2, ChannelAssumption DEF Init, TypeOK
<1>4. QED
  BY <1>3 DEF Init, ProcInv, HandsFull, NotStarted

(* Work comes from the two sets, which hold no NoWork. *)
LEMMA WorkFacts == /\ NoWork \notin Work
                   /\ Events \subseteq Work /\ Tasks \subseteq Work
                   /\ EventWorkers \subseteq Workers /\ ConsensusWorkers \subseteq Workers
  BY WorkAssumption DEF Work, Workers

(* A send to a channel of work, and a receive from one. *)
LEMMA AppendFacts ==
    ASSUME NEW V, NEW s \in Seq(V), NEW y \in V
    PROVE  Append(s, y) \in Seq(V) /\ Len(Append(s, y)) = Len(s) + 1 /\ Len(s) \in Nat
  OBVIOUS

LEMMA HeadTail ==
    ASSUME NEW V, NEW s \in Seq(V), s # <<>>
    PROVE  Head(s) \in V /\ Tail(s) \in Seq(V) /\ Len(Tail(s)) <= Len(s)
  OBVIOUS

LEMMA TakeInv ==
    ASSUME ProcInv, NEW w \in Workers, NEW q, NEW q1, NEW V, V \subseteq Work,
           q \in Seq(V), pc[w] = "receive", q # <<>>,
           hand' = [hand EXCEPT ![w] = Head(q)],
           pc' = [pc EXCEPT ![w] = "check"],
           UNCHANGED <<stopVars, rpVars, results, offered, dropped, panicked>>
    PROVE  /\ pc' \in [Workers -> {"none", "receive", "check", "send", "gone"}]
           /\ hand' \in [Workers -> Work \cup {NoWork}]
           /\ HandsFull' /\ NotStarted'
  BY HeadTail, WorkFacts DEF ProcInv, TypeOK, HandsFull, NotStarted, stopVars, rpVars

LEMMA WorkerInv ==
    ASSUME ProcInv, NEW w \in Workers, WorkerStep(w)
    PROVE  ProcInv'
<1> USE DEF ProcInv
<1>1. CASE w \in EventWorkers /\ EventReceive(w)
  <2>1. /\ UNCHANGED consensusQueue /\ pc[w] = "receive" /\ eventQueue \in Seq(Events)
        /\ UNCHANGED <<stopVars, rpVars, results, offered, dropped, panicked>>
    BY <1>1 DEF EventReceive, Take, TypeOK
  <2>2. CASE /\ eventQueue # <<>> /\ eventQueue' = Tail(eventQueue)
             /\ hand' = [hand EXCEPT ![w] = Head(eventQueue)]
             /\ pc' = [pc EXCEPT ![w] = "check"]
    <3>1. /\ pc' \in [Workers -> {"none", "receive", "check", "send", "gone"}]
          /\ hand' \in [Workers -> Work \cup {NoWork}]
          /\ HandsFull' /\ NotStarted'
      BY <2>1, <2>2, TakeInv, WorkFacts
    <3>2. eventQueue' \in Seq(Events) /\ Len(eventQueue') <= EventCap
      BY <2>1, <2>2, ChannelAssumption DEF TypeOK
    <3>3. QED
      BY <2>1, <3>1, <3>2 DEF TypeOK, stopVars, rpVars
  <2>3. CASE UNCHANGED <<eventQueue, hand>> /\ pc' = [pc EXCEPT ![w] = "gone"]
    BY <2>1, <2>3 DEF TypeOK, HandsFull, NotStarted, stopVars, rpVars
  <2>4. QED
    BY <1>1, <2>2, <2>3 DEF EventReceive, Take
<1>2. CASE w \in ConsensusWorkers /\ TaskReceive(w)
  <2>1. /\ UNCHANGED eventQueue /\ pc[w] = "receive" /\ consensusQueue \in Seq(Tasks)
        /\ UNCHANGED <<stopVars, rpVars, results, offered, dropped, panicked>>
    BY <1>2 DEF TaskReceive, Take, TypeOK
  <2>2. CASE /\ consensusQueue # <<>> /\ consensusQueue' = Tail(consensusQueue)
             /\ hand' = [hand EXCEPT ![w] = Head(consensusQueue)]
             /\ pc' = [pc EXCEPT ![w] = "check"]
    <3>1. /\ pc' \in [Workers -> {"none", "receive", "check", "send", "gone"}]
          /\ hand' \in [Workers -> Work \cup {NoWork}]
          /\ HandsFull' /\ NotStarted'
      BY <2>1, <2>2, TakeInv, WorkFacts
    <3>2. consensusQueue' \in Seq(Tasks) /\ Len(consensusQueue') <= TaskCap
      BY <2>1, <2>2, ChannelAssumption DEF TypeOK
    <3>3. QED
      BY <2>1, <3>1, <3>2 DEF TypeOK, stopVars, rpVars
  <2>3. CASE UNCHANGED <<consensusQueue, hand>> /\ pc' = [pc EXCEPT ![w] = "gone"]
    BY <2>1, <2>3 DEF TypeOK, HandsFull, NotStarted, stopVars, rpVars
  <2>4. QED
    BY <1>2, <2>2, <2>3 DEF TaskReceive, Take
<1>3. CASE Check(w)
  <2>1. hand[w] \in Work
    BY <1>3 DEF Check, HandsFull, TypeOK
  <2>2. QED
    BY <1>3, <2>1, WorkFacts
       DEF Check, TypeOK, HandsFull, NotStarted, stopVars, rpVars, callerVars
<1>4. CASE SendResult(w)
  <2>1. hand[w] \in Work /\ results \in Seq(Work)
    BY <1>4 DEF SendResult, HandsFull, TypeOK
  <2>2. CASE panicked' = TRUE /\ UNCHANGED <<results, workerVars>>
    BY <1>4, <2>2
       DEF SendResult, TypeOK, HandsFull, NotStarted, stopVars, rpVars, callerVars, workerVars
  <2>3. CASE /\ Len(results) < ResultCap
             /\ results' = Append(results, hand[w])
             /\ pc' = [pc EXCEPT ![w] = "receive"]
             /\ hand' = [hand EXCEPT ![w] = NoWork]
             /\ UNCHANGED panicked
    <3>1. results' \in Seq(Work) /\ Len(results') <= ResultCap
      BY <2>1, <2>3, ChannelAssumption
    <3>2. UNCHANGED <<stopVars, rpVars, callerVars, dropped>> /\ pc[w] = "send"
      BY <1>4 DEF SendResult
    <3>3. QED
      BY <2>3, <3>1, <3>2, WorkFacts
         DEF TypeOK, HandsFull, NotStarted, stopVars, rpVars, callerVars
  <2>4. QED
    BY <1>4, <2>2, <2>3 DEF SendResult
<1>5. QED
  BY <1>1, <1>2, <1>3, <1>4 DEF WorkerStep

LEMMA CallerInv ==
    ASSUME ProcInv, (\E e \in Events : AddEvent(e)) \/ (\E t \in Tasks : AddConsensusTask(t))
    PROVE  ProcInv'
<1> USE DEF ProcInv
<1>1. ASSUME NEW e \in Events, AddEvent(e) PROVE ProcInv'
  <2>1. eventQueue' \in Seq(Events) /\ Len(eventQueue') <= EventCap
    <3>1. eventQueue \in Seq(Events) /\ Len(eventQueue) <= EventCap
      BY DEF TypeOK
    <3>2. \/ eventQueue' = eventQueue
          \/ eventQueue' = Append(eventQueue, e) /\ Len(eventQueue) < EventCap
      BY <1>1 DEF AddEvent
    <3>3. QED
      BY <3>1, <3>2, AppendFacts, ChannelAssumption
  <2>2. offered' \subseteq Work /\ dropped' \subseteq Work
    <3>1. /\ e \in Work /\ offered' = offered \cup {e}
          /\ dropped' = dropped \/ dropped' = dropped \cup {e}
      BY <1>1, WorkFacts DEF AddEvent
    <3>2. QED
      BY <3>1 DEF TypeOK
  <2>3. panicked' \in BOOLEAN
    BY <1>1 DEF AddEvent
  <2>4. QED
    BY <1>1, <2>1, <2>2, <2>3
       DEF AddEvent, TypeOK, HandsFull, NotStarted, stopVars, rpVars, workerVars
<1>2. ASSUME NEW t \in Tasks, AddConsensusTask(t) PROVE ProcInv'
  <2>1. consensusQueue' \in Seq(Tasks) /\ Len(consensusQueue') <= TaskCap
    <3>1. consensusQueue \in Seq(Tasks) /\ Len(consensusQueue) <= TaskCap
      BY DEF TypeOK
    <3>2. \/ consensusQueue' = consensusQueue
          \/ consensusQueue' = Append(consensusQueue, t) /\ Len(consensusQueue) < TaskCap
      BY <1>2 DEF AddConsensusTask
    <3>3. QED
      BY <3>1, <3>2, AppendFacts, ChannelAssumption
  <2>2. offered' \subseteq Work /\ dropped' \subseteq Work
    <3>1. /\ t \in Work /\ offered' = offered \cup {t}
          /\ dropped' = dropped \/ dropped' = dropped \cup {t}
      BY <1>2, WorkFacts DEF AddConsensusTask
    <3>2. QED
      BY <3>1 DEF TypeOK
  <2>3. panicked' \in BOOLEAN
    BY <1>2 DEF AddConsensusTask
  <2>4. QED
    BY <1>2, <2>1, <2>2, <2>3
       DEF AddConsensusTask, TypeOK, HandsFull, NotStarted, stopVars, rpVars, workerVars
<1>3. QED
  BY <1>1, <1>2

LEMMA ResultInv ==
    ASSUME ProcInv, ResultStep
    PROVE  ProcInv'
<1> USE DEF ProcInv
<1>1. CASE ResultReceive
  <2>1. CASE results # <<>> /\ results' = Tail(results) /\ rpHand' = Head(results) /\ rp' = "check"
    <3>1. /\ results' \in Seq(Work) /\ Len(results') <= ResultCap
          /\ rpHand' \in Work
      BY <2>1, HeadTail, ChannelAssumption DEF TypeOK
    <3>2. QED
      BY <1>1, <2>1, <3>1, WorkFacts
         DEF ResultReceive, TypeOK, HandsFull, NotStarted, stopVars, workerVars, callerVars
  <2>2. CASE rp' = "gone" /\ UNCHANGED <<results, rpHand>>
    BY <1>1, <2>2
       DEF ResultReceive, TypeOK, HandsFull, NotStarted, stopVars, workerVars, callerVars
  <2>3. QED
    BY <1>1, <2>1, <2>2 DEF ResultReceive
<1>2. CASE HandleResult
  <2>1. rpHand \in Work
    BY <1>2 DEF HandleResult, HandsFull, TypeOK
  <2>2. handled' \in Seq(Work) /\ dropped' \subseteq Work
    <3>1. \/ handled' = Append(handled, rpHand) /\ dropped' = dropped
          \/ handled' = handled /\ dropped' = dropped \cup {rpHand}
      BY <1>2 DEF HandleResult
    <3>2. handled \in Seq(Work) /\ dropped \subseteq Work
      BY DEF TypeOK
    <3>3. QED
      BY <2>1, <3>1, <3>2, AppendFacts
  <2>3. QED
    BY <1>2, <2>2, WorkFacts
       DEF HandleResult, TypeOK, HandsFull, NotStarted, stopVars, workerVars, callerVars
<1>3. QED
  BY <1>1, <1>2 DEF ResultStep

LEMMA StartStopInv ==
    ASSUME ProcInv, Start \/ Stop
    PROVE  ProcInv'
<1> USE DEF ProcInv
<1>1. CASE Start
  BY <1>1 DEF Start, TypeOK, HandsFull, NotStarted, callerVars
<1>2. CASE Stop
  BY <1>2 DEF Stop, StopStep, TypeOK, HandsFull, NotStarted, callerVars, workerVars, rpVars
<1>3. QED
  BY <1>1, <1>2

LEMMA ProcInvStep == ProcInv /\ [Next]_vars => ProcInv'
<1>1. ASSUME ProcInv, UNCHANGED vars PROVE ProcInv'
  BY <1>1 DEF vars, ProcInv, TypeOK, HandsFull, NotStarted
<1>2. QED
  BY <1>1, WorkerInv, CallerInv, ResultInv, StartStopInv DEF Next

(* The channels never hold more than their capacity and every goroutine    *)
(* has in hand, sends, drops and handles work and nothing else             *)
(* (consensus.go:895-1010).                                                *)
THEOREM ProcessorTypes == Spec => []TypeOK
<1>1. Init => ProcInv
  BY ProcInvInit
<1>2. ProcInv /\ [Next]_vars => ProcInv'
  BY ProcInvStep
<1>3. ProcInv => TypeOK
  BY DEF ProcInv
<1>4. QED
  BY <1>1, <1>2, <1>3, PTL DEF Spec

-----------------------------------------------------------------------------
(* The workers that hold x, finitely many, and the places where a piece of *)
(* work x is, counted.                                                     *)
Holders(x) == {w \in Workers : hand[w] = x}
NEvents(x) == Copies(eventQueue, x)
NTasks(x) == Copies(consensusQueue, x)
NResults(x) == Copies(results, x)
NHandled(x) == Copies(handled, x)
NHands(x) == Cardinality(Holders(x))
NRp(x) == IF rpHand = x THEN 1 ELSE 0
NDropped(x) == IF x \in dropped THEN 1 ELSE 0
NOffered(x) == IF x \in offered THEN 1 ELSE 0
Conserved(x) ==
    /\ IsFiniteSet(Holders(x))
    /\ NEvents(x) + NTasks(x) + NResults(x) + NHandled(x) + NHands(x) + NRp(x) + NDropped(x)
           = NOffered(x)

LEMMA PlacesFacts ==
    ASSUME TypeOK, NEW x, Conserved(x)
    PROVE  /\ NEvents(x) \in Nat /\ NTasks(x) \in Nat /\ NResults(x) \in Nat
           /\ NHandled(x) \in Nat /\ NHands(x) \in Nat
           /\ NRp(x) \in Nat /\ NDropped(x) \in Nat /\ NOffered(x) \in {0, 1}
<1>1. /\ eventQueue \in Seq(Events) /\ consensusQueue \in Seq(Tasks)
      /\ results \in Seq(Work) /\ handled \in Seq(Work)
  BY DEF TypeOK
<1>2. /\ NEvents(x) \in Nat /\ NTasks(x) \in Nat /\ NResults(x) \in Nat
      /\ NHandled(x) \in Nat
  BY <1>1, CopiesNat DEF NEvents, NTasks, NResults, NHandled
<1>3. NHands(x) \in Nat
  BY FS_CardinalityType DEF Conserved, NHands
<1>4. NRp(x) \in Nat /\ NDropped(x) \in Nat /\ NOffered(x) \in {0, 1}
  BY DEF NRp, NDropped, NOffered
<1>5. QED
  BY <1>2, <1>3, <1>4

(* What somebody has in hand has not been dropped. *)
LEMMA HeldNotDropped ==
    ASSUME TypeOK, NEW x, Conserved(x), NHands(x) # 0 \/ NRp(x) # 0
    PROVE  NDropped(x) = 0
<1>1. /\ NEvents(x) \in Nat /\ NTasks(x) \in Nat /\ NResults(x) \in Nat
      /\ NHandled(x) \in Nat /\ NHands(x) \in Nat
      /\ NRp(x) \in Nat /\ NDropped(x) \in Nat
  BY PlacesFacts
<1>2. NOffered(x) \in {0, 1}
  BY DEF NOffered
<1>3. NEvents(x) + NTasks(x) + NResults(x) + NHandled(x) + NHands(x) + NRp(x) + NDropped(x)
          = NOffered(x)
  BY DEF Conserved
<1>4. \A e, t, r, d, h, p, k \in Nat, o \in {0, 1} :
          e + t + r + d + h + p + k = o /\ (h # 0 \/ p # 0) => k = 0
  OBVIOUS
<1>5. QED
  BY <1>1, <1>2, <1>3, <1>4

(* Worker w exchanges what it has in hand for v. *)
LEMMA HandChange ==
    ASSUME TypeOK, NEW w \in Workers, NEW v, hand' = [hand EXCEPT ![w] = v],
           NEW x, Conserved(x)
    PROVE  /\ IsFiniteSet(Holders(x)')
           /\ NHands(x)' = NHands(x) - (IF hand[w] = x THEN 1 ELSE 0) + (IF v = x THEN 1 ELSE 0)
<1> DEFINE H == Holders(x) \ {w}
<1>1. IsFiniteSet(Holders(x)) /\ Cardinality(Holders(x)) \in Nat
  BY FS_CardinalityType DEF Conserved
<1>2. /\ IsFiniteSet(H) /\ w \notin H
      /\ Cardinality(H) = IF w \in Holders(x) THEN Cardinality(Holders(x)) - 1
                                              ELSE Cardinality(Holders(x))
  BY <1>1, FS_RemoveElement
<1>3. /\ w \in Holders(x) <=> hand[w] = x
      /\ Holders(x)' = IF v = x THEN H \cup {w} ELSE H
  BY DEF TypeOK, Holders
<1>4. IsFiniteSet(H \cup {w}) /\ Cardinality(H \cup {w}) = Cardinality(H) + 1
  BY <1>2, FS_AddElement
<1>5. Cardinality(H) \in Nat
  BY <1>2, FS_CardinalityType
<1> HIDE DEF H
<1>6. /\ IsFiniteSet(Holders(x)')
      /\ Cardinality(Holders(x)') = Cardinality(H) + (IF v = x THEN 1 ELSE 0)
  BY <1>2, <1>3, <1>4, <1>5
<1>7. QED
  BY <1>1, <1>2, <1>3, <1>5, <1>6 DEF NHands

LEMMA HandFilled ==
    ASSUME TypeOK, NEW w \in Workers, NEW v, hand[w] = NoWork,
           hand' = [hand EXCEPT ![w] = v], NEW x \in Work, Conserved(x)
    PROVE  /\ IsFiniteSet(Holders(x)')
           /\ NHands(x)' = NHands(x) + (IF v = x THEN 1 ELSE 0)
<1>1. hand[w] # x /\ NHands(x) \in Nat
  BY WorkFacts, PlacesFacts
<1>2. /\ IsFiniteSet(Holders(x)')
      /\ NHands(x)' = NHands(x) - (IF hand[w] = x THEN 1 ELSE 0) + (IF v = x THEN 1 ELSE 0)
  BY HandChange
<1>3. QED
  BY <1>1, <1>2

LEMMA HandEmptied ==
    ASSUME TypeOK, NEW w \in Workers, hand' = [hand EXCEPT ![w] = NoWork],
           NEW x \in Work, Conserved(x)
    PROVE  /\ IsFiniteSet(Holders(x)')
           /\ NHands(x)' = NHands(x) - (IF hand[w] = x THEN 1 ELSE 0)
<1>1. NoWork # x /\ NHands(x) \in Nat
  BY WorkFacts, PlacesFacts
<1>2. /\ IsFiniteSet(Holders(x)')
      /\ NHands(x)' = NHands(x) - (IF hand[w] = x THEN 1 ELSE 0) + (IF NoWork = x THEN 1 ELSE 0)
  BY HandChange
<1>3. QED
  BY <1>1, <1>2

LEMMA ConservedInit == Init => \A x \in Work : Conserved(x)
<1> SUFFICES ASSUME Init, NEW x \in Work PROVE Conserved(x)
  OBVIOUS
<1>1. Holders(x) = {}
  BY WorkFacts DEF Init, Holders
<1>2. IsFiniteSet(Holders(x)) /\ Cardinality(Holders(x)) = 0
  BY <1>1, FS_EmptySet
<1>3. rpHand # x /\ x \notin dropped /\ x \notin offered
  BY WorkFacts DEF Init
<1>4. /\ Copies(eventQueue, x) = 0 /\ Copies(consensusQueue, x) = 0
      /\ Copies(results, x) = 0 /\ Copies(handled, x) = 0
  BY CopiesEmpty DEF Init
<1>5. QED
  BY <1>2, <1>3, <1>4
     DEF Conserved, NEvents, NTasks, NResults, NHandled, NHands, NRp, NDropped, NOffered

(* A caller puts its work into a queue, or drops it. *)
LEMMA AddConserves ==
    ASSUME ProcInv, NEW x \in Work, Conserved(x),
           (\E e \in Events : AddEvent(e)) \/ (\E t \in Tasks : AddConsensusTask(t))
    PROVE  Conserved(x)'
<1>1. PICK y \in Work :
        /\ y \notin offered /\ offered' = offered \cup {y}
        /\ \/ /\ y \in Events /\ eventQueue' = Append(eventQueue, y)
              /\ UNCHANGED <<consensusQueue, dropped>>
           \/ /\ y \in Tasks /\ consensusQueue' = Append(consensusQueue, y)
              /\ UNCHANGED <<eventQueue, dropped>>
           \/ dropped' = dropped \cup {y} /\ UNCHANGED <<eventQueue, consensusQueue>>
        /\ UNCHANGED <<results, handled, hand, rpHand>>
  BY WorkFacts DEF AddEvent, AddConsensusTask, workerVars, rpVars
<1>2. /\ Holders(x)' = Holders(x) /\ NHands(x)' = NHands(x)
      /\ NResults(x)' = NResults(x) /\ NHandled(x)' = NHandled(x) /\ NRp(x)' = NRp(x)
  BY <1>1 DEF Holders, NHands, NResults, NHandled, NRp
<1>3. TypeOK /\ eventQueue \in Seq(Events) /\ consensusQueue \in Seq(Tasks)
  BY DEF ProcInv, TypeOK
<1>4. NOffered(x)' = IF y = x THEN 1 ELSE NOffered(x)
  BY <1>1 DEF NOffered
<1>5. y = x => NOffered(x) = 0
  BY <1>1 DEF NOffered
<1>6. y = x => NDropped(x) = 0
  BY <1>3, <1>5, PlacesFacts DEF Conserved
<1> DEFINE New == IF y = x THEN 1 ELSE 0
<1>7. \/ /\ NEvents(x)' = NEvents(x) + New
         /\ NTasks(x)' = NTasks(x) /\ NDropped(x)' = NDropped(x)
      \/ /\ NTasks(x)' = NTasks(x) + New
         /\ NEvents(x)' = NEvents(x) /\ NDropped(x)' = NDropped(x)
      \/ /\ NDropped(x)' = NDropped(x) + New
         /\ NEvents(x)' = NEvents(x) /\ NTasks(x)' = NTasks(x)
  <2>1. CASE /\ y \in Events /\ eventQueue' = Append(eventQueue, y)
             /\ UNCHANGED <<consensusQueue, dropped>>
    <3>1. NEvents(x)' = NEvents(x) + New
      BY <1>3, <2>1, CopiesAppend DEF NEvents
    <3>2. QED
      BY <2>1, <3>1 DEF NTasks, NDropped
  <2>2. CASE /\ y \in Tasks /\ consensusQueue' = Append(consensusQueue, y)
             /\ UNCHANGED <<eventQueue, dropped>>
    <3>1. NTasks(x)' = NTasks(x) + New
      BY <1>3, <2>2, CopiesAppend DEF NTasks
    <3>2. QED
      BY <2>2, <3>1 DEF NEvents, NDropped
  <2>3. CASE dropped' = dropped \cup {y} /\ UNCHANGED <<eventQueue, consensusQueue>>
    <3>1. NDropped(x)' = NDropped(x) + New
      BY <1>6, <2>3 DEF NDropped
    <3>2. QED
      BY <2>3, <3>1 DEF NEvents, NTasks
  <2>4. QED
    BY <1>1, <2>1, <2>2, <2>3
<1>8. NOffered(x)' = NOffered(x) + New
  BY <1>4, <1>5, <1>3, PlacesFacts
<1>9. New \in Nat
  OBVIOUS
<1> HIDE DEF New
<1>10. /\ NEvents(x) \in Nat /\ NTasks(x) \in Nat /\ NResults(x) \in Nat
       /\ NHandled(x) \in Nat /\ NHands(x) \in Nat
       /\ NRp(x) \in Nat /\ NDropped(x) \in Nat /\ NOffered(x) \in Nat
  BY <1>3, PlacesFacts
<1>11. QED
  BY <1>2, <1>7, <1>8, <1>9, <1>10 DEF Conserved

(* A worker or the result processor moves one piece of work, n copies of   *)
(* x, from one place to another; or nothing moves.                         *)
Moves(x, n) ==
    \/ /\ NEvents(x)' = NEvents(x) - n /\ NHands(x)' = NHands(x) + n
       /\ UNCHANGED <<NTasks(x), NResults(x), NHandled(x), NRp(x), NDropped(x)>>
    \/ /\ NTasks(x)' = NTasks(x) - n /\ NHands(x)' = NHands(x) + n
       /\ UNCHANGED <<NEvents(x), NResults(x), NHandled(x), NRp(x), NDropped(x)>>
    \/ /\ NHands(x)' = NHands(x) - n /\ NDropped(x)' = NDropped(x) + n
       /\ UNCHANGED <<NEvents(x), NTasks(x), NResults(x), NHandled(x), NRp(x)>>
    \/ /\ NHands(x)' = NHands(x) - n /\ NResults(x)' = NResults(x) + n
       /\ UNCHANGED <<NEvents(x), NTasks(x), NHandled(x), NRp(x), NDropped(x)>>
    \/ /\ NResults(x)' = NResults(x) - n /\ NRp(x)' = NRp(x) + n
       /\ UNCHANGED <<NEvents(x), NTasks(x), NHandled(x), NHands(x), NDropped(x)>>
    \/ /\ NRp(x)' = NRp(x) - n /\ NHandled(x)' = NHandled(x) + n
       /\ UNCHANGED <<NEvents(x), NTasks(x), NResults(x), NHands(x), NDropped(x)>>
    \/ /\ NRp(x)' = NRp(x) - n /\ NDropped(x)' = NDropped(x) + n
       /\ UNCHANGED <<NEvents(x), NTasks(x), NResults(x), NHandled(x), NHands(x)>>
    \/ UNCHANGED <<NEvents(x), NTasks(x), NResults(x), NHandled(x), NHands(x), NRp(x),
                   NDropped(x)>>

LEMMA MoveConserves ==
    ASSUME TypeOK, NEW x, Conserved(x), NEW n \in Int, Moves(x, n),
           IsFiniteSet(Holders(x)'), NOffered(x)' = NOffered(x)
    PROVE  Conserved(x)'
<1>1. /\ NEvents(x) \in Nat /\ NTasks(x) \in Nat /\ NResults(x) \in Nat
      /\ NHandled(x) \in Nat /\ NHands(x) \in Nat
      /\ NRp(x) \in Nat /\ NDropped(x) \in Nat /\ NOffered(x) \in Nat
  BY PlacesFacts
<1>2. QED
  BY <1>1 DEF Moves, Conserved

LEMMA WorkerConserves ==
    ASSUME ProcInv, NEW x \in Work, Conserved(x), NEW w \in Workers, WorkerStep(w)
    PROVE  Conserved(x)'
<1>1. /\ TypeOK /\ HandsFull /\ hand \in [Workers -> Work \cup {NoWork}]
      /\ eventQueue \in Seq(Events) /\ consensusQueue \in Seq(Tasks) /\ results \in Seq(Work)
  BY DEF ProcInv, TypeOK
<1>2. NOffered(x)' = NOffered(x) /\ NHandled(x)' = NHandled(x) /\ NRp(x)' = NRp(x)
  BY DEF WorkerStep, EventReceive, TaskReceive, Take, Check, SendResult, rpVars, callerVars,
         NOffered, NHandled, NRp
<1>3. ASSUME UNCHANGED <<eventQueue, consensusQueue, results, hand, dropped>>
      PROVE  Conserved(x)'
  <2>1. Moves(x, 0)
    BY <1>2, <1>3 DEF Moves, NEvents, NTasks, NResults, NHands, Holders, NDropped
  <2>2. IsFiniteSet(Holders(x)')
    BY <1>3 DEF Conserved, Holders
  <2>3. QED
    BY <1>1, <1>2, <2>1, <2>2, MoveConserves
<1>4. CASE EventReceive(w) /\ eventQueue # <<>>
  <2> DEFINE n == IF Head(eventQueue) = x THEN 1 ELSE 0
  <2>1. /\ eventQueue' = Tail(eventQueue) /\ hand' = [hand EXCEPT ![w] = Head(eventQueue)]
        /\ UNCHANGED <<consensusQueue, results, dropped>> /\ hand[w] = NoWork
    BY <1>1, <1>4 DEF EventReceive, Take, HandsFull
  <2>2. NEvents(x)' = NEvents(x) - n
    BY <1>1, <1>4, <2>1, CopiesTail DEF NEvents
  <2>3. IsFiniteSet(Holders(x)') /\ NHands(x)' = NHands(x) + n
    BY <1>1, <2>1, HandFilled
  <2>4. NTasks(x)' = NTasks(x) /\ NResults(x)' = NResults(x) /\ NDropped(x)' = NDropped(x)
    BY <2>1 DEF NTasks, NResults, NDropped
  <2>5. n \in Int
    OBVIOUS
  <2> HIDE DEF n
  <2>6. Moves(x, n)
    BY <1>2, <2>2, <2>3, <2>4 DEF Moves
  <2>7. QED
    BY <1>1, <1>2, <2>3, <2>5, <2>6, MoveConserves
<1>5. CASE TaskReceive(w) /\ consensusQueue # <<>>
  <2> DEFINE n == IF Head(consensusQueue) = x THEN 1 ELSE 0
  <2>1. /\ consensusQueue' = Tail(consensusQueue)
        /\ hand' = [hand EXCEPT ![w] = Head(consensusQueue)]
        /\ UNCHANGED <<eventQueue, results, dropped>> /\ hand[w] = NoWork
    BY <1>1, <1>5 DEF TaskReceive, Take, HandsFull
  <2>2. NTasks(x)' = NTasks(x) - n
    BY <1>1, <1>5, <2>1, CopiesTail DEF NTasks
  <2>3. IsFiniteSet(Holders(x)') /\ NHands(x)' = NHands(x) + n
    BY <1>1, <2>1, HandFilled
  <2>4. NEvents(x)' = NEvents(x) /\ NResults(x)' = NResults(x) /\ NDropped(x)' = NDropped(x)
    BY <2>1 DEF NEvents, NResults, NDropped
  <2>5. n \in Int
    OBVIOUS
  <2> HIDE DEF n
  <2>6. Moves(x, n)
    BY <1>2, <2>2, <2>3, <2>4 DEF Moves
  <2>7. QED
    BY <1>1, <1>2, <2>3, <2>5, <2>6, MoveConserves
<1>6. CASE Check(w) /\ ~running
  <2> DEFINE n == IF hand[w] = x THEN 1 ELSE 0
  <2>1. /\ hand' = [hand EXCEPT ![w] = NoWork] /\ dropped' = dropped \cup {hand[w]}
        /\ UNCHANGED <<eventQueue, consensusQueue, results>>
    BY <1>6 DEF Check, callerVars
  <2>2. IsFiniteSet(Holders(x)') /\ NHands(x)' = NHands(x) - n
    BY <1>1, <2>1, HandEmptied
  <2>3. hand[w] = x => NDropped(x) = 0
    <3>1. ASSUME hand[w] = x PROVE NHands(x) # 0
      <4>1. w \in Holders(x)
        BY <3>1 DEF Holders
      <4>2. QED
        BY <4>1, FS_EmptySet DEF Conserved, NHands
    <3>2. QED
      BY <1>1, <3>1, HeldNotDropped
  <2>4. NDropped(x)' = NDropped(x) + n
    BY <2>1, <2>3 DEF NDropped
  <2>5. NEvents(x)' = NEvents(x) /\ NTasks(x)' = NTasks(x) /\ NResults(x)' = NResults(x)
    BY <2>1 DEF NEvents, NTasks, NResults
  <2>6. n \in Int
    OBVIOUS
  <2> HIDE DEF n
  <2>7. Moves(x, n)
    BY <1>2, <2>2, <2>4, <2>5 DEF Moves
  <2>8. QED
    BY <1>1, <1>2, <2>2, <2>6, <2>7, MoveConserves
<1>7. CASE SendResult(w) /\ results' = Append(results, hand[w])
                         /\ hand' = [hand EXCEPT ![w] = NoWork]
  <2> DEFINE n == IF hand[w] = x THEN 1 ELSE 0
  <2>1. /\ UNCHANGED <<eventQueue, consensusQueue, dropped>> /\ hand[w] \in Work
    BY <1>1, <1>7 DEF SendResult, callerVars, HandsFull
  <2>2. IsFiniteSet(Holders(x)') /\ NHands(x)' = NHands(x) - n
    BY <1>1, <1>7, HandEmptied
  <2>3. NResults(x)' = NResults(x) + n
    BY <1>1, <1>7, <2>1, CopiesAppend DEF NResults
  <2>4. NEvents(x)' = NEvents(x) /\ NTasks(x)' = NTasks(x) /\ NDropped(x)' = NDropped(x)
    BY <2>1 DEF NEvents, NTasks, NDropped
  <2>5. n \in Int
    OBVIOUS
  <2> HIDE DEF n
  <2>6. Moves(x, n)
    BY <1>2, <2>2, <2>3, <2>4 DEF Moves
  <2>7. QED
    BY <1>1, <1>2, <2>2, <2>5, <2>6, MoveConserves
<1>8. QED
  BY <1>3, <1>4, <1>5, <1>6, <1>7
     DEF WorkerStep, EventReceive, TaskReceive, Take, Check, SendResult, callerVars, workerVars

LEMMA ResultConserves ==
    ASSUME ProcInv, NEW x \in Work, Conserved(x), ResultStep
    PROVE  Conserved(x)'
<1>1. /\ TypeOK /\ HandsFull /\ results \in Seq(Work) /\ handled \in Seq(Work)
  BY DEF ProcInv, TypeOK
<1>2. /\ NOffered(x)' = NOffered(x) /\ NEvents(x)' = NEvents(x) /\ NTasks(x)' = NTasks(x)
      /\ NHands(x)' = NHands(x) /\ IsFiniteSet(Holders(x)')
  <2>1. UNCHANGED <<offered, eventQueue, consensusQueue, hand>>
    BY DEF ResultStep, ResultReceive, HandleResult, workerVars, callerVars
  <2>2. QED
    BY <2>1 DEF NOffered, NEvents, NTasks, NHands, Holders, Conserved
<1>3. CASE ResultReceive /\ results # <<>>
  <2> DEFINE n == IF Head(results) = x THEN 1 ELSE 0
  <2>1. /\ results' = Tail(results) /\ rpHand' = Head(results)
        /\ UNCHANGED <<handled, dropped>> /\ rpHand = NoWork
    BY <1>1, <1>3 DEF ResultReceive, HandsFull
  <2>2. NResults(x)' = NResults(x) - n
    BY <1>1, <1>3, <2>1, CopiesTail DEF NResults
  <2>3. NRp(x)' = NRp(x) + n
    BY <2>1, WorkFacts DEF NRp
  <2>4. NHandled(x)' = NHandled(x) /\ NDropped(x)' = NDropped(x)
    BY <2>1 DEF NHandled, NDropped
  <2>5. n \in Int
    OBVIOUS
  <2> HIDE DEF n
  <2>6. Moves(x, n)
    BY <1>2, <2>2, <2>3, <2>4 DEF Moves
  <2>7. QED
    BY <1>1, <1>2, <2>5, <2>6, MoveConserves
<1>4. CASE ResultReceive /\ UNCHANGED <<results, rpHand>>
  <2>1. Moves(x, 0)
    BY <1>2, <1>4 DEF ResultReceive, Moves, NResults, NRp, NHandled, NDropped
  <2>2. QED
    BY <1>1, <1>2, <2>1, MoveConserves
<1>5. CASE HandleResult
  <2> DEFINE n == NRp(x)
  <2>1. /\ UNCHANGED results /\ rpHand' = NoWork /\ rpHand \in Work
        /\ \/ handled' = Append(handled, rpHand) /\ dropped' = dropped
           \/ handled' = handled /\ dropped' = dropped \cup {rpHand}
    BY <1>1, <1>5 DEF HandleResult, HandsFull, TypeOK
  <2>2. n = (IF rpHand = x THEN 1 ELSE 0) /\ n \in Int
    BY DEF NRp
  <2>3. NRp(x)' = NRp(x) - n /\ NResults(x)' = NResults(x)
    BY <2>1, <2>2, WorkFacts DEF NRp, NResults
  <2>4. rpHand = x => NDropped(x) = 0
    BY <1>1, <2>2, HeldNotDropped
  <2>5. \/ NHandled(x)' = NHandled(x) + n /\ NDropped(x)' = NDropped(x)
        \/ NHandled(x)' = NHandled(x) /\ NDropped(x)' = NDropped(x) + n
    <3>1. CASE handled' = Append(handled, rpHand) /\ dropped' = dropped
      <4>1. NHandled(x)' = NHandled(x) + n
        BY <1>1, <2>1, <2>2, <3>1, CopiesAppend DEF NHandled
      <4>2. QED
        BY <3>1, <4>1 DEF NDropped
    <3>2. CASE handled' = handled /\ dropped' = dropped \cup {rpHand}
      <4>1. NDropped(x)' = NDropped(x) + n
        BY <2>2, <2>4, <3>2 DEF NDropped
      <4>2. QED
        BY <3>2, <4>1 DEF NHandled
    <3>3. QED
      BY <2>1, <3>1, <3>2
  <2> HIDE DEF n
  <2>6. Moves(x, n)
    BY <1>2, <2>3, <2>5 DEF Moves
  <2>7. QED
    BY <1>1, <1>2, <2>2, <2>6, MoveConserves
<1>6. QED
  BY <1>3, <1>4, <1>5 DEF ResultStep, ResultReceive

LEMMA ConservedStep ==
    ASSUME ProcInv, NEW x \in Work, Conserved(x), [Next]_vars
    PROVE  Conserved(x)'
<1>1. CASE Start \/ Stop \/ UNCHANGED vars
  <2>1. UNCHANGED <<eventQueue, consensusQueue, results, handled, hand, rpHand, dropped, offered>>
    BY <1>1 DEF Start, Stop, StopStep, vars, callerVars, workerVars, rpVars
  <2>2. QED
    BY <2>1 DEF Conserved, NEvents, NTasks, NResults, NHandled, NHands, Holders, NRp, NDropped,
                NOffered
<1>2. QED
  BY <1>1, AddConserves, WorkerConserves, ResultConserves DEF Next

(* Work is neither lost nor done twice, with any number of workers and in  *)
(* every order of sends, receives, drops and the steps of Stop             *)
(* (consensus.go:950-1005).                                                *)
THEOREM ProcessorConserves == Spec => []WorkConserved
<1> DEFINE Inv == ProcInv /\ \A x \in Work : Conserved(x)
<1>1. Init => Inv
  BY ProcInvInit, ConservedInit
<1>2. Inv /\ [Next]_vars => Inv'
  <2> SUFFICES ASSUME Inv, [Next]_vars PROVE Inv'
    OBVIOUS
  <2>1. ProcInv'
    BY ProcInvStep
  <2>2. \A x \in Work : Conserved(x)'
    BY ConservedStep
  <2>3. QED
    BY <2>1, <2>2 DEF Work
<1>3. Inv => WorkConserved
  BY DEF Conserved, WorkConserved, NEvents, NTasks, NResults, NHandled, NHands, Holders, NRp,
         NDropped, NOffered, One
<1>4. QED
  BY <1>1, <1>2, <1>3, PTL DEF Spec

=============================================================================
