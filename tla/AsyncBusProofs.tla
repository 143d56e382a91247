--------------------------- MODULE AsyncBusProofs ---------------------------
(***************************************************************************)
(* The accounting identity, the absence of lost wake-ups and the contract  *)
(* of Close, for any number of workers, events, Close callers and slots.   *)
(***************************************************************************)
EXTENDS AsyncBus, FiniteSetTheorems, TLAPS

USE CapacityAssumption, WorkersAssumption, NoEventAssumption
    DEF CapacityAssumption, WorkersAssumption, NoEventAssumption

BusyPoints == {"taken", "handling", "failed", "expired", "delivered"}

\* The workers that hold a delivery form a finite set.
LEMMA BusyFinite == IsFiniteSet(Busy) /\ Cardinality(Busy) \in Nat
  <1>1. Busy \in SUBSET Workers
    BY DEF Busy
  <1>2. QED
    BY <1>1, FS_Subset, FS_CardinalityType

\* A step that moves no worker across the edge of Busy keeps its size.
LEMMA BusySame ==
  ASSUME \A w \in Workers : worker'[w] \in BusyPoints <=> worker[w] \in BusyPoints
  PROVE  Busy' = Busy
  BY DEF Busy, BusyPoints

\* A worker that takes a delivery adds one to Busy.
LEMMA BusyGrows ==
  ASSUME NEW w \in Workers, worker \in [Workers -> WorkerPoints],
         worker[w] \notin BusyPoints,
         NEW p \in BusyPoints, worker' = [worker EXCEPT ![w] = p]
  PROVE  Cardinality(Busy') = Cardinality(Busy) + 1
  <1>1. Busy' = Busy \cup {w} /\ w \notin Busy
    BY DEF Busy, BusyPoints
  <1>2. QED
    BY ZenonT(30), <1>1, BusyFinite, FS_AddElement

\* A worker that records an outcome removes one.
LEMMA BusyShrinks ==
  ASSUME NEW w \in Workers, worker \in [Workers -> WorkerPoints],
         worker[w] \in BusyPoints,
         NEW p \in WorkerPoints \ BusyPoints,
         worker' = [worker EXCEPT ![w] = p]
  PROVE  /\ Cardinality(Busy') = Cardinality(Busy) - 1
         /\ Cardinality(Busy) > 0
  <1>1. Busy' = Busy \ {w} /\ w \in Busy
    BY DEF Busy, BusyPoints
  <1>2. Cardinality(Busy') = Cardinality(Busy) - 1
    BY ZenonT(30), <1>1, BusyFinite, FS_RemoveElement
  <1>3. Busy # {}
    BY <1>1
  <1>4. QED
    BY <1>2, <1>3, BusyFinite, FS_EmptySet

LEMMA BusInit == Init => BusInvariant
  <1> SUFFICES ASSUME Init PROVE BusInvariant
    OBVIOUS
  <1>1. TypeOK
    <2>1. 0 \in Slots
      BY DEF Slots
    <2>2. size \in 0 .. Capacity /\ log \in Seq(Events)
      BY DEF Init
    <2>3. worker \in [Workers -> WorkerPoints] /\ stats \in [Counters -> Nat]
      BY DEF Init, WorkerPoints
    <2>4. QED
      BY ZenonT(30), <2>1, <2>2, <2>3 DEF Init, TypeOK
  <1>2. InFlightExact
    <2>1. Busy = {}
      BY DEF Init, Busy
    <2>2. QED
      BY <2>1, FS_EmptySet DEF Init, InFlightExact, Counters
  <1>3. Accounting /\ NoLostWakeup
    BY DEF Init, Accounting, NoLostWakeup, Settled, Counters
  <1>4. ShutdownOrder
    BY DEF Init, ShutdownOrder, Counters
  <1>5. QED
    BY <1>1, <1>2, <1>3, <1>4 DEF BusInvariant

\* Every step of the bus preserves the invariant.
LEMMA BusStep == BusInvariant /\ [Next]_vars => BusInvariant'
  <1> SUFFICES ASSUME BusInvariant, [Next]_vars
               PROVE  BusInvariant'
    OBVIOUS
  <1>0. TypeOK /\ Accounting /\ NoLostWakeup /\ InFlightExact /\ ShutdownOrder
    BY DEF BusInvariant
  <1>1. ASSUME NEW e \in Events, PublishAccepted(e)
        PROVE  BusInvariant'
    <2>0. /\ worker' \in [Workers -> WorkerPoints]
          /\ \A w \in Workers :
               worker'[w] = worker[w] \/ (worker[w] = "waiting" /\ worker'[w] = "loop")
          /\ \E w \in Workers : worker'[w] \notin {"waiting", "exited"}
      <3> DEFINE sleeping == {w \in Workers : worker[w] = "waiting"}
      <3>1. CASE sleeping = {}
        <4>1. worker' = worker
          BY <1>1, <3>1 DEF PublishAccepted, Signal
        <4>2. PICK w \in Workers : TRUE
          OBVIOUS
        <4>3. worker[w] \notin {"waiting", "exited"}
          BY <1>0, <1>1, <3>1 DEF ShutdownOrder, PublishAccepted
        <4>4. QED
          BY <1>0, <4>1, <4>3 DEF TypeOK
      <3>2. CASE sleeping # {}
        <4>1. PICK w \in sleeping : worker' = [worker EXCEPT ![w] = "loop"]
          BY <1>1, <3>2 DEF PublishAccepted, Signal
        <4>2. QED
          BY <1>0, <4>1 DEF TypeOK, WorkerPoints
      <3>3. QED
        BY <3>1, <3>2
    <2>1. TypeOK'
      <3>1. Slot(size) \in Slots
        BY <1>0 DEF Slot, Slots, TypeOK
      <3>2. log' \in Seq(Events)
        BY <1>0, <1>1 DEF PublishAccepted, TypeOK
      <3>3. size' \in 0 .. Capacity /\ stats' \in [Counters -> Nat]
        BY <1>0, <1>1 DEF PublishAccepted, Full, TypeOK, Counters
      <3>4. QED
        BY <1>0, <1>1, <2>0, <3>1, <3>2, <3>3 DEF PublishAccepted, TypeOK
    <2>2. InFlightExact'
      <3>1. Busy' = Busy
        BY <2>0, BusySame DEF BusyPoints
      <3>2. QED
        BY <1>0, <1>1, <3>1 DEF InFlightExact, PublishAccepted, TypeOK, Counters
    <2>3. Accounting'
      <3>1. /\ stats'["Accepted"] = stats["Accepted"] + 1
            /\ \A k \in Counters \ {"Accepted"} : stats'[k] = stats[k]
            /\ size' = size + 1
        BY <1>0, <1>1 DEF TypeOK, PublishAccepted, Counters
      <3>2. size \in Nat /\ \A k \in Counters : stats[k] \in Nat
        BY <1>0 DEF TypeOK
      <3>3. QED
        BY <1>0, <3>1, <3>2 DEF Accounting, Settled, Counters
    <2>4. NoLostWakeup'
      BY <2>0 DEF NoLostWakeup
    <2>5. ShutdownOrder'
      BY <1>0, <1>1, <2>0 DEF TypeOK, ShutdownOrder, PublishAccepted, Counters
    <2>6. QED
      BY <2>1, <2>2, <2>3, <2>4, <2>5 DEF BusInvariant
  <1>2. ASSUME NEW e \in Events, PublishFull(e) \/ PublishClosed(e)
        PROVE  BusInvariant'
    <2>1. TypeOK'
      BY <1>0, <1>2 DEF TypeOK, PublishFull, PublishClosed, Counters
    <2>2. InFlightExact'
      BY <1>0, <1>2, BusySame
      DEF TypeOK, InFlightExact, PublishFull, PublishClosed, Counters, WorkerPoints, BusyPoints
    <2>3. Accounting'
      BY ZenonT(30), <1>0, <1>2, <2>1
      DEF TypeOK, Accounting, Settled, PublishFull, PublishClosed, Slots, Counters
    <2>4. NoLostWakeup'
      BY <1>0, <1>2
      DEF TypeOK, NoLostWakeup, PublishFull, PublishClosed, Slots, Counters, WorkerPoints
    <2>5. ShutdownOrder'
      BY <1>0, <1>2
      DEF TypeOK, ShutdownOrder, PublishFull, PublishClosed, Slots, Counters, WorkerPoints
    <2>6. QED
      BY <2>1, <2>2, <2>3, <2>4, <2>5 DEF BusInvariant
  <1>3. ASSUME NEW w \in Workers, WorkerWait(w) \/ WorkerExit(w)
        PROVE  BusInvariant'
    <2>1. TypeOK'
      BY <1>0, <1>3 DEF TypeOK, WorkerWait, WorkerExit, WorkerPoints
    <2>2. InFlightExact'
      BY <1>0, <1>3, BusySame
      DEF TypeOK, InFlightExact, WorkerWait, WorkerExit, Counters, WorkerPoints, BusyPoints
    <2>3. Accounting'
      BY <1>0, <1>3, <2>1
      DEF TypeOK, Accounting, Settled, WorkerWait, WorkerExit, Slots, Counters
    <2>4. NoLostWakeup'
      BY <1>0, <1>3
      DEF TypeOK, NoLostWakeup, WorkerWait, WorkerExit, Slots, Counters, WorkerPoints
    <2>5. ShutdownOrder'
      BY <1>0, <1>3
      DEF TypeOK, ShutdownOrder, WorkerWait, WorkerExit, Slots, Counters, WorkerPoints
    <2>6. QED
      BY <2>1, <2>2, <2>3, <2>4, <2>5 DEF BusInvariant
  <1>4. ASSUME NEW w \in Workers, WorkerTake(w)
        PROVE  BusInvariant'
    <2>1. TypeOK'
      BY <1>0, <1>4 DEF TypeOK, InFlightExact, WorkerTake, Slots, Counters, WorkerPoints
    <2>2. InFlightExact'
      BY ZenonT(30), <1>0, <1>4, BusyGrows, BusyFinite
      DEF TypeOK, InFlightExact, WorkerTake, Counters, BusyPoints
    <2>3. Accounting'
      <3>1. stats' = [stats EXCEPT !["InFlight"] = @ + 1] /\ size' = size - 1
        BY <1>4 DEF WorkerTake
      <3>2. size \in Nat /\ stats \in [Counters -> Nat]
        BY <1>0 DEF TypeOK
      <3>3. QED
        BY <1>0, <3>1, <3>2 DEF Accounting, Settled, Counters
    <2>4. NoLostWakeup'
      BY <1>0, <1>4 DEF TypeOK, NoLostWakeup, WorkerTake, Slots, Counters, WorkerPoints
    <2>5. ShutdownOrder'
      BY <1>0, <1>4 DEF TypeOK, ShutdownOrder, WorkerTake, Slots, Counters, WorkerPoints
    <2>6. QED
      BY <2>1, <2>2, <2>3, <2>4, <2>5 DEF BusInvariant
  <1>5. ASSUME NEW w \in Workers, WorkerStart(w)
        PROVE  BusInvariant'
    <2>1. TypeOK'
      BY <1>0, <1>5
      DEF TypeOK, InFlightExact, WorkerStart, Failure, Slots, Counters, WorkerPoints
    <2>2. InFlightExact'
      BY <1>0, <1>5, BusySame
      DEF TypeOK, InFlightExact, WorkerStart, Failure, Counters, WorkerPoints, BusyPoints
    <2>3. Accounting'
      BY <1>0, <1>5, <2>1
      DEF TypeOK, Accounting, Settled, WorkerStart, Failure, Slots, Counters
    <2>4. NoLostWakeup'
      BY <1>0, <1>5
      DEF TypeOK, NoLostWakeup, WorkerStart, Failure, Slots, Counters, WorkerPoints
    <2>5. ShutdownOrder'
      BY <1>0, <1>5
      DEF TypeOK, ShutdownOrder, WorkerStart, Failure, Slots, Counters, WorkerPoints
    <2>6. QED
      BY <2>1, <2>2, <2>3, <2>4, <2>5 DEF BusInvariant
  <1>6. ASSUME NEW w \in Workers, DeadlineFires(w) \/ AbortFires(w)
        PROVE  BusInvariant'
    <2>1. TypeOK'
      BY ZenonT(30), <1>0, <1>6
      DEF TypeOK, InFlightExact, DeadlineFires, AbortFires, Slots, Counters, WorkerPoints
    <2>2. InFlightExact'
      BY <1>0, <1>6, BusySame
      DEF TypeOK, InFlightExact, DeadlineFires, AbortFires, Counters, WorkerPoints, BusyPoints
    <2>3. Accounting'
      BY <1>0, <1>6, <2>1
      DEF TypeOK, Accounting, Settled, DeadlineFires, AbortFires, Slots, Counters
    <2>4. NoLostWakeup'
      BY <1>0, <1>6
      DEF TypeOK, NoLostWakeup, DeadlineFires, AbortFires, Slots, Counters, WorkerPoints
    <2>5. ShutdownOrder'
      BY <1>0, <1>6 DEF TypeOK, ShutdownOrder, DeadlineFires, AbortFires
    <2>6. QED
      BY <2>1, <2>2, <2>3, <2>4, <2>5 DEF BusInvariant
  <1>7. ASSUME NEW w \in Workers, NEW r \in HandlerResults, WorkerDelivered(w, r)
        PROVE  BusInvariant'
    <2>1. TypeOK'
      BY <1>0, <1>7
      DEF TypeOK, InFlightExact, WorkerDelivered, Slots, Counters, WorkerPoints
    <2>2. InFlightExact'
      BY <1>0, <1>7, BusySame
      DEF TypeOK, InFlightExact, WorkerDelivered, Counters, WorkerPoints, BusyPoints
    <2>3. Accounting'
      BY <1>0, <1>7, <2>1 DEF TypeOK, Accounting, Settled, WorkerDelivered, Slots, Counters
    <2>4. NoLostWakeup'
      BY <1>0, <1>7 DEF TypeOK, NoLostWakeup, WorkerDelivered, Slots, Counters, WorkerPoints
    <2>5. ShutdownOrder'
      BY <1>0, <1>7
      DEF TypeOK, ShutdownOrder, WorkerDelivered, Slots, Counters, WorkerPoints
    <2>6. QED
      BY <2>1, <2>2, <2>3, <2>4, <2>5 DEF BusInvariant
  <1>8. ASSUME NEW w \in Workers, WorkerFinish(w)
        PROVE  BusInvariant'
    <2>0. stats["InFlight"] > 0
      BY ZenonT(30), <1>0, <1>8, <1>0, BusyShrinks
      DEF TypeOK, InFlightExact, WorkerFinish, BusyPoints, WorkerPoints
    <2>1. TypeOK'
      BY <1>0, <1>8, <2>0, SMTT(30)
      DEF TypeOK, WorkerFinish, CountOutcome, Counters, WorkerPoints
    <2>2. InFlightExact'
      BY ZenonT(30), <1>0, <1>8, BusyShrinks, BusyFinite
      DEF TypeOK, InFlightExact, WorkerFinish, CountOutcome, Counters, BusyPoints, WorkerPoints
    <2>3. Accounting'
      <3> DEFINE won == IF worker[w] = "delivered" THEN 1 ELSE 0
                 late == IF worker[w] = "expired" THEN 1 ELSE 0
      <3>1. /\ stats'["InFlight"] = stats["InFlight"] - 1
            /\ stats'["Failed"] = stats["Failed"] + (1 - won)
            /\ stats'["TimedOut"] = stats["TimedOut"] + late
            /\ stats'["Delivered"] = stats["Delivered"] + won
            /\ stats'["Accepted"] = stats["Accepted"]
            /\ stats'["Abandoned"] = stats["Abandoned"]
        BY <1>0, <1>8 DEF TypeOK, WorkerFinish, CountOutcome, Counters
      <3>2. size' = size /\ late <= 1 - won
        BY <1>8 DEF WorkerFinish
      <3>3. /\ size \in Nat /\ won \in {0, 1} /\ late \in {0, 1}
            /\ \A k \in Counters : stats[k] \in Nat
        BY <1>0 DEF TypeOK
      <3> HIDE DEF won, late
      <3>4. QED
        BY <1>0, <3>1, <3>2, <3>3 DEF Accounting, Settled, Counters
    <2>4. NoLostWakeup'
      BY <1>0, <1>8
      DEF TypeOK, NoLostWakeup, WorkerFinish, CountOutcome, Slots, Counters, WorkerPoints
    <2>5. ShutdownOrder'
      BY ZenonT(30), <1>0, <1>8
      DEF TypeOK, ShutdownOrder, WorkerFinish, CountOutcome, Slots, Counters, WorkerPoints
    <2>6. QED
      BY <2>1, <2>2, <2>3, <2>4, <2>5 DEF BusInvariant
  <1>9. ASSUME PoolStopped
        PROVE  BusInvariant'
    <2>1. TypeOK'
      BY <1>0, <1>9
      DEF TypeOK, InFlightExact, PoolStopped, WaitForPool, Slots, Counters, WorkerPoints
    <2>2. InFlightExact'
      BY <1>0, <1>9, BusySame
      DEF TypeOK, InFlightExact, PoolStopped, WaitForPool, Counters, WorkerPoints, BusyPoints
    <2>3. Accounting'
      BY <1>0, <1>9, <2>1
      DEF TypeOK, Accounting, Settled, PoolStopped, WaitForPool, Slots, Counters
    <2>4. NoLostWakeup'
      BY <1>0, <1>9
      DEF TypeOK, NoLostWakeup, PoolStopped, WaitForPool, Slots, Counters, WorkerPoints
    <2>5. ShutdownOrder'
      BY <1>0, <1>9
      DEF TypeOK, ShutdownOrder, PoolStopped, WaitForPool, Slots, Counters, WorkerPoints
    <2>6. QED
      BY <2>1, <2>2, <2>3, <2>4, <2>5 DEF BusInvariant
  <1>10. ASSUME NEW c \in Closers, CloseBegin(c)
        PROVE  BusInvariant'
    <2>1. TypeOK'
      BY <1>0, <1>10
      DEF TypeOK, InFlightExact, CloseBegin, Broadcast, Slots, Counters, WorkerPoints
    <2>2. InFlightExact'
      BY <1>0, <1>10, BusySame
      DEF TypeOK, InFlightExact, CloseBegin, Broadcast, Counters, WorkerPoints, BusyPoints
    <2>3. Accounting'
      BY <1>0, <1>10, <2>1
      DEF TypeOK, Accounting, Settled, CloseBegin, Broadcast, Slots, Counters
    <2>4. NoLostWakeup'
      BY <1>0, <1>10
      DEF TypeOK, NoLostWakeup, CloseBegin, Broadcast, Slots, Counters, WorkerPoints
    <2>5. ShutdownOrder'
      BY <1>0, <1>10
      DEF TypeOK, ShutdownOrder, CloseBegin, Broadcast, Slots, Counters, WorkerPoints
    <2>6. QED
      BY <2>1, <2>2, <2>3, <2>4, <2>5 DEF BusInvariant
  <1>11. ASSUME NEW c \in Closers, CloseDrained(c)
        PROVE  BusInvariant'
    <2>1. TypeOK'
      BY <1>0, <1>11 DEF TypeOK, InFlightExact, CloseDrained, Slots, Counters, WorkerPoints
    <2>2. InFlightExact'
      BY <1>0, <1>11, BusySame
      DEF TypeOK, InFlightExact, CloseDrained, Counters, WorkerPoints, BusyPoints
    <2>3. Accounting'
      BY <1>0, <1>11, <2>1 DEF TypeOK, Accounting, Settled, CloseDrained, Slots, Counters
    <2>4. NoLostWakeup'
      BY <1>0, <1>11 DEF TypeOK, NoLostWakeup, CloseDrained, Slots, Counters, WorkerPoints
    <2>5. ShutdownOrder'
      BY <1>0, <1>11 DEF TypeOK, ShutdownOrder, CloseDrained, Slots, Counters, WorkerPoints
    <2>6. QED
      BY <2>1, <2>2, <2>3, <2>4, <2>5 DEF BusInvariant
  <1>12. ASSUME NEW c \in Closers, CloseExpired(c)
        PROVE  BusInvariant'
    <2>1. TypeOK'
      BY <1>0, <1>12, SMTT(30)
      DEF TypeOK, CloseExpired, Broadcast, Slots, Counters, WorkerPoints
    <2>2. InFlightExact'
      BY <1>0, <1>12, BusySame
      DEF TypeOK, InFlightExact, CloseExpired, Broadcast, Counters, WorkerPoints, BusyPoints
    <2>3. Accounting'
      BY <1>0, <1>12, SMTT(30) DEF TypeOK, Accounting, Settled, CloseExpired, Counters
    <2>4. NoLostWakeup'
      BY <1>0, <1>12
      DEF TypeOK, NoLostWakeup, CloseExpired, Broadcast, Slots, Counters, WorkerPoints
    <2>5. ShutdownOrder'
      BY <1>0, <1>12, SMTT(30) DEF TypeOK, ShutdownOrder, CloseExpired, Broadcast, Counters
    <2>6. QED
      BY <2>1, <2>2, <2>3, <2>4, <2>5 DEF BusInvariant
  <1>13. CASE UNCHANGED vars
    BY <1>0, <1>13
    DEF BusInvariant, TypeOK, Accounting, Settled, NoLostWakeup, InFlightExact,
        ShutdownOrder, Busy, vars
  <1>14. QED
    BY <1>1, <1>2, <1>3, <1>4, <1>5, <1>6, <1>7, <1>8, <1>9, <1>10, <1>11,
       <1>12, <1>13
    DEF Next, Publish, Work, Close, Quiescent

\* The invariant holds of every reachable state of the bus.
THEOREM BusInvariantHolds == Spec => []BusInvariant
  BY BusInit, BusStep, PTL DEF Spec

\* The Stats identity documented on the bus holds at every moment.
THEOREM AccountingHolds == Spec => []Accounting
  <1>1. BusInvariant => Accounting
    BY DEF BusInvariant
  <1>2. QED
    BY <1>1, BusInvariantHolds, PTL

\* A queued event always has a worker awake to take it.
THEOREM NoLostWakeupHolds == Spec => []NoLostWakeup
  <1>1. BusInvariant => NoLostWakeup
    BY DEF BusInvariant
  <1>2. QED
    BY <1>1, BusInvariantHolds, PTL

\* Close returns nil only when every accepted event has its outcome, and only
\* an expired Close discards events.
THEOREM CloseContractHolds == Spec => []CloseContract
  <1>1. BusInvariant => CloseContract
    <2> SUFFICES ASSUME BusInvariant, \E c \in Closers : closer[c] = "drained"
                 PROVE  stats["Accepted"] = Settled
      BY DEF BusInvariant, ShutdownOrder, CloseContract
    <2>1. \A w \in Workers : worker[w] = "exited"
      BY DEF BusInvariant, ShutdownOrder
    <2>2. size = 0 /\ Busy = {}
      BY <2>1 DEF BusInvariant, ShutdownOrder, Busy
    <2>3. stats["InFlight"] = 0
      BY <2>2, FS_EmptySet DEF BusInvariant, InFlightExact
    <2>4. QED
      BY <2>2, <2>3 DEF BusInvariant, Accounting, TypeOK, Settled, Counters
  <1>2. QED
    BY <1>1, BusInvariantHolds, PTL


(***************************************************************************)
(* The ring.  FifoRing needs one fact more to be inductive: nothing is     *)
(* queued that was not accepted.                                           *)
(***************************************************************************)
LEMMA Wraps ==
  ASSUME NEW n \in 0 .. 2 * Capacity - 1
  PROVE  n % Capacity = IF n < Capacity THEN n ELSE n - Capacity
  <1>1. CASE n \in 0 .. Capacity - 1
    BY <1>1, CapacityAssumption
  <1>2. CASE n \in Capacity .. 2 * Capacity - 1
    BY <1>2, CapacityAssumption
  <1>3. QED
    BY <1>1, <1>2, CapacityAssumption

Queued == FifoRing /\ size <= Len(log)

LEMMA QueuedRests ==
  ASSUME Queued, UNCHANGED <<ring, head, size, log>> PROVE Queued'
  BY DEF Queued, FifoRing

\* The slot Publish writes holds none of the queued deliveries.
LEMMA QueuedAccepts ==
  ASSUME TypeOK, Queued, NEW e \in Events, PublishAccepted(e) PROVE Queued'
  <1>1. /\ head \in 0 .. Capacity - 1 /\ size \in 0 .. Capacity - 1 /\ Capacity \in Nat \ {0}
        /\ ring \in [Slots -> Events \cup {NoEvent}] /\ log \in Seq(Events)
    BY CapacityAssumption DEF TypeOK, PublishAccepted, Full, Slots
  <1>2. /\ ring' = [ring EXCEPT ![(head + size) % Capacity] = e] /\ head' = head
        /\ size' = size + 1 /\ log' = Append(log, e)
    BY DEF PublishAccepted, Slot
  <1>3. /\ Len(log) \in Nat /\ Len(log') = Len(log) + 1 /\ log'[Len(log) + 1] = e
        /\ \A j \in 1 .. Len(log) : log'[j] = log[j]
    BY <1>1, <1>2
  <1>4. ASSUME NEW i \in 0 .. size
        PROVE  ring'[(head + i) % Capacity] = log'[Len(log) - size + 1 + i]
    <2>1. (head + i) % Capacity \in Slots
      BY <1>1 DEF Slots
    <2>2. CASE i = size
      BY <1>1, <1>2, <1>3, <2>1, <2>2
    <2>3. CASE i \in 0 .. size - 1
      <3>1. (head + i) % Capacity # (head + size) % Capacity
        BY <1>1, <2>3, Wraps
      <3>2. ring'[(head + i) % Capacity] = ring[(head + i) % Capacity]
        BY <1>1, <1>2, <2>1, <3>1
      <3>3. ring[(head + i) % Capacity] = log[Len(log) - size + 1 + i]
        BY <2>3 DEF Queued, FifoRing
      <3>4. Len(log) - size + 1 + i \in 1 .. Len(log)
        BY <1>1, <1>3, <2>3 DEF Queued
      <3>5. QED
        BY <1>3, <3>2, <3>3, <3>4
    <2>4. QED
      BY <1>1, <2>2, <2>3
  <1>5. size' <= Len(log')
    BY <1>1, <1>2, <1>3 DEF Queued
  <1>6. FifoRing'
    <2>1. PICK n \in Nat : n = size + 1
      BY <1>1
    <2>2. \A i \in 0 .. n - 1 : ring'[(head + i) % Capacity] = log'[Len(log') - n + 1 + i]
      <3>1. SUFFICES ASSUME NEW i \in 0 .. n - 1
                     PROVE  ring'[(head + i) % Capacity] = log'[Len(log') - n + 1 + i]
        OBVIOUS
      <3>2. i \in 0 .. size /\ Len(log') - n + 1 + i = Len(log) - size + 1 + i
        BY <1>1, <1>3, <2>1
      <3>3. QED
        BY <1>4, <3>2
    <2>3. QED
      BY <1>2, <2>1, <2>2 DEF FifoRing
  <1>7. QED
    BY <1>5, <1>6 DEF Queued

\* The worker clears the oldest delivery and moves b.head to the next one.
LEMMA QueuedTaken ==
  ASSUME TypeOK, Queued, NEW w \in Workers, WorkerTake(w) PROVE Queued'
  <1>1. /\ head \in 0 .. Capacity - 1 /\ size \in 1 .. Capacity /\ Capacity \in Nat \ {0}
        /\ ring \in [Slots -> Events \cup {NoEvent}] /\ Len(log) \in Nat
    BY CapacityAssumption DEF TypeOK, WorkerTake, Slots
  <1>2. /\ ring' = [ring EXCEPT ![head] = NoEvent] /\ head' = (head + 1) % Capacity
        /\ size' = size - 1 /\ log' = log
    BY DEF WorkerTake
  <1>3. PICK h \in 0 .. Capacity - 1 :
          h = head' /\ h = IF head + 1 < Capacity THEN head + 1 ELSE head + 1 - Capacity
    <2>1. PICK n \in 0 .. 2 * Capacity - 1 : n = head + 1
      BY <1>1
    <2>2. n % Capacity = IF n < Capacity THEN n ELSE n - Capacity
      BY <2>1, Wraps
    <2>3. QED
      BY <1>1, <1>2, <2>1, <2>2
  <1>4. ASSUME NEW i \in 0 .. size - 2
        PROVE  ring'[(h + i) % Capacity] = log[Len(log) - (size - 1) + 1 + i]
    <2>1. PICK n \in 0 .. 2 * Capacity - 1 : n = h + i
      <3>1. h \in Int /\ 0 <= h /\ h < Capacity /\ i \in Int /\ 0 <= i /\ i < Capacity
        BY <1>1
      <3>2. h + i \in 0 .. 2 * Capacity - 1
        BY <1>1, <3>1
      <3>3. QED
        BY <3>2
    <2>2. PICK m \in 0 .. 2 * Capacity - 1 : m = head + (i + 1)
      BY <1>1
    <2>3. n % Capacity = m % Capacity /\ m % Capacity # head
      <3>1. n % Capacity = IF n < Capacity THEN n ELSE n - Capacity
        BY Wraps
      <3>2. m % Capacity = IF m < Capacity THEN m ELSE m - Capacity
        BY Wraps
      <3>3. QED
        BY <1>1, <1>3, <2>1, <2>2, <3>1, <3>2
    <2>4. m % Capacity \in Slots
      BY <1>1 DEF Slots
    <2>5. ring[m % Capacity] = log[Len(log) - size + 1 + (i + 1)]
      <3>1. i + 1 \in 0 .. size - 1
        BY <1>1
      <3>2. QED
        BY <2>2, <3>1 DEF Queued, FifoRing
    <2>6. Len(log) - size + 1 + (i + 1) = Len(log) - (size - 1) + 1 + i
      BY <1>1
    <2>7. QED
      BY <1>1, <1>2, <2>1, <2>3, <2>4, <2>5, <2>6
  <1>5. FifoRing'
    <2>1. PICK n \in Nat : n = size - 1
      BY <1>1
    <2>2. \A i \in 0 .. n - 1 : ring'[(h + i) % Capacity] = log'[Len(log') - n + 1 + i]
      <3>1. SUFFICES ASSUME NEW i \in 0 .. n - 1
                     PROVE  ring'[(h + i) % Capacity] = log'[Len(log') - n + 1 + i]
        OBVIOUS
      <3>2. i \in 0 .. size - 2 /\ Len(log') - n + 1 + i = Len(log) - (size - 1) + 1 + i
        BY <1>1, <1>2, <2>1
      <3>3. QED
        BY <1>2, <1>4, <3>2
    <2>3. QED
      BY <1>2, <1>3, <2>1, <2>2 DEF FifoRing
  <1>6. QED
    BY <1>1, <1>2, <1>5 DEF Queued

LEMMA QueuedStep ==
  ASSUME TypeOK, Queued, [Next]_vars PROVE Queued'
  <1>1. ASSUME NEW c \in Closers, CloseExpired(c) PROVE Queued'
    <2>1. size' = 0 /\ log' = log /\ Len(log) \in Nat
      BY <1>1 DEF CloseExpired, TypeOK
    <2>2. QED
      BY <2>1 DEF Queued, FifoRing
  <1>2. ASSUME NEW w \in Workers, Work(w), ~WorkerTake(w) PROVE Queued'
    BY <1>2, QueuedRests
    DEF Work, WorkerWait, WorkerExit, WorkerStart, DeadlineFires, AbortFires,
        WorkerFinish, WorkerDelivered
  <1>3. ASSUME NEW e \in Events, PublishFull(e) \/ PublishClosed(e) PROVE Queued'
    BY <1>3, QueuedRests DEF PublishFull, PublishClosed
  <1>4. ASSUME NEW c \in Closers, CloseBegin(c) \/ CloseDrained(c) PROVE Queued'
    BY <1>4, QueuedRests DEF CloseBegin, CloseDrained
  <1>5. CASE PoolStopped \/ UNCHANGED vars
    BY <1>5, QueuedRests DEF PoolStopped, vars
  <1>6. QED
    BY <1>1, <1>2, <1>3, <1>4, <1>5, QueuedAccepts, QueuedTaken
    DEF Next, Publish, Close, Quiescent

\* The queue is first in, first out for every capacity: the ring arithmetic of
\* Publish, worker and Close never overwrites or reorders an accepted event.
THEOREM AcceptanceOrder == Spec => []FifoRing
  <1>1. Init => Queued
    BY DEF Init, Queued, FifoRing
  <1>2. BusInvariant /\ Queued /\ [Next]_vars => Queued'
    BY QueuedStep DEF BusInvariant
  <1>3. Queued => FifoRing
    BY DEF Queued
  <1>4. QED
    BY <1>1, <1>2, <1>3, BusInvariantHolds, PTL DEF Spec

(***************************************************************************)
(* Each event is in one place, and only ever moves on.                     *)
(***************************************************************************)
USE ZenonT(20)

InRing(e) == \E i \in Slots : ring[i] = e

\* No event is queued twice, held by two workers, or queued while it is held;
\* a worker past its take holds an event, never the zero delivery.
HeldOnce ==
    /\ \A i, j \in Slots : ring[i] # NoEvent /\ ring[i] = ring[j] => i = j
    /\ \A v, w \in Workers : job[v] # NoEvent /\ job[v] = job[w] => v = w
    /\ \A i \in Slots, w \in Workers : ring[i] # NoEvent => ring[i] # job[w]
    /\ \A w \in Workers : worker[w] \in BusyPoints <=> job[w] # NoEvent

\* The inductive form: what is queued or held was offered before.
Held ==
    /\ HeldOnce
    /\ \A i \in Slots : ring[i] \in offered \cup {NoEvent}
    /\ \A w \in Workers : job[w] \in offered \cup {NoEvent}

BusyKept == \A w \in Workers : worker'[w] \in BusyPoints <=> worker[w] \in BusyPoints

LEMMA HeldRests ==
  ASSUME Held, UNCHANGED <<ring, job>>, offered \subseteq offered', BusyKept PROVE Held'
  BY DEF Held, HeldOnce, BusyKept

LEMMA WakesKeepBusy ==
  ASSUME TypeOK, Signal \/ Broadcast PROVE BusyKept
  <1>1. worker \in [Workers -> WorkerPoints]
    BY DEF TypeOK
  <1>2. CASE Signal
    BY <1>1, <1>2 DEF Signal, BusyKept, BusyPoints
  <1>3. CASE Broadcast
    BY <1>1, <1>3 DEF Broadcast, BusyKept, BusyPoints
  <1>4. QED
    BY <1>2, <1>3

LEMMA HeldAccepts ==
  ASSUME TypeOK, Held, NEW e \in Events, PublishAccepted(e) PROVE Held'
  <1>1. PICK k \in Slots : k = Slot(size)
    <2>1. head \in Nat /\ size \in Nat /\ Capacity \in Nat \ {0}
      BY SMT, CapacityAssumption DEF TypeOK, Slots
    <2>2. Slot(size) \in Slots
      BY SMT, <2>1 DEF Slot, Slots
    <2>3. QED
      BY <2>2
  <1>2. ring' = [ring EXCEPT ![k] = e] /\ job' = job /\ offered' = offered \cup {e} /\ e \notin offered
    BY <1>1 DEF PublishAccepted
  <1>3. \A i \in Slots : ring'[i] = IF i = k THEN e ELSE ring[i]
    BY <1>2 DEF TypeOK
  <1>4. e # NoEvent /\ BusyKept
    BY NoEventAssumption, WakesKeepBusy DEF PublishAccepted
  <1>5. \A i \in Slots : ring[i] # e
    BY <1>2, <1>4 DEF Held
  <1>6. \A w \in Workers : job[w] # e
    BY <1>2, <1>4 DEF Held
  <1>7. HeldOnce'
    <2>1. \A i, j \in Slots : ring'[i] # NoEvent /\ ring'[i] = ring'[j] => i = j
      BY <1>3, <1>5 DEF Held, HeldOnce
    <2>2. \A i \in Slots, w \in Workers : ring'[i] # NoEvent => ring'[i] # job'[w]
      BY SMT, <1>2, <1>3, <1>6 DEF Held, HeldOnce
    <2>3. QED
      BY <1>2, <1>4, <2>1, <2>2 DEF Held, HeldOnce, BusyKept
  <1>8. QED
    BY SMT, <1>2, <1>3, <1>7 DEF Held

LEMMA TakesEvent ==
  ASSUME TypeOK, Queued, NEW w \in Workers, WorkerTake(w)
  PROVE  head \in Slots /\ ring[head] \in Events
  <1>1. head \in 0 .. Capacity - 1 /\ size \in 1 .. Capacity /\ log \in Seq(Events)
    BY SMT DEF TypeOK, Slots, WorkerTake
  <1>2. ring[(head + 0) % Capacity] = log[Len(log) - size + 1 + 0]
    <2>1. 0 \in 0 .. size - 1
      BY SMT, <1>1
    <2>2. QED
      BY <2>1 DEF Queued, FifoRing
  <1>3. (head + 0) % Capacity = head
    BY SMT, <1>1, CapacityAssumption
  <1>4. Len(log) - size + 1 + 0 \in 1 .. Len(log)
    BY SMT, <1>1 DEF Queued
  <1>5. log[Len(log) - size + 1 + 0] \in Events
    BY SMT, <1>1, <1>4
  <1>6. QED
    BY <1>1, <1>2, <1>3, <1>5 DEF Slots

LEMMA HeldTaken ==
  ASSUME TypeOK, Queued, Held, NEW w \in Workers, WorkerTake(w) PROVE Held'
  <1>1. PICK e \in Events : e = ring[head] /\ head \in Slots /\ e # NoEvent
    BY TakesEvent, NoEventAssumption
  <1>2. /\ ring' = [ring EXCEPT ![head] = NoEvent] /\ job' = [job EXCEPT ![w] = e]
        /\ worker[w] = "loop" /\ worker' = [worker EXCEPT ![w] = "taken"] /\ offered' = offered
    BY <1>1 DEF WorkerTake
  <1>3. \A i \in Slots : ring'[i] = IF i = head THEN NoEvent ELSE ring[i]
    BY <1>2 DEF TypeOK
  <1>4. \A v \in Workers : /\ job'[v] = IF v = w THEN e ELSE job[v]
                           /\ worker'[v] = IF v = w THEN "taken" ELSE worker[v]
    BY <1>2 DEF TypeOK
  <1>5. \A v \in Workers : job[v] # e
    BY <1>1 DEF Held, HeldOnce
  <1>6. \A i \in Slots : ring'[i] # e
    BY <1>1, <1>3 DEF Held, HeldOnce
  <1>7. e \in offered
    BY <1>1 DEF Held
  <1>8. HeldOnce'
    <2>1. \A i, j \in Slots : ring'[i] # NoEvent /\ ring'[i] = ring'[j] => i = j
      BY <1>3 DEF Held, HeldOnce
    <2>2. \A u, v \in Workers : job'[u] # NoEvent /\ job'[u] = job'[v] => u = v
      BY <1>4, <1>5 DEF Held, HeldOnce
    <2>3. \A i \in Slots, v \in Workers : ring'[i] # NoEvent => ring'[i] # job'[v]
      BY SMT, <1>3, <1>4, <1>6 DEF Held, HeldOnce
    <2>4. \A v \in Workers : worker'[v] \in BusyPoints <=> job'[v] # NoEvent
      BY <1>1, <1>4 DEF Held, HeldOnce, BusyPoints
    <2>5. QED
      BY <2>1, <2>2, <2>3, <2>4 DEF HeldOnce
  <1>9. QED
    BY SMT, <1>2, <1>3, <1>4, <1>7, <1>8 DEF Held

LEMMA HeldFinished ==
  ASSUME TypeOK, Held, NEW w \in Workers, WorkerFinish(w) PROVE Held'
  <1>1. UNCHANGED <<ring, offered>>
    BY DEF WorkerFinish
  <1>2. \A v \in Workers : /\ job'[v] = IF v = w THEN NoEvent ELSE job[v]
                           /\ worker'[v] = IF v = w THEN "loop" ELSE worker[v]
    BY DEF WorkerFinish, TypeOK
  <1>3. QED
    BY SMT, <1>1, <1>2 DEF Held, HeldOnce, BusyPoints

LEMMA HeldDiscarded ==
  ASSUME TypeOK, Held, NEW c \in Closers, CloseExpired(c) PROVE Held'
  <1>1. BusyKept /\ UNCHANGED <<job, offered>> /\ \A i \in Slots : ring'[i] = NoEvent
    BY WakesKeepBusy DEF CloseExpired
  <1>2. QED
    BY <1>1 DEF Held, HeldOnce, BusyKept

LEMMA HeldStep ==
  ASSUME TypeOK, Queued, Held, [Next]_vars PROVE Held'
  <1>1. ASSUME NEW w \in Workers, WorkerWait(w) \/ WorkerExit(w) \/ WorkerStart(w) PROVE Held'
    <2>1. BusyKept
      BY <1>1 DEF WorkerWait, WorkerExit, WorkerStart, Failure, TypeOK, BusyKept, BusyPoints
    <2>2. QED
      BY <1>1, <2>1, HeldRests DEF WorkerWait, WorkerExit, WorkerStart
  <1>2. ASSUME NEW w \in Workers, NEW result, WorkerDelivered(w, result) PROVE Held'
    <2>1. BusyKept
      BY <1>2 DEF WorkerDelivered, TypeOK, BusyKept, BusyPoints
    <2>2. QED
      BY <1>2, <2>1, HeldRests DEF WorkerDelivered
  <1>3. ASSUME NEW w \in Workers, DeadlineFires(w) \/ AbortFires(w) PROVE Held'
    BY <1>3, HeldRests DEF DeadlineFires, AbortFires, BusyKept
  <1>4. ASSUME NEW e \in Events, PublishFull(e) \/ PublishClosed(e) PROVE Held'
    BY <1>4, HeldRests DEF PublishFull, PublishClosed, BusyKept
  <1>5. ASSUME NEW c \in Closers, CloseBegin(c) \/ CloseDrained(c) PROVE Held'
    <2>1. BusyKept
      BY <1>5, WakesKeepBusy DEF CloseBegin, CloseDrained, BusyKept
    <2>2. QED
      BY <1>5, <2>1, HeldRests DEF CloseBegin, CloseDrained
  <1>6. CASE PoolStopped \/ UNCHANGED vars
    BY <1>6, HeldRests DEF PoolStopped, vars, BusyKept
  <1>7. ASSUME NEW w \in Workers, Work(w) PROVE Held'
    BY <1>1, <1>2, <1>3, <1>7, HeldTaken, HeldFinished DEF Work
  <1>8. ASSUME NEW c \in Closers, Close(c) PROVE Held'
    BY <1>5, <1>8, HeldDiscarded DEF Close
  <1>9. ASSUME NEW e \in Events, Publish(e) PROVE Held'
    BY <1>4, <1>9, HeldAccepts DEF Publish
  <1>10. QED
    BY <1>6, <1>7, <1>8, <1>9 DEF Next, Quiescent

LEMMA HeldHolds == Spec => [](BusInvariant /\ Queued /\ Held)
  <1>1. Init => Queued
    BY SMT DEF Init, Queued, FifoRing
  <1>2. Init => Held
    BY DEF Init, Held, HeldOnce, BusyPoints
  <1>3. BusInvariant /\ Queued /\ [Next]_vars => Queued'
    BY QueuedStep DEF BusInvariant
  <1>4. BusInvariant /\ Queued /\ Held /\ [Next]_vars => Held'
    BY HeldStep DEF BusInvariant
  <1>5. QED
    BY <1>1, <1>2, <1>3, <1>4, BusInvariantHolds, PTL DEF Spec

\* Publish, the workers and Close never duplicate a delivery: an accepted event
\* is queued once or held by one worker, and no worker holds an empty slot.
THEOREM DeliveriesHeldOnce == Spec => []HeldOnce
  <1>1. Held => HeldOnce
    BY DEF Held
  <1>2. QED
    BY <1>1, HeldHolds, PTL

\* An offered event that left the ring stays out of it, one that is settled
\* stays settled, and the worker that holds one is the only one to hold it.
Onward(e) ==
    /\ ~InRing(e) => ~InRing(e)'
    /\ ~Pending(e) => ~Pending(e)'
    /\ \A w \in Workers : job[w] = e =>
         job'[w] \in {e, NoEvent} /\ \A v \in Workers \ {w} : job'[v] # e
OneWay == \A e \in offered : Onward(e)

LEMMA OneWayHolds ==
  ASSUME TypeOK, Queued, Held, [Next]_vars PROVE OneWay
  <1> SUFFICES ASSUME NEW e \in offered PROVE Onward(e)
    BY DEF OneWay
  <1>1. e \in Events /\ e # NoEvent
    BY NoEventAssumption DEF TypeOK
  <1>2. \A w \in Workers : job[w] = e => \A v \in Workers \ {w} : job[v] # e
    BY <1>1 DEF Held, HeldOnce
  <1>3. ASSUME \A i \in Slots : ring'[i] = e => ring[i] = e,
               \A w \in Workers : job'[w] \in {job[w], NoEvent}
        PROVE  Onward(e)
    <2>1. \A w \in Workers : job'[w] = e => job[w] = e
      BY <1>1, <1>3
    <2>2. (~InRing(e) => ~InRing(e)') /\ (~Pending(e) => ~Pending(e)')
      BY <1>3, <2>1 DEF InRing, Pending
    <2>3. QED
      BY <1>2, <1>3, <2>1, <2>2 DEF Onward
  <1>4. CASE UNCHANGED <<ring, job>>
    BY <1>3, <1>4
  <1>5. ASSUME NEW x \in Events, PublishAccepted(x) PROVE Onward(e)
    <2>1. x # e /\ job' = job /\ ring' = [ring EXCEPT ![Slot(size)] = x]
      BY <1>5 DEF PublishAccepted
    <2>2. \A i \in Slots : ring'[i] \in {ring[i], x}
      BY <2>1 DEF TypeOK
    <2>3. QED
      BY <1>3, <2>1, <2>2
  <1>6. ASSUME NEW w \in Workers, WorkerFinish(w) PROVE Onward(e)
    <2>1. ring' = ring /\ \A v \in Workers : job'[v] \in {job[v], NoEvent}
      BY <1>6 DEF WorkerFinish, TypeOK
    <2>2. QED
      BY <1>3, <2>1
  <1>7. ASSUME NEW c \in Closers, CloseExpired(c) PROVE Onward(e)
    BY <1>1, <1>3, <1>7 DEF CloseExpired
  <1>8. ASSUME NEW w \in Workers, WorkerTake(w) PROVE Onward(e)
    <2>1. head \in Slots /\ ring[head] \in Events
      BY <1>8, TakesEvent
    <2>2. /\ \A i \in Slots : ring'[i] \in {ring[i], NoEvent}
          /\ job'[w] = ring[head] /\ \A v \in Workers : v # w => job'[v] = job[v]
      BY <1>8, <2>1 DEF WorkerTake, TypeOK
    <2>3. job[w] = NoEvent
      BY <1>8 DEF WorkerTake, Held, HeldOnce, BusyPoints
    <2>4. \A v \in Workers : job[v] = e => ring[head] # e
      BY <1>1, <2>1 DEF Held, HeldOnce
    <2>5. QED
      BY <1>1, <1>2, <2>1, <2>2, <2>3, <2>4 DEF Onward, InRing, Pending
  <1>9. ASSUME NEW w \in Workers, Work(w), ~WorkerTake(w), ~WorkerFinish(w) PROVE Onward(e)
    BY <1>4, <1>9
    DEF Work, WorkerWait, WorkerExit, WorkerStart, DeadlineFires, AbortFires, WorkerDelivered
  <1>10. ASSUME NEW x \in Events, PublishFull(x) \/ PublishClosed(x) PROVE Onward(e)
    BY <1>4, <1>10 DEF PublishFull, PublishClosed
  <1>11. ASSUME NEW c \in Closers, CloseBegin(c) \/ CloseDrained(c) PROVE Onward(e)
    BY <1>4, <1>11 DEF CloseBegin, CloseDrained
  <1>12. CASE PoolStopped \/ UNCHANGED vars
    BY <1>4, <1>12 DEF PoolStopped, vars
  <1>13. QED
    BY <1>5, <1>6, <1>7, <1>8, <1>9, <1>10, <1>11, <1>12 DEF Next, Publish, Close, Quiescent

\* The bus delivers at most once: queued, held and settled follow each other
\* and no step of Publish, a worker or Close brings an event back.
THEOREM DeliveredAtMostOnce == Spec => [][OneWay]_vars
  <1>1. BusInvariant /\ Queued /\ Held /\ [Next]_vars => [OneWay]_vars
    BY OneWayHolds DEF BusInvariant
  <1>2. QED
    BY <1>1, HeldHolds, PTL DEF Spec

(***************************************************************************)
(* Close.                                                                  *)
(***************************************************************************)
\* Nobody sleeps on the condition variable of a closed bus.
NoneAsleep == closed => \A w \in Workers : worker[w] # "waiting"

\* A closed bus accepts nothing, its queue and the deliveries without outcome
\* only shrink, and a worker that returned is not needed again.
WindDown ==
    closed => /\ closed' /\ log' = log /\ size' <= size
              /\ size' + stats'["InFlight"] <= size + stats["InFlight"]
              /\ \A w \in Workers : worker[w] = "exited" => worker'[w] = "exited"

\* After b.done is closed nothing is delivered or counted any more.
Final == done => done' /\ UNCHANGED <<size, job, worker, stats, log>>

LEMMA AwakeStep ==
  ASSUME TypeOK, NoneAsleep, [Next]_vars PROVE NoneAsleep'
  <1>1. worker \in [Workers -> WorkerPoints]
    BY DEF TypeOK
  <1>2. ASSUME closed' = closed, \A w \in Workers : worker'[w] = "waiting" => worker[w] = "waiting"
        PROVE  NoneAsleep'
    BY <1>2 DEF NoneAsleep
  <1>3. ASSUME NEW w \in Workers, NEW pc, pc # "waiting", worker' = [worker EXCEPT ![w] = pc],
               closed' = closed
        PROVE  NoneAsleep'
    BY <1>1, <1>2, <1>3
  <1>4. ASSUME NEW w \in Workers, WorkerWait(w) PROVE NoneAsleep'
    BY <1>4 DEF WorkerWait, NoneAsleep
  <1>5. ASSUME NEW w \in Workers, Work(w), ~WorkerWait(w) PROVE NoneAsleep'
    BY <1>2, <1>3, <1>5
    DEF Work, WorkerExit, WorkerTake, WorkerStart, DeadlineFires, AbortFires, WorkerFinish,
        WorkerDelivered, Failure
  <1>6. ASSUME NEW e \in Events, Publish(e) PROVE NoneAsleep'
    <2>1. Signal => \A w \in Workers : worker'[w] = "waiting" => worker[w] = "waiting"
      BY <1>1 DEF Signal
    <2>2. QED
      BY <1>2, <1>6, <2>1 DEF Publish, PublishAccepted, PublishFull, PublishClosed
  <1>7. ASSUME NEW c \in Closers, Close(c) PROVE NoneAsleep'
    <2>1. Broadcast => \A w \in Workers : worker'[w] # "waiting"
      BY <1>1 DEF Broadcast
    <2>2. QED
      BY <1>2, <1>7, <2>1 DEF Close, CloseBegin, CloseDrained, CloseExpired, NoneAsleep
  <1>8. CASE PoolStopped \/ UNCHANGED vars
    BY <1>2, <1>8 DEF PoolStopped, vars
  <1>9. QED
    BY <1>4, <1>5, <1>6, <1>7, <1>8 DEF Next, Quiescent

\* The broadcast in Close reaches every sleeping worker, and none falls asleep
\* on a closed bus: the whole pool can reach its return.
THEOREM CloseWakesPool == Spec => []NoneAsleep
  <1>1. Init => NoneAsleep
    BY DEF Init, NoneAsleep
  <1>2. BusInvariant /\ NoneAsleep /\ [Next]_vars => NoneAsleep'
    BY AwakeStep DEF BusInvariant
  <1>3. QED
    BY <1>1, <1>2, BusInvariantHolds, PTL DEF Spec

LEMMA Winds ==
  ASSUME BusInvariant, NoneAsleep, [Next]_vars PROVE WindDown
  <1> SUFFICES ASSUME closed PROVE WindDown
    BY DEF WindDown
  <1>1. /\ worker \in [Workers -> WorkerPoints] /\ size \in Nat /\ stats \in [Counters -> Nat]
        /\ {"Abandoned", "InFlight", "Failed", "Delivered", "TimedOut"} \subseteq Counters
        /\ \A w \in Workers : worker[w] # "waiting"
    BY SMT DEF BusInvariant, TypeOK, NoneAsleep, Counters
  <1>2. ASSUME closed', log' = log,
               \/ UNCHANGED <<size, stats>>
               \/ size' = size - 1 /\ size > 0 /\ stats'["InFlight"] = stats["InFlight"] + 1
               \/ size' = size /\ stats'["InFlight"] = stats["InFlight"] - 1
               \/ size' = 0 /\ stats'["InFlight"] = stats["InFlight"],
               \A w \in Workers : worker[w] = "exited" => worker'[w] = "exited"
        PROVE  WindDown
    <2>1. PICK n \in Nat, k \in Nat : n = size /\ k = stats["InFlight"]
      BY <1>1
    <2>2. size' <= size /\ size' + stats'["InFlight"] <= size + stats["InFlight"]
      BY SMT, <1>2, <2>1
    <2>3. QED
      BY <1>2, <2>2 DEF WindDown
  <1>3. ASSUME NEW w \in Workers, NEW pc, worker[w] # "exited", worker' = [worker EXCEPT ![w] = pc]
        PROVE  \A v \in Workers : worker[v] = "exited" => worker'[v] = "exited"
    BY <1>1, <1>3
  <1>4. ASSUME NEW w \in Workers, WorkerTake(w) PROVE WindDown
    <2>1. size' = size - 1 /\ size > 0 /\ stats'["InFlight"] = stats["InFlight"] + 1
      BY <1>1, <1>4 DEF WorkerTake
    <2>2. QED
      BY <1>2, <1>3, <1>4, <2>1 DEF WorkerTake
  <1>5. ASSUME NEW w \in Workers, WorkerFinish(w) PROVE WindDown
    <2>1. size' = size /\ stats'["InFlight"] = stats["InFlight"] - 1
      BY SMT, <1>1, <1>5 DEF WorkerFinish, CountOutcome
    <2>2. QED
      BY <1>2, <1>3, <1>5, <2>1 DEF WorkerFinish
  <1>6. ASSUME NEW w \in Workers, Work(w), ~WorkerTake(w), ~WorkerFinish(w) PROVE WindDown
    <2>1. closed' /\ UNCHANGED <<log, size, stats>>
      BY <1>6
      DEF Work, WorkerWait, WorkerExit, WorkerStart, DeadlineFires, AbortFires, WorkerDelivered
    <2>2. \A v \in Workers : worker[v] = "exited" => worker'[v] = "exited"
      BY <1>3, <1>6
      DEF Work, WorkerWait, WorkerExit, WorkerStart, DeadlineFires, AbortFires, WorkerDelivered
    <2>3. QED
      BY <1>2, <2>1, <2>2
  <1>7. ASSUME NEW e \in Events, Publish(e) PROVE WindDown
    BY <1>2, <1>7 DEF Publish, PublishAccepted, PublishFull, PublishClosed
  <1>8. ASSUME NEW c \in Closers, Close(c) PROVE WindDown
    <2>1. CASE CloseExpired(c)
      <3>1. size' = 0 /\ stats'["InFlight"] = stats["InFlight"]
        BY <1>1, <2>1 DEF CloseExpired
      <3>2. \A w \in Workers : worker[w] = "exited" => worker'[w] = "exited"
        BY <1>1, <2>1 DEF CloseExpired, Broadcast
      <3>3. QED
        BY <1>2, <2>1, <3>1, <3>2 DEF CloseExpired
    <2>2. QED
      BY <1>2, <1>8, <2>1 DEF Close, CloseBegin, CloseDrained
  <1>9. CASE PoolStopped \/ UNCHANGED vars
    BY <1>2, <1>9 DEF PoolStopped, vars
  <1>10. QED
    BY <1>4, <1>5, <1>6, <1>7, <1>8, <1>9 DEF Next, Quiescent

\* Once Close has begun the work left only shrinks: nothing is accepted, no
\* queued or held delivery is added, and workers that returned stay away.
THEOREM ClosedBusWindsDown == Spec => [][WindDown]_vars
  <1>1. BusInvariant /\ NoneAsleep /\ [Next]_vars => [WindDown]_vars
    BY Winds
  <1>2. QED
    BY <1>1, BusInvariantHolds, CloseWakesPool, PTL DEF Spec

LEMMA FinalStep ==
  ASSUME BusInvariant, [Next]_vars PROVE Final
  <1> SUFFICES ASSUME done PROVE Final
    BY DEF Final
  <1>1. /\ \A w \in Workers : worker[w] = "exited"
        /\ worker \in [Workers -> WorkerPoints] /\ stats \in [Counters -> Nat]
    BY DEF BusInvariant, ShutdownOrder, TypeOK
  <1>2. closed /\ size = 0
    BY <1>1, WorkersAssumption DEF BusInvariant, ShutdownOrder
  <1>3. ASSUME NEW w \in Workers, Work(w) PROVE Final
    BY <1>1, <1>3
    DEF Work, WorkerWait, WorkerExit, WorkerTake, WorkerStart, DeadlineFires, AbortFires,
        WorkerFinish, WorkerDelivered
  <1>4. ASSUME NEW c \in Closers, CloseExpired(c) PROVE Final
    <2>1. Broadcast => worker' = worker
      BY <1>1 DEF Broadcast
    <2>2. stats' = stats
      BY SMT, <1>1, <1>2, <1>4 DEF CloseExpired, Counters
    <2>3. QED
      BY <1>2, <1>4, <2>1, <2>2 DEF CloseExpired, Final
  <1>5. ASSUME NEW c \in Closers, CloseBegin(c) \/ CloseDrained(c) PROVE Final
    BY <1>2, <1>5 DEF CloseBegin, CloseDrained, Final
  <1>6. ASSUME NEW e \in Events, Publish(e) PROVE Final
    BY <1>2, <1>6 DEF Publish, PublishAccepted, PublishFull, PublishClosed, Final
  <1>7. CASE PoolStopped \/ UNCHANGED vars
    BY <1>7 DEF PoolStopped, vars, Final
  <1>8. QED
    BY <1>3, <1>4, <1>5, <1>6, <1>7 DEF Next, Close, Quiescent

\* When a Close has returned nil the statistics are final: no worker runs, and
\* a second Close, even one that expires, changes nothing.
THEOREM DoneIsFinal == Spec => [][Final]_vars
  <1>1. BusInvariant /\ [Next]_vars => [Final]_vars
    BY FinalStep
  <1>2. QED
    BY <1>1, BusInvariantHolds, PTL DEF Spec

=============================================================================
