------------------------------ MODULE AsyncBus ------------------------------
(***************************************************************************)
(* The bounded asynchronous event bus of mdmprotocol/event: publishers,    *)
(* a ring of accepted deliveries, a fixed pool of workers sleeping on a    *)
(* condition variable, and Close with its deadline.  Every step below is   *)
(* one critical section of closeMu, or one step a worker takes outside it. *)
(***************************************************************************)
EXTENDS Integers, Sequences, FiniteSets

CONSTANTS
    Events,    \* occurrences offered to Publish, each at most once
    Workers,   \* the goroutines started by start
    Closers,   \* concurrent callers of Close
    Capacity,  \* len(b.queue)
    NoEvent    \* the zero delivery

ASSUME CapacityAssumption == Capacity \in Nat \ {0}
ASSUME WorkersAssumption == IsFiniteSet(Workers) /\ Workers # {}
ASSUME NoEventAssumption == NoEvent \notin Events

VARIABLES
    ring,    \* b.queue
    head,    \* b.head
    size,    \* b.size
    closed,  \* b.closed
    aborted, \* b.abort is cancelled
    done,    \* b.done is closed
    worker,  \* program point of each worker
    job,     \* the delivery a worker holds
    ctxErr,  \* Err() of the delivery context a worker holds
    closer,  \* program point of each Close call
    stats,   \* b.stats
    offered, \* history: events already passed to Publish
    log      \* history: accepted events in acceptance order

vars == <<ring, head, size, closed, aborted, done, worker, job, ctxErr,
          closer, stats, offered, log>>

Slots == 0 .. Capacity - 1
Counters == {"Accepted", "Delivered", "Failed", "TimedOut", "Rejected",
             "Abandoned", "InFlight"}
WorkerPoints == {"loop", "waiting", "taken", "handling", "failed", "expired",
                 "delivered", "exited"}

TypeOK ==
    /\ ring \in [Slots -> Events \cup {NoEvent}]
    /\ head \in Slots
    /\ size \in 0 .. Capacity
    /\ closed \in BOOLEAN /\ aborted \in BOOLEAN /\ done \in BOOLEAN
    /\ worker \in [Workers -> WorkerPoints]
    /\ job \in [Workers -> Events \cup {NoEvent}]
    /\ ctxErr \in [Workers -> {"nil", "canceled", "deadline"}]
    /\ closer \in [Closers -> {"idle", "waiting", "drained", "expired"}]
    /\ stats \in [Counters -> Nat]
    /\ offered \in SUBSET Events
    /\ log \in Seq(Events)

Init ==
    /\ ring = [i \in Slots |-> NoEvent]
    /\ head = 0 /\ size = 0
    /\ closed = FALSE /\ aborted = FALSE /\ done = FALSE
    /\ worker = [w \in Workers |-> "loop"]
    /\ job = [w \in Workers |-> NoEvent]
    /\ ctxErr = [w \in Workers |-> "nil"]
    /\ closer = [c \in Closers |-> "idle"]
    /\ stats = [k \in Counters |-> 0]
    /\ offered = {}
    /\ log = << >>

(***************************************************************************)
(* Publish.                                                                *)
(***************************************************************************)
SlotOffByOne(i) == (head + i + 1) % Capacity
Slot(i) == (head + i) % Capacity

Full == size = Capacity

\* cond.Signal wakes one sleeping worker when there is one.
SignalNobody == worker' = worker
Signal ==
    LET sleeping == {w \in Workers : worker[w] = "waiting"}
    IN  IF sleeping = {} THEN worker' = worker
        ELSE \E w \in sleeping : worker' = [worker EXCEPT ![w] = "loop"]

\* cond.Broadcast wakes them all.
BroadcastNobody == worker' = worker
Broadcast ==
    worker' = [w \in Workers |->
                 IF worker[w] = "waiting" THEN "loop" ELSE worker[w]]

PublishAccepted(e) ==
    /\ ~closed
    /\ e \notin offered
    /\ ~Full
    /\ ring' = [ring EXCEPT ![Slot(size)] = e]
    /\ size' = size + 1
    /\ stats' = [stats EXCEPT !["Accepted"] = @ + 1]
    /\ Signal
    /\ offered' = offered \cup {e}
    /\ log' = Append(log, e)
    /\ UNCHANGED <<head, closed, aborted, done, job, ctxErr, closer>>

PublishFull(e) ==
    /\ ~closed
    /\ e \notin offered
    /\ Full
    /\ stats' = [stats EXCEPT !["Rejected"] = @ + 1]
    /\ offered' = offered \cup {e}
    /\ UNCHANGED <<ring, head, size, closed, aborted, done, worker, job,
                   ctxErr, closer, log>>

\* ErrClosed: nothing is recorded.
PublishClosed(e) ==
    /\ closed
    /\ e \notin offered
    /\ offered' = offered \cup {e}
    /\ UNCHANGED <<ring, head, size, closed, aborted, done, worker, job,
                   ctxErr, closer, stats, log>>

(***************************************************************************)
(* worker.                                                                 *)
(***************************************************************************)
WorkerWait(w) ==
    /\ worker[w] = "loop"
    /\ size = 0 /\ ~closed
    /\ worker' = [worker EXCEPT ![w] = "waiting"]
    /\ UNCHANGED <<ring, head, size, closed, aborted, done, job, ctxErr,
                   closer, stats, offered, log>>

WorkerExit(w) ==
    /\ worker[w] = "loop"
    /\ size = 0 /\ closed
    /\ worker' = [worker EXCEPT ![w] = "exited"]
    /\ UNCHANGED <<ring, head, size, closed, aborted, done, job, ctxErr,
                   closer, stats, offered, log>>

\* The deadline started at acceptance, so it may have passed in the queue.
WorkerTake(w) ==
    /\ worker[w] = "loop"
    /\ size > 0
    /\ job' = [job EXCEPT ![w] = ring[head]]
    /\ ring' = [ring EXCEPT ![head] = NoEvent]
    /\ head' = (head + 1) % Capacity
    /\ size' = size - 1
    /\ stats' = [stats EXCEPT !["InFlight"] = @ + 1]
    /\ worker' = [worker EXCEPT ![w] = "taken"]
    /\ \E err \in {"nil", "deadline"} : ctxErr' = [ctxErr EXCEPT ![w] = err]
    /\ UNCHANGED <<closed, aborted, done, closer, offered, log>>

Failure(err) == IF err = "deadline" THEN "expired" ELSE "failed"

\* The check before deliver: an aborted bus cancels the context first.
WorkerStart(w) ==
    /\ worker[w] = "taken"
    /\ LET err == IF aborted /\ ctxErr[w] = "nil" THEN "canceled" ELSE ctxErr[w]
       IN  /\ ctxErr' = [ctxErr EXCEPT ![w] = err]
           /\ worker' = [worker EXCEPT ![w] =
                           IF err = "nil" THEN "handling" ELSE Failure(err)]
    /\ UNCHANGED <<ring, head, size, closed, aborted, done, job, closer,
                   stats, offered, log>>

\* The deadline timer and context.AfterFunc(b.abort, cancel) fire by themselves.
DeadlineFires(w) ==
    /\ worker[w] \in {"taken", "handling"}
    /\ ctxErr[w] = "nil"
    /\ ctxErr' = [ctxErr EXCEPT ![w] = "deadline"]
    /\ UNCHANGED <<ring, head, size, closed, aborted, done, worker, job,
                   closer, stats, offered, log>>

AbortFires(w) ==
    /\ aborted
    /\ worker[w] \in {"taken", "handling"}
    /\ ctxErr[w] = "nil"
    /\ ctxErr' = [ctxErr EXCEPT ![w] = "canceled"]
    /\ UNCHANGED <<ring, head, size, closed, aborted, done, worker, job,
                   closer, stats, offered, log>>

\* deliver returns what the handlers returned; a context that ended meanwhile
\* turns even a success into a failure.
WorkerDelivered(w, result) ==
    /\ worker[w] = "handling"
    /\ worker' = [worker EXCEPT ![w] =
                    IF result = "deadline" \/ ctxErr[w] = "deadline" THEN "expired"
                    ELSE IF result = "error" \/ ctxErr[w] = "canceled" THEN "failed"
                    ELSE "delivered"]
    /\ UNCHANGED <<ring, head, size, closed, aborted, done, job, ctxErr,
                   closer, stats, offered, log>>

CountOutcomeTimeoutOnly(w) ==
    [stats EXCEPT !["InFlight"] = @ - 1,
                  !["Failed"] = IF worker[w] = "failed" THEN @ + 1 ELSE @,
                  !["TimedOut"] = IF worker[w] = "expired" THEN @ + 1 ELSE @,
                  !["Delivered"] = IF worker[w] = "delivered" THEN @ + 1 ELSE @]
CountOutcome(w) ==
    [stats EXCEPT !["InFlight"] = @ - 1,
                  !["Failed"] = IF worker[w] = "delivered" THEN @ ELSE @ + 1,
                  !["TimedOut"] = IF worker[w] = "expired" THEN @ + 1 ELSE @,
                  !["Delivered"] = IF worker[w] = "delivered" THEN @ + 1 ELSE @]

WorkerFinish(w) ==
    /\ worker[w] \in {"failed", "expired", "delivered"}
    /\ stats' = CountOutcome(w)
    /\ worker' = [worker EXCEPT ![w] = "loop"]
    /\ job' = [job EXCEPT ![w] = NoEvent]
    /\ ctxErr' = [ctxErr EXCEPT ![w] = "nil"]
    /\ UNCHANGED <<ring, head, size, closed, aborted, done, closer, offered,
                   log>>

\* wg.Wait: every worker returned.
WaitForOne == \E w \in Workers : worker[w] = "exited"
WaitForPool == \A w \in Workers : worker[w] = "exited"

\* The goroutine of start that waits for the pool.
PoolStopped ==
    /\ WaitForPool
    /\ ~done
    /\ aborted' = TRUE /\ done' = TRUE
    /\ UNCHANGED <<ring, head, size, closed, worker, job, ctxErr, closer,
                   stats, offered, log>>

(***************************************************************************)
(* Close.                                                                  *)
(***************************************************************************)
CloseBegin(c) ==
    /\ closer[c] = "idle"
    /\ closed' = TRUE
    /\ IF closed THEN worker' = worker ELSE Broadcast
    /\ closer' = [closer EXCEPT ![c] = "waiting"]
    /\ UNCHANGED <<ring, head, size, aborted, done, job, ctxErr, stats,
                   offered, log>>

CloseDrained(c) ==
    /\ closer[c] = "waiting"
    /\ done
    /\ closer' = [closer EXCEPT ![c] = "drained"]
    /\ UNCHANGED <<ring, head, size, closed, aborted, done, worker, job,
                   ctxErr, stats, offered, log>>

\* ctx.Done wins the select: cancel active deliveries, discard the queue.
CloseExpired(c) ==
    /\ closer[c] = "waiting"
    /\ aborted' = TRUE
    /\ stats' = [stats EXCEPT !["Abandoned"] = @ + size]
    /\ ring' = [i \in Slots |-> NoEvent]
    /\ size' = 0
    /\ Broadcast
    /\ closer' = [closer EXCEPT ![c] = "expired"]
    /\ UNCHANGED <<head, closed, done, job, ctxErr, offered, log>>

Publish(e) == PublishAccepted(e) \/ PublishFull(e) \/ PublishClosed(e)

HandlerResults == {"ok", "error", "deadline"}

Work(w) ==
    \/ WorkerWait(w) \/ WorkerExit(w) \/ WorkerTake(w) \/ WorkerStart(w)
    \/ DeadlineFires(w) \/ AbortFires(w) \/ WorkerFinish(w)
    \/ \E result \in HandlerResults : WorkerDelivered(w, result)

Close(c) == CloseBegin(c) \/ CloseDrained(c) \/ CloseExpired(c)

\* Every event offered, every Close answered and the pool asleep or gone.
Quiescent ==
    /\ offered = Events
    /\ \A c \in Closers : closer[c] \in {"drained", "expired"}
    /\ done
    /\ UNCHANGED vars

Next ==
    \/ \E e \in Events : Publish(e)
    \/ \E w \in Workers : Work(w)
    \/ \E c \in Closers : Close(c)
    \/ PoolStopped
    \/ Quiescent

Spec == Init /\ [][Next]_vars

\* Go schedules every runnable goroutine; timers fire; handlers honour an
\* ended context.  Publishers, Close callers and Close deadlines may never act.
Fairness ==
    /\ \A w \in Workers :
         /\ WF_vars(WorkerExit(w)) /\ WF_vars(WorkerTake(w))
         /\ WF_vars(WorkerStart(w)) /\ WF_vars(WorkerFinish(w))
         /\ WF_vars(DeadlineFires(w))
         /\ WF_vars(ctxErr[w] # "nil" /\ \E r \in HandlerResults : WorkerDelivered(w, r))
    /\ WF_vars(PoolStopped)
    /\ \A c \in Closers : WF_vars(CloseDrained(c))

FairSpec == Spec /\ Fairness

(***************************************************************************)
(* Properties.                                                             *)
(***************************************************************************)
Settled == stats["Delivered"] + stats["Failed"] + stats["Abandoned"]

\* The identity documented on Stats: every accepted event is in exactly one
\* place, whatever the interleaving of workers, publishers and Close; TimedOut
\* is part of Failed.
Accounting ==
    /\ stats["Accepted"] = Settled + size + stats["InFlight"]
    /\ stats["TimedOut"] <= stats["Failed"]

\* The ring arithmetic of Publish, worker and Close keeps acceptance order:
\* the queued deliveries are the last accepted events, oldest at b.head.
FifoRing ==
    \A i \in 0 .. size - 1 : ring[(head + i) % Capacity] = log[Len(log) - size + 1 + i]

\* No lost wake-up: while an event is queued some worker is awake to take it,
\* although Publish signals only one worker and only once per event.
NoLostWakeup ==
    size > 0 => \E w \in Workers : worker[w] \notin {"waiting", "exited"}

\* Close returns nil only after every accepted event has an outcome, and events
\* are discarded only by a Close whose deadline passed.
CloseContract ==
    /\ (\E c \in Closers : closer[c] = "drained") => stats["Accepted"] = Settled
    /\ stats["Abandoned"] > 0 => \E c \in Closers : closer[c] = "expired"

\* The inductive strengthening: stats.InFlight counts exactly the workers that
\* hold a delivery, a worker returns only from a closed and empty bus, and
\* nothing reports completion before the whole pool returned.
Busy == {w \in Workers :
           worker[w] \in {"taken", "handling", "failed", "expired", "delivered"}}

InFlightExact == stats["InFlight"] = Cardinality(Busy)

ShutdownOrder ==
    /\ \A w \in Workers : worker[w] = "exited" => closed /\ size = 0
    /\ done => \A w \in Workers : worker[w] = "exited"
    /\ \A c \in Closers : closer[c] = "drained" => done
    /\ stats["Abandoned"] > 0 => \E c \in Closers : closer[c] = "expired"

BusInvariant ==
    /\ TypeOK
    /\ Accounting
    /\ NoLostWakeup
    /\ InFlightExact
    /\ ShutdownOrder

Pending(e) == (\E i \in Slots : ring[i] = e) \/ (\E w \in Workers : job[w] = e)

\* Every accepted event is eventually delivered, failed or abandoned.
EventSettles == \A e \in Events : Pending(e) ~> ~Pending(e)

\* Once Close was called the pool drains and b.done is closed, so every
\* later Close can return.
CloseTerminates == closed ~> done
=============================================================================
