---------------------------- MODULE EventPublisher ----------------------------
(***************************************************************************)
(* The producing side of the outbox: eventstore.Publisher inside           *)
(* sqlcommon's unit of work.  A handler mutates the domain and publishes   *)
(* its event in one transaction, possibly within a savepoint, and may      *)
(* publish a denial; after the transaction its commit callbacks notify the *)
(* in-process subscribers and its completion callbacks record the denials. *)
(* Capture holds the row locks of the subscriptions it read until the      *)
(* transaction ends.                                                       *)
(***************************************************************************)
EXTENDS EventOutbox, FiniteSets

CONSTANTS Operations    \* handler calls

VARIABLES
    tx,         \* the running unit of work
    committed,  \* operations whose domain mutation is durable
    recorded,   \* operations whose event is in event_records
    notified,   \* operations the in-process subscribers heard of
    denied,     \* history: operations that published a denial
    denials,    \* denials in event_records
    failed,     \* denials counted in CaptureHealth.FailedDenials
    crashed     \* history: operations cut short by a crash

publisher == <<tx, committed, recorded, notified, denied, denials, failed, crashed>>
vars == <<outbox, publisher>>

\* What a savepoint can take back: the writes and the commit callbacks.
Nothing == [wrote |-> FALSE, event |-> FALSE, rows |-> [m \in {} |-> None], notify |-> FALSE]
NoUnit == [phase |-> "none", op |-> None, work |-> Nothing, saved |-> << >>,
           poisoned |-> FALSE, deny |-> FALSE]

PublisherInit ==
    /\ Init
    /\ tx = NoUnit
    /\ committed = {} /\ recorded = {} /\ notified = {}
    /\ denied = {} /\ denials = {} /\ failed = {} /\ crashed = {}

\* Each operation is one call that left a trace; one that left none may return.
Seen == committed \cup denied \cup crashed

(***************************************************************************)
(* Run, Savepoint, Publish.                                                *)
(***************************************************************************)
Begin(o) ==
    /\ tx.phase = "none" /\ o \notin Seen
    /\ tx' = [NoUnit EXCEPT !.phase = "open", !.op = o]
    /\ UNCHANGED <<outbox, committed, recorded, notified, denied, denials, failed, crashed>>

\* The handler's own mutation, after which it publishes.
Mutate ==
    /\ tx.phase = "open" /\ ~tx.work.wrote
    /\ tx' = [tx EXCEPT !.work.wrote = TRUE, !.phase = "publish"]
    /\ UNCHANGED <<outbox, committed, recorded, notified, denied, denials, failed, crashed>>

\* capture in the caller's transaction; subscribers wait for the commit.
Publish(ms) ==
    /\ tx.phase = "publish"
    /\ \A m \in ms : Capturable(m)
    /\ tx' = [tx EXCEPT !.work.event = TRUE, !.work.rows = Frozen(ms), !.work.notify = TRUE,
                        !.phase = "open"]
    /\ UNCHANGED <<outbox, committed, recorded, notified, denied, denials, failed, crashed>>

\* A failed capture poisons the transaction, whatever the handler does next.
PublishFails ==
    /\ tx.phase = "publish"
    /\ tx' = [tx EXCEPT !.poisoned = TRUE, !.phase = "open"]
    /\ UNCHANGED <<outbox, committed, recorded, notified, denied, denials, failed, crashed>>

\* A denial waits for the end of the transaction, either way.
Deny ==
    /\ tx.phase = "open" /\ ~tx.deny
    /\ tx' = [tx EXCEPT !.deny = TRUE]
    /\ denied' = denied \cup {tx.op}
    /\ UNCHANGED <<outbox, committed, recorded, notified, denials, failed, crashed>>

Savepoint ==
    /\ tx.phase = "open" /\ tx.saved = << >>
    /\ tx' = [tx EXCEPT !.saved = <<tx.work>>]
    /\ UNCHANGED <<outbox, committed, recorded, notified, denied, denials, failed, crashed>>

Release ==
    /\ tx.phase = "open" /\ tx.saved # << >>
    /\ tx' = [tx EXCEPT !.saved = << >>]
    /\ UNCHANGED <<outbox, committed, recorded, notified, denied, denials, failed, crashed>>

\* ROLLBACK TO SAVEPOINT also drops the commit callbacks registered since.
RestoredNotifying == [tx.saved[1] EXCEPT !.notify = tx.work.notify]
Restored == tx.saved[1]

RollbackTo ==
    /\ tx.phase \in {"open", "publish"} /\ tx.saved # << >>
    /\ tx' = [tx EXCEPT !.work = Restored, !.saved = << >>, !.phase = "open"]
    /\ UNCHANGED <<outbox, committed, recorded, notified, denied, denials, failed, crashed>>

(***************************************************************************)
(* The end of Run.                                                         *)
(***************************************************************************)
MayCommitAlways == TRUE
MayCommit == ~tx.poisoned

Commit ==
    /\ tx.phase = "open" /\ tx.saved = << >> /\ MayCommit
    /\ Insert(tx.work.rows)
    /\ committed' = IF tx.work.wrote THEN committed \cup {tx.op} ELSE committed
    /\ recorded' = IF tx.work.event THEN recorded \cup {tx.op} ELSE recorded
    /\ tx' = [tx EXCEPT !.phase = "committed"]
    /\ UNCHANGED <<notified, denied, denials, failed, crashed>>

\* The callback or the COMMIT returned an error, or the unit is poisoned.
Rollback ==
    /\ tx.phase = "open" /\ tx.saved = << >>
    /\ tx' = [tx EXCEPT !.work = Nothing, !.phase = "completing"]
    /\ UNCHANGED <<outbox, committed, recorded, notified, denied, denials, failed, crashed>>

Notify ==
    /\ tx.phase = "committed"
    /\ notified' = IF tx.work.notify THEN notified \cup {tx.op} ELSE notified
    /\ tx' = [tx EXCEPT !.phase = "completing"]
    /\ UNCHANGED <<outbox, committed, recorded, denied, denials, failed, crashed>>

\* The denials scheduled with AfterCompletion, each in its own transaction.
PendingDenialCommitted == tx.deny /\ tx.op \in committed
PendingDenial == tx.deny

Complete ==
    /\ tx.phase = "completing"
    /\ \/ /\ PendingDenial
          /\ \E ms \in SUBSET Deliveries : Capture(ms)
          /\ denials' = denials \cup {tx.op}
          /\ UNCHANGED failed
       \/ /\ PendingDenial
          /\ failed' = failed \cup {tx.op}
          /\ UNCHANGED <<outbox, denials>>
       \/ /\ ~PendingDenial
          /\ UNCHANGED <<outbox, denials, failed>>
    /\ tx' = NoUnit
    /\ UNCHANGED <<committed, recorded, notified, denied, crashed>>

Crash ==
    /\ tx.phase # "none"
    /\ crashed' = crashed \cup {tx.op}
    /\ tx' = NoUnit
    /\ UNCHANGED <<outbox, committed, recorded, notified, denied, denials, failed>>

Unit ==
    \/ \E o \in Operations : Begin(o)
    \/ \E ms \in SUBSET Deliveries : Publish(ms)
    \/ Mutate \/ PublishFails \/ Deny \/ Savepoint \/ Release \/ RollbackTo
    \/ Commit \/ Rollback \/ Notify \/ Complete \/ Crash

(***************************************************************************)
(* The outbox meanwhile.  Rows the unit has not committed are invisible;   *)
(* their identifiers are random and the subscriptions they belong to are   *)
(* locked.                                                                 *)
(***************************************************************************)
Reserved ==
    IF tx.phase \in {"open", "publish"}
    THEN DOMAIN tx.work.rows
    ELSE {}
Locked == {Sub[m] : m \in Reserved \cap Webhooks}

\* Messages whose payload has neither expired nor been pruned.
Retained == {m \in Webhooks \ expired : state[m] \notin {"absent", "deleted"}}

\* Replay: a transaction of its own captures fresh deliveries for s, at most one
\* of each retained occurrence.
Replay(s, ms) ==
    /\ s \notin Locked
    /\ ms # {} /\ \A m \in ms : Sub[m] = s
    /\ Cardinality(ms) <= Cardinality(Retained)
    /\ Capture(ms)
    /\ UNCHANGED publisher

Outbox ==
    /\ \/ \E s \in Subs \ Locked : Change(s)
       \/ \E m \in Deliveries : Retry(m)
       \/ \E w \in Workers : Work(w) \/ Abandon(w)
       \/ Time
    /\ UNCHANGED publisher

PublisherNext ==
    \/ Unit
    \/ \E s \in Subs, ms \in SUBSET Webhooks : Replay(s, ms)
    \/ Outbox

PublisherSpec == PublisherInit /\ [][PublisherNext]_vars

(***************************************************************************)
(* Properties.                                                             *)
(***************************************************************************)
\* A domain mutation is durable exactly when its event is recorded, even when
\* a handler ignores a failed capture or a savepoint was rolled back.
RecordedWithMutation == committed = recorded

\* Subscribers hear only of recorded events, and once the unit of work is over
\* of each one unless the process crashed first.
NotifiedRecorded ==
    /\ notified \subseteq recorded
    /\ tx.phase \in {"none", "completing"} => recorded \subseteq notified \cup crashed

\* A denial outlives the transaction it was raised in: it is recorded, or its
\* failure is counted, unless the process crashed first.
DenialsSurvive ==
    \A o \in denied : o = tx.op \/ o \in denials \cup failed \cup crashed

\* What capture read of a subscription before the commit is still true at the
\* commit: the rows a unit of work holds are those it would write now.
StillFrozen ==
    tx.phase \in {"open", "publish"} =>
       /\ tx.work.rows = Frozen(DOMAIN tx.work.rows)
       /\ \A m \in DOMAIN tx.work.rows : Capturable(m)

\* Transactions and locks notwithstanding, the producers use the outbox only
\* as EventOutbox allows.
UsesOutbox == Spec
=============================================================================
