----------------------------- MODULE EventOutbox -----------------------------
(***************************************************************************)
(* The persistent event outbox: the delivery rows of server/eventstore,    *)
(* the workers that lease them, and the webhook subscriptions of           *)
(* server/webhook that pause, resume, revise and cancel them.  Every SQL   *)
(* transaction is one step; the network request of a delivery lies between *)
(* two of them.  A delivery is one destination of one captured event; a    *)
(* static network destination takes the path of a webhook delivery whose   *)
(* subscription never changes.                                             *)
(***************************************************************************)
EXTENDS Naturals

CONSTANTS
    Local,      \* deliveries to a transactional destination (the audit store)
    Webhooks,   \* deliveries to a webhook subscription
    Subs,       \* webhook subscriptions
    Sub,        \* the subscription of each webhook delivery
    Workers,    \* workers, of any number of replicas
    None,
    MaxRevision \* bound: revisions of a subscription

Deliveries == Local \cup Webhooks

ASSUME DestinationsAssumption ==
    /\ Local \cap Webhooks = {}
    /\ Sub \in [Webhooks -> Subs]
ASSUME NoneAssumption == None \notin Workers \cup Deliveries
ASSUME RevisionAssumption == MaxRevision \in Nat \ {0}

VARIABLES
    state,     \* event_deliveries.state; "absent" before capture, "deleted" after Prune
    token,     \* lease_token: tokens are unique, so the worker it was given to
    leased,    \* deliveries with lease_until > now
    waiting,   \* deliveries with next_attempt > now
    revision,  \* webhook_messages.revision
    expired,   \* messages with expires_at <= now
    subRev,    \* subscription revision, 0 before Create
    disabled,  \* subscriptions with Enabled = false
    paused,    \* subscriptions with Paused = true
    removed,   \* subscriptions with Deleted = true
    worker,    \* what each worker is doing
    received   \* history: how often a receiver took it (two is many)

rows == <<state, token, leased, waiting>>
messages == <<revision, expired>>
subscriptions == <<subRev, disabled, paused, removed>>
outbox == <<rows, messages, subscriptions, worker, received>>

Open == {"pending", "paused", "blocked"}
Settled == {"delivered", "expired", "cancelled"}
\* Results of an attempt; "retry" stands for transport, timeout and HTTP 408,
\* 429 and 5xx, "rejected" for other HTTP answers and an unknown destination.
Codes == {"ok", "retry", "rejected", "paused", "expired", "cancelled"}

Idle == [pc |-> "idle", job |-> None, code |-> "ok"]
Slots == [pc : {"idle", "claimed", "checking", "sending", "finishing"},
          job : Deliveries \cup {None}, code : Codes]

TypeOK ==
    /\ state \in [Deliveries -> {"absent", "deleted"} \cup Open \cup Settled]
    /\ token \in [Deliveries -> Workers \cup {None}]
    /\ leased \subseteq Deliveries /\ waiting \subseteq Deliveries
    /\ revision \in [Webhooks -> 0 .. MaxRevision]
    /\ expired \subseteq Webhooks
    /\ subRev \in [Subs -> 0 .. MaxRevision]
    /\ disabled \subseteq Subs /\ paused \subseteq Subs /\ removed \subseteq Subs
    /\ worker \in [Workers -> Slots]
    /\ received \in [Deliveries -> 0 .. 2]

Init ==
    /\ state = [m \in Deliveries |-> "absent"]
    /\ token = [m \in Deliveries |-> None]
    /\ leased = {} /\ waiting = {}
    /\ revision = [m \in Webhooks |-> 0]
    /\ expired = {}
    /\ subRev = [s \in Subs |-> 0]
    /\ disabled = {} /\ paused = {} /\ removed = {}
    /\ worker = [w \in Workers |-> Idle]
    /\ received = [m \in Deliveries |-> 0]

Exists(s) == subRev[s] # 0 /\ s \notin removed
Active(s) == Exists(s) /\ s \notin disabled /\ s \notin paused

(***************************************************************************)
(* Capture: an event's deliveries appear together with the caller's        *)
(* mutation; for a webhook captureFor freezes the subscription's revision. *)
(***************************************************************************)
Capturable(m) ==
    /\ state[m] = "absent"
    /\ m \in Webhooks => Exists(Sub[m]) /\ Sub[m] \notin disabled

CapturedState(m) ==
    IF m \in Webhooks /\ Sub[m] \in paused THEN "paused" ELSE "pending"

\* The rows captureFor writes for ms, and their insertion.
Frozen(ms) ==
    [m \in ms |-> [state |-> CapturedState(m),
                   revision |-> IF m \in Webhooks THEN subRev[Sub[m]] ELSE 0]]
Insert(new) ==
    /\ state' = [m \in Deliveries |-> IF m \in DOMAIN new THEN new[m].state ELSE state[m]]
    /\ revision' = [m \in Webhooks |->
                      IF m \in DOMAIN new THEN new[m].revision ELSE revision[m]]
    /\ UNCHANGED <<token, leased, waiting, expired, subscriptions, worker, received>>

Capture(ms) ==
    /\ \A m \in ms : Capturable(m)
    /\ Insert(Frozen(ms))

(***************************************************************************)
(* Claim, Finish and Retry.                                                *)
(***************************************************************************)
ReadyUnclaimed(m) == state[m] = "pending" /\ m \notin waiting /\ token[m] = None
Ready(m) == state[m] = "pending" /\ m \notin waiting /\ m \notin leased

Claim(w, m) ==
    /\ worker[w] = Idle
    /\ Ready(m)
    /\ token' = [token EXCEPT ![m] = w]
    /\ leased' = leased \cup {m}
    /\ worker' = [worker EXCEPT ![w] = [pc |-> "claimed", job |-> m, code |-> "ok"]]
    /\ UNCHANGED <<state, waiting, messages, subscriptions, received>>

\* The WHERE clause of Finish.  A worker has one claim at a time, so a row with
\* its token that is not its job carries the token of an abandoned claim.
HoldsLeaseUnfenced(w) == state[worker[w].job] # "deleted"
HoldsLeaseAnyToken(w) == worker[w].job \in leased /\ state[worker[w].job] = "pending"
HoldsLease(w) ==
    LET m == worker[w].job IN
    token[m] = w /\ m \in leased /\ state[m] = "pending"

StateAfter(code) ==
    CASE code = "ok" -> "delivered"
      [] code = "retry" -> "pending"
      [] code = "rejected" -> "blocked"
      [] OTHER -> code

FinishRow(m, code) ==
    /\ state' = [state EXCEPT ![m] = StateAfter(code)]
    /\ token' = [token EXCEPT ![m] = None]
    /\ leased' = leased \ {m}
    /\ waiting' = IF code = "retry" THEN waiting \cup {m} ELSE waiting \ {m}

Finish(w) ==
    /\ worker[w].pc = "finishing"
    /\ IF HoldsLease(w) THEN FinishRow(worker[w].job, worker[w].code) ELSE UNCHANGED rows
    /\ worker' = [worker EXCEPT ![w] = Idle]
    /\ UNCHANGED <<messages, subscriptions, received>>

Retryable(m) == state[m] \in {"pending", "blocked"} /\ m \notin leased

Retry(m) ==
    /\ Retryable(m)
    /\ state' = [state EXCEPT ![m] = "pending"]
    /\ token' = [token EXCEPT ![m] = None]
    /\ waiting' = waiting \ {m}
    /\ UNCHANGED <<leased, messages, subscriptions, worker, received>>

(***************************************************************************)
(* Worker.Step between Claim and Finish.                                   *)
(***************************************************************************)
\* A second time counts for a transactional destination; network receivers
\* deduplicate.
Receive(m) ==
    received' = [received EXCEPT ![m] = IF m \in Local /\ @ > 0 THEN 2 ELSE 1]

\* A transactional destination writes and acknowledges in one transaction,
\* which rolls back when the lease is gone.
DeliverLocal(w) ==
    /\ worker[w].pc = "claimed" /\ worker[w].job \in Local
    /\ IF HoldsLease(w)
       THEN FinishRow(worker[w].job, "ok") /\ Receive(worker[w].job)
       ELSE UNCHANGED <<rows, received>>
    /\ worker' = [worker EXCEPT ![w] = Idle]
    /\ UNCHANGED <<messages, subscriptions>>

Conclude(w, code) ==
    worker' = [worker EXCEPT ![w].pc = "finishing", ![w].code = code]
Proceed(w, pc) == worker' = [worker EXCEPT ![w].pc = pc]

\* webhook.Send reads the retained message, then the subscription.
ReadMessage(w) ==
    LET m == worker[w].job IN
    /\ worker[w].pc = "claimed" /\ m \in Webhooks
    /\ IF m \in expired \/ state[m] = "deleted" THEN Conclude(w, "expired")
       ELSE Proceed(w, "checking")
    /\ UNCHANGED <<rows, messages, subscriptions, received>>

ReadSubscription(w) ==
    LET m == worker[w].job
        s == Sub[m]
    IN  /\ worker[w].pc = "checking"
        /\ IF s \in removed THEN Conclude(w, "cancelled")
           ELSE IF ~Active(s) \/ revision[m] # subRev[s] THEN Conclude(w, "paused")
           ELSE Proceed(w, "sending")
        /\ UNCHANGED <<rows, messages, subscriptions, received>>

\* The receiver may take the event and its answer be lost or a failure.
Accepted(w, code) ==
    /\ worker[w].pc = "sending"
    /\ Receive(worker[w].job)
    /\ Conclude(w, code)
    /\ UNCHANGED <<rows, messages, subscriptions>>

NotAccepted(w) ==
    /\ worker[w].pc = "sending"
    /\ Conclude(w, "retry") \/ Conclude(w, "rejected")
    /\ UNCHANGED <<rows, messages, subscriptions, received>>

\* A crash, a cancelled context, a source or database error: the lease stays.
Abandon(w) ==
    /\ worker[w] # Idle
    /\ worker' = [worker EXCEPT ![w] = Idle]
    /\ UNCHANGED <<rows, messages, subscriptions, received>>

(***************************************************************************)
(* Time.                                                                   *)
(***************************************************************************)
LeaseExpires(m) ==
    /\ m \in leased
    /\ leased' = leased \ {m}
    /\ UNCHANGED <<state, token, waiting, messages, subscriptions, worker, received>>

DelayElapses(m) ==
    /\ m \in waiting
    /\ waiting' = waiting \ {m}
    /\ UNCHANGED <<state, token, leased, messages, subscriptions, worker, received>>

MessageExpires(m) ==
    /\ m \in Webhooks \ expired /\ state[m] # "absent"
    /\ expired' = expired \cup {m}
    /\ UNCHANGED <<rows, revision, subscriptions, worker, received>>

(***************************************************************************)
(* Subscriptions.                                                          *)
(***************************************************************************)
\* An UPDATE that moves deliveries ms to state st and revokes their leases.
Move(ms, st) ==
    /\ state' = [m \in Deliveries |-> IF m \in ms THEN st ELSE state[m]]
    /\ token' = [m \in Deliveries |-> IF m \in ms THEN None ELSE token[m]]
    /\ leased' = leased \ ms

OpenOf(s) == {m \in Webhooks : Sub[m] = s /\ state[m] \in Open}
Selected(s, currentOnly) ==
    {m \in OpenOf(s) : currentOnly => revision[m] = subRev[s]}

DeliveryState(s, st) == Move(Selected(s, st = "pending"), st)

Create(s) ==
    /\ subRev[s] = 0
    /\ subRev' = [subRev EXCEPT ![s] = 1]
    /\ UNCHANGED <<rows, messages, disabled, paused, removed, worker, received>>

Actions == {"pause", "resume", "disable", "enable", "delete"}

SetState(s, action) ==
    /\ Exists(s)
    /\ paused' = CASE action = "pause" -> paused \cup {s}
                   [] action = "resume" -> paused \ {s}
                   [] OTHER -> paused
    /\ disabled' = CASE action \in {"disable", "delete"} -> disabled \cup {s}
                     [] action = "enable" -> disabled \ {s}
                     [] OTHER -> disabled
    /\ removed' = IF action = "delete" THEN removed \cup {s} ELSE removed
    /\ DeliveryState(s, IF action = "delete" THEN "cancelled"
                        ELSE IF s \notin disabled' /\ s \notin paused' THEN "pending"
                        ELSE "paused")
    /\ UNCHANGED <<waiting, messages, subRev, worker, received>>

\* A new revision: the backlog of the old one stays paused.
Update(s) ==
    /\ Exists(s) /\ subRev[s] < MaxRevision
    /\ DeliveryState(s, "paused")
    /\ subRev' = [subRev EXCEPT ![s] = @ + 1]
    /\ UNCHANGED <<waiting, messages, disabled, paused, removed, worker, received>>

\* Expired messages lose their pending deliveries; metadata past its own
\* retention (never shorter) goes with its rows.
Prune(old) ==
    /\ old \subseteq expired
    /\ state' = [m \in Deliveries |->
                   IF m \in old THEN "deleted"
                   ELSE IF m \in expired /\ state[m] \in Open THEN "expired"
                   ELSE state[m]]
    /\ token' = [m \in Deliveries |->
                   IF m \in old \/ (m \in expired /\ state[m] \in Open) THEN None
                   ELSE token[m]]
    /\ leased' = leased \ (old \cup {m \in expired : state[m] \in Open})
    /\ waiting' = waiting \ old
    /\ UNCHANGED <<messages, subscriptions, worker, received>>

Change(s) == Create(s) \/ Update(s) \/ \E action \in Actions : SetState(s, action)

Work(w) ==
    \/ \E m \in Deliveries : Claim(w, m)
    \/ DeliverLocal(w) \/ ReadMessage(w) \/ ReadSubscription(w)
    \/ \E code \in {"ok", "retry"} : Accepted(w, code)
    \/ NotAccepted(w) \/ Finish(w)

Time ==
    \/ \E m \in Deliveries : LeaseExpires(m) \/ DelayElapses(m)
    \/ \E m \in Webhooks : MessageExpires(m)
    \/ \E old \in SUBSET expired : Prune(old)

Next ==
    \/ \E ms \in SUBSET Deliveries : Capture(ms)
    \/ \E w \in Workers : Work(w) \/ Abandon(w)
    \/ \E s \in Subs : Change(s)
    \/ \E m \in Deliveries : Retry(m)
    \/ Time

Spec == Init /\ [][Next]_outbox

\* Claim takes ready rows oldest first, so none is passed over for ever; a worker
\* bounds each attempt by its timeout; leases and delays end with the clock; a
\* receiver that is asked again and again answers at last.
Fairness ==
    /\ \A m \in Deliveries :
          /\ SF_outbox(\E w \in Workers : Claim(w, m))
          /\ WF_outbox(LeaseExpires(m))
          /\ WF_outbox(DelayElapses(m))
    /\ \A m \in Webhooks :
          SF_outbox(\E w \in Workers : worker[w].job = m /\ Accepted(w, "ok"))
    /\ \A w \in Workers :
          WF_outbox(/\ worker[w] # Idle
                    /\ Work(w))

FairSpec == Spec /\ Fairness

(***************************************************************************)
(* Properties.                                                             *)
(***************************************************************************)
\* The subscription governs its deliveries: what a worker may send belongs to
\* an active subscription's present revision, and nothing of that revision is
\* left paused once the subscription is active, whatever an attempt that
\* started earlier reports.  A deleted subscription has no open delivery.
SubscriptionGoverns ==
    \A m \in Webhooks :
       /\ state[m] \in {"pending", "blocked"} =>
            Active(Sub[m]) /\ revision[m] = subRev[Sub[m]]
       /\ state[m] = "paused" /\ revision[m] = subRev[Sub[m]] => ~Active(Sub[m])
       /\ state[m] \in Open => Sub[m] \notin removed

\* An event is acknowledged only after its receiver took it, and a
\* transactional destination holds it exactly when the row says delivered.
DeliveredReceived ==
    /\ \A m \in Deliveries : state[m] = "delivered" => received[m] > 0
    /\ \A m \in Local : received[m] = IF state[m] = "delivered" THEN 1 ELSE 0

\* What may keep a delivery open: a subscription that changes, a worker that
\* dies, a lease that runs out under a worker still at work.
Interference ==
    \/ \E s \in Subs : Change(s)
    \/ \E w \in Workers : Abandon(w)
    \/ \E m \in Deliveries : LeaseExpires(m) /\ \E w \in Workers : worker[w].job = m

\* Once interference ends every pending delivery leaves the queue, those that a
\* crash left under a lease and those that wait for a retry included.
DeliverySettles ==
    <>[][~Interference]_outbox =>
       \A m \in Deliveries : state[m] = "pending" ~> state[m] # "pending"

\* A settled delivery is never reopened; only retention removes it.
SettledStays ==
    [][\A m \in Deliveries : state[m] \in Settled =>
         state'[m] \in {state[m], "deleted"}]_outbox
=============================================================================
