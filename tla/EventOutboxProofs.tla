------------------------- MODULE EventOutboxProofs -------------------------
(***************************************************************************)
(* The outbox's safety properties, for any number of deliveries,           *)
(* subscriptions, revisions and workers.                                   *)
(***************************************************************************)
EXTENDS EventPublisher, TLAPS

\* A lease token is held only on a pending row.
TokenPending == \A m \in Deliveries : token[m] # None => state[m] = "pending"

\* No message is ahead of its subscription.
RevisionKnown == \A m \in Webhooks : revision[m] <= subRev[Sub[m]]

\* What a worker has in hand.  In particular an attempt that found its
\* subscription paused, revised or deleted no longer holds the lease, for the
\* change revoked it.
Attempts ==
    \A w \in Workers :
       /\ worker[w].pc # "idle" => worker[w].job \in Deliveries
       /\ worker[w].pc \in {"checking", "sending", "finishing"} => worker[w].job \in Webhooks
       /\ worker[w].pc = "finishing" /\ worker[w].code = "ok" => received[worker[w].job] > 0
       /\ worker[w].pc = "finishing" /\ worker[w].code \in {"paused", "cancelled"} =>
             token[worker[w].job] # w

Inv ==
    /\ TypeOK /\ SubscriptionGoverns /\ DeliveredReceived
    /\ TokenPending /\ RevisionKnown /\ Attempts

\* Zenon proves most leaves; those on arithmetic and records name SMT.
USE ZenonT(20), DestinationsAssumption, NoneAssumption, RevisionAssumption DEF Deliveries

\* The initial outbox is empty and satisfies the invariant.
LEMMA InitInv == Init => Inv
  BY SMT DEF Init, Inv, TypeOK, SubscriptionGoverns, DeliveredReceived, TokenPending,
         RevisionKnown, Attempts, Idle, Slots, Codes, Open, Settled, Active, Exists

\* A capture writes pending rows only for active subscriptions, at their
\* present revision.
LEMMA CaptureInv ==
    ASSUME Inv, NEW ms \in SUBSET Deliveries, Capture(ms)
    PROVE  Inv'
<1> USE DEF Capture, Insert, Frozen, CapturedState, Capturable, Exists
<1>1. TypeOK'
  BY DEF Inv, TypeOK, Open, subscriptions
<1>2. SubscriptionGoverns'
  BY DEF Inv, SubscriptionGoverns, Active, subscriptions
<1>3. DeliveredReceived'
  BY DEF Inv, DeliveredReceived
<1>4. TokenPending'
  BY DEF Inv, TokenPending
<1>5. RevisionKnown'
  BY SMT DEF Inv, TypeOK, RevisionKnown, subscriptions
<1>6. Attempts'
  BY DEF Inv, Attempts
<1> QED
  BY <1>1, <1>2, <1>3, <1>4, <1>5, <1>6 DEF Inv

\* A claim takes a ready row, which is pending.
LEMMA ClaimInv ==
    ASSUME Inv, NEW w \in Workers, NEW m \in Deliveries, Claim(w, m)
    PROVE  Inv'
<1> USE DEF Claim, Ready, Idle, messages, subscriptions
<1>1. TypeOK'
  BY SMT DEF Inv, TypeOK, Slots
<1>2. SubscriptionGoverns'
  BY DEF Inv, SubscriptionGoverns, Active, Exists
<1>3. DeliveredReceived'
  BY DEF Inv, DeliveredReceived
<1>4. TokenPending'
  BY SMT DEF Inv, TokenPending
<1>5. RevisionKnown'
  BY DEF Inv, RevisionKnown
<1>6. Attempts'
  BY SMT DEF Inv, Attempts
<1> QED
  BY <1>1, <1>2, <1>3, <1>4, <1>5, <1>6 DEF Inv

\* A result counts only under a live lease of its own attempt; a paused or
\* cancelled one never does.
LEMMA FinishInv ==
    ASSUME Inv, NEW w \in Workers, Finish(w)
    PROVE  Inv'
<1> USE DEF Finish, HoldsLease, FinishRow, StateAfter, Idle, rows, messages, subscriptions
<1>1. TypeOK'
  BY SMT DEF Inv, TypeOK, Slots, Codes, Open, Settled
<1>2. SubscriptionGoverns'
  BY SMT DEF Inv, TypeOK, SubscriptionGoverns, Attempts, Active, Exists
<1>3. DeliveredReceived'
  BY SMT DEF Inv, TypeOK, DeliveredReceived, Attempts, Slots, Codes
<1>4. TokenPending'
  BY DEF Inv, TypeOK, TokenPending
<1>5. RevisionKnown'
  BY DEF Inv, RevisionKnown
<1>6. Attempts'
  BY SMT DEF Inv, TypeOK, Attempts
<1> QED
  BY <1>1, <1>2, <1>3, <1>4, <1>5, <1>6 DEF Inv

\* Retry reopens only blocked or waiting rows of an active subscription.
LEMMA RetryInv ==
    ASSUME Inv, NEW m \in Deliveries, Retry(m)
    PROVE  Inv'
<1> USE DEF Retry, Retryable, messages, subscriptions
<1>1. TypeOK'
  BY DEF Inv, TypeOK, Open
<1>2. SubscriptionGoverns'
  BY SMT DEF Inv, SubscriptionGoverns, Active, Exists
<1>3. DeliveredReceived'
  BY SMT DEF Inv, DeliveredReceived
<1>4. TokenPending'
  BY SMT DEF Inv, TokenPending
<1>5. RevisionKnown'
  BY DEF Inv, RevisionKnown
<1>6. Attempts'
  BY SMT DEF Inv, Attempts
<1> QED
  BY <1>1, <1>2, <1>3, <1>4, <1>5, <1>6 DEF Inv

\* A transactional delivery receives and acknowledges together.
LEMMA DeliverLocalInv ==
    ASSUME Inv, NEW w \in Workers, DeliverLocal(w)
    PROVE  Inv'
<1> USE DEF DeliverLocal, HoldsLease, FinishRow, StateAfter, Receive, Idle, rows, messages,
            subscriptions
<1>1. TypeOK'
  BY SMT DEF Inv, TypeOK, Slots, Codes, Open, Settled
<1>2. SubscriptionGoverns'
  BY SMT DEF Inv, TypeOK, SubscriptionGoverns, Active, Exists
<1>3. DeliveredReceived'
  BY SMT DEF Inv, TypeOK, DeliveredReceived, Attempts, Slots, Open, Codes
<1>4. TokenPending'
  BY DEF Inv, TypeOK, TokenPending
<1>5. RevisionKnown'
  BY DEF Inv, RevisionKnown
<1>6. Attempts'
  BY SMT DEF Inv, TypeOK, Attempts
<1> QED
  BY <1>1, <1>2, <1>3, <1>4, <1>5, <1>6 DEF Inv

\* Reading the message changes the worker only.
LEMMA ReadMessageInv ==
    ASSUME Inv, NEW w \in Workers, ReadMessage(w)
    PROVE  Inv'
<1> USE DEF ReadMessage, Conclude, Proceed, rows, messages, subscriptions
<1>1. TypeOK'
  BY SMT DEF Inv, TypeOK, Slots, Settled
<1>2. SubscriptionGoverns'
  BY DEF Inv, SubscriptionGoverns, Active, Exists
<1>3. DeliveredReceived'
  BY DEF Inv, DeliveredReceived
<1>4. TokenPending'
  BY DEF Inv, TokenPending
<1>5. RevisionKnown'
  BY DEF Inv, RevisionKnown
<1>6. Attempts'
  BY SMT DEF Inv, TypeOK, Attempts, Slots
<1> QED
  BY <1>1, <1>2, <1>3, <1>4, <1>5, <1>6 DEF Inv

\* A worker that holds the lease finds its subscription active.
LEMMA ReadSubscriptionInv ==
    ASSUME Inv, NEW w \in Workers, ReadSubscription(w)
    PROVE  Inv'
<1> USE DEF ReadSubscription, Conclude, Proceed, rows, messages, subscriptions
<1>1. TypeOK'
  BY SMT DEF Inv, TypeOK, Slots, Open, Settled
<1>2. SubscriptionGoverns'
  BY DEF Inv, SubscriptionGoverns, Active, Exists
<1>3. DeliveredReceived'
  BY DEF Inv, DeliveredReceived
<1>4. TokenPending'
  BY DEF Inv, TokenPending
<1>5. RevisionKnown'
  BY DEF Inv, RevisionKnown
<1>6. Attempts'
  <2>1. worker[w].job \in Webhooks
    BY DEF Inv, Attempts
  <2>2. ASSUME token[worker[w].job] = w
        PROVE  /\ Active(Sub[worker[w].job])
               /\ revision[worker[w].job] = subRev[Sub[worker[w].job]]
    BY <2>1, <2>2 DEF Inv, TokenPending, SubscriptionGoverns
  <2>3. ASSUME worker'[w].code \in {"paused", "cancelled"}, worker'[w].pc = "finishing"
        PROVE  token[worker[w].job] # w
    BY SMT, <2>1, <2>2, <2>3 DEF Inv, TypeOK, Slots, Active, Exists
  <2>4. worker'[w].job = worker[w].job /\ worker'[w].pc \in {"sending", "finishing"}
    BY SMT DEF Inv, TypeOK, Slots
  <2>5. worker'[w].code # "ok" \/ worker'[w].pc # "finishing"
    BY SMT DEF Inv, TypeOK, Slots
  <2>6. \A v \in Workers : v # w => worker'[v] = worker[v]
    BY DEF Inv, TypeOK
  <2>7. token' = token /\ received' = received
    OBVIOUS
  <2> HIDE DEF ReadSubscription
  <2> QED
    BY <2>1, <2>3, <2>4, <2>5, <2>6, <2>7 DEF Inv, Attempts
<1> QED
  BY <1>1, <1>2, <1>3, <1>4, <1>5, <1>6 DEF Inv

\* A success is concluded only once the receiver took the event.
LEMMA AcceptedInv ==
    ASSUME Inv, NEW w \in Workers, NEW code \in {"ok", "retry"}, Accepted(w, code)
    PROVE  Inv'
<1> USE DEF Accepted, Receive, Conclude, rows, messages, subscriptions
<1>1. TypeOK'
  <2> DEFINE times == IF worker[w].job \in Local /\ received[worker[w].job] > 0 THEN 2 ELSE 1
  <2>1. received' = [received EXCEPT ![worker[w].job] = times]
    BY DEF Inv
  <2>2. received' \in [Deliveries -> 0 .. 2]
    <3>1. times \in 0 .. 2
      BY SMT
    <3> HIDE DEF times, Accepted, Receive
    <3> QED
      BY <2>1, <3>1 DEF Inv, TypeOK
  <2> HIDE DEF Receive
  <2>3. worker' \in [Workers -> Slots]
    <3>1. code \in Codes
      BY DEF Codes
    <3>2. [worker[w] EXCEPT !.pc = "finishing", !.code = code] \in Slots
      <4>1. worker[w] \in Slots
        BY DEF Inv, TypeOK
      <4> HIDE DEF Accepted
      <4> QED
        BY <3>1, <4>1 DEF Slots
    <3>3. worker' = [worker EXCEPT ![w] = [worker[w] EXCEPT !.pc = "finishing", !.code = code]]
      BY DEF Inv, TypeOK, Slots
    <3> HIDE DEF Accepted
    <3> QED
      BY <3>2, <3>3 DEF Inv, TypeOK
  <2>4. UNCHANGED <<rows, messages, subscriptions>>
    OBVIOUS
  <2> HIDE DEF Accepted
  <2> QED
    BY <2>2, <2>3, <2>4 DEF Inv, TypeOK
<1>2. SubscriptionGoverns'
  BY DEF Inv, SubscriptionGoverns, Active, Exists
<1>3. DeliveredReceived'
  BY SMT DEF Inv, DeliveredReceived, Attempts
<1>4. TokenPending'
  BY DEF Inv, TokenPending
<1>5. RevisionKnown'
  BY DEF Inv, RevisionKnown
<1>6. Attempts'
  BY SMT DEF Inv, TypeOK, Attempts
<1> QED
  BY <1>1, <1>2, <1>3, <1>4, <1>5, <1>6 DEF Inv

\* A failure changes the worker only.
LEMMA NotAcceptedInv ==
    ASSUME Inv, NEW w \in Workers, NotAccepted(w)
    PROVE  Inv'
<1> USE DEF NotAccepted, Conclude, rows, messages, subscriptions
<1>1. TypeOK'
  BY SMT DEF Inv, TypeOK, Slots
<1>2. SubscriptionGoverns'
  BY DEF Inv, SubscriptionGoverns, Active, Exists
<1>3. DeliveredReceived'
  BY DEF Inv, DeliveredReceived
<1>4. TokenPending'
  BY DEF Inv, TokenPending
<1>5. RevisionKnown'
  BY DEF Inv, RevisionKnown
<1>6. Attempts'
  BY SMT DEF Inv, TypeOK, Attempts, SubscriptionGoverns, TokenPending, Slots, Codes
<1> QED
  BY <1>1, <1>2, <1>3, <1>4, <1>5, <1>6 DEF Inv

\* A crash leaves the rows, and the lease, as they are.
LEMMA AbandonInv ==
    ASSUME Inv, NEW w \in Workers, Abandon(w)
    PROVE  Inv'
<1> USE DEF Abandon, Idle, rows, messages, subscriptions
<1>1. TypeOK'
  BY DEF Inv, TypeOK, Slots, Codes
<1>2. SubscriptionGoverns'
  BY DEF Inv, SubscriptionGoverns, Active, Exists
<1>3. DeliveredReceived'
  BY DEF Inv, DeliveredReceived
<1>4. TokenPending'
  BY DEF Inv, TokenPending
<1>5. RevisionKnown'
  BY DEF Inv, RevisionKnown
<1>6. Attempts'
  BY SMT DEF Inv, Attempts
<1> QED
  BY <1>1, <1>2, <1>3, <1>4, <1>5, <1>6 DEF Inv

\* The end of a lease changes no state.
LEMMA LeaseExpiresInv ==
    ASSUME Inv, NEW m \in Deliveries, LeaseExpires(m)
    PROVE  Inv'
<1> USE DEF LeaseExpires, messages, subscriptions
<1>1. TypeOK'
  BY DEF Inv, TypeOK
<1>2. SubscriptionGoverns'
  BY DEF Inv, SubscriptionGoverns, Active, Exists
<1>3. DeliveredReceived'
  BY DEF Inv, DeliveredReceived
<1>4. TokenPending'
  BY DEF Inv, TokenPending
<1>5. RevisionKnown'
  BY DEF Inv, RevisionKnown
<1>6. Attempts'
  BY DEF Inv, Attempts
<1> QED
  BY <1>1, <1>2, <1>3, <1>4, <1>5, <1>6 DEF Inv

\* The end of a delay changes no state.
LEMMA DelayElapsesInv ==
    ASSUME Inv, NEW m \in Deliveries, DelayElapses(m)
    PROVE  Inv'
<1> USE DEF DelayElapses, messages, subscriptions
<1>1. TypeOK'
  BY DEF Inv, TypeOK
<1>2. SubscriptionGoverns'
  BY DEF Inv, SubscriptionGoverns, Active, Exists
<1>3. DeliveredReceived'
  BY DEF Inv, DeliveredReceived
<1>4. TokenPending'
  BY DEF Inv, TokenPending
<1>5. RevisionKnown'
  BY DEF Inv, RevisionKnown
<1>6. Attempts'
  BY DEF Inv, Attempts
<1> QED
  BY <1>1, <1>2, <1>3, <1>4, <1>5, <1>6 DEF Inv

\* The end of a payload's retention changes no row.
LEMMA MessageExpiresInv ==
    ASSUME Inv, NEW m \in Webhooks, MessageExpires(m)
    PROVE  Inv'
<1> USE DEF MessageExpires, rows, messages, subscriptions
<1>1. TypeOK'
  BY DEF Inv, TypeOK
<1>2. SubscriptionGoverns'
  BY DEF Inv, SubscriptionGoverns, Active, Exists
<1>3. DeliveredReceived'
  BY DEF Inv, DeliveredReceived
<1>4. TokenPending'
  BY DEF Inv, TokenPending
<1>5. RevisionKnown'
  BY DEF Inv, RevisionKnown
<1>6. Attempts'
  BY DEF Inv, Attempts
<1> QED
  BY <1>1, <1>2, <1>3, <1>4, <1>5, <1>6 DEF Inv

\* A new subscription has no deliveries.
LEMMA CreateInv ==
    ASSUME Inv, NEW s \in Subs, Create(s)
    PROVE  Inv'
<1> USE DEF Create, rows, messages
<1>1. TypeOK'
  BY SMT DEF Inv, TypeOK
<1>2. SubscriptionGoverns'
  BY SMT DEF Inv, SubscriptionGoverns, RevisionKnown, Active, Exists
<1>3. DeliveredReceived'
  BY DEF Inv, DeliveredReceived
<1>4. TokenPending'
  BY DEF Inv, TokenPending
<1>5. RevisionKnown'
  BY SMT DEF Inv, TypeOK, RevisionKnown
<1>6. Attempts'
  BY DEF Inv, Attempts
<1> QED
  BY <1>1, <1>2, <1>3, <1>4, <1>5, <1>6 DEF Inv

\* A new revision leaves every open delivery paused at an older one.
LEMMA UpdateInv ==
    ASSUME Inv, NEW s \in Subs, Update(s)
    PROVE  Inv'
<1> USE DEF Update, DeliveryState, Selected, OpenOf, Move, messages
<1>1. TypeOK'
  BY SMT DEF Inv, TypeOK, Open
<1>2. SubscriptionGoverns'
  BY SMT DEF Inv, TypeOK, SubscriptionGoverns, RevisionKnown, Open, Active, Exists
<1>3. DeliveredReceived'
  BY DEF Inv, DeliveredReceived
<1>4. TokenPending'
  BY DEF Inv, TokenPending
<1>5. RevisionKnown'
  BY SMT DEF Inv, TypeOK, RevisionKnown
<1>6. Attempts'
  BY DEF Inv, Attempts
<1> QED
  BY <1>1, <1>2, <1>3, <1>4, <1>5, <1>6 DEF Inv

\* Each administrative action moves the open deliveries with the
\* subscription.
LEMMA SetStateInv ==
    ASSUME Inv, NEW s \in Subs, NEW action \in Actions, SetState(s, action)
    PROVE  Inv'
<1> USE DEF SetState, Actions, DeliveryState, Selected, OpenOf, Move, messages
<1>1. TypeOK'
  BY DEF Inv, TypeOK, Open, Settled
<1>2. SubscriptionGoverns'
  BY DEF Inv, SubscriptionGoverns, Open, Active, Exists
<1>3. DeliveredReceived'
  BY DEF Inv, DeliveredReceived
<1>4. TokenPending'
  BY DEF Inv, TokenPending
<1>5. RevisionKnown'
  BY DEF Inv, RevisionKnown
<1>6. Attempts'
  BY DEF Inv, Attempts
<1> QED
  BY <1>1, <1>2, <1>3, <1>4, <1>5, <1>6 DEF Inv

\* Retention closes or removes webhook deliveries only.
LEMMA PruneInv ==
    ASSUME Inv, NEW old \in SUBSET expired, Prune(old)
    PROVE  Inv'
<1> USE DEF Prune, messages, subscriptions
<1>1. TypeOK'
  BY DEF Inv, TypeOK, Settled
<1>2. SubscriptionGoverns'
  BY DEF Inv, SubscriptionGoverns, Open, Active, Exists
<1>3. DeliveredReceived'
  BY DEF Inv, TypeOK, DeliveredReceived
<1>4. TokenPending'
  BY DEF Inv, TokenPending
<1>5. RevisionKnown'
  BY DEF Inv, RevisionKnown
<1>6. Attempts'
  BY DEF Inv, Attempts
<1> QED
  BY <1>1, <1>2, <1>3, <1>4, <1>5, <1>6 DEF Inv

\* Every step of the outbox preserves the invariant.
LEMMA NextInv == Inv /\ [Next]_outbox => Inv'
<1> SUFFICES ASSUME Inv, [Next]_outbox
             PROVE  Inv'
  OBVIOUS
<1>1. CASE \E ms \in SUBSET Deliveries : Capture(ms)
  BY <1>1, CaptureInv
<1>2. CASE \E w \in Workers : Work(w) \/ Abandon(w)
  BY <1>2, ClaimInv, DeliverLocalInv, ReadMessageInv, ReadSubscriptionInv, AcceptedInv,
     NotAcceptedInv, FinishInv, AbandonInv DEF Work
<1>3. CASE \E s \in Subs : Change(s)
  BY <1>3, CreateInv, UpdateInv, SetStateInv DEF Change
<1>4. CASE \E m \in Deliveries : Retry(m)
  BY <1>4, RetryInv
<1>5. CASE Time
  BY <1>5, LeaseExpiresInv, DelayElapsesInv, MessageExpiresInv, PruneInv DEF Time
<1>6. CASE UNCHANGED outbox
  BY <1>6 DEF outbox, rows, messages, subscriptions, Inv, TypeOK, SubscriptionGoverns,
     DeliveredReceived, TokenPending, RevisionKnown, Attempts, Active, Exists
<1> QED
  BY <1>1, <1>2, <1>3, <1>4, <1>5, <1>6 DEF Next

\* The invariant holds throughout.
LEMMA Invariance == Spec => []Inv
  BY InitInv, NextInv, PTL DEF Spec

\* Every reachable outbox is well typed (event_deliveries, webhook_messages,
\* webhook_subscriptions and the workers).
THEOREM OutboxTypes == Spec => []TypeOK
<1>1. Inv => TypeOK
  BY DEF Inv
<1> QED
  BY <1>1, Invariance, PTL

\* Open deliveries follow their subscription however attempts, administrative
\* actions and lease expiries interleave.
THEOREM Governed == Spec => []SubscriptionGoverns
<1>1. Inv => SubscriptionGoverns
  BY DEF Inv
<1> QED
  BY <1>1, Invariance, PTL

\* Finish acknowledges nothing that was not received, and the audit store holds
\* each acknowledged event once.
THEOREM Acknowledged == Spec => []DeliveredReceived
<1>1. Inv => DeliveredReceived
  BY DEF Inv
<1> QED
  BY <1>1, Invariance, PTL

\* No late result, retry or administrative action reopens a settled delivery.
LEMMA SettledStep ==
    ASSUME Inv, [Next]_outbox, NEW m \in Deliveries, state[m] \in Settled
    PROVE  state'[m] \in {state[m], "deleted"}
<1> USE DEF Settled
<1>1. CASE \E ms \in SUBSET Deliveries : Capture(ms)
  BY <1>1 DEF Capture, Insert, Frozen, Capturable
<1>2. CASE \E w \in Workers : Work(w) \/ Abandon(w)
  <2> PICK w \in Workers : Work(w) \/ Abandon(w)
    BY <1>2
  <2>1. CASE Finish(w) \/ DeliverLocal(w)
    BY <2>1 DEF Finish, DeliverLocal, HoldsLease, FinishRow, rows, Inv, TypeOK
  <2>2. CASE ~(Finish(w) \/ DeliverLocal(w))
    BY <2>2 DEF Work, Claim, ReadMessage, ReadSubscription, Accepted, NotAccepted,
       Abandon, rows
  <2> QED
    BY <2>1, <2>2
<1>3. CASE \E s \in Subs : Change(s)
  BY <1>3 DEF Change, Create, Update, SetState, DeliveryState, Selected, OpenOf, Move,
     Open, rows
<1>4. CASE \E n \in Deliveries : Retry(n)
  BY <1>4 DEF Retry, Retryable, Inv, TypeOK
<1>5. CASE Time
  BY <1>5 DEF Time, LeaseExpires, DelayElapses, MessageExpires, Prune, rows, Open
<1>6. CASE UNCHANGED outbox
  BY <1>6 DEF outbox, rows
<1> QED
  BY <1>1, <1>2, <1>3, <1>4, <1>5, <1>6 DEF Next

\* A settled delivery stays settled, as a property of every step.
THEOREM SettledForGood == Spec => SettledStays
<1>1. Inv /\ [Next]_outbox =>
        [\A m \in Deliveries : state[m] \in Settled => state'[m] \in {state[m], "deleted"}]_outbox
  BY SettledStep
<1> QED
  BY <1>1, Invariance, PTL DEF Spec, SettledStays

(***************************************************************************)
(* A state the outbox gives a delivery has its reason at that moment: what *)
(* a worker read before its request is never applied once it is outdated.  *)
(***************************************************************************)
Present(m) == Active(Sub[m]) /\ revision[m] = subRev[Sub[m]]

JustifiedMove(m) ==
    /\ state'[m] = "delivered" => /\ state[m] = "pending" /\ received'[m] > 0
                                  /\ m \in Webhooks => Present(m)
    /\ state'[m] = "blocked" => state[m] = "pending" /\ m \in Webhooks /\ Present(m)
    /\ state'[m] = "cancelled" => m \in Webhooks /\ Sub[m] \in removed'
    /\ state'[m] = "expired" => m \in expired
    /\ state'[m] = "paused" => m \in Webhooks /\ ~Present(m)'
Justified == \A m \in Deliveries : state'[m] # state[m] => JustifiedMove(m)

\* What is deleted, or concluded to be expired, has expired.
LapsedKnown ==
    /\ \A m \in Deliveries : state[m] = "deleted" => m \in expired
    /\ \A w \in Workers : worker[w].pc = "finishing" /\ worker[w].code = "expired" =>
         worker[w].job \in expired

LEMMA LapsedRests ==
    ASSUME LapsedKnown, expired \subseteq expired', worker' = worker,
           \A m \in Deliveries : state'[m] = "deleted" => state[m] = "deleted" \/ m \in expired
    PROVE  LapsedKnown'
BY DEF LapsedKnown

\* A worker that moves from one stage to another keeps the others' facts.
LEMMA LapsedMoves ==
    ASSUME LapsedKnown, NEW w \in Workers, expired' = expired,
           \A v \in Workers \ {w} : worker'[v] = worker[v],
           worker'[w].pc = "finishing" /\ worker'[w].code = "expired" =>
             worker'[w].job \in expired,
           \A m \in Deliveries : state'[m] = "deleted" => state[m] = "deleted"
    PROVE  LapsedKnown'
<1>1. ASSUME NEW v \in Workers, worker'[v].pc = "finishing", worker'[v].code = "expired"
      PROVE  worker'[v].job \in expired
  <2>1. CASE v = w
    BY <1>1, <2>1
  <2>2. CASE v # w
    <3>1. worker'[v] = worker[v]
      BY <2>2
    <3>2. worker[v].pc = "finishing" /\ worker[v].code = "expired"
      BY <1>1, <3>1
    <3> QED
      BY <3>1, <3>2 DEF LapsedKnown
  <2> QED
    BY <2>1, <2>2
<1> QED
  BY <1>1 DEF LapsedKnown

LEMMA IdleMoves ==
    ASSUME Inv, NEW w \in Workers, worker' = [worker EXCEPT ![w] = Idle]
    PROVE  /\ worker'[w].pc # "finishing"
           /\ \A v \in Workers \ {w} : worker'[v] = worker[v]
<1>1. worker \in [Workers -> Slots] /\ Idle.pc # "finishing"
  BY SMT DEF Inv, TypeOK, Idle
<1> QED
  BY <1>1

LEMMA FinishKeepsDeleted ==
    ASSUME Inv, NEW m \in Deliveries, NEW code \in Codes, FinishRow(m, code)
    PROVE  \A n \in Deliveries : state'[n] = "deleted" => state[n] = "deleted"
<1>1. StateAfter(code) # "deleted"
  BY DEF StateAfter, Codes
<1> QED
  BY <1>1 DEF FinishRow, Inv, TypeOK

LEMMA LapsedStep ==
    ASSUME Inv, LapsedKnown, [Next]_outbox PROVE LapsedKnown'
<1>0. worker \in [Workers -> Slots] /\ Attempts
  BY DEF Inv, TypeOK
<1>1. ASSUME NEW ms \in SUBSET Deliveries, Capture(ms) PROVE LapsedKnown'
  BY <1>1, LapsedRests DEF Capture, Insert, Frozen, CapturedState
<1>2. ASSUME NEW w \in Workers, Work(w) \/ Abandon(w) PROVE LapsedKnown'
  <2>0. worker[w] \in Slots
    BY <1>0
  <2>1. CASE Abandon(w)
    BY <2>1, LapsedMoves, IdleMoves DEF Abandon, rows, messages
  <2>2. CASE Finish(w)
    <3>1. worker[w].job \in Deliveries /\ worker[w].code \in Codes
      BY <1>0, <2>0, <2>2 DEF Finish, Attempts, Slots
    <3>2. \A n \in Deliveries : state'[n] = "deleted" => state[n] = "deleted"
      BY <2>2, <3>1, FinishKeepsDeleted DEF Finish, rows
    <3> QED
      BY <2>2, <3>2, LapsedMoves, IdleMoves DEF Finish, messages
  <2>3. CASE DeliverLocal(w)
    <3>1. worker[w].job \in Deliveries /\ "ok" \in Codes
      BY <2>3 DEF DeliverLocal, Codes
    <3>2. \A n \in Deliveries : state'[n] = "deleted" => state[n] = "deleted"
      BY <2>3, <3>1, FinishKeepsDeleted DEF DeliverLocal, rows
    <3> QED
      BY <2>3, <3>2, LapsedMoves, IdleMoves DEF DeliverLocal, messages
  <2>4. ASSUME NEW m \in Deliveries, Claim(w, m) PROVE LapsedKnown'
    <3>1. worker'[w].pc # "finishing" /\ \A v \in Workers \ {w} : worker'[v] = worker[v]
      BY SMT, <1>0, <2>4 DEF Claim
    <3> QED
      BY <2>4, <3>1, LapsedMoves DEF Claim, messages
  <2>5. ASSUME NEW code, Conclude(w, code), UNCHANGED <<rows, messages>>,
               code = "expired" => worker[w].job \in expired
        PROVE  LapsedKnown'
    <3>1. /\ worker'[w].code = code /\ worker'[w].job = worker[w].job
          /\ \A v \in Workers \ {w} : worker'[v] = worker[v]
      BY SMT, <1>0, <2>0, <2>5 DEF Conclude, Slots
    <3> QED
      BY <2>5, <3>1, LapsedMoves DEF rows, messages
  <2>6. ASSUME NEW pc, Proceed(w, pc), pc # "finishing", UNCHANGED <<rows, messages>>
        PROVE  LapsedKnown'
    <3>1. worker'[w].pc = pc /\ \A v \in Workers \ {w} : worker'[v] = worker[v]
      BY SMT, <1>0, <2>0, <2>6 DEF Proceed, Slots
    <3> QED
      BY <2>6, <3>1, LapsedMoves DEF rows, messages
  <2>7. CASE ReadMessage(w)
    BY <2>5, <2>6, <2>7 DEF ReadMessage, LapsedKnown
  <2>8. CASE ReadSubscription(w)
    BY <2>5, <2>6, <2>8 DEF ReadSubscription
  <2>9. ASSUME NEW code \in {"ok", "retry"}, Accepted(w, code) PROVE LapsedKnown'
    BY <2>5, <2>9 DEF Accepted
  <2>10. CASE NotAccepted(w)
    BY <2>5, <2>10 DEF NotAccepted
  <2> QED
    BY <1>2, <2>1, <2>2, <2>3, <2>4, <2>7, <2>8, <2>9, <2>10 DEF Work
<1>3. ASSUME NEW s \in Subs, Change(s) PROVE LapsedKnown'
  <2>1. Create(s) \/ Update(s) => LapsedKnown'
    BY LapsedRests DEF Create, Update, DeliveryState, Move, rows, messages
  <2>2. ASSUME NEW action \in Actions, SetState(s, action) PROVE LapsedKnown'
    BY <2>2, LapsedRests DEF SetState, DeliveryState, Move, messages
  <2> QED
    BY <1>3, <2>1, <2>2 DEF Change
<1>4. ASSUME NEW m \in Deliveries, Retry(m) PROVE LapsedKnown'
  BY <1>4, LapsedRests DEF Retry, messages, Inv, TypeOK
<1>5. CASE Time
  BY <1>5, LapsedRests
  DEF Time, LeaseExpires, DelayElapses, MessageExpires, Prune, rows, messages
<1>6. CASE UNCHANGED outbox
  BY <1>6, LapsedRests DEF outbox, rows, messages
<1> QED
  BY <1>1, <1>2, <1>3, <1>4, <1>5, <1>6 DEF Next

LEMMA FinishJustified ==
    ASSUME Inv, LapsedKnown, NEW w \in Workers, Finish(w) PROVE Justified
<1> SUFFICES ASSUME NEW m \in Deliveries, state'[m] # state[m] PROVE JustifiedMove(m)
  BY DEF Justified
<1>1. HoldsLease(w) /\ FinishRow(worker[w].job, worker[w].code) /\ received' = received
  BY DEF Finish, rows
<1>2. m = worker[w].job /\ state'[m] = StateAfter(worker[w].code) /\ state[m] = "pending"
  BY <1>1 DEF FinishRow, HoldsLease, Inv, TypeOK
<1>3. m \in Webhooks /\ Present(m)
  BY <1>2 DEF Finish, Inv, Attempts, SubscriptionGoverns, Present
<1>4. worker[w].code \in Codes /\ worker[w].code \notin {"paused", "cancelled"}
  BY <1>1, <1>2 DEF Finish, HoldsLease, Inv, Attempts, TypeOK, Slots
<1>5. /\ worker[w].code = "ok" => received[m] > 0
      /\ worker[w].code = "expired" => m \in expired
  BY <1>2 DEF Finish, Inv, Attempts, LapsedKnown
<1>6. /\ state'[m] = "delivered" => worker[w].code = "ok"
      /\ state'[m] = "expired" => worker[w].code = "expired"
      /\ state'[m] \notin {"cancelled", "paused"}
  BY <1>2, <1>4 DEF StateAfter, Codes
<1> QED
  BY <1>1, <1>2, <1>3, <1>5, <1>6 DEF JustifiedMove

LEMMA LocalJustified ==
    ASSUME Inv, NEW w \in Workers, DeliverLocal(w) PROVE Justified
<1> SUFFICES ASSUME NEW m \in Deliveries, state'[m] # state[m] PROVE JustifiedMove(m)
  BY DEF Justified
<1>1. HoldsLease(w) /\ FinishRow(worker[w].job, "ok") /\ Receive(worker[w].job)
  BY DEF DeliverLocal, rows
<1>2. m = worker[w].job /\ state'[m] = "delivered" /\ state[m] = "pending" /\ m \notin Webhooks
  BY <1>1 DEF DeliverLocal, FinishRow, StateAfter, HoldsLease, Inv, TypeOK
<1>3. received'[m] > 0
  BY SMT, <1>1, <1>2 DEF Receive, Inv, TypeOK
<1> QED
  BY <1>2, <1>3 DEF JustifiedMove

LEMMA ChangeJustified ==
    ASSUME Inv, Inv', NEW s \in Subs, Change(s) PROVE Justified
<1> SUFFICES ASSUME NEW m \in Deliveries, state'[m] # state[m] PROVE JustifiedMove(m)
  BY DEF Justified
<1>1. state'[m] = "paused" /\ m \in Webhooks => ~Present(m)'
  BY DEF Inv, SubscriptionGoverns, Present, Active, Exists
<1>2. CASE Update(s)
  BY <1>1, <1>2 DEF Update, DeliveryState, Move, Selected, OpenOf, JustifiedMove
<1>3. ASSUME NEW action \in Actions, SetState(s, action) PROVE JustifiedMove(m)
  <2>1. PICK st : /\ DeliveryState(s, st) /\ st \in {"pending", "paused", "cancelled"}
                  /\ st = "cancelled" => s \in removed'
    <3>1. CASE action = "delete"
      BY <1>3, <3>1 DEF SetState
    <3>2. CASE action # "delete"
      <4>1. PICK st : /\ st = (IF s \notin disabled' /\ s \notin paused' THEN "pending" ELSE "paused")
                      /\ DeliveryState(s, st)
        BY <1>3, <3>2 DEF SetState
      <4>2. st \in {"pending", "paused"} /\ st # "cancelled"
        BY <4>1
      <4> QED
        BY <4>1, <4>2
    <3> QED
      BY <3>1, <3>2
  <2>2. state'[m] = st /\ m \in Webhooks /\ Sub[m] = s
    BY <2>1 DEF DeliveryState, Move, Selected, OpenOf
  <2> QED
    BY <1>1, <2>1, <2>2 DEF JustifiedMove
<1> QED
  BY <1>2, <1>3 DEF Change, Create, rows

LEMMA StepJustified ==
    ASSUME Inv, Inv', LapsedKnown, [Next]_outbox PROVE Justified
<1>1. CASE state' = state
  BY <1>1 DEF Justified
<1>2. ASSUME NEW ms \in SUBSET Deliveries, Capture(ms) PROVE Justified
  <2> SUFFICES ASSUME NEW m \in Deliveries, state'[m] # state[m] PROVE JustifiedMove(m)
    BY DEF Justified
  <2>1. state'[m] = CapturedState(m)
    BY <1>2 DEF Capture, Insert, Frozen
  <2>2. state'[m] = "paused" /\ m \in Webhooks => ~Present(m)'
    BY DEF Inv, SubscriptionGoverns, Present, Active, Exists
  <2> QED
    BY <2>1, <2>2 DEF CapturedState, JustifiedMove
<1>3. ASSUME NEW w \in Workers, Work(w) \/ Abandon(w), ~Finish(w), ~DeliverLocal(w)
      PROVE  state' = state
  BY <1>3 DEF Work, Claim, ReadMessage, ReadSubscription, Accepted, NotAccepted, Abandon, rows
<1>4. ASSUME NEW n \in Deliveries, Retry(n) PROVE Justified
  BY <1>4 DEF Retry, Inv, TypeOK, Justified, JustifiedMove
<1>5. CASE Time
  BY <1>1, <1>5
  DEF Time, LeaseExpires, DelayElapses, MessageExpires, Prune, rows, Justified, JustifiedMove
<1>6. CASE UNCHANGED outbox
  BY <1>1, <1>6 DEF outbox, rows
<1> QED
  BY <1>1, <1>2, <1>3, <1>4, <1>5, <1>6, FinishJustified, LocalJustified, ChangeJustified DEF Next

\* Whatever a worker found before its request, Finish acknowledges or blocks a
\* delivery only while its subscription is active at that revision, expires it
\* only past its expiry; only a deletion cancels, only a change pauses.
THEOREM OutcomesJustified == Spec => [][Justified]_outbox
<1>1. Init => LapsedKnown
  BY SMT DEF Init, LapsedKnown, Idle
<1>2. Inv /\ LapsedKnown /\ [Next]_outbox => LapsedKnown'
  BY LapsedStep
<1>3. Inv /\ Inv' /\ LapsedKnown /\ [Next]_outbox => [Justified]_outbox
  BY StepJustified
<1> QED
  BY <1>1, <1>2, <1>3, Invariance, PTL DEF Spec

(***************************************************************************)
(* The producers.  A unit of work writes, at its commit, exactly the rows  *)
(* that Capture would write then.                                          *)
(***************************************************************************)
InUnit == tx.phase \in {"open", "publish"}
NoRows == [m \in {} |-> None]

\* The fields of a unit of work, and the deliveries it holds.
Shape ==
    /\ tx = [phase |-> tx.phase, op |-> tx.op, work |-> tx.work, saved |-> tx.saved,
             poisoned |-> tx.poisoned, deny |-> tx.deny]
    /\ tx.work = [wrote |-> tx.work.wrote, event |-> tx.work.event,
                  rows |-> tx.work.rows, notify |-> tx.work.notify]
    /\ tx.work.wrote \in BOOLEAN
    /\ DOMAIN tx.work.rows \subseteq Deliveries

\* Before it publishes a unit of work holds no rows.
Unpublished ==
    InUnit =>
       /\ tx.phase = "publish" => tx.work.wrote
       /\ tx.phase = "publish" \/ ~tx.work.wrote => tx.work.rows = NoRows

\* An event is published once, so the rows before a savepoint are the present
\* ones or none.
Saved ==
    InUnit /\ tx.saved # << >> =>
       /\ tx.saved[1] = [wrote |-> tx.saved[1].wrote, event |-> tx.saved[1].event,
                         rows |-> tx.saved[1].rows, notify |-> tx.saved[1].notify]
       /\ tx.saved[1].wrote \in BOOLEAN
       /\ tx.saved[1].rows \in {tx.work.rows, NoRows}
       /\ ~tx.saved[1].wrote => tx.saved[1].rows = NoRows

\* Only a captured message expires.
ExpiredCaptured == \A m \in expired : state[m] # "absent"

UnitInv == Shape /\ Unpublished /\ Saved /\ StillFrozen
PublisherInv == Inv /\ ExpiredCaptured /\ UnitInv

\* The empty capture.
LEMMA NoRowsFrozen == NoRows = Frozen({}) /\ DOMAIN NoRows = {}
  BY DEF NoRows, Frozen

\* The rows held stay frozen while the outbox does not move.
LEMMA FrozenStutter ==
    ASSUME UNCHANGED outbox, NEW ms
    PROVE  Frozen(ms)' = Frozen(ms) /\ \A m : Capturable(m)' = Capturable(m)
  BY DEF outbox, rows, messages, subscriptions, Frozen, CapturedState, Capturable,
     Exists

\* A unit of work that keeps its rows, or holds none, keeps them frozen while
\* the outbox does not move.
LEMMA RowsKept ==
    ASSUME StillFrozen, InUnit, UNCHANGED outbox, tx'.work.rows \in {tx.work.rows, NoRows}
    PROVE  StillFrozen'
<1>1. CASE tx'.work.rows = tx.work.rows
  <2>1. /\ tx.work.rows = Frozen(DOMAIN tx.work.rows)
        /\ \A m \in DOMAIN tx.work.rows : Capturable(m)
    BY DEF StillFrozen, InUnit
  <2>2. Frozen(DOMAIN tx.work.rows)' = Frozen(DOMAIN tx.work.rows)
    BY <1>1 DEF outbox, rows, messages, subscriptions, Frozen, CapturedState, Exists
  <2>3. \A m : Capturable(m)' = Capturable(m)
    BY FrozenStutter
  <2> QED
    BY <1>1, <2>1, <2>2, <2>3 DEF StillFrozen
<1>2. CASE tx'.work.rows = NoRows
  BY <1>2 DEF StillFrozen, NoRows, Frozen
<1> QED
  BY <1>1, <1>2

\* A new unit of work holds nothing.
LEMMA BeginUnit ==
    ASSUME UnitInv, NEW o \in Operations, Begin(o)
    PROVE  UnitInv' /\ UNCHANGED outbox
<1>1. tx'.phase = "open" /\ tx'.work.rows = NoRows /\ ~tx'.work.wrote /\ tx'.saved = << >>
  BY DEF UnitInv, Begin, NoUnit, Nothing, NoRows, Shape
<1>2. UNCHANGED outbox
  BY DEF Begin
<1>3. Shape'
  BY NoRowsFrozen, <1>1 DEF UnitInv, Begin, NoUnit, Nothing, NoRows, Shape
<1>4. StillFrozen'
  BY <1>1 DEF StillFrozen, NoRows, Frozen
<1>5. Unpublished'
  BY <1>1, NoRowsFrozen DEF UnitInv, Unpublished, Saved, InUnit, Begin
<1>6. Saved'
  BY <1>1, <1>2 DEF UnitInv, Saved, Shape, Unpublished, InUnit, Begin
<1> QED
  BY <1>2, <1>3, <1>4, <1>5, <1>6 DEF UnitInv

\* The mutation precedes the rows.
LEMMA MutateUnit ==
    ASSUME UnitInv, Mutate
    PROVE  UnitInv' /\ UNCHANGED outbox
<1>1. tx'.phase = "publish" /\ tx'.work.wrote /\ tx'.work.rows = tx.work.rows /\ tx'.saved = tx.saved
  BY DEF UnitInv, Mutate, Shape
<1>2. UNCHANGED outbox
  BY DEF Mutate
<1>3. Shape'
  BY <1>1 DEF UnitInv, Mutate, Shape
<1>4. StillFrozen'
  BY <1>1, <1>2, RowsKept DEF UnitInv, InUnit, Mutate
<1>5. Unpublished'
  BY <1>1, NoRowsFrozen DEF UnitInv, Unpublished, Saved, InUnit, Mutate
<1>6. Saved'
  BY <1>1, <1>2 DEF UnitInv, Saved, Shape, Unpublished, InUnit, Mutate
<1> QED
  BY <1>2, <1>3, <1>4, <1>5, <1>6 DEF UnitInv

\* A failed capture leaves no rows.
LEMMA PublishFailsUnit ==
    ASSUME UnitInv, PublishFails
    PROVE  UnitInv' /\ UNCHANGED outbox
<1>1. tx'.phase = "open" /\ tx'.work = tx.work /\ tx'.saved = tx.saved
  BY DEF UnitInv, PublishFails, Shape
<1>2. UNCHANGED outbox
  BY DEF PublishFails
<1>3. Shape'
  BY <1>1 DEF UnitInv, PublishFails, Shape
<1>4. StillFrozen'
  BY <1>1, <1>2, RowsKept DEF UnitInv, InUnit, PublishFails
<1>5. Unpublished'
  BY <1>1, NoRowsFrozen DEF UnitInv, Unpublished, Saved, InUnit, PublishFails
<1>6. Saved'
  BY <1>1, <1>2 DEF UnitInv, Saved, Shape, Unpublished, InUnit, PublishFails
<1> QED
  BY <1>2, <1>3, <1>4, <1>5, <1>6 DEF UnitInv

\* A denial is no part of the rows.
LEMMA DenyUnit ==
    ASSUME UnitInv, Deny
    PROVE  UnitInv' /\ UNCHANGED outbox
<1>1. tx'.phase = "open" /\ tx'.work = tx.work /\ tx'.saved = tx.saved
  BY DEF UnitInv, Deny, Shape
<1>2. UNCHANGED outbox
  BY DEF Deny
<1>3. Shape'
  BY <1>1 DEF UnitInv, Deny, Shape
<1>4. StillFrozen'
  BY <1>1, <1>2, RowsKept DEF UnitInv, InUnit, Deny
<1>5. Unpublished'
  BY <1>1, NoRowsFrozen DEF UnitInv, Unpublished, Saved, InUnit, Deny
<1>6. Saved'
  BY <1>1, <1>2 DEF UnitInv, Saved, Shape, Unpublished, InUnit, Deny
<1> QED
  BY <1>2, <1>3, <1>4, <1>5, <1>6 DEF UnitInv

\* A savepoint remembers the present rows.
LEMMA SavepointUnit ==
    ASSUME UnitInv, Savepoint
    PROVE  UnitInv' /\ UNCHANGED outbox
<1>1. tx'.phase = "open" /\ tx'.work = tx.work /\ tx'.saved = <<tx.work>>
  BY DEF UnitInv, Savepoint, Shape
<1>2. UNCHANGED outbox
  BY DEF Savepoint
<1>3. Shape'
  BY <1>1 DEF UnitInv, Savepoint, Shape
<1>4. StillFrozen'
  BY <1>1, <1>2, RowsKept DEF UnitInv, InUnit, Savepoint
<1>5. Unpublished'
  BY <1>1, NoRowsFrozen DEF UnitInv, Unpublished, Saved, InUnit, Savepoint
<1>6. Saved'
  BY <1>1, <1>2 DEF UnitInv, Saved, Shape, Unpublished, InUnit, Savepoint
<1> QED
  BY <1>2, <1>3, <1>4, <1>5, <1>6 DEF UnitInv

\* Releasing a savepoint keeps the rows.
LEMMA ReleaseUnit ==
    ASSUME UnitInv, Release
    PROVE  UnitInv' /\ UNCHANGED outbox
<1>1. tx'.phase = "open" /\ tx'.work = tx.work /\ tx'.saved = << >>
  BY DEF UnitInv, Release, Shape
<1>2. UNCHANGED outbox
  BY DEF Release
<1>3. Shape'
  BY <1>1 DEF UnitInv, Release, Shape
<1>4. StillFrozen'
  BY <1>1, <1>2, RowsKept DEF UnitInv, InUnit, Release
<1>5. Unpublished'
  BY <1>1, NoRowsFrozen DEF UnitInv, Unpublished, Saved, InUnit, Release
<1>6. Saved'
  BY <1>1, <1>2 DEF UnitInv, Saved, Shape, Unpublished, InUnit, Release
<1> QED
  BY <1>2, <1>3, <1>4, <1>5, <1>6 DEF UnitInv

\* Rolling back to a savepoint keeps the rows or drops them all.
LEMMA RollbackToUnit ==
    ASSUME UnitInv, RollbackTo
    PROVE  UnitInv' /\ UNCHANGED outbox
<1>1. tx'.phase = "open" /\ tx'.work = tx.saved[1] /\ tx'.saved = << >>
  BY DEF UnitInv, RollbackTo, Restored, Shape, Saved, InUnit
<1>2. UNCHANGED outbox
  BY DEF RollbackTo
<1>3. Shape'
  BY NoRowsFrozen, <1>1 DEF UnitInv, RollbackTo, Restored, Shape, Saved, InUnit
<1>4. StillFrozen'
  BY <1>1, <1>2, RowsKept DEF UnitInv, Saved, InUnit, RollbackTo
<1>5. Unpublished'
  BY <1>1, NoRowsFrozen DEF UnitInv, Unpublished, Saved, InUnit, RollbackTo
<1>6. Saved'
  BY <1>1, <1>2 DEF UnitInv, Saved, Shape, Unpublished, InUnit, RollbackTo
<1> QED
  BY <1>2, <1>3, <1>4, <1>5, <1>6 DEF UnitInv

\* Publish holds what Capture would write now.
LEMMA PublishUnit ==
    ASSUME UnitInv, NEW ms \in SUBSET Deliveries, Publish(ms)
    PROVE  UnitInv' /\ UNCHANGED outbox
<1>1. /\ tx'.phase = "open" /\ tx'.work.wrote = tx.work.wrote
      /\ tx'.work.rows = Frozen(ms) /\ tx'.saved = tx.saved
  BY DEF UnitInv, Publish, Shape
<1>2. UNCHANGED outbox
  BY DEF Publish
<1>3. DOMAIN Frozen(ms) = ms
  BY DEF Frozen
<1>4. Shape'
  BY <1>1, <1>3 DEF UnitInv, Publish, Shape
<1>5. StillFrozen'
  BY <1>1, <1>2, <1>3, FrozenStutter DEF StillFrozen, Publish
<1>6. tx.work.wrote
  BY DEF UnitInv, Unpublished, InUnit, Publish
<1>7. Unpublished'
  BY <1>1, <1>6 DEF UnitInv, Unpublished
<1>8. Saved'
  BY <1>1, NoRowsFrozen DEF UnitInv, Saved, Unpublished, InUnit, Publish
<1> QED
  BY <1>2, <1>4, <1>5, <1>7, <1>8 DEF UnitInv

\* The end of a unit of work: a commit writes the rows Capture would write, any
\* other end writes none but those of a denial's own capture.
LEMMA EndUnit ==
    ASSUME UnitInv, Commit \/ Rollback \/ Notify \/ Complete \/ Crash
    PROVE  UnitInv' /\ [Next]_outbox
<1>1. CASE Commit
  <2>1. /\ tx'.phase = "committed" /\ tx'.work = tx.work
        /\ tx' = [phase |-> tx'.phase, op |-> tx'.op, work |-> tx'.work, saved |-> tx'.saved,
                  poisoned |-> tx'.poisoned, deny |-> tx'.deny]
    BY <1>1 DEF UnitInv, Shape, Commit
  <2>2. Capture(DOMAIN tx.work.rows)
    BY <1>1 DEF UnitInv, StillFrozen, Commit, Capture
  <2>3. Next
    BY <2>2 DEF UnitInv, Shape, Next
  <2> QED
    BY <2>1, <2>3 DEF UnitInv, Shape, Unpublished, Saved, StillFrozen, InUnit
<1>2. CASE Rollback
  <2>1. /\ tx'.phase = "completing" /\ tx'.work = Nothing
        /\ tx' = [phase |-> tx'.phase, op |-> tx'.op, work |-> tx'.work, saved |-> tx'.saved,
                  poisoned |-> tx'.poisoned, deny |-> tx'.deny]
    BY <1>2 DEF UnitInv, Shape, Rollback
  <2> QED
    BY <1>2, <2>1 DEF Rollback, Nothing, UnitInv, Shape, Unpublished, Saved,
       StillFrozen, InUnit
<1>3. CASE Notify
  <2>1. /\ tx'.phase = "completing" /\ tx'.work = tx.work
        /\ tx' = [phase |-> tx'.phase, op |-> tx'.op, work |-> tx'.work, saved |-> tx'.saved,
                  poisoned |-> tx'.poisoned, deny |-> tx'.deny]
    BY <1>3 DEF UnitInv, Shape, Notify
  <2> QED
    BY <1>3, <2>1 DEF Notify, UnitInv, Shape, Unpublished, Saved, StillFrozen, InUnit
<1>4. CASE Complete \/ Crash
  <2>1. tx' = NoUnit
    BY <1>4 DEF Complete, Crash
  <2>2. UnitInv'
    BY <2>1 DEF NoUnit, Nothing, UnitInv, Shape, Unpublished, Saved, StillFrozen, InUnit
  <2>3. [Next]_outbox
    <3>1. UNCHANGED outbox \/ \E ms \in SUBSET Deliveries : Capture(ms)
      BY <1>4 DEF Complete, Crash
    <3> QED
      BY <3>1 DEF Next
  <2> QED
    BY <2>2, <2>3
<1> QED
  BY <1>1, <1>2, <1>3, <1>4

\* While a unit of work holds rows no other step touches them: their
\* identifiers are its own and their subscriptions are locked.
LEMMA OutboxUnit ==
    ASSUME PublisherInv,
           Outbox \/ \E s \in Subs, ms \in SUBSET Webhooks : Replay(s, ms)
    PROVE  UnitInv' /\ Next
<1>1. Next
  <2>1. ASSUME NEW s \in Subs, NEW ms \in SUBSET Webhooks, Replay(s, ms)
        PROVE  \E all \in SUBSET Deliveries : Capture(all)
    BY <2>1 DEF Replay, Deliveries
  <2> QED
    BY <2>1 DEF Outbox, Next
<1>2. tx' = tx
  BY DEF Outbox, Replay, publisher
<1>3. ASSUME InUnit, NEW m \in DOMAIN tx.work.rows
      PROVE  /\ state'[m] = "absent"
             /\ m \in Webhooks => /\ subRev'[Sub[m]] = subRev[Sub[m]]
                                  /\ Sub[m] \in disabled' <=> Sub[m] \in disabled
                                  /\ Sub[m] \in paused' <=> Sub[m] \in paused
                                  /\ Sub[m] \in removed' <=> Sub[m] \in removed
  <2>1. m \in Deliveries /\ state[m] = "absent"
    BY <1>3 DEF PublisherInv, UnitInv, Shape, StillFrozen, InUnit, Capturable
  <2>2. m \in Webhooks => Sub[m] \in Locked
    BY <1>3 DEF InUnit, Locked, Reserved
  <2>3. CASE \E s \in Subs \ Locked : Change(s)
    BY <2>1, <2>2, <2>3 DEF Change, Create, Update, SetState, DeliveryState,
       Selected, OpenOf,
       Move, Open, rows, PublisherInv, Inv, TypeOK
  <2>4. CASE \E n \in Deliveries : Retry(n)
    BY <2>1, <2>4 DEF Retry, Retryable, subscriptions, PublisherInv, Inv, TypeOK
  <2>5. CASE \E s \in Subs, ms \in SUBSET Webhooks : Replay(s, ms)
    <3> PICK s \in Subs, ms \in SUBSET Webhooks : Replay(s, ms)
      BY <2>5
    <3>1. m \notin ms
      BY <2>2 DEF Replay
    <3> QED
      BY <2>1, <3>1 DEF Replay, Capture, Insert, Frozen, subscriptions
  <2>6. CASE \E w \in Workers : Work(w) \/ Abandon(w)
    <3> PICK w \in Workers : Work(w) \/ Abandon(w)
      BY <2>6
    <3>1. CASE Finish(w) \/ DeliverLocal(w)
      BY <2>1, <3>1 DEF Finish, DeliverLocal, HoldsLease, FinishRow, rows,
         subscriptions, PublisherInv, Inv, TypeOK
    <3>2. CASE ~(Finish(w) \/ DeliverLocal(w))
      BY <2>1, <3>2 DEF Work, Claim, ReadMessage, ReadSubscription, Accepted,
         NotAccepted, Abandon, rows, subscriptions
    <3> QED
      BY <3>1, <3>2
  <2>7. CASE Time
    BY <2>1, <2>7 DEF Time, LeaseExpires, DelayElapses, MessageExpires, Prune, rows,
       Open, subscriptions, PublisherInv, ExpiredCaptured
  <2> QED
    BY <2>3, <2>4, <2>5, <2>6, <2>7 DEF Outbox
<1>4. StillFrozen'
  BY <1>2, <1>3, SMTT(30) DEF PublisherInv, UnitInv, StillFrozen, InUnit, Frozen,
     CapturedState, Capturable, Exists
<1>5. Shape' /\ Unpublished' /\ Saved'
  BY <1>2 DEF PublisherInv, UnitInv, Shape, Unpublished, Saved, InUnit
<1> QED
  BY <1>1, <1>4, <1>5 DEF UnitInv

\* A captured message is never forgotten without a trace.
LEMMA ExpiredStep ==
    ASSUME Inv, ExpiredCaptured, [Next]_outbox
    PROVE  ExpiredCaptured'
<1> USE DEF ExpiredCaptured, Inv, TypeOK
<1>1. CASE \E ms \in SUBSET Deliveries : Capture(ms)
  BY <1>1 DEF Capture, Insert, Frozen, CapturedState
<1>2. CASE \E w \in Workers : Work(w) \/ Abandon(w)
  <2> PICK w \in Workers : Work(w) \/ Abandon(w)
    BY <1>2
  <2>1. CASE Finish(w) \/ DeliverLocal(w)
    BY <2>1 DEF Finish, DeliverLocal, FinishRow, StateAfter, Slots, Codes, rows,
       messages
  <2>2. CASE ~(Finish(w) \/ DeliverLocal(w))
    BY <2>2 DEF Work, Claim, ReadMessage, ReadSubscription, Accepted, NotAccepted,
       Abandon, rows,
       messages
  <2> QED
    BY <2>1, <2>2
<1>3. CASE \E s \in Subs : Change(s)
  BY SMT, <1>3 DEF Change, Create, Update, SetState, DeliveryState, Move, rows, messages
<1>4. CASE \E n \in Deliveries : Retry(n)
  BY <1>4 DEF Retry, messages
<1>5. CASE Time
  BY <1>5 DEF Time, LeaseExpires, DelayElapses, MessageExpires, Prune, rows, messages
<1>6. CASE UNCHANGED outbox
  BY <1>6 DEF outbox, rows, messages
<1> QED
  BY <1>1, <1>2, <1>3, <1>4, <1>5, <1>6 DEF Next

\* Every step of the producers preserves the invariant and is a step of the
\* outbox or leaves it alone.
LEMMA PublisherStep ==
    ASSUME PublisherInv, [PublisherNext]_vars
    PROVE  PublisherInv' /\ [Next]_outbox
<1>1. UnitInv' /\ [Next]_outbox
  <2>1. CASE Unit
    BY <2>1, BeginUnit, PublishUnit, MutateUnit, PublishFailsUnit, DenyUnit,
       SavepointUnit,
       ReleaseUnit, RollbackToUnit, EndUnit DEF Unit, PublisherInv
  <2>2. CASE Outbox \/ \E s \in Subs, ms \in SUBSET Webhooks : Replay(s, ms)
    BY <2>2, OutboxUnit
  <2>3. CASE UNCHANGED vars
    <3>1. UNCHANGED outbox /\ tx' = tx
      BY <2>3 DEF vars, publisher
    <3> QED
      BY <3>1, FrozenStutter DEF PublisherInv, UnitInv, Shape, Unpublished, Saved,
         StillFrozen, InUnit
  <2> QED
    BY <2>1, <2>2, <2>3 DEF PublisherNext
<1> QED
  BY <1>1, NextInv, ExpiredStep DEF PublisherInv

\* Nothing is captured or held at the start.
LEMMA InitPublisher == PublisherInit => Init /\ PublisherInv
<1> SUFFICES ASSUME PublisherInit PROVE Init /\ PublisherInv
  OBVIOUS
<1>1. Init /\ Inv /\ ExpiredCaptured
  BY InitInv DEF PublisherInit, Init, ExpiredCaptured
<1>2. tx = NoUnit
  BY DEF PublisherInit
<1>3. UnitInv
  BY <1>2 DEF NoUnit, Nothing, UnitInv, Shape, Unpublished, Saved, StillFrozen, InUnit
<1> QED
  BY <1>1, <1>3 DEF PublisherInv

\* The transactional producers implement the outbox specification, in which a
\* capture is one step: the locks on the subscriptions read make it one.
THEOREM PublisherRefines == PublisherSpec => UsesOutbox
  BY InitPublisher, PublisherStep, PTL DEF PublisherSpec, UsesOutbox, Spec

(***************************************************************************)
(* A mutation is durable exactly when its event is.                        *)
(***************************************************************************)
\* Once Publish returned, the unit of work, and the savepoint it may return to,
\* hold the mutation and the event together or the unit is poisoned.
Coupled ==
    ~tx.poisoned =>
       /\ tx.phase = "open" => (tx.work.wrote <=> tx.work.event)
       /\ InUnit /\ tx.saved # << >> => (tx.saved[1].wrote <=> tx.saved[1].event)

RecordInv == UnitInv /\ Coupled /\ RecordedWithMutation

\* Each step keeps mutation and event coupled.
LEMMA RecordStep ==
    ASSUME PublisherInv, RecordInv, [PublisherNext]_vars
    PROVE  RecordInv'
<1>0. UnitInv'
  BY PublisherStep DEF PublisherInv
<1> USE DEF RecordInv, UnitInv, Shape, Coupled, RecordedWithMutation, InUnit
<1>1. CASE \E o \in Operations : Begin(o)
  BY SMT, <1>0, <1>1 DEF Begin, NoUnit, Nothing
<1>2. CASE \E ms \in SUBSET Deliveries : Publish(ms)
  <2> PICK ms \in SUBSET Deliveries : Publish(ms)
    BY <1>2
  <2>1. /\ tx'.work.event /\ tx'.work.wrote = tx.work.wrote
        /\ tx'.saved = tx.saved /\ tx'.poisoned = tx.poisoned
    BY DEF Publish
  <2>2. tx.work.wrote
    BY DEF Publish, Unpublished
  <2>3. committed' = committed /\ recorded' = recorded /\ tx.phase = "publish"
    BY DEF Publish
  <2> HIDE DEF Shape
  <2> QED
    BY <1>0, <2>1, <2>2, <2>3
<1>3. CASE Mutate
  BY <1>0, <1>3 DEF Mutate
<1>4. CASE PublishFails
  BY <1>0, <1>4 DEF PublishFails
<1>5. CASE Deny
  BY <1>0, <1>5 DEF Deny
<1>6. CASE Savepoint
  BY <1>0, <1>6 DEF Savepoint
<1>7. CASE Release
  BY <1>0, <1>7 DEF Release
<1>8. CASE RollbackTo
  BY <1>0, <1>8 DEF RollbackTo, Restored, Saved
<1>9. CASE Commit
  BY <1>0, <1>9 DEF Commit, MayCommit
<1>10. CASE Rollback
  BY <1>0, <1>10 DEF Rollback
<1>11. CASE Notify
  BY <1>0, <1>11 DEF Notify
<1>12. CASE Complete \/ Crash
  BY <1>0, <1>12, SMTT(30) DEF Complete, Crash, NoUnit
<1>13. CASE \/ Outbox \/ UNCHANGED vars
            \/ \E s \in Subs, ms \in SUBSET Webhooks : Replay(s, ms)
  BY <1>0, <1>13 DEF Outbox, Replay, vars, publisher
<1> QED
  BY <1>1, <1>2, <1>3, <1>4, <1>5, <1>6, <1>7, <1>8, <1>9, <1>10, <1>11, <1>12, <1>13
     DEF PublisherNext, Unit

\* No sequence of savepoints, swallowed capture errors, rollbacks and crashes
\* leaves a durable mutation without its event, or an event without its mutation.
THEOREM MutationsRecorded == PublisherSpec => []RecordedWithMutation
<1>1. PublisherInit => PublisherInv /\ RecordInv
  BY SMT, InitPublisher DEF PublisherInit, PublisherInv, RecordInv, Coupled,
     RecordedWithMutation, NoUnit, InUnit
<1>2. RecordInv => RecordedWithMutation
  BY DEF RecordInv
<1> QED
  BY <1>1, <1>2, PublisherStep, RecordStep, PTL DEF PublisherSpec


(***************************************************************************)
(* The subscribers and the denials.                                        *)
(***************************************************************************)
\* The commit callback is registered with the event and dropped with it, so
\* between the commit and Notify only the present event may be unannounced.
Announced ==
    /\ tx.work.notify = tx.work.event
    /\ InUnit /\ tx.saved # << >> => tx.saved[1].notify = tx.saved[1].event
    /\ notified \subseteq recorded
    /\ tx.phase = "committed" /\ tx.work.event => tx.op \in recorded
    /\ recorded \subseteq notified \cup crashed
                          \cup (IF tx.phase = "committed" /\ tx.work.event THEN {tx.op} ELSE {})

LEMMA NothingAnnounced == ~Nothing.event /\ Nothing.notify = Nothing.event
  BY DEF Nothing

\* Each step keeps the callback with its event.
LEMMA AnnouncedStep ==
    ASSUME UnitInv, Announced, [PublisherNext]_vars
    PROVE  Announced'
<1> USE DEF Announced, InUnit
<1>0. Shape
  BY DEF UnitInv
<1>1. CASE \E o \in Operations : Begin(o)
  <2>1. /\ tx'.work = Nothing /\ tx'.saved = << >> /\ tx'.phase = "open"
        /\ UNCHANGED <<notified, recorded, crashed>>
    BY <1>1 DEF Begin, NoUnit
  <2>2. tx.phase = "none"
    BY <1>1 DEF Begin
  <2> QED
    BY <2>1, <2>2, NothingAnnounced
<1>2. CASE \E ms \in SUBSET Deliveries : Publish(ms)
  <2> PICK ms \in SUBSET Deliveries : Publish(ms)
    BY <1>2
  <2>1. /\ tx'.work.event = TRUE /\ tx'.work.notify = TRUE /\ tx'.saved = tx.saved
        /\ tx'.op = tx.op /\ tx'.phase = "open"
    BY <1>0 DEF Publish, Shape
  <2>2. tx.phase = "publish" /\ UNCHANGED <<notified, recorded, crashed>>
    BY DEF Publish
  <2> QED
    BY <2>1, <2>2
<1>3. CASE Mutate
  BY <1>0, <1>3 DEF Mutate, Shape
<1>4. CASE PublishFails
  BY <1>0, <1>4 DEF PublishFails, Shape
<1>5. CASE Deny
  BY <1>0, <1>5 DEF Deny, Shape
<1>6. CASE Savepoint
  BY <1>0, <1>6 DEF Savepoint, Shape
<1>7. CASE Release
  BY <1>0, <1>7 DEF Release, Shape
<1>8. CASE RollbackTo
  BY <1>0, <1>8 DEF RollbackTo, Restored, Shape
<1>9. CASE Commit
  BY <1>0, <1>9 DEF Commit, Shape
<1>10. CASE Rollback
  BY <1>0, <1>10 DEF Rollback, Nothing, Shape
<1>11. CASE Notify
  BY <1>0, <1>11 DEF Notify, Shape
<1>12. CASE Complete
  BY <1>12 DEF Complete, NoUnit, Nothing
<1>13. CASE Crash
  BY <1>13 DEF Crash, NoUnit, Nothing
<1>14. CASE \/ Outbox \/ UNCHANGED vars
            \/ \E s \in Subs, ms \in SUBSET Webhooks : Replay(s, ms)
  BY <1>14 DEF Outbox, Replay, vars, publisher
<1> QED
  BY <1>1, <1>2, <1>3, <1>4, <1>5, <1>6, <1>7, <1>8, <1>9, <1>10, <1>11, <1>12, <1>13, <1>14
     DEF PublisherNext, Unit

\* In-process subscribers hear of an event only after it is durable, and of
\* every durable one unless the process crashed before the commit callbacks ran.
THEOREM SubscribersHear == PublisherSpec => []NotifiedRecorded
<1>1. PublisherInit => PublisherInv /\ Announced
  <2> SUFFICES ASSUME PublisherInit PROVE PublisherInv /\ Announced
    OBVIOUS
  <2>1. /\ tx.work = Nothing /\ tx.saved = << >> /\ tx.phase = "none"
        /\ notified = {} /\ recorded = {}
    BY DEF PublisherInit, NoUnit
  <2> QED
    BY <2>1, InitPublisher, NothingAnnounced DEF Announced, InUnit
<1>2. PublisherInv /\ Announced /\ [PublisherNext]_vars => Announced'
  BY AnnouncedStep DEF PublisherInv
<1>3. PublisherInv /\ [PublisherNext]_vars => PublisherInv'
  BY PublisherStep
<1>4. Announced => NotifiedRecorded
  BY DEF Announced, NotifiedRecorded
<1> QED
  BY <1>1, <1>2, <1>3, <1>4, PTL DEF PublisherSpec

\* The denial of the running unit of work waits in its completion callbacks;
\* every other one is accounted for.
DenialsHeld ==
    /\ tx.phase # "none" /\ tx.op \in denied => tx.deny
    /\ \A o \in denied : \/ o \in denials \cup failed \cup crashed
                         \/ tx.phase # "none" /\ o = tx.op

\* Only the steps that begin, deny or end a unit of work touch a denial.
LEMMA DenialsRest ==
    ASSUME DenialsHeld, tx'.phase # "none", tx.phase # "none",
           tx'.op = tx.op, tx'.deny = tx.deny, UNCHANGED <<denied, denials, failed, crashed>>
    PROVE  DenialsHeld'
  BY DEF DenialsHeld

\* Each step keeps a denial until its completion callback or a crash.
LEMMA DenialsStep ==
    ASSUME UnitInv, DenialsHeld, [PublisherNext]_vars
    PROVE  DenialsHeld'
<1>0. Shape
  BY DEF UnitInv
<1>1. CASE \E o \in Operations : Begin(o)
  BY <1>1 DEF Begin, NoUnit, Seen, DenialsHeld
<1>2. CASE \/ Mutate \/ PublishFails \/ Savepoint \/ Release \/ RollbackTo
           \/ \E ms \in SUBSET Deliveries : Publish(ms)
  <2>1. /\ tx'.phase # "none" /\ tx.phase # "none" /\ tx'.op = tx.op /\ tx'.deny = tx.deny
    BY <1>0, <1>2
       DEF Publish, Mutate, PublishFails, Savepoint, Release, RollbackTo, Shape
  <2>2. UNCHANGED <<denied, denials, failed, crashed>>
    BY <1>2 DEF Publish, Mutate, PublishFails, Savepoint, Release, RollbackTo
  <2> QED
    BY <2>1, <2>2, DenialsRest
<1>3. CASE Commit \/ Rollback \/ Notify
  <2>1. /\ tx'.phase # "none" /\ tx.phase # "none" /\ tx'.op = tx.op /\ tx'.deny = tx.deny
    BY <1>0, <1>3 DEF Commit, Rollback, Notify, Shape
  <2>2. UNCHANGED <<denied, denials, failed, crashed>>
    BY <1>3 DEF Commit, Rollback, Notify
  <2> QED
    BY <2>1, <2>2, DenialsRest
<1>4. CASE Deny
  <2>1. tx'.phase = "open" /\ tx'.op = tx.op /\ tx'.deny = TRUE /\ tx.phase = "open"
    BY <1>0, <1>4 DEF Deny, Shape
  <2> QED
    BY <1>4, <2>1 DEF Deny, DenialsHeld
<1>5. CASE Complete
  BY <1>5 DEF Complete, PendingDenial, NoUnit, DenialsHeld
<1>6. CASE Crash
  BY <1>6 DEF Crash, NoUnit, DenialsHeld
<1>7. CASE \/ Outbox \/ UNCHANGED vars
           \/ \E s \in Subs, ms \in SUBSET Webhooks : Replay(s, ms)
  BY <1>7 DEF Outbox, Replay, vars, publisher, DenialsHeld
<1> QED
  BY <1>1, <1>2, <1>3, <1>4, <1>5, <1>6, <1>7 DEF PublisherNext, Unit

\* A published denial survives the rollback of the transaction it was raised
\* in: it is recorded or counted as failed, unless the process crashed.
THEOREM DenialsKept == PublisherSpec => []DenialsSurvive
<1>1. PublisherInit => PublisherInv /\ DenialsHeld
  BY InitPublisher DEF PublisherInit, DenialsHeld, NoUnit
<1>2. PublisherInv /\ DenialsHeld /\ [PublisherNext]_vars => DenialsHeld'
  BY DenialsStep DEF PublisherInv
<1>3. PublisherInv /\ [PublisherNext]_vars => PublisherInv'
  BY PublisherStep
<1>4. DenialsHeld => DenialsSurvive
  BY DEF DenialsHeld, DenialsSurvive
<1> QED
  BY <1>1, <1>2, <1>3, <1>4, PTL DEF PublisherSpec
=============================================================================
