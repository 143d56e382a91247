-------------------------- MODULE MCEventPublisher --------------------------
(***************************************************************************)
(* Small instances of the outbox, explored in one run.  Some behaviours    *)
(* are those of the outbox alone, with events captured in one step and the *)
(* workers at their deliveries; the others have units of work, one at a    *)
(* time, beside administrators and the clock, with the workers stopped.    *)
(* Replay needs a second webhook delivery to copy from, so it is left out  *)
(* here; the theorems of EventOutboxProofs are about all of it together.   *)
(***************************************************************************)
EXTENDS EventPublisher

CONSTANTS s1

VARIABLE kind  \* "workers" or "units"

MCSub == [m \in Webhooks |-> s1]

MCInit == PublisherInit /\ kind \in {"workers", "units"}

Delivering == kind = "workers" /\ UNCHANGED <<publisher, kind>>
Publishing == kind = "units" /\ UNCHANGED kind
Beside == Publishing /\ UNCHANGED publisher

MCNext ==
    \/ Next /\ Delivering
    \/ Unit /\ Publishing
    \/ \E s \in Subs \ Locked : Change(s) /\ Beside
    \/ \E m \in Deliveries : Retry(m) /\ Beside
    \/ \E m \in Webhooks : MessageExpires(m) /\ Beside
    \/ \E old \in SUBSET expired : Prune(old) /\ Beside

FairOutbox == MCInit /\ [][MCNext]_<<vars, kind>> /\ Fairness
=============================================================================
