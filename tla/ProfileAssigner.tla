--------------------------- MODULE ProfileAssigner ---------------------------
(***************************************************************************)
(* The assignment of enrollment profiles to one account's devices: the     *)
(* runs of dep.Assigner under the account's lease, the records they keep   *)
(* of every request to Apple, the administrators who choose profiles and   *)
(* renew the account's token behind them, and the inventory sync that      *)
(* reports what Apple holds.  Apple's service is external.  A transaction, *)
(* a scan and an exchange with Apple are one step each.                    *)
(*                                                                         *)
(* Time is abstract: a deadline is a flag that is set with it and that a   *)
(* step of its own clears.  A timestamp taken later is later.              *)
(***************************************************************************)
EXTENDS Naturals, FiniteSets

CONSTANTS
    Serials,  \* device serial numbers of the account
    Profiles, \* profile UUIDs
    Workers,  \* processes that run RunOnce
    None,     \* no profile, no owner, nothing held
    Batch,    \* AssignerConfig.BatchSize
    MaxOps    \* bound: choices, renewals, failures, crashes and lost leases

ASSUME AssignerAssumption ==
    /\ Batch \in Nat \ {0} /\ MaxOps \in Nat
    /\ \A x \in Serials \cup Profiles \cup Workers : x # None

VARIABLES
    choice,  \* the account: desired profile of each serial, its revision, and
             \* the binding of its credentials
    lease,   \* AssignmentState: owner, whether it is unexpired, and whether
             \* NotBefore lies ahead
    asg,     \* AssignmentStore
    rec,     \* DeviceStore: the profile each record shows
    apple,   \* Apple: the profile each device has
    news,    \* Apple: serials with a change the sync has not read
    report,  \* a record the syncer has received and not yet committed
    worker,  \* what a run holds between its steps
    unsure,  \* history: serials of requests whose result is not recorded or read
    hold,    \* history: serials Apple asked the account to wait for
    touched, \* history: serials reassigned in Apple's portal since the last request
    crossed, \* history: serials whose portal change was stored while a run held
             \* an answer of Apple's from before it
    ops      \* bound: operations spent

outside == <<choice, apple, news, report, touched>>
vars == <<choice, lease, asg, rec, apple, news, report, worker, unsure, hold, touched, crossed, ops>>

Chosen == Profiles \cup {None}

Spend == ops < MaxOps /\ ops' = ops + 1

\* later: NextAttemptAt lies ahead; newer: the device record was written after
\* AttemptedAt.
Record == [status : {"none", "PENDING", "SUCCESS", "FAILED", "THROTTLED"},
           profile : Chosen, later : BOOLEAN, newer : BOOLEAN]
NoRecord == [status |-> "none", profile |-> None, later |-> FALSE, newer |-> FALSE]

Idle == [at |-> "idle", acct |-> None, todo |-> {}, batch |-> {}, profile |-> None,
         answer |-> None, ok |-> FALSE]

Goto(w, held) == worker' = [worker EXCEPT ![w] = held]
Finish(w, ok) == Goto(w, [Idle EXCEPT !.at = "release", !.ok = ok])

(***************************************************************************)
(* The lease.                                                              *)
(***************************************************************************)

\* claim: no live owner and no cooldown; the run works for the account it read.
Claim(w) ==
    /\ worker[w].at = "idle" /\ ~lease.cooling
    /\ lease.owner = None \/ ~lease.live
    /\ lease' = [lease EXCEPT !.owner = w, !.live = TRUE]
    /\ Goto(w, [Idle EXCEPT !.at = "reconcile", !.acct = choice])
    /\ UNCHANGED <<outside, asg, rec, unsure, hold, ops, crossed>>

LockLease(w) == lease.owner = w /\ lease.live

Lock(w) ==
    /\ LockLease(w)
    /\ choice.binding = worker[w].acct.binding
    /\ choice.revision = worker[w].acct.revision

ReleaseForgets(w) ==
    /\ worker[w].at = "release"
    /\ lease' = IF lease.owner # w THEN lease
                ELSE [owner |-> None, live |-> FALSE, cooling |-> FALSE]
    /\ Goto(w, Idle)
    /\ UNCHANGED <<outside, asg, rec, unsure, hold, ops, crossed>>
Release(w) ==
    /\ worker[w].at = "release"
    /\ lease' = IF lease.owner # w THEN lease
                ELSE [owner |-> None, live |-> FALSE, cooling |-> lease.cooling /\ ~worker[w].ok]
    /\ Goto(w, Idle)
    /\ UNCHANGED <<outside, asg, rec, unsure, hold, ops, crossed>>

(***************************************************************************)
(* reconcilePending: what an earlier run left uncertain is read back before *)
(* anything is assigned.                                                   *)
(***************************************************************************)
Pending == {s \in Serials : asg[s].status = "PENDING"}

\* The details Apple returns for a batch.
Details(batch) == [s \in batch |-> apple[s]]

\* PutDevices with the details.
WriteDetails(details) ==
    /\ rec' = [s \in Serials |-> IF s \in DOMAIN details THEN details[s] ELSE rec[s]]
    /\ crossed' = crossed \ {s \in DOMAIN details : details[s] = apple[s]}

Batches(S) == {b \in SUBSET S : b # {} /\ Cardinality(b) <= Batch}

Inspect(w) ==
    /\ worker[w].at = "reconcile" /\ Pending # {} /\ Lock(w)
    /\ \E b \in Batches(Pending) :
         Goto(w, [worker[w] EXCEPT !.at = "resolve", !.batch = b, !.answer = Details(b)])
    /\ UNCHANGED <<outside, lease, asg, rec, unsure, hold, ops, crossed>>

ResolveTrusting(w) ==
    LET held == worker[w] IN
    /\ held.at = "resolve" /\ Lock(w)
    /\ WriteDetails(held.answer)
    /\ asg' = [s \in Serials |->
         IF s \notin held.batch THEN asg[s]
         ELSE [asg[s] EXCEPT
                 !.status = IF asg[s].profile = held.acct.desired[s] THEN "SUCCESS" ELSE "FAILED",
                 !.later = FALSE, !.newer = TRUE]]
    /\ unsure' = unsure \ held.batch
    /\ Goto(w, [held EXCEPT !.at = "reconcile", !.batch = {}, !.answer = None])
    /\ UNCHANGED <<outside, lease, hold, ops>>
Resolve(w) ==
    LET held == worker[w] IN
    /\ held.at = "resolve" /\ Lock(w)
    /\ WriteDetails(held.answer)
    /\ asg' = [s \in Serials |->
         IF s \notin held.batch THEN asg[s]
         ELSE [asg[s] EXCEPT
                 !.status = IF /\ asg[s].profile = held.acct.desired[s]
                               /\ asg[s].profile = held.answer[s]
                            THEN "SUCCESS" ELSE "FAILED",
                 !.later = FALSE, !.newer = TRUE]]
    /\ unsure' = unsure \ held.batch
    /\ Goto(w, [held EXCEPT !.at = "reconcile", !.batch = {}, !.answer = None])
    /\ UNCHANGED <<outside, lease, hold, ops>>

(***************************************************************************)
(* candidates, markPending and the request.                                *)
(***************************************************************************)

\* state: a deadline ahead defers, and a recorded success stands until the
\* record is written again.
DueTrusting(s, uuid) ==
    /\ ~(asg[s].later /\ (asg[s].status = "THROTTLED" \/ asg[s].profile = uuid))
    /\ ~(asg[s].status = "SUCCESS" /\ asg[s].profile = uuid)
Due(s, uuid) ==
    /\ ~(asg[s].later /\ (asg[s].status = "THROTTLED" \/ asg[s].profile = uuid))
    /\ ~(asg[s].status = "SUCCESS" /\ asg[s].profile = uuid /\ ~asg[s].newer)

NeedsAssignment(s, uuid) == uuid # None /\ rec[s] # uuid

Candidates(w) ==
    LET held == worker[w] IN
    /\ held.at = "reconcile" /\ Pending = {}
    /\ LET desired == held.acct.desired
       IN Goto(w, [held EXCEPT !.at = "batch",
            !.todo = {s \in Serials : NeedsAssignment(s, desired[s]) /\ Due(s, desired[s])}])
    /\ UNCHANGED <<outside, lease, asg, rec, unsure, hold, ops, crossed>>

MarkPending(w) ==
    LET held == worker[w] IN
    /\ held.at = "batch" /\ Lock(w)
    /\ \E b \in Batches(held.todo), p \in Profiles :
         /\ \A s \in b : held.acct.desired[s] = p
         /\ asg' = [s \in Serials |-> IF s \in b THEN [asg[s] EXCEPT !.profile = p,
                                                         !.status = "PENDING", !.newer = FALSE]
                                                  ELSE asg[s]]
         /\ Goto(w, [held EXCEPT !.at = "send", !.batch = b, !.profile = p, !.todo = @ \ b])
    /\ UNCHANGED <<outside, lease, rec, unsure, hold, ops, crossed>>

Done(w) ==
    /\ worker[w].at = "batch" /\ worker[w].todo = {}
    /\ Finish(w, TRUE)
    /\ UNCHANGED <<outside, lease, asg, rec, unsure, hold, ops, crossed>>

\* Apple's assignment, a change for the sync to read.
Apply(batch, uuid) ==
    /\ apple' = [s \in Serials |-> IF s \in batch THEN uuid ELSE apple[s]]
    /\ news' = news \cup batch
    /\ touched' = touched \ batch

\* Apple assigns the profile to every device of the batch.
Accepted(w) ==
    LET held == worker[w] IN
    /\ held.at = "send" /\ choice.binding = held.acct.binding
    /\ Apply(held.batch, held.profile)
    /\ unsure' = unsure \cup held.batch
    /\ Goto(w, [held EXCEPT !.at = "record", !.answer = [s \in held.batch |-> "SUCCESS"]])
    /\ UNCHANGED <<choice, lease, asg, rec, report, hold, ops, crossed>>

\* What Apple says of a serial; "missing" is no answer for it.
Replies == {"SUCCESS", "FAILED", "THROTTLED", "missing"}

\* Apple refuses some serials or leaves them out of its answer; one that is
\* left out may have been assigned.
Mixed(w) ==
    LET held == worker[w] IN
    /\ Spend /\ held.at = "send" /\ choice.binding = held.acct.binding
    /\ \E answer \in [held.batch -> Replies] :
         /\ \E lost \in SUBSET {s \in held.batch : answer[s] = "missing"} :
              Apply(lost \cup {s \in held.batch : answer[s] = "SUCCESS"}, held.profile)
         /\ Goto(w, [held EXCEPT !.at = "record", !.answer = answer])
    /\ unsure' = unsure \cup held.batch
    /\ UNCHANGED <<choice, lease, asg, rec, report, hold, crossed>>

\* HTTP 429: nothing is assigned, and the account is to wait.
TooManyRequests(w) ==
    LET held == worker[w] IN
    /\ Spend /\ held.at = "send" /\ choice.binding = held.acct.binding
    /\ unsure' = unsure \cup held.batch
    /\ Goto(w, [held EXCEPT !.at = "throttle"])
    /\ UNCHANGED <<outside, lease, asg, rec, hold, crossed>>

\* The response is lost: any of the batch may have been assigned.
Lost(w) ==
    LET held == worker[w] IN
    /\ Spend /\ held.at = "send" /\ choice.binding = held.acct.binding
    /\ \E b \in SUBSET held.batch : Apply(b, held.profile)
    /\ unsure' = unsure \cup held.batch
    /\ Finish(w, FALSE)
    /\ UNCHANGED <<choice, lease, asg, rec, report, hold, crossed>>

(***************************************************************************)
(* Recording the outcome.                                                  *)
(***************************************************************************)
OutcomeMissingFails(s, status, uuid) ==
    [status |-> IF status = "missing" THEN "FAILED" ELSE status, profile |-> uuid,
     later |-> status \in {"FAILED", "THROTTLED"}, newer |-> FALSE]
Outcome(s, status, uuid) ==
    [status |-> IF status = "missing" THEN "PENDING" ELSE status, profile |-> uuid,
     later |-> status \in {"FAILED", "THROTTLED"}, newer |-> FALSE]

RecordBatch(w) ==
    LET held == worker[w] IN
    /\ held.at = "record" /\ Lock(w)
    /\ asg' = [s \in Serials |-> IF s \in held.batch
                                 THEN Outcome(s, held.answer[s], held.profile) ELSE asg[s]]
    /\ unsure' = unsure \ {s \in held.batch : held.answer[s] # "missing"}
    /\ hold' = hold \cup {s \in held.batch : held.answer[s] = "THROTTLED"}
    /\ Goto(w, [held EXCEPT !.at = "readback", !.answer = None])
    /\ UNCHANGED <<outside, lease, rec, ops, crossed>>

\* throttle, and preserveThrottle for an outdated batch: the cooldown needs
\* the lease only.
Throttled(held) ==
    held.at = "throttle" \/ \E s \in held.batch : held.answer[s] = "THROTTLED"

Cooldown(w) ==
    /\ \/ worker[w].at = "throttle"
       \/ worker[w].at = "record" /\ ~Lock(w)
    /\ IF Throttled(worker[w]) /\ LockLease(w)
       THEN lease' = [lease EXCEPT !.cooling = TRUE] /\ hold' = Serials
       ELSE UNCHANGED <<lease, hold>>
    /\ Finish(w, FALSE)
    /\ UNCHANGED <<outside, asg, rec, unsure, ops, crossed>>

\* readBack: Apple's record of the batch replaces the stored one.
ReadBack(w) ==
    /\ worker[w].at = "readback" /\ Lock(w)
    /\ Goto(w, [worker[w] EXCEPT !.at = "write", !.answer = Details(worker[w].batch)])
    /\ UNCHANGED <<outside, lease, asg, rec, unsure, hold, ops, crossed>>

WriteBack(w) ==
    LET held == worker[w] IN
    /\ held.at = "write" /\ Lock(w)
    /\ WriteDetails(held.answer)
    /\ asg' = [s \in Serials |-> [asg[s] EXCEPT !.newer = @ \/ s \in held.batch]]
    /\ Goto(w, [held EXCEPT !.at = "batch", !.batch = {}, !.profile = None, !.answer = None])
    /\ UNCHANGED <<outside, lease, unsure, hold, ops>>

(***************************************************************************)
(* A run that ends early.                                                  *)
(***************************************************************************)
Conflict(w) ==
    /\ \/ worker[w].at \in {"resolve", "readback", "write"} /\ ~Lock(w)
       \/ worker[w].at = "reconcile" /\ Pending # {} /\ ~Lock(w)
       \/ worker[w].at = "batch" /\ worker[w].todo # {} /\ ~Lock(w)
       \/ worker[w].at = "send" /\ choice.binding # worker[w].acct.binding
    /\ Finish(w, FALSE)
    /\ UNCHANGED <<outside, lease, asg, rec, unsure, hold, ops, crossed>>

\* A failed read of the details or of the store.
Fail(w) ==
    /\ Spend /\ worker[w].at \notin {"idle", "release"}
    /\ Finish(w, FALSE)
    /\ UNCHANGED <<outside, lease, asg, rec, unsure, hold, crossed>>

\* The process dies; its lease stays until it expires.
Crash(w) ==
    /\ Spend /\ worker[w].at # "idle"
    /\ Goto(w, Idle)
    /\ UNCHANGED <<outside, lease, asg, rec, unsure, hold, crossed>>

(***************************************************************************)
(* Time.  A lease is two minutes, a request at most one: between           *)
(* markPending and the answer it does not run out.                         *)
(***************************************************************************)
LeaseExpires ==
    /\ lease.owner # None /\ lease.live
    /\ \/ worker[lease.owner].at = "idle" /\ UNCHANGED ops
       \/ worker[lease.owner].at \notin {"idle", "send"} /\ Spend
    /\ lease' = [lease EXCEPT !.live = FALSE]
    /\ UNCHANGED <<outside, asg, rec, worker, unsure, hold, crossed>>

CooldownEnds ==
    /\ lease.cooling \/ \E s \in Serials : asg[s].later
    /\ lease' = [lease EXCEPT !.cooling = FALSE]
    /\ asg' = [s \in Serials |-> [asg[s] EXCEPT !.later = FALSE]]
    /\ hold' = {}
    /\ UNCHANGED <<outside, rec, worker, unsure, ops, crossed>>

(***************************************************************************)
(* The account and the inventory.                                          *)
(***************************************************************************)

\* PutAccount with another target: ProfileTargetRevision counts it.
SetTarget(s, p) ==
    /\ Spend /\ choice.desired[s] # p
    /\ choice' = [choice EXCEPT !.desired[s] = p, !.revision = @ + 1]
    /\ UNCHANGED <<lease, asg, rec, apple, news, report, worker, unsure, hold, touched, crossed>>

\* A renewal for the same Apple server.
RenewTokens ==
    /\ Spend
    /\ choice' = [choice EXCEPT !.binding = @ + 1]
    /\ UNCHANGED <<lease, asg, rec, apple, news, report, worker, unsure, hold, touched, crossed>>

\* Another assignment in Apple's portal.
PortalAssign(s, p) ==
    /\ Spend /\ apple[s] # p
    /\ apple' = [apple EXCEPT ![s] = p]
    /\ news' = news \cup {s} /\ touched' = touched \cup {s}
    /\ UNCHANGED <<choice, lease, asg, rec, report, worker, unsure, hold, crossed>>

\* The sync reads a change, and commits it when the record may have moved on.
SyncPage(s) ==
    /\ s \in news /\ report[s] = None
    /\ report' = [report EXCEPT ![s] = [profile |-> apple[s]]]
    /\ news' = news \ {s}
    /\ UNCHANGED <<choice, lease, asg, rec, apple, worker, unsure, hold, touched, crossed, ops>>

Answered(s) ==
    \E w \in Workers : s \in worker[w].batch /\ worker[w].at \in {"record", "resolve", "write"}

SyncCommit(s) ==
    /\ report[s] # None
    /\ rec' = [rec EXCEPT ![s] = report[s].profile]
    /\ asg' = [asg EXCEPT ![s].newer = TRUE]
    /\ report' = [report EXCEPT ![s] = None]
    /\ crossed' = IF s \in touched /\ Answered(s) THEN crossed \cup {s} ELSE crossed \ {s}
    /\ UNCHANGED <<choice, lease, apple, news, worker, unsure, hold, touched, ops>>

(***************************************************************************)
(* The specification.                                                      *)
(***************************************************************************)
Init ==
    /\ \E desired \in [Serials -> Chosen] :
         choice = [desired |-> desired, revision |-> 0, binding |-> 0]
    /\ lease = [owner |-> None, live |-> FALSE, cooling |-> FALSE]
    /\ asg = [s \in Serials |-> NoRecord]
    /\ rec = [s \in Serials |-> None]
    /\ apple = [s \in Serials |-> None]
    /\ report = [s \in Serials |-> None]
    /\ worker = [w \in Workers |-> Idle]
    /\ news = {} /\ unsure = {} /\ hold = {} /\ touched = {} /\ crossed = {} /\ ops = 0

Step(w) ==
    \/ Claim(w) \/ Inspect(w) \/ Resolve(w) \/ Candidates(w) \/ MarkPending(w) \/ Done(w)
    \/ Accepted(w) \/ RecordBatch(w) \/ Cooldown(w) \/ ReadBack(w) \/ WriteBack(w)
    \/ Conflict(w) \/ Release(w)

Sync(s) == SyncPage(s) \/ SyncCommit(s)

Next ==
    \/ \E w \in Workers : Step(w) \/ Mixed(w) \/ TooManyRequests(w) \/ Lost(w) \/ Fail(w) \/ Crash(w)
    \/ \E s \in Serials : Sync(s) \/ \E p \in Chosen : SetTarget(s, p) \/ PortalAssign(s, p)
    \/ LeaseExpires \/ CooldownEnds \/ RenewTokens

Spec == Init /\ [][Next]_vars

\* Runs are scheduled at an interval, deadlines pass, and the sync is polled.
LiveSpec ==
    /\ Spec
    /\ \A w \in Workers : WF_vars(Step(w))
    /\ \A s \in Serials : WF_vars(Sync(s))
    /\ WF_vars(LeaseExpires) /\ WF_vars(CooldownEnds)

(***************************************************************************)
(* Properties.                                                             *)
(***************************************************************************)
Stages == {"idle", "reconcile", "resolve", "batch", "send", "record", "throttle",
           "readback", "write", "release"}
Account == [desired : [Serials -> Chosen], revision : Nat, binding : Nat]
Answers == UNION {[b -> Chosen \cup Replies] : b \in SUBSET Serials}
Held == [at : Stages, acct : {None} \cup Account, todo : SUBSET Serials,
         batch : SUBSET Serials, profile : Chosen, answer : {None} \cup Answers, ok : BOOLEAN]

TypeOK ==
    /\ choice \in Account
    /\ lease \in [owner : Workers \cup {None}, live : BOOLEAN, cooling : BOOLEAN]
    /\ asg \in [Serials -> Record]
    /\ apple \in [Serials -> Chosen]
    /\ worker \in [Workers -> Held]
    /\ unsure \subseteq Serials /\ hold \subseteq Serials /\ touched \subseteq Serials

\* What a request leaves uncertain is on record as pending, whatever becomes
\* of its answer and of the run that sent it.
UncertainIsPending == \A s \in unsure : asg[s].status = "PENDING"

\* No serial is part of a new request while the result of an earlier one is
\* neither recorded nor read back.
NoBlindResubmit == \A w \in Workers : worker[w].at = "send" => worker[w].batch \cap unsure = {}

\* A recorded success is what Apple holds, also after another run, another
\* choice or another token took over, unless the portal changed it since.
SuccessHeld ==
    \A s \in Serials \ touched : asg[s].status = "SUCCESS" => apple[s] = asg[s].profile

\* While a delay Apple asked for is on record no request is made for it, by
\* whichever worker and for whichever profile.
CooldownRespected == \A w \in Workers : worker[w].at = "send" => worker[w].batch \cap hold = {}

\* What a run may rely on while the lease is its own: the serials it has still
\* to assign, and those of its request, are neither uncertain nor on hold; what
\* it reads back or requests is on record as pending; and Apple's answer is what
\* Apple holds, unless the portal changed it since.
Fresh(w) ==
    LET held == worker[w] IN
    /\ held.at \in {"batch", "send", "record", "readback", "write"} =>
         held.todo \cap unsure = {} /\ held.todo \cap hold = {}
    /\ held.at \in {"send", "record"} =>
         held.batch \cap held.todo = {} /\ held.batch \cap hold = {}
    /\ held.at = "send" => held.batch \cap unsure = {}
    /\ held.at \in {"send", "resolve"} => \A s \in held.batch : asg[s].status = "PENDING"
    /\ held.at = "resolve" => \A s \in held.batch \ touched : held.answer[s] = apple[s]
    /\ held.at = "record" => \A s \in held.batch :
         /\ held.answer[s] \in Replies
         /\ s \notin touched /\ held.answer[s] = "SUCCESS" => apple[s] = held.profile

LeaseKept == \A w \in Workers : LockLease(w) => Fresh(w)

\* A request is under way only under a live lease.
SendsUnderLease == \A w \in Workers : worker[w].at = "send" => LockLease(w)

\* A delay is kept by the account's cooldown or by the serial's own record.
HoldOnRecord ==
    \A s \in hold : lease.cooling \/ (asg[s].status = "THROTTLED" /\ asg[s].later)

\* A run that noted the cooldown does nothing more.
CoolingRests ==
    \A w \in Workers : lease.cooling /\ lease.owner = w =>
       worker[w].at \in {"idle", "release"} /\ ~worker[w].ok

\* The inductive invariant.
AssignerInvariant ==
    /\ TypeOK /\ UncertainIsPending /\ SuccessHeld
    /\ LeaseKept /\ SendsUnderLease /\ HoldOnRecord /\ CoolingRests

\* Once choices, portal changes, renewals and failures come to rest, every
\* device has its chosen profile and its record says so, unless the sync stored
\* a portal change between an answer of Apple's and its recording.
AssignmentConverges ==
    <>[](\A s \in Serials :
           \/ s \in crossed
           \/ rec[s] = apple[s] /\ choice.desired[s] \in {None, apple[s]})
=============================================================================
