------------------------ MODULE ProfileAssignerProofs ------------------------
(***************************************************************************)
(* The assigner's safety for any number of devices, profiles and workers   *)
(* and any number of choices, renewals, failures and crashes.              *)
(***************************************************************************)
EXTENDS ProfileAssigner, TLAPS

\* Zenon proves most leaves; those on arithmetic and records name SMT.
USE ZenonT(20), AssignerAssumption DEF AssignerAssumption

(***************************************************************************)
(* Only one worker has the lease, so a step that keeps the lease and one   *)
(* worker's promises keeps them all.                                       *)
(***************************************************************************)
Moves(w) == worker' = [worker EXCEPT ![w] = worker'[w]]

LEMMA MovesOne ==
  ASSUME TypeOK, NEW w \in Workers, Moves(w), worker'[w] \in Held
  PROVE  /\ worker' \in [Workers -> Held]
         /\ \A o \in Workers \ {w} : worker'[o] = worker[o]
  BY DEF Moves, TypeOK

\* A step of the worker that has the lease.
LEMMA OwnerStep ==
  ASSUME AssignerInvariant, NEW w \in Workers, Moves(w), worker'[w] \in Held,
         LockLease(w), worker[w].at \notin {"idle", "release"},
         UNCHANGED lease, Fresh(w)'
  PROVE  LeaseKept' /\ SendsUnderLease' /\ CoolingRests'
  <1>1. TypeOK /\ SendsUnderLease /\ CoolingRests
    BY DEF AssignerInvariant
  <1>2. \A o \in Workers \ {w} : worker'[o] = worker[o]
    BY <1>1, MovesOne
  <1>3. \A o \in Workers : LockLease(o)' => o = w
    BY DEF LockLease
  <1>4. LeaseKept'
    BY <1>3 DEF LeaseKept
  <1>5. SendsUnderLease'
    BY <1>1, <1>2 DEF SendsUnderLease, LockLease
  <1>6. ~lease.cooling
    BY <1>1 DEF CoolingRests, LockLease
  <1>7. QED
    BY <1>4, <1>5, <1>6 DEF CoolingRests

\* A step that changes nothing but what one worker holds.
LEMMA WorkerStep ==
  ASSUME AssignerInvariant, NEW w \in Workers, Moves(w), worker'[w] \in Held,
         UNCHANGED <<choice, lease, asg, apple, unsure, hold, touched>>,
         LockLease(w) => Fresh(w)',
         worker'[w].at # "send",
         worker[w].at \in {"idle", "release"} => worker'[w] = Idle
  PROVE  AssignerInvariant'
  <1>1. /\ TypeOK /\ UncertainIsPending /\ SuccessHeld /\ LeaseKept
        /\ SendsUnderLease /\ HoldOnRecord /\ CoolingRests
    BY DEF AssignerInvariant
  <1>2. /\ worker' \in [Workers -> Held]
        /\ \A o \in Workers \ {w} : worker'[o] = worker[o]
    BY <1>1, MovesOne
  <1>3. TypeOK'
    BY <1>1, <1>2 DEF TypeOK
  <1>4. UncertainIsPending' /\ SuccessHeld' /\ HoldOnRecord'
    BY <1>1 DEF UncertainIsPending, SuccessHeld, HoldOnRecord
  <1>5. \A o \in Workers : LockLease(o)' <=> LockLease(o)
    BY DEF LockLease
  <1>6. ASSUME NEW o \in Workers, LockLease(o)' PROVE Fresh(o)'
    <2>1. CASE o = w
      BY <1>5, <1>6, <2>1
    <2>2. CASE o # w
      <3>1. worker'[o] = worker[o] /\ Fresh(o)
        BY <1>1, <1>2, <1>5, <1>6, <2>2 DEF LeaseKept
      <3>2. QED
        BY <3>1 DEF Fresh
    <2>3. QED
      BY <2>1, <2>2
  <1>7. SendsUnderLease'
    BY <1>1, <1>2, <1>5 DEF SendsUnderLease
  <1>8. CoolingRests'
    BY SMT, <1>1, <1>2 DEF CoolingRests, Idle
  <1>9. QED
    BY <1>3, <1>4, <1>6, <1>7, <1>8 DEF AssignerInvariant, LeaseKept

\* What a step may store in a worker's registers.
LEMMA IdleHeld == Idle \in Held /\ Idle.at = "idle"
  BY DEF Idle, Held, Stages, Chosen

LEMMA EndedHeld ==
  ASSUME NEW ok \in BOOLEAN
  PROVE  [Idle EXCEPT !.at = "release", !.ok = ok] \in Held
  BY IdleHeld DEF Idle, Held, Stages, Chosen

LEMMA AnswerValues ==
  ASSUME TypeOK, NEW b \in SUBSET Serials
  PROVE  /\ Details(b) \in Answers
         /\ [s \in b |-> "SUCCESS"] \in Answers
         /\ [b -> Replies] \subseteq Answers
  <1>1. Details(b) \in [b -> Chosen \cup Replies]
    BY DEF Details, TypeOK
  <1>2. [s \in b |-> "SUCCESS"] \in [b -> Chosen \cup Replies]
    BY DEF Replies
  <1>3. [b -> Replies] \subseteq [b -> Chosen \cup Replies]
    OBVIOUS
  <1>4. QED
    BY <1>1, <1>2, <1>3, ZenonT(30) DEF Answers

\* A run that ends, by itself, with an error or in a crash.
LEMMA RunEnds ==
  ASSUME AssignerInvariant, NEW w \in Workers,
         UNCHANGED <<choice, lease, asg, apple, unsure, hold, touched>>,
         \/ Goto(w, Idle)
         \/ worker[w].at \notin {"idle", "release"} /\ \E ok \in BOOLEAN : Finish(w, ok)
  PROVE  AssignerInvariant'
  <1>1. TypeOK
    BY DEF AssignerInvariant
  <1>2. CASE Goto(w, Idle)
    <2>1. Moves(w) /\ worker'[w] = Idle
      BY <1>1, <1>2 DEF Goto, Moves, TypeOK
    <2>2. worker'[w].at = "idle" /\ worker'[w] \in Held
      BY <2>1, IdleHeld
    <2>3. Fresh(w)'
      BY <2>2 DEF Fresh
    <2>4. QED
      BY <2>1, <2>2, <2>3, WorkerStep
  <1>3. ASSUME worker[w].at \notin {"idle", "release"}, NEW ok \in BOOLEAN, Finish(w, ok)
        PROVE  AssignerInvariant'
    <2>1. Moves(w) /\ worker'[w] = [Idle EXCEPT !.at = "release", !.ok = ok]
      BY <1>1, <1>3 DEF Finish, Goto, Moves, TypeOK
    <2>2. worker'[w] \in Held
      BY <2>1, EndedHeld
    <2>3. worker'[w].at = "release"
      BY <2>1 DEF Idle
    <2>4. Fresh(w)'
      BY <2>3 DEF Fresh
    <2>5. QED
      BY <1>3, <2>1, <2>2, <2>3, <2>4, WorkerStep
  <1>4. QED
    BY <1>2, <1>3

(***************************************************************************)
(* Steps of a run that only read.                                          *)
(***************************************************************************)
LEMMA InspectStep ==
  ASSUME AssignerInvariant, NEW w \in Workers, Inspect(w)
  PROVE  AssignerInvariant'
  <1>1. TypeOK /\ worker[w] \in Held
    BY DEF AssignerInvariant, TypeOK
  <1>2. PICK b \in Batches(Pending) :
          Goto(w, [worker[w] EXCEPT !.at = "resolve", !.batch = b, !.answer = Details(b)])
    BY DEF Inspect
  <1>3. b \in SUBSET Serials /\ \A s \in b : asg[s].status = "PENDING"
    BY DEF Batches, Pending
  <1>4. /\ Moves(w)
        /\ worker'[w] = [worker[w] EXCEPT !.at = "resolve", !.batch = b, !.answer = Details(b)]
    BY <1>1, <1>2 DEF Goto, Moves, TypeOK
  <1>5. /\ worker'[w] \in Held
        /\ worker'[w].at = "resolve" /\ worker'[w].batch = b /\ worker'[w].answer = Details(b)
    <2>1. Details(b) \in Answers
      BY <1>1, <1>3, AnswerValues
    <2>2. QED
      BY <1>1, <1>3, <1>4, <2>1 DEF Held, Stages
  <1>6. UNCHANGED <<choice, lease, asg, apple, unsure, hold, touched>>
    BY DEF Inspect, outside
  <1>7. Fresh(w)'
    BY <1>3, <1>5, <1>6 DEF Fresh, Details
  <1>8. QED
    BY <1>4, <1>5, <1>6, <1>7, WorkerStep DEF Inspect

\* candidates runs when nothing is pending, and passes over serials on hold.
LEMMA CandidatesStep ==
  ASSUME AssignerInvariant, NEW w \in Workers, Candidates(w)
  PROVE  AssignerInvariant'
  <1> DEFINE desired == worker[w].acct.desired
             todo == {s \in Serials : NeedsAssignment(s, desired[s]) /\ Due(s, desired[s])}
  <1>1. TypeOK /\ worker[w] \in Held
    BY DEF AssignerInvariant, TypeOK
  <1>2. /\ Moves(w)
        /\ worker'[w] = [worker[w] EXCEPT !.at = "batch", !.todo = todo]
    BY <1>1 DEF Candidates, Goto, Moves, TypeOK
  <1>3. worker'[w] \in Held /\ worker'[w].at = "batch" /\ worker'[w].todo = todo
    <2>1. todo \in SUBSET Serials
      OBVIOUS
    <2> HIDE DEF todo
    <2>2. QED
      BY <1>1, <1>2, <2>1 DEF Held, Stages
  <1>4. UNCHANGED <<choice, lease, asg, apple, unsure, hold, touched>>
    BY DEF Candidates, outside
  <1>5. unsure = {}
    BY <1>1 DEF Candidates, Pending, AssignerInvariant, UncertainIsPending, TypeOK
  <1>6. ASSUME LockLease(w) PROVE todo \cap hold = {}
    <2>1. ~lease.cooling
      BY <1>6 DEF AssignerInvariant, CoolingRests, LockLease, Candidates
    <2>2. \A s \in hold : asg[s].status = "THROTTLED" /\ asg[s].later
      BY <2>1 DEF AssignerInvariant, HoldOnRecord
    <2>3. QED
      BY <2>2 DEF Due
  <1>7. LockLease(w) => Fresh(w)'
    BY <1>3, <1>4, <1>5, <1>6 DEF Fresh
  <1>8. QED
    BY <1>2, <1>3, <1>4, <1>7, WorkerStep DEF Candidates

LEMMA ReadBackStep ==
  ASSUME AssignerInvariant, NEW w \in Workers, ReadBack(w)
  PROVE  AssignerInvariant'
  <1>1. TypeOK /\ worker[w] \in Held /\ LockLease(w) /\ Fresh(w)
    BY DEF AssignerInvariant, TypeOK, LeaseKept, ReadBack, Lock
  <1>2. /\ Moves(w)
        /\ worker'[w] = [worker[w] EXCEPT !.at = "write", !.answer = Details(worker[w].batch)]
    BY <1>1 DEF ReadBack, Goto, Moves, TypeOK
  <1>3. /\ worker'[w] \in Held
        /\ worker'[w].at = "write" /\ worker'[w].todo = worker[w].todo
    <2>1. worker[w].batch \in SUBSET Serials
      BY <1>1 DEF Held
    <2>2. Details(worker[w].batch) \in Answers
      BY <1>1, <2>1, AnswerValues
    <2>3. QED
      BY <1>1, <1>2, <2>2 DEF Held, Stages
  <1>4. UNCHANGED <<choice, lease, asg, apple, unsure, hold, touched>>
    BY DEF ReadBack, outside
  <1>5. Fresh(w)'
    BY <1>1, <1>3, <1>4 DEF Fresh, ReadBack
  <1>6. QED
    BY <1>2, <1>3, <1>4, <1>5, WorkerStep DEF ReadBack

(***************************************************************************)
(* Steps of a run that write under the lease.                              *)
(***************************************************************************)
LEMMA ResolveStep ==
  ASSUME AssignerInvariant, NEW w \in Workers, Resolve(w)
  PROVE  AssignerInvariant'
  <1> DEFINE held == worker[w]
  <1>1. TypeOK /\ held \in Held /\ LockLease(w) /\ Fresh(w) /\ held.at = "resolve"
    BY DEF AssignerInvariant, TypeOK, LeaseKept, Resolve, Lock
  <1>2. /\ Moves(w)
        /\ worker'[w] = [held EXCEPT !.at = "reconcile", !.batch = {}, !.answer = None]
    BY <1>1 DEF Resolve, Goto, Moves, TypeOK
  <1>3. worker'[w] \in Held /\ worker'[w].at = "reconcile"
    BY <1>1, <1>2 DEF Held, Stages
  <1>4. UNCHANGED <<choice, lease, apple, hold, touched>> /\ unsure' = unsure \ held.batch
    BY DEF Resolve, outside
  <1>5. \A s \in Serials :
          /\ asg'[s] \in Record
          /\ s \notin held.batch => asg'[s] = asg[s]
          /\ s \in held.batch => /\ asg'[s].status \in {"SUCCESS", "FAILED"}
                                 /\ asg'[s].profile = asg[s].profile
                                 /\ asg'[s].status = "SUCCESS" => asg[s].profile = held.answer[s]
    <2> TAKE s \in Serials
    <2>1. asg[s] \in Record
      BY <1>1 DEF TypeOK
    <2>2. CASE s \notin held.batch
      BY <2>1, <2>2 DEF Resolve
    <2>3. CASE s \in held.batch
      <3>1. PICK status \in {"SUCCESS", "FAILED"} :
              /\ asg'[s] = [asg[s] EXCEPT !.status = status, !.later = FALSE, !.newer = TRUE]
              /\ status = "SUCCESS" => asg[s].profile = held.answer[s]
        BY <2>3 DEF Resolve
      <3>2. QED
        BY <2>1, <2>3, <3>1 DEF Record
    <2>4. QED
      BY <2>2, <2>3
  <1>6. TypeOK'
    <2>1. asg' = [s \in Serials |-> asg'[s]]
      BY DEF Resolve
    <2>2. asg' \in [Serials -> Record]
      BY <1>5, <2>1
    <2>3. worker' \in [Workers -> Held]
      BY <1>1, <1>2, <1>3, MovesOne
    <2>4. QED
      BY <1>1, <1>4, <2>2, <2>3 DEF TypeOK
  <1>7. UncertainIsPending'
    BY <1>1, <1>4, <1>5 DEF AssignerInvariant, UncertainIsPending, TypeOK
  <1>8. SuccessHeld'
    BY <1>1, <1>4, <1>5 DEF AssignerInvariant, SuccessHeld, Fresh
  <1>9. HoldOnRecord'
    <2>1. ~lease.cooling
      BY <1>1 DEF AssignerInvariant, CoolingRests, LockLease
    <2>2. hold \cap held.batch = {}
      BY <1>1, <2>1 DEF AssignerInvariant, HoldOnRecord, Fresh
    <2>3. QED
      BY <1>1, <1>4, <1>5, <2>2 DEF AssignerInvariant, HoldOnRecord, TypeOK
  <1>10. Fresh(w)'
    BY <1>3 DEF Fresh
  <1>11. LeaseKept' /\ SendsUnderLease' /\ CoolingRests'
    BY <1>1, <1>2, <1>3, <1>4, <1>10, OwnerStep
  <1>12. QED
    BY <1>6, <1>7, <1>8, <1>9, <1>11 DEF AssignerInvariant

LEMMA MarkPendingStep ==
  ASSUME AssignerInvariant, NEW w \in Workers, MarkPending(w)
  PROVE  AssignerInvariant'
  <1> DEFINE held == worker[w]
  <1>1. TypeOK /\ held \in Held /\ LockLease(w) /\ Fresh(w) /\ held.at = "batch"
    BY DEF AssignerInvariant, TypeOK, LeaseKept, MarkPending, Lock
  <1>2. PICK b \in Batches(held.todo), p \in Profiles :
          /\ asg' = [s \in Serials |-> IF s \in b THEN [asg[s] EXCEPT !.profile = p,
                                                          !.status = "PENDING", !.newer = FALSE]
                                                   ELSE asg[s]]
          /\ Goto(w, [held EXCEPT !.at = "send", !.batch = b, !.profile = p, !.todo = @ \ b])
    BY DEF MarkPending
  <1>3. b \subseteq held.todo /\ b \in SUBSET Serials /\ p \in Chosen
    BY <1>1 DEF Batches, Held, Chosen
  <1>4. /\ Moves(w)
        /\ worker'[w] = [held EXCEPT !.at = "send", !.batch = b, !.profile = p, !.todo = @ \ b]
    BY <1>1, <1>2 DEF Goto, Moves, TypeOK
  <1>5. /\ worker'[w] \in Held /\ worker'[w].at = "send" /\ worker'[w].batch = b
        /\ worker'[w].todo = held.todo \ b
    <2>1. held.todo \ b \in SUBSET Serials
      BY <1>1 DEF Held
    <2>2. worker'[w] = [held EXCEPT !.at = "send", !.batch = b, !.profile = p,
                                    !.todo = held.todo \ b]
      BY <1>4
    <2>3. QED
      BY <1>1, <1>3, <2>1, <2>2 DEF Held, Stages
  <1>6. UNCHANGED <<choice, lease, apple, unsure, hold, touched>>
    BY DEF MarkPending, outside
  <1>7. \A s \in Serials :
          /\ asg'[s] \in Record
          /\ s \notin b => asg'[s] = asg[s]
          /\ s \in b => asg'[s].status = "PENDING"
    <2> TAKE s \in Serials
    <2>1. asg[s] \in Record
      BY <1>1 DEF TypeOK
    <2>2. CASE s \notin b
      BY <1>2, <2>1, <2>2
    <2>3. CASE s \in b
      <3>1. asg'[s] = [asg[s] EXCEPT !.profile = p, !.status = "PENDING", !.newer = FALSE]
        BY <1>2, <2>3
      <3>2. QED
        BY <1>3, <2>1, <2>3, <3>1 DEF Record
    <2>4. QED
      BY <2>2, <2>3
  <1>8. TypeOK'
    <2>1. asg' \in [Serials -> Record]
      BY <1>2, <1>7
    <2>2. worker' \in [Workers -> Held]
      BY <1>1, <1>4, <1>5, MovesOne
    <2>3. QED
      BY <1>1, <1>6, <2>1, <2>2 DEF TypeOK
  <1>9. UncertainIsPending' /\ SuccessHeld'
    BY <1>1, <1>6, <1>7 DEF AssignerInvariant, UncertainIsPending, SuccessHeld, TypeOK
  <1>10. b \cap hold = {} /\ b \cap unsure = {}
    BY <1>1, <1>3 DEF Fresh
  <1>11. HoldOnRecord'
    BY <1>1, <1>6, <1>7, <1>10 DEF AssignerInvariant, HoldOnRecord, TypeOK
  <1>12. Fresh(w)'
    BY <1>1, <1>3, <1>5, <1>6, <1>7, <1>10 DEF Fresh
  <1>13. LeaseKept' /\ SendsUnderLease' /\ CoolingRests'
    BY <1>1, <1>4, <1>5, <1>6, <1>12, OwnerStep
  <1>14. QED
    BY <1>8, <1>9, <1>11, <1>13 DEF AssignerInvariant

(***************************************************************************)
(* The request.  Its batch is on record as pending, so what Apple does     *)
(* with it contradicts no recorded success.                                *)
(***************************************************************************)
LEMMA RequestStep ==
  ASSUME AssignerInvariant, NEW w \in Workers, worker[w].at = "send",
         NEW b \in SUBSET worker[w].batch,
         apple' \in [Serials -> Chosen],
         \A s \in Serials \ b : apple'[s] = apple[s],
         touched' = touched \ b,
         unsure' = unsure \cup worker[w].batch,
         UNCHANGED <<choice, lease, asg, hold>>,
         Moves(w), worker'[w] \in Held, Fresh(w)'
  PROVE  AssignerInvariant'
  <1>1. /\ TypeOK /\ worker[w] \in Held /\ LockLease(w) /\ Fresh(w)
    BY DEF AssignerInvariant, TypeOK, LeaseKept, SendsUnderLease
  <1>2. worker[w].batch \subseteq Serials
    BY <1>1 DEF Held
  <1>3. \A s \in worker[w].batch : asg[s].status = "PENDING"
    BY <1>1 DEF Fresh
  <1>4. TypeOK'
    <2>1. worker' \in [Workers -> Held]
      BY <1>1, MovesOne
    <2>2. QED
      BY <1>1, <1>2, <2>1 DEF TypeOK
  <1>5. UncertainIsPending'
    BY <1>3 DEF AssignerInvariant, UncertainIsPending
  <1>6. SuccessHeld'
    BY <1>3 DEF AssignerInvariant, SuccessHeld
  <1>7. HoldOnRecord'
    BY DEF AssignerInvariant, HoldOnRecord
  <1>8. LeaseKept' /\ SendsUnderLease' /\ CoolingRests'
    BY <1>1, OwnerStep
  <1>9. QED
    BY <1>4, <1>5, <1>6, <1>7, <1>8 DEF AssignerInvariant

\* What a request under way may rely on.
LEMMA SendFacts ==
  ASSUME AssignerInvariant, NEW w \in Workers, worker[w].at = "send"
  PROVE  /\ TypeOK /\ worker[w] \in Held /\ LockLease(w) /\ Fresh(w)
         /\ worker[w].batch \in SUBSET Serials /\ worker[w].profile \in Chosen
         /\ worker[w].batch \cap worker[w].todo = {} /\ worker[w].batch \cap hold = {}
         /\ worker[w].todo \cap unsure = {} /\ worker[w].todo \cap hold = {}
  <1>1. TypeOK /\ worker[w] \in Held /\ LockLease(w) /\ Fresh(w)
    BY DEF AssignerInvariant, TypeOK, LeaseKept, SendsUnderLease
  <1>2. worker[w].batch \in SUBSET Serials /\ worker[w].profile \in Chosen
    BY <1>1 DEF Held
  <1>3. QED
    BY <1>1, <1>2 DEF Fresh

LEMMA AcceptedStep ==
  ASSUME AssignerInvariant, NEW w \in Workers, Accepted(w)
  PROVE  AssignerInvariant'
  <1> DEFINE held == worker[w]
             answer == [s \in held.batch |-> "SUCCESS"]
  <1>1. held.at = "send"
    BY DEF Accepted
  <1>2. /\ TypeOK /\ held \in Held /\ held.batch \in SUBSET Serials /\ held.profile \in Chosen
        /\ held.batch \cap held.todo = {} /\ held.batch \cap hold = {}
        /\ held.todo \cap unsure = {} /\ held.todo \cap hold = {}
    BY <1>1, SendFacts
  <1>3. /\ Moves(w)
        /\ worker'[w] = [held EXCEPT !.at = "record", !.answer = answer]
    BY <1>2 DEF Accepted, Goto, Moves, TypeOK
  <1>4. /\ worker'[w] \in Held /\ worker'[w].at = "record" /\ worker'[w].answer = answer
        /\ worker'[w].batch = held.batch /\ worker'[w].todo = held.todo
        /\ worker'[w].profile = held.profile
    <2>1. answer \in Answers
      BY <1>2, AnswerValues
    <2>2. QED
      BY <1>2, <1>3, <2>1 DEF Held, Stages
  <1>5. /\ apple' \in [Serials -> Chosen]
        /\ \A s \in Serials : apple'[s] = IF s \in held.batch THEN held.profile ELSE apple[s]
        /\ touched' = touched \ held.batch
    BY <1>2 DEF Accepted, Apply, TypeOK
  <1>6. UNCHANGED <<choice, lease, asg, hold>> /\ unsure' = unsure \cup held.batch
    BY DEF Accepted
  <1>7. Fresh(w)'
    BY <1>2, <1>4, <1>5, <1>6 DEF Fresh, Replies
  <1>8. QED
    BY <1>1, <1>3, <1>4, <1>5, <1>6, <1>7, RequestStep

LEMMA MixedStep ==
  ASSUME AssignerInvariant, NEW w \in Workers, Mixed(w)
  PROVE  AssignerInvariant'
  <1> DEFINE held == worker[w]
  <1>1. held.at = "send"
    BY DEF Mixed
  <1>2. /\ TypeOK /\ held \in Held /\ held.batch \in SUBSET Serials /\ held.profile \in Chosen
        /\ held.batch \cap held.todo = {} /\ held.batch \cap hold = {}
        /\ held.todo \cap unsure = {} /\ held.todo \cap hold = {}
    BY <1>1, SendFacts
  <1>3. PICK answer \in [held.batch -> Replies], lost \in SUBSET held.batch :
          /\ \A s \in lost : answer[s] = "missing"
          /\ Apply(lost \cup {s \in held.batch : answer[s] = "SUCCESS"}, held.profile)
          /\ Goto(w, [held EXCEPT !.at = "record", !.answer = answer])
    BY DEF Mixed
  <1> DEFINE b == lost \cup {s \in held.batch : answer[s] = "SUCCESS"}
  <1>4. /\ Moves(w)
        /\ worker'[w] = [held EXCEPT !.at = "record", !.answer = answer]
    BY <1>2, <1>3 DEF Goto, Moves, TypeOK
  <1>5. /\ worker'[w] \in Held /\ worker'[w].at = "record" /\ worker'[w].answer = answer
        /\ worker'[w].batch = held.batch /\ worker'[w].todo = held.todo
        /\ worker'[w].profile = held.profile
    <2>1. answer \in Answers
      BY <1>2, AnswerValues
    <2>2. QED
      BY <1>2, <1>4, <2>1 DEF Held, Stages
  <1>6. /\ apple' \in [Serials -> Chosen]
        /\ \A s \in Serials : apple'[s] = IF s \in b THEN held.profile ELSE apple[s]
        /\ touched' = touched \ b
    BY <1>2, <1>3 DEF Apply, TypeOK
  <1>7. UNCHANGED <<choice, lease, asg, hold>> /\ unsure' = unsure \cup held.batch
    BY DEF Mixed
  <1>8. \A s \in held.batch : answer[s] \in Replies /\ (answer[s] = "SUCCESS" => s \in b)
    OBVIOUS
  <1>9. Fresh(w)'
    BY <1>2, <1>5, <1>6, <1>7, <1>8 DEF Fresh
  <1>10. QED
    BY <1>1, <1>4, <1>5, <1>6, <1>7, <1>9, RequestStep

LEMMA TooManyRequestsStep ==
  ASSUME AssignerInvariant, NEW w \in Workers, TooManyRequests(w)
  PROVE  AssignerInvariant'
  <1> DEFINE held == worker[w]
  <1>1. held.at = "send"
    BY DEF TooManyRequests
  <1>2. TypeOK /\ held \in Held
    BY <1>1, SendFacts
  <1>3. Moves(w) /\ worker'[w] = [held EXCEPT !.at = "throttle"]
    BY <1>2 DEF TooManyRequests, Goto, Moves, TypeOK
  <1>4. worker'[w] \in Held /\ worker'[w].at = "throttle"
    BY <1>2, <1>3 DEF Held, Stages
  <1>5. UNCHANGED <<choice, lease, asg, hold, apple, touched>> /\ unsure' = unsure \cup held.batch
    BY DEF TooManyRequests, outside
  <1>6. Fresh(w)'
    BY <1>4 DEF Fresh
  <1>7. apple' \in [Serials -> Chosen]
    BY <1>2, <1>5 DEF TypeOK
  <1>8. {} \in SUBSET held.batch /\ touched' = touched \ {}
        /\ \A s \in Serials \ {} : apple'[s] = apple[s]
    BY <1>5
  <1>9. QED
    BY <1>1, <1>3, <1>4, <1>5, <1>6, <1>7, <1>8, RequestStep

LEMMA LostStep ==
  ASSUME AssignerInvariant, NEW w \in Workers, Lost(w)
  PROVE  AssignerInvariant'
  <1> DEFINE held == worker[w]
  <1>1. held.at = "send"
    BY DEF Lost
  <1>2. TypeOK /\ held \in Held /\ held.batch \in SUBSET Serials /\ held.profile \in Chosen
    BY <1>1, SendFacts
  <1>3. PICK b \in SUBSET held.batch : Apply(b, held.profile)
    BY DEF Lost
  <1>4. Moves(w) /\ worker'[w] = [Idle EXCEPT !.at = "release", !.ok = FALSE]
    BY <1>2 DEF Lost, Finish, Goto, Moves, TypeOK
  <1>5. worker'[w] \in Held
    BY <1>4, EndedHeld
  <1>6. worker'[w].at = "release"
    BY <1>4 DEF Idle
  <1>7. /\ apple' \in [Serials -> Chosen]
        /\ \A s \in Serials \ b : apple'[s] = apple[s]
        /\ touched' = touched \ b
    BY <1>2, <1>3 DEF Apply, TypeOK
  <1>8. UNCHANGED <<choice, lease, asg, hold>> /\ unsure' = unsure \cup held.batch
    BY DEF Lost
  <1>9. Fresh(w)'
    BY <1>6 DEF Fresh
  <1>10. QED
    BY <1>1, <1>4, <1>5, <1>7, <1>8, <1>9, RequestStep

(***************************************************************************)
(* Recording what became of it.                                            *)
(***************************************************************************)
LEMMA OutcomeRecorded ==
  ASSUME NEW s \in Serials, NEW reply \in Replies, NEW uuid \in Chosen
  PROVE  /\ Outcome(s, reply, uuid) \in Record
         /\ Outcome(s, reply, uuid).status = IF reply = "missing" THEN "PENDING" ELSE reply
         /\ Outcome(s, reply, uuid).profile = uuid
         /\ reply = "THROTTLED" => Outcome(s, reply, uuid).later
  <1>1. (reply \in {"FAILED", "THROTTLED"}) \in BOOLEAN
    BY SMT
  <1>2. (IF reply = "missing" THEN "PENDING" ELSE reply)
           \in {"none", "PENDING", "SUCCESS", "FAILED", "THROTTLED"}
    BY DEF Replies
  <1>3. QED
    BY <1>1, <1>2 DEF Outcome, Record

LEMMA RecordBatchStep ==
  ASSUME AssignerInvariant, NEW w \in Workers, RecordBatch(w)
  PROVE  AssignerInvariant'
  <1> DEFINE held == worker[w]
  <1>1. TypeOK /\ held \in Held /\ LockLease(w) /\ Fresh(w) /\ held.at = "record"
    BY DEF AssignerInvariant, TypeOK, LeaseKept, RecordBatch, Lock
  <1>2. /\ held.batch \cap held.todo = {} /\ held.batch \cap hold = {}
        /\ held.todo \cap unsure = {} /\ held.todo \cap hold = {}
        /\ \A s \in held.batch :
             /\ held.answer[s] \in Replies
             /\ s \notin touched /\ held.answer[s] = "SUCCESS" => apple[s] = held.profile
    BY <1>1 DEF Fresh
  <1>3. /\ Moves(w)
        /\ worker'[w] = [held EXCEPT !.at = "readback", !.answer = None]
    BY <1>1 DEF RecordBatch, Goto, Moves, TypeOK
  <1>4. worker'[w] \in Held /\ worker'[w].at = "readback" /\ worker'[w].todo = held.todo
    BY <1>1, <1>3 DEF Held, Stages
  <1>5. /\ UNCHANGED <<choice, lease, apple, touched>>
        /\ unsure' = unsure \ {s \in held.batch : held.answer[s] # "missing"}
        /\ hold' = hold \cup {s \in held.batch : held.answer[s] = "THROTTLED"}
    BY DEF RecordBatch, outside
  <1>6. held.batch \subseteq Serials /\ held.profile \in Chosen
    BY <1>1 DEF Held
  <1>7. \A s \in Serials :
          /\ asg'[s] \in Record
          /\ s \notin held.batch => asg'[s] = asg[s]
          /\ s \in held.batch =>
               /\ asg'[s].status = IF held.answer[s] = "missing" THEN "PENDING" ELSE held.answer[s]
               /\ asg'[s].profile = held.profile
               /\ held.answer[s] = "THROTTLED" => asg'[s].later
    <2> TAKE s \in Serials
    <2>1. CASE s \notin held.batch
      BY <1>1, <2>1 DEF RecordBatch, TypeOK
    <2>2. CASE s \in held.batch
      <3>1. asg'[s] = Outcome(s, held.answer[s], held.profile)
        BY <2>2 DEF RecordBatch
      <3>2. QED
        BY SMT, <1>2, <1>6, <2>2, <3>1, OutcomeRecorded
    <2>3. QED
      BY <2>1, <2>2
  <1>8. TypeOK'
    <2>1. asg' = [s \in Serials |-> asg'[s]]
      BY DEF RecordBatch
    <2>2. asg' \in [Serials -> Record]
      BY <1>7, <2>1
    <2>3. worker' \in [Workers -> Held]
      BY <1>1, <1>3, <1>4, MovesOne
    <2>4. QED
      BY <1>1, <1>5, <1>6, <2>2, <2>3 DEF TypeOK
  <1>9. UncertainIsPending'
    BY <1>1, <1>5, <1>6, <1>7 DEF AssignerInvariant, UncertainIsPending, TypeOK
  <1>10. SuccessHeld'
    <2> SUFFICES ASSUME NEW s \in Serials \ touched, asg'[s].status = "SUCCESS"
                 PROVE  apple[s] = asg'[s].profile
      BY <1>5 DEF SuccessHeld
    <2>1. CASE s \in held.batch
      BY <1>2, <1>7, <2>1
    <2>2. CASE s \notin held.batch
      BY <1>7, <2>2 DEF AssignerInvariant, SuccessHeld
    <2>3. QED
      BY <2>1, <2>2
  <1>11. HoldOnRecord'
    <2> SUFFICES ASSUME NEW s \in hold'
                 PROVE  lease.cooling \/ (asg'[s].status = "THROTTLED" /\ asg'[s].later)
      BY <1>5 DEF HoldOnRecord
    <2>1. CASE s \in held.batch
      BY <1>2, <1>5, <1>6, <1>7, <2>1
    <2>2. CASE s \notin held.batch
      BY <1>1, <1>5, <1>7, <2>2 DEF AssignerInvariant, HoldOnRecord, TypeOK
    <2>3. QED
      BY <2>1, <2>2
  <1>12. Fresh(w)'
    BY <1>2, <1>4, <1>5 DEF Fresh
  <1>13. LeaseKept' /\ SendsUnderLease' /\ CoolingRests'
    BY <1>1, <1>3, <1>4, <1>5, <1>12, OwnerStep
  <1>14. QED
    BY <1>8, <1>9, <1>10, <1>11, <1>13 DEF AssignerInvariant

LEMMA CooldownStep ==
  ASSUME AssignerInvariant, NEW w \in Workers, Cooldown(w)
  PROVE  AssignerInvariant'
  <1>1. TypeOK /\ worker[w].at \notin {"idle", "release", "send"} /\ Finish(w, FALSE)
    BY DEF AssignerInvariant, Cooldown
  <1>2. UNCHANGED <<choice, asg, apple, unsure, touched>>
    BY DEF Cooldown, outside
  <1>3. CASE UNCHANGED <<lease, hold>>
    BY <1>1, <1>2, <1>3, RunEnds
  <1>4. CASE LockLease(w) /\ lease' = [lease EXCEPT !.cooling = TRUE] /\ hold' = Serials
    <2>1. Moves(w) /\ worker'[w] = [Idle EXCEPT !.at = "release", !.ok = FALSE]
      BY <1>1 DEF Finish, Goto, Moves, TypeOK
    <2>2. worker'[w] \in Held
      BY <2>1, EndedHeld
    <2>3. worker'[w].at = "release" /\ worker'[w].ok = FALSE
      BY <2>1 DEF Idle
    <2>4. /\ worker' \in [Workers -> Held]
          /\ \A o \in Workers \ {w} : worker'[o] = worker[o]
      BY <1>1, <2>1, <2>2, MovesOne
    <2>5. /\ lease' \in [owner : Workers \cup {None}, live : BOOLEAN, cooling : BOOLEAN]
          /\ lease'.owner = w /\ lease'.live = lease.live /\ lease'.cooling
      BY <1>1, <1>4 DEF TypeOK, LockLease
    <2>6. TypeOK'
      BY <1>1, <1>2, <1>4, <2>4, <2>5 DEF TypeOK
    <2>7. UncertainIsPending' /\ SuccessHeld' /\ HoldOnRecord'
      BY <1>2, <2>5 DEF AssignerInvariant, UncertainIsPending, SuccessHeld, HoldOnRecord
    <2>8. Fresh(w)'
      BY <2>3 DEF Fresh
    <2>9. LeaseKept'
      BY <2>5, <2>8 DEF LeaseKept, LockLease
    <2>10. SendsUnderLease'
      BY <1>4, <2>3, <2>4 DEF AssignerInvariant, SendsUnderLease, LockLease
    <2>11. CoolingRests'
      BY <2>3, <2>5 DEF CoolingRests
    <2>12. QED
      BY <2>6, <2>7, <2>9, <2>10, <2>11 DEF AssignerInvariant
  <1>5. QED
    BY <1>3, <1>4 DEF Cooldown

LEMMA WriteBackStep ==
  ASSUME AssignerInvariant, NEW w \in Workers, WriteBack(w)
  PROVE  AssignerInvariant'
  <1> DEFINE held == worker[w]
  <1>1. TypeOK /\ held \in Held /\ LockLease(w) /\ Fresh(w) /\ held.at = "write"
    BY DEF AssignerInvariant, TypeOK, LeaseKept, WriteBack, Lock
  <1>2. /\ Moves(w)
        /\ worker'[w] = [held EXCEPT !.at = "batch", !.batch = {}, !.profile = None,
                                     !.answer = None]
    BY <1>1 DEF WriteBack, Goto, Moves, TypeOK
  <1>3. worker'[w] \in Held /\ worker'[w].at = "batch" /\ worker'[w].todo = held.todo
    BY <1>1, <1>2 DEF Held, Stages, Chosen
  <1>4. UNCHANGED <<choice, lease, apple, unsure, hold, touched>>
    BY DEF WriteBack, outside
  <1>5. \A s \in Serials :
          /\ asg'[s] \in Record /\ asg'[s].status = asg[s].status
          /\ asg'[s].profile = asg[s].profile /\ asg'[s].later = asg[s].later
    <2> TAKE s \in Serials
    <2>1. asg[s] \in Record
      BY <1>1 DEF TypeOK
    <2>2. asg'[s] = [asg[s] EXCEPT !.newer = asg[s].newer \/ s \in held.batch]
      BY DEF WriteBack
    <2>3. (asg[s].newer \/ s \in held.batch) \in BOOLEAN
      OBVIOUS
    <2>4. QED
      BY <2>1, <2>2, <2>3 DEF Record
  <1>6. TypeOK'
    <2>1. asg' = [s \in Serials |-> asg'[s]]
      BY DEF WriteBack
    <2>2. asg' \in [Serials -> Record]
      BY <1>5, <2>1
    <2>3. worker' \in [Workers -> Held]
      BY <1>1, <1>2, <1>3, MovesOne
    <2>4. QED
      BY <1>1, <1>4, <2>2, <2>3 DEF TypeOK
  <1>7. UncertainIsPending' /\ SuccessHeld' /\ HoldOnRecord'
    BY <1>1, <1>4, <1>5
    DEF AssignerInvariant, UncertainIsPending, SuccessHeld, HoldOnRecord, TypeOK
  <1>8. Fresh(w)'
    BY <1>1, <1>3, <1>4 DEF Fresh
  <1>9. LeaseKept' /\ SendsUnderLease' /\ CoolingRests'
    BY <1>1, <1>2, <1>3, <1>4, <1>8, OwnerStep
  <1>10. QED
    BY <1>6, <1>7, <1>9 DEF AssignerInvariant

(***************************************************************************)
(* The lease itself.                                                       *)
(***************************************************************************)
LEMMA ClaimStep ==
  ASSUME AssignerInvariant, NEW w \in Workers, Claim(w)
  PROVE  AssignerInvariant'
  <1>1. TypeOK
    BY DEF AssignerInvariant
  <1>2. Moves(w) /\ worker'[w] = [Idle EXCEPT !.at = "reconcile", !.acct = choice]
    BY <1>1 DEF Claim, Goto, Moves, TypeOK
  <1>3. worker'[w] \in Held /\ worker'[w].at = "reconcile"
    <2>1. choice \in Account
      BY <1>1 DEF TypeOK
    <2>2. QED
      BY <1>2, <2>1, IdleHeld DEF Idle, Held, Stages
  <1>4. /\ worker' \in [Workers -> Held]
        /\ \A o \in Workers \ {w} : worker'[o] = worker[o]
    BY <1>1, <1>2, <1>3, MovesOne
  <1>5. UNCHANGED <<choice, asg, apple, unsure, hold, touched>>
    BY DEF Claim, outside
  <1>6. /\ lease' \in [owner : Workers \cup {None}, live : BOOLEAN, cooling : BOOLEAN]
        /\ lease'.owner = w /\ lease'.cooling = lease.cooling /\ ~lease.cooling
    BY <1>1 DEF Claim, TypeOK
  <1>7. TypeOK'
    BY <1>1, <1>4, <1>5, <1>6 DEF TypeOK
  <1>8. UncertainIsPending' /\ SuccessHeld' /\ HoldOnRecord'
    BY <1>5, <1>6 DEF AssignerInvariant, UncertainIsPending, SuccessHeld, HoldOnRecord
  <1>9. Fresh(w)'
    BY <1>3 DEF Fresh
  <1>10. LeaseKept'
    BY <1>6, <1>9 DEF LeaseKept, LockLease
  <1>11. \A o \in Workers : worker[o].at # "send"
    BY DEF Claim, AssignerInvariant, SendsUnderLease, LockLease
  <1>12. SendsUnderLease'
    BY <1>3, <1>4, <1>11 DEF SendsUnderLease
  <1>13. CoolingRests'
    BY <1>6 DEF CoolingRests
  <1>14. QED
    BY <1>7, <1>8, <1>10, <1>12, <1>13 DEF AssignerInvariant

\* A run that noted a cooldown did not succeed, so its release keeps it.
LEMMA ReleaseStep ==
  ASSUME AssignerInvariant, NEW w \in Workers, Release(w)
  PROVE  AssignerInvariant'
  <1>1. TypeOK /\ Goto(w, Idle)
    BY DEF AssignerInvariant, Release
  <1>2. UNCHANGED <<choice, asg, apple, unsure, hold, touched>>
    BY DEF Release, outside
  <1>3. CASE lease.owner # w
    BY <1>1, <1>2, <1>3, RunEnds DEF Release
  <1>4. CASE lease.owner = w
    <2>1. Moves(w) /\ worker'[w] = Idle
      BY <1>1 DEF Goto, Moves, TypeOK
    <2>2. worker'[w].at = "idle" /\ worker'[w] \in Held
      BY <2>1, IdleHeld
    <2>3. /\ worker' \in [Workers -> Held]
          /\ \A o \in Workers \ {w} : worker'[o] = worker[o]
      BY <1>1, <2>1, <2>2, MovesOne
    <2>4. lease' = [owner |-> None, live |-> FALSE, cooling |-> lease.cooling /\ ~worker[w].ok]
      BY <1>4 DEF Release
    <2>5. lease.cooling => ~worker[w].ok
      BY <1>4 DEF AssignerInvariant, CoolingRests
    <2>6. /\ lease' \in [owner : Workers \cup {None}, live : BOOLEAN, cooling : BOOLEAN]
          /\ lease'.owner = None /\ (lease.cooling => lease'.cooling)
      <3>1. (lease.cooling /\ ~worker[w].ok) \in BOOLEAN
        OBVIOUS
      <3>2. QED
        BY <2>4, <2>5, <3>1
    <2>7. TypeOK'
      BY <1>1, <1>2, <2>3, <2>6 DEF TypeOK
    <2>8. UncertainIsPending' /\ SuccessHeld' /\ HoldOnRecord'
      BY <1>2, <2>6 DEF AssignerInvariant, UncertainIsPending, SuccessHeld, HoldOnRecord
    <2>9. LeaseKept' /\ CoolingRests'
      BY <2>6 DEF LeaseKept, CoolingRests, LockLease
    <2>10. \A o \in Workers : worker[o].at # "send"
      BY <1>4 DEF AssignerInvariant, SendsUnderLease, LockLease, Release
    <2>11. SendsUnderLease'
      BY <2>2, <2>3, <2>10 DEF SendsUnderLease
    <2>12. QED
      BY <2>7, <2>8, <2>9, <2>11 DEF AssignerInvariant
  <1>5. QED
    BY <1>3, <1>4

(***************************************************************************)
(* Steps around the runs: time, the account, the portal and the sync.      *)
(***************************************************************************)
LEMMA AroundStep ==
  ASSUME AssignerInvariant, TypeOK', HoldOnRecord', UNCHANGED <<worker, unsure>>,
         \A s \in Serials : asg'[s].status = asg[s].status /\ asg'[s].profile = asg[s].profile,
         hold' \subseteq hold, touched \subseteq touched',
         \A s \in Serials \ touched' : apple'[s] = apple[s],
         lease'.owner = lease.owner, lease'.live => lease.live, lease'.cooling => lease.cooling,
         lease'.live = lease.live \/ \A w \in Workers : worker[w].at # "send"
  PROVE  AssignerInvariant'
  <1>1. /\ TypeOK /\ UncertainIsPending /\ SuccessHeld /\ LeaseKept
        /\ SendsUnderLease /\ CoolingRests
    BY DEF AssignerInvariant
  <1>2. UncertainIsPending'
    BY <1>1 DEF UncertainIsPending, TypeOK
  <1>3. SuccessHeld'
    BY <1>1 DEF SuccessHeld
  <1>4. ASSUME NEW w \in Workers, LockLease(w)' PROVE Fresh(w)'
    <2>1. Fresh(w) /\ worker[w] \in Held
      BY <1>1, <1>4 DEF LeaseKept, LockLease, TypeOK
    <2>2. worker[w].batch \subseteq Serials
      BY <2>1 DEF Held
    <2>3. QED
      BY <2>1, <2>2 DEF Fresh
  <1>5. SendsUnderLease'
    BY <1>1 DEF SendsUnderLease, LockLease
  <1>6. CoolingRests'
    BY <1>1 DEF CoolingRests
  <1>7. QED
    BY <1>2, <1>3, <1>4, <1>5, <1>6 DEF AssignerInvariant, LeaseKept

LEMMA LeaseExpiresStep ==
  ASSUME AssignerInvariant, LeaseExpires
  PROVE  AssignerInvariant'
  <1>1. TypeOK
    BY DEF AssignerInvariant
  <1>2. UNCHANGED <<choice, asg, apple, worker, unsure, hold, touched>>
    BY DEF LeaseExpires, outside
  <1>3. /\ lease' \in [owner : Workers \cup {None}, live : BOOLEAN, cooling : BOOLEAN]
        /\ lease'.owner = lease.owner /\ lease'.live = FALSE /\ lease'.cooling = lease.cooling
        /\ lease.live /\ worker[lease.owner].at # "send"
    BY <1>1 DEF LeaseExpires, TypeOK
  <1>4. \A w \in Workers : worker[w].at # "send"
    BY <1>3 DEF AssignerInvariant, SendsUnderLease, LockLease
  <1>5. TypeOK' /\ HoldOnRecord'
    BY <1>1, <1>2, <1>3 DEF TypeOK, AssignerInvariant, HoldOnRecord
  <1>6. QED
    BY <1>2, <1>3, <1>4, <1>5, AroundStep

LEMMA CooldownEndsStep ==
  ASSUME AssignerInvariant, CooldownEnds
  PROVE  AssignerInvariant'
  <1>1. TypeOK
    BY DEF AssignerInvariant
  <1>2. UNCHANGED <<choice, apple, worker, unsure, touched>> /\ hold' = {}
    BY DEF CooldownEnds, outside
  <1>3. /\ lease' \in [owner : Workers \cup {None}, live : BOOLEAN, cooling : BOOLEAN]
        /\ lease'.owner = lease.owner /\ lease'.live = lease.live /\ ~lease'.cooling
    BY <1>1 DEF CooldownEnds, TypeOK
  <1>4. \A s \in Serials : /\ asg'[s] \in Record /\ asg'[s].status = asg[s].status
                           /\ asg'[s].profile = asg[s].profile
    <2> TAKE s \in Serials
    <2>1. asg[s] \in Record /\ asg'[s] = [asg[s] EXCEPT !.later = FALSE]
      BY <1>1 DEF TypeOK, CooldownEnds
    <2>2. QED
      BY <2>1 DEF Record
  <1>5. TypeOK'
    <2>1. asg' = [s \in Serials |-> asg'[s]]
      BY DEF CooldownEnds
    <2>2. asg' \in [Serials -> Record]
      BY <1>4, <2>1
    <2>3. QED
      BY <1>1, <1>2, <1>3, <2>2 DEF TypeOK
  <1>6. HoldOnRecord'
    BY <1>2 DEF HoldOnRecord
  <1>7. QED
    BY <1>2, <1>3, <1>4, <1>5, <1>6, AroundStep

LEMMA AccountStep ==
  ASSUME AssignerInvariant,
         RenewTokens \/ \E s \in Serials, p \in Chosen : SetTarget(s, p)
  PROVE  AssignerInvariant'
  <1>1. TypeOK /\ choice \in Account
    BY DEF AssignerInvariant, TypeOK
  <1>2. UNCHANGED <<lease, asg, apple, worker, unsure, hold, touched>>
    BY DEF RenewTokens, SetTarget
  <1>3. choice' \in Account
    <2>1. CASE RenewTokens
      BY SMT, <1>1, <2>1 DEF RenewTokens, Account
    <2>2. ASSUME NEW s \in Serials, NEW p \in Chosen, SetTarget(s, p)
          PROVE  choice' \in Account
      <3>1. /\ choice.desired \in [Serials -> Chosen] /\ choice.revision + 1 \in Nat
            /\ choice.revision \in Nat
        BY SMT, <1>1 DEF Account
      <3>2. choice' = [choice EXCEPT !.desired = [choice.desired EXCEPT ![s] = p],
                                     !.revision = choice.revision + 1]
        BY <1>1, <2>2 DEF SetTarget, Account
      <3>3. [choice.desired EXCEPT ![s] = p] \in [Serials -> Chosen]
        BY <3>1
      <3>4. QED
        BY <1>1, <3>1, <3>2, <3>3 DEF Account
    <2>3. QED
      BY <2>1, <2>2
  <1>4. TypeOK' /\ HoldOnRecord'
    BY <1>1, <1>2, <1>3 DEF TypeOK, AssignerInvariant, HoldOnRecord
  <1>5. QED
    BY <1>2, <1>4, AroundStep

LEMMA PortalAssignStep ==
  ASSUME AssignerInvariant, NEW s \in Serials, NEW p \in Chosen, PortalAssign(s, p)
  PROVE  AssignerInvariant'
  <1>1. TypeOK
    BY DEF AssignerInvariant
  <1>2. UNCHANGED <<choice, lease, asg, worker, unsure, hold>>
    BY DEF PortalAssign
  <1>3. /\ apple' \in [Serials -> Chosen] /\ touched' = touched \cup {s}
        /\ \A o \in Serials \ {s} : apple'[o] = apple[o]
    BY <1>1 DEF PortalAssign, TypeOK
  <1>4. TypeOK' /\ HoldOnRecord'
    BY <1>1, <1>2, <1>3 DEF TypeOK, AssignerInvariant, HoldOnRecord
  <1>5. QED
    BY <1>2, <1>3, <1>4, AroundStep

LEMMA SyncStep ==
  ASSUME AssignerInvariant, NEW s \in Serials, Sync(s)
  PROVE  AssignerInvariant'
  <1>1. TypeOK
    BY DEF AssignerInvariant
  <1>2. UNCHANGED <<choice, lease, apple, worker, unsure, hold, touched>>
    BY DEF Sync, SyncPage, SyncCommit
  <1>3. /\ asg' \in [Serials -> Record]
        /\ \A o \in Serials : /\ asg'[o].status = asg[o].status /\ asg'[o].later = asg[o].later
                              /\ asg'[o].profile = asg[o].profile
    <2>1. CASE SyncPage(s)
      BY <1>1, <2>1 DEF SyncPage, TypeOK
    <2>2. CASE SyncCommit(s)
      <3>1. asg[s] \in Record /\ asg' = [asg EXCEPT ![s] = [asg[s] EXCEPT !.newer = TRUE]]
        BY <1>1, <2>2 DEF SyncCommit, TypeOK
      <3>2. /\ [asg[s] EXCEPT !.newer = TRUE] \in Record
            /\ [asg[s] EXCEPT !.newer = TRUE].status = asg[s].status
            /\ [asg[s] EXCEPT !.newer = TRUE].later = asg[s].later
            /\ [asg[s] EXCEPT !.newer = TRUE].profile = asg[s].profile
        BY <3>1 DEF Record
      <3>3. QED
        BY <1>1, <3>1, <3>2 DEF TypeOK
    <2>3. QED
      BY <2>1, <2>2 DEF Sync
  <1>4. TypeOK' /\ HoldOnRecord'
    BY <1>1, <1>2, <1>3 DEF TypeOK, AssignerInvariant, HoldOnRecord
  <1>5. QED
    BY <1>2, <1>3, <1>4, AroundStep

(***************************************************************************)
(* The invariant and what follows from it.                                 *)
(***************************************************************************)
LEMMA AssignerInit == Init => AssignerInvariant
  <1> SUFFICES ASSUME Init PROVE AssignerInvariant
    OBVIOUS
  <1>1. TypeOK
    <2>1. choice \in Account
      BY SMT DEF Init, Account
    <2>2. asg \in [Serials -> Record]
      BY DEF Init, NoRecord, Record, Chosen
    <2>3. worker \in [Workers -> Held]
      BY IdleHeld DEF Init
    <2>4. QED
      BY <2>1, <2>2, <2>3 DEF TypeOK, Init, Chosen
  <1>2. \A w \in Workers : worker[w].at = "idle"
    BY IdleHeld DEF Init
  <1>3. LeaseKept /\ SendsUnderLease /\ CoolingRests
    BY <1>2 DEF LeaseKept, SendsUnderLease, CoolingRests, LockLease, Init
  <1>4. UncertainIsPending /\ SuccessHeld /\ HoldOnRecord
    BY DEF Init, UncertainIsPending, SuccessHeld, HoldOnRecord, NoRecord
  <1>5. QED
    BY <1>1, <1>3, <1>4 DEF AssignerInvariant

LEMMA AssignerStep == AssignerInvariant /\ [Next]_vars => AssignerInvariant'
  <1> SUFFICES ASSUME AssignerInvariant, [Next]_vars PROVE AssignerInvariant'
    OBVIOUS
  <1>1. ASSUME NEW w \in Workers, Step(w) PROVE AssignerInvariant'
    <2>1. CASE Done(w) \/ Conflict(w)
      <3>1. /\ worker[w].at \notin {"idle", "release"} /\ \E ok \in BOOLEAN : Finish(w, ok)
            /\ UNCHANGED <<choice, lease, asg, apple, unsure, hold, touched>>
        BY <2>1 DEF Done, Conflict, outside
      <3>2. QED
        BY <3>1, RunEnds
    <2>2. QED
      BY <1>1, <2>1, ClaimStep, InspectStep, ResolveStep, CandidatesStep, MarkPendingStep,
         AcceptedStep, RecordBatchStep, CooldownStep, ReadBackStep, WriteBackStep, ReleaseStep
      DEF Step
  <1>2. ASSUME NEW w \in Workers, Fail(w) \/ Crash(w) PROVE AssignerInvariant'
    <2>1. /\ \/ Goto(w, Idle)
             \/ worker[w].at \notin {"idle", "release"} /\ \E ok \in BOOLEAN : Finish(w, ok)
          /\ UNCHANGED <<choice, lease, asg, apple, unsure, hold, touched>>
      BY <1>2 DEF Fail, Crash, outside
    <2>2. QED
      BY <2>1, RunEnds
  <1>3. CASE UNCHANGED vars
    <2>1. UNCHANGED <<choice, lease, asg, apple, worker, unsure, hold, touched>>
      BY <1>3 DEF vars
    <2>2. TypeOK' /\ HoldOnRecord'
      BY <2>1 DEF AssignerInvariant, TypeOK, HoldOnRecord
    <2>3. QED
      BY <2>1, <2>2, AroundStep
  <1>4. QED
    BY <1>1, <1>2, <1>3, MixedStep, TooManyRequestsStep, LostStep, SyncStep, PortalAssignStep,
       AccountStep, LeaseExpiresStep, CooldownEndsStep
    DEF Next

\* The runs, the account's administrators, the portal and the sync keep the
\* assigner's invariant in every interleaving.
THEOREM AssignerSafety == Spec => []AssignerInvariant
  BY AssignerInit, AssignerStep, PTL DEF Spec

\* A serial whose last request is unsettled is never part of another one.
THEOREM NeverResubmitsBlind == Spec => []NoBlindResubmit
  <1>1. AssignerInvariant => NoBlindResubmit
    BY DEF AssignerInvariant, NoBlindResubmit, SendsUnderLease, LeaseKept, Fresh
  <1>2. QED
    BY <1>1, AssignerSafety, PTL

\* A recorded success is what Apple holds unless the portal changed it since.
THEOREM SuccessIsHeld == Spec => []SuccessHeld
  <1>1. AssignerInvariant => SuccessHeld
    BY DEF AssignerInvariant
  <1>2. QED
    BY <1>1, AssignerSafety, PTL

\* No worker sends a request for a serial Apple asked it to wait for.
THEOREM DelaysRespected == Spec => []CooldownRespected
  <1>1. AssignerInvariant => CooldownRespected
    BY DEF AssignerInvariant, CooldownRespected, SendsUnderLease, LeaseKept, Fresh
  <1>2. QED
    BY <1>1, AssignerSafety, PTL

(***************************************************************************)
(* Write-ahead.  Apple's assignments are changed by a request that is on   *)
(* record, and nobody rewrites that record while the request is under way. *)
(***************************************************************************)
WrittenAhead ==
    \A s \in Serials : apple'[s] # apple[s] =>
       \/ s \in touched'
       \/ asg[s].status = "PENDING" /\ asg[s].profile = apple'[s] /\ asg'[s] = asg[s]

\* The record of a request under way names its profile.
Named(w) == worker[w].at = "send" => \A s \in worker[w].batch : asg[s].profile = worker[w].profile
RequestsNamed == \A w \in Workers : Named(w)

\* While one run records under the lease, no other has a request under way.
LEMMA NoOtherSends ==
  ASSUME AssignerInvariant, NEW w \in Workers, LockLease(w)
  PROVE  \A v \in Workers \ {w} : worker[v].at # "send"
  BY DEF AssignerInvariant, SendsUnderLease, LockLease

LEMMA NamedMoves ==
  ASSUME AssignerInvariant, RequestsNamed, NEW w \in Workers, NEW held, Goto(w, held),
         held.at # "send",
         LockLease(w) \/ \A s \in Serials : asg'[s].profile = asg[s].profile
  PROVE  RequestsNamed'
  <1>1. TypeOK
    BY DEF AssignerInvariant
  <1>2. worker'[w] = held /\ \A v \in Workers \ {w} : worker'[v] = worker[v]
    BY <1>1 DEF Goto, TypeOK
  <1>3. \A v \in Workers : worker[v].batch \subseteq Serials
    BY SMT, <1>1 DEF TypeOK, Held
  <1>4. Named(w)'
    BY <1>2 DEF Named
  <1>5. ASSUME NEW v \in Workers \ {w} PROVE Named(v)'
    <2>1. worker'[v] = worker[v] /\ Named(v)
      BY <1>2 DEF RequestsNamed
    <2>2. CASE LockLease(w)
      BY <2>1, <2>2, NoOtherSends DEF Named
    <2>3. CASE \A s \in Serials : asg'[s].profile = asg[s].profile
      BY <1>3, <2>1, <2>3 DEF Named
    <2>4. QED
      BY <2>2, <2>3
  <1>6. QED
    BY <1>4, <1>5 DEF RequestsNamed

LEMMA NamedMark ==
  ASSUME AssignerInvariant, RequestsNamed, NEW w \in Workers, MarkPending(w)
  PROVE  RequestsNamed'
  <1>1. TypeOK /\ LockLease(w) /\ worker[w] \in Held
    BY DEF AssignerInvariant, MarkPending, Lock, TypeOK
  <1>2. PICK b \in Batches(worker[w].todo), p \in Profiles :
          /\ asg' = [s \in Serials |-> IF s \in b THEN [asg[s] EXCEPT !.profile = p,
                                                          !.status = "PENDING", !.newer = FALSE]
                                                   ELSE asg[s]]
          /\ Goto(w, [worker[w] EXCEPT !.at = "send", !.batch = b, !.profile = p, !.todo = @ \ b])
    BY DEF MarkPending
  <1>3. PICK held : held = [worker[w] EXCEPT !.at = "send", !.batch = b, !.profile = p, !.todo = @ \ b]
    OBVIOUS
  <1>4. held.batch = b /\ held.profile = p /\ b \subseteq Serials
    BY SMT, <1>1, <1>3 DEF Held, Batches
  <1>5. worker'[w] = held /\ \A v \in Workers \ {w} : worker'[v] = worker[v]
    BY <1>1, <1>2, <1>3 DEF Goto, TypeOK
  <1>6. \A s \in b : asg'[s].profile = p
    <2>1. SUFFICES ASSUME NEW s \in b PROVE asg'[s].profile = p
      OBVIOUS
    <2>2. asg[s] \in Record
      BY <1>1, <1>4 DEF TypeOK
    <2>3. asg'[s] = [asg[s] EXCEPT !.profile = p, !.status = "PENDING", !.newer = FALSE]
      BY <1>2, <1>4
    <2>4. QED
      BY <2>2, <2>3 DEF Record
  <1>7. Named(w)'
    BY <1>4, <1>5, <1>6 DEF Named
  <1>8. \A v \in Workers \ {w} : Named(v)'
    BY <1>1, <1>5, NoOtherSends DEF Named
  <1>9. QED
    BY <1>7, <1>8 DEF RequestsNamed

LEMMA NamedRests ==
  ASSUME TypeOK, RequestsNamed, UNCHANGED worker,
         \A s \in Serials : asg'[s].profile = asg[s].profile
  PROVE  RequestsNamed'
  <1>1. \A v \in Workers : worker[v].batch \subseteq Serials
    BY SMT DEF TypeOK, Held
  <1>2. QED
    BY <1>1 DEF RequestsNamed, Named

LEMMA EndedAt ==
  ASSUME NEW w \in Workers, NEW ok, Finish(w, ok)
  PROVE  \E held : Goto(w, held) /\ held.at # "send"
  <1>1. PICK held : held = [Idle EXCEPT !.at = "release", !.ok = ok]
    OBVIOUS
  <1>2. held.at = "release"
    BY <1>1 DEF Idle
  <1>3. QED
    BY <1>1, <1>2 DEF Finish

LEMMA NamedStep ==
  ASSUME AssignerInvariant, RequestsNamed, [Next]_vars
  PROVE  RequestsNamed'
  <1>1. TypeOK /\ asg \in [Serials -> Record]
    BY DEF AssignerInvariant, TypeOK
  <1>2. ASSUME NEW w \in Workers, NEW held, Goto(w, held), held.at # "send",
               LockLease(w) \/ UNCHANGED asg
        PROVE  RequestsNamed'
    BY <1>2, NamedMoves
  <1>3. ASSUME NEW w \in Workers, NEW ok, Finish(w, ok), UNCHANGED asg PROVE RequestsNamed'
    BY <1>2, <1>3, EndedAt
  <1>4. ASSUME NEW w \in Workers,
               Step(w) \/ Mixed(w) \/ TooManyRequests(w) \/ Lost(w) \/ Fail(w) \/ Crash(w)
        PROVE  RequestsNamed'
    <2>1. worker[w] \in Held
      BY <1>1 DEF TypeOK
    <2>2. Goto(w, Idle) /\ UNCHANGED asg => RequestsNamed'
      <3>1. Idle.at # "send"
        BY IdleHeld
      <3>2. QED
        BY <1>2, <3>1
    <2>3. CASE Claim(w)
      <3>1. PICK held : held = [Idle EXCEPT !.at = "reconcile", !.acct = choice]
        OBVIOUS
      <3>2. held.at = "reconcile"
        BY <3>1 DEF Idle
      <3>3. QED
        BY <1>2, <2>3, <3>1, <3>2 DEF Claim
    <2>4. CASE MarkPending(w)
      BY <2>4, NamedMark
    <2>5. ASSUME NEW held, Goto(w, held), LockLease(w) \/ UNCHANGED asg,
                 \E at \in Stages \ {"send"} : \E b, t, a :
                    \/ held = [worker[w] EXCEPT !.at = at]
                    \/ held = [worker[w] EXCEPT !.at = at, !.answer = a]
                    \/ held = [worker[w] EXCEPT !.at = at, !.todo = t]
                    \/ held = [worker[w] EXCEPT !.at = at, !.batch = b, !.answer = a]
          PROVE  RequestsNamed'
      <3>1. held.at # "send"
        BY <2>1, <2>5 DEF Held
      <3>2. QED
        BY <1>2, <2>5, <3>1
    <2>6. CASE WriteBack(w)
      <3>1. PICK held : held = [worker[w] EXCEPT !.at = "batch", !.batch = {}, !.profile = None,
                                                 !.answer = None]
        OBVIOUS
      <3>2. held.at # "send" /\ LockLease(w) /\ Goto(w, held)
        BY <2>1, <2>6, <3>1 DEF Held, WriteBack, Lock
      <3>3. QED
        BY <1>2, <3>2
    <2>7. CASE Inspect(w) \/ Resolve(w) \/ Candidates(w) \/ Accepted(w) \/ Mixed(w)
               \/ TooManyRequests(w) \/ RecordBatch(w) \/ ReadBack(w)
      <3>1. LockLease(w) \/ UNCHANGED asg
        BY <2>7 DEF Inspect, Resolve, Candidates, Accepted, Mixed, TooManyRequests, RecordBatch,
                    ReadBack, Lock, outside
      <3>2. CASE Inspect(w)
        BY <2>5, <3>1, <3>2 DEF Inspect, Stages
      <3>3. CASE Resolve(w)
        BY <2>5, <3>1, <3>3 DEF Resolve, Stages
      <3>4. CASE Candidates(w)
        BY <2>5, <3>1, <3>4 DEF Candidates, Stages
      <3>5. CASE Accepted(w)
        BY <2>5, <3>1, <3>5 DEF Accepted, Stages
      <3>6. CASE Mixed(w)
        BY <2>5, <3>1, <3>6 DEF Mixed, Stages
      <3>7. CASE TooManyRequests(w)
        BY <2>5, <3>1, <3>7 DEF TooManyRequests, Stages
      <3>8. CASE RecordBatch(w)
        BY <2>5, <3>1, <3>8 DEF RecordBatch, Stages
      <3>9. CASE ReadBack(w)
        BY <2>5, <3>1, <3>9 DEF ReadBack, Stages
      <3>10. QED
        BY <2>7, <3>2, <3>3, <3>4, <3>5, <3>6, <3>7, <3>8, <3>9
    <2>8. CASE Done(w) \/ Cooldown(w) \/ Conflict(w) \/ Lost(w) \/ Fail(w)
      BY <1>3, <2>8 DEF Done, Cooldown, Conflict, Lost, Fail
    <2>9. CASE Release(w) \/ Crash(w)
      BY <2>2, <2>9 DEF Release, Crash
    <2>10. QED
      BY <1>4, <2>3, <2>4, <2>6, <2>7, <2>8, <2>9 DEF Step
  <1>5. ASSUME NEW s \in Serials, SyncCommit(s) PROVE RequestsNamed'
    <2>1. \A t \in Serials : asg'[t].profile = asg[t].profile
      BY SMT, <1>1, <1>5 DEF SyncCommit, Record
    <2>2. QED
      BY <1>1, <1>5, <2>1, NamedRests DEF SyncCommit
  <1>6. CASE CooldownEnds
    <2>1. \A t \in Serials : asg'[t].profile = asg[t].profile
      BY SMT, <1>1, <1>6 DEF CooldownEnds, Record
    <2>2. QED
      BY <1>1, <1>6, <2>1, NamedRests DEF CooldownEnds
  <1>7. CASE UNCHANGED <<asg, worker>>
    BY <1>1, <1>7, NamedRests
  <1>8. QED
    BY <1>4, <1>5, <1>6, <1>7
    DEF Next, Sync, SyncPage, SetTarget, PortalAssign, LeaseExpires, RenewTokens, vars

LEMMA AheadStep ==
  ASSUME AssignerInvariant, RequestsNamed, [Next]_vars
  PROVE  WrittenAhead
  <1>1. TypeOK
    BY DEF AssignerInvariant
  <1>2. CASE UNCHANGED apple
    BY <1>2 DEF WrittenAhead
  <1>3. ASSUME NEW w \in Workers, NEW b, b \subseteq worker[w].batch, worker[w].at = "send",
               Apply(b, worker[w].profile), UNCHANGED asg
        PROVE  WrittenAhead
    <2>1. \A s \in worker[w].batch : asg[s].status = "PENDING" /\ asg[s].profile = worker[w].profile
      BY <1>3 DEF AssignerInvariant, SendsUnderLease, LeaseKept, Fresh, RequestsNamed, Named
    <2>2. QED
      BY <1>3, <2>1 DEF Apply, WrittenAhead
  <1>4. ASSUME NEW w \in Workers, Accepted(w) \/ Mixed(w) \/ Lost(w) PROVE WrittenAhead
    <2>1. PICK b : b \subseteq worker[w].batch /\ Apply(b, worker[w].profile)
      <3>1. CASE Accepted(w)
        BY <3>1 DEF Accepted
      <3>2. CASE Mixed(w)
        BY <3>2 DEF Mixed
      <3>3. CASE Lost(w)
        BY <3>3 DEF Lost
      <3>4. QED
        BY <1>4, <3>1, <3>2, <3>3
    <2>2. worker[w].at = "send" /\ UNCHANGED asg
      BY <1>4 DEF Accepted, Mixed, Lost
    <2>3. QED
      BY <1>3, <2>1, <2>2
  <1>5. ASSUME NEW s \in Serials, NEW p \in Chosen, PortalAssign(s, p) PROVE WrittenAhead
    BY <1>1, <1>5 DEF PortalAssign, WrittenAhead, TypeOK
  <1>6. Next => \/ UNCHANGED apple
                \/ \E w \in Workers : Accepted(w) \/ Mixed(w) \/ Lost(w)
                \/ \E s \in Serials, p \in Chosen : PortalAssign(s, p)
    BY DEF Next, Step, Claim, Inspect, Resolve, Candidates, MarkPending, Done, RecordBatch, Cooldown,
           ReadBack, WriteBack, Conflict, Release, TooManyRequests, Fail, Crash, Sync, SyncPage,
           SyncCommit, SetTarget, LeaseExpires, CooldownEnds, RenewTokens, outside
  <1>7. QED
    BY <1>2, <1>4, <1>5, <1>6 DEF vars

\* markPending is a write-ahead record: whatever leases ran out, targets or
\* tokens changed and processes died meanwhile, Apple's assignment of a device
\* changes, outside its portal, only to the profile the device's record then
\* shows as pending.
THEOREM RecordsWrittenAhead == Spec => [][WrittenAhead]_vars
  <1>1. Init => RequestsNamed
    BY IdleHeld DEF Init, RequestsNamed, Named
  <1>2. AssignerInvariant /\ RequestsNamed /\ [Next]_vars => RequestsNamed'
    BY NamedStep
  <1>3. AssignerInvariant /\ RequestsNamed /\ [Next]_vars => [WrittenAhead]_vars
    BY AheadStep
  <1>4. QED
    BY <1>1, <1>2, <1>3, AssignerSafety, PTL DEF Spec
=============================================================================
