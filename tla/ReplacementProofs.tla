-------------------------- MODULE ReplacementProofs --------------------------
(***************************************************************************)
(* Proofs about Replacement for any devices, user channels, certificates,  *)
(* attempts and number of concurrent handlers.                             *)
(***************************************************************************)
EXTENDS Replacement, EnrollmentStoreProofs

\* Zenon proves most leaves; those on arithmetic and records name SMT.
USE ZenonT(20), IdsAssumption, NoneAssumption, CandidatesAssumption, AttemptsAssumption
    DEF IdsAssumption, NoneAssumption, CandidatesAssumption, AttemptsAssumption, Ids

(***************************************************************************)
(* The store.  The promotion is the one change of it that is not one of    *)
(* its own operations.                                                     *)
(***************************************************************************)
LEMMA DeviceOfId == ASSUME NEW id \in Ids PROVE Device(id) \in Devices
  BY DEF Device

\* The records the program starts from, and what a prepared attempt holds.
LEMMA Blanks ==
  /\ NoAttempt \in AttemptType /\ NoAttempt.state = "none" /\ NoAttempt.id = 0
  /\ Idle \in Slot /\ Idle.pc = "idle"
  <1>1. NoAttempt \in AttemptType /\ NoAttempt.state = "none" /\ NoAttempt.id = 0
    BY SMT DEF NoAttempt, Attempt, AttemptType, States, Hashes
  <1>2. Idle \in Slot /\ Idle.pc = "idle"
    BY SMT DEF Idle, Message, Slot, Hashes, Kinds, Results
  <1>3. QED
    BY <1>1, <1>2

LEMMA PreparedAttempt ==
  ASSUME NEW a, NEW n, NEW m, NEW h, a = Attempt(n, "pending", m, h)
  PROVE  /\ a.state = "pending" /\ a.cand = None /\ ~a.authed /\ ~a.acked /\ a.tokens = {}
         /\ ~a.late
  BY SMT DEF Attempt

\* Another channel of the device has shown the candidate.
TakesToken(a, b, x) ==
    b \in AttemptType /\ x \in Ids /\ a = [b EXCEPT !.tokens = b.tokens \cup {x}]

HasToken(a, b, x) ==
    /\ a \in AttemptType /\ a.id = b.id /\ a.cand = b.cand /\ a.old = b.old
    /\ a.state = b.state /\ a.delivered = b.delivered /\ a.method = b.method
    /\ a.key = b.key /\ a.authed = b.authed /\ a.acked = b.acked
    /\ a.tokens = b.tokens \cup {x} /\ a.late = b.late /\ a.over = b.over

LEMMA TokenTaken == ASSUME NEW a, NEW b, NEW x, TakesToken(a, b, x) PROVE HasToken(a, b, x)
  BY SMT DEF AttemptType, TakesToken, HasToken

\* Attempts are numbered from 1.
LEMMA Numbers ==
  /\ AttemptIds \subseteq Nat /\ AttemptIds \subseteq 0 .. MaxAttempts /\ 0 \notin AttemptIds
  /\ 0 .. MaxAttempts \subseteq Nat
  /\ \A i \in 0 .. MaxAttempts : i # 0 => i \in AttemptIds
  BY SMT DEF AttemptIds

\* An attempt that may take over.
Ready(d, a) ==
    /\ a \in AttemptType /\ a.cand # None
    /\ status[d] = "enabled" /\ a.tokens \subseteq Family(d)
    /\ \A o \in Devices \ {d} : <<o, a.cand>> \notin history

LEMMA PromoteKeepsStore ==
  ASSUME StoreInvariant, NEW d \in Devices, NEW a, Ready(d, a), Promote(d, a)
  PROVE  StoreInvariant'
  <1>1. TypeOK /\ IdentityIndex /\ PinRecorded /\ OpenOnlyWhenLive /\ OneOpenPerKey
        /\ FamilyConsistent
    BY DEF StoreInvariant
  <1>2. a.cand \in Candidates /\ a.cand \in Certs /\ a.tokens \in SUBSET Ids
    BY DEF Ready, AttemptType
  <1>3. PICK c \in Certs : c = a.cand
    BY <1>2
  <1>4. /\ pin' = [pin EXCEPT ![d] = c] /\ certs' = Repin(d, c)
        /\ history' = history \cup {<<d, c>>}
        /\ status' = [id \in Ids |-> IF id \in a.tokens THEN "enabled" ELSE status[id]]
        /\ UNCHANGED <<escrow, userAuth, queue, imported>>
    BY <1>3 DEF Promote, RecordAssociation
  <1>5. TypeOK'
    <2>1. status' \in [Ids -> {"absent", "pending", "enabled", "disabled"}]
      BY <1>1, <1>4 DEF TypeOK
    <2>2. certs' \in [Certs -> Devices \cup {None}]
      BY <1>1, <1>4 DEF TypeOK, Repin
    <2>3. pin' \in [Devices -> Certs \cup {None}] /\ history' \subseteq Devices \X Certs
      BY SMT, <1>1, <1>4 DEF TypeOK
    <2>4. QED
      BY <1>1, <1>4, <2>1, <2>2, <2>3 DEF TypeOK
  <1>6. certs[c] \in {None, d}
    <2>1. ASSUME NEW o \in Devices, o # d PROVE certs[c] # o
      <3>1. <<o, c>> \notin history
        BY <1>3, <2>1 DEF Ready
      <3>2. QED
        BY SMT, <1>1, <3>1 DEF IdentityIndex, PinRecorded
    <2>2. certs[c] \in Devices \cup {None}
      BY <1>1 DEF TypeOK
    <2>3. QED
      BY <2>1, <2>2
  <1>7. IdentityIndex' /\ PinRecorded'
    <2>1. IdentityMove(d, c)
      BY <1>4, <1>6 DEF IdentityMove
    <2>2. QED
      BY <1>1, <2>1, IdentityMoveKeeps DEF Hashes
  <1>8. \A u \in Users : u \in a.tokens => Parent[u] = d
    BY DEF Ready, Family, Children
  <1>9. \A o \in Devices : o \in a.tokens => o = d
    BY DEF Ready, Family, Children
  <1>10. FamilyConsistent'
    BY <1>1, <1>2, <1>4, <1>8, <1>9 DEF FamilyConsistent, Ready, TypeOK
  <1>11. OneOpenPerKey'
    BY <1>1, <1>4 DEF OneOpenPerKey
  <1>12. \A id \in Ids : Live(id) => Live(id)'
    BY <1>4, DeviceOfId DEF Live, Device
  <1>13. OpenOnlyWhenLive'
    BY <1>1, <1>4, <1>12 DEF OpenOnlyWhenLive, Device
  <1>14. QED
    BY <1>5, <1>7, <1>10, <1>11, <1>13 DEF StoreInvariant


(***************************************************************************)
(* Frames: what the conjuncts of the invariant ask of a step.              *)
(***************************************************************************)
\* EvidenceChain and StillPending, of one attempt.
Evidence(d, a) ==
    a.state = "pending" =>
       /\ a.cand # None => /\ a.delivered
                           /\ subject[a.cand] = <<d, a.id>>
                           /\ a.method = "scep" => a.key = KeyOf[a.cand]
       /\ a.authed => a.cand # None
       /\ a.tokens # {} => a.authed
       /\ a.acked => a.delivered
       /\ ~Complete(d, a) /\ a.tokens \subseteq Family(d)
       /\ a.id \in holds[d] => a.delivered

LEMMA EvidenceOf ==
  ASSUME ReplacementInvariant, NEW d \in Devices PROVE Evidence(d, att[d]) /\ att[d] \in AttemptType
  BY DEF ReplacementInvariant, EvidenceChain, StillPending, Evidence, ReplacementTypeOK

LEMMA EvidenceEverywhere ==
  ASSUME \A d \in Devices : Evidence(d, att[d])' PROVE EvidenceChain' /\ StillPending'
  BY DEF EvidenceChain, StillPending, Evidence

SubjectKept == \A c \in Candidates : subject[c] # None => subject'[c] = subject[c]

LEMMA EvidenceElsewhere ==
  ASSUME ReplacementInvariant, SubjectKept, NEW o \in Devices,
         att'[o] = att[o], holds'[o] = holds[o]
  PROVE  Evidence(o, att[o])'
  <1>1. Evidence(o, att[o]) /\ att[o] \in AttemptType
    BY EvidenceOf
  <1>2. PICK a \in AttemptType : a = att[o]
    BY <1>1
  <1>3. a.cand \in Candidates \cup {None} /\ a.id \in 0 .. MaxAttempts
    BY DEF AttemptType
  <1>4. subject[a.cand] = <<o, a.id>> /\ a.cand # None => subject'[a.cand] = <<o, a.id>>
    <2>1. <<o, a.id>> \in Devices \X (0 .. MaxAttempts)
      BY <1>3
    <2>2. <<o, a.id>> # None
      BY <2>1
    <2>3. QED
      BY <1>3, <2>2 DEF SubjectKept
  <1>5. Evidence(o, a)'
    BY <1>1, <1>2, <1>4 DEF Evidence, Complete, Family, Children
  <1>6. QED
    BY <1>2, <1>5

\* No row vanishes, and no device is pinned to a certificate not issued.
RowsStay ==
    /\ \A o \in Devices : status'[o] = "absent" => status[o] = "absent" /\ pin'[o] = pin[o]
    /\ \A o \in Devices : pin'[o] \in Candidates => subject'[pin'[o]] # None

Registered ==
    /\ att \in [Devices -> AttemptType] /\ prepared \in [Devices -> AttemptType]
    /\ count \in [Devices -> 0 .. MaxAttempts]
    /\ subject \in [Candidates -> {None} \cup (Devices \X AttemptIds)]
    /\ holds \in [Devices -> SUBSET AttemptIds]
    /\ AttemptsNumbered /\ IssuedOnce /\ EvidenceChain /\ StillPending

LEMMA RegisteredOf == ASSUME ReplacementInvariant PROVE Registered
  BY DEF ReplacementInvariant, ReplacementTypeOK, Registered

\* The store alone changes.
LEMMA AttemptsRest ==
  ASSUME ReplacementInvariant, UNCHANGED <<att, Registers>>, RowsStay
  PROVE  Registered'
  <1>1. Registered
    BY RegisteredOf
  <1>2. SubjectKept
    BY DEF SubjectKept, Registers
  <1>3. EvidenceChain' /\ StillPending'
    <2>1. ASSUME NEW d \in Devices PROVE Evidence(d, att[d])'
      BY <1>2, EvidenceElsewhere DEF Registers
    <2>2. QED
      BY <2>1, EvidenceEverywhere
  <1>4. AttemptsNumbered'
    BY <1>1 DEF Registered, AttemptsNumbered, RowsStay, Registers
  <1>5. IssuedOnce'
    BY SMT, <1>1 DEF Registered, IssuedOnce, RowsStay, Registers
  <1>6. QED
    BY <1>1, <1>3, <1>4, <1>5 DEF Registered, Registers

\* An attempt goes on or ends, with the candidate it has.
LEMMA AttemptMoves ==
  ASSUME ReplacementInvariant, NEW d \in Devices, NEW a \in AttemptType,
         a.id = att[d].id, a.cand = att[d].cand,
         a = att[d] \/ (a.state # "none" /\ att[d].state # "none"),
         att' = [att EXCEPT ![d] = a], UNCHANGED <<prepared, count, subject>>,
         holds' \in [Devices -> SUBSET AttemptIds],
         \A o \in Devices \ {d} : holds'[o] = holds[o],
         \A i \in holds'[d] : i \in holds[d] \/ i = a.id,
         Evidence(d, a)', RowsStay
  PROVE  Registered'
  <1>1. Registered
    BY RegisteredOf
  <1>2. att' \in [Devices -> AttemptType] /\ att'[d] = a
        /\ \A o \in Devices \ {d} : att'[o] = att[o]
    BY <1>1 DEF Registered
  <1>3. SubjectKept
    BY DEF SubjectKept
  <1>4. EvidenceChain' /\ StillPending'
    <2>1. ASSUME NEW o \in Devices PROVE Evidence(o, att[o])'
      <3>1. CASE o = d
        BY <1>2, <3>1
      <3>2. CASE o # d
        BY <1>2, <1>3, <3>2, EvidenceElsewhere
      <3>3. QED
        BY <3>1, <3>2
    <2>2. QED
      BY <2>1, EvidenceEverywhere
  <1>5. AttemptsNumbered'
    <2>1. NoAttempt' = NoAttempt /\ NoAttempt.state = "none"
      BY DEF NoAttempt, Attempt
    <2>2. a.state = "none" \/ a.id = 0 => a = NoAttempt
      BY SMT, <1>1, <2>1 DEF Registered, AttemptsNumbered
    <2>3. status'[d] = "absent" => a = NoAttempt /\ pin'[d] = None
      BY <1>1, <2>1 DEF Registered, AttemptsNumbered, RowsStay
    <2>4. \A i \in holds'[d] : i <= a.id
      BY SMT, <1>1 DEF Registered, AttemptsNumbered, AttemptType
    <2>5. ASSUME NEW o \in Devices, o # d
          PROVE  /\ \A i \in holds'[o] : i <= att'[o].id
                 /\ att'[o].state = "none" \/ att'[o].id = 0 => att'[o] = NoAttempt
                 /\ status'[o] = "absent" => att'[o] = NoAttempt /\ pin'[o] = None
      BY <1>1, <1>2, <2>5 DEF Registered, AttemptsNumbered, RowsStay
    <2>6. \A o \in Devices : att'[o].id = att[o].id
      BY <1>2
    <2>7. \A o \in Devices :
            /\ att[o].id <= count[o]
            /\ prepared[o] # NoAttempt =>
                 /\ att[o].id < prepared[o].id /\ prepared[o].id <= count[o]
                 /\ prepared[o] = Attempt(prepared[o].id, "pending", prepared[o].method, prepared[o].old)
      BY <1>1 DEF Registered, AttemptsNumbered
    <2>8. QED
      BY <1>2, <2>1, <2>2, <2>3, <2>4, <2>5, <2>6, <2>7 DEF AttemptsNumbered, Attempt
  <1>6. IssuedOnce'
    BY SMT, <1>1, <1>2 DEF Registered, IssuedOnce, RowsStay
  <1>7. QED
    BY <1>1, <1>2, <1>4, <1>5, <1>6 DEF Registered

\* The candidate of an attempt is never one a message in progress came from,
\* unless it was before.
CandidatesKept ==
    /\ \A d \in Devices, c \in Certs :
         att[d].cand # c /\ (c \in Candidates => subject[c] # None) => att'[d].cand # c
    /\ \A c \in Candidates : subject[c] # None => subject'[c] # None

\* RequestsRouted, of one message.
Routes(q) ==
    q.pc # "idle" =>
       /\ q.id \in Ids /\ q.cert \in Certs
       /\ q.cert \in Candidates => subject[q.cert] # None
       /\ q.kind = "Authenticate" => q.id \in Devices
       /\ q.pc = "authenticate" => q.kind = "Authenticate" /\ att[q.id].cand # q.cert

RequestsOK == req \in [Requests -> Slot] /\ RequestsRouted

LEMMA RequestOf ==
  ASSUME ReplacementInvariant, NEW r \in Requests PROVE req[r] \in Slot /\ Routes(req[r])
  BY DEF ReplacementInvariant, ReplacementTypeOK, RequestsRouted, Routes

LEMMA RequestElsewhere ==
  ASSUME ReplacementInvariant, CandidatesKept, NEW r \in Requests, req'[r] = req[r]
  PROVE  Routes(req[r])'
  <1>1. PICK q \in Slot : q = req[r] /\ Routes(q)
    BY RequestOf
  <1>2. Routes(q)'
    BY <1>1 DEF Routes, CandidatesKept
  <1>3. QED
    BY <1>1, <1>2

LEMMA RequestsRest ==
  ASSUME ReplacementInvariant, CandidatesKept, UNCHANGED req PROVE RequestsOK'
  <1>1. \A r \in Requests : Routes(req[r])'
    BY RequestElsewhere
  <1>2. QED
    BY <1>1 DEF RequestsOK, RequestsRouted, Routes, ReplacementInvariant, ReplacementTypeOK

LEMMA RequestMoves ==
  ASSUME ReplacementInvariant, CandidatesKept, NEW r \in Requests, NEW q \in Slot,
         req' = [req EXCEPT ![r] = q], Routes(q)'
  PROVE  RequestsOK'
  <1>1. req' \in [Requests -> Slot] /\ req'[r] = q
        /\ \A x \in Requests \ {r} : req'[x] = req[x]
    BY DEF ReplacementInvariant, ReplacementTypeOK
  <1>2. ASSUME NEW x \in Requests PROVE Routes(req[x])'
    <2>1. CASE x = r
      BY <1>1, <2>1
    <2>2. CASE x # r
      BY <1>1, <2>2, RequestElsewhere
    <2>3. QED
      BY <2>1, <2>2
  <1>3. QED
    BY <1>1, <1>2 DEF RequestsOK, RequestsRouted, Routes

LEMMA RequestEnds ==
  ASSUME ReplacementInvariant, CandidatesKept, NEW r \in Requests, Done(r) PROVE RequestsOK'
  <1>1. Idle \in Slot /\ Idle.pc = "idle"
    BY SMT DEF Idle, Message, Slot, Hashes, Kinds, Results
  <1>2. PICK q \in Slot : q = Idle
    BY <1>1
  <1>3. Routes(q)'
    BY <1>1, <1>2 DEF Routes
  <1>4. QED
    BY <1>2, <1>3, RequestMoves DEF Done

LEMMA RequestGoes ==
  ASSUME ReplacementInvariant, CandidatesKept, NEW r \in Requests, NEW pc, Goto(r, pc),
         req[r].pc # "idle", pc \in {"route", "authorize", "store"}
  PROVE  RequestsOK'
  <1>1. PICK p \in Slot : p = req[r] /\ Routes(p)
    BY RequestOf
  <1>2. PICK q : q = [p EXCEPT !.pc = pc]
    OBVIOUS
  <1>3. q \in Slot /\ q.pc = pc /\ q.id = p.id /\ q.cert = p.cert /\ q.kind = p.kind
    BY <1>2 DEF Slot
  <1>4. Routes(q)'
    BY <1>1, <1>3 DEF Routes, CandidatesKept
  <1>5. QED
    BY <1>1, <1>2, <1>3, <1>4, RequestMoves DEF Goto


(***************************************************************************)
(* AdvanceReplacement.                                                     *)
(***************************************************************************)
LEMMA EndedType ==
  ASSUME NEW a \in AttemptType, NEW how \in States
  PROVE  /\ Ended(a, how) \in AttemptType
         /\ Ended(a, how).id = a.id /\ Ended(a, how).cand = a.cand /\ Ended(a, how).old = a.old
         /\ Ended(a, how).state = how
  <1>1. /\ a.id \in 0 .. MaxAttempts /\ a.method \in {"scep", "acme"} /\ a.old \in Hashes
        /\ a.cand \in Candidates \cup {None}
    BY DEF AttemptType
  <1>2. PICK b : b = Attempt(a.id, how, a.method, a.old)
    OBVIOUS
  <1>3. b \in AttemptType /\ b.id = a.id /\ b.old = a.old /\ b.state = how
    BY <1>1, <1>2 DEF Attempt, AttemptType
  <1>4. Ended(a, how) = [b EXCEPT !.cand = a.cand]
    BY <1>2 DEF Ended
  <1>5. QED
    BY <1>1, <1>3, <1>4 DEF AttemptType

LEMMA CurrentOf ==
  ASSUME ReplacementInvariant, NEW d \in Devices
  PROVE  /\ Current(d) \in AttemptType /\ Current(d).id = att[d].id
         /\ Current(d).cand = att[d].cand /\ Current(d).old = att[d].old
         /\ Current(d).state = "pending" => Current(d) = att[d]
         /\ Current(d) = att[d] \/ (Current(d).state = "expired" /\ att[d].state = "pending")
  <1>1. att[d] \in AttemptType /\ "expired" \in States
    BY EvidenceOf DEF States
  <1>2. CASE Expired(att[d])
    <2>1. Current(d) = Ended(att[d], "expired") /\ att[d].state = "pending"
      BY <1>2 DEF Current, Expired
    <2>2. QED
      BY SMT, <1>1, <2>1, EndedType
  <1>3. CASE ~Expired(att[d])
    <2>1. Current(d) = att[d]
      BY <1>3 DEF Current
    <2>2. QED
      BY <1>1, <2>1
  <1>4. QED
    BY <1>2, <1>3

\* What a step leaves to the requests.
Kept == StoreInvariant' /\ Registered' /\ CandidatesKept /\ tokenBy' \in [Devices -> Hashes]

LEMMA InvariantFrom == ASSUME Kept, RequestsOK' PROVE ReplacementInvariant'
  BY DEF Kept, RequestsOK, Registered, ReplacementInvariant, ReplacementTypeOK

LEMMA StoreRests == ASSUME StoreInvariant, UNCHANGED store PROVE StoreInvariant'
  BY StoreStep

LEMMA Rows ==
  ASSUME ReplacementInvariant, UNCHANGED <<status, pin>>, SubjectKept PROVE RowsStay
  BY RegisteredOf DEF Registered, IssuedOnce, RowsStay, SubjectKept, store

LEMMA UnchangedKeeps ==
  ASSUME ReplacementInvariant, Unchanged, UNCHANGED <<subject, holds, prepared, count>>
  PROVE  Kept
  <1>1. RowsStay
    BY Rows DEF Unchanged, store, SubjectKept
  <1>2. Registered'
    BY <1>1, AttemptsRest DEF Unchanged, Registers
  <1>3. StoreInvariant'
    BY StoreRests DEF Unchanged, ReplacementInvariant
  <1>4. CandidatesKept
    BY DEF CandidatesKept, Unchanged
  <1>5. QED
    BY <1>2, <1>3, <1>4 DEF Kept, Unchanged, ReplacementInvariant, ReplacementTypeOK

\* The holders of a profile, at most the attempt under way more than before.
HandedOut(d) ==
    /\ holds' \in [Devices -> SUBSET AttemptIds]
    /\ \A o \in Devices \ {d} : holds'[o] = holds[o]
    /\ \A i \in holds'[d] : i \in holds[d] \/ i = att[d].id

LEMMA NothingHandedOut ==
  ASSUME ReplacementInvariant, UNCHANGED holds, NEW d \in Devices PROVE HandedOut(d)
  BY RegisteredOf DEF HandedOut, Registered

\* The attempt of d becomes a, with or without a promotion.
LEMMA AdvanceKeeps ==
  ASSUME ReplacementInvariant, NEW d \in Devices, NEW a \in AttemptType,
         a.id = att[d].id, a.cand = att[d].cand, a.state # "none", att[d].state # "none",
         Advance(d, a), UNCHANGED <<prepared, count, subject>>, HandedOut(d),
         Complete(d, a) => Ready(d, a) /\ subject[a.cand] # None,
         Complete(d, a) \/ Evidence(d, a)'
  PROVE  Kept
  <1>1. StoreInvariant /\ TypeOK /\ tokenBy \in [Devices -> Hashes] /\ Registered
    BY RegisteredOf DEF ReplacementInvariant, ReplacementTypeOK, StoreInvariant
  <1>2. SubjectKept
    BY DEF SubjectKept
  <1>3. CASE ~Complete(d, a)
    <2>1. att' = [att EXCEPT ![d] = a] /\ UNCHANGED <<store, tokenBy>>
      BY <1>3 DEF Advance
    <2>2. RowsStay
      BY <1>2, <2>1, Rows DEF store
    <2>3. Registered'
      BY <1>3, <2>1, <2>2, AttemptMoves DEF HandedOut
    <2>4. CandidatesKept
      BY <1>1, <2>1 DEF CandidatesKept, Registered
    <2>5. QED
      BY <1>1, <2>1, <2>3, <2>4, StoreRests DEF Kept
  <1>4. CASE Complete(d, a)
    <2>1. Ready(d, a) /\ Promote(d, a)
      BY <1>4 DEF Advance
    <2>2. PICK b \in AttemptType : b = Ended(a, "committed") /\ b.id = a.id /\ b.cand = a.cand
                                   /\ b.state = "committed"
      BY EndedType DEF States
    <2>3. /\ att' = [att EXCEPT ![d] = b] /\ pin' = [pin EXCEPT ![d] = a.cand]
          /\ status' = [id \in Ids |-> IF id \in a.tokens THEN "enabled" ELSE status[id]]
          /\ tokenBy' = [tokenBy EXCEPT ![d] = IF d \in a.tokens THEN a.cand ELSE tokenBy[d]]
      BY <2>1, <2>2 DEF Promote
    <2>4. a.cand \in Candidates /\ a.cand \in Hashes
      BY <2>1 DEF Ready, AttemptType, Hashes
    <2>5. RowsStay
      <3>1. \A o \in Devices : status'[o] = "absent" => status[o] = "absent" /\ o # d
        BY <2>1, <2>3 DEF Ready
      <3>2. \A o \in Devices : pin'[o] = IF o = d THEN a.cand ELSE pin[o]
        BY <1>1, <2>3 DEF TypeOK
      <3>3. QED
        BY <1>1, <1>4, <3>1, <3>2 DEF RowsStay, Registered, IssuedOnce
    <2>6. Evidence(d, b)'
      BY <2>2 DEF Evidence
    <2>7. Registered'
      BY <2>2, <2>3, <2>5, <2>6, AttemptMoves DEF HandedOut
    <2>8. CandidatesKept
      BY <1>1, <2>2, <2>3 DEF CandidatesKept, Registered
    <2>9. StoreInvariant'
      BY <1>1, <2>1, PromoteKeepsStore
    <2>10. tokenBy' \in [Devices -> Hashes]
      BY <1>1, <2>3, <2>4
    <2>11. QED
      BY <2>7, <2>8, <2>9, <2>10 DEF Kept
  <1>5. QED
    BY <1>3, <1>4


(***************************************************************************)
(* The administrator's steps and the clock's.                              *)
(***************************************************************************)
LEMMA StoreKept ==
  ASSUME ReplacementInvariant, UNCHANGED <<store, tokenBy>>
  PROVE  StoreInvariant' /\ tokenBy' \in [Devices -> Hashes]
  BY StoreRests DEF ReplacementInvariant, ReplacementTypeOK

LEMMA ActiveOf ==
  ASSUME ReplacementInvariant, NEW d \in Devices, NEW id, Active(d, id)
  PROVE  /\ Current(d) = att[d] /\ att[d].state = "pending" /\ att[d].id = id
         /\ status[d] = "enabled" /\ att[d].old = pin[d]
  <1>1. Current(d).id = id /\ Current(d).state = "pending" /\ Current(d).old = pin[d]
        /\ status[d] = "enabled"
    BY DEF Active
  <1>2. Current(d) = att[d]
    BY <1>1, CurrentOf
  <1>3. QED
    BY <1>1, <1>2

LEMMA PrepareKeeps ==
  ASSUME ReplacementInvariant, NEW d \in Devices, NEW method \in Methods, Prepare(d, method)
  PROVE  Kept /\ UNCHANGED <<store, tokenBy, req>>
  <1>1. Registered /\ TypeOK
    BY RegisteredOf DEF ReplacementInvariant, StoreInvariant
  <1>2. PICK n \in Nat : n = count[d] + 1 /\ n <= MaxAttempts
    <2>1. count[d] \in 0 .. MaxAttempts /\ count[d] < MaxAttempts
      BY <1>1 DEF Registered, Prepare
    <2>2. QED
      BY SMT, <2>1
  <1>3. PICK a : a = Attempt(n, "pending", method, pin[d])
    OBVIOUS
  <1>4. pin[d] \in Hashes
    BY <1>1 DEF TypeOK, Hashes
  <1>5. a \in AttemptType /\ a.id = n
    BY SMT, <1>2, <1>3, <1>4 DEF Attempt, AttemptType, States
  <1>6. a = Attempt(a.id, "pending", a.method, a.old)
    BY <1>3 DEF Attempt
  <1>7. /\ prepared' = [prepared EXCEPT ![d] = a] /\ count' = [count EXCEPT ![d] = n]
        /\ UNCHANGED <<store, att, subject, holds, req, tokenBy>>
    BY <1>2, <1>3 DEF Prepare
  <1>8. SubjectKept /\ RowsStay
    BY <1>7, Rows DEF SubjectKept, store
  <1>9. EvidenceChain' /\ StillPending'
    <2>1. ASSUME NEW o \in Devices PROVE Evidence(o, att[o])'
      BY <1>7, <1>8, EvidenceElsewhere
    <2>2. QED
      BY <2>1, EvidenceEverywhere
  <1>10. AttemptsNumbered'
    <2>1. prepared'[d] = a /\ count'[d] = n /\ att'[d].id < n
      <3>1. att[d].id \in Nat /\ count[d] \in Nat /\ att[d].id <= count[d]
        BY SMT, <1>1 DEF Registered, AttemptType, AttemptsNumbered
      <3>2. QED
        BY SMT, <1>1, <1>2, <1>7, <3>1 DEF Registered
    <2>2. \A o \in Devices \ {d} : prepared'[o] = prepared[o] /\ count'[o] = count[o]
      BY <1>1, <1>7 DEF Registered
    <2>3. NoAttempt' = NoAttempt /\ att[d].id \in Nat
      BY SMT, <1>1 DEF NoAttempt, Registered, AttemptType
    <2>4. \A o \in Devices :
            /\ \A i \in holds'[o] : i <= att'[o].id
            /\ att'[o].state = "none" \/ att'[o].id = 0 => att'[o] = NoAttempt
            /\ status'[o] = "absent" => att'[o] = NoAttempt /\ pin'[o] = None
      BY <1>1, <1>7 DEF Registered, AttemptsNumbered, store
    <2>5. \A o \in Devices \ {d} :
            /\ att'[o].id <= count'[o]
            /\ prepared'[o] # NoAttempt =>
                 /\ att'[o].id < prepared'[o].id /\ prepared'[o].id <= count'[o]
                 /\ prepared'[o] = Attempt(prepared'[o].id, "pending", prepared'[o].method,
                                           prepared'[o].old)
      BY <1>1, <1>7, <2>2 DEF Registered, AttemptsNumbered
    <2>6. /\ att'[d].id <= count'[d]
          /\ att'[d].id < prepared'[d].id /\ prepared'[d].id <= count'[d]
          /\ prepared'[d] = Attempt(prepared'[d].id, "pending", prepared'[d].method,
                                    prepared'[d].old)
      BY SMT, <1>5, <1>6, <1>7, <2>1, <2>3
    <2>7. QED
      BY <2>3, <2>4, <2>5, <2>6 DEF AttemptsNumbered, Attempt
  <1>11. IssuedOnce'
    BY SMT, <1>1, <1>7, <1>8 DEF Registered, IssuedOnce, RowsStay
  <1>12. Registered'
    BY SMT, <1>1, <1>2, <1>5, <1>7, <1>9, <1>10, <1>11 DEF Registered
  <1>13. CandidatesKept
    BY <1>7 DEF CandidatesKept
  <1>14. QED
    BY <1>7, <1>12, <1>13, StoreKept DEF Kept

LEMMA BeginKeeps ==
  ASSUME ReplacementInvariant, NEW d \in Devices, Begin(d)
  PROVE  Kept /\ UNCHANGED <<store, tokenBy, req>>
  <1>1. Registered
    BY RegisteredOf
  <1>2. PICK a \in AttemptType : a = prepared[d]
    BY <1>1 DEF Registered
  <1>3. a.state = "pending" /\ a.cand = None /\ ~a.authed /\ ~a.acked /\ a.tokens = {}
    <2>1. a = Attempt(a.id, "pending", a.method, a.old)
      BY <1>1, <1>2 DEF Registered, AttemptsNumbered, Begin
    <2>2. QED
      BY <2>1, PreparedAttempt
  <1>4. /\ a.id \in Nat /\ att[d].id \in Nat /\ att[d].id < a.id /\ a.id <= count[d]
        /\ \A i \in holds[d] : i < a.id
    BY SMT, <1>1, <1>2 DEF Registered, AttemptsNumbered, Begin, AttemptType, AttemptIds
  <1>5. /\ prepared' = [prepared EXCEPT ![d] = NoAttempt]
        /\ att' = IF Begins(d) THEN [att EXCEPT ![d] = a] ELSE att
        /\ UNCHANGED <<store, count, subject, holds, req, tokenBy>>
    BY <1>2 DEF Begin
  <1>6. SubjectKept /\ RowsStay
    BY <1>5, Rows DEF SubjectKept, store
  <1>7. NoAttempt \in AttemptType /\ NoAttempt' = NoAttempt
    BY Blanks DEF NoAttempt, Attempt
  <1>8. /\ att' \in [Devices -> AttemptType] /\ att'[d] \in {att[d], a}
        /\ \A o \in Devices \ {d} : att'[o] = att[o]
        /\ att'[d] = a => status[d] = "enabled" \/ a = att[d]
    BY <1>1, <1>5 DEF Registered, Begins
  <1>9. EvidenceChain' /\ StillPending'
    <2>1. ASSUME NEW o \in Devices PROVE Evidence(o, att[o])'
      <3>1. CASE att'[o] = att[o]
        BY <1>5, <1>6, <3>1, EvidenceElsewhere
      <3>2. CASE o = d /\ att'[d] = a
        <4>1. a.id \notin holds'[d]
          BY SMT, <1>4, <1>5
        <4>2. Evidence(d, a)'
          BY <1>3, <4>1 DEF Evidence, Complete
        <4>3. QED
          BY <3>2, <4>2
      <3>3. QED
        BY <1>8, <3>1, <3>2
    <2>2. QED
      BY <2>1, EvidenceEverywhere
  <1>10. AttemptsNumbered'
    <2>1. prepared'[d] = NoAttempt /\ \A o \in Devices \ {d} : prepared'[o] = prepared[o]
      BY <1>1, <1>5 DEF Registered
    <2>2. a.state # "none" /\ a.id # 0
      BY SMT, <1>3, <1>4
    <2>3. /\ att'[d].id <= count[d] /\ \A i \in holds[d] : i <= att'[d].id
          /\ att'[d].state = "none" \/ att'[d].id = 0 => att'[d] = NoAttempt
          /\ status[d] = "absent" => att'[d] = NoAttempt /\ pin[d] = None
      <3>1. CASE att'[d] = att[d]
        BY <1>1, <3>1 DEF Registered, AttemptsNumbered
      <3>2. CASE att'[d] = a /\ att'[d] # att[d]
        <4>1. holds[d] \subseteq Nat
          BY SMT, <1>1 DEF Registered, AttemptIds
        <4>2. QED
          BY SMT, <1>4, <1>8, <2>2, <3>2, <4>1
      <3>3. QED
        BY <1>8, <3>1, <3>2
    <2>4. QED
      BY <1>1, <1>5, <1>7, <1>8, <2>1, <2>3 DEF Registered, AttemptsNumbered, Attempt, store
  <1>11. IssuedOnce'
    <2>1. ASSUME NEW c \in Candidates, NEW o \in Devices, NEW i \in AttemptIds,
                 subject[c] = <<o, i>>
          PROVE  i <= att'[o].id /\ (i = att'[o].id => att'[o].cand = c)
      <3>1. i <= att[o].id /\ (i = att[o].id => att[o].cand = c) /\ i \in Nat
        BY SMT, <1>1, <2>1 DEF Registered, IssuedOnce, AttemptIds
      <3>2. QED
        BY SMT, <1>4, <1>8, <3>1
    <2>2. QED
      BY SMT, <1>5, <1>6, <2>1 DEF IssuedOnce, RowsStay
  <1>12. Registered'
    BY <1>1, <1>5, <1>7, <1>8, <1>9, <1>10, <1>11 DEF Registered
  <1>13. CandidatesKept
    BY <1>3, <1>5, <1>8 DEF CandidatesKept
  <1>14. QED
    BY <1>5, <1>12, <1>13, StoreKept DEF Kept


LEMMA CancelKeeps ==
  ASSUME ReplacementInvariant, NEW d \in Devices, Cancel(d)
  PROVE  Kept /\ UNCHANGED <<store, tokenBy, req>>
  <1>1. Current(d) = att[d] /\ att[d].state = "pending" /\ att[d] \in AttemptType
    BY ActiveOf, EvidenceOf DEF Cancel
  <1>2. PICK a \in AttemptType : /\ a = Ended(att[d], "cancelled") /\ a.id = att[d].id
                                 /\ a.cand = att[d].cand /\ a.state = "cancelled"
    BY <1>1, EndedType DEF States
  <1>3. ~Complete(d, a) /\ Evidence(d, a)'
    BY <1>2 DEF Complete, Evidence
  <1>4. Advance(d, a) /\ UNCHANGED <<prepared, count, subject, holds, req>>
    BY <1>1, <1>2 DEF Cancel, service
  <1>5. UNCHANGED <<store, tokenBy>>
    BY <1>3, <1>4 DEF Advance
  <1>6. QED
    BY <1>1, <1>2, <1>3, <1>4, <1>5, NothingHandedOut, AdvanceKeeps

\* The deadline and the candidate's end are only marked.
LEMMA ClockKeeps ==
  ASSUME ReplacementInvariant, NEW d \in Devices, DeadlinePasses(d) \/ CandidateLapses(d)
  PROVE  Kept /\ UNCHANGED <<store, tokenBy, req>>
  <1>1. Evidence(d, att[d]) /\ att[d] \in AttemptType /\ att[d].state = "pending"
    BY EvidenceOf DEF DeadlinePasses, CandidateLapses
  <1>2. PICK a : /\ a = [att[d] EXCEPT !.late = TRUE] \/ a = [att[d] EXCEPT !.over = TRUE]
                 /\ att' = [att EXCEPT ![d] = a]
    BY DEF DeadlinePasses, CandidateLapses
  <1>3. /\ a \in AttemptType /\ a.id = att[d].id /\ a.cand = att[d].cand
        /\ a.state = att[d].state /\ a.method = att[d].method /\ a.key = att[d].key
        /\ a.delivered = att[d].delivered /\ a.acked = att[d].acked
        /\ a.authed = att[d].authed /\ a.tokens = att[d].tokens
    <2>1. CASE a = [att[d] EXCEPT !.late = TRUE]
      BY <1>1, <2>1 DEF AttemptType
    <2>2. CASE a = [att[d] EXCEPT !.over = TRUE]
      BY <1>1, <2>2 DEF AttemptType
    <2>3. QED
      BY <1>2, <2>1, <2>2
  <1>4. UNCHANGED <<store, prepared, count, subject, holds, req, tokenBy>>
    BY DEF DeadlinePasses, CandidateLapses, service
  <1>5. ~Complete(d, a)
    BY <1>1, <1>3 DEF Complete, Evidence
  <1>6. Evidence(d, a)'
    BY <1>1, <1>3, <1>4, <1>5 DEF Evidence, Complete, Family, Children
  <1>7. Advance(d, a)
    BY <1>2, <1>4, <1>5 DEF Advance
  <1>8. QED
    BY <1>1, <1>3, <1>4, <1>5, <1>6, <1>7, NothingHandedOut, AdvanceKeeps

LEMMA ClaimKeeps ==
  ASSUME ReplacementInvariant, NEW d \in Devices, NEW id, NEW key \in PublicKeys, Claim(d, id, key)
  PROVE  Kept /\ UNCHANGED <<store, tokenBy, req>>
  <1>1. Evidence(d, att[d]) /\ att[d] \in AttemptType /\ att[d].state = "pending"
        /\ Current(d) = att[d]
    BY EvidenceOf, ActiveOf DEF Claim
  <1>2. PICK a : a = [att[d] EXCEPT !.key = key]
    OBVIOUS
  <1>3. /\ a \in AttemptType /\ a.id = att[d].id /\ a.cand = att[d].cand
        /\ a.state = att[d].state /\ a.method = att[d].method /\ a.key = key
        /\ a.delivered = att[d].delivered /\ a.acked = att[d].acked
        /\ a.authed = att[d].authed /\ a.tokens = att[d].tokens
    BY <1>1, <1>2 DEF AttemptType
  <1>4. /\ Advance(d, a) /\ att[d].key \in {None, key}
        /\ UNCHANGED <<prepared, count, subject, holds, req>>
    BY <1>1, <1>2 DEF Claim, service
  <1>5. ~Complete(d, a)
    BY <1>1, <1>3 DEF Complete, Evidence
  <1>6. a.cand # None /\ a.method = "scep" => a.key = KeyOf[a.cand]
    <2>1. a.cand # None => KeyOf[a.cand] \in PublicKeys
      BY <1>3 DEF AttemptType
    <2>2. QED
      BY <1>1, <1>3, <1>4, <2>1 DEF Evidence
  <1>7. Evidence(d, a)'
    BY <1>1, <1>3, <1>4, <1>5, <1>6 DEF Evidence, Complete, Family, Children
  <1>8. UNCHANGED <<store, tokenBy>>
    BY <1>4, <1>5 DEF Advance
  <1>9. QED
    BY <1>1, <1>3, <1>4, <1>5, <1>7, <1>8, NothingHandedOut, AdvanceKeeps

LEMMA IssueKeeps ==
  ASSUME ReplacementInvariant, NEW d \in Devices, NEW id, NEW c \in Candidates, Issue(d, id, c)
  PROVE  Kept /\ UNCHANGED <<store, tokenBy, req>>
  <1>1. /\ Evidence(d, att[d]) /\ att[d] \in AttemptType /\ att[d].state = "pending"
        /\ Current(d) = att[d] /\ att[d].id = id /\ Registered
        /\ id \in holds[d] /\ id \in AttemptIds /\ status[d] = "enabled"
    BY EvidenceOf, ActiveOf, RegisteredOf DEF Issue, Registered
  <1>2. PICK a : a = [att[d] EXCEPT !.cand = c]
    OBVIOUS
  <1>3. /\ a \in AttemptType /\ a.id = id /\ a.cand = c
        /\ a.state = "pending" /\ a.method = att[d].method /\ a.key = att[d].key
        /\ a.delivered = att[d].delivered /\ a.acked = att[d].acked
        /\ a.authed = att[d].authed /\ a.tokens = att[d].tokens
    BY <1>1, <1>2 DEF AttemptType
  <1>4. /\ Advance(d, a) /\ att[d].cand \in {None, c}
        /\ att[d].method = "scep" => att[d].key = KeyOf[c]
        /\ subject[c] \in {None, <<d, id>>} /\ subject' = [subject EXCEPT ![c] = <<d, id>>]
        /\ UNCHANGED <<prepared, count, holds, req>>
    BY <1>1, <1>2 DEF Issue
  <1>5. ~Complete(d, a)
    BY <1>1, <1>3 DEF Complete, Evidence
  <1>6. att' = [att EXCEPT ![d] = a] /\ UNCHANGED <<store, tokenBy>>
    BY <1>4, <1>5 DEF Advance
  <1>7. /\ att' \in [Devices -> AttemptType] /\ att'[d] = a
        /\ \A o \in Devices \ {d} : att'[o] = att[o]
    BY <1>1, <1>3, <1>6 DEF Registered
  <1>8. /\ subject' \in [Candidates -> {None} \cup (Devices \X AttemptIds)]
        /\ subject'[c] = <<d, id>> /\ \A x \in Candidates \ {c} : subject'[x] = subject[x]
    BY <1>1, <1>4 DEF Registered
  <1>9. SubjectKept /\ subject'[c] # None
    <2>1. <<d, id>> \in Devices \X (0 .. MaxAttempts)
      BY <1>1, Numbers
    <2>2. QED
      BY <1>4, <1>8, <2>1 DEF SubjectKept
  <1>10. RowsStay
    BY <1>6, <1>9, Rows DEF store
  <1>11. EvidenceChain' /\ StillPending'
    <2>1. Evidence(d, a)'
      BY <1>1, <1>3, <1>4, <1>5, <1>8 DEF Evidence, Complete, Family, Children
    <2>2. ASSUME NEW o \in Devices PROVE Evidence(o, att[o])'
      <3>1. CASE o = d
        BY <1>7, <2>1, <3>1
      <3>2. CASE o # d
        BY <1>4, <1>7, <1>9, <3>2, EvidenceElsewhere
      <3>3. QED
        BY <3>1, <3>2
    <2>3. QED
      BY <2>2, EvidenceEverywhere
  <1>12. AttemptsNumbered'
    <2>1. NoAttempt' = NoAttempt /\ NoAttempt.state = "none"
      BY DEF NoAttempt, Attempt
    <2>2. \A o \in Devices : att'[o].id = att[o].id
      BY <1>1, <1>3, <1>7
    <2>3. att'[d].state # "none" /\ att'[d].id # 0 /\ status'[d] # "absent"
      BY SMT, <1>1, <1>3, <1>6, <1>7 DEF store, AttemptIds
    <2>4. UNCHANGED <<status, pin>>
      BY <1>6 DEF store
    <2>5. QED
      BY <1>1, <1>4, <1>7, <2>1, <2>2, <2>3, <2>4 DEF Registered, AttemptsNumbered, Attempt
  <1>13. IssuedOnce'
    <2>1. ASSUME NEW x \in Candidates, NEW o \in Devices, NEW i \in AttemptIds,
                 subject'[x] = <<o, i>>
          PROVE  i <= att'[o].id /\ (i = att'[o].id => att'[o].cand = x)
      <3>1. CASE x = c
        BY SMT, <1>1, <1>3, <1>7, <1>8, <2>1, <3>1 DEF AttemptIds
      <3>2. CASE x # c
        <4>1. i <= att[o].id /\ (i = att[o].id => att[o].cand = x) /\ x # None
          BY SMT, <1>1, <1>8, <2>1, <3>2 DEF Registered, IssuedOnce
        <4>2. CASE o = d
          BY <1>1, <1>3, <1>4, <1>7, <3>2, <4>1, <4>2
        <4>3. CASE o # d
          BY <1>7, <4>1, <4>3
        <4>4. QED
          BY <4>2, <4>3
      <3>3. QED
        BY <3>1, <3>2
    <2>2. QED
      BY <1>10, <2>1 DEF IssuedOnce, RowsStay
  <1>14. Registered'
    BY <1>1, <1>4, <1>7, <1>8, <1>11, <1>12, <1>13 DEF Registered
  <1>15. CandidatesKept
    <2>1. ASSUME NEW o \in Devices, NEW x \in Certs, att[o].cand # x,
                 x \in Candidates => subject[x] # None
          PROVE  att'[o].cand # x
      <3>1. CASE o = d /\ x = c
        <4>1. subject[c] = <<d, id>>
          BY <1>4, <2>1, <3>1
        <4>2. att[d].cand = c
          BY <1>1, <4>1 DEF Registered, IssuedOnce
        <4>3. QED
          BY <2>1, <3>1, <4>2
      <3>2. CASE o = d /\ x # c
        BY <1>3, <1>7, <3>2
      <3>3. CASE o # d
        BY <1>7, <2>1, <3>3
      <3>4. QED
        BY <3>1, <3>2, <3>3
    <2>2. QED
      BY <1>9, <2>1 DEF CandidatesKept, SubjectKept
  <1>16. QED
    BY <1>4, <1>6, <1>14, <1>15, StoreKept DEF Kept


(***************************************************************************)
(* Messages: admission, routing and the transition.                        *)
(***************************************************************************)
LEMMA ReadKeeps ==
  ASSUME ReplacementInvariant, NEW d \in Devices, Read(d), UNCHANGED Registers
  PROVE  Kept /\ att'[d].cand = att[d].cand
  <1>1. Registered /\ Evidence(d, att[d])
    BY RegisteredOf, EvidenceOf
  <1>2. PICK a \in AttemptType :
          /\ a = Current(d) /\ a.id = att[d].id /\ a.cand = att[d].cand
          /\ a = att[d] \/ (a.state = "expired" /\ att[d].state = "pending")
    BY CurrentOf
  <1>3. /\ att' = [att EXCEPT ![d] = a]
        /\ UNCHANGED <<store, tokenBy, prepared, count, subject, holds>>
    BY <1>2 DEF Read, Registers
  <1>4. att'[d] = a
    BY <1>1, <1>3 DEF Registered
  <1>5. CASE a = att[d]
    <2>1. att' = att
      BY <1>1, <1>3, <1>5 DEF Registered
    <2>2. QED
      BY <1>3, <1>5, <2>1, UnchangedKeeps DEF Unchanged
  <1>6. CASE a.state = "expired" /\ att[d].state = "pending"
    <2>1. ~Complete(d, a) /\ Evidence(d, a)'
      BY <1>6 DEF Complete, Evidence
    <2>2. Advance(d, a)
      BY <1>3, <2>1 DEF Advance
    <2>3. QED
      BY <1>2, <1>3, <1>4, <1>6, <2>1, <2>2, NothingHandedOut, AdvanceKeeps
  <1>7. QED
    BY <1>2, <1>5, <1>6

LEMMA ReceiveKeeps ==
  ASSUME ReplacementInvariant, NEW r \in Requests, NEW kind \in Kinds, NEW id \in Ids,
         NEW cert \in Certs, NEW result \in Results, NEW uuid \in 0 .. MaxAttempts,
         Receive(r, kind, id, cert, result, uuid)
  PROVE  ReplacementInvariant'
  <1>1. Kept
    BY UnchangedKeeps DEF Receive, Registers
  <1>2. PICK pc \in {"admit", "route"} : pc = IF cert \in Candidates THEN "admit" ELSE "route"
    OBVIOUS
  <1>3. PICK q : q = Message(pc, kind, id, cert, result, uuid)
    OBVIOUS
  <1>4. q \in Slot /\ q.pc = pc /\ q.kind = kind /\ q.id = id /\ q.cert = cert
    BY SMT, <1>2, <1>3 DEF Message, Slot, Hashes
  <1>5. Routes(q)'
    BY <1>2, <1>4 DEF Routes, Receive, Registers
  <1>6. req' = [req EXCEPT ![r] = q]
    BY <1>2, <1>3 DEF Receive
  <1>7. QED
    BY <1>1, <1>4, <1>5, <1>6, RequestMoves, InvariantFrom DEF Kept

LEMMA AdmitKeeps ==
  ASSUME ReplacementInvariant, NEW r \in Requests, Admit(r) PROVE ReplacementInvariant'
  <1>1. req[r].pc = "admit" /\ req[r].id \in Ids
    BY RequestOf DEF Admit, At, Routes
  <1>2. PICK d \in Devices : d = Device(req[r].id)
    BY <1>1, DeviceOfId
  <1>3. Unchanged \/ Read(d)
    BY <1>2 DEF Admit
  <1>4. Kept
    BY <1>3, UnchangedKeeps, ReadKeeps DEF Admit, Registers
  <1>5. Goto(r, "route") \/ Done(r)
    BY DEF Admit
  <1>6. QED
    BY <1>1, <1>4, <1>5, RequestGoes, RequestEnds, InvariantFrom DEF Kept

LEMMA RoutedTo ==
  ASSUME NEW d \in Devices, NEW q
  PROVE  Routed(d, q) \in {"handled", "ordinary", "authenticate", "token", "deliver", "result"}
  <1>1. ASSUME NEW a
        PROVE  /\ RouteEnded(a, q) \in {"handled", "ordinary"}
               /\ RouteCheckin(a, q) \in {"handled", "ordinary", "authenticate", "token"}
               /\ RouteConnect(a, q) \in {"handled", "ordinary", "deliver", "result"}
    BY DEF RouteEnded, RouteCheckin, RouteConnect
  <1>2. QED
    BY <1>1 DEF Routed

\* An Authenticate reaches the ordinary handling only from another certificate
\* than the candidate of the latest attempt.
LEMMA OrdinaryAuthenticate ==
  ASSUME ReplacementInvariant, NEW d \in Devices, NEW q, q.kind = "Authenticate",
         q.cert \in Certs, Routed(d, q) = "ordinary"
  PROVE  att[d].cand # q.cert
  <1>1. PICK a : a = Current(d) /\ a.cand = att[d].cand
    BY CurrentOf
  <1>2. CASE status[d] = "absent" \/ a.state = "none"
    <2>1. Current(d) = att[d] \/ (a.state = "expired" /\ att[d].state = "pending")
      BY <1>1, CurrentOf
    <2>2. NoAttempt.state = "none" /\ NoAttempt.cand = None
      BY DEF NoAttempt, Attempt
    <2>3. att[d] = NoAttempt
      BY <1>1, <1>2, <2>1, RegisteredOf DEF Registered, AttemptsNumbered
    <2>4. QED
      BY <2>2, <2>3
  <1>3. CASE status[d] # "absent" /\ a.state \notin {"none", "pending"}
    BY <1>1, <1>3 DEF Routed, RouteEnded
  <1>4. CASE status[d] # "absent" /\ a.state = "pending"
    <2>1. RouteCheckin(a, q) = "ordinary"
      BY <1>1, <1>4 DEF Routed
    <2>2. QED
      BY <1>1, <2>1 DEF RouteCheckin
  <1>5. QED
    BY <1>2, <1>3, <1>4

LEMMA RouteKeeps ==
  ASSUME ReplacementInvariant, NEW r \in Requests, Route(r) PROVE ReplacementInvariant'
  <1>1. PICK p \in Slot : p = req[r] /\ Routes(p) /\ p.pc = "route"
    BY RequestOf DEF Route, At
  <1>2. p.id \in Ids /\ p.cert \in Certs
    BY <1>1 DEF Routes
  <1>3. PICK d \in Devices : d = Device(p.id)
    BY <1>2, DeviceOfId
  <1>4. PICK to : to = Routed(d, p)
    OBVIOUS
  <1>5. to \in {"handled", "ordinary", "authenticate", "token", "deliver", "result"}
    BY <1>4, RoutedTo
  <1>6. Kept /\ att'[d].cand = att[d].cand
    BY <1>1, <1>3, ReadKeeps DEF Route
  <1>7. CASE to = "handled"
    <2>1. Done(r)
      BY <1>1, <1>3, <1>4, <1>7 DEF Route
    <2>2. QED
      BY <1>6, <2>1, RequestEnds, InvariantFrom DEF Kept
  <1>8. CASE to = "ordinary" /\ p.kind # "Authenticate"
    <2>1. Goto(r, "authorize")
      BY <1>1, <1>3, <1>4, <1>8 DEF Route
    <2>2. req[r].pc # "idle"
      BY <1>1
    <2>3. QED
      BY <1>6, <2>1, <2>2, RequestGoes, InvariantFrom DEF Kept
  <1>9. CASE to = "ordinary" /\ p.kind = "Authenticate"
    <2>1. PICK q : q = [p EXCEPT !.pc = "authenticate"]
      OBVIOUS
    <2>2. q \in Slot /\ q.pc = "authenticate" /\ q.id = p.id /\ q.cert = p.cert /\ q.kind = p.kind
      BY <2>1 DEF Slot
    <2>3. req' = [req EXCEPT ![r] = q]
      BY <1>1, <1>3, <1>4, <1>9, <2>1 DEF Route, Goto
    <2>4. p.id \in Devices /\ d = p.id
      BY <1>1, <1>3, <1>9 DEF Routes, Device
    <2>5. att'[p.id].cand # p.cert
      BY <1>2, <1>4, <1>6, <1>9, <2>4, OrdinaryAuthenticate
    <2>6. Routes(q)'
      BY <1>1, <1>2, <1>6, <1>9, <2>2, <2>4, <2>5 DEF Routes, Kept, CandidatesKept
    <2>7. QED
      BY <1>6, <2>2, <2>3, <2>6, RequestMoves, InvariantFrom DEF Kept
  <1>10. CASE to \in {"authenticate", "token", "deliver", "result"}
    <2>1. att[d].id \in 0 .. MaxAttempts
      BY EvidenceOf DEF AttemptType
    <2>2. PICK q : q = [p EXCEPT !.pc = "transition", !.op = to, !.att = att[d].id]
      OBVIOUS
    <2>3. q \in Slot /\ q.pc = "transition" /\ q.id = p.id /\ q.cert = p.cert /\ q.kind = p.kind
      BY <1>10, <2>1, <2>2 DEF Slot
    <2>4. req' = [req EXCEPT ![r].pc = "transition", ![r].op = to, ![r].att = att[d].id]
      BY <1>1, <1>3, <1>4, <1>10 DEF Route
    <2>5. req' = [req EXCEPT ![r] = q]
      BY <1>1, <2>2, <2>4 DEF ReplacementInvariant, ReplacementTypeOK
    <2>6. Routes(q)'
      BY <1>1, <1>2, <1>6, <2>3 DEF Routes, Kept, CandidatesKept
    <2>7. QED
      BY <1>6, <2>3, <2>5, <2>6, RequestMoves, InvariantFrom DEF Kept
  <1>11. QED
    BY <1>5, <1>7, <1>8, <1>9, <1>10


\* Evidence, of an attempt that may turn out complete.
Grounded(d, a) ==
    /\ a.cand # None => /\ a.delivered
                        /\ subject[a.cand] = <<d, a.id>>
                        /\ a.method = "scep" => a.key = KeyOf[a.cand]
    /\ a.authed => a.cand # None
    /\ a.tokens # {} => a.authed
    /\ a.acked => a.delivered
    /\ a.tokens \subseteq Family(d)

\* A handler that moves the pending attempt b of a device on, to a.
Moving(d, b, q) ==
    /\ b \in AttemptType /\ b.state = "pending" /\ Grounded(d, b)
    /\ q \in Slot /\ q.id \in Ids /\ q.cert \in Certs /\ d = Device(q.id) /\ Permitted(b, q)
Moved(d, b, q, a) ==
    /\ a \in AttemptType /\ a.id = b.id /\ a.cand = b.cand /\ a.old = b.old
    /\ \/ a.state = "failed"
       \/ /\ a.state = "pending" /\ Grounded(d, a)
          /\ b.delivered \/ q.op = "deliver" => a.delivered
          /\ a.late = b.late /\ a.over = b.over

LEMMA AdvancedGrounded ==
  ASSUME NEW d \in Devices, NEW b, NEW q, Moving(d, b, q), NEW a, a = Advanced(b, q)
  PROVE  Moved(d, b, q, a)
  <1> USE DEF Moving, Moved
  <1>1. q.id \in Family(d)
    BY DEF Family, Children, Device
  <1>2. a = Advanced(b, q)
    OBVIOUS
  <1>3. CASE q.op = "authenticate"
    <2>1. a = [b EXCEPT !.authed = TRUE] /\ b.cand = q.cert
      BY <1>2, <1>3 DEF Advanced, Permitted
    <2>2. /\ a \in AttemptType /\ a.id = b.id /\ a.cand = b.cand /\ a.old = b.old
          /\ a.state = b.state /\ a.delivered = b.delivered /\ a.method = b.method /\ a.key = b.key
          /\ a.acked = b.acked /\ a.tokens = b.tokens /\ a.late = b.late /\ a.over = b.over
          /\ a.authed = TRUE
      BY <2>1 DEF AttemptType
    <2>3. QED
      BY <1>2, <1>3, <2>1, <2>2 DEF Grounded
  <1>4. CASE q.op = "token"
    <2>1. TakesToken(a, b, q.id) /\ b.authed
      BY <1>2, <1>4 DEF Advanced, Permitted, TakesToken
    <2>2. HasToken(a, b, q.id)
      BY <2>1, TokenTaken
    <2>3. QED
      BY SMT, <1>1, <1>2, <1>4, <2>1, <2>2 DEF Grounded, HasToken
  <1>5. CASE q.op = "deliver"
    <2>1. a = [b EXCEPT !.delivered = TRUE]
      BY <1>2, <1>5 DEF Advanced
    <2>2. /\ a \in AttemptType /\ a.id = b.id /\ a.cand = b.cand /\ a.old = b.old
          /\ a.state = b.state /\ a.method = b.method /\ a.key = b.key /\ a.authed = b.authed
          /\ a.acked = b.acked /\ a.tokens = b.tokens /\ a.late = b.late /\ a.over = b.over
          /\ a.delivered = TRUE
      BY <2>1 DEF AttemptType
    <2>3. QED
      BY <1>2, <2>2 DEF Grounded
  <1>6. CASE q.op \notin {"authenticate", "token", "deliver"}
    <2>1. a = Reported(b, q.result) /\ b.delivered
      BY <1>2, <1>6 DEF Advanced, Permitted
    <2>2. CASE q.result = "Acknowledged"
      <3>1. a = [b EXCEPT !.acked = TRUE]
        BY <2>1, <2>2 DEF Reported
      <3>2. /\ a \in AttemptType /\ a.id = b.id /\ a.cand = b.cand /\ a.old = b.old
            /\ a.state = b.state /\ a.delivered = b.delivered /\ a.method = b.method /\ a.key = b.key
            /\ a.authed = b.authed /\ a.tokens = b.tokens /\ a.late = b.late /\ a.over = b.over
            /\ a.acked = TRUE
        BY <3>1 DEF AttemptType
      <3>3. QED
        BY <1>2, <1>6, <2>1, <3>2 DEF Grounded
    <2>3. CASE q.result = "NotNow"
      <3>1. a = b
        BY <2>1, <2>3 DEF Reported
      <3>2. QED
        BY <1>2, <2>1, <3>1
    <2>4. CASE q.result \notin {"Acknowledged", "NotNow"}
      <3>1. a = Ended(b, "failed") /\ "failed" \in States
        BY <2>1, <2>4 DEF Reported, States
      <3>2. QED
        BY SMT, <1>2, <3>1, EndedType
    <2>5. QED
      BY <2>2, <2>3, <2>4
  <1>7. QED
    BY <1>3, <1>4, <1>5, <1>6

\* A transition that is accepted, and what it does.
Accepted(q, d, a) ==
    /\ q.pc = "transition" /\ d = Device(q.id) /\ a = Advanced(Current(d), q)
    /\ Active(d, q.att) /\ Permitted(Current(d), q) /\ Committable(d, a)
TransitionMoves(q, d, a) ==
    /\ a \in AttemptType /\ d \in Devices
    /\ att[d].state = "pending" /\ att[d].id = q.att /\ Current(d) = att[d]
    /\ a.id = att[d].id /\ a.cand = att[d].cand /\ a.old = att[d].old
    /\ a.state \in {"pending", "failed"}
    /\ a.state = "pending" => /\ Grounded(d, a) /\ a.late = att[d].late /\ a.over = att[d].over
                              /\ att[d].delivered \/ q.op = "deliver" => a.delivered
    /\ Complete(d, a) => Ready(d, a) /\ subject[a.cand] # None

LEMMA TransitionFacts ==
  ASSUME ReplacementInvariant, NEW r \in Requests, NEW q, q = req[r], NEW d, NEW a,
         Accepted(q, d, a)
  PROVE  TransitionMoves(q, d, a)
  <1>1. q \in Slot /\ q.id \in Ids /\ q.cert \in Certs /\ d \in Devices
    BY RequestOf, DeviceOfId DEF Accepted, Routes
  <1>2. /\ Current(d) = att[d] /\ att[d].state = "pending" /\ att[d].id = q.att
        /\ status[d] = "enabled"
    BY <1>1, ActiveOf DEF Accepted
  <1>3. att[d] \in AttemptType /\ Evidence(d, att[d])
    BY <1>1, EvidenceOf
  <1>4. Grounded(d, att[d])
    BY <1>2, <1>3 DEF Evidence, Grounded
  <1>5. d = Device(q.id) /\ a = Advanced(att[d], q) /\ Permitted(att[d], q)
    BY <1>2 DEF Accepted
  <1>6. /\ a \in AttemptType /\ a.id = att[d].id /\ a.cand = att[d].cand /\ a.old = att[d].old
        /\ \/ a.state = "failed"
           \/ /\ a.state = "pending" /\ Grounded(d, a)
              /\ att[d].delivered \/ q.op = "deliver" => a.delivered
              /\ a.late = att[d].late /\ a.over = att[d].over
    <2>1. Moving(d, att[d], q)
      BY <1>1, <1>2, <1>3, <1>4, <1>5 DEF Moving
    <2>2. Moved(d, att[d], q, a)
      BY <1>1, <1>5, <2>1, AdvancedGrounded
    <2>3. QED
      BY <2>2 DEF Moved
  <1>7. ASSUME Complete(d, a) PROVE Ready(d, a) /\ subject[a.cand] # None
    <2>1. Grounded(d, a) /\ a.authed
      BY <1>6, <1>7 DEF Complete
    <2>2. a.cand # None /\ subject[a.cand] = <<d, a.id>> /\ a.tokens \subseteq Family(d)
      BY <2>1 DEF Grounded
    <2>3. \A o \in Devices \ {d} : <<o, a.cand>> \notin history
      BY <1>7 DEF Accepted, Committable
    <2>4. <<d, a.id>> \in Devices \X (0 .. MaxAttempts)
      BY <1>1, <1>6 DEF AttemptType
    <2>5. QED
      BY <1>2, <1>6, <2>2, <2>3, <2>4 DEF Ready
  <1>8. QED
    BY <1>1, <1>2, <1>6, <1>7 DEF TransitionMoves

LEMMA TransitionKeeps ==
  ASSUME ReplacementInvariant, NEW r \in Requests, Transition(r) PROVE ReplacementInvariant'
  <1>1. PICK q : q = req[r] /\ q.pc = "transition"
    BY DEF Transition, At
  <1>2. PICK d : d = Device(q.id)
    OBVIOUS
  <1>3. PICK b : b = Advanced(Current(d), q)
    OBVIOUS
  <1>4. Done(r) /\ UNCHANGED <<prepared, count, subject>>
    BY DEF Transition
  <1>5. CASE Unchanged /\ UNCHANGED holds
    <2>1. Kept
      BY <1>4, <1>5, UnchangedKeeps
    <2>2. QED
      BY <1>4, <2>1, RequestEnds, InvariantFrom DEF Kept
  <1>6. CASE /\ Active(d, q.att) /\ Permitted(Current(d), q) /\ Committable(d, b)
             /\ Advance(d, b)
             /\ \/ UNCHANGED holds
                \/ q.op = "deliver" /\ holds' = [holds EXCEPT ![d] = @ \cup {q.att}]
    <2>a. TransitionMoves(q, d, b)
      BY <1>1, <1>2, <1>3, <1>6, TransitionFacts DEF Accepted
    <2>1. PICK a \in AttemptType :
           /\ a = b /\ d \in Devices
           /\ att[d].state = "pending" /\ att[d].id = q.att
           /\ a.id = att[d].id /\ a.cand = att[d].cand
           /\ a.state \in {"pending", "failed"}
           /\ a.state = "pending" => /\ Grounded(d, a)
                                     /\ att[d].delivered \/ q.op = "deliver" => a.delivered
           /\ Complete(d, a) => Ready(d, a) /\ subject[a.cand] # None
      BY <2>a DEF TransitionMoves
    <2>2. att[d].id \in AttemptIds
      <3>1. att[d].id \in 0 .. MaxAttempts
        BY <2>1, EvidenceOf DEF AttemptType
      <3>2. att[d].id # 0
        BY <2>1, RegisteredOf, Blanks DEF Registered, AttemptsNumbered
      <3>3. QED
        BY <3>1, <3>2, Numbers
    <2>3. HandedOut(d)
      <3>1. holds \in [Devices -> SUBSET AttemptIds]
        BY RegisteredOf DEF Registered
      <3>2. QED
        BY SMT, <1>6, <2>1, <2>2, <3>1 DEF HandedOut
    <2>4. Complete(d, a) \/ Evidence(d, a)'
      <3>1. att[d].id \in holds[d] => att[d].delivered
        BY <2>1, EvidenceOf DEF Evidence
      <3>2. a.state = "pending" => (a.id \in holds'[d] => a.delivered)
        BY <1>6, <2>1, <3>1, RegisteredOf DEF Registered
      <3>3. QED
        BY <1>4, <2>1, <3>2 DEF Evidence, Grounded, Complete, Family, Children
    <2>5. Kept
      BY <1>4, <1>6, <2>1, <2>3, <2>4, AdvanceKeeps
    <2>6. QED
      BY <1>4, <2>5, RequestEnds, InvariantFrom DEF Kept
  <1>7. QED
    BY <1>1, <1>2, <1>3, <1>5, <1>6 DEF Transition


(***************************************************************************)
(* The ordinary handling and removal, through the store's own operations.  *)
(***************************************************************************)
LEMMA StoreMoves ==
  ASSUME ReplacementInvariant, [Next]_store, UNCHANGED <<att, Registers>>, RowsStay,
         tokenBy' \in [Devices -> Hashes]
  PROVE  Kept
  <1>1. StoreInvariant'
    BY StoreStep DEF ReplacementInvariant
  <1>2. CandidatesKept
    BY DEF CandidatesKept, Registers
  <1>3. QED
    BY <1>1, <1>2, AttemptsRest DEF Kept

LEMMA AuthenticateKeeps ==
  ASSUME ReplacementInvariant, NEW r \in Requests, Authenticate(r) PROVE ReplacementInvariant'
  <1>1. PICK q \in Slot : q = req[r] /\ Routes(q) /\ q.pc = "authenticate"
    BY RequestOf DEF Authenticate, At
  <1>2. /\ q.id \in Devices /\ q.cert \in Certs
        /\ q.cert \in Candidates => subject[q.cert] # None
    BY <1>1 DEF Routes
  <1>3. /\ Done(r) /\ UNCHANGED <<att, tokenBy, Registers>>
        /\ \/ \E reuse, rotated \in BOOLEAN :
                AuthenticateEnrollment(q.id, pin[q.id], q.cert, reuse, rotated)
           \/ UNCHANGED store
    BY <1>1 DEF Authenticate
  <1>4. TypeOK /\ tokenBy \in [Devices -> Hashes] /\ Registered
    BY RegisteredOf DEF ReplacementInvariant, StoreInvariant, ReplacementTypeOK
  <1>5. CASE UNCHANGED store
    <2>1. Kept
      BY <1>3, <1>5, UnchangedKeeps DEF Unchanged, Registers
    <2>2. QED
      BY <1>3, <2>1, RequestEnds, InvariantFrom DEF Kept
  <1>6. ASSUME NEW reuse \in BOOLEAN, NEW rotated \in BOOLEAN,
               AuthenticateEnrollment(q.id, pin[q.id], q.cert, reuse, rotated)
        PROVE  ReplacementInvariant'
    <2>1. pin[q.id] \in Hashes /\ q.cert \in Hashes
      BY <1>2, <1>4 DEF TypeOK, Hashes
    <2>2. Next
      BY SMT, <1>2, <1>6, <2>1 DEF Next, EnrollmentStep, IdentityStep
    <2>3. ResetDevice(q.id, q.cert)
      BY <1>6 DEF AuthenticateEnrollment
    <2>4. \A o \in Devices : /\ status'[o] = IF o = q.id THEN "pending" ELSE status[o]
                             /\ pin'[o] = IF o = q.id THEN q.cert ELSE pin[o]
      BY <1>2, <1>4, <2>3 DEF ResetDevice, Children, TypeOK
    <2>5. RowsStay
      BY <1>2, <1>3, <1>4, <2>4 DEF RowsStay, Registered, IssuedOnce, Registers
    <2>6. Kept
      BY <1>3, <1>4, <2>2, <2>5, StoreMoves
    <2>7. QED
      BY <1>3, <2>6, RequestEnds, InvariantFrom DEF Kept
  <1>7. QED
    BY <1>3, <1>5, <1>6

LEMMA AuthorizeKeeps ==
  ASSUME ReplacementInvariant, NEW r \in Requests, Authorize(r) PROVE ReplacementInvariant'
  <1>1. Kept
    BY UnchangedKeeps DEF Authorize, Registers
  <1>2. (Goto(r, "store") \/ Done(r)) /\ req[r].pc # "idle"
    BY DEF Authorize, At
  <1>3. QED
    BY <1>1, <1>2, RequestGoes, RequestEnds, InvariantFrom DEF Kept

LEMMA DisableRows ==
  ASSUME ReplacementInvariant, NEW id \in Ids, Disable(id), UNCHANGED Registers
  PROVE  Next /\ RowsStay
  <1>1. Next
    BY DEF Next, EnrollmentStep, IdentityStep
  <1>2. /\ status' = [x \in Ids |-> IF x \in DisabledRows(id) THEN "disabled" ELSE status[x]]
        /\ pin' = pin /\ subject' = subject
    BY DEF Disable, Registers
  <1>3. RowsStay
    BY <1>2, RegisteredOf DEF RowsStay, Registered, IssuedOnce
  <1>4. QED
    BY <1>1, <1>3

LEMMA CheckOutKeeps ==
  ASSUME ReplacementInvariant, NEW r \in Requests, CheckOut(r) PROVE ReplacementInvariant'
  <1>1. req[r].id \in Ids /\ Done(r) /\ UNCHANGED <<att, tokenBy, Registers>>
    BY RequestOf DEF CheckOut, At, Routes
  <1>2. tokenBy' \in [Devices -> Hashes]
    BY <1>1 DEF ReplacementInvariant, ReplacementTypeOK
  <1>3. UNCHANGED store \/ Disable(req[r].id)
    BY DEF CheckOut
  <1>4. Kept
    <2>1. CASE UNCHANGED store
      BY <1>1, <2>1, UnchangedKeeps DEF Unchanged, Registers
    <2>2. CASE Disable(req[r].id)
      BY <1>1, <1>2, <2>2, DisableRows, StoreMoves
    <2>3. QED
      BY <1>3, <2>1, <2>2
  <1>5. QED
    BY <1>1, <1>4, RequestEnds, InvariantFrom DEF Kept

LEMMA AdminDisableKeeps ==
  ASSUME ReplacementInvariant, NEW id \in Ids, AdminDisable(id) PROVE ReplacementInvariant'
  <1>1. Disable(id) /\ UNCHANGED <<att, tokenBy, Registers, req>>
    BY DEF AdminDisable, service, Registers
  <1>2. tokenBy' \in [Devices -> Hashes]
    BY <1>1 DEF ReplacementInvariant, ReplacementTypeOK
  <1>3. Kept
    BY <1>1, <1>2, DisableRows, StoreMoves
  <1>4. QED
    BY <1>1, <1>3, RequestsRest, InvariantFrom DEF Kept

LEMMA StoreTokenKeeps ==
  ASSUME ReplacementInvariant, NEW r \in Requests, StoreToken(r) PROVE ReplacementInvariant'
  <1>1. PICK q \in Slot : q = req[r] /\ q.id \in Ids /\ q.cert \in Certs
    BY RequestOf DEF StoreToken, At, Routes
  <1>2. UNCHANGED <<att, Registers>> /\ tokenBy \in [Devices -> Hashes] /\ Registered /\ TypeOK
    BY RegisteredOf DEF StoreToken, ReplacementInvariant, ReplacementTypeOK, StoreInvariant
  <1>3. CASE q.id \in Users /\ UpsertAuthenticateUser(q.id) /\ UNCHANGED <<req, tokenBy>>
    <2>1. Next
      BY <1>3 DEF Next, EnrollmentStep, IdentityStep
    <2>2. status' = [status EXCEPT ![q.id] = "pending"] /\ pin' = pin
      BY <1>3 DEF UpsertAuthenticateUser
    <2>3. RowsStay
      BY <1>2, <1>3, <2>2 DEF RowsStay, Registered, IssuedOnce, Registers, TypeOK
    <2>4. Kept
      BY <1>2, <1>3, <2>1, <2>3, StoreMoves
    <2>5. QED
      BY <1>3, <2>4, RequestsRest, InvariantFrom DEF Kept
  <1>4. CASE /\ StoreTokenUpdate(q.id) /\ Done(r)
             /\ tokenBy' = [d \in Devices |-> IF d = q.id THEN q.cert ELSE tokenBy[d]]
    <2>1. Next
      BY <1>1, <1>4 DEF Next, EnrollmentStep, IdentityStep
    <2>2. status' = [status EXCEPT ![q.id] = "enabled"] /\ pin' = pin
      BY <1>4 DEF StoreTokenUpdate
    <2>3. RowsStay
      BY <1>1, <1>2, <2>2 DEF RowsStay, Registered, IssuedOnce, Registers, TypeOK
    <2>4. tokenBy' \in [Devices -> Hashes]
      BY <1>1, <1>2, <1>4 DEF Hashes
    <2>5. Kept
      BY <1>2, <2>1, <2>3, <2>4, StoreMoves
    <2>6. QED
      BY <1>4, <2>5, RequestEnds, InvariantFrom DEF Kept
  <1>5. CASE Done(r) /\ UNCHANGED <<store, tokenBy>>
    <2>1. Kept
      BY <1>2, <1>5, UnchangedKeeps DEF Unchanged, Registers
    <2>2. QED
      BY <1>5, <2>1, RequestEnds, InvariantFrom DEF Kept
  <1>6. QED
    BY <1>1, <1>3, <1>4, <1>5 DEF StoreToken

(***************************************************************************)
(* The invariant.                                                          *)
(***************************************************************************)
LEMMA ReplacementStart == ReplacementInit => ReplacementInvariant
  <1> SUFFICES ASSUME ReplacementInit PROVE ReplacementInvariant
    OBVIOUS
  <1>1. StoreInvariant
    BY StoreInit DEF ReplacementInit
  <1>2. NoAttempt \in AttemptType /\ NoAttempt.state = "none" /\ NoAttempt.id = 0
    BY Blanks
  <1>3. Idle \in Slot /\ Idle.pc = "idle"
    BY Blanks
  <1>4. ReplacementTypeOK
    BY SMT, <1>2, <1>3 DEF ReplacementInit, ReplacementTypeOK, Hashes
  <1>5. EvidenceChain /\ StillPending
    BY <1>2 DEF ReplacementInit, EvidenceChain, StillPending
  <1>6. AttemptsNumbered
    BY SMT, <1>2 DEF ReplacementInit, AttemptsNumbered, Init
  <1>7. IssuedOnce
    <2>1. \A d \in Devices : pin[d] = None
      BY DEF ReplacementInit, Init
    <2>2. ASSUME NEW c \in Candidates, NEW d \in Devices, NEW i \in AttemptIds
          PROVE  subject[c] # <<d, i>>
      <3>1. <<d, i>> \in Devices \X (0 .. MaxAttempts)
        BY Numbers
      <3>2. QED
        BY <3>1 DEF ReplacementInit
    <2>3. QED
      BY <2>1, <2>2 DEF IssuedOnce
  <1>8. RequestsRouted
    BY <1>3 DEF ReplacementInit, RequestsRouted
  <1>9. QED
    BY <1>1, <1>4, <1>5, <1>6, <1>7, <1>8 DEF ReplacementInvariant

LEMMA AdministerKeeps ==
  ASSUME ReplacementInvariant, NEW d \in Devices, Administer(d)
  PROVE  ReplacementInvariant' /\ UNCHANGED <<store, tokenBy, req>>
  <1>1. Kept /\ UNCHANGED <<store, tokenBy, req>>
    BY PrepareKeeps, BeginKeeps, CancelKeeps, ClockKeeps, ClaimKeeps, IssueKeeps DEF Administer
  <1>2. QED
    BY <1>1, RequestsRest, InvariantFrom DEF Kept

LEMMA ReplacementStep ==
  ASSUME ReplacementInvariant, [ReplacementNext]_vars PROVE ReplacementInvariant'
  <1>1. ASSUME NEW r \in Requests, Handle(r) PROVE ReplacementInvariant'
    BY <1>1, AdmitKeeps, RouteKeeps, TransitionKeeps, AuthenticateKeeps, AuthorizeKeeps,
       StoreTokenKeeps, CheckOutKeeps DEF Handle
  <1>2. CASE UNCHANGED vars
    <2>1. Unchanged /\ UNCHANGED <<subject, holds, prepared, count, req>>
      BY <1>2 DEF vars, Unchanged, service
    <2>2. QED
      BY <2>1, UnchangedKeeps, RequestsRest, InvariantFrom DEF Kept
  <1>3. QED
    BY <1>1, <1>2, ReceiveKeeps, AdministerKeeps, AdminDisableKeeps DEF ReplacementNext

\* AdvanceReplacement, the promotion and the handlers keep the attempts, the
\* candidates, the messages under way and the store consistent, for any number
\* of concurrent requests.
THEOREM ReplacementSafety == ReplacementSpec => []ReplacementInvariant
  <1>1. ReplacementInvariant /\ [ReplacementNext]_vars => ReplacementInvariant'
    BY ReplacementStep
  <1>2. QED
    BY <1>1, ReplacementStart, PTL DEF ReplacementSpec

\* The promotion and the handlers keep everything the store promises of
\* identities, queues and user channels.
THEOREM StoreUnderReplacement == ReplacementSpec => []StoreInvariant
  <1>1. ReplacementInvariant => StoreInvariant
    BY DEF ReplacementInvariant
  <1>2. QED
    BY <1>1, ReplacementSafety, PTL

\* A step takes a store operation, or promotes a candidate.
LEMMA StoreOrPromotion ==
  ASSUME ReplacementInvariant, [ReplacementNext]_vars
  PROVE  [Next]_store \/ \E d \in Devices : \E a : Promote(d, a)
  <1>1. TypeOK
    BY DEF ReplacementInvariant, StoreInvariant
  <1>2. ASSUME NEW id \in Ids, Disable(id) PROVE Next
    BY <1>2 DEF Next, EnrollmentStep, IdentityStep
  <1>3. ASSUME NEW r \in Requests, Authenticate(r) PROVE [Next]_store
    <2>1. PICK q \in Slot : q = req[r] /\ Routes(q) /\ q.pc = "authenticate"
      BY <1>3, RequestOf DEF Authenticate, At
    <2>2. q.id \in Devices /\ q.cert \in Hashes /\ pin[q.id] \in Hashes
      BY <1>1, <2>1 DEF Routes, TypeOK, Hashes
    <2>3. \/ \E reuse, rotated \in BOOLEAN :
               AuthenticateEnrollment(q.id, pin[q.id], q.cert, reuse, rotated)
          \/ UNCHANGED store
      BY <1>3, <2>1 DEF Authenticate
    <2>4. ASSUME NEW reuse \in BOOLEAN, NEW rotated \in BOOLEAN,
                 AuthenticateEnrollment(q.id, pin[q.id], q.cert, reuse, rotated)
          PROVE  Next
      BY SMT, <2>2, <2>4 DEF Next, EnrollmentStep, IdentityStep
    <2>5. QED
      BY <2>3, <2>4
  <1>4. ASSUME NEW r \in Requests, StoreToken(r) PROVE [Next]_store
    <2>1. req[r].id \in Ids
      BY <1>4, RequestOf DEF StoreToken, At, Routes
    <2>2. QED
      BY <1>4, <2>1 DEF StoreToken, Next, EnrollmentStep, IdentityStep
  <1>5. ASSUME NEW r \in Requests, CheckOut(r) PROVE [Next]_store
    <2>1. req[r].id \in Ids
      BY <1>5, RequestOf DEF CheckOut, At, Routes
    <2>2. QED
      BY <1>2, <1>5, <2>1 DEF CheckOut
  <1>6. ASSUME NEW r \in Requests, Transition(r)
        PROVE  UNCHANGED store \/ \E d \in Devices : \E a : Promote(d, a)
    <2>1. Device(req[r].id) \in Devices
      BY <1>6, RequestOf DEF Transition, At, Routes, Device
    <2>2. QED
      BY <1>6, <2>1 DEF Transition, Advance, Unchanged
  <1>7. ASSUME NEW r \in Requests, Admit(r) \/ Route(r) \/ Authorize(r) PROVE UNCHANGED store
    BY <1>7 DEF Admit, Route, Authorize, Read, Unchanged
  <1>8. ASSUME NEW d \in Devices, Administer(d) PROVE UNCHANGED store
    BY <1>8, AdministerKeeps
  <1>9. ASSUME NEW id \in Ids, AdminDisable(id) PROVE Next
    BY <1>2, <1>9 DEF AdminDisable
  <1>10. QED
    BY <1>3, <1>4, <1>5, <1>6, <1>7, <1>8, <1>9 DEF ReplacementNext, Handle, Receive, Unchanged, vars

\* A change of identity keeps the records: whatever attempts, promotions and
\* ordinary check-ins interleave, the commit leaves the command queue alone and
\* adds to the association history.
THEOREM PromotionKeepsRecords == ReplacementSpec => RecordsFinal
  <1>1. ASSUME ReplacementInvariant, [ReplacementNext]_vars PROVE [RecordsStep]_store
    <2>1. TypeOK
      BY <1>1 DEF ReplacementInvariant, StoreInvariant
    <2>2. CASE [Next]_store
      BY <2>1, <2>2, RecordsStepHolds
    <2>3. ASSUME NEW d \in Devices, NEW a, Promote(d, a) PROVE RecordsStep
      <3>1. history \subseteq history' /\ queue' = queue
        BY <2>3 DEF Promote, RecordAssociation
      <3>2. \A id \in Ids : Len(queue[id]) \in Nat
        BY SMT, <2>1 DEF TypeOK
      <3>3. \A id \in Ids : Len(queue[id]) >= Len(queue[id])
        BY SMT, <3>2
      <3>4. QED
        BY <3>1, <3>3 DEF RecordsStep
    <2>4. QED
      BY <1>1, <2>2, <2>3, StoreOrPromotion
  <1>2. RecordsFinal <=> [][RecordsStep]_store
    BY DEF RecordsFinal, RecordsStep
  <1>3. QED
    BY <1>1, <1>2, ReplacementSafety, PTL DEF ReplacementSpec

\* The evidence AdvanceReplacement collects for an attempt builds up in order
\* and belongs to it.
THEOREM EvidenceInOrder == ReplacementSpec => []EvidenceChain
  <1>1. ReplacementInvariant => EvidenceChain
    BY DEF ReplacementInvariant
  <1>2. QED
    BY <1>1, ReplacementSafety, PTL


(***************************************************************************)
(* Refinement: what each step is to the abstract replacement.              *)
(***************************************************************************)
Phase == [d \in Devices |-> status[d]]
Origin == [d \in Devices |-> att[d].old]
Outcome == [d \in Devices |-> Current(d).state]
Candidate == [d \in Devices |-> att[d].cand]
view == <<Phase, pin, Outcome, Origin, Candidate>>

Refines == Abstract!AttemptNext \/ UNCHANGED view

\* The state an attempt is read with.
Of(a) == IF Expired(a) THEN "expired" ELSE a.state

LEMMA OutcomeOf ==
  ASSUME att \in [Devices -> AttemptType], NEW d \in Devices PROVE Outcome[d] = Of(att[d])
  <1>1. Ended(att[d], "expired").state = "expired"
    BY EndedType DEF States
  <1>2. QED
    BY <1>1 DEF Outcome, Current, Of

LEMMA OutcomeNext ==
  ASSUME att' \in [Devices -> AttemptType], NEW d \in Devices PROVE Outcome'[d] = Of(att'[d])
  <1>1. PICK a \in AttemptType : a = att'[d]
    OBVIOUS
  <1>2. Ended(a, "expired").state = "expired"
    BY EndedType DEF States
  <1>3. Outcome'[d] = (IF Expired(a) THEN Ended(a, "expired") ELSE a).state
    BY <1>1 DEF Outcome, Current
  <1>4. QED
    BY <1>1, <1>2, <1>3 DEF Of

\* A step that only changes what is not seen.
LEMMA Unseen ==
  ASSUME ReplacementInvariant, ReplacementInvariant', pin' = pin,
         \A d \in Devices : /\ status'[d] = status[d] /\ att'[d].old = att[d].old
                            /\ att'[d].cand = att[d].cand /\ Of(att'[d]) = Of(att[d])
  PROVE  UNCHANGED view
  <1>1. att \in [Devices -> AttemptType] /\ att' \in [Devices -> AttemptType]
    BY DEF ReplacementInvariant, ReplacementTypeOK
  <1>2. \A d \in Devices : Outcome'[d] = Outcome[d]
    BY <1>1, OutcomeOf, OutcomeNext
  <1>3. Outcome' = Outcome
    BY <1>2 DEF Outcome
  <1>4. Phase' = Phase /\ Origin' = Origin /\ Candidate' = Candidate
    BY DEF Phase, Origin, Candidate
  <1>5. QED
    BY <1>3, <1>4 DEF view

\* A step that changes the attempt of one device.
LEMMA AttemptSeen ==
  ASSUME ReplacementInvariant, ReplacementInvariant', NEW d \in Devices, NEW a \in AttemptType,
         att' = [att EXCEPT ![d] = a]
  PROVE  /\ Outcome' = [Outcome EXCEPT ![d] = Of(a)]
         /\ Origin' = [Origin EXCEPT ![d] = a.old]
         /\ Candidate' = [Candidate EXCEPT ![d] = a.cand]
  <1>1. /\ att \in [Devices -> AttemptType] /\ att' \in [Devices -> AttemptType]
        /\ \A o \in Devices : att'[o] = IF o = d THEN a ELSE att[o]
    BY DEF ReplacementInvariant, ReplacementTypeOK
  <1>2. \A o \in Devices : Outcome'[o] = IF o = d THEN Of(a) ELSE Outcome[o]
    BY <1>1, OutcomeOf, OutcomeNext
  <1>3. Outcome' = [Outcome EXCEPT ![d] = Of(a)]
    BY <1>2 DEF Outcome
  <1>4. QED
    BY <1>1, <1>3 DEF Origin, Candidate

LEMMA Seen ==
  ASSUME ReplacementInvariant, NEW d \in Devices
  PROVE  /\ Outcome[d] = Of(att[d]) /\ Origin[d] = att[d].old /\ Candidate[d] = att[d].cand
         /\ Phase[d] = status[d]
  BY OutcomeOf DEF Origin, Candidate, Phase, ReplacementInvariant, ReplacementTypeOK

LEMMA PendingSeen ==
  ASSUME ReplacementInvariant, NEW d \in Devices, NEW id, Active(d, id)
  PROVE  Outcome[d] = "pending" /\ ~Expired(att[d])
  <1>1. Current(d).state = "pending" /\ att[d].state = "pending" /\ Current(d) = att[d]
    BY ActiveOf
  <1>2. Outcome[d] = "pending"
    BY <1>1 DEF Outcome
  <1>3. QED
    BY <1>2, Seen DEF Of

\* Every reason for which an attempt ends without a promotion is GiveUp.
LEMMA GivesUp ==
  ASSUME ReplacementInvariant, ReplacementInvariant', NEW d \in Devices, NEW a \in AttemptType,
         att' = [att EXCEPT ![d] = a], UNCHANGED <<status, pin>>,
         a.old = att[d].old, a.cand = att[d].cand,
         Outcome[d] = "pending", Of(a) \in {"failed", "cancelled", "expired"}
  PROVE  Refines
  <1>1. PICK how \in {"failed", "cancelled", "expired"} : how = Of(a)
    OBVIOUS
  <1>2. Origin' = Origin /\ Candidate' = Candidate /\ Outcome' = [Outcome EXCEPT ![d] = how]
    <2>1. /\ Outcome' = [Outcome EXCEPT ![d] = how]
          /\ Origin' = [Origin EXCEPT ![d] = a.old]
          /\ Candidate' = [Candidate EXCEPT ![d] = a.cand]
      BY <1>1, AttemptSeen
    <2>2. Origin[d] = a.old /\ Candidate[d] = a.cand
      BY Seen
    <2>3. QED
      BY SMT, <2>1, <2>2 DEF Origin, Candidate
  <1>3. Phase' = Phase
    BY DEF Phase
  <1>4. Abstract!GiveUp(d, how)
    BY <1>2, <1>3 DEF Abstract!GiveUp, Abstract!lifecycle, Outcome, Origin, Candidate, Phase
  <1>5. QED
    BY <1>4 DEF Refines, Abstract!AttemptNext


LEMMA AdministratorRefines ==
  ASSUME ReplacementInvariant, ReplacementInvariant', NEW d \in Devices,
         (\E method \in Methods : Prepare(d, method)) \/ Begin(d) \/ Cancel(d)
  PROVE  Refines
  <1>1. CASE \E method \in Methods : Prepare(d, method)
    <2>1. UNCHANGED <<status, pin, att>>
      BY <1>1 DEF Prepare, store
    <2>2. QED
      BY <2>1, Unseen DEF Refines
  <1>2. CASE Begin(d) /\ ~Begins(d)
    <2>1. UNCHANGED <<status, pin, att>>
      BY <1>2 DEF Begin, store
    <2>2. QED
      BY <2>1, Unseen DEF Refines
  <1>3. CASE Begin(d) /\ Begins(d)
    <2>1. PICK a \in AttemptType : a = prepared[d]
      BY RegisteredOf DEF Registered
    <2>2. a.state = "pending" /\ a.cand = None /\ ~a.late
      <3>1. a = Attempt(a.id, "pending", a.method, a.old)
        BY <1>3, <2>1, RegisteredOf DEF Registered, AttemptsNumbered, Begin
      <3>2. QED
        BY <3>1, PreparedAttempt
    <2>3. /\ att' = [att EXCEPT ![d] = a] /\ UNCHANGED <<status, pin>>
          /\ a.old = pin[d] /\ status[d] = "enabled" /\ Current(d).state # "pending"
      BY <1>3, <2>1 DEF Begin, Begins, store
    <2>4. Of(a) = "pending"
      BY <2>2 DEF Of, Expired
    <2>5. /\ Outcome' = [Outcome EXCEPT ![d] = "pending"]
          /\ Origin' = [Origin EXCEPT ![d] = pin[d]]
          /\ Candidate' = [Candidate EXCEPT ![d] = None]
      <3>1. /\ Outcome' = [Outcome EXCEPT ![d] = Of(a)]
            /\ Origin' = [Origin EXCEPT ![d] = a.old]
            /\ Candidate' = [Candidate EXCEPT ![d] = a.cand]
        BY <2>3, AttemptSeen
      <3>2. QED
        BY <2>2, <2>3, <2>4, <3>1
    <2>6. Phase' = Phase /\ Phase[d] = "enabled" /\ Outcome[d] # "pending"
      BY <2>3 DEF Phase, Outcome
    <2>7. Abstract!Begin(d)
      BY <2>3, <2>5, <2>6 DEF Abstract!Begin, Abstract!lifecycle, Outcome, Origin, Candidate, Phase
    <2>8. QED
      BY <2>7 DEF Refines, Abstract!AttemptNext
  <1>4. CASE Cancel(d)
    <2>1. Current(d) = att[d] /\ att[d] \in AttemptType /\ Outcome[d] = "pending"
      BY <1>4, ActiveOf, EvidenceOf, PendingSeen DEF Cancel
    <2>2. PICK a \in AttemptType : /\ a = Ended(att[d], "cancelled") /\ a.old = att[d].old
                                   /\ a.cand = att[d].cand /\ a.state = "cancelled"
      BY <2>1, EndedType DEF States
    <2>3. ~Complete(d, a) /\ Of(a) = "cancelled"
      BY <2>2 DEF Complete, Of, Expired
    <2>4. att' = [att EXCEPT ![d] = a] /\ UNCHANGED <<status, pin>>
      BY <1>4, <2>1, <2>2, <2>3 DEF Cancel, Advance, store
    <2>5. QED
      BY <2>1, <2>2, <2>3, <2>4, GivesUp
  <1>5. QED
    BY <1>1, <1>2, <1>3, <1>4

LEMMA ClockRefines ==
  ASSUME ReplacementInvariant, ReplacementInvariant', NEW d \in Devices,
         DeadlinePasses(d) \/ CandidateLapses(d)
  PROVE  Refines
  <1>1. att[d] \in AttemptType /\ att[d].state = "pending" /\ att \in [Devices -> AttemptType]
    BY EvidenceOf, RegisteredOf DEF DeadlinePasses, CandidateLapses, Registered
  <1>2. PICK a : /\ a = [att[d] EXCEPT !.late = TRUE] \/ a = [att[d] EXCEPT !.over = TRUE]
                 /\ att' = [att EXCEPT ![d] = a]
    BY DEF DeadlinePasses, CandidateLapses
  <1>3. /\ a \in AttemptType /\ a.cand = att[d].cand /\ a.old = att[d].old
        /\ a.state = "pending" /\ (att[d].late => a.late) /\ (att[d].over => a.over)
    <2>1. CASE a = [att[d] EXCEPT !.late = TRUE]
      BY <1>1, <2>1 DEF AttemptType
    <2>2. CASE a = [att[d] EXCEPT !.over = TRUE]
      BY <1>1, <2>2 DEF AttemptType
    <2>3. QED
      BY <1>2, <2>1, <2>2
  <1>4. UNCHANGED <<status, pin>>
    BY DEF DeadlinePasses, CandidateLapses, store
  <1>5. CASE Of(a) = Of(att[d])
    BY <1>1, <1>2, <1>3, <1>4, <1>5, Unseen DEF Refines
  <1>6. CASE Of(a) # Of(att[d])
    <2>1. Of(a) = "expired" /\ Of(att[d]) = "pending"
      BY <1>1, <1>3, <1>6 DEF Of, Expired
    <2>2. Outcome[d] = "pending"
      BY <2>1, Seen
    <2>3. QED
      BY <1>2, <1>3, <1>4, <2>1, <2>2, GivesUp
  <1>7. QED
    BY <1>5, <1>6

LEMMA IssuanceRefines ==
  ASSUME ReplacementInvariant, ReplacementInvariant', NEW d \in Devices, NEW id,
         \/ \E key \in PublicKeys : Claim(d, id, key)
         \/ \E c \in Candidates : Issue(d, id, c)
  PROVE  Refines
  <1>1. /\ att[d] \in AttemptType /\ Evidence(d, att[d]) /\ Registered
        /\ att[d].state = "pending" /\ att[d].id = id /\ Current(d) = att[d]
        /\ Outcome[d] = "pending" /\ ~Expired(att[d])
    BY EvidenceOf, RegisteredOf, ActiveOf, PendingSeen DEF Claim, Issue
  <1>2. ASSUME NEW key \in PublicKeys, Claim(d, id, key) PROVE Refines
    <2>1. PICK a : a = [att[d] EXCEPT !.key = key]
      OBVIOUS
    <2>2. /\ a.cand = att[d].cand /\ a.old = att[d].old /\ a.state = att[d].state
          /\ a.late = att[d].late /\ a.over = att[d].over /\ a.acked = att[d].acked
          /\ a.authed = att[d].authed /\ a.tokens = att[d].tokens
      BY <1>1, <2>1 DEF AttemptType
    <2>3. ~Complete(d, a) /\ Of(a) = Of(att[d])
      BY <1>1, <2>2 DEF Complete, Evidence, Of, Expired
    <2>4. att' = [att EXCEPT ![d] = a] /\ UNCHANGED <<status, pin>>
      BY <1>1, <1>2, <2>1, <2>3 DEF Claim, Advance, store
    <2>5. QED
      BY <1>1, <2>2, <2>3, <2>4, Unseen DEF Refines, Registered
  <1>3. ASSUME NEW c \in Candidates, Issue(d, id, c) PROVE Refines
    <2>1. PICK a : a = [att[d] EXCEPT !.cand = c]
      OBVIOUS
    <2>2. /\ a \in AttemptType /\ a.cand = c /\ a.old = att[d].old /\ a.state = att[d].state
          /\ a.late = att[d].late /\ a.over = att[d].over /\ a.acked = att[d].acked
          /\ a.authed = att[d].authed /\ a.tokens = att[d].tokens
      BY <1>1, <2>1 DEF AttemptType
    <2>3. ~Complete(d, a)
      BY <1>1, <2>2 DEF Complete, Evidence
    <2>4. /\ att' = [att EXCEPT ![d] = a] /\ UNCHANGED <<status, pin>>
          /\ (att[d].late => att[d].cand = c) /\ att[d].cand \in {None, c}
          /\ subject[c] \in {None, <<d, id>>} /\ id \in AttemptIds
      BY <1>1, <1>3, <2>1, <2>3 DEF Issue, Advance, store, Registered
    <2>5. CASE att[d].cand = c
      <3>1. Of(a) = Of(att[d])
        BY <2>2, <2>5 DEF Of, Expired
      <3>2. QED
        BY <1>1, <2>2, <2>4, <2>5, <3>1, Unseen DEF Refines, Registered
    <2>6. CASE att[d].cand # c
      <3>1. att[d].cand = None /\ ~att[d].late
        BY <1>3, <1>1, <2>4, <2>6 DEF Issue
      <3>2. Of(a) = "pending"
        BY <1>1, <2>2, <3>1 DEF Of, Expired
      <3>3. subject[c] = None
        <4>1. subject[c] # <<d, id>>
          BY <1>1, <2>4, <2>6 DEF Registered, IssuedOnce
        <4>2. QED
          BY <2>4, <4>1
      <3>4. \A o \in Devices : pin[o] # c
        BY SMT, <1>1, <3>3 DEF Registered, IssuedOnce
      <3>5. /\ Outcome' = [Outcome EXCEPT ![d] = "pending"]
            /\ Origin' = [Origin EXCEPT ![d] = att[d].old]
            /\ Candidate' = [Candidate EXCEPT ![d] = c]
        <4>1. /\ Outcome' = [Outcome EXCEPT ![d] = Of(a)]
              /\ Origin' = [Origin EXCEPT ![d] = a.old]
              /\ Candidate' = [Candidate EXCEPT ![d] = a.cand]
          BY <2>2, <2>4, AttemptSeen
        <4>2. QED
          BY <2>2, <3>2, <4>1
      <3>6. /\ Outcome' = Outcome /\ Origin' = Origin /\ Phase' = Phase
            /\ Candidate[d] = None /\ c \in Certs
        <4>1. Origin[d] = att[d].old /\ Candidate[d] = att[d].cand
          BY Seen
        <4>2. Outcome' = Outcome
          BY <1>1, <3>5 DEF Outcome
        <4>3. Origin' = Origin
          BY <3>5, <4>1 DEF Origin
        <4>4. QED
          BY <2>4, <3>1, <4>1, <4>2, <4>3 DEF Phase
      <3>7. Abstract!Bind(d, c)
        BY <1>1, <2>4, <3>4, <3>5, <3>6
        DEF Abstract!Bind, Abstract!lifecycle, Outcome, Origin, Candidate, Phase
      <3>8. QED
        BY <3>6, <3>7 DEF Refines, Abstract!AttemptNext
    <2>7. QED
      BY <2>5, <2>6
  <1>4. QED
    BY <1>2, <1>3


\* Storing an expiry that was found shows nothing new.
LEMMA ReadRefines ==
  ASSUME ReplacementInvariant, ReplacementInvariant', NEW d \in Devices, Read(d)
  PROVE  Refines
  <1>1. att[d] \in AttemptType /\ att \in [Devices -> AttemptType]
    BY EvidenceOf, RegisteredOf DEF Registered
  <1>2. PICK a \in AttemptType :
          /\ a = Current(d) /\ a.cand = att[d].cand /\ a.old = att[d].old
          /\ a = att[d] \/ (a.state = "expired" /\ att[d].state = "pending")
    BY CurrentOf
  <1>3. att' = [att EXCEPT ![d] = a] /\ UNCHANGED <<status, pin>>
    BY <1>2 DEF Read, store
  <1>4. Of(a) = Of(att[d])
    <2>1. Outcome[d] = a.state
      BY <1>2 DEF Outcome
    <2>2. Outcome[d] = Of(att[d])
      BY Seen
    <2>3. CASE a = att[d]
      BY <2>3
    <2>4. CASE a.state = "expired"
      BY <2>1, <2>2, <2>4 DEF Of, Expired
    <2>5. QED
      BY <1>2, <2>3, <2>4
  <1>5. QED
    BY <1>1, <1>2, <1>3, <1>4, Unseen DEF Refines

LEMMA TransitionRefines ==
  ASSUME ReplacementInvariant, ReplacementInvariant', NEW r \in Requests, Transition(r)
  PROVE  Refines
  <1>1. PICK q : q = req[r] /\ q.pc = "transition"
    BY DEF Transition, At
  <1>2. PICK d : d = Device(q.id)
    OBVIOUS
  <1>3. PICK b : b = Advanced(Current(d), q)
    OBVIOUS
  <1>4. CASE Unchanged
    <2>1. UNCHANGED <<status, pin, att>>
      BY <1>4 DEF Unchanged, store
    <2>2. QED
      BY <2>1, Unseen DEF Refines
  <1>5. CASE /\ Active(d, q.att) /\ Permitted(Current(d), q) /\ Committable(d, b)
             /\ Advance(d, b)
    <2>a. TransitionMoves(q, d, b)
      BY <1>1, <1>2, <1>3, <1>5, TransitionFacts DEF Accepted
    <2>1. PICK a \in AttemptType :
           /\ a = b /\ d \in Devices
           /\ a.cand = att[d].cand /\ a.old = att[d].old
           /\ a.state \in {"pending", "failed"}
           /\ a.state = "pending" => a.late = att[d].late /\ a.over = att[d].over
           /\ Complete(d, a) => Ready(d, a)
           /\ att[d].state = "pending"
      BY <2>a DEF TransitionMoves
    <2>2. /\ att \in [Devices -> AttemptType] /\ TypeOK /\ Outcome[d] = "pending"
          /\ att[d].old = pin[d] /\ status[d] = "enabled"
      BY <1>5, <2>1, RegisteredOf, PendingSeen, ActiveOf
      DEF Registered, ReplacementInvariant, StoreInvariant
    <2>3. CASE ~Complete(d, a) /\ a.state = "pending"
      <3>1. Of(a) = Of(att[d])
        BY <2>1, <2>3 DEF Of, Expired
      <3>2. att' = [att EXCEPT ![d] = a] /\ UNCHANGED <<status, pin>>
        BY <1>5, <2>1, <2>3 DEF Advance, store
      <3>3. QED
        BY <2>1, <2>2, <3>1, <3>2, Unseen DEF Refines
    <2>4. CASE a.state = "failed"
      <3>1. Of(a) = "failed" /\ ~Complete(d, a)
        BY <2>4 DEF Of, Expired, Complete
      <3>2. att' = [att EXCEPT ![d] = a] /\ UNCHANGED <<status, pin>>
        BY <1>5, <2>1, <3>1 DEF Advance, store
      <3>3. QED
        BY <2>1, <2>2, <3>1, <3>2, GivesUp
    <2>5. CASE Complete(d, a)
      <3>1. Ready(d, a) /\ Promote(d, a)
        BY <1>5, <2>1, <2>5 DEF Advance
      <3>2. PICK e \in AttemptType : /\ e = Ended(a, "committed") /\ e.old = a.old
                                     /\ e.cand = a.cand /\ e.state = "committed"
        BY EndedType DEF States
      <3>3. /\ att' = [att EXCEPT ![d] = e] /\ pin' = [pin EXCEPT ![d] = a.cand]
            /\ status' = [id \in Ids |-> IF id \in a.tokens THEN "enabled" ELSE status[id]]
        BY <3>1, <3>2 DEF Promote
      <3>4. Of(e) = "committed"
        BY <3>2 DEF Of, Expired
      <3>5. /\ Outcome' = [Outcome EXCEPT ![d] = Of(e)]
            /\ Origin' = [Origin EXCEPT ![d] = e.old]
            /\ Candidate' = [Candidate EXCEPT ![d] = e.cand]
        BY <2>1, <3>3, AttemptSeen
      <3>6. Origin[d] = e.old /\ Candidate[d] = e.cand /\ Phase[d] = "enabled"
        BY <2>1, <2>2, <3>2, Seen
      <3>7. Origin' = Origin /\ Candidate' = Candidate
        BY <3>5, <3>6 DEF Origin, Candidate
      <3>8. Phase' = Phase
        <4>1. \A o \in Devices : o \in a.tokens => o = d
          BY <3>1 DEF Ready, Family, Children
        <4>2. QED
          BY <2>2, <3>3, <4>1 DEF Phase
      <3>9. /\ pin[d] = Origin[d] /\ Candidate[d] # None
            /\ pin' = [pin EXCEPT ![d] = Candidate[d]]
            /\ Outcome' = [Outcome EXCEPT ![d] = "committed"]
        BY <2>1, <2>2, <3>1, <3>2, <3>3, <3>4, <3>5, <3>6 DEF Ready
      <3>10. Abstract!TakeOver(d)
        BY <2>2, <3>6, <3>7, <3>8, <3>9 DEF Abstract!TakeOver, Outcome, Origin, Candidate, Phase
      <3>11. QED
        BY <2>1, <3>10 DEF Refines, Abstract!AttemptNext
    <2>6. QED
      BY <2>1, <2>3, <2>4, <2>5
  <1>6. QED
    BY <1>1, <1>2, <1>3, <1>4, <1>5 DEF Transition

LEMMA AttemptRests ==
  ASSUME ReplacementInvariant, ReplacementInvariant', UNCHANGED att
  PROVE  Outcome' = Outcome /\ Origin' = Origin /\ Candidate' = Candidate
  BY DEF Outcome, Current, Expired, Ended, Attempt, Origin, Candidate

LEMMA AuthenticateRefines ==
  ASSUME ReplacementInvariant, ReplacementInvariant', NEW r \in Requests, Authenticate(r)
  PROVE  Refines
  <1>1. PICK q \in Slot : q = req[r] /\ Routes(q) /\ q.pc = "authenticate"
    BY RequestOf DEF Authenticate, At
  <1>2. PICK d \in Devices, c \in Certs : d = q.id /\ c = q.cert /\ att[d].cand # c
    BY <1>1 DEF Routes
  <1>3. TypeOK /\ IdentityIndex /\ Registered
    BY RegisteredOf DEF ReplacementInvariant, StoreInvariant
  <1>4. CASE UNCHANGED store
    <2>1. UNCHANGED <<status, pin, att>>
      BY <1>4 DEF Authenticate, store
    <2>2. QED
      BY <2>1, Unseen DEF Refines
  <1>5. ASSUME NEW reuse \in BOOLEAN, NEW rotated \in BOOLEAN,
               AuthenticateEnrollment(d, pin[d], c, reuse, rotated)
        PROVE  Refines
    <2>1. /\ CheckAuthenticate(d, pin[d], c, rotated) = "reset" /\ certs[c] \in {None, d}
          /\ ResetDevice(d, c) /\ c # None
      BY <1>5 DEF AuthenticateEnrollment, CertAvailable
    <2>2. /\ pin' = [pin EXCEPT ![d] = c]
          /\ \A o \in Devices : status'[o] = IF o = d THEN "pending" ELSE status[o]
      BY <2>1 DEF ResetDevice, Children
    <2>3. Phase' = [Phase EXCEPT ![d] = "pending"]
      BY <2>2 DEF Phase
    <2>4. ASSUME NEW o \in Devices PROVE pin[o] # c
      <3>1. CASE o = d
        <4>1. status[d] = "absent" => pin[d] = None
          BY <1>3 DEF Registered, AttemptsNumbered
        <4>2. QED
          BY <2>1, <3>1, <4>1 DEF CheckAuthenticate
      <3>2. CASE o # d
        BY SMT, <1>3, <2>1, <3>2 DEF IdentityIndex
      <3>3. QED
        BY <3>1, <3>2
    <2>5. Abstract!Authenticate(d, c)
      BY <2>1, <2>2, <2>3, <2>4 DEF Abstract!Authenticate, Phase
    <2>6. UNCHANGED <<Outcome, Origin, Candidate>> /\ Candidate[d] # c
      BY <1>2, AttemptRests, Seen DEF Authenticate
    <2>7. Abstract!Ordinary(d)
      BY <2>5, <2>6 DEF Abstract!Ordinary, Abstract!attempt, Outcome, Origin, Candidate
    <2>8. QED
      BY <2>7 DEF Refines, Abstract!AttemptNext
  <1>6. QED
    BY <1>1, <1>2, <1>4, <1>5 DEF Authenticate

LEMMA DisableRefines ==
  ASSUME ReplacementInvariant, ReplacementInvariant', NEW id \in Ids, Disable(id), UNCHANGED att
  PROVE  Refines
  <1>1. TypeOK /\ UNCHANGED <<Outcome, Origin, Candidate>> /\ pin' = pin
    BY AttemptRests DEF ReplacementInvariant, StoreInvariant, Disable
  <1>2. /\ status' = [x \in Ids |-> IF x \in DisabledRows(id) THEN "disabled" ELSE status[x]]
        /\ status[id] # "absent"
    BY DEF Disable
  <1>3. \A o \in Devices : o \in DisabledRows(id) <=> o = id
    BY DEF DisabledRows
  <1>4. CASE id \in Users \/ status[id] = "disabled"
    <2>1. Phase' = Phase
      BY <1>2, <1>3, <1>4 DEF Phase
    <2>2. QED
      BY <1>1, <2>1 DEF Refines, view
  <1>5. CASE id \in Devices /\ status[id] # "disabled"
    <2>1. /\ Phase' = [Phase EXCEPT ![id] = "disabled"]
          /\ Phase[id] \in {"pending", "enabled"}
      <3>1. Phase' = [Phase EXCEPT ![id] = "disabled"]
        BY <1>2, <1>3, <1>5 DEF Phase
      <3>2. status[id] \in {"pending", "enabled"}
        BY <1>1, <1>2, <1>5 DEF TypeOK
      <3>3. QED
        BY <1>5, <3>1, <3>2 DEF Phase
    <2>2. Abstract!Remove(id)
      BY <1>1, <1>5, <2>1 DEF Abstract!Remove, Phase
    <2>3. Abstract!Ordinary(id)
      BY <1>1, <2>2 DEF Abstract!Ordinary, Abstract!attempt, Outcome, Origin, Candidate
    <2>4. QED
      BY <1>5, <2>3 DEF Refines, Abstract!AttemptNext
  <1>6. QED
    BY <1>4, <1>5

LEMMA StoreTokenRefines ==
  ASSUME ReplacementInvariant, ReplacementInvariant', NEW r \in Requests, StoreToken(r)
  PROVE  Refines
  <1>1. PICK id \in Ids : id = req[r].id
    BY RequestOf DEF StoreToken, At, Routes
  <1>2. TypeOK /\ UNCHANGED <<Outcome, Origin, Candidate>>
    BY AttemptRests DEF ReplacementInvariant, StoreInvariant, StoreToken
  <1>3. CASE id \in Users /\ UpsertAuthenticateUser(id)
    <2>1. status' = [status EXCEPT ![id] = "pending"] /\ pin' = pin
      BY <1>3 DEF UpsertAuthenticateUser
    <2>2. Phase' = Phase
      BY <1>2, <1>3, <2>1 DEF Phase, TypeOK
    <2>3. QED
      BY <1>2, <2>1, <2>2 DEF Refines, view
  <1>4. CASE StoreTokenUpdate(id)
    <2>1. /\ status' = [status EXCEPT ![id] = "enabled"] /\ pin' = pin
          /\ status[id] \in {"pending", "enabled"}
      BY <1>4 DEF StoreTokenUpdate, TokenUpdateAllowed
    <2>2. CASE id \in Users \/ status[id] = "enabled"
      <3>1. Phase' = Phase
        BY <1>2, <2>1, <2>2 DEF Phase, TypeOK
      <3>2. QED
        BY <1>2, <2>1, <3>1 DEF Refines, view
    <2>3. CASE id \in Devices /\ status[id] = "pending"
      <3>1. Phase' = [Phase EXCEPT ![id] = "enabled"] /\ Phase[id] = "pending"
        BY <1>2, <2>1, <2>3 DEF Phase, TypeOK
      <3>2. Abstract!Activate(id)
        BY <2>1, <3>1 DEF Abstract!Activate, Phase
      <3>3. Abstract!Ordinary(id)
        BY <1>2, <3>2 DEF Abstract!Ordinary, Abstract!attempt, Outcome, Origin, Candidate
      <3>4. QED
        BY <2>3, <3>3 DEF Refines, Abstract!AttemptNext
    <2>4. QED
      BY <2>1, <2>2, <2>3
  <1>5. CASE UNCHANGED store
    <2>1. Phase' = Phase /\ pin' = pin
      BY <1>5 DEF Phase, store
    <2>2. QED
      BY <1>2, <2>1 DEF Refines, view
  <1>6. QED
    BY <1>1, <1>3, <1>4, <1>5 DEF StoreToken

LEMMA StepRefines ==
  ASSUME ReplacementInvariant, ReplacementInvariant', [ReplacementNext]_vars
  PROVE  Refines
  <1>1. ASSUME Unchanged PROVE Refines
    <2>1. UNCHANGED <<status, pin, att>>
      BY <1>1 DEF Unchanged, store
    <2>2. QED
      BY <2>1, Unseen DEF Refines
  <1>2. ASSUME NEW r \in Requests, Handle(r) PROVE Refines
    <2>1. CASE Admit(r)
      <3>1. Device(req[r].id) \in Devices
        BY <2>1, RequestOf, DeviceOfId DEF Admit, At, Routes
      <3>2. QED
        BY <1>1, <2>1, <3>1, ReadRefines DEF Admit
    <2>2. CASE Route(r)
      <3>1. Device(req[r].id) \in Devices
        BY <2>2, RequestOf, DeviceOfId DEF Route, At, Routes
      <3>2. QED
        BY <2>2, <3>1, ReadRefines DEF Route
    <2>3. CASE Authorize(r)
      BY <1>1, <2>3 DEF Authorize
    <2>4. CASE CheckOut(r)
      <3>1. req[r].id \in Ids /\ UNCHANGED <<att, tokenBy>>
        BY <2>4, RequestOf DEF CheckOut, At, Routes
      <3>2. QED
        BY <1>1, <2>4, <3>1, DisableRefines DEF CheckOut, Unchanged
    <2>5. QED
      BY <1>2, <2>1, <2>2, <2>3, <2>4, TransitionRefines, AuthenticateRefines, StoreTokenRefines
      DEF Handle
  <1>3. ASSUME NEW d \in Devices, Administer(d) PROVE Refines
    BY <1>3, AdministratorRefines, ClockRefines, IssuanceRefines DEF Administer
  <1>4. ASSUME NEW id \in Ids, AdminDisable(id) PROVE Refines
    BY <1>4, DisableRefines DEF AdminDisable
  <1>5. CASE UNCHANGED vars
    BY <1>1, <1>5 DEF vars, Unchanged
  <1>6. QED
    BY <1>1, <1>2, <1>3, <1>4, <1>5 DEF ReplacementNext, Receive

LEMMA StartRefines == ReplacementInit => Abstract!AttemptInit
  <1> SUFFICES ASSUME ReplacementInit PROVE Abstract!AttemptInit
    OBVIOUS
  <1>1. \A d \in Devices : /\ status[d] = "absent" /\ att[d].old = None /\ att[d].cand = None
                           /\ Current(d).state = "none"
    BY DEF ReplacementInit, Init, NoAttempt, Attempt, Current, Expired
  <1>2. pin = [d \in Devices |-> None]
    BY DEF ReplacementInit, Init
  <1>3. QED
    BY <1>1, <1>2 DEF Abstract!AttemptInit, Abstract!LifecycleInit

\* The two-call transitions of the service, the clock, the administrator and
\* the ordinary check-ins together implement the atomic change of identity.
THEOREM ReplacementIsAtomic == ReplacementSpec => ImplementsReplacement
  <1>1. /\ ReplacementInvariant /\ ReplacementInvariant' /\ [ReplacementNext]_vars
        => [Abstract!AttemptNext]_<<Abstract!lifecycle, Abstract!attempt>>
    BY StepRefines DEF Refines, view, Abstract!lifecycle, Abstract!attempt, Phase, Outcome,
       Origin, Candidate
  <1>2. QED
    BY <1>1, StartRefines, ReplacementSafety, PTL
    DEF ReplacementSpec, ImplementsReplacement, Abstract!AttemptSpec


(***************************************************************************)
(* The push token of an enabled device, while no message of the device is  *)
(* handled beside one that may move its identity.  Such an overlap breaks  *)
(* it: the token of the replaced identity is stored after the promotion.   *)
(***************************************************************************)
MovingPcs == {"transition", "authenticate"}

MovesAlone ==
    \A x, y \in Requests :
      /\ x # y /\ ~At(x, "idle") /\ ~At(y, "idle")
      /\ Device(req[x].id) = Device(req[y].id)
      => req[x].pc \notin MovingPcs

\* A message authorizeRequest let through is still the pinned identity's when
\* the store is called.
Authorised ==
    \A r \in Requests : req[r].pc = "store" => pin[Device(req[r].id)] = req[r].cert

PushInvariant == PushUnderPin /\ Authorised

LEMMA PushRests ==
  ASSUME PushUnderPin, UNCHANGED <<store, tokenBy>> PROVE PushUnderPin'
  BY DEF PushUnderPin, store

\* A step of r moves no pin but, at a moving stage, its own device's.
Contained(r) ==
    /\ \A x \in Requests : x # r => req'[x] = req[x]
    /\ \A d \in Devices : pin'[d] # pin[d] =>
         d = Device(req[r].id) /\ req[r].pc \in MovingPcs

LEMMA OthersAuthorised ==
  ASSUME ReplacementInvariant, MovesAlone, Authorised, NEW r \in Requests, Contained(r),
         req'[r].pc = "store" => pin'[Device(req'[r].id)] = req'[r].cert
  PROVE  Authorised'
  <1> SUFFICES ASSUME NEW x \in Requests, x # r, req'[x].pc = "store"
               PROVE  pin'[Device(req'[x].id)] = req'[x].cert
    BY DEF Authorised, Device
  <1>1. req'[x] = req[x] /\ pin[Device(req[x].id)] = req[x].cert /\ ~At(x, "idle")
    BY DEF Contained, Authorised, At
  <1>2. Device(req[x].id) \in Devices
    BY <1>1, IdsAssumption DEF ReplacementInvariant, RequestsRouted, At, Device, Ids, IdsAssumption
  <1>3. pin'[Device(req[x].id)] = pin[Device(req[x].id)]
    <2>1. CASE req[r].pc \in MovingPcs
      BY <1>1, <1>2, <2>1 DEF MovesAlone, Contained, At, MovingPcs
    <2>2. CASE req[r].pc \notin MovingPcs
      BY <1>2, <2>2 DEF Contained
    <2>3. QED
      BY <2>1, <2>2
  <1>4. QED
    BY <1>1, <1>3

LEMMA DoneContained ==
  ASSUME ReplacementInvariant, NEW r \in Requests, Done(r), pin' = pin PROVE Contained(r)
  BY DEF Done, Contained, ReplacementInvariant, ReplacementTypeOK

LEMMA MoveContained ==
  ASSUME ReplacementInvariant, NEW r \in Requests, Transition(r) \/ Authenticate(r)
  PROVE  Contained(r)
  <1>1. req[r].pc \in MovingPcs /\ \A x \in Requests : x # r => req'[x] = req[x]
    BY DEF Transition, Authenticate, At, Done, MovingPcs, ReplacementInvariant, ReplacementTypeOK
  <1>2. CASE pin' = pin
    BY <1>1, <1>2 DEF Contained
  <1>3. ASSUME NEW d, NEW c, d = Device(req[r].id), pin' = [pin EXCEPT ![d] = c]
        PROVE  Contained(r)
    BY <1>1, <1>3 DEF Contained, ReplacementInvariant, StoreInvariant, TypeOK
  <1>4. CASE Transition(r)
    BY <1>2, <1>3, <1>4 DEF Transition, Advance, Promote, Unchanged, store
  <1>5. CASE Authenticate(r)
    <2>1. req[r].id \in Devices
      BY <1>5, RequestOf DEF Authenticate, At, Routes
    <2>2. Device(req[r].id) = req[r].id
      BY <2>1, IdsAssumption DEF Device, IdsAssumption
    <2>3. QED
      BY <1>2, <1>3, <1>5, <2>2 DEF Authenticate, AuthenticateEnrollment, ResetDevice, store
  <1>6. QED
    BY <1>4, <1>5

LEMMA DoneIdle ==
  ASSUME ReplacementInvariant, NEW r \in Requests, Done(r) PROVE req'[r].pc # "store"
  BY DEF Done, Idle, Message, ReplacementInvariant, ReplacementTypeOK

LEMMA GotoPc ==
  ASSUME ReplacementInvariant, NEW r \in Requests, NEW pc, Goto(r, pc)
  PROVE  /\ req'[r].pc = pc /\ req'[r].id = req[r].id /\ req'[r].cert = req[r].cert
         /\ \A x \in Requests \ {r} : req'[x] = req[x]
  <1>1. req[r] \in Slot /\ req \in [Requests -> Slot]
    BY RequestOf DEF ReplacementInvariant, ReplacementTypeOK
  <1>2. req' = [req EXCEPT ![r] = [req[r] EXCEPT !.pc = pc]]
    BY DEF Goto
  <1>3. QED
    BY <1>1, <1>2 DEF Slot

LEMMA DisablePush ==
  ASSUME ReplacementInvariant, PushUnderPin, NEW id \in Ids, Disable(id), tokenBy' = tokenBy
  PROVE  PushUnderPin' /\ pin' = pin
  BY DEF PushUnderPin, Disable

LEMMA TransitionPush ==
  ASSUME ReplacementInvariant, PushUnderPin, NEW r \in Requests, Transition(r)
  PROVE  PushUnderPin'
  <1>1. PICK q : q = req[r] /\ q.pc = "transition"
    BY DEF Transition, At
  <1>2. PICK d : d = Device(q.id)
    OBVIOUS
  <1>3. PICK b : b = Advanced(Current(d), q)
    OBVIOUS
  <1>4. CASE UNCHANGED <<store, tokenBy>>
    BY <1>4, PushRests
  <1>5. CASE /\ Active(d, q.att) /\ Permitted(Current(d), q) /\ Committable(d, b)
             /\ Promote(d, b) /\ Complete(d, b)
    <2>1. d \in Devices /\ Ready(d, b)
      <3>1. TransitionMoves(q, d, b)
        BY <1>1, <1>2, <1>3, <1>5, TransitionFacts DEF Accepted
      <3>2. QED
        BY <1>5, <3>1 DEF TransitionMoves
    <2>2. d \in b.tokens /\ \A o \in Devices : o \in b.tokens => o = d
      BY <1>5, <2>1 DEF Complete, Ready, Family, Children
    <2>3. /\ pin' = [pin EXCEPT ![d] = b.cand] /\ tokenBy' = [tokenBy EXCEPT ![d] = b.cand]
          /\ status' = [id \in Ids |-> IF id \in b.tokens THEN "enabled" ELSE status[id]]
      BY <1>5, <2>2 DEF Promote
    <2>4. pin \in [Devices -> Hashes] /\ tokenBy \in [Devices -> Hashes]
      BY DEF ReplacementInvariant, ReplacementTypeOK, StoreInvariant, TypeOK, Hashes
    <2>5. QED
      BY <2>1, <2>2, <2>3, <2>4 DEF PushUnderPin
  <1>6. QED
    BY <1>1, <1>2, <1>3, <1>4, <1>5 DEF Transition, Advance, Unchanged

LEMMA AuthenticatePush ==
  ASSUME ReplacementInvariant, PushUnderPin, NEW r \in Requests, Authenticate(r)
  PROVE  PushUnderPin'
  <1>1. PICK q \in Slot : q = req[r] /\ q.id \in Devices
    BY RequestOf DEF Authenticate, At, Routes
  <1>2. CASE UNCHANGED store
    BY <1>2, PushRests DEF Authenticate
  <1>3. CASE ResetDevice(q.id, q.cert)
    <2>1. \A o \in Devices : /\ status'[o] = IF o = q.id THEN "pending" ELSE status[o]
                             /\ o # q.id => pin'[o] = pin[o]
      BY <1>1, <1>3 DEF ResetDevice, Children, ReplacementInvariant, StoreInvariant, TypeOK
    <2>2. QED
      BY <2>1 DEF PushUnderPin, Authenticate
  <1>4. QED
    BY <1>1, <1>2, <1>3 DEF Authenticate, AuthenticateEnrollment

LEMMA StoreTokenPush ==
  ASSUME ReplacementInvariant, PushInvariant, NEW r \in Requests, StoreToken(r)
  PROVE  PushUnderPin' /\ pin' = pin /\ (req' = req \/ Done(r))
  <1>1. PICK q \in Slot : q = req[r] /\ q.id \in Ids /\ q.pc = "store" /\ PushUnderPin
    BY RequestOf DEF StoreToken, At, Routes, PushInvariant
  <1>2. pin[Device(q.id)] = q.cert /\ TypeOK
    BY <1>1 DEF PushInvariant, Authorised, ReplacementInvariant, StoreInvariant
  <1>3. CASE q.id \in Users /\ UpsertAuthenticateUser(q.id) /\ UNCHANGED <<req, tokenBy>>
    <2>1. status' = [status EXCEPT ![q.id] = "pending"] /\ pin' = pin
      BY <1>3 DEF UpsertAuthenticateUser
    <2>2. QED
      BY <1>1, <1>2, <1>3, <2>1 DEF PushUnderPin, TypeOK
  <1>4. CASE /\ StoreTokenUpdate(q.id) /\ Done(r)
             /\ tokenBy' = [d \in Devices |-> IF d = q.id THEN q.cert ELSE tokenBy[d]]
    <2>1. status' = [status EXCEPT ![q.id] = "enabled"] /\ pin' = pin
      BY <1>4 DEF StoreTokenUpdate
    <2>2. q.id \in Devices => pin[q.id] = q.cert
      BY <1>2 DEF Device
    <2>3. QED
      BY <1>1, <1>2, <1>4, <2>1, <2>2 DEF PushUnderPin, TypeOK
  <1>5. CASE Done(r) /\ UNCHANGED <<store, tokenBy>>
    BY <1>1, <1>5, PushRests DEF store
  <1>6. QED
    BY <1>1, <1>3, <1>4, <1>5 DEF StoreToken

LEMMA PushStep ==
  ASSUME MovesAlone, ReplacementInvariant, PushInvariant, [ReplacementNext]_vars
  PROVE  PushInvariant'
  <1>1. PushUnderPin /\ Authorised
    BY DEF PushInvariant
  <1>2. ASSUME UNCHANGED <<store, tokenBy, req>> PROVE PushInvariant'
    BY <1>1, <1>2, PushRests DEF PushInvariant, Authorised, store, Device
  <1>3. ASSUME NEW r \in Requests, PushUnderPin', req'[r].pc # "store", Contained(r)
        PROVE  PushInvariant'
    BY <1>1, <1>3, OthersAuthorised DEF PushInvariant
  <1>4. ASSUME NEW r \in Requests, NEW kind \in Kinds, NEW id \in Ids, NEW cert \in Certs,
               NEW result \in Results, NEW uuid \in 0 .. MaxAttempts,
               Receive(r, kind, id, cert, result, uuid)
        PROVE  PushInvariant'
    <2>1. PushUnderPin'
      BY <1>1, <1>4, PushRests DEF Receive, Unchanged
    <2>2. req'[r].pc # "store"
      BY <1>4 DEF Receive, Message, ReplacementInvariant, ReplacementTypeOK
    <2>3. Contained(r)
      BY <1>4 DEF Receive, Unchanged, store, Contained, ReplacementInvariant, ReplacementTypeOK
    <2>4. QED
      BY <1>3, <2>1, <2>2, <2>3
  <1>5. ASSUME NEW r \in Requests, Handle(r) PROVE PushInvariant'
    <2>1. CASE Admit(r) \/ Route(r)
      <3>1. PushUnderPin'
        BY <1>1, <2>1, PushRests DEF Admit, Route, Read, Unchanged
      <3>2. req'[r].pc # "store"
        <4>1. CASE Done(r)
          BY <4>1, DoneIdle
        <4>2. CASE Goto(r, "route") \/ Goto(r, "authenticate") \/ Goto(r, "authorize")
          BY SMT, <4>2, GotoPc
        <4>3. CASE \E to, n : req' = [req EXCEPT ![r].pc = "transition", ![r].op = to, ![r].att = n]
          BY SMT, <4>3, RequestOf DEF ReplacementInvariant, ReplacementTypeOK, Slot
        <4>4. QED
          BY <2>1, <4>1, <4>2, <4>3 DEF Admit, Route
      <3>3. Contained(r)
        <4>1. pin' = pin
          BY <2>1 DEF Admit, Route, Read, Unchanged, store
        <4>2. CASE Done(r)
          BY <4>1, <4>2, DoneContained
        <4>3. ASSUME NEW pc, Goto(r, pc) PROVE Contained(r)
          BY <4>1, <4>3, GotoPc DEF Contained
        <4>4. CASE \E to, n : req' = [req EXCEPT ![r].pc = "transition", ![r].op = to, ![r].att = n]
          BY <4>1, <4>4 DEF Contained, ReplacementInvariant, ReplacementTypeOK
        <4>5. QED
          BY <2>1, <4>2, <4>3, <4>4 DEF Admit, Route
      <3>4. QED
        BY <1>3, <3>1, <3>2, <3>3
    <2>2. CASE Transition(r) \/ Authenticate(r) \/ CheckOut(r)
      <3>1. PushUnderPin'
        <4>1. CASE CheckOut(r)
          <5>1. req[r].id \in Ids /\ tokenBy' = tokenBy
            BY <4>1, RequestOf DEF CheckOut, At, Routes
          <5>2. QED
            BY <1>1, <4>1, <5>1, DisablePush, PushRests DEF CheckOut
        <4>2. QED
          BY <1>1, <2>2, <4>1, TransitionPush, AuthenticatePush
      <3>2. req'[r].pc # "store"
        BY <2>2, DoneIdle DEF Transition, Authenticate, CheckOut
      <3>3. CheckOut(r) => Contained(r)
        BY DoneContained DEF CheckOut, Disable, store
      <3>4. QED
        BY <1>3, <2>2, <3>1, <3>2, <3>3, MoveContained
    <2>3. CASE Authorize(r)
      <3>1. PushUnderPin' /\ pin' = pin
        BY <1>1, <2>3, PushRests DEF Authorize, Unchanged, store
      <3>2. CASE Done(r)
        BY <1>3, <3>1, <3>2, DoneIdle, DoneContained
      <3>3. CASE Goto(r, "store") /\ Authorized(req[r])
        <4>1. pin'[Device(req'[r].id)] = req'[r].cert
          BY <3>1, <3>3, GotoPc DEF Authorized
        <4>2. Authorised'
          <5>1. Contained(r)
            BY <3>1, <3>3, GotoPc DEF Contained
          <5>2. QED
            BY <1>1, <4>1, <5>1, OthersAuthorised
        <4>3. QED
          BY <3>1, <4>2 DEF PushInvariant
      <3>4. QED
        BY <2>3, <3>2, <3>3 DEF Authorize
    <2>4. CASE StoreToken(r)
      <3>1. PushUnderPin' /\ pin' = pin /\ (req' = req \/ Done(r))
        BY <2>4, StoreTokenPush
      <3>2. CASE req' = req
        BY <1>1, <3>1, <3>2 DEF PushInvariant, Authorised, Device
      <3>3. CASE Done(r)
        BY <1>3, <3>1, <3>3, DoneIdle, DoneContained
      <3>4. QED
        BY <3>1, <3>2, <3>3
    <2>5. QED
      BY <1>5, <2>1, <2>2, <2>3, <2>4 DEF Handle
  <1>6. ASSUME NEW id \in Ids, AdminDisable(id) PROVE PushInvariant'
    <2>1. PushUnderPin' /\ pin' = pin /\ req' = req
      BY <1>1, <1>6, DisablePush DEF AdminDisable, service
    <2>2. QED
      BY <1>1, <2>1 DEF PushInvariant, Authorised, Device
  <1>7. CASE UNCHANGED vars
    BY <1>2, <1>7 DEF vars, service
  <1>8. QED
    BY <1>2, <1>4, <1>5, <1>6, <1>7, AdministerKeeps DEF ReplacementNext

\* An enabled device is pushed to under the identity it is pinned to, unless a
\* message that may move the identity overlaps another of the device: tokenUpdate
\* stores what authorizeRequest admitted, the promotion the candidate's token.
THEOREM PushFollowsPin == ReplacementSpec /\ []MovesAlone => []PushUnderPin
  <1>1. ReplacementInit => PushInvariant
    BY Blanks DEF ReplacementInit, Init, PushInvariant, PushUnderPin, Authorised
  <1>2. ReplacementInvariant /\ MovesAlone /\ PushInvariant /\ [ReplacementNext]_vars => PushInvariant'
    BY PushStep
  <1>3. PushInvariant => PushUnderPin
    BY DEF PushInvariant
  <1>4. QED
    BY <1>1, <1>2, <1>3, ReplacementSafety, PTL DEF ReplacementSpec
=============================================================================
