------------------------ MODULE EnrollmentStoreProofs ------------------------
(***************************************************************************)
(* The store's invariants for any number of devices, user channels,        *)
(* certificates and commands.                                              *)
(***************************************************************************)
EXTENDS EnrollmentStore, TLAPS

USE IdsAssumption, NoneAssumption, BoundsAssumption
    DEF IdsAssumption, NoneAssumption, BoundsAssumption, Ids

(***************************************************************************)
(* Operators on queues.                                                    *)
(***************************************************************************)
\* Changing some entries of a queue in place gives a queue of the same length.
LEMMA PointwiseSeq ==
  ASSUME NEW q \in Seq(Entry), NEW r, r = [i \in DOMAIN q |-> r[i]],
         \A i \in DOMAIN q : r[i] \in Entry
  PROVE  r \in Seq(Entry) /\ Len(r) = Len(q) /\ DOMAIN r = DOMAIN q
  <1>1. DOMAIN q = 1 .. Len(q) /\ Len(q) \in Nat
    OBVIOUS
  <1>2. r \in [1 .. Len(q) -> Entry]
    BY <1>1
  <1>3. QED
    BY <1>1, <1>2

\* clearPendingLocked keeps the queue and settles every open command.
LEMMA ClearedQueue ==
  ASSUME NEW q \in Seq(Entry)
  PROVE  /\ Cleared(q) \in Seq(Entry)
         /\ DOMAIN Cleared(q) = DOMAIN q /\ Len(Cleared(q)) = Len(q)
         /\ \A i \in DOMAIN q :
              /\ Cleared(q)[i].state \notin Open
              /\ Cleared(q)[i].uuid = q[i].uuid
              /\ q[i].state \in Terminal => Cleared(q)[i] = q[i]
  <1>1. \A i \in DOMAIN q : q[i] \in Entry
    OBVIOUS
  <1>2. \A i \in DOMAIN q :
          /\ Cleared(q)[i] \in Entry
          /\ Cleared(q)[i].state \notin Open
          /\ Cleared(q)[i].uuid = q[i].uuid
          /\ q[i].state \in Terminal => Cleared(q)[i] = q[i]
    BY <1>1, SMTT(30) DEF Cleared, Entry, Open, Terminal
  <1>3. Cleared(q) = [i \in DOMAIN q |-> Cleared(q)[i]]
    BY DEF Cleared
  <1>4. QED
    BY <1>2, <1>3, PointwiseSeq

(***************************************************************************)
(* Identities.                                                             *)
(***************************************************************************)
\* What a step may do to the pins, the certificate index and the history.
IdentityMove(d, c) ==
    /\ c # None => certs[c] \in {None, d}
    /\ pin' = [pin EXCEPT ![d] = c]
    /\ certs' = Repin(d, c)
    /\ history \subseteq history'
    /\ c # None => <<d, c>> \in history'

\* Authenticate, AssociateCert and Import are the only operations that move a
\* certificate, and they move it the same way.
LEMMA IdentityMoves ==
  ASSUME TypeOK, Next
  PROVE  \/ UNCHANGED <<pin, certs, history>>
         \/ \E d \in Devices, c \in Hashes : IdentityMove(d, c)
  <1>1. CASE EnrollmentStep
    <2>1. ASSUME NEW d \in Devices, NEW expected \in Hashes, NEW hash \in Hashes,
                 NEW reuse \in BOOLEAN, NEW reenroll \in BOOLEAN,
                 AuthenticateEnrollment(d, expected, hash, reuse, reenroll)
          PROVE  IdentityMove(d, hash)
      BY <2>1 DEF AuthenticateEnrollment, CertAvailable, ResetDevice,
                  RecordAssociation, IdentityMove
    <2>2. ASSUME NEW d \in Devices, UpsertAuthenticateDevice(d)
          PROVE  IdentityMove(d, None)
      BY <2>2 DEF UpsertAuthenticateDevice, ResetDevice, RecordAssociation, IdentityMove
    <2>3. ASSUME NEW id \in Ids, NEW hash \in Certs, AssociateCert(id, hash)
          PROVE  Device(id) \in Devices /\ IdentityMove(Device(id), hash)
      BY <2>3 DEF AssociateCert, RecordAssociation, IdentityMove, Device
    <2>4. ASSUME NEW u \in Users,
                 \/ UpsertAuthenticateUser(u) \/ StoreUserAuthChallenge(u)
                 \/ StoreUserAuthToken(u) \/ ClearUserAuth(u)
          PROVE  UNCHANGED <<pin, certs, history>>
      BY <2>4 DEF UpsertAuthenticateUser, StoreUserAuthChallenge,
                  StoreUserAuthToken, ClearUserAuth
    <2>5. ASSUME NEW id \in Ids, StoreTokenUpdate(id) \/ Disable(id)
          PROVE  UNCHANGED <<pin, certs, history>>
      BY <2>5 DEF StoreTokenUpdate, Disable
    <2>6. ASSUME NEW id \in Ids, NEW token \in BOOLEAN, StoreBootstrapToken(id, token)
          PROVE  UNCHANGED <<pin, certs, history>>
      BY <2>6 DEF StoreBootstrapToken
    <2>7. QED
      BY <1>1, <2>1, <2>2, <2>3, <2>4, <2>5, <2>6 DEF EnrollmentStep, IdentityStep, UserAuthStep, Hashes
  <1>2. CASE QueueStep
    BY ZenonT(30), <1>2
    DEF QueueStep, Enqueue, NextCommand, StoreResult, Clear, BackoffElapses
  <1>3. CASE ImportStep
    <2>1. ASSUME NEW d \in Devices, NEW st \in Written, NEW hash \in Hashes,
                 NEW token \in BOOLEAN, NEW past \in SUBSET Certs,
                 ImportDevice(d, st, hash, token, past)
          PROVE  IdentityMove(d, hash)
      BY <2>1 DEF ImportDevice, IdentityMove
    <2>2. ASSUME NEW u \in Users, NEW st \in Written, ImportUser(u, st)
          PROVE  UNCHANGED <<pin, certs, history>>
      BY <2>2 DEF ImportUser
    <2>3. QED
      BY <1>3, <2>1, <2>2 DEF ImportStep
  <1>4. QED
    BY <1>1, <1>2, <1>3 DEF Next

\* Moving a certificate keeps the index exact and every pin recorded.
LEMMA IdentityMoveKeeps ==
  ASSUME TypeOK, IdentityIndex, PinRecorded,
         NEW d \in Devices, NEW c \in Hashes, IdentityMove(d, c)
  PROVE  IdentityIndex' /\ PinRecorded'
  <1>1. IdentityIndex'
    BY DEF IdentityIndex, IdentityMove, Repin, TypeOK, Hashes
  <1>2. PinRecorded'
    BY ZenonT(30) DEF PinRecorded, IdentityMove, TypeOK, Hashes
  <1>3. QED
    BY <1>1, <1>2

(***************************************************************************)
(* Types.                                                                  *)
(***************************************************************************)
LEMMA ClearPendingType ==
  ASSUME TypeOK, NEW ids
  PROVE  /\ ClearPending(ids) \in [Ids -> Seq(Entry)]
         /\ \A id \in Ids : DOMAIN ClearPending(ids)[id] = DOMAIN queue[id]
  <1>1. \A id \in Ids : queue[id] \in Seq(Entry)
    BY DEF TypeOK
  <1>2. \A id \in Ids : /\ Cleared(queue[id]) \in Seq(Entry)
                        /\ DOMAIN Cleared(queue[id]) = DOMAIN queue[id]
    BY <1>1, ClearedQueue
  <1>3. QED
    BY <1>1, <1>2 DEF ClearPending

LEMMA ResetType ==
  ASSUME TypeOK, NEW d \in Devices, NEW c \in Hashes, ResetDevice(d, c)
  PROVE  TypeOK'
  <1>1. queue' \in [Ids -> Seq(Entry)]
    BY ClearPendingType DEF ResetDevice
  <1>2. certs' \in [Certs -> Devices \cup {None}] /\ history' \subseteq Devices \X Certs
    BY DEF ResetDevice, Repin, RecordAssociation, TypeOK, Hashes
  <1>3. QED
    BY ZenonT(30), <1>1, <1>2 DEF ResetDevice, TypeOK, Hashes

LEMMA EnrollmentStepType ==
  ASSUME TypeOK, EnrollmentStep
  PROVE  TypeOK'
  <1>1. ASSUME NEW d \in Devices, NEW expected \in Hashes, NEW hash \in Hashes,
               NEW reuse \in BOOLEAN, NEW reenroll \in BOOLEAN,
               AuthenticateEnrollment(d, expected, hash, reuse, reenroll)
        PROVE  TypeOK'
    BY <1>1, ResetType DEF AuthenticateEnrollment
  <1>2. ASSUME NEW d \in Devices, UpsertAuthenticateDevice(d)
        PROVE  TypeOK'
    BY <1>2, ResetType DEF UpsertAuthenticateDevice, Hashes
  <1>3. ASSUME NEW u \in Users, UpsertAuthenticateUser(u)
        PROVE  TypeOK'
    BY <1>3, ClearPendingType DEF UpsertAuthenticateUser, TypeOK
  <1>4. ASSUME NEW id \in Ids, StoreTokenUpdate(id)
        PROVE  TypeOK'
    BY <1>4 DEF StoreTokenUpdate, TypeOK
  <1>5. ASSUME NEW id \in Ids, Disable(id)
        PROVE  TypeOK'
    BY <1>5, ClearPendingType DEF Disable, TypeOK
  <1>6. ASSUME NEW id \in Ids, NEW hash \in Certs, AssociateCert(id, hash)
        PROVE  TypeOK'
    BY <1>6 DEF AssociateCert, Device, Repin, RecordAssociation, TypeOK
  <1>7. ASSUME NEW id \in Ids, NEW token \in BOOLEAN, StoreBootstrapToken(id, token)
        PROVE  TypeOK'
    BY <1>7 DEF StoreBootstrapToken, Device, TypeOK
  <1>8. ASSUME NEW u \in Users,
               StoreUserAuthChallenge(u) \/ StoreUserAuthToken(u) \/ ClearUserAuth(u)
        PROVE  TypeOK'
    BY ZenonT(30), <1>8
    DEF StoreUserAuthChallenge, StoreUserAuthToken, ClearUserAuth, TypeOK
  <1>9. QED
    BY <1>1, <1>2, <1>3, <1>4, <1>5, <1>6, <1>7, <1>8 DEF EnrollmentStep, IdentityStep, UserAuthStep

(***************************************************************************)
(* Queues.                                                                 *)
(***************************************************************************)
\* r has the commands of q, some of the open ones answered, sent or cleared;
\* none is as good as new.
Advances(q, r) ==
    /\ DOMAIN r = DOMAIN q /\ Len(r) = Len(q)
    /\ \A i \in DOMAIN q :
         /\ r[i].uuid = q[i].uuid /\ r[i].key = q[i].key
         /\ r[i].state \in Open => q[i].state \in Open
         /\ r[i].state = "Pending" => q[i].state = "Pending"
         /\ q[i].state \in Terminal => r[i] = q[i]

Settles ==
    /\ queue' \in [Ids -> Seq(Entry)]
    /\ \A id \in Ids : Advances(queue[id], queue'[id])

\* Replacing one open command in place.
LEMMA EntryAdvances ==
  ASSUME NEW q \in Seq(Entry), NEW i \in DOMAIN q, NEW e \in Entry,
         q[i].state \in Open, e.uuid = q[i].uuid, e.key = q[i].key,
         e.state = "Pending" => q[i].state = "Pending"
  PROVE  [q EXCEPT ![i] = e] \in Seq(Entry) /\ Advances(q, [q EXCEPT ![i] = e])
  <1> DEFINE r == [q EXCEPT ![i] = e]
  <1>1. DOMAIN q = 1 .. Len(q) /\ Len(q) \in Nat /\ \A j \in DOMAIN q : q[j] \in Entry
    OBVIOUS
  <1>2. /\ r \in Seq(Entry) /\ DOMAIN r = DOMAIN q /\ Len(r) = Len(q)
        /\ \A j \in DOMAIN q : r[j] = IF j = i THEN e ELSE q[j]
    BY <1>1
  <1>3. q[i].state \notin Terminal
    BY DEF Open, Terminal
  <1> HIDE DEF r
  <1>4. Advances(q, r)
    BY <1>2, <1>3 DEF Advances
  <1>5. QED
    BY <1>2, <1>4 DEF r

LEMMA EntrySettles ==
  ASSUME TypeOK, NEW id \in Ids, NEW i \in DOMAIN queue[id], NEW e \in Entry,
         queue[id][i].state \in Open,
         e.uuid = queue[id][i].uuid, e.key = queue[id][i].key,
         e.state = "Pending" => queue[id][i].state = "Pending",
         queue' = [queue EXCEPT ![id] = [queue[id] EXCEPT ![i] = e]]
  PROVE  Settles
  <1>1. queue \in [Ids -> Seq(Entry)]
    BY DEF TypeOK
  <1>2. queue[id] \in Seq(Entry)
    BY <1>1
  <1> DEFINE r == [queue[id] EXCEPT ![i] = e]
  <1>3. r \in Seq(Entry) /\ Advances(queue[id], r)
    BY <1>2, EntryAdvances
  <1>4. \A x \in Ids : Advances(queue[x], queue[x])
    BY <1>1 DEF Advances
  <1> HIDE DEF r
  <1>5. queue' = [queue EXCEPT ![id] = r]
    BY DEF r
  <1>6. \A x \in Ids : queue'[x] = IF x = id THEN r ELSE queue[x]
    BY <1>1, <1>5
  <1>7. queue' \in [Ids -> Seq(Entry)]
    BY <1>1, <1>3, <1>5
  <1>8. \A x \in Ids : Advances(queue[x], queue'[x])
    BY ZenonT(30), <1>3, <1>4, <1>6
  <1>9. QED
    BY SMTT(30), <1>7, <1>8 DEF Settles

LEMMA ClearedSettles ==
  ASSUME TypeOK, NEW ids, queue' = ClearPending(ids)
  PROVE  Settles
  <1>1. \A id \in Ids : queue[id] \in Seq(Entry)
    BY DEF TypeOK
  <1>2. \A id \in Ids : \A i \in DOMAIN queue[id] : queue[id][i] \in Entry
    BY <1>1
  <1>3. ASSUME NEW id \in Ids
        PROVE  Advances(queue[id], Cleared(queue[id]))
    <2>1. \A i \in DOMAIN queue[id] : Cleared(queue[id])[i].key = queue[id][i].key
      BY <1>2 DEF Cleared, Entry
    <2>2. \A i \in DOMAIN queue[id] : Cleared(queue[id])[i].state # "Pending"
      BY <1>1, ClearedQueue DEF Open
    <2>3. QED
      BY <1>1, <2>1, <2>2, ClearedQueue DEF Advances
  <1>4. \A id \in Ids : Advances(queue[id], queue[id])
    BY DEF Advances
  <1>5. \A id \in Ids : queue'[id] = Cleared(queue[id]) \/ queue'[id] = queue[id]
    BY DEF ClearPending
  <1>6. QED
    BY ZenonT(30), <1>3, <1>4, <1>5, ClearPendingType DEF Settles

LEMMA UnchangedSettles ==
  ASSUME TypeOK, UNCHANGED queue
  PROVE  Settles
  BY DEF TypeOK, Settles, Advances

LEMMA NextSettles ==
  ASSUME TypeOK, NEW id \in Ids, NEW skip \in BOOLEAN, NEW i \in DOMAIN queue[id],
         NextCommand(id, skip, i)
  PROVE  Settles
  <1> DEFINE e == [queue[id][i] EXCEPT !.state = "Sent"]
  <1>1. queue \in [Ids -> Seq(Entry)] /\ queue[id][i] \in Entry
    BY DEF TypeOK
  <1>2. queue[id][i].state \in Open
    BY DEF NextCommand, IsNext, Eligible, Open
  <1>3. /\ e \in Entry /\ e.uuid = queue[id][i].uuid /\ e.key = queue[id][i].key
        /\ e.state # "Pending"
    BY ZenonT(30), <1>1 DEF Entry, Open
  <1>4. queue' = [queue EXCEPT ![id] = [queue[id] EXCEPT ![i] = e]]
    BY <1>1 DEF NextCommand
  <1>5. QED
    BY ZenonT(30), <1>2, <1>3, <1>4, EntrySettles

LEMMA ResultSettles ==
  ASSUME TypeOK, NEW id \in Ids, NEW uuid \in UUIDs,
         NEW result \in {"Acknowledged", "NotNow", "Error"},
         StoreResult(id, uuid, result)
  PROVE  Settles
  <1>1. PICK i \in DOMAIN queue[id] :
          Answered(id, uuid, i) /\ queue' = [queue EXCEPT ![id][i] = Answer(@, result)]
    BY ZenonT(30) DEF StoreResult
  <1> DEFINE e == Answer(queue[id][i], result)
  <1>2. queue \in [Ids -> Seq(Entry)] /\ queue[id][i] \in Entry
    BY DEF TypeOK
  <1>3. queue[id][i].state \in Open
    BY <1>1 DEF Answered
  <1>4. /\ e \in Entry /\ e.uuid = queue[id][i].uuid /\ e.key = queue[id][i].key
        /\ e.state # "Pending"
    BY ZenonT(30), <1>2 DEF Answer, Entry, Open, Terminal
  <1>5. queue' = [queue EXCEPT ![id] = [queue[id] EXCEPT ![i] = e]]
    BY <1>1, <1>2
  <1>6. QED
    BY ZenonT(30), <1>3, <1>4, <1>5, EntrySettles

LEMMA BackoffSettles ==
  ASSUME TypeOK, NEW id \in Ids, NEW i \in DOMAIN queue[id], BackoffElapses(id, i)
  PROVE  Settles
  <1> DEFINE e == [queue[id][i] EXCEPT !.wait = FALSE]
  <1>1. queue \in [Ids -> Seq(Entry)] /\ queue[id][i] \in Entry
    BY DEF TypeOK
  <1>2. queue[id][i].state \in Open
    BY DEF BackoffElapses, Open
  <1>3. /\ e \in Entry /\ e.uuid = queue[id][i].uuid /\ e.key = queue[id][i].key
        /\ e.state = queue[id][i].state
    BY ZenonT(30), <1>1 DEF Entry
  <1>4. queue' = [queue EXCEPT ![id] = [queue[id] EXCEPT ![i] = e]]
    BY <1>1 DEF BackoffElapses
  <1>5. QED
    BY ZenonT(30), <1>2, <1>3, <1>4, EntrySettles

LEMMA ClearSettles ==
  ASSUME TypeOK, NEW id \in Ids, NEW picked \in SUBSET DOMAIN queue[id],
         Clear(id, picked)
  PROVE  Settles
  <1> DEFINE q == queue[id]
             r == [i \in DOMAIN q |-> IF i \in picked
                                      THEN [q[i] EXCEPT !.state = "Cleared"] ELSE q[i]]
  <1>1. queue \in [Ids -> Seq(Entry)]
    BY DEF TypeOK
  <1>2. q \in Seq(Entry) /\ \A i \in DOMAIN q : q[i] \in Entry
    BY <1>1
  <1>3. \A i \in DOMAIN q :
          /\ r[i] \in Entry
          /\ r[i].uuid = q[i].uuid /\ r[i].key = q[i].key
          /\ r[i].state \in Open => q[i].state \in Open
          /\ r[i].state = "Pending" => q[i].state = "Pending"
          /\ q[i].state \in Terminal => r[i] = q[i]
    BY <1>2, ZenonT(30) DEF Clear, Entry, Open, Terminal
  <1>4. r = [i \in DOMAIN q |-> r[i]]
    OBVIOUS
  <1>5. queue' = [queue EXCEPT ![id] = r]
    BY <1>1 DEF Clear
  <1> HIDE DEF r
  <1>6. r \in Seq(Entry) /\ Len(r) = Len(q) /\ DOMAIN r = DOMAIN q
    BY ZenonT(30), <1>2, <1>3, <1>4, PointwiseSeq
  <1>7. Advances(q, r)
    BY <1>3, <1>6 DEF Advances
  <1>8. \A x \in Ids : Advances(queue[x], queue[x])
    BY DEF Advances
  <1>9. \A x \in Ids : queue'[x] = IF x = id THEN r ELSE queue[x]
    BY <1>1, <1>5
  <1>10. queue' \in [Ids -> Seq(Entry)]
    BY <1>1, <1>5, <1>6
  <1>11. \A x \in Ids : Advances(queue[x], queue'[x])
    BY <1>7, <1>8, <1>9
  <1>12. QED
    BY <1>10, <1>11 DEF Settles

\* What Enqueue appends.
Fresh(uuid, key) == [uuid |-> uuid, key |-> key, state |-> "Pending", wait |-> FALSE]

LEMMA EnqueueQueues ==
  ASSUME TypeOK, NEW ids \in SUBSET Ids, NEW uuid \in UUIDs,
         NEW key \in Keys \cup {None}, Enqueue(ids, uuid, key)
  PROVE  /\ queue' \in [Ids -> Seq(Entry)]
         /\ \A id \in Ids :
              \/ queue'[id] = queue[id]
              \/ Accepts(id, key) /\ queue'[id] = Append(queue[id], Fresh(uuid, key))
  <1>1. Fresh(uuid, key) \in Entry
    BY DEF Fresh, Entry, Open
  <1>2. queue \in [Ids -> Seq(Entry)]
    BY DEF TypeOK
  <1>3. queue' = [id \in Ids |-> IF id \in ids /\ Accepts(id, key)
                                 THEN Append(queue[id], Fresh(uuid, key))
                                 ELSE queue[id]]
    BY DEF Enqueue, Fresh
  <1>4. \A id \in Ids : Append(queue[id], Fresh(uuid, key)) \in Seq(Entry)
    BY <1>1, <1>2
  <1>5. QED
    BY <1>2, <1>3, <1>4

\* Every step but Enqueue settles the queues in this sense.
LEMMA QueueMoves ==
  ASSUME TypeOK, Next
  PROVE  \/ Settles
         \/ \E ids \in SUBSET Ids, uuid \in UUIDs, key \in Keys \cup {None} :
              Enqueue(ids, uuid, key)
  <1>1. ASSUME EnrollmentStep
        PROVE  UNCHANGED queue \/ \E ids \in SUBSET Ids : queue' = ClearPending(ids)
    <2>1. \A d \in Devices : Family(d) \in SUBSET Ids
      BY DEF Family, Children
    <2>2. \A id \in Ids : DisabledRows(id) \in SUBSET Ids
      BY DEF DisabledRows
    <2>3. \A u \in Users : {u} \in SUBSET Ids
      OBVIOUS
    <2>4. QED
      BY ZenonT(30), <1>1, <2>1, <2>2, <2>3
      DEF EnrollmentStep, IdentityStep, UserAuthStep, AuthenticateEnrollment, ResetDevice, UpsertAuthenticateDevice,
          UpsertAuthenticateUser, StoreTokenUpdate, Disable, AssociateCert,
          StoreBootstrapToken, StoreUserAuthChallenge, StoreUserAuthToken, ClearUserAuth
  <1>2. CASE EnrollmentStep
    BY <1>1, <1>2, ClearedSettles, UnchangedSettles
  <1>3. CASE ImportStep
    BY <1>3, UnchangedSettles DEF ImportStep, ImportDevice, ImportUser
  <1>4. CASE QueueStep
    BY <1>4, NextSettles, ResultSettles, ClearSettles, BackoffSettles DEF QueueStep
  <1>5. QED
    BY <1>2, <1>3, <1>4 DEF Next

LEMMA QueueStepType ==
  ASSUME TypeOK, QueueStep
  PROVE  TypeOK'
  <1>1. queue' \in [Ids -> Seq(Entry)]
    BY ZenonT(30), QueueMoves, EnqueueQueues DEF Next, Settles
  <1>2. UNCHANGED <<status, pin, certs, history, escrow, userAuth, imported>>
    BY ZenonT(30) DEF QueueStep, Enqueue, NextCommand, StoreResult, Clear, BackoffElapses
  <1>3. QED
    BY <1>1, <1>2 DEF TypeOK

LEMMA ImportStepType ==
  ASSUME TypeOK, ImportStep
  PROVE  TypeOK'
  <1>1. ASSUME NEW d \in Devices, NEW st \in Written, NEW hash \in Hashes,
               NEW token \in BOOLEAN, NEW past \in SUBSET Certs,
               ImportDevice(d, st, hash, token, past)
        PROVE  TypeOK'
    BY <1>1 DEF ImportDevice, Repin, Hashes, Written, TypeOK
  <1>2. ASSUME NEW u \in Users, NEW st \in Written, ImportUser(u, st)
        PROVE  TypeOK'
    BY <1>2 DEF ImportUser, Written, TypeOK
  <1>3. QED
    BY <1>1, <1>2 DEF ImportStep

\* Two open commands with one deduplication key cannot arise.
LEMMA KeyStep ==
  ASSUME TypeOK, OneOpenPerKey, Next
  PROVE  OneOpenPerKey'
  <1>1. CASE Settles
    <2> SUFFICES ASSUME NEW id \in Ids, NEW i \in DOMAIN queue'[id], NEW j \in DOMAIN queue'[id],
                        queue'[id][i].state \in Open, queue'[id][j].state \in Open,
                        queue'[id][i].key = queue'[id][j].key, queue'[id][i].key # None
                 PROVE  i = j
      BY DEF OneOpenPerKey
    <2>1. Advances(queue[id], queue'[id])
      BY <1>1 DEF Settles
    <2>2. QED
      BY <2>1 DEF OneOpenPerKey, Advances
  <1>2. ASSUME NEW ids \in SUBSET Ids, NEW uuid \in UUIDs, NEW key \in Keys \cup {None},
               Enqueue(ids, uuid, key)
        PROVE  OneOpenPerKey'
    <2>0. \A x \in Ids :
            \/ queue'[x] = queue[x]
            \/ Accepts(x, key) /\ queue'[x] = Append(queue[x], Fresh(uuid, key))
      BY <1>2, EnqueueQueues, ZenonT(30)
    <2> SUFFICES ASSUME NEW id \in Ids, NEW i \in DOMAIN queue'[id], NEW j \in DOMAIN queue'[id],
                        queue'[id][i].state \in Open, queue'[id][j].state \in Open,
                        queue'[id][i].key = queue'[id][j].key, queue'[id][i].key # None,
                        i # j
                 PROVE  FALSE
      BY DEF OneOpenPerKey
    <2>1. CASE queue'[id] = queue[id]
      BY <2>1 DEF OneOpenPerKey
    <2>2. CASE Accepts(id, key) /\ queue'[id] = Append(queue[id], Fresh(uuid, key))
      <3> DEFINE n == Len(queue[id])
      <3>1. queue[id] \in Seq(Entry)
        BY DEF TypeOK
      <3>2. /\ n \in Nat /\ DOMAIN queue[id] = 1 .. n /\ DOMAIN queue'[id] = 1 .. n + 1
            /\ queue'[id][n + 1] = Fresh(uuid, key)
            /\ \A x \in 1 .. n : queue'[id][x] = queue[id][x]
        BY <2>2, <3>1
      <3>3. \A x \in 1 .. n : queue[id][x].key = key /\ key # None
                              => queue[id][x].state \notin Open
        BY <2>2, <3>2 DEF Accepts, HasPendingKey
      <3>4. Fresh(uuid, key).key = key
        BY DEF Fresh
      <3> HIDE DEF n
      <3>5. CASE i = n + 1
        BY <3>2, <3>3, <3>4, <3>5
      <3>6. CASE j = n + 1
        BY <3>2, <3>3, <3>4, <3>6
      <3>7. CASE i # n + 1 /\ j # n + 1
        BY SMTT(30), <3>2, <3>7 DEF OneOpenPerKey
      <3>8. QED
        BY <3>5, <3>6, <3>7
    <2>3. QED
      BY <2>0, <2>1, <2>2
  <1>3. QED
    BY <1>1, <1>2, QueueMoves

(***************************************************************************)
(* Open commands and live enrollments.                                     *)
(***************************************************************************)
\* Import put the row or its device in place since the last reset.
Exempt(id) == id \in imported \/ Device(id) \in imported

HasOpen(id) == \E i \in DOMAIN queue[id] : queue[id][i].state \in Open

\* A step keeps OpenOnlyWhenLive when every queue it leaves with an open
\* command belongs to a live or imported enrollment.
LEMMA LiveFromOpen ==
  ASSUME \A id \in Ids : HasOpen(id)' => Live(id)' \/ Exempt(id)'
  PROVE  OpenOnlyWhenLive'
  BY DEF OpenOnlyWhenLive, HasOpen, Exempt, Device

LEMMA SettlesOpen ==
  ASSUME Settles
  PROVE  \A id \in Ids : HasOpen(id)' => HasOpen(id)
  BY ZenonT(30) DEF Settles, Advances, HasOpen

LEMMA ClearedNotOpen ==
  ASSUME TypeOK, NEW ids \in SUBSET Ids, queue' = ClearPending(ids)
  PROVE  \A id \in ids : ~HasOpen(id)'
  <1>1. \A id \in Ids : queue[id] \in Seq(Entry)
    BY DEF TypeOK
  <1>2. \A id \in ids : queue'[id] = Cleared(queue[id])
    BY DEF ClearPending
  <1>3. QED
    BY <1>1, <1>2, ClearedQueue DEF HasOpen

LEMMA OpenIsLive ==
  ASSUME OpenOnlyWhenLive
  PROVE  \A id \in Ids : HasOpen(id) => Live(id) \/ Exempt(id)
  BY DEF OpenOnlyWhenLive, HasOpen, Exempt

LEMMA ResetLive ==
  ASSUME TypeOK, OpenOnlyWhenLive, NEW d \in Devices, NEW c \in Hashes, ResetDevice(d, c)
  PROVE  OpenOnlyWhenLive'
  <1> SUFFICES ASSUME NEW id \in Ids, HasOpen(id)'
               PROVE  Live(id)' \/ Exempt(id)'
    BY LiveFromOpen
  <1>1. queue' = ClearPending(Family(d)) /\ Family(d) \in SUBSET Ids
    BY DEF ResetDevice, Family, Children
  <1>2. id \notin Family(d) /\ HasOpen(id)
    BY <1>1, ClearedNotOpen, ClearedSettles, SettlesOpen
  <1>3. Device(id) \in Devices /\ Device(id) \notin Family(d)
    BY <1>2 DEF Device, Family, Children
  <1>4. /\ status'[id] = status[id] /\ status'[Device(id)] = status[Device(id)]
        /\ imported' = imported \ Family(d)
    BY <1>2, <1>3 DEF ResetDevice, Family, Children
  <1>5. QED
    BY <1>2, <1>3, <1>4, OpenIsLive DEF Live, Exempt, Device

LEMMA DisableLive ==
  ASSUME TypeOK, OpenOnlyWhenLive, NEW x \in Ids, Disable(x)
  PROVE  OpenOnlyWhenLive'
  <1> SUFFICES ASSUME NEW id \in Ids, HasOpen(id)'
               PROVE  Live(id)' \/ Exempt(id)'
    BY LiveFromOpen
  <1>1. queue' = ClearPending(DisabledRows(x)) /\ DisabledRows(x) \in SUBSET Ids
    BY DEF Disable, DisabledRows
  <1>2. id \notin DisabledRows(x) /\ HasOpen(id)
    BY <1>1, ClearedNotOpen, ClearedSettles, SettlesOpen
  <1>3. Live(id) \/ Exempt(id)
    BY <1>2, OpenIsLive
  <1>4. CASE Exempt(id)
    BY <1>4 DEF Exempt, Disable, Device
  <1>5. CASE Live(id)
    <2>1. Device(id) \in Devices /\ Device(id) \notin DisabledRows(x)
      BY <1>2, <1>5 DEF Device, DisabledRows, Live
    <2>2. status'[id] = status[id] /\ status'[Device(id)] = status[Device(id)]
      BY <1>2, <2>1 DEF Disable
    <2>3. QED
      BY <1>5, <2>2 DEF Live, Device
  <1>6. QED
    BY <1>3, <1>4, <1>5

LEMMA UserResetLive ==
  ASSUME TypeOK, OpenOnlyWhenLive, NEW u \in Users, UpsertAuthenticateUser(u)
  PROVE  OpenOnlyWhenLive'
  <1> SUFFICES ASSUME NEW id \in Ids, HasOpen(id)'
               PROVE  Live(id)' \/ Exempt(id)'
    BY LiveFromOpen
  <1>1. queue' = ClearPending({u}) /\ {u} \in SUBSET Ids
    BY DEF UpsertAuthenticateUser
  <1>2. id # u /\ HasOpen(id)
    BY <1>1, ClearedNotOpen, ClearedSettles, SettlesOpen
  <1>3. Device(id) \in Devices
    BY DEF Device
  <1>4. /\ status'[id] = status[id] /\ status'[Device(id)] = status[Device(id)]
        /\ imported' = imported \ {u}
    BY <1>2, <1>3 DEF UpsertAuthenticateUser, TypeOK
  <1>5. QED
    BY <1>2, <1>3, <1>4, OpenIsLive DEF Live, Exempt, Device

LEMMA LiveStep ==
  ASSUME TypeOK, OpenOnlyWhenLive, Next
  PROVE  OpenOnlyWhenLive'
  <1>1. ASSUME NEW id \in Ids, StoreTokenUpdate(id)
        PROVE  OpenOnlyWhenLive'
    <2>1. /\ UNCHANGED <<queue, imported>>
          /\ \A x \in Ids : status[x] = "enabled" => status'[x] = "enabled"
      BY <1>1 DEF StoreTokenUpdate, TypeOK
    <2>2. QED
      BY <2>1 DEF OpenOnlyWhenLive, Live, Device
  <1>2. ASSUME NEW u \in Users, StoreUserAuthChallenge(u)
        PROVE  OpenOnlyWhenLive'
    <2>1. /\ UNCHANGED <<queue, imported>>
          /\ \A x \in Ids : status[x] = "enabled" => status'[x] = "enabled"
      BY <1>2 DEF StoreUserAuthChallenge, TypeOK
    <2>2. QED
      BY <2>1 DEF OpenOnlyWhenLive, Live, Device
  <1>3. CASE UNCHANGED <<status, queue, imported>>
    BY <1>3 DEF OpenOnlyWhenLive, Live, Device
  <1>4. CASE EnrollmentStep
    <2>1. ASSUME NEW id \in Ids, NEW hash \in Certs, AssociateCert(id, hash)
          PROVE  OpenOnlyWhenLive'
      BY <1>3, <2>1 DEF AssociateCert
    <2>2. ASSUME NEW id \in Ids, NEW token \in BOOLEAN, StoreBootstrapToken(id, token)
          PROVE  OpenOnlyWhenLive'
      BY <1>3, <2>2 DEF StoreBootstrapToken
    <2>3. ASSUME NEW u \in Users, StoreUserAuthToken(u) \/ ClearUserAuth(u)
          PROVE  OpenOnlyWhenLive'
      BY <1>3, <2>3 DEF StoreUserAuthToken, ClearUserAuth
    <2>4. ASSUME NEW d \in Devices, NEW expected \in Hashes, NEW hash \in Hashes,
                 NEW reuse \in BOOLEAN, NEW reenroll \in BOOLEAN,
                 AuthenticateEnrollment(d, expected, hash, reuse, reenroll)
          PROVE  OpenOnlyWhenLive'
      BY <2>4, ResetLive DEF AuthenticateEnrollment
    <2>5. ASSUME NEW d \in Devices, UpsertAuthenticateDevice(d)
          PROVE  OpenOnlyWhenLive'
      BY <2>5, ResetLive DEF UpsertAuthenticateDevice, Hashes
    <2>6. QED
      BY <1>1, <1>2, <1>4, <2>1, <2>2, <2>3, <2>4, <2>5, DisableLive, UserResetLive
      DEF EnrollmentStep, IdentityStep, UserAuthStep
  <1>5. CASE QueueStep
    <2>1. UNCHANGED <<status, imported>>
      BY ZenonT(30), <1>5
      DEF QueueStep, Enqueue, NextCommand, StoreResult, Clear, BackoffElapses
    <2>2. \A id \in Ids : /\ Live(id)' <=> Live(id)
                          /\ Exempt(id)' <=> Exempt(id)
      BY <2>1 DEF Live, Exempt, Device
    <2>3. CASE Settles
      BY <2>2, <2>3, SettlesOpen, OpenIsLive, LiveFromOpen
    <2>4. ASSUME NEW ids \in SUBSET Ids, NEW uuid \in UUIDs, NEW key \in Keys \cup {None},
                 Enqueue(ids, uuid, key)
          PROVE  OpenOnlyWhenLive'
      <3>1. \A id \in Ids : queue'[id] = queue[id] \/ Live(id)
        BY ZenonT(30), <2>4, EnqueueQueues DEF Accepts
      <3>2. \A id \in Ids : HasOpen(id)' => HasOpen(id) \/ Live(id)
        BY <3>1 DEF HasOpen
      <3>3. QED
        BY <2>2, <3>2, OpenIsLive, LiveFromOpen
    <2>5. QED
      BY <2>3, <2>4, QueueMoves
  <1>6. CASE ImportStep
    <2>1. PICK x \in Ids : /\ UNCHANGED queue
                           /\ imported' = imported \cup {x}
                           /\ \A id \in Ids \ {x} : status'[id] = status[id]
      BY ZenonT(30), <1>6 DEF ImportStep, ImportDevice, ImportUser, TypeOK
    <2> SUFFICES ASSUME NEW id \in Ids, HasOpen(id)'
                 PROVE  Live(id)' \/ Exempt(id)'
      BY LiveFromOpen
    <2>2. Live(id) \/ Exempt(id)
      BY <2>1, OpenIsLive DEF HasOpen
    <2>3. Device(id) \in Ids
      BY DEF Device
    <2>4. CASE id = x \/ Device(id) = x
      BY <2>1, <2>4 DEF Exempt, Device
    <2>5. CASE id # x /\ Device(id) # x
      BY <2>1, <2>2, <2>3, <2>5 DEF Live, Exempt, Device
    <2>6. QED
      BY <2>4, <2>5
  <1>7. QED
    BY <1>4, <1>5, <1>6 DEF Next

(***************************************************************************)
(* Devices and their user channels.                                        *)
(***************************************************************************)
LEMMA ResetFamily ==
  ASSUME TypeOK, FamilyConsistent, NEW d \in Devices, NEW c \in Hashes, ResetDevice(d, c)
  PROVE  FamilyConsistent'
  BY DEF ResetDevice, Family, Children, FamilyConsistent, TypeOK

LEMMA FamilyStep ==
  ASSUME TypeOK, FamilyConsistent, Next
  PROVE  FamilyConsistent'
  <1>1. CASE EnrollmentStep
    <2>1. ASSUME NEW d \in Devices, NEW expected \in Hashes, NEW hash \in Hashes,
                 NEW reuse \in BOOLEAN, NEW reenroll \in BOOLEAN,
                 AuthenticateEnrollment(d, expected, hash, reuse, reenroll)
          PROVE  FamilyConsistent'
      BY <2>1, ResetFamily DEF AuthenticateEnrollment
    <2>2. ASSUME NEW d \in Devices, UpsertAuthenticateDevice(d)
          PROVE  FamilyConsistent'
      BY <2>2, ResetFamily DEF UpsertAuthenticateDevice, Hashes
    <2>3. ASSUME NEW u \in Users, UpsertAuthenticateUser(u)
          PROVE  FamilyConsistent'
      BY <2>3 DEF UpsertAuthenticateUser, FamilyConsistent, TypeOK
    <2>4. ASSUME NEW id \in Ids, StoreTokenUpdate(id)
          PROVE  FamilyConsistent'
      BY <2>4 DEF StoreTokenUpdate, TokenUpdateAllowed, Device, FamilyConsistent, TypeOK
    <2>5. ASSUME NEW id \in Ids, Disable(id)
          PROVE  FamilyConsistent'
      BY <2>5 DEF Disable, DisabledRows, FamilyConsistent, TypeOK
    <2>6. ASSUME NEW id \in Ids, NEW hash \in Certs, AssociateCert(id, hash)
          PROVE  FamilyConsistent'
      BY <2>6 DEF AssociateCert, FamilyConsistent
    <2>7. ASSUME NEW id \in Ids, NEW token \in BOOLEAN, StoreBootstrapToken(id, token)
          PROVE  FamilyConsistent'
      BY <2>7 DEF StoreBootstrapToken, FamilyConsistent
    <2>8. ASSUME NEW u \in Users,
                 StoreUserAuthChallenge(u) \/ StoreUserAuthToken(u) \/ ClearUserAuth(u)
          PROVE  FamilyConsistent'
      BY <2>8 DEF StoreUserAuthChallenge, StoreUserAuthToken, ClearUserAuth,
                  UserAuthTarget, FamilyConsistent, TypeOK
    <2>9. QED
      BY <1>1, <2>1, <2>2, <2>3, <2>4, <2>5, <2>6, <2>7, <2>8 DEF EnrollmentStep, IdentityStep, UserAuthStep
  <1>2. CASE QueueStep
    <2>1. UNCHANGED <<status, userAuth, imported>>
      BY ZenonT(30), <1>2
      DEF QueueStep, Enqueue, NextCommand, StoreResult, Clear, BackoffElapses
    <2>2. QED
      BY <2>1 DEF FamilyConsistent
  <1>3. CASE ImportStep
    <2>1. ASSUME NEW d \in Devices, NEW st \in Written, NEW hash \in Hashes,
                 NEW token \in BOOLEAN, NEW past \in SUBSET Certs,
                 ImportDevice(d, st, hash, token, past)
          PROVE  FamilyConsistent'
      BY <2>1 DEF ImportDevice, Written, FamilyConsistent, TypeOK
    <2>2. ASSUME NEW u \in Users, NEW st \in Written, ImportUser(u, st)
          PROVE  FamilyConsistent'
      BY <2>2 DEF ImportUser, Written, FamilyConsistent, TypeOK
    <2>3. QED
      BY <1>3, <2>1, <2>2 DEF ImportStep
  <1>4. QED
    BY <1>1, <1>2, <1>3 DEF Next

(***************************************************************************)
(* Theorems.                                                               *)
(***************************************************************************)
LEMMA StoreInit == Init => StoreInvariant
  <1> SUFFICES ASSUME Init PROVE StoreInvariant
    OBVIOUS
  <1>1. TypeOK
    BY DEF Init, TypeOK
  <1>2. IdentityIndex /\ PinRecorded
    BY DEF Init, IdentityIndex, PinRecorded
  <1>3. \A id \in Ids : DOMAIN queue[id] = {}
    BY DEF Init
  <1>4. OpenOnlyWhenLive /\ OneOpenPerKey
    BY <1>3 DEF OpenOnlyWhenLive, OneOpenPerKey
  <1>5. FamilyConsistent
    BY DEF Init, FamilyConsistent
  <1>6. QED
    BY <1>1, <1>2, <1>4, <1>5 DEF StoreInvariant

LEMMA StoreStep == StoreInvariant /\ [Next]_store => StoreInvariant'
  <1> SUFFICES ASSUME StoreInvariant, [Next]_store
               PROVE  StoreInvariant'
    OBVIOUS
  <1> USE DEF StoreInvariant
  <1>1. CASE Next
    <2>1. TypeOK'
      BY <1>1, EnrollmentStepType, QueueStepType, ImportStepType DEF Next
    <2>2. IdentityIndex' /\ PinRecorded'
      <3>1. CASE UNCHANGED <<pin, certs, history>>
        BY <3>1 DEF IdentityIndex, PinRecorded
      <3>2. QED
        BY <1>1, <3>1, IdentityMoves, IdentityMoveKeeps
    <2>3. QED
      BY <1>1, <2>1, <2>2, KeyStep, LiveStep, FamilyStep
  <1>2. CASE UNCHANGED store
    <2>1. TypeOK' /\ IdentityIndex' /\ PinRecorded'
      BY <1>2 DEF store, TypeOK, IdentityIndex, PinRecorded
    <2>2. OpenOnlyWhenLive' /\ OneOpenPerKey' /\ FamilyConsistent'
      BY <1>2 DEF store, OpenOnlyWhenLive, Live, Device, OneOpenPerKey, FamilyConsistent
    <2>3. QED
      BY <2>1, <2>2
  <1>3. QED
    BY <1>1, <1>2

\* Every reachable state of the store satisfies the whole invariant.
THEOREM StoreInvariantHolds == Spec => []StoreInvariant
  <1>1. QED
    BY StoreInit, StoreStep, PTL DEF Spec

\* The certificate index and the pins of the rows agree, so EnrollmentByCertHash
\* returns the one device a certificate identifies; every pin is recorded.
THEOREM IdentityHolds == Spec => [](IdentityIndex /\ PinRecorded)
  <1>1. StoreInvariant => IdentityIndex /\ PinRecorded
    BY DEF StoreInvariant
  <1>2. QED
    BY <1>1, StoreInvariantHolds, PTL

\* No command outlives the enrollment it was queued for.
THEOREM OpenOnlyWhenLiveHolds == Spec => []OpenOnlyWhenLive
  <1>1. StoreInvariant => OpenOnlyWhenLive
    BY DEF StoreInvariant
  <1>2. QED
    BY <1>1, StoreInvariantHolds, PTL

\* Enqueue's deduplication holds however commands are sent, deferred,
\* answered and cleared in between.
THEOREM OneOpenPerKeyHolds == Spec => []OneOpenPerKey
  <1>1. StoreInvariant => OneOpenPerKey
    BY DEF StoreInvariant
  <1>2. QED
    BY <1>1, StoreInvariantHolds, PTL

\* User channels follow their device.
THEOREM FamilyConsistentHolds == Spec => []FamilyConsistent
  <1>1. StoreInvariant => FamilyConsistent
    BY DEF StoreInvariant
  <1>2. QED
    BY <1>1, StoreInvariantHolds, PTL

RecordsStep ==
    /\ history \subseteq history'
    /\ \A id \in Ids :
         /\ Len(queue'[id]) >= Len(queue[id])
         /\ \A i \in DOMAIN queue[id] :
              /\ queue'[id][i].uuid = queue[id][i].uuid
              /\ queue[id][i].state \in Terminal => queue'[id][i] = queue[id][i]

LEMMA RecordsStepHolds ==
  ASSUME TypeOK, [Next]_store
  PROVE  [RecordsStep]_store
  <1> SUFFICES ASSUME Next PROVE RecordsStep
    OBVIOUS
  <1>1. history \subseteq history'
    BY ZenonT(30), IdentityMoves DEF IdentityMove
  <1>2. \A id \in Ids : queue[id] \in Seq(Entry) /\ Len(queue[id]) \in Nat
    BY DEF TypeOK
  <1>3. CASE Settles
    BY <1>1, <1>2, <1>3 DEF Settles, Advances, RecordsStep
  <1>4. ASSUME NEW ids \in SUBSET Ids, NEW uuid \in UUIDs, NEW key \in Keys \cup {None},
               Enqueue(ids, uuid, key)
        PROVE  RecordsStep
    <2>1. \A id \in Ids :
            queue'[id] = queue[id] \/ queue'[id] = Append(queue[id], Fresh(uuid, key))
      BY <1>4, EnqueueQueues, ZenonT(30)
    <2>2. ASSUME NEW id \in Ids
          PROVE  /\ Len(queue'[id]) >= Len(queue[id])
                 /\ \A i \in DOMAIN queue[id] : queue'[id][i] = queue[id][i]
      BY SMTT(30), <1>2, <2>1
    <2>3. QED
      BY <1>1, <2>2 DEF RecordsStep
  <1>5. QED
    BY <1>3, <1>4, QueueMoves

\* Settled commands and recorded associations are never rewritten or dropped.
THEOREM RecordsFinalHolds == Spec => RecordsFinal
  <1>1. StoreInvariant => TypeOK
    BY DEF StoreInvariant
  <1>2. TypeOK /\ [Next]_store => [RecordsStep]_store
    BY RecordsStepHolds
  <1>3. RecordsFinal <=> [][RecordsStep]_store
    BY DEF RecordsFinal, RecordsStep
  <1>4. QED
    BY <1>1, <1>2, <1>3, StoreInvariantHolds, PTL DEF Spec
=============================================================================
