------------------------- MODULE DeviceServiceProofs -------------------------
(***************************************************************************)
(* Proofs about DeviceService for any devices, users, certificates,        *)
(* commands and number of concurrent handlers.                             *)
(***************************************************************************)
EXTENDS DeviceService, EnrollmentStoreProofs

\* Zenon proves most leaves; those on arithmetic and records name SMT.
USE ZenonT(20)

(***************************************************************************)
(* The handlers change the store only through its operations.              *)
(***************************************************************************)
LEMMA DeviceOfId == ASSUME NEW id \in Ids PROVE Device(id) \in Devices
  BY IdsAssumption DEF IdsAssumption, Ids, Device

LEMMA CommitUsesStore ==
  ASSUME ServiceTypeOK, NEW r \in Requests, Routed(req[r]), AuthenticateCommit(r)
  PROVE  [Next]_store
  <1>1. req[r].id \in Devices /\ req[r] \in Slot
    BY DEF AuthenticateCommit, At, Routed, DevicePcs, ServiceTypeOK
  <1>2. CASE AuthenticateEnrollment(req[r].id, req[r].expected, req[r].cert,
                                    req[r].reuse, req[r].rotated)
    <2>1. /\ req[r].expected \in Hashes /\ req[r].cert \in Hashes
          /\ req[r].reuse \in BOOLEAN /\ req[r].rotated \in BOOLEAN
      BY <1>1 DEF Slot
    <2>2. QED
      BY <1>1, <1>2, <2>1 DEF Next, EnrollmentStep, IdentityStep, UserAuthStep
  <1>3. CASE UNCHANGED store
    BY <1>3
  <1>4. QED
    BY <1>2, <1>3 DEF AuthenticateCommit

LEMMA TokenUsesStore ==
  ASSUME ServiceTypeOK, NEW r \in Requests, Routed(req[r]),
         \/ TokenUserAuth(r) \/ TokenRow(r) \/ TokenUpsert(r) \/ TokenStore(r)
         \/ CheckOut(r) \/ SetBootstrapToken(r)
  PROVE  [Next]_store
  <1>1. CASE TokenUpsert(r) /\ UpsertAuthenticateUser(req[r].id)
    BY <1>1 DEF TokenUpsert, At, Routed, UserPcs, Next, EnrollmentStep, IdentityStep, UserAuthStep
  <1>2. CASE TokenStore(r) /\ StoreTokenUpdate(req[r].id)
    BY <1>2 DEF TokenStore, At, Routed, Next, EnrollmentStep, IdentityStep, UserAuthStep
  <1>3. CASE CheckOut(r) /\ Disable(req[r].id)
    BY <1>3 DEF CheckOut, At, Routed, Next, EnrollmentStep, IdentityStep, UserAuthStep
  <1>4. CASE SetBootstrapToken(r) /\ \E t \in BOOLEAN : StoreBootstrapToken(req[r].id, t)
    BY <1>4 DEF SetBootstrapToken, At, Routed, Next, EnrollmentStep, IdentityStep, UserAuthStep
  <1>5. CASE UNCHANGED store
    BY <1>5
  <1>6. QED
    BY <1>1, <1>2, <1>3, <1>4, <1>5
    DEF TokenUserAuth, TokenRow, TokenUpsert, TokenStore, CheckOut, SetBootstrapToken, Return

LEMMA UserAuthUsesStore ==
  ASSUME ServiceTypeOK, NEW r \in Requests, Routed(req[r]),
         UserChallenge(r) \/ UserOutstanding(r) \/ UserGrant(r) \/ UserReject(r)
  PROVE  [Next]_store
  <1>1. CASE UserChallenge(r) /\ StoreUserAuthChallenge(req[r].id)
    BY <1>1 DEF UserChallenge, At, Routed, UserPcs, Next, EnrollmentStep, IdentityStep, UserAuthStep
  <1>2. CASE UserGrant(r) /\ StoreUserAuthToken(req[r].id)
    BY <1>2 DEF UserGrant, At, Routed, UserPcs, Next, EnrollmentStep, IdentityStep, UserAuthStep
  <1>3. CASE UserReject(r) /\ ClearUserAuth(req[r].id)
    BY <1>3 DEF UserReject, At, Routed, UserPcs, Next, EnrollmentStep, IdentityStep, UserAuthStep
  <1>4. CASE UNCHANGED store
    BY <1>4
  <1>5. QED
    BY <1>1, <1>2, <1>3, <1>4
    DEF UserChallenge, UserOutstanding, UserGrant, UserReject, Return

LEMMA ConnectUsesStore ==
  ASSUME ServiceTypeOK, NEW r \in Requests, Routed(req[r]),
         ConnectResult(r) \/ ConnectNext(r) \/ ConnectReply(r) \/ ConnectDiscard(r)
  PROVE  [Next]_store
  <1>1. CASE ConnectResult(r) /\ StoreResult(req[r].id, req[r].uuid, req[r].result)
    <2>1. req[r].result \in {"Acknowledged", "NotNow", "Error"}
      BY <1>1 DEF ConnectResult, At, Routed, ServiceTypeOK, Slot, Statuses
    <2>2. req[r].id \in Ids /\ req[r].uuid \in UUIDs
      BY <1>1 DEF ConnectResult, At, Routed
    <2>3. QED
      BY <1>1, <2>1, <2>2 DEF Next, QueueStep
  <1>2. CASE /\ ConnectNext(r)
             /\ \E i \in DOMAIN queue[req[r].id] :
                  NextCommand(req[r].id, req[r].result = "NotNow", i)
    BY <1>2 DEF ConnectNext, At, Routed, Next, QueueStep
  <1>3. CASE ConnectDiscard(r) /\ ~UNCHANGED store
    <2>1. req[r].id \in Ids
      BY <1>3 DEF ConnectDiscard, At, Routed
    <2>2. PICK open \in SUBSET DOMAIN queue[req[r].id] : Clear(req[r].id, open)
      BY <1>3 DEF ConnectDiscard
    <2>3. QED
      BY <2>1, <2>2 DEF Next, QueueStep
  <1>4. CASE UNCHANGED store
    BY <1>4
  <1>5. QED
    BY <1>1, <1>2, <1>3, <1>4
    DEF ConnectResult, ConnectNext, ConnectReply, ConnectDiscard, Return

LEMMA UsesStore ==
  ASSUME ServiceTypeOK, \A r \in Requests : Routed(req[r]), [ServiceNext]_vars
  PROVE  [Next]_store
  <1>1. ASSUME NEW r \in Requests, Handle(r) PROVE [Next]_store
    <2>1. CASE AuthorizeDevice(r) \/ AuthorizeChild(r) \/ AuthorizePin(r)
      BY <2>1 DEF AuthorizeDevice, AuthorizeChild, AuthorizePin, Return
    <2>2. CASE AuthenticateRead(r) \/ AuthenticateHistory(r)
      BY <2>2 DEF AuthenticateRead, AuthenticateHistory, Return
    <2>3. QED
      BY <1>1, <2>1, <2>2, CommitUsesStore, TokenUsesStore, UserAuthUsesStore,
         ConnectUsesStore DEF Handle
  <1>2. CASE Admin
    BY <1>2 DEF Admin, Next, QueueStep, EnrollmentStep, IdentityStep, UserAuthStep
  <1>3. ASSUME NEW r \in Requests, NEW kind \in Kinds, NEW id \in Ids,
               NEW cert \in Hashes, NEW result \in Statuses,
               Receive(r, kind, id, cert, result)
        PROVE  UNCHANGED store
    BY <1>3 DEF Receive
  <1>4. CASE UNCHANGED vars
    BY <1>4 DEF vars
  <1>5. QED
    BY <1>1, <1>2, <1>3, <1>4 DEF ServiceNext

(***************************************************************************)
(* What a step can do to the device rows.                                  *)
(***************************************************************************)
Quiet ==
    /\ pin' = pin /\ enrolled' = enrolled
    /\ \A d \in Devices : status'[d] = status[d]

Activated(d) ==
    /\ pin' = pin /\ enrolled' = enrolled
    /\ status[d] \in {"pending", "enabled"}
    /\ \A o \in Devices : status'[o] = IF o = d THEN "enabled" ELSE status[o]

Removed(d) ==
    /\ pin' = pin /\ enrolled' = enrolled
    /\ status[d] # "absent"
    /\ \A o \in Devices : status'[o] = IF o = d THEN "disabled" ELSE status[o]

Committed(r) ==
    LET q == req[r] IN
    /\ At(r, "commit") /\ req'[r] = Idle
    /\ CheckAuthenticate(q.id, q.expected, q.cert, q.rotated) = "reset"
    /\ CertAvailable(q.id, q.cert, q.reuse)
    /\ \A d \in Devices : status'[d] = IF d = q.id THEN "pending" ELSE status[d]
    /\ pin' = [pin EXCEPT ![q.id] = q.cert]
    /\ CountClaim(q, TRUE)

DeviceMove ==
    \/ Quiet
    \/ \E d \in Devices : Activated(d) \/ Removed(d)
    \/ \E r \in Requests : Committed(r)

LEMMA DisableMoves ==
  ASSUME TypeOK, NEW id \in Ids, Disable(id), enrolled' = enrolled
  PROVE  DeviceMove
  <1> USE IdsAssumption DEF IdsAssumption
  <1>1. pin' = pin /\ status[id] # "absent"
    BY DEF Disable
  <1>2. \A o \in Devices : status'[o] = IF o = id THEN "disabled" ELSE status[o]
    BY DEF Disable, DisabledRows, Ids
  <1>3. CASE id \in Devices
    BY <1>1, <1>2, <1>3 DEF DeviceMove, Removed
  <1>4. CASE id \in Users
    BY <1>1, <1>2, <1>4 DEF DeviceMove, Quiet
  <1>5. QED
    BY <1>3, <1>4 DEF Ids

LEMMA TokenMoves ==
  ASSUME TypeOK, NEW id \in Ids, StoreTokenUpdate(id), enrolled' = enrolled
  PROVE  DeviceMove
  <1> USE IdsAssumption DEF IdsAssumption
  <1>1. pin' = pin /\ status[id] \in {"pending", "enabled"}
    BY DEF StoreTokenUpdate, TokenUpdateAllowed
  <1>2. \A o \in Devices : status'[o] = IF o = id THEN "enabled" ELSE status[o]
    BY DEF StoreTokenUpdate, Ids, TypeOK
  <1>3. CASE id \in Devices
    BY <1>1, <1>2, <1>3 DEF DeviceMove, Activated
  <1>4. CASE id \in Users
    BY <1>1, <1>2, <1>4 DEF DeviceMove, Quiet
  <1>5. QED
    BY <1>3, <1>4 DEF Ids

LEMMA CommitMoves ==
  ASSUME TypeOK, ServiceTypeOK, NEW r \in Requests, Routed(req[r]), AuthenticateCommit(r)
  PROVE  DeviceMove
  <1> DEFINE q == req[r]
  <1>1. q.id \in Devices /\ At(r, "commit") /\ req'[r] = Idle
    BY DEF AuthenticateCommit, At, Done, Routed, DevicePcs, ServiceTypeOK
  <1>2. CASE /\ AuthenticateEnrollment(q.id, q.expected, q.cert, q.reuse, q.rotated)
             /\ CountClaim(q, TRUE)
    <2>1. \A d \in Devices : status'[d] = IF d = q.id THEN "pending" ELSE status[d]
      BY <1>1, <1>2, IdsAssumption
      DEF IdsAssumption, AuthenticateEnrollment, ResetDevice, Children, Ids
    <2>2. Committed(r)
      BY <1>1, <1>2, <2>1 DEF Committed, AuthenticateEnrollment, ResetDevice
    <2>3. QED
      BY <2>2 DEF DeviceMove
  <1>3. CASE CountClaim(q, FALSE) /\ UNCHANGED store
    <2>1. enrolled' = enrolled
      BY <1>1, <1>3 DEF CountClaim, ClaimsEnrolled, ServiceTypeOK
    <2>2. QED
      BY <1>3, <2>1 DEF DeviceMove, Quiet, store
  <1>4. CASE UNCHANGED <<store, enrolled>>
    BY <1>4 DEF DeviceMove, Quiet, store
  <1>5. QED
    BY <1>2, <1>3, <1>4 DEF AuthenticateCommit

LEMMA UserRowMoves ==
  ASSUME TypeOK, NEW u \in Users, enrolled' = enrolled,
         \/ UpsertAuthenticateUser(u) \/ StoreUserAuthChallenge(u)
         \/ StoreUserAuthToken(u) \/ ClearUserAuth(u)
  PROVE  DeviceMove
  <1>1. pin' = pin /\ \A d \in Devices : status'[d] = status[d]
    BY SMT, IdsAssumption
    DEF IdsAssumption, TypeOK, Ids, UpsertAuthenticateUser, StoreUserAuthChallenge,
        StoreUserAuthToken, ClearUserAuth
  <1>2. QED
    BY <1>1 DEF DeviceMove, Quiet

LEMMA HandlerMoves ==
  ASSUME TypeOK, ServiceTypeOK, NEW r \in Requests, Routed(req[r]), Handle(r)
  PROVE  DeviceMove
  <1> DEFINE q == req[r]
  <1>1. CASE AuthenticateCommit(r)
    BY <1>1, CommitMoves
  <1>2. CASE TokenStore(r) /\ StoreTokenUpdate(q.id)
    BY <1>2, TokenMoves DEF TokenStore, At, Routed, Return, record
  <1>3. CASE CheckOut(r) /\ Disable(q.id)
    BY <1>3, DisableMoves DEF CheckOut, At, Routed, Return, record
  <1>4. CASE TokenUpsert(r) /\ UpsertAuthenticateUser(q.id)
    BY <1>4, UserRowMoves DEF TokenUpsert, At, Routed, UserPcs, Return, record
  <1>5. CASE \/ UserChallenge(r) /\ StoreUserAuthChallenge(q.id)
             \/ UserGrant(r) /\ StoreUserAuthToken(q.id)
             \/ UserReject(r) /\ ClearUserAuth(q.id)
    <2>1. q.id \in Users
      BY <1>5 DEF UserChallenge, UserGrant, UserReject, At, Routed, UserPcs
    <2>2. enrolled' = enrolled
      BY <1>5, <2>1 DEF UserChallenge, UserGrant, UserReject, Return, record
    <2>3. QED
      BY <1>5, <2>1, <2>2, UserRowMoves
  <1>6. CASE UNCHANGED <<status, pin, enrolled>>
    BY <1>6 DEF DeviceMove, Quiet
  <1>7. CASE ConnectResult(r) \/ ConnectNext(r) \/ ConnectReply(r) \/ ConnectDiscard(r)
    BY <1>6, <1>7
    DEF ConnectResult, ConnectNext, ConnectReply, ConnectDiscard, Return, store, record,
        StoreResult, NextCommand, Clear
  <1>8. CASE \/ AuthorizeDevice(r) \/ AuthorizeChild(r) \/ AuthorizePin(r)
             \/ AuthenticateRead(r) \/ AuthenticateHistory(r)
    BY <1>6, <1>8
    DEF AuthorizeDevice, AuthorizeChild, AuthorizePin, AuthenticateRead,
        AuthenticateHistory, Return, store, record
  <1>9. CASE TokenUserAuth(r) \/ TokenRow(r) \/ UserOutstanding(r) \/ SetBootstrapToken(r)
    BY <1>6, <1>9
    DEF TokenUserAuth, TokenRow, UserOutstanding, SetBootstrapToken, StoreBootstrapToken,
        Return, store, record
  <1>10. CASE TokenUpsert(r) \/ TokenStore(r) \/ CheckOut(r)
    BY <1>2, <1>3, <1>4, <1>6, <1>10
    DEF TokenUpsert, TokenStore, CheckOut, Return, store, record
  <1>11. CASE UserChallenge(r) \/ UserGrant(r) \/ UserReject(r)
    BY <1>5, <1>6, <1>11 DEF UserChallenge, UserGrant, UserReject, Return, store, record
  <1>12. QED
    BY <1>1, <1>7, <1>8, <1>9, <1>10, <1>11 DEF Handle

LEMMA ServiceMoves ==
  ASSUME TypeOK, ServiceTypeOK, \A r \in Requests : Routed(req[r]), [ServiceNext]_vars
  PROVE  DeviceMove
  <1>1. CASE UNCHANGED <<status, pin, enrolled>>
    BY <1>1 DEF DeviceMove, Quiet
  <1>2. ASSUME NEW id \in Ids, Disable(id), UNCHANGED service
        PROVE  DeviceMove
    BY <1>2, DisableMoves DEF service, record
  <1>3. CASE Admin
    BY <1>1, <1>2, <1>3
    DEF Admin, Enqueue, Clear, BackoffElapses, service, record
  <1>4. ASSUME NEW r \in Requests, NEW kind \in Kinds, NEW id \in Ids,
               NEW cert \in Hashes, NEW result \in Statuses,
               Receive(r, kind, id, cert, result)
        PROVE  DeviceMove
    BY <1>1, <1>4 DEF Receive, store, record
  <1>5. CASE UNCHANGED vars
    BY <1>1, <1>5 DEF vars, store, service, record
  <1>6. QED
    BY <1>3, <1>4, <1>5, HandlerMoves DEF ServiceNext

(***************************************************************************)
(* What a step can do to the handlers' registers.                          *)
(***************************************************************************)
Slots ==
    /\ req \in [Requests -> Slot]
    /\ \A r \in Requests : Routed(req[r]) /\ Decided(req[r])

LEMMA DoneKeeps ==
  ASSUME Slots, NEW r \in Requests, Done(r) PROVE Slots'
  <1>1. Idle \in Slot
    BY DEF Idle, Message, Slot, Hashes, Statuses
  <1>2. Routed(Idle) /\ Decided(Idle)
    BY DEF Idle, Message, Routed, Decided, DevicePcs, UserPcs
  <1>3. QED
    BY <1>1, <1>2 DEF Slots, Done

LEMMA GotoKeeps ==
  ASSUME Slots, NEW r \in Requests, NEW pc \in UserPcs \cup SharedPcs, Goto(r, pc),
         req[r].pc # "idle",
         pc \in UserPcs => req[r].id \in Users,
         pc \in {"device", "child", "pin"} => req[r].kind \in Kinds \ {"Authenticate"},
         pc = "result" => req[r].result # "Idle"
  PROVE  Slots'
  <1> DEFINE q == [req[r] EXCEPT !.pc = pc]
  <1>1. req[r] \in Slot /\ Routed(req[r])
    BY DEF Slots
  <1>2. q \in Slot
    BY <1>1 DEF Slot
  <1>3. pc \notin DevicePcs /\ pc # "idle"
    BY DEF DevicePcs, UserPcs, SharedPcs
  <1>4. Routed(q) /\ Decided(q)
    BY <1>1, <1>3 DEF Routed, Decided, Slot, DevicePcs
  <1>5. QED
    BY <1>2, <1>4 DEF Slots, Goto

LEMMA ReceiveKeeps ==
  ASSUME Slots, inbox \in [Ids -> UUIDs \cup {None}], NEW r \in Requests,
         NEW kind \in Kinds, NEW id \in Ids, NEW cert \in Hashes, NEW result \in Statuses,
         Receive(r, kind, id, cert, result)
  PROVE  Slots'
  <1> DEFINE q == Message(IF kind = "Authenticate" THEN "read" ELSE "device", kind, id,
                          cert, IF result = "Idle" THEN None ELSE inbox[id], result)
  <1>2. q \in Slot
    BY DEF Message, Slot, DevicePcs, SharedPcs, Hashes
  <1>3. /\ kind = "Authenticate" => id \in Devices
        /\ kind \in {"UserChallenge", "UserDigest"} => id \in Users
        /\ result # "Idle" => inbox[id] \in UUIDs
        /\ req' = [req EXCEPT ![r] = q]
    BY DEF Receive
  <1>4. q.pc = (IF kind = "Authenticate" THEN "read" ELSE "device") /\ q.kind = kind
        /\ q.id = id /\ q.result = result /\ (result # "Idle" => q.uuid = inbox[id])
    BY DEF Message
  <1> HIDE DEF q
  <1>5. Routed(q)
    BY <1>3, <1>4 DEF Routed, DevicePcs, UserPcs
  <1>6. Decided(q)
    BY <1>4 DEF Decided
  <1>7. QED
    BY <1>2, <1>3, <1>5, <1>6 DEF Slots

LEMMA AuthorizeKeeps ==
  ASSUME Slots, NEW r \in Requests,
         AuthorizeDevice(r) \/ AuthorizeChild(r) \/ AuthorizePin(r)
  PROVE  Slots'
  <1>1. /\ req[r] \in Slot /\ Routed(req[r])
        /\ req[r].pc \in {"device", "child", "pin"}
    BY DEF Slots, AuthorizeDevice, AuthorizeChild, AuthorizePin, At
  <1>2. req[r].kind \in Kinds \ {"Authenticate"} /\ req[r].id \in Ids
    BY <1>1 DEF Routed
  <1>3. CASE AuthorizeDevice(r)
    <2>1. CASE Return(r)
      BY <2>1, DoneKeeps DEF Return
    <2>2. CASE req[r].id \in Users /\ Goto(r, "child")
      BY <1>1, <1>2, <2>2, GotoKeeps DEF UserPcs
    <2>3. CASE Goto(r, "pin")
      BY <1>1, <1>2, <2>3, GotoKeeps DEF SharedPcs, UserPcs
    <2>4. QED
      BY <1>3, <2>1, <2>2, <2>3 DEF AuthorizeDevice
  <1>4. CASE AuthorizeChild(r)
    <2>1. CASE Return(r)
      BY <2>1, DoneKeeps DEF Return
    <2>2. CASE Goto(r, "pin")
      BY <1>1, <1>2, <2>2, GotoKeeps DEF SharedPcs, UserPcs
    <2>3. QED
      BY <1>4, <2>1, <2>2 DEF AuthorizeChild
  <1>5. CASE AuthorizePin(r)
    <2>1. CASE Return(r)
      BY <2>1, DoneKeeps DEF Return
    <2>2. CASE Goto(r, Authorized(req[r]))
      <3>1. /\ Authorized(req[r]) \in UserPcs \cup SharedPcs
            /\ Authorized(req[r]) \in UserPcs => req[r].id \in Users
            /\ Authorized(req[r]) \notin {"device", "child", "pin"}
            /\ Authorized(req[r]) = "result" => req[r].result # "Idle"
        BY <1>1, <1>2, KindsAssumption
        DEF KindsAssumption, Authorized, Routed, UserPcs, SharedPcs
      <3>2. QED
        BY <1>1, <2>2, <3>1, GotoKeeps
    <2>3. QED
      BY <1>5, <2>1, <2>2 DEF AuthorizePin
  <1>6. QED
    BY <1>3, <1>4, <1>5

LEMMA DecisionSlot ==
  ASSUME NEW q \in Slot, NEW existed \in BOOLEAN, NEW expected \in Hashes,
         NEW rotated \in BOOLEAN, NEW pc \in DevicePcs
  PROVE  [q EXCEPT !.existed = existed, !.expected = expected, !.rotated = rotated,
                   !.pc = pc] \in Slot
  BY DEF Slot

LEMMA AuthenticateKeeps ==
  ASSUME TypeOK, Pinned, Slots, NEW r \in Requests,
         AuthenticateRead(r) \/ AuthenticateHistory(r) \/ AuthenticateCommit(r)
  PROVE  Slots'
  <1> DEFINE q == req[r]
  <1>1. q \in Slot /\ Routed(q) /\ Decided(q) /\ q.id \in Devices
    BY
    DEF Slots, AuthenticateRead, AuthenticateHistory, AuthenticateCommit, At, Routed,
           DevicePcs
  <1>2. CASE Done(r)
    BY <1>2, DoneKeeps
  <1>3. CASE AuthenticateRead(r) /\ ~Done(r)
    <2> DEFINE rotated == /\ pin[q.id] # None /\ q.cert # None /\ pin[q.id] # q.cert
                          /\ Pinning # "off"
               pc == IF q.cert # None /\ Pinning # "off" THEN "history" ELSE "commit"
               n == [q EXCEPT !.existed = status[q.id] # "absent",
                              !.expected = pin[q.id], !.rotated = rotated, !.pc = pc]
    <2>1. ~(q.cert = None /\ Pinning = "enforce") /\ req' = [req EXCEPT ![r] = n]
      BY <1>3 DEF AuthenticateRead, Return, Slots
    <2>2. pin[q.id] \in Hashes /\ pc \in DevicePcs
      BY <1>1 DEF TypeOK, Hashes, DevicePcs
    <2>3. n \in Slot
      BY <1>1, <2>2, DecisionSlot
    <2>4. /\ n.pc = pc /\ n.id = q.id /\ n.kind = q.kind /\ n.cert = q.cert
          /\ n.result = q.result /\ n.uuid = q.uuid
          /\ n.existed = (status[q.id] # "absent") /\ n.expected = pin[q.id]
          /\ n.rotated = rotated
      BY <1>1 DEF Slot
    <2>5. pc \in {"history", "commit"} /\ q.pc = "read"
      BY <1>3 DEF AuthenticateRead, At
    <2> HIDE DEF n
    <2>6. Routed(n)
      BY <1>1, <2>4, <2>5 DEF Routed, DevicePcs, UserPcs, Ids
    <2>7. Decided(n)
      BY <1>1, <2>1, <2>4 DEF Decided, Pinned
    <2>8. QED
      BY <2>1, <2>3, <2>6, <2>7 DEF Slots
  <1>4. CASE AuthenticateHistory(r) /\ ~Done(r)
    <2> DEFINE reuse == OtherHolders(q.id, q.cert) # {}
               n == [q EXCEPT !.reuse = reuse, !.pc = "commit"]
    <2>1. req' = [req EXCEPT ![r] = n] /\ q.pc = "history"
      BY <1>4 DEF AuthenticateHistory, Return, Slots, At
    <2>2. n \in Slot
      BY <1>1 DEF Slot, DevicePcs
    <2>3. /\ n.pc = "commit" /\ n.id = q.id /\ n.kind = q.kind /\ n.cert = q.cert
          /\ n.result = q.result /\ n.uuid = q.uuid /\ n.existed = q.existed
          /\ n.expected = q.expected /\ n.rotated = q.rotated
      BY <1>1 DEF Slot
    <2> HIDE DEF n
    <2>4. Routed(n)
      BY <1>1, <2>1, <2>3 DEF Routed, DevicePcs, UserPcs, Ids
    <2>5. Decided(n)
      BY <1>1, <2>1, <2>3 DEF Decided
    <2>6. QED
      BY <2>1, <2>2, <2>4, <2>5 DEF Slots
  <1>5. QED
    BY <1>2, <1>3, <1>4 DEF AuthenticateCommit

LEMMA TokenKeeps ==
  ASSUME Slots, NEW r \in Requests,
         \/ TokenUserAuth(r) \/ TokenRow(r) \/ TokenUpsert(r) \/ TokenStore(r)
         \/ CheckOut(r) \/ SetBootstrapToken(r)
  PROVE  Slots'
  <1>1. CASE Done(r)
    BY <1>1, DoneKeeps
  <1>2. CASE TokenUserAuth(r) /\ Goto(r, "row")
    BY <1>2, GotoKeeps DEF TokenUserAuth, At, Slots, Routed, UserPcs
  <1>3. CASE TokenRow(r) /\ Goto(r, "upsert")
    BY <1>3, GotoKeeps DEF TokenRow, At, Slots, Routed, UserPcs
  <1>4. CASE (TokenRow(r) \/ TokenUpsert(r)) /\ Goto(r, "token")
    BY <1>4, GotoKeeps DEF TokenRow, TokenUpsert, At, UserPcs, SharedPcs
  <1>5. QED
    BY <1>1, <1>2, <1>3, <1>4
    DEF TokenUserAuth, TokenRow, TokenUpsert, TokenStore, CheckOut, SetBootstrapToken, Return

LEMMA UserAuthKeeps ==
  ASSUME Slots, NEW r \in Requests,
         UserChallenge(r) \/ UserOutstanding(r) \/ UserGrant(r) \/ UserReject(r)
  PROVE  Slots'
  <1>1. CASE Done(r)
    BY <1>1, DoneKeeps
  <1>2. CASE UserOutstanding(r) /\ Goto(r, "grant")
    BY <1>2, GotoKeeps DEF UserOutstanding, At, Slots, Routed, UserPcs
  <1>3. CASE UserOutstanding(r) /\ Goto(r, "reject")
    BY <1>3, GotoKeeps DEF UserOutstanding, At, Slots, Routed, UserPcs
  <1>4. QED
    BY <1>1, <1>2, <1>3
    DEF UserChallenge, UserOutstanding, UserGrant, UserReject, Return

LEMMA ConnectKeeps ==
  ASSUME TypeOK, Slots, NEW r \in Requests,
         ConnectResult(r) \/ ConnectNext(r) \/ ConnectReply(r) \/ ConnectDiscard(r)
  PROVE  Slots'
  <1> DEFINE q == req[r]
  <1>1. CASE Done(r)
    BY <1>1, DoneKeeps
  <1>2. CASE (ConnectResult(r) \/ ConnectDiscard(r)) /\ Goto(r, "next")
    BY <1>2, GotoKeeps DEF ConnectResult, ConnectDiscard, At, UserPcs, SharedPcs
  <1>3. CASE ConnectNext(r) /\ ~Done(r)
    <2>1. PICK i \in DOMAIN queue[q.id] :
             req' = [req EXCEPT ![r].pc = "verdict", ![r].uuid = queue[q.id][i].uuid]
      BY <1>3 DEF ConnectNext, Return
    <2>2. q \in Slot /\ Routed(q) /\ q.pc = "next" /\ q.id \in Ids
      BY <1>3 DEF Slots, ConnectNext, At, Routed
    <2> DEFINE n == [q EXCEPT !.pc = "verdict", !.uuid = queue[q.id][i].uuid]
    <2>3. queue[q.id] \in Seq(Entry)
      BY <2>2 DEF TypeOK
    <2>4. queue[q.id][i].uuid \in UUIDs
      <3>1. queue[q.id][i] \in Entry
        BY SMT, <2>1, <2>3
      <3>2. QED
        BY <3>1 DEF Entry
    <2>5. n \in Slot
      BY <2>2, <2>4 DEF Slot, SharedPcs
    <2>6. /\ n.pc = "verdict" /\ n.id = q.id /\ n.kind = q.kind
          /\ n.uuid \in UUIDs
      BY <2>2, <2>4 DEF Slot
    <2>7. req' = [req EXCEPT ![r] = n]
      BY <2>1 DEF Slots
    <2> HIDE DEF n
    <2>8. Routed(n) /\ Decided(n)
      BY <2>2, <2>6 DEF Routed, Decided, DevicePcs, UserPcs
    <2>9. QED
      BY <2>5, <2>7, <2>8 DEF Slots
  <1>4. QED
    BY <1>1, <1>2, <1>3
    DEF ConnectResult, ConnectNext, ConnectReply, ConnectDiscard, Return

LEMMA SlotsStep ==
  ASSUME TypeOK, ServiceTypeOK, Pinned, Slots, [ServiceNext]_vars
  PROVE  Slots'
  <1>1. ASSUME NEW r \in Requests, Handle(r) PROVE Slots'
    BY <1>1, AuthorizeKeeps, AuthenticateKeeps, TokenKeeps, UserAuthKeeps, ConnectKeeps
    DEF Handle
  <1>2. CASE UNCHANGED req
    BY <1>2 DEF Slots
  <1>3. CASE Admin
    BY <1>2, <1>3 DEF Admin, service
  <1>4. CASE UNCHANGED vars
    BY <1>2, <1>4 DEF vars, service
  <1>5. QED
    BY <1>1, <1>3, <1>4, ReceiveKeeps DEF ServiceNext, ServiceTypeOK

(***************************************************************************)
(* The histories and the inboxes keep their types.                         *)
(***************************************************************************)
HistoryTypes ==
    /\ tokenBy \in [Ids -> Hashes]
    /\ inbox \in [Ids -> UUIDs \cup {None}]

LEMMA ManyType == ASSUME NEW n \in 0 .. 2 PROVE Many(n + 1) \in 0 .. 2
  BY SMT DEF Many

LEMMA HistoryStep ==
  ASSUME ServiceTypeOK, \A r \in Requests : Routed(req[r]), [ServiceNext]_vars
  PROVE  HistoryTypes'
  <1> USE DEF HistoryTypes
  <1>1. CASE UNCHANGED <<tokenBy, inbox>>
    BY <1>1 DEF ServiceTypeOK
  <1>2. ASSUME NEW r \in Requests, Handle(r) PROVE HistoryTypes'
    <2>1. req[r] \in Slot /\ Routed(req[r])
      BY DEF ServiceTypeOK
    <2>2. CASE TokenStore(r)
      <3>1. req[r].cert \in Hashes
        BY <2>1 DEF Slot
      <3>2. QED
        BY <1>1, <2>2, <3>1 DEF TokenStore, Return, record, ServiceTypeOK
    <2>3. CASE UserChallenge(r) \/ UserGrant(r)
      BY <1>1, <2>3 DEF UserChallenge, UserGrant, Return, record
    <2>5. CASE ConnectNext(r) \/ ConnectReply(r)
      <3>1. UNCHANGED tokenBy
        BY <2>5 DEF ConnectNext, ConnectReply, Return, record
      <3>2. req[r].uuid \in UUIDs \cup {None}
        BY <2>1 DEF Slot
      <3>3. inbox' \in [Ids -> UUIDs \cup {None}]
        BY <2>5, <3>2 DEF ConnectNext, ConnectReply, Return, ServiceTypeOK
      <3>4. QED
        BY <3>1, <3>3 DEF ServiceTypeOK
    <2>6. CASE ConnectResult(r) \/ ConnectDiscard(r) \/ TokenUserAuth(r) \/ TokenRow(r)
      BY <1>1, <2>6
      DEF ConnectResult, ConnectDiscard, TokenUserAuth, TokenRow, Return, record
    <2>7. CASE \/ TokenUpsert(r) \/ CheckOut(r) \/ SetBootstrapToken(r)
               \/ UserOutstanding(r) \/ UserReject(r)
      BY <1>1, <2>7
      DEF TokenUpsert, CheckOut, SetBootstrapToken, UserOutstanding, UserReject, Return, record
    <2>8. CASE \/ AuthorizeDevice(r) \/ AuthorizeChild(r) \/ AuthorizePin(r)
               \/ AuthenticateRead(r) \/ AuthenticateHistory(r) \/ AuthenticateCommit(r)
      BY <1>1, <2>8
      DEF AuthorizeDevice, AuthorizeChild, AuthorizePin, AuthenticateRead,
          AuthenticateHistory, AuthenticateCommit, Return, record
    <2>9. QED
      BY <1>2, <2>2, <2>3, <2>5, <2>6, <2>7, <2>8 DEF Handle
  <1>3. CASE Admin
    BY <1>1, <1>3 DEF Admin, service, record
  <1>4. CASE UNCHANGED vars
    BY <1>1, <1>4 DEF vars, service, record
  <1>5. ASSUME NEW r \in Requests, NEW kind \in Kinds, NEW id \in Ids,
               NEW cert \in Hashes, NEW result \in Statuses,
               Receive(r, kind, id, cert, result)
        PROVE  HistoryTypes'
    BY <1>1, <1>5 DEF Receive, record
  <1>6. QED
    BY <1>2, <1>3, <1>4, <1>5 DEF ServiceNext

(***************************************************************************)
(* Device rows, pins and Enrolled events.                                  *)
(***************************************************************************)
EnrolledOK ==
    /\ enrolled \in [Devices -> 0 .. 2]
    /\ Pinned
    /\ Pinning = "enforce" => EnrolledOnce

LEMMA CommittedEnrolled ==
  ASSUME TypeOK, EnrolledOK, Slots, NEW r \in Requests, Committed(r)
  PROVE  EnrolledOK'
  <1> DEFINE q == req[r]
  <1>1. q \in Slot /\ Decided(q) /\ q.id \in Devices /\ q.pc = "commit"
    BY DEF Slots, Committed, At, Routed, DevicePcs
  <1>2. /\ \A d \in Devices : status'[d] = IF d = q.id THEN "pending" ELSE status[d]
        /\ \A d \in Devices : pin'[d] = IF d = q.id THEN q.cert ELSE pin[d]
    BY <1>1 DEF Committed, TypeOK
  <1>3. enrolled \in [Devices -> 0 .. 2]
    BY DEF EnrolledOK
  <1>4. /\ enrolled' = [enrolled EXCEPT ![q.id] =
                          IF ~q.existed THEN Many(enrolled[q.id] + 1) ELSE enrolled[q.id]]
        /\ Many(enrolled[q.id] + 1) \in 0 .. 2
    BY <1>1, <1>3, ManyType DEF Committed, CountClaim, ClaimsEnrolled
  <1>5. enrolled' \in [Devices -> 0 .. 2]
    BY <1>1, <1>3, <1>4
  <1>6. \A d \in Devices : d # q.id => enrolled'[d] = enrolled[d]
    BY <1>1, <1>3, <1>4
  <1>7. Pinned'
    <2>1. ASSUME NEW d \in Devices, d # q.id
          PROVE  /\ status'[d] = "absent" => pin'[d] = None /\ enrolled'[d] = 0
                 /\ Pinning = "enforce" /\ status'[d] # "absent" => pin'[d] # None
      BY SMT, <1>2, <1>6, <2>1 DEF EnrolledOK, Pinned
    <2>2. /\ status'[q.id] = "pending"
          /\ Pinning = "enforce" => pin'[q.id] # None
      BY <1>1, <1>2 DEF Decided
    <2>3. QED
      BY <2>1, <2>2 DEF Pinned
  <1>8. ASSUME Pinning = "enforce" PROVE EnrolledOnce'
    <2>1. \A d \in Devices : enrolled[d] <= 1
      BY <1>8 DEF EnrolledOK, EnrolledOnce
    <2>2. ~q.existed => enrolled[q.id] = 0
      <3>1. SUFFICES ASSUME ~q.existed PROVE status[q.id] = "absent"
        BY <1>1 DEF EnrolledOK, Pinned
      <3>2. q.expected = None
        BY <1>1, <3>1 DEF Decided
      <3>3. status[q.id] = "absent" \/ pin[q.id] = q.expected
        BY DEF Committed, CheckAuthenticate
      <3>4. QED
        BY <1>1, <1>8, <3>2, <3>3 DEF EnrolledOK, Pinned
    <2>3. enrolled'[q.id] <= 1
      BY SMT, <1>1, <1>3, <1>4, <2>1, <2>2 DEF Many
    <2>4. QED
      BY <1>6, <2>1, <2>3 DEF EnrolledOnce
  <1>9. QED
    BY <1>5, <1>7, <1>8 DEF EnrolledOK

LEMMA EnrolledStep ==
  ASSUME TypeOK, ServiceTypeOK, EnrolledOK, Slots, [ServiceNext]_vars
  PROVE  EnrolledOK'
  <1>1. DeviceMove
    BY ServiceMoves DEF Slots
  <1>2. ASSUME pin' = pin, enrolled' = enrolled,
               \A d \in Devices : status'[d] = "absent" <=> status[d] = "absent"
        PROVE  EnrolledOK'
    BY <1>2 DEF EnrolledOK, Pinned, EnrolledOnce
  <1>3. CASE Quiet
    BY <1>2, <1>3 DEF Quiet
  <1>4. ASSUME NEW d \in Devices, Activated(d) \/ Removed(d) PROVE EnrolledOK'
    <2>1. pin' = pin /\ enrolled' = enrolled
      BY <1>4 DEF Activated, Removed
    <2>2. \A o \in Devices : status'[o] = "absent" <=> status[o] = "absent"
      BY <1>4 DEF Activated, Removed
    <2>3. QED
      BY <1>2, <2>1, <2>2
  <1>5. QED
    BY <1>1, <1>3, <1>4, CommittedEnrolled DEF DeviceMove

(***************************************************************************)
(* The inductive invariant.                                                *)
(***************************************************************************)
LEMMA InvariantParts ==
  ServiceInvariant <=> StoreInvariant /\ HistoryTypes /\ EnrolledOK /\ Slots
  BY DEF ServiceInvariant, ServiceTypeOK, HistoryTypes, EnrolledOK, Slots

LEMMA ServiceStart == ServiceInit => ServiceInvariant
  <1> SUFFICES ASSUME ServiceInit PROVE ServiceInvariant
    OBVIOUS
  <1>1. StoreInvariant
    BY StoreInit DEF ServiceInit
  <1>2. HistoryTypes
    BY DEF ServiceInit, HistoryTypes, Hashes
  <1>3. EnrolledOK
    BY SMT DEF ServiceInit, Init, EnrolledOK, Pinned, EnrolledOnce, Ids
  <1>4. Idle \in Slot /\ Routed(Idle) /\ Decided(Idle)
    <2>1. Idle \in Slot
      BY DEF Idle, Message, Slot, Hashes, Statuses
    <2>2. Routed(Idle) /\ Decided(Idle)
      BY DEF Idle, Message, Routed, Decided, DevicePcs, UserPcs
    <2>3. QED
      BY <2>1, <2>2
  <1>5. Slots
    BY <1>4 DEF ServiceInit, Slots
  <1>6. QED
    BY <1>1, <1>2, <1>3, <1>5, InvariantParts

LEMMA ServiceStep == ServiceInvariant /\ [ServiceNext]_vars => ServiceInvariant'
  <1> SUFFICES ASSUME ServiceInvariant, [ServiceNext]_vars PROVE ServiceInvariant'
    OBVIOUS
  <1>1. /\ StoreInvariant /\ ServiceTypeOK /\ TypeOK /\ Pinned /\ EnrolledOK /\ Slots
        /\ \A r \in Requests : Routed(req[r])
    BY InvariantParts DEF ServiceInvariant, StoreInvariant
  <1>2. StoreInvariant'
    BY <1>1, UsesStore, StoreStep
  <1>3. HistoryTypes' /\ EnrolledOK' /\ Slots'
    BY <1>1, HistoryStep, EnrolledStep, SlotsStep
  <1>4. QED
    BY <1>2, <1>3
    DEF ServiceInvariant, ServiceTypeOK, HistoryTypes, EnrolledOK, Slots

\* The inductive invariant of the handlers on the store.
THEOREM ServiceInvariantHolds == ServiceSpec => []ServiceInvariant
  <1>1. QED
    BY ServiceStart, ServiceStep, PTL DEF ServiceSpec

\* The service, with any number of overlapping handlers, uses the store only
\* through its operations: everything proved of the store's Spec, RecordsFinal
\* and OpenOnlyWhenLive among it, holds of the running service.
THEOREM ServiceUsesStore == ServiceSpec => Spec
  <1>1. ServiceInit => Init
    BY DEF ServiceInit
  <1>2. ServiceInvariant /\ [ServiceNext]_vars => [Next]_store
    BY UsesStore DEF ServiceInvariant
  <1>3. QED
    BY <1>1, <1>2, ServiceInvariantHolds, PTL DEF ServiceSpec, Spec

\* Under PinEnforce concurrent first Authenticates never both publish Enrolled.
THEOREM EnrolledOnceHolds ==
  ASSUME Pinning = "enforce" PROVE ServiceSpec => []EnrolledOnce
  <1>1. ServiceInvariant => EnrolledOnce
    BY DEF ServiceInvariant
  <1>2. QED
    BY <1>1, ServiceInvariantHolds, PTL

(***************************************************************************)
(* Action properties, from what a step can do to the device rows.          *)
(***************************************************************************)
LEMMA StepIsMove ==
  ASSUME ServiceInvariant, [ServiceNext]_vars
  PROVE  TypeOK /\ StoreInvariant /\ Slots /\ DeviceMove
  BY InvariantParts, ServiceMoves DEF ServiceInvariant, StoreInvariant

\* The commit that changed a pin: which handler did it, and on what grounds.
LEMMA PinMoves ==
  ASSUME ServiceInvariant, [ServiceNext]_vars, NEW d \in Devices, pin'[d] # pin[d]
  PROVE  \E r \in Requests :
           /\ r \in Committing(d) /\ Decided(req[r]) /\ req[r].pc = "commit"
           /\ pin'[d] = req[r].cert
           /\ CheckAuthenticate(d, req[r].expected, req[r].cert, req[r].rotated) = "reset"
           /\ CertAvailable(d, req[r].cert, req[r].reuse)
  <1>1. TypeOK /\ Slots /\ DeviceMove
    BY StepIsMove
  <1>2. PICK r \in Requests : Committed(r)
    BY <1>1 DEF DeviceMove, Quiet, Activated, Removed
  <1>3. req[r].id = d /\ pin'[d] = req[r].cert
    BY <1>1, <1>2 DEF Committed, TypeOK
  <1>4. r \in Committing(d) /\ req[r].pc = "commit"
    BY <1>2, <1>3 DEF Committing, Committed, At
  <1>5. QED
    BY <1>1, <1>2, <1>3, <1>4 DEF Committed, Slots

RotationStep ==
    \A d \in Devices : Pinning = "enforce" /\ pin[d] # None /\ pin'[d] # pin[d] =>
      \E r \in Committing(d) : /\ req[r].rotated
                               /\ req[r].expected = pin[d]
                               /\ req[r].cert = pin'[d]

\* Under PinEnforce every change of a pin was approved by the re-enrollment
\* policy for exactly the pin it replaces.
THEOREM RotationApprovedHolds == ServiceSpec => RotationApproved
  <1>1. ServiceInvariant /\ [ServiceNext]_vars => [RotationStep]_vars
    <2> SUFFICES ASSUME ServiceInvariant, [ServiceNext]_vars, NEW d \in Devices,
                        Pinning = "enforce", pin[d] # None, pin'[d] # pin[d]
                 PROVE  \E r \in Committing(d) : /\ req[r].rotated
                                                 /\ req[r].expected = pin[d]
                                                 /\ req[r].cert = pin'[d]
      BY DEF RotationStep
    <2>1. PICK r \in Requests :
             /\ r \in Committing(d) /\ Decided(req[r]) /\ req[r].pc = "commit"
             /\ pin'[d] = req[r].cert
             /\ CheckAuthenticate(d, req[r].expected, req[r].cert, req[r].rotated) = "reset"
      BY PinMoves
    <2>2. status[d] # "absent"
      BY DEF ServiceInvariant, Pinned
    <2>3. req[r].expected = pin[d]
      BY <2>1, <2>2 DEF CheckAuthenticate
    <2>4. req[r].rotated
      BY <2>1, <2>3 DEF Decided
    <2>5. QED
      BY <2>1, <2>3, <2>4
  <1>2. QED
    BY <1>1, ServiceInvariantHolds, PTL DEF ServiceSpec, RotationApproved, RotationStep

ReuseStep ==
    \A d \in Devices : pin'[d] # pin[d] /\ OtherHolders(d, pin'[d]) # {} =>
      \E r \in Committing(d) : req[r].reuse

\* A certificate another device ever held is pinned only with reuse approval,
\* in every pinning mode.
THEOREM ReuseApprovedHolds == ServiceSpec => ReuseApproved
  <1>1. ServiceInvariant /\ [ServiceNext]_vars => [ReuseStep]_vars
    <2> SUFFICES ASSUME ServiceInvariant, [ServiceNext]_vars, NEW d \in Devices,
                        pin'[d] # pin[d], OtherHolders(d, pin'[d]) # {}
                 PROVE  \E r \in Committing(d) : req[r].reuse
      BY DEF ReuseStep
    <2>1. PICK r \in Requests : /\ r \in Committing(d) /\ pin'[d] = req[r].cert
                                /\ CertAvailable(d, req[r].cert, req[r].reuse)
      BY PinMoves
    <2>2. PICK o \in Devices \ {d} : <<o, req[r].cert>> \in history
      BY <2>1 DEF OtherHolders
    <2>3. req[r].cert # None
      BY <2>2, NoneAssumption DEF NoneAssumption, ServiceInvariant, StoreInvariant, TypeOK
    <2>4. QED
      BY <2>1, <2>2, <2>3 DEF CertAvailable
  <1>2. QED
    BY <1>1, ServiceInvariantHolds, PTL DEF ServiceSpec, ReuseApproved, ReuseStep

ReplayStep ==
    \A d \in Devices : status[d] = "disabled" /\ status'[d] # "disabled" =>
      pin'[d] \notin {pin[d], None}

\* A removed device returns only under a certificate it was not removed with,
\* in every pinning mode and however its messages interleave.
THEOREM NoReplayHolds == ServiceSpec => NoReplay
  <1>1. ServiceInvariant /\ [ServiceNext]_vars => [ReplayStep]_vars
    <2> SUFFICES ASSUME ServiceInvariant, [ServiceNext]_vars, NEW d \in Devices,
                        status[d] = "disabled", status'[d] # "disabled"
                 PROVE  pin'[d] \notin {pin[d], None}
      BY DEF ReplayStep
    <2>1. TypeOK /\ DeviceMove
      BY StepIsMove
    <2>2. PICK r \in Requests : Committed(r)
      BY <2>1 DEF DeviceMove, Quiet, Activated, Removed
    <2>3. req[r].id = d /\ pin'[d] = req[r].cert
      BY <2>1, <2>2 DEF Committed, TypeOK
    <2>4. CheckAuthenticate(d, req[r].expected, req[r].cert, req[r].rotated) = "reset"
      BY <2>2, <2>3 DEF Committed
    <2>5. QED
      BY <2>3, <2>4 DEF CheckAuthenticate
  <1>2. QED
    BY <1>1, ServiceInvariantHolds, PTL DEF ServiceSpec, NoReplay, ReplayStep

(***************************************************************************)
(* Refinement.                                                             *)
(***************************************************************************)
Phase == [d \in Devices |-> status[d]]

LEMMA MoveRefines ==
  ASSUME ServiceInvariant, [ServiceNext]_vars
  PROVE  Lifecycle!LifecycleNext \/ UNCHANGED <<Phase, pin>>
  <1>1. TypeOK /\ StoreInvariant /\ Slots /\ DeviceMove
    BY StepIsMove
  <1>2. CASE Quiet
    BY <1>2 DEF Quiet, Phase
  <1>3. ASSUME NEW d \in Devices, Activated(d)
        PROVE  Lifecycle!LifecycleNext \/ UNCHANGED <<Phase, pin>>
    <2>1. CASE status[d] = "enabled"
      BY <1>3, <2>1 DEF Activated, Phase
    <2>2. CASE status[d] = "pending"
      <3>1. Phase' = [Phase EXCEPT ![d] = "enabled"] /\ Phase[d] = "pending" /\ pin' = pin
        BY <1>3, <2>2 DEF Activated, Phase
      <3>2. QED
        BY <3>1 DEF Lifecycle!LifecycleNext, Lifecycle!Activate, Phase
    <2>3. QED
      BY <1>3, <2>1, <2>2 DEF Activated
  <1>4. ASSUME NEW d \in Devices, Removed(d)
        PROVE  Lifecycle!LifecycleNext \/ UNCHANGED <<Phase, pin>>
    <2>1. CASE status[d] = "disabled"
      BY <1>4, <2>1 DEF Removed, Phase
    <2>2. CASE status[d] # "disabled"
      <3>1. /\ Phase' = [Phase EXCEPT ![d] = "disabled"] /\ pin' = pin
            /\ Phase[d] \in {"pending", "enabled"}
        BY <1>1, <1>4, <2>2 DEF Removed, Phase, TypeOK, Ids
      <3>2. QED
        BY <3>1 DEF Lifecycle!LifecycleNext, Lifecycle!Remove, Phase
    <2>3. QED
      BY <2>1, <2>2
  <1>5. ASSUME NEW r \in Requests, Committed(r)
        PROVE  Lifecycle!LifecycleNext
    <2>1. PICK d \in Devices, c \in Certs \cup {None} : d = req[r].id /\ c = req[r].cert
      BY <1>1, <1>5 DEF Slots, Slot, Hashes, Routed, DevicePcs, Committed, At
    <2>2. Phase' = [Phase EXCEPT ![d] = "pending"] /\ pin' = [pin EXCEPT ![d] = c]
      BY <1>5, <2>1 DEF Committed, Phase
    <2>3. /\ CheckAuthenticate(d, req[r].expected, c, req[r].rotated) = "reset"
          /\ CertAvailable(d, c, req[r].reuse)
      BY <1>5, <2>1 DEF Committed
    <2>4. c = None => Phase[d] # "disabled"
      BY <2>1, <2>3 DEF CheckAuthenticate, Phase
    <2>5. ASSUME c # None, NEW o \in Devices PROVE pin[o] # c
      <3>1. CASE o = d
        <4>1. status[d] = "absent" => pin[d] = None
          BY <2>1 DEF ServiceInvariant, Pinned
        <4>2. QED
          BY <2>3, <2>5, <3>1, <4>1 DEF CheckAuthenticate
      <3>2. CASE o # d
        <4>1. certs[c] \in {None, d}
          BY <2>3, <2>5 DEF CertAvailable
        <4>2. pin[o] = c => certs[c] = o
          BY <1>1, <2>1, <2>5 DEF StoreInvariant, IdentityIndex
        <4>3. QED
          BY <3>2, <4>1, <4>2, NoneAssumption DEF NoneAssumption
      <3>3. QED
        BY <3>1, <3>2
    <2>6. Lifecycle!Authenticate(d, c)
      <3>1. c # None => \A o \in Devices : pin[o] # c
        BY <2>5
      <3>2. QED
        BY <2>2, <2>4, <3>1 DEF Lifecycle!Authenticate, Phase
    <2>7. QED
      BY <2>6 DEF Lifecycle!LifecycleNext
  <1>6. QED
    BY <1>1, <1>2, <1>3, <1>4, <1>5 DEF DeviceMove

\* The handlers implement the abstract lifecycle for every number of devices,
\* user channels, certificates and overlapping requests, in every pinning mode.
THEOREM ImplementsLifecycleHolds == ServiceSpec => ImplementsLifecycle
  <1>1. ServiceInit => Lifecycle!LifecycleInit
    BY DEF ServiceInit, Init, Lifecycle!LifecycleInit, Ids
  <1>2. ServiceInvariant /\ [ServiceNext]_vars
          => [Lifecycle!LifecycleNext]_(Lifecycle!lifecycle)
    BY MoveRefines DEF Lifecycle!lifecycle, Phase
  <1>3. QED
    BY <1>1, <1>2, ServiceInvariantHolds, PTL
    DEF ServiceSpec, ImplementsLifecycle, Lifecycle!LifecycleSpec


(***************************************************************************)
(* Commands.  What a device holds, and what a handler carries, was handed  *)
(* out: it is on its queue and past Pending.                               *)
(***************************************************************************)
Handed(id, uuid) ==
    \E i \in DOMAIN queue[id] : queue[id][i].uuid = uuid /\ queue[id][i].state # "Pending"

Carrying(q) ==
    \/ q.pc = "verdict"
    \/ q.pc \in {"device", "child", "pin", "result"} /\ q.result # "Idle"

UniqueQueues ==
    UniqueUUID => \A id \in Ids : \A i, j \in DOMAIN queue[id] :
                     queue[id][i].uuid = queue[id][j].uuid => i = j

HandedOut ==
    /\ UniqueQueues
    /\ \A id \in Ids : inbox[id] # None => Handed(id, inbox[id])
    /\ \A r \in Requests : Carrying(req[r]) => Handed(req[r].id, req[r].uuid)

LEMMA HandedStays ==
  ASSUME TypeOK, [Next]_store, NEW id \in Ids, NEW uuid, Handed(id, uuid)
  PROVE  Handed(id, uuid)'
  <1>1. PICK i \in DOMAIN queue[id] : queue[id][i].uuid = uuid /\ queue[id][i].state # "Pending"
    BY DEF Handed
  <1>2. CASE UNCHANGED store
    BY <1>2 DEF Handed, store
  <1>3. CASE Settles
    <2>1. Advances(queue[id], queue'[id])
      BY <1>3 DEF Settles
    <2>2. /\ i \in DOMAIN queue'[id] /\ queue'[id][i].uuid = uuid
          /\ queue'[id][i].state # "Pending"
      BY <1>1, <2>1 DEF Advances
    <2>3. QED
      BY <2>2 DEF Handed
  <1>4. ASSUME NEW ids \in SUBSET Ids, NEW x \in UUIDs, NEW key \in Keys \cup {None},
               Enqueue(ids, x, key)
        PROVE  Handed(id, uuid)'
    <2>1. queue'[id] = queue[id] \/ queue'[id] = Append(queue[id], Fresh(x, key))
      BY <1>4, EnqueueQueues
    <2>2. queue[id] \in Seq(Entry)
      BY DEF TypeOK
    <2>3. i \in DOMAIN queue'[id] /\ queue'[id][i] = queue[id][i]
      <3>1. PICK e : e = Fresh(x, key)
        OBVIOUS
      <3>2. i \in DOMAIN Append(queue[id], e) /\ Append(queue[id], e)[i] = queue[id][i]
        BY SMT, <2>2
      <3>3. QED
        BY <2>1, <3>1, <3>2
    <2>4. QED
      BY <1>1, <2>3 DEF Handed
  <1>5. QED
    BY <1>2, <1>3, <1>4, QueueMoves

LEMMA UniqueStays ==
  ASSUME TypeOK, [Next]_store, UniqueQueues PROVE UniqueQueues'
  <1> SUFFICES ASSUME UniqueUUID, NEW id \in Ids, NEW i \in DOMAIN queue'[id],
                      NEW j \in DOMAIN queue'[id], queue'[id][i].uuid = queue'[id][j].uuid
               PROVE  i = j
    BY DEF UniqueQueues
  <1>1. \A k, l \in DOMAIN queue[id] : queue[id][k].uuid = queue[id][l].uuid => k = l
    BY DEF UniqueQueues
  <1>2. CASE UNCHANGED store
    BY <1>1, <1>2 DEF store
  <1>3. CASE Settles
    <2>1. Advances(queue[id], queue'[id])
      BY <1>3 DEF Settles
    <2>2. QED
      BY <1>1, <2>1 DEF Advances
  <1>4. ASSUME NEW ids \in SUBSET Ids, NEW x \in UUIDs, NEW key \in Keys \cup {None},
               Enqueue(ids, x, key)
        PROVE  i = j
    <2>1. CASE queue'[id] = queue[id]
      BY <1>1, <2>1
    <2>2. CASE id \in ids /\ Accepts(id, key) /\ queue'[id] = Append(queue[id], Fresh(x, key))
      <3>1. ~HasUUID(id, x)
        BY <1>4, <2>2 DEF Enqueue
      <3>2. \A k \in DOMAIN queue[id] : queue[id][k].uuid # x
        BY <3>1 DEF HasUUID
      <3>3. queue[id] \in Seq(Entry) /\ Fresh(x, key).uuid = x
        BY DEF TypeOK, Fresh
      <3>4. /\ \A k \in DOMAIN queue[id] : queue'[id][k] = queue[id][k]
            /\ queue'[id][Len(queue[id]) + 1] = Fresh(x, key)
            /\ DOMAIN queue'[id] = DOMAIN queue[id] \cup {Len(queue[id]) + 1}
        BY SMT, <2>2, <3>3
      <3>5. QED
        BY <1>1, <3>2, <3>3, <3>4
    <2>3. QED
      BY <1>4, <2>1, <2>2 DEF Enqueue, Fresh
  <1>5. QED
    BY <1>2, <1>3, <1>4, QueueMoves

\* No step but Receive and ConnectNext gives a handler a command to carry.
CarriesOn ==
    \A x \in Requests : Carrying(req'[x]) =>
       Carrying(req[x]) /\ req'[x].id = req[x].id /\ req'[x].uuid = req[x].uuid

LEMMA DoneCarries ==
  ASSUME Slots, NEW r \in Requests, Done(r) PROVE CarriesOn
  BY DEF CarriesOn, Carrying, Done, Idle, Message, Slots

LEMMA GotoCarries ==
  ASSUME Slots, NEW r \in Requests, NEW pc, Goto(r, pc), pc \notin {"verdict", "device"},
         pc \in {"child", "pin", "result"} => req[r].pc \in {"device", "child", "pin"}
  PROVE  CarriesOn
  <1>1. req[r] \in Slot /\ req \in [Requests -> Slot]
    BY DEF Slots
  <1>2. /\ req'[r].pc = pc /\ req'[r].id = req[r].id /\ req'[r].uuid = req[r].uuid
        /\ req'[r].result = req[r].result
        /\ \A x \in Requests : x # r => req'[x] = req[x]
    BY <1>1 DEF Goto, Slot
  <1>3. QED
    BY <1>2 DEF CarriesOn, Carrying

LEMMA HandlersCarry ==
  ASSUME ServiceTypeOK, Slots, NEW r \in Requests, Handle(r), ~ConnectNext(r)
  PROVE  CarriesOn
  <1>1. CASE Done(r)
    BY <1>1, DoneCarries
  <1>2. CASE AuthorizeDevice(r) \/ AuthorizeChild(r) \/ AuthorizePin(r)
    <2>1. req[r].pc \in {"device", "child", "pin"}
      BY <1>2 DEF AuthorizeDevice, AuthorizeChild, AuthorizePin, At
    <2>2. Authorized(req[r]) \notin {"verdict", "device"}
      BY DEF Authorized
    <2>3. QED
      BY <1>1, <1>2, <2>1, <2>2, GotoCarries
      DEF AuthorizeDevice, AuthorizeChild, AuthorizePin, Return
  <1>3. CASE (AuthenticateRead(r) \/ AuthenticateHistory(r)) /\ ~Done(r)
    <2>1. req[r] \in Slot /\ req \in [Requests -> Slot]
      BY DEF Slots
    <2>2. PICK q : /\ req' = [req EXCEPT ![r] = q] /\ q.pc \in {"history", "commit"}
      <3>1. CASE AuthenticateRead(r)
        <4> DEFINE q == req[r]
                   rotated == /\ pin[q.id] # None /\ q.cert # None /\ pin[q.id] # q.cert
                              /\ Pinning # "off"
                   pc == IF q.cert # None /\ Pinning # "off" THEN "history" ELSE "commit"
                   n == [q EXCEPT !.existed = status[q.id] # "absent",
                                  !.expected = pin[q.id], !.rotated = rotated, !.pc = pc]
        <4>1. req' = [req EXCEPT ![r] = n]
          BY <1>3, <3>1 DEF AuthenticateRead, Return, Slots
        <4>2. n.pc = pc /\ pc \in {"history", "commit"}
          BY <2>1 DEF Slot
        <4> HIDE DEF n, pc
        <4>3. QED
          BY <4>1, <4>2
      <3>2. CASE AuthenticateHistory(r)
        <4> DEFINE n == [req[r] EXCEPT !.reuse = OtherHolders(req[r].id, req[r].cert) # {},
                                       !.pc = "commit"]
        <4>1. req' = [req EXCEPT ![r] = n]
          BY <1>3, <3>2 DEF AuthenticateHistory, Return, Slots
        <4>2. n.pc = "commit"
          BY <2>1 DEF Slot
        <4> HIDE DEF n
        <4>3. QED
          BY <4>1, <4>2
      <3>3. QED
        BY <1>3, <3>1, <3>2
    <2>3. QED
      BY <2>1, <2>2 DEF CarriesOn, Carrying
  <1>4. CASE TokenUserAuth(r) \/ TokenRow(r) \/ TokenUpsert(r)
    BY <1>1, <1>4, GotoCarries DEF TokenUserAuth, TokenRow, TokenUpsert, Return
  <1>5. CASE UserOutstanding(r) \/ ConnectResult(r) \/ ConnectDiscard(r)
    BY <1>1, <1>5, GotoCarries DEF UserOutstanding, ConnectResult, ConnectDiscard, Return
  <1>6. CASE \/ AuthenticateCommit(r) \/ TokenStore(r) \/ CheckOut(r) \/ SetBootstrapToken(r)
             \/ UserChallenge(r) \/ UserGrant(r) \/ UserReject(r) \/ ConnectReply(r)
    BY <1>1, <1>6
    DEF AuthenticateCommit, TokenStore, CheckOut, SetBootstrapToken, UserChallenge, UserGrant,
        UserReject, ConnectReply, Return
  <1>7. QED
    BY <1>1, <1>2, <1>3, <1>4, <1>5, <1>6 DEF Handle


LEMMA HandlersKeepInbox ==
  ASSUME NEW r \in Requests, Handle(r), ~ConnectNext(r), ~ConnectReply(r)
  PROVE  inbox' = inbox
  <1>1. CASE \/ AuthorizeDevice(r) \/ AuthorizeChild(r) \/ AuthorizePin(r)
             \/ AuthenticateRead(r) \/ AuthenticateHistory(r) \/ AuthenticateCommit(r)
    BY <1>1
    DEF AuthorizeDevice, AuthorizeChild, AuthorizePin, AuthenticateRead,
        AuthenticateHistory, AuthenticateCommit, Return
  <1>2. CASE \/ TokenUserAuth(r) \/ TokenRow(r) \/ TokenUpsert(r) \/ TokenStore(r)
             \/ CheckOut(r) \/ SetBootstrapToken(r)
    BY <1>2
    DEF TokenUserAuth, TokenRow, TokenUpsert, TokenStore, CheckOut, SetBootstrapToken, Return
  <1>3. CASE \/ UserChallenge(r) \/ UserOutstanding(r) \/ UserGrant(r) \/ UserReject(r)
             \/ ConnectResult(r) \/ ConnectDiscard(r)
    BY <1>3
    DEF UserChallenge, UserOutstanding, UserGrant, UserReject, ConnectResult, ConnectDiscard,
        Return
  <1>4. QED
    BY <1>1, <1>2, <1>3 DEF Handle

LEMMA HandedOutStep ==
  ASSUME ServiceInvariant, HandedOut, [ServiceNext]_vars PROVE HandedOut'
  <1>1. /\ TypeOK /\ ServiceTypeOK /\ Slots /\ [Next]_store
        /\ \A r \in Requests : Routed(req[r])
    BY InvariantParts, UsesStore DEF ServiceInvariant, StoreInvariant
  <1>2. UniqueQueues'
    BY <1>1, UniqueStays DEF HandedOut
  <1>3. \A id \in Ids : \A uuid : Handed(id, uuid) => Handed(id, uuid)'
    BY <1>1, HandedStays
  <1>4. \A r \in Requests : Carrying(req[r]) => req[r].id \in Ids
    BY <1>1 DEF Carrying, Routed
  <1>5. ASSUME NEW id \in Ids, inbox'[id] = inbox[id], inbox[id] # None
        PROVE  Handed(id, inbox[id])'
    <2>1. PICK x : x = inbox[id]
      OBVIOUS
    <2>2. Handed(id, x)'
      BY <1>3, <1>5, <2>1 DEF HandedOut
    <2>3. QED
      BY <1>5, <2>1, <2>2 DEF Handed
  <1>6. ASSUME NEW r \in Requests, Carrying(req[r]), req'[r].id = req[r].id,
               req'[r].uuid = req[r].uuid
        PROVE  Handed(req[r].id, req[r].uuid)'
    <2>1. PICK id \in Ids, x \in {req[r].uuid} : id = req[r].id
      BY <1>4, <1>6
    <2>2. Handed(id, x)'
      BY <1>3, <1>6, <2>1 DEF HandedOut
    <2>3. QED
      BY <1>6, <2>1, <2>2 DEF Handed
  <1>7. ASSUME CarriesOn, inbox' = inbox PROVE HandedOut'
    <2>1. \A id \in Ids : inbox'[id] # None => Handed(id, inbox[id])'
      BY <1>5, <1>7
    <2>2. \A r \in Requests : Carrying(req'[r]) => Handed(req[r].id, req[r].uuid)'
      BY <1>6, <1>7 DEF CarriesOn
    <2>3. QED
      BY <1>2, <2>1, <2>2 DEF HandedOut, Carrying
  <1>8. ASSUME NEW r \in Requests, NEW kind \in Kinds, NEW id \in Ids,
               NEW cert \in Hashes, NEW result \in Statuses,
               Receive(r, kind, id, cert, result)
        PROVE  HandedOut'
    <2>1. /\ inbox' = inbox /\ (result # "Idle" => inbox[id] # None)
          /\ \A x \in Requests : x # r => req'[x] = req[x]
      BY <1>1, <1>8 DEF Receive, Slots
    <2>2. /\ req'[r].id = id /\ req'[r].result = result
          /\ result # "Idle" => req'[r].uuid = inbox[id]
          /\ req'[r].pc \in {"read", "device"}
      BY <1>1, <1>8 DEF Receive, Slots, Message
    <2>3. \A x \in Ids : inbox'[x] # None => Handed(x, inbox[x])'
      BY <1>5, <2>1
    <2>4. ASSUME NEW x \in Requests, Carrying(req'[x]) PROVE Handed(req[x].id, req[x].uuid)'
      <3>1. CASE x = r
        <4>1. result # "Idle" /\ inbox[id] # None
          BY <2>1, <2>2, <2>4, <3>1 DEF Carrying
        <4>2. Handed(id, inbox[id])'
          BY <2>1, <2>3, <4>1
        <4>3. QED
          BY <2>1, <2>2, <3>1, <4>1, <4>2 DEF Handed
      <3>2. CASE x # r
        BY <1>6, <2>1, <2>4, <3>2
      <3>3. QED
        BY <3>1, <3>2
    <2>5. QED
      BY <1>2, <2>3, <2>4 DEF HandedOut, Carrying
  <1>9. ASSUME NEW r \in Requests, ConnectNext(r) PROVE HandedOut'
    <2>1. PICK id \in Ids : id = req[r].id
      BY <1>1, <1>9 DEF ConnectNext, At, Routed
    <2>2. CASE Done(r)
      <3>1. \A x \in Ids : inbox'[x] # None => inbox'[x] = inbox[x]
        BY <1>1, <1>9, <2>1 DEF ConnectNext, Return, ServiceTypeOK
      <3>2. \A x \in Ids : inbox'[x] # None => Handed(x, inbox[x])'
        BY <1>5, <3>1
      <3>3. \A x \in Requests : Carrying(req'[x]) => Handed(req[x].id, req[x].uuid)'
        BY <1>1, <1>6, <2>2, DoneCarries DEF CarriesOn
      <3>4. QED
        BY <1>2, <3>2, <3>3 DEF HandedOut, Carrying
    <2>3. ASSUME NEW i \in DOMAIN queue[id], NEW skip, NextCommand(id, skip, i), inbox' = inbox,
                 req' = [req EXCEPT ![r].pc = "verdict", ![r].uuid = queue[id][i].uuid]
          PROVE  HandedOut'
      <3>1. PICK u : u = queue[id][i].uuid
        OBVIOUS
      <3>2. /\ req'[r].id = id /\ req'[r].uuid = u
            /\ \A x \in Requests : x # r => req'[x] = req[x]
        BY <1>1, <2>1, <2>3, <3>1 DEF Slots, Slot
      <3>3. i \in DOMAIN queue'[id] /\ queue'[id][i].uuid = u /\ queue'[id][i].state = "Sent"
        <4>1. queue \in [Ids -> Seq(Entry)] /\ queue[id] \in Seq(Entry) /\ queue[id][i] \in Entry
          BY SMT, <2>3 DEF TypeOK, ServiceInvariant, StoreInvariant
        <4>2. queue'[id] = [queue[id] EXCEPT ![i] = [queue[id][i] EXCEPT !.state = "Sent"]]
          BY <2>3, <4>1 DEF NextCommand
        <4>3. queue'[id][i] = [queue[id][i] EXCEPT !.state = "Sent"] /\ i \in DOMAIN queue'[id]
          BY <4>1, <4>2
        <4>4. QED
          BY <3>1, <4>1, <4>3 DEF Entry
      <3>4. ASSUME NEW x \in Requests, Carrying(req'[x]) PROVE Handed(req[x].id, req[x].uuid)'
        <4>1. CASE x = r
          BY <3>2, <3>3, <4>1 DEF Handed
        <4>2. CASE x # r
          BY <1>6, <3>2, <3>4, <4>2
        <4>3. QED
          BY <4>1, <4>2
      <3>5. \A x \in Ids : inbox'[x] # None => Handed(x, inbox[x])'
        BY <1>5, <2>3
      <3>6. QED
        BY <1>2, <3>4, <3>5 DEF HandedOut, Carrying
    <2>4. QED
      BY <1>9, <2>1, <2>2, <2>3 DEF ConnectNext, Return
  <1>10. ASSUME NEW r \in Requests, ConnectReply(r) PROVE HandedOut'
    <2>1. PICK id \in Ids, u \in {req[r].uuid} : id = req[r].id /\ Handed(id, u)
      BY <1>1, <1>10 DEF ConnectReply, At, Routed, HandedOut, Carrying
    <2>2. Handed(id, u)'
      BY <1>3, <2>1
    <2>3. inbox' = inbox \/ inbox' = [inbox EXCEPT ![id] = u]
      BY <1>10, <2>1 DEF ConnectReply
    <2>4. ASSUME NEW x \in Ids, inbox'[x] # None PROVE Handed(x, inbox[x])'
      <3>1. CASE inbox'[x] = inbox[x]
        BY <1>5, <2>4, <3>1
      <3>2. CASE x = id /\ inbox'[x] = u
        BY <2>2, <3>2 DEF Handed
      <3>3. QED
        BY <1>1, <2>3, <3>1, <3>2 DEF ServiceTypeOK
    <2>5. \A x \in Requests : Carrying(req'[x]) => Handed(req[x].id, req[x].uuid)'
      BY <1>1, <1>6, <1>10, DoneCarries DEF CarriesOn, ConnectReply
    <2>6. QED
      BY <1>2, <2>4, <2>5 DEF HandedOut, Carrying
  <1>11. CASE Admin \/ UNCHANGED vars
    BY <1>7, <1>11 DEF Admin, vars, service, CarriesOn
  <1>12. QED
    BY <1>1, <1>7, <1>8, <1>9, <1>10, <1>11, HandlersCarry, HandlersKeepInbox DEF ServiceNext

\* Only a result takes a command from Pending to an answered state.
Unanswered ==
    \A id \in Ids : \A i \in DOMAIN queue[id] :
       queue[id][i].state = "Pending" => queue'[id][i].state \in {"Pending", "Sent", "Cleared"}

LEMMA QueuesUnanswered ==
  ASSUME TypeOK,
         \/ UNCHANGED queue
         \/ \E ids : queue' = ClearPending(ids)
         \/ \E ids \in SUBSET Ids, uuid \in UUIDs, key \in Keys \cup {None} :
              Enqueue(ids, uuid, key)
         \/ \E id \in Ids, skip \in BOOLEAN : \E i \in DOMAIN queue[id] : NextCommand(id, skip, i)
         \/ \E id \in Ids : \E picked \in SUBSET DOMAIN queue[id] : Clear(id, picked)
         \/ \E id \in Ids : \E i \in DOMAIN queue[id] : BackoffElapses(id, i)
  PROVE  Unanswered
  <1>1. queue \in [Ids -> Seq(Entry)]
    BY DEF TypeOK
  <1>2. \A id \in Ids : \A i \in DOMAIN queue[id] : queue[id][i] \in Entry
    BY SMT, <1>1
  <1>3. CASE UNCHANGED queue
    BY <1>3 DEF Unanswered
  <1>4. ASSUME NEW ids, queue' = ClearPending(ids) PROVE Unanswered
    <2>1. \A id \in Ids : queue'[id] = Cleared(queue[id]) \/ queue'[id] = queue[id]
      BY <1>4 DEF ClearPending
    <2>2. \A id \in Ids : \A i \in DOMAIN queue[id] :
             queue[id][i].state = "Pending" => Cleared(queue[id])[i].state = "Cleared"
      BY <1>2 DEF Cleared, Entry, Open
    <2>3. QED
      BY <2>1, <2>2 DEF Unanswered
  <1>5. ASSUME NEW ids \in SUBSET Ids, NEW uuid \in UUIDs, NEW key \in Keys \cup {None},
               Enqueue(ids, uuid, key)
        PROVE  Unanswered
    <2>1. PICK e : e = Fresh(uuid, key)
      OBVIOUS
    <2>2. \A id \in Ids : queue'[id] = queue[id] \/ queue'[id] = Append(queue[id], e)
      BY <1>5, <2>1, EnqueueQueues
    <2>3. ASSUME NEW id \in Ids, NEW i \in DOMAIN queue[id]
          PROVE  queue'[id][i] = queue[id][i]
      <3>1. queue[id] \in Seq(Entry)
        BY <1>1
      <3>2. Append(queue[id], e)[i] = queue[id][i]
        BY SMT, <2>3, <3>1
      <3>3. QED
        BY <2>2, <3>2
    <2>4. QED
      BY <2>3 DEF Unanswered
  <1>6. ASSUME NEW id \in Ids, NEW skip \in BOOLEAN, NEW i \in DOMAIN queue[id],
               NextCommand(id, skip, i)
        PROVE  Unanswered
    <2>1. PICK e : e = [queue[id][i] EXCEPT !.state = "Sent"]
      OBVIOUS
    <2>2. e.state = "Sent"
      BY <1>2, <2>1 DEF Entry
    <2>3. queue' = [queue EXCEPT ![id] = [queue[id] EXCEPT ![i] = e]]
      BY <1>1, <1>6, <2>1 DEF NextCommand
    <2>4. QED
      BY <1>1, <2>2, <2>3 DEF Unanswered
  <1>7. ASSUME NEW id \in Ids, NEW picked \in SUBSET DOMAIN queue[id], Clear(id, picked)
        PROVE  Unanswered
    <2>1. \A x \in Ids : x # id => queue'[x] = queue[x]
      BY <1>1, <1>7 DEF Clear
    <2>2. queue'[id] = [i \in DOMAIN queue[id] |->
                          IF i \in picked THEN [queue[id][i] EXCEPT !.state = "Cleared"]
                          ELSE queue[id][i]]
      BY <1>1, <1>7 DEF Clear
    <2>3. \A i \in DOMAIN queue[id] :
            queue'[id][i].state = "Cleared" \/ queue'[id][i] = queue[id][i]
      BY <1>2, <2>2 DEF Entry
    <2>4. QED
      BY <2>1, <2>3 DEF Unanswered
  <1>8. ASSUME NEW id \in Ids, NEW i \in DOMAIN queue[id], BackoffElapses(id, i)
        PROVE  Unanswered
    <2>1. PICK e : e = [queue[id][i] EXCEPT !.wait = FALSE]
      OBVIOUS
    <2>2. queue' = [queue EXCEPT ![id] = [queue[id] EXCEPT ![i] = e]]
      BY <1>1, <1>8, <2>1 DEF BackoffElapses
    <2>3. queue[id][i].state = "NotNow"
      BY <1>8 DEF BackoffElapses
    <2>4. QED
      BY <1>1, <2>2, <2>3 DEF Unanswered
  <1>9. QED
    BY <1>3, <1>4, <1>5, <1>6, <1>7, <1>8

LEMMA AnswersStep ==
  ASSUME ServiceInvariant, HandedOut, UniqueUUID, [ServiceNext]_vars PROVE Unanswered
  <1>1. TypeOK /\ ServiceTypeOK /\ Slots /\ \A r \in Requests : Routed(req[r])
    BY InvariantParts DEF ServiceInvariant, StoreInvariant
  <1>2. CASE UNCHANGED queue
    BY <1>1, <1>2, QueuesUnanswered
  <1>3. ASSUME NEW r \in Requests, ConnectResult(r) PROVE Unanswered
    <2>1. PICK id \in Ids, u \in UUIDs : id = req[r].id /\ u = req[r].uuid /\ Handed(id, u)
      <3>1. req[r].pc = "result"
        BY <1>3 DEF ConnectResult, At
      <3>2. Routed(req[r]) /\ Carrying(req[r])
        BY <1>1, <3>1 DEF Routed, Carrying
      <3>3. QED
        BY <3>1, <3>2 DEF Routed, HandedOut
    <2>2. CASE StoreResult(id, u, req[r].result)
      <3>1. PICK i \in DOMAIN queue[id] :
              /\ Answered(id, u, i)
              /\ queue' = [queue EXCEPT ![id][i] = Answer(@, req[r].result)]
        BY <2>2 DEF StoreResult
      <3>2. queue[id][i].state # "Pending"
        <4>1. PICK j \in DOMAIN queue[id] : queue[id][j].uuid = u /\ queue[id][j].state # "Pending"
          BY <2>1 DEF Handed
        <4>2. queue[id][i].uuid = u
          BY <3>1 DEF Answered
        <4>3. i = j
          BY <4>1, <4>2 DEF HandedOut, UniqueQueues
        <4>4. QED
          BY <4>1, <4>3
      <3>3. \A x \in Ids : \A j \in DOMAIN queue[x] :
              queue'[x][j] = queue[x][j] \/ (x = id /\ j = i)
        <4>1. PICK e : e = Answer(queue[id][i], req[r].result)
          OBVIOUS
        <4>2. queue \in [Ids -> Seq(Entry)]
          BY <1>1 DEF TypeOK
        <4>3. queue' = [queue EXCEPT ![id] = [queue[id] EXCEPT ![i] = e]]
          BY <3>1, <4>1, <4>2
        <4>4. QED
          BY <4>2, <4>3
      <3>4. QED
        BY <3>2, <3>3 DEF Unanswered
    <2>3. QED
      BY <1>2, <1>3, <2>1, <2>2 DEF ConnectResult, Return, store
  <1>4. ASSUME NEW r \in Requests, ConnectNext(r) \/ ConnectReply(r) \/ ConnectDiscard(r)
        PROVE  Unanswered
    <2>1. req[r].id \in Ids
      BY <1>1, <1>4 DEF ConnectNext, ConnectReply, ConnectDiscard, At, Routed
    <2>2. CASE ConnectNext(r) /\ ~UNCHANGED queue
      <3>1. PICK i \in DOMAIN queue[req[r].id] :
              NextCommand(req[r].id, req[r].result = "NotNow", i)
        BY <2>2 DEF ConnectNext, Return, store
      <3>2. QED
        BY <1>1, <2>1, <3>1, QueuesUnanswered
    <2>3. CASE ConnectDiscard(r) /\ ~UNCHANGED queue
      <3>1. PICK open \in SUBSET DOMAIN queue[req[r].id] : Clear(req[r].id, open)
        BY <2>3 DEF ConnectDiscard, store
      <3>2. QED
        BY <1>1, <2>1, <3>1, QueuesUnanswered
    <2>4. QED
      BY <1>2, <1>4, <2>2, <2>3 DEF ConnectReply, store
  <1>5. ASSUME NEW r \in Requests, AuthenticateCommit(r) \/ TokenUpsert(r) \/ CheckOut(r)
        PROVE  Unanswered
    <2>1. UNCHANGED queue \/ \E ids : queue' = ClearPending(ids)
      BY <1>5
      DEF AuthenticateCommit, TokenUpsert, CheckOut, AuthenticateEnrollment, ResetDevice,
          UpsertAuthenticateUser, Disable, Return, store
    <2>2. QED
      BY <1>1, <2>1, QueuesUnanswered
  <1>6. ASSUME NEW r \in Requests,
               \/ AuthorizeDevice(r) \/ AuthorizeChild(r) \/ AuthorizePin(r)
               \/ AuthenticateRead(r) \/ AuthenticateHistory(r)
               \/ TokenUserAuth(r) \/ TokenRow(r) \/ TokenStore(r) \/ SetBootstrapToken(r)
               \/ UserChallenge(r) \/ UserOutstanding(r) \/ UserGrant(r) \/ UserReject(r)
        PROVE  Unanswered
    <2>1. CASE \/ AuthorizeDevice(r) \/ AuthorizeChild(r) \/ AuthorizePin(r)
               \/ AuthenticateRead(r) \/ AuthenticateHistory(r)
      BY <1>2, <2>1
      DEF AuthorizeDevice, AuthorizeChild, AuthorizePin, AuthenticateRead,
          AuthenticateHistory, Return, store
    <2>2. CASE TokenUserAuth(r) \/ TokenRow(r) \/ TokenStore(r) \/ SetBootstrapToken(r)
      BY <1>2, <2>2
      DEF TokenUserAuth, TokenRow, TokenStore, SetBootstrapToken, StoreTokenUpdate,
          StoreBootstrapToken, Return, store
    <2>3. CASE UserChallenge(r) \/ UserOutstanding(r) \/ UserGrant(r) \/ UserReject(r)
      BY <1>2, <2>3
      DEF UserChallenge, UserOutstanding, UserGrant, UserReject, StoreUserAuthChallenge,
          StoreUserAuthToken, ClearUserAuth, Return, store
    <2>4. QED
      BY <1>6, <2>1, <2>2, <2>3
  <1>7. CASE Admin
    <2>1. \A id \in Ids : Disable(id) => \E ids : queue' = ClearPending(ids)
      BY DEF Disable
    <2>2. QED
      BY <1>1, <1>7, <2>1, QueuesUnanswered DEF Admin
  <1>8. ASSUME NEW r \in Requests, NEW kind \in Kinds, NEW id \in Ids,
               NEW cert \in Hashes, NEW result \in Statuses,
               Receive(r, kind, id, cert, result)
        PROVE  Unanswered
    BY <1>2, <1>8 DEF Receive, store
  <1>9. CASE UNCHANGED vars
    BY <1>2, <1>9 DEF vars, store
  <1>10. QED
    BY <1>3, <1>4, <1>5, <1>6, <1>7, <1>8, <1>9 DEF ServiceNext, Handle

\* With unique command UUIDs no answer, late, repeated or crossing another
\* handler, settles a command that was not handed out; any number of handlers.
THEOREM AnswersOnlySentHolds == ServiceSpec => AnswersOnlySent
  <1>1. ServiceInit => HandedOut
    BY SMT DEF ServiceInit, Init, HandedOut, UniqueQueues, Carrying, Idle, Message
  <1>2. ServiceInvariant /\ HandedOut /\ [ServiceNext]_vars => HandedOut'
    BY HandedOutStep
  <1>3. ServiceInvariant /\ HandedOut /\ [ServiceNext]_vars
          => [UniqueUUID => Unanswered]_vars
    BY AnswersStep
  <1>4. AnswersOnlySent <=> [][UniqueUUID => Unanswered]_vars
    BY DEF AnswersOnlySent, Unanswered
  <1>5. QED
    BY <1>1, <1>2, <1>3, <1>4, ServiceInvariantHolds, PTL DEF ServiceSpec


(***************************************************************************)
(* User channels, while the messages of one channel, and an Authenticate   *)
(* of its device, are handled one after the other.  Requests that overlap  *)
(* in this way can break the properties below; the others may overlap.     *)
(***************************************************************************)
Apart(x, y) ==
    /\ req[x].id # req[y].id
    /\ req[x].pc \in DevicePcs => Device(req[y].id) # req[x].id

ChannelsSerial ==
    \A x, y \in Requests : x # y /\ ~At(x, "idle") /\ ~At(y, "idle") => Apart(x, y)

TokenPcs == {"userauth", "row", "upsert", "token"}

\* What tokenUpdate checked still holds at its later store calls.
Checked(q) ==
    /\ RequireUserAuth /\ q.pc \in TokenPcs \ {"userauth"} /\ q.id \in Users =>
         userAuth[q.id] = "token"
    /\ q.pc = "upsert" => status[q.id] = "absent"
    /\ Pinning = "enforce" /\ q.pc \in TokenPcs => q.cert = pin[Device(q.id)]
StillChecked == \A r \in Requests : Checked(req[r])

\* A step of r leaves what the handlers of other channels have checked alone.
OthersWait(r) == \A x \in Requests : x # r => req'[x] = req[x]
UsersKept(r) ==
    \A u \in Users : u # req[r].id /\ (req[r].pc \in DevicePcs => Parent[u] # req[r].id) =>
      /\ userAuth'[u] = userAuth[u]
      /\ status[u] = "absent" => status'[u] = "absent"
PinsKept(r) ==
    \A d \in Devices : (req[r].pc \in DevicePcs => d # req[r].id) => pin'[d] = pin[d]

LEMMA OthersChecked ==
  ASSUME ServiceInvariant, ChannelsSerial, StillChecked, NEW r \in Requests, ~At(r, "idle"),
         OthersWait(r), UsersKept(r), PinsKept(r), Checked(req[r])'
  PROVE  StillChecked'
  <1> SUFFICES ASSUME NEW x \in Requests, x # r PROVE Checked(req[x])'
    BY DEF StillChecked
  <1>1. req'[x] = req[x] /\ Checked(req[x]) /\ Routed(req[x])
    BY DEF OthersWait, StillChecked, ServiceInvariant
  <1>2. CASE req[x].pc \in TokenPcs
    <2>1. Apart(r, x) /\ req[x].id \in Ids
      BY <1>1, <1>2 DEF ChannelsSerial, At, TokenPcs, Routed
    <2>2. Device(req[x].id) \in Devices
      BY <2>1, IdsAssumption DEF Device, Ids, IdsAssumption
    <2>3. pin'[Device(req[x].id)] = pin[Device(req[x].id)]
      BY <2>1, <2>2 DEF Apart, PinsKept
    <2>4. req[x].id \in Users =>
            /\ userAuth'[req[x].id] = userAuth[req[x].id]
            /\ status[req[x].id] = "absent" => status'[req[x].id] = "absent"
      BY <2>1 DEF Apart, UsersKept, Device
    <2>5. req[x].pc = "upsert" => req[x].id \in Users
      BY <1>1 DEF Routed, UserPcs
    <2>6. QED
      BY <1>1, <2>3, <2>4, <2>5 DEF Checked
  <1>3. CASE req[x].pc \notin TokenPcs
    BY <1>1, <1>3 DEF Checked, TokenPcs
  <1>4. QED
    BY <1>2, <1>3

LEMMA NotChecking ==
  ASSUME NEW r \in Requests, req'[r].pc \notin TokenPcs PROVE Checked(req[r])'
  BY DEF Checked, TokenPcs

\* What a handler that goes on must have found.
Found(q, pc) ==
    /\ RequireUserAuth /\ q.id \in Users /\ pc # "userauth" => userAuth'[q.id] = "token"
    /\ pc = "upsert" => status'[q.id] = "absent"
    /\ Pinning = "enforce" => q.cert = pin'[Device(q.id)]

LEMMA CheckedOn ==
  ASSUME NEW r \in Requests, NEW pc, req'[r].pc = pc, req'[r].id = req[r].id,
         req'[r].cert = req[r].cert, Found(req[r], pc)
  PROVE  Checked(req[r])'
  BY DEF Checked, Found

LEMMA DoneRow ==
  ASSUME Slots, NEW r \in Requests, Done(r) PROVE Checked(req[r])'
  <1>1. req'[r].pc \notin TokenPcs
    BY DEF Done, Idle, Message, Slots, TokenPcs
  <1>2. QED
    BY <1>1, NotChecking

LEMMA GotoRow ==
  ASSUME Slots, NEW r \in Requests, NEW pc, Goto(r, pc)
  PROVE  req'[r].pc = pc /\ req'[r].id = req[r].id /\ req'[r].cert = req[r].cert
  BY DEF Goto, Slots, Slot

LEMMA GotoElsewhere ==
  ASSUME Slots, NEW r \in Requests, NEW pc, pc \notin TokenPcs, Goto(r, pc)
  PROVE  Checked(req[r])'
  BY GotoRow, NotChecking

LEMMA CheckedOwn ==
  ASSUME ServiceInvariant, StillChecked, NEW r \in Requests, Handle(r) PROVE Checked(req[r])'
  <1>1. TypeOK /\ Slots /\ Routed(req[r]) /\ req[r] \in Slot /\ Checked(req[r])
    BY InvariantParts DEF ServiceInvariant, StoreInvariant, Slots, StillChecked
  <1>2. ASSUME AuthorizePin(r) PROVE Checked(req[r])'
    <2>1. PICK pc : pc = Authorized(req[r])
      OBVIOUS
    <2>2. CASE Goto(r, pc) /\ UNCHANGED store /\ PinAllows(req[r].cert, pin[Device(req[r].id)])
      <3>1. req'[r].pc = pc /\ req'[r].id = req[r].id /\ req'[r].cert = req[r].cert
        BY <1>1, <2>2, GotoRow
      <3>2. pc \in TokenPcs =>
              /\ pc # "upsert"
              /\ pc # "userauth" => ~RequireUserAuth \/ req[r].id \notin Users
        BY <2>1 DEF Authorized, TokenPcs
      <3>3. pc \in TokenPcs => Found(req[r], pc)
        BY <2>2, <3>2 DEF Found, PinAllows, store
      <3>4. QED
        BY <3>1, <3>3, NotChecking, CheckedOn
    <2>3. QED
      BY <1>1, <1>2, <2>1, <2>2, DoneRow DEF AuthorizePin, Return
  <1>3. ASSUME TokenUserAuth(r) PROVE Checked(req[r])'
    <2>1. CASE Goto(r, "row") /\ UNCHANGED store /\ userAuth[req[r].id] = "token"
      <3>1. Pinning = "enforce" => req[r].cert = pin[Device(req[r].id)]
        BY <1>1, <1>3 DEF TokenUserAuth, At, Checked, TokenPcs
      <3>2. Found(req[r], "row")
        BY <2>1, <3>1 DEF Found, store
      <3>3. QED
        BY <1>1, <2>1, <3>2, GotoRow, CheckedOn
    <2>2. QED
      BY <1>1, <1>3, <2>1, DoneRow DEF TokenUserAuth, Return
  <1>4. ASSUME TokenRow(r) PROVE Checked(req[r])'
    <2>1. PICK pc : pc = IF status[req[r].id] = "absent" THEN "upsert" ELSE "token"
      OBVIOUS
    <2>2. Goto(r, pc) /\ UNCHANGED store
      BY <1>4, <2>1 DEF TokenRow
    <2>3. /\ RequireUserAuth /\ req[r].id \in Users => userAuth[req[r].id] = "token"
          /\ Pinning = "enforce" => req[r].cert = pin[Device(req[r].id)]
      BY <1>1, <1>4 DEF TokenRow, At, Checked, TokenPcs
    <2>4. Found(req[r], pc)
      BY <2>1, <2>2, <2>3 DEF Found, store
    <2>5. QED
      BY <1>1, <2>2, <2>4, GotoRow, CheckedOn
  <1>5. ASSUME TokenUpsert(r) PROVE Checked(req[r])'
    <2>1. CASE UpsertAuthenticateUser(req[r].id) /\ Goto(r, "token")
      <3>1. /\ RequireUserAuth /\ req[r].id \in Users => userAuth[req[r].id] = "token"
            /\ Pinning = "enforce" => req[r].cert = pin[Device(req[r].id)]
        BY <1>1, <1>5 DEF TokenUpsert, At, Checked, TokenPcs
      <3>2. Found(req[r], "token")
        BY <2>1, <3>1 DEF UpsertAuthenticateUser, Found
      <3>3. QED
        BY <1>1, <2>1, <3>2, GotoRow, CheckedOn
    <2>2. QED
      BY <1>1, <1>5, <2>1, DoneRow DEF TokenUpsert, Return
  <1>6. ASSUME AuthorizeDevice(r) \/ AuthorizeChild(r) PROVE Checked(req[r])'
    <2>1. CASE Goto(r, "child") \/ Goto(r, "pin")
      BY <1>1, <2>1, GotoElsewhere DEF TokenPcs
    <2>2. QED
      BY <1>1, <1>6, <2>1, DoneRow DEF AuthorizeDevice, AuthorizeChild, Return
  <1>7. ASSUME AuthenticateRead(r) \/ AuthenticateHistory(r)
        PROVE  Checked(req[r])'
    <2>1. CASE req'[r].pc \in {"history", "commit"}
      BY <2>1, NotChecking DEF TokenPcs
    <2>2. CASE AuthenticateRead(r) /\ ~Done(r)
      <3> DEFINE q == req[r]
                 rotated == /\ pin[q.id] # None /\ q.cert # None /\ pin[q.id] # q.cert
                            /\ Pinning # "off"
                 pc == IF q.cert # None /\ Pinning # "off" THEN "history" ELSE "commit"
                 n == [q EXCEPT !.existed = status[q.id] # "absent",
                                !.expected = pin[q.id], !.rotated = rotated, !.pc = pc]
      <3>1. req' = [req EXCEPT ![r] = n]
        BY <1>1, <2>2 DEF AuthenticateRead, Return, Slots
      <3>2. n.pc = pc /\ pc \in {"history", "commit"}
        BY <1>1 DEF Slot
      <3> HIDE DEF n, pc
      <3>3. QED
        BY <1>1, <2>1, <3>1, <3>2 DEF Slots
    <2>3. CASE AuthenticateHistory(r) /\ ~Done(r)
      <3> DEFINE n == [req[r] EXCEPT !.reuse = OtherHolders(req[r].id, req[r].cert) # {},
                                     !.pc = "commit"]
      <3>1. req' = [req EXCEPT ![r] = n]
        BY <1>1, <2>3 DEF AuthenticateHistory, Return, Slots
      <3>2. n.pc = "commit"
        BY <1>1 DEF Slot
      <3> HIDE DEF n
      <3>3. QED
        BY <1>1, <2>1, <3>1, <3>2 DEF Slots
    <2>4. QED
      BY <1>1, <1>7, <2>2, <2>3, DoneRow
  <1>8. ASSUME UserOutstanding(r) \/ ConnectResult(r) \/ ConnectDiscard(r)
        PROVE  Checked(req[r])'
    <2>1. CASE Goto(r, "grant") \/ Goto(r, "reject") \/ Goto(r, "next")
      BY <1>1, <2>1, GotoElsewhere DEF TokenPcs
    <2>2. QED
      BY <1>1, <1>8, <2>1, DoneRow
      DEF UserOutstanding, ConnectResult, ConnectDiscard, Return
  <1>9. ASSUME ConnectNext(r) PROVE Checked(req[r])'
    <2>1. ASSUME NEW u, req' = [req EXCEPT ![r].pc = "verdict", ![r].uuid = u]
          PROVE  Checked(req[r])'
      <3>1. req'[r].pc = "verdict"
        BY <1>1, <2>1 DEF Slots, Slot
      <3>2. QED
        BY <3>1, NotChecking DEF TokenPcs
    <2>2. QED
      BY <1>1, <1>9, <2>1, DoneRow DEF ConnectNext, Return
  <1>10. ASSUME \/ AuthenticateCommit(r) \/ TokenStore(r) \/ CheckOut(r) \/ SetBootstrapToken(r)
                \/ UserChallenge(r) \/ UserGrant(r) \/ UserReject(r) \/ ConnectReply(r)
         PROVE  Checked(req[r])'
    BY <1>1, <1>10, DoneRow
    DEF AuthenticateCommit, TokenStore, CheckOut, SetBootstrapToken, UserChallenge, UserGrant,
        UserReject, ConnectReply, Return
  <1>11. QED
    BY <1>2, <1>3, <1>4, <1>5, <1>6, <1>7, <1>8, <1>9, <1>10 DEF Handle

LEMMA CheckedStart == ServiceInit => StillChecked
  BY SMT DEF ServiceInit, StillChecked, Checked, TokenPcs, Idle, Message

LEMMA GotoAlone ==
  ASSUME Slots, NEW r \in Requests, NEW pc, Goto(r, pc) PROVE OthersWait(r)
  BY DEF Goto, Slots, OthersWait

LEMMA DoneAlone ==
  ASSUME Slots, NEW r \in Requests, Done(r) PROVE OthersWait(r)
  BY DEF Done, Slots, OthersWait

LEMMA HandledAlone ==
  ASSUME Slots, NEW r \in Requests, Handle(r) PROVE OthersWait(r)
  <1>1. CASE AuthenticateRead(r) \/ AuthenticateHistory(r) \/ ConnectNext(r)
    BY <1>1
    DEF AuthenticateRead, AuthenticateHistory, ConnectNext, Return, Done, Slots, OthersWait
  <1>2. CASE AuthorizeDevice(r) \/ AuthorizeChild(r) \/ AuthorizePin(r)
    BY <1>2, GotoAlone, DoneAlone DEF AuthorizeDevice, AuthorizeChild, AuthorizePin, Return
  <1>3. CASE TokenUserAuth(r) \/ TokenRow(r) \/ TokenUpsert(r)
    BY <1>3, GotoAlone, DoneAlone DEF TokenUserAuth, TokenRow, TokenUpsert, Return
  <1>4. CASE UserOutstanding(r) \/ ConnectResult(r) \/ ConnectDiscard(r)
    BY <1>4, GotoAlone, DoneAlone DEF UserOutstanding, ConnectResult, ConnectDiscard, Return
  <1>5. CASE \/ AuthenticateCommit(r) \/ TokenStore(r) \/ CheckOut(r) \/ SetBootstrapToken(r)
             \/ UserChallenge(r) \/ UserGrant(r) \/ UserReject(r) \/ ConnectReply(r)
    BY <1>5, DoneAlone
    DEF AuthenticateCommit, TokenStore, CheckOut, SetBootstrapToken, UserChallenge, UserGrant,
        UserReject, ConnectReply, Return
  <1>6. QED
    BY <1>1, <1>2, <1>3, <1>4, <1>5 DEF Handle

LEMMA HandledWithin ==
  ASSUME ServiceInvariant, NEW r \in Requests, Handle(r)
  PROVE  ~At(r, "idle") /\ UsersKept(r) /\ PinsKept(r)
  <1>1. TypeOK /\ Routed(req[r]) /\ \A u \in Users : u \in Ids /\ u \notin Devices
    BY IdsAssumption DEF ServiceInvariant, StoreInvariant, Ids, IdsAssumption
  <1>2. /\ status \in [Ids -> {"absent", "pending", "enabled", "disabled"}]
        /\ userAuth \in [Users -> {"none", "challenge", "token"}]
        /\ pin \in [Devices -> Certs \cup {None}]
    BY <1>1 DEF TypeOK
  <1>3. ASSUME UNCHANGED <<status, userAuth, pin>> PROVE UsersKept(r) /\ PinsKept(r)
    BY <1>3 DEF UsersKept, PinsKept
  <1>4. CASE \/ AuthorizeDevice(r) \/ AuthorizeChild(r) \/ AuthorizePin(r)
             \/ AuthenticateRead(r) \/ AuthenticateHistory(r) \/ TokenUserAuth(r) \/ TokenRow(r)
    BY <1>3, <1>4
    DEF AuthorizeDevice, AuthorizeChild, AuthorizePin, AuthenticateRead,
        AuthenticateHistory, TokenUserAuth, TokenRow, Return, store, At
  <1>5. CASE ConnectResult(r) \/ ConnectNext(r) \/ ConnectReply(r) \/ ConnectDiscard(r)
    BY <1>3, <1>5
    DEF ConnectResult, ConnectNext, ConnectReply, ConnectDiscard, Return, store,
        StoreResult, NextCommand, Clear, At
  <1>6. CASE SetBootstrapToken(r) \/ UserOutstanding(r)
    BY <1>3, <1>6
    DEF SetBootstrapToken, StoreBootstrapToken, UserOutstanding, Return, store, At
  <1>7. CASE TokenStore(r) \/ TokenUpsert(r) \/ UserChallenge(r)
    <2>1. ~At(r, "idle") /\ req[r].id \in Ids
      BY <1>1, <1>7 DEF TokenStore, TokenUpsert, UserChallenge, At, Routed
    <2>2. CASE UNCHANGED <<status, userAuth, pin>>
      BY <1>3, <2>1, <2>2
    <2>3. CASE StoreTokenUpdate(req[r].id) \/ UpsertAuthenticateUser(req[r].id)
      BY <1>1, <1>2, <2>1, <2>3
      DEF StoreTokenUpdate, UpsertAuthenticateUser, UsersKept, PinsKept
    <2>4. CASE StoreUserAuthChallenge(req[r].id)
      BY <1>1, <1>2, <2>1, <2>4 DEF StoreUserAuthChallenge, UsersKept, PinsKept
    <2>5. QED
      BY <1>7, <2>2, <2>3, <2>4 DEF TokenStore, TokenUpsert, UserChallenge, Return, store
  <1>8. CASE UserGrant(r) \/ UserReject(r)
    <2>1. ~At(r, "idle")
      BY <1>8 DEF UserGrant, UserReject, At
    <2>2. CASE UNCHANGED <<status, userAuth, pin>>
      BY <1>3, <2>1, <2>2
    <2>3. CASE StoreUserAuthToken(req[r].id) \/ ClearUserAuth(req[r].id)
      BY <1>2, <2>1, <2>3 DEF StoreUserAuthToken, ClearUserAuth, UsersKept, PinsKept
    <2>4. QED
      BY <1>8, <2>2, <2>3 DEF UserGrant, UserReject, Return, store
  <1>9. CASE CheckOut(r)
    <2>1. ~At(r, "idle")
      BY <1>9 DEF CheckOut, At
    <2>2. CASE UNCHANGED <<status, userAuth, pin>>
      BY <1>3, <2>1, <2>2
    <2>3. CASE Disable(req[r].id)
      BY <1>1, <1>2, <2>1, <2>3 DEF Disable, DisabledRows, UsersKept, PinsKept
    <2>4. QED
      BY <1>9, <2>2, <2>3 DEF CheckOut, Return, store
  <1>10. CASE AuthenticateCommit(r)
    <2>1. ~At(r, "idle") /\ req[r].pc \in DevicePcs /\ req[r].id \in Devices
      BY <1>1, <1>10 DEF AuthenticateCommit, At, Routed, DevicePcs
    <2>2. CASE UNCHANGED <<status, userAuth, pin>>
      BY <1>3, <2>1, <2>2
    <2>3. ASSUME NEW c, ResetDevice(req[r].id, c) PROVE UsersKept(r) /\ PinsKept(r)
      BY <1>1, <1>2, <2>1, <2>3 DEF ResetDevice, Children, UsersKept, PinsKept
    <2>4. QED
      BY <1>10, <2>1, <2>2, <2>3 DEF AuthenticateCommit, AuthenticateEnrollment, store
  <1>11. QED
    BY <1>4, <1>5, <1>6, <1>7, <1>8, <1>9, <1>10 DEF Handle

LEMMA CheckedStep ==
  ASSUME ServiceInvariant, ChannelsSerial, StillChecked, [ServiceNext]_vars PROVE StillChecked'
  <1>1. TypeOK /\ Slots
    BY InvariantParts DEF ServiceInvariant, StoreInvariant
  <1>2. ASSUME NEW r \in Requests, Handle(r) PROVE StillChecked'
    BY <1>1, <1>2, CheckedOwn, HandledAlone, HandledWithin, OthersChecked
  <1>3. CASE Admin
    <2>1. req' = req /\ userAuth' = userAuth /\ pin' = pin
      BY <1>3 DEF Admin, service, Enqueue, Clear, Disable, BackoffElapses
    <2>2. status' = status \/ \E id \in Ids : Disable(id)
      BY <1>3 DEF Admin, Enqueue, Clear, BackoffElapses
    <2>3. \A id \in Ids : status[id] = "absent" => status'[id] = "absent"
      BY <2>2 DEF Disable, DisabledRows
    <2>4. \A r \in Requests : req[r].pc = "upsert" => req[r].id \in Ids
      BY <1>1 DEF Slots, Routed
    <2>5. QED
      BY <2>1, <2>3, <2>4 DEF StillChecked, Checked
  <1>4. ASSUME NEW r \in Requests, NEW kind \in Kinds, NEW id \in Ids,
               NEW cert \in Hashes, NEW result \in Statuses,
               Receive(r, kind, id, cert, result)
        PROVE  StillChecked'
    <2>1. PICK q : req' = [req EXCEPT ![r] = q] /\ q.pc \in {"read", "device"}
      <3>1. PICK pc, uuid : /\ req' = [req EXCEPT ![r] = Message(pc, kind, id, cert, uuid, result)]
                            /\ pc \in {"read", "device"}
        BY <1>4 DEF Receive
      <3>2. Message(pc, kind, id, cert, uuid, result).pc = pc
        BY DEF Message
      <3>3. QED
        BY <3>1, <3>2
    <2>2. req'[r].pc \notin TokenPcs /\ \A x \in Requests : x # r => req'[x] = req[x]
      BY <1>1, <2>1 DEF Slots, TokenPcs
    <2>3. UNCHANGED <<status, userAuth, pin>>
      BY <1>4 DEF Receive, store
    <2>4. Checked(req[r])'
      BY <2>2, NotChecking
    <2>5. ASSUME NEW x \in Requests, x # r PROVE Checked(req[x])'
      BY <2>2, <2>3, <2>5 DEF StillChecked, Checked
    <2>6. QED
      BY <2>4, <2>5 DEF StillChecked
  <1>5. CASE UNCHANGED vars
    BY <1>5 DEF vars, service, store, StillChecked, Checked
  <1>6. QED
    BY <1>2, <1>3, <1>4, <1>5 DEF ServiceNext

\* The steps that write the status of a row.
StatusMove ==
    \/ status' = status
    \/ \E r \in Requests : At(r, "token") /\ req[r].id \in Ids /\ StoreTokenUpdate(req[r].id)
    \/ \E r \in Requests : /\ At(r, "commit") /\ req'[r] = Idle /\ req[r].id \in Devices
                           /\ \E c : ResetDevice(req[r].id, c)
    \/ \E id \in Ids : Disable(id)
    \/ \E r \in Requests : /\ At(r, "upsert") /\ req[r].id \in Users
                           /\ UpsertAuthenticateUser(req[r].id)
    \/ \E u \in Users : StoreUserAuthChallenge(u)

LEMMA StatusMoves ==
  ASSUME ServiceInvariant, [ServiceNext]_vars PROVE StatusMove
  <1>1. TypeOK /\ Slots /\ \A r \in Requests : Routed(req[r])
    BY InvariantParts DEF ServiceInvariant, StoreInvariant
  <1>2. CASE status' = status
    BY <1>2 DEF StatusMove
  <1>3. ASSUME NEW r \in Requests, AuthenticateCommit(r) PROVE StatusMove
    <2>1. At(r, "commit") /\ req'[r] = Idle /\ req[r].id \in Devices
      BY <1>1, <1>3 DEF AuthenticateCommit, At, Done, Slots, Routed, DevicePcs
    <2>2. status' = status \/ \E c : ResetDevice(req[r].id, c)
      BY <1>3 DEF AuthenticateCommit, AuthenticateEnrollment, store
    <2>3. QED
      BY <2>1, <2>2 DEF StatusMove
  <1>4. ASSUME NEW r \in Requests, TokenStore(r) \/ TokenUpsert(r) \/ CheckOut(r)
        PROVE  StatusMove
    <2>1. req[r].id \in Ids /\ (TokenUpsert(r) => req[r].id \in Users)
      BY <1>1, <1>4 DEF TokenStore, TokenUpsert, CheckOut, At, Routed, UserPcs
    <2>2. QED
      BY <1>4, <2>1 DEF TokenStore, TokenUpsert, CheckOut, Return, store, StatusMove
  <1>5. ASSUME NEW r \in Requests, UserChallenge(r) PROVE StatusMove
    <2>1. req[r].id \in Users
      BY <1>1, <1>5 DEF UserChallenge, At, Routed, UserPcs
    <2>2. QED
      BY <1>5, <2>1 DEF UserChallenge, Return, store, StatusMove
  <1>6. ASSUME NEW r \in Requests,
               \/ AuthorizeDevice(r) \/ AuthorizeChild(r) \/ AuthorizePin(r)
               \/ AuthenticateRead(r) \/ AuthenticateHistory(r) \/ TokenUserAuth(r) \/ TokenRow(r)
        PROVE  StatusMove
    BY <1>2, <1>6
    DEF AuthorizeDevice, AuthorizeChild, AuthorizePin, AuthenticateRead,
        AuthenticateHistory, TokenUserAuth, TokenRow, Return, store
  <1>7. ASSUME NEW r \in Requests,
               \/ SetBootstrapToken(r) \/ UserOutstanding(r) \/ UserGrant(r) \/ UserReject(r)
        PROVE  StatusMove
    BY <1>2, <1>7
    DEF SetBootstrapToken, StoreBootstrapToken, UserOutstanding, UserGrant, UserReject,
        StoreUserAuthToken, ClearUserAuth, Return, store
  <1>8. ASSUME NEW r \in Requests,
               ConnectResult(r) \/ ConnectNext(r) \/ ConnectReply(r) \/ ConnectDiscard(r)
        PROVE  StatusMove
    BY <1>2, <1>8
    DEF ConnectResult, ConnectNext, ConnectReply, ConnectDiscard, Return, store,
        StoreResult, NextCommand, Clear
  <1>9. CASE Admin
    BY <1>2, <1>9 DEF Admin, Enqueue, Clear, BackoffElapses, StatusMove
  <1>10. ASSUME NEW r \in Requests, NEW kind \in Kinds, NEW id \in Ids,
                NEW cert \in Hashes, NEW result \in Statuses,
                Receive(r, kind, id, cert, result)
         PROVE  StatusMove
    BY <1>2, <1>10 DEF Receive, store
  <1>11. CASE UNCHANGED vars
    BY <1>2, <1>11 DEF vars, store
  <1>12. QED
    BY <1>3, <1>4, <1>5, <1>6, <1>7, <1>8, <1>9, <1>10, <1>11 DEF ServiceNext, Handle

UserStep ==
    \A u \in Users : /\ RequireUserAuth
                     /\ status[u] # "enabled" /\ status'[u] = "enabled"
                     => userAuth[u] = "token"

LEMMA UserStepHolds ==
  ASSUME ServiceInvariant, StillChecked, [ServiceNext]_vars PROVE UserStep
  <1> SUFFICES ASSUME NEW u \in Users, RequireUserAuth, status[u] # "enabled",
                      status'[u] = "enabled"
               PROVE  userAuth[u] = "token"
    BY DEF UserStep
  <1>1. StatusMove /\ TypeOK
    BY StatusMoves DEF ServiceInvariant, StoreInvariant
  <1>2. status \in [Ids -> {"absent", "pending", "enabled", "disabled"}]
    BY <1>1 DEF TypeOK
  <1>3. ASSUME NEW r \in Requests, At(r, "token"), req[r].id \in Ids, StoreTokenUpdate(req[r].id)
        PROVE  userAuth[u] = "token"
    <2>1. req[r].id = u
      BY SMT, <1>2, <1>3 DEF StoreTokenUpdate
    <2>2. QED
      BY <1>3, <2>1 DEF At, StillChecked, Checked, TokenPcs
  <1>4. ASSUME NEW d \in Devices, NEW c, ResetDevice(d, c) PROVE FALSE
    BY <1>4 DEF ResetDevice, Ids
  <1>5. ASSUME NEW id \in Ids, Disable(id) PROVE FALSE
    BY <1>5 DEF Disable, Ids
  <1>6. ASSUME NEW x \in Users, UpsertAuthenticateUser(x) \/ StoreUserAuthChallenge(x)
        PROVE  FALSE
    BY <1>2, <1>6 DEF UpsertAuthenticateUser, StoreUserAuthChallenge, Ids
  <1>7. status' # status
    OBVIOUS
  <1>8. QED
    BY <1>1, <1>3, <1>4, <1>5, <1>6, <1>7 DEF StatusMove

\* With WithRequireUserAuth tokenUpdate enables a user channel only while a
\* completed UserAuthenticate exchange stands, when no other message of that
\* channel and no Authenticate of its device is handled meanwhile.
THEOREM UserAuthenticatedFirstHolds == ServiceSpec /\ []ChannelsSerial => UserAuthenticatedFirst
  <1>1. ServiceInit => StillChecked
    BY CheckedStart
  <1>2. ServiceInvariant /\ ChannelsSerial /\ StillChecked /\ [ServiceNext]_vars => StillChecked'
    BY CheckedStep
  <1>3. ServiceInvariant /\ StillChecked /\ [ServiceNext]_vars => [UserStep]_vars
    BY UserStepHolds
  <1>4. UserAuthenticatedFirst <=> [][UserStep]_vars
    BY DEF UserAuthenticatedFirst, UserStep
  <1>5. QED
    BY <1>1, <1>2, <1>3, <1>4, ServiceInvariantHolds, PTL DEF ServiceSpec

ReactivationStep ==
    \A id \in Ids : status[id] = "disabled" /\ status'[id] # "disabled" =>
      Committing(Device(id)) # {}

LEMMA ReactivationStepHolds ==
  ASSUME ServiceInvariant, StillChecked, [ServiceNext]_vars PROVE ReactivationStep
  <1> SUFFICES ASSUME NEW id \in Ids, status[id] = "disabled", status'[id] # "disabled"
               PROVE  Committing(Device(id)) # {}
    BY DEF ReactivationStep
  <1>1. StatusMove /\ TypeOK
    BY StatusMoves DEF ServiceInvariant, StoreInvariant
  <1>2. status \in [Ids -> {"absent", "pending", "enabled", "disabled"}]
    BY <1>1 DEF TypeOK
  <1>3. ASSUME NEW x \in Ids, StoreTokenUpdate(x) PROVE FALSE
    BY <1>2, <1>3 DEF StoreTokenUpdate, TokenUpdateAllowed
  <1>4. ASSUME NEW r \in Requests, At(r, "commit"), req'[r] = Idle, req[r].id \in Devices,
               NEW c, ResetDevice(req[r].id, c)
        PROVE  Committing(Device(id)) # {}
    <2>1. req[r].id = Device(id)
      BY <1>4, IdsAssumption DEF ResetDevice, Children, Device, IdsAssumption, Ids
    <2>2. QED
      BY <1>4, <2>1 DEF Committing
  <1>5. ASSUME NEW x \in Ids, Disable(x) PROVE FALSE
    BY <1>5 DEF Disable
  <1>6. ASSUME NEW r \in Requests, At(r, "upsert"), req[r].id \in Users,
               UpsertAuthenticateUser(req[r].id)
        PROVE  FALSE
    <2>1. status[req[r].id] = "absent"
      BY <1>6 DEF StillChecked, Checked, At
    <2>2. QED
      BY <1>2, <1>6, <2>1 DEF UpsertAuthenticateUser
  <1>7. ASSUME NEW u \in Users, StoreUserAuthChallenge(u) PROVE FALSE
    BY <1>2, <1>7 DEF StoreUserAuthChallenge, UserAuthTarget
  <1>8. status' # status
    OBVIOUS
  <1>9. QED
    BY <1>1, <1>3, <1>4, <1>5, <1>6, <1>7, <1>8 DEF StatusMove

\* A row removed by CheckOut or the administrator returns only through a new
\* Authenticate of its device, when messages of one channel do not overlap;
\* the administrator and other channels act in between.
THEOREM NoReactivationHolds == ServiceSpec /\ []ChannelsSerial => NoReactivation
  <1>1. ServiceInit => StillChecked
    BY CheckedStart
  <1>2. ServiceInvariant /\ ChannelsSerial /\ StillChecked /\ [ServiceNext]_vars => StillChecked'
    BY CheckedStep
  <1>3. ServiceInvariant /\ StillChecked /\ [ServiceNext]_vars => [ReactivationStep]_vars
    BY ReactivationStepHolds
  <1>4. NoReactivation <=> [][ReactivationStep]_vars
    BY DEF NoReactivation, ReactivationStep
  <1>5. QED
    BY <1>1, <1>2, <1>3, <1>4, ServiceInvariantHolds, PTL DEF ServiceSpec

(***************************************************************************)
(* TokensUnderCurrentIdentity is refuted when an Authenticate overtakes a  *)
(* TokenUpdate of its device; without that overlap it is an invariant.     *)
(***************************************************************************)
\* A step enables no row and moves no pin, stores a token, or resets a device.
TokenMove ==
    \/ UNCHANGED <<pin, tokenBy>> /\ \A id \in Ids : status'[id] = "enabled" => status[id] = "enabled"
    \/ \E r \in Requests : /\ At(r, "token") /\ req[r].id \in Ids /\ StoreTokenUpdate(req[r].id)
                           /\ tokenBy' = [tokenBy EXCEPT ![req[r].id] = req[r].cert]
    \/ \E d \in Devices : (\E c : ResetDevice(d, c)) /\ tokenBy' = tokenBy

LEMMA TokenMoveMade ==
  ASSUME ServiceInvariant, [ServiceNext]_vars PROVE TokenMove
  <1>1. TypeOK /\ Slots /\ \A r \in Requests : Routed(req[r])
    BY InvariantParts DEF ServiceInvariant, StoreInvariant
  <1>2. status \in [Ids -> {"absent", "pending", "enabled", "disabled"}]
    BY <1>1 DEF TypeOK
  <1>3. CASE UNCHANGED <<status, pin, tokenBy>>
    BY <1>3 DEF TokenMove
  <1>4. ASSUME NEW r \in Requests, TokenStore(r) PROVE TokenMove
    <2>1. At(r, "token") /\ req[r].id \in Ids
      BY <1>1, <1>4 DEF TokenStore, At, Routed
    <2>2. QED
      BY <1>3, <1>4, <2>1 DEF TokenStore, Return, store, record, TokenMove
  <1>5. ASSUME NEW r \in Requests, AuthenticateCommit(r) PROVE TokenMove
    <2>1. req[r].id \in Devices
      BY <1>1, <1>5 DEF AuthenticateCommit, At, Routed, DevicePcs
    <2>2. tokenBy' = tokenBy /\ (UNCHANGED <<status, pin>> \/ \E c : ResetDevice(req[r].id, c))
      BY <1>5 DEF AuthenticateCommit, AuthenticateEnrollment, store
    <2>3. QED
      BY <1>3, <2>1, <2>2 DEF TokenMove
  <1>6. ASSUME NEW id \in Ids, Disable(id), tokenBy' = tokenBy PROVE TokenMove
    BY <1>2, <1>6 DEF Disable, TokenMove
  <1>7. ASSUME NEW r \in Requests, CheckOut(r) PROVE TokenMove
    <2>1. req[r].id \in Ids
      BY <1>1, <1>7 DEF CheckOut, At, Routed
    <2>2. QED
      BY <1>3, <1>6, <1>7, <2>1 DEF CheckOut, Return, store, record
  <1>8. ASSUME NEW r \in Requests, TokenUpsert(r) \/ UserChallenge(r) PROVE TokenMove
    <2>1. req[r].id \in Ids
      BY <1>1, <1>8 DEF TokenUpsert, UserChallenge, At, Routed
    <2>2. CASE UpsertAuthenticateUser(req[r].id) /\ UNCHANGED record
      BY <1>2, <2>1, <2>2 DEF UpsertAuthenticateUser, record, TokenMove
    <2>3. CASE StoreUserAuthChallenge(req[r].id) /\ UNCHANGED record
      BY <1>2, <2>1, <2>3 DEF StoreUserAuthChallenge, record, TokenMove
    <2>4. QED
      BY <1>3, <1>8, <2>2, <2>3 DEF TokenUpsert, UserChallenge, Return, store, record
  <1>9. ASSUME NEW r \in Requests,
               \/ AuthorizeDevice(r) \/ AuthorizeChild(r) \/ AuthorizePin(r)
               \/ AuthenticateRead(r) \/ AuthenticateHistory(r) \/ TokenUserAuth(r) \/ TokenRow(r)
        PROVE  TokenMove
    BY <1>3, <1>9
    DEF AuthorizeDevice, AuthorizeChild, AuthorizePin, AuthenticateRead,
        AuthenticateHistory, TokenUserAuth, TokenRow, Return, store, record
  <1>10. ASSUME NEW r \in Requests,
                \/ SetBootstrapToken(r) \/ UserOutstanding(r) \/ UserGrant(r) \/ UserReject(r)
         PROVE  TokenMove
    BY <1>3, <1>10
    DEF SetBootstrapToken, StoreBootstrapToken, UserOutstanding, UserGrant, UserReject,
        StoreUserAuthToken, ClearUserAuth, Return, store, record
  <1>11. ASSUME NEW r \in Requests,
                ConnectResult(r) \/ ConnectNext(r) \/ ConnectReply(r) \/ ConnectDiscard(r)
         PROVE  TokenMove
    BY <1>3, <1>11
    DEF ConnectResult, ConnectNext, ConnectReply, ConnectDiscard, Return, store,
        StoreResult, NextCommand, Clear, record
  <1>12. CASE Admin
    BY <1>3, <1>6, <1>12 DEF Admin, Enqueue, Clear, BackoffElapses, service, record
  <1>13. ASSUME NEW r \in Requests, NEW kind \in Kinds, NEW id \in Ids,
                NEW cert \in Hashes, NEW result \in Statuses,
                Receive(r, kind, id, cert, result)
         PROVE  TokenMove
    BY <1>3, <1>13 DEF Receive, store, record
  <1>14. CASE UNCHANGED vars
    BY <1>3, <1>14 DEF vars, store, service, record
  <1>15. QED
    BY <1>4, <1>5, <1>7, <1>8, <1>9, <1>10, <1>11, <1>12, <1>13, <1>14 DEF ServiceNext, Handle

LEMMA TokensStep ==
  ASSUME ServiceInvariant, StillChecked, Pinning = "enforce", TokensUnderCurrentIdentity,
         [ServiceNext]_vars
  PROVE  TokensUnderCurrentIdentity'
  <1> SUFFICES ASSUME NEW id \in Ids, status'[id] = "enabled"
               PROVE  tokenBy'[id] = pin'[Device(id)]
    BY DEF TokensUnderCurrentIdentity
  <1>1. TokenMove /\ TypeOK /\ tokenBy \in [Ids -> Hashes]
    BY TokenMoveMade DEF ServiceInvariant, StoreInvariant, ServiceTypeOK
  <1>2. /\ status \in [Ids -> {"absent", "pending", "enabled", "disabled"}]
        /\ pin \in [Devices -> Certs \cup {None}] /\ Device(id) \in Devices
    BY <1>1, IdsAssumption DEF TypeOK, Device, Ids, IdsAssumption
  <1>3. CASE UNCHANGED <<pin, tokenBy>> /\ status[id] = "enabled"
    BY <1>3 DEF TokensUnderCurrentIdentity
  <1>4. ASSUME NEW r \in Requests, At(r, "token"), req[r].id \in Ids,
               StoreTokenUpdate(req[r].id),
               tokenBy' = [tokenBy EXCEPT ![req[r].id] = req[r].cert]
        PROVE  tokenBy'[id] = pin'[Device(id)]
    <2>1. pin' = pin /\ req[r].cert = pin[Device(req[r].id)]
      BY <1>4 DEF StoreTokenUpdate, StillChecked, Checked, At, TokenPcs
    <2>2. CASE id = req[r].id
      BY <1>1, <1>4, <2>1, <2>2
    <2>3. CASE id # req[r].id
      <3>1. tokenBy'[id] = tokenBy[id] /\ status[id] = "enabled"
        BY <1>1, <1>2, <1>4, <2>3 DEF StoreTokenUpdate
      <3>2. QED
        BY <2>1, <3>1 DEF TokensUnderCurrentIdentity
    <2>4. QED
      BY <2>2, <2>3
  <1>5. ASSUME NEW d \in Devices, NEW c, ResetDevice(d, c), tokenBy' = tokenBy
        PROVE  tokenBy'[id] = pin'[Device(id)]
    <2>1. status[id] = "enabled" /\ Device(id) # d
      BY <1>5, IdsAssumption DEF ResetDevice, Children, Device, Ids, IdsAssumption
    <2>2. pin'[Device(id)] = pin[Device(id)]
      BY <1>2, <1>5, <2>1 DEF ResetDevice
    <2>3. QED
      BY <1>5, <2>1, <2>2 DEF TokensUnderCurrentIdentity
  <1>6. QED
    BY <1>1, <1>3, <1>4, <1>5 DEF TokenMove

\* Under PinEnforce the push credentials of an enabled enrollment came from a
\* request with the certificate the device is pinned to now, when messages of
\* one channel, and an Authenticate with those of its device, do not overlap.
THEOREM TokensUnderCurrentIdentityHolds ==
  ASSUME Pinning = "enforce"
  PROVE  ServiceSpec /\ []ChannelsSerial => []TokensUnderCurrentIdentity
  <1>1. ServiceInit => StillChecked
    BY CheckedStart
  <1>2. ServiceInit => TokensUnderCurrentIdentity
    BY DEF ServiceInit, Init, TokensUnderCurrentIdentity
  <1>3. ServiceInvariant /\ ChannelsSerial /\ StillChecked /\ [ServiceNext]_vars => StillChecked'
    BY CheckedStep
  <1>4. /\ ServiceInvariant /\ StillChecked /\ TokensUnderCurrentIdentity /\ [ServiceNext]_vars
        => TokensUnderCurrentIdentity'
    BY TokensStep
  <1>5. QED
    BY <1>1, <1>2, <1>3, <1>4, ServiceInvariantHolds, PTL DEF ServiceSpec
=============================================================================
