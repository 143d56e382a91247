---------------------------- MODULE DeviceService ----------------------------
(***************************************************************************)
(* The device-facing handlers of server/service over the enrollment store: *)
(* check-in messages and Connect.  A handler is a sequence of store calls; *)
(* the calls of concurrent requests interleave.  A rejected request leaves *)
(* its slot and the store as they were before the call that refused it.    *)
(***************************************************************************)
EXTENDS EnrollmentStore

CONSTANTS
    Requests,        \* handlers running at the same time
    Kinds,           \* request kinds that arrive
    Pinning,         \* "off", "warn" or "enforce"
    RequireUserAuth  \* WithRequireUserAuth

ASSUME PinningAssumption ==
    Pinning \in {"off", "warn", "enforce"} /\ RequireUserAuth \in BOOLEAN
ASSUME KindsAssumption ==
    Kinds \subseteq {"Authenticate", "TokenUpdate", "CheckOut", "SetBootstrapToken",
                     "UserChallenge", "UserDigest", "Connect"}

VARIABLES
    req,      \* the running handlers
    tokenBy,  \* history: certificate whose TokenUpdate enabled the row
    enrolled, \* history: Enrolled events published for a device (two is many)
    inbox     \* the command a device holds and has not answered

record == <<tokenBy, enrolled>>
service == <<req, record, inbox>>
vars == <<store, service>>

Statuses == {"Idle", "Acknowledged", "NotNow", "Error"}

\* The histories count one, then many.
Many(n) == IF n > 2 THEN 2 ELSE n

\* A handler's registers as its message arrives, and a free slot.
Message(pc, kind, id, cert, uuid, result) ==
    [pc |-> pc, kind |-> kind, id |-> id, cert |-> cert, existed |-> FALSE,
     expected |-> None, rotated |-> FALSE, reuse |-> FALSE, uuid |-> uuid,
     result |-> result]
Idle == Message("idle", None, None, None, None, "Idle")

ServiceInit ==
    /\ Init
    /\ req = [r \in Requests |-> Idle]
    /\ tokenBy = [id \in Ids |-> None]
    /\ enrolled = [d \in Devices |-> 0]
    /\ inbox = [id \in Ids |-> None]

(***************************************************************************)
(* Control of one handler.                                                 *)
(***************************************************************************)
At(r, pc) == req[r].pc = pc
Goto(r, pc) == req' = [req EXCEPT ![r].pc = pc]
Done(r) == req' = [req EXCEPT ![r] = Idle]

\* Return to the transport without a store change.
Return(r) == Done(r) /\ UNCHANGED <<store, record, inbox>>

\* Where a handler continues once authorize returned nil.
Authorized(q) ==
    CASE q.kind = "TokenUpdate" ->
           IF q.id \notin Users THEN "token"
           ELSE IF RequireUserAuth THEN "userauth" ELSE "row"
      [] q.kind = "Connect" -> IF q.result = "Idle" THEN "next" ELSE "result"
      [] q.kind = "CheckOut" -> "disable"
      [] q.kind = "SetBootstrapToken" -> "escrow"
      [] q.kind = "UserChallenge" -> "challenge"
      [] OTHER -> "outstanding"

\* Checkin and Connect: a message arrives.  A device answers the command it
\* holds, or connects idle.
Receive(r, kind, id, cert, result) ==
    /\ At(r, "idle")
    /\ kind = "Authenticate" => id \in Devices
    /\ kind \in {"UserChallenge", "UserDigest"} => id \in Users
    /\ result # "Idle" => kind = "Connect" /\ inbox[id] # None
    /\ req' = [req EXCEPT ![r] =
                 Message(IF kind = "Authenticate" THEN "read" ELSE "device", kind, id,
                         cert, IF result = "Idle" THEN None ELSE inbox[id], result)]
    /\ UNCHANGED <<store, record, inbox>>

(***************************************************************************)
(* authorizeRequest.                                                       *)
(***************************************************************************)
Refused(r, id) == status[id] = "disabled" /\ req[r].kind # "CheckOut"

AuthorizeDevice(r) ==
    /\ At(r, "device")
    /\ LET d == Device(req[r].id) IN
       IF status[d] = "absent" \/ Refused(r, d) THEN Return(r)
       ELSE /\ Goto(r, IF req[r].id \in Users THEN "child" ELSE "pin")
            /\ UNCHANGED <<store, record, inbox>>

AuthorizeChild(r) ==
    /\ At(r, "child")
    /\ IF Refused(r, req[r].id) THEN Return(r)
       ELSE Goto(r, "pin") /\ UNCHANGED <<store, record, inbox>>

PinAllows(cert, pinned) ==
    Pinning = "enforce" => cert # None /\ pinned = cert

AuthorizePin(r) ==
    /\ At(r, "pin")
    /\ IF ~PinAllows(req[r].cert, pin[Device(req[r].id)]) THEN Return(r)
       ELSE /\ Goto(r, Authorized(req[r]))
            /\ UNCHANGED <<store, record, inbox>>

(***************************************************************************)
(* authenticate.  The re-enrollment and reuse policies answer as they like. *)
(***************************************************************************)
AuthenticateRead(r) ==
    LET q == req[r]
        rotated == /\ pin[q.id] # None /\ q.cert # None /\ pin[q.id] # q.cert
                   /\ Pinning # "off"
    IN  /\ At(r, "read")
        /\ \/ /\ (q.cert = None /\ Pinning = "enforce") \/ rotated
              /\ Return(r)
           \/ /\ ~(q.cert = None /\ Pinning = "enforce")
              /\ req' = [req EXCEPT ![r].existed = status[q.id] # "absent",
                                    ![r].expected = pin[q.id],
                                    ![r].rotated = rotated,
                                    ![r].pc = IF q.cert # None /\ Pinning # "off"
                                              THEN "history" ELSE "commit"]
              /\ UNCHANGED <<store, record, inbox>>

OtherHolders(d, hash) == {o \in Devices \ {d} : <<o, hash>> \in history}

AuthenticateHistory(r) ==
    LET others == OtherHolders(req[r].id, req[r].cert) IN
    /\ At(r, "history")
    /\ \/ others # {} /\ Return(r)
       \/ /\ req' = [req EXCEPT ![r].reuse = others # {}, ![r].pc = "commit"]
          /\ UNCHANGED <<store, record, inbox>>

ClaimAlways(q, reset) == ~q.existed
ClaimsEnrolled(q, reset) == ~q.existed /\ reset

CountClaim(q, reset) ==
    enrolled' = [enrolled EXCEPT ![q.id] =
                   IF ClaimsEnrolled(q, reset) THEN Many(@ + 1) ELSE @]

AuthenticateCommit(r) ==
    LET q == req[r]
        verdict == CheckAuthenticate(q.id, q.expected, q.cert, q.rotated)
    IN  /\ At(r, "commit")
        /\ Done(r)
        /\ UNCHANGED <<tokenBy, inbox>>
        /\ \/ /\ AuthenticateEnrollment(q.id, q.expected, q.cert, q.reuse, q.rotated)
              /\ CountClaim(q, TRUE)
           \/ /\ verdict = "retry"
              /\ CountClaim(q, FALSE)
              /\ UNCHANGED store
           \/ /\ \/ verdict \in {"conflict", "disabled"}
                 \/ verdict = "reset" /\ ~CertAvailable(q.id, q.cert, q.reuse)
              /\ UNCHANGED <<store, enrolled>>

(***************************************************************************)
(* tokenUpdate, checkOut, setBootstrapToken and DigestUserAuth.            *)
(***************************************************************************)
TokenUserAuthBegun(r) ==
    /\ At(r, "userauth")
    /\ IF UserAuthTarget(req[r].id) /\ userAuth[req[r].id] # "none"
       THEN Goto(r, "row") /\ UNCHANGED <<store, record, inbox>>
       ELSE Return(r)
TokenUserAuth(r) ==
    /\ At(r, "userauth")
    /\ IF UserAuthTarget(req[r].id) /\ userAuth[req[r].id] = "token"
       THEN Goto(r, "row") /\ UNCHANGED <<store, record, inbox>>
       ELSE Return(r)

TokenRow(r) ==
    /\ At(r, "row")
    /\ Goto(r, IF status[req[r].id] = "absent" THEN "upsert" ELSE "token")
    /\ UNCHANGED <<store, record, inbox>>

TokenUpsert(r) ==
    /\ At(r, "upsert")
    /\ \/ /\ UpsertAuthenticateUser(req[r].id)
          /\ Goto(r, "token")
          /\ UNCHANGED <<record, inbox>>
       \/ status[Parent[req[r].id]] = "disabled" /\ Return(r)

TokenStore(r) ==
    /\ At(r, "token")
    /\ \/ /\ StoreTokenUpdate(req[r].id)
          /\ tokenBy' = [tokenBy EXCEPT ![req[r].id] = req[r].cert]
          /\ Done(r)
          /\ UNCHANGED <<enrolled, inbox>>
       \/ ~TokenUpdateAllowed(req[r].id) /\ Return(r)

CheckOut(r) ==
    /\ At(r, "disable")
    /\ \/ Disable(req[r].id) /\ Done(r) /\ UNCHANGED <<record, inbox>>
       \/ status[req[r].id] = "absent" /\ Return(r)

SetBootstrapToken(r) ==
    /\ At(r, "escrow")
    /\ \/ /\ \E token \in BOOLEAN : StoreBootstrapToken(req[r].id, token)
          /\ Done(r)
          /\ UNCHANGED <<record, inbox>>
       \/ status[Device(req[r].id)] = "disabled" /\ Return(r)

UserChallenge(r) ==
    /\ At(r, "challenge")
    /\ \/ /\ StoreUserAuthChallenge(req[r].id)
          /\ Done(r)
          /\ UNCHANGED <<record, inbox>>
       \/ ~UserAuthTarget(req[r].id) /\ Return(r)

\* outstanding, the expiry check and the verifier: a wrong or late digest goes
\* on to reject, a verifier that fails ends the request.
UserOutstanding(r) ==
    /\ At(r, "outstanding")
    /\ IF UserAuthTarget(req[r].id) /\ userAuth[req[r].id] = "challenge"
       THEN /\ Goto(r, "grant") \/ Goto(r, "reject") \/ Done(r)
            /\ UNCHANGED <<store, record, inbox>>
       ELSE Return(r)

UserGrant(r) ==
    /\ At(r, "grant")
    /\ \/ /\ StoreUserAuthToken(req[r].id)
          /\ Done(r)
          /\ UNCHANGED <<record, inbox>>
       \/ /\ ~UserAuthTarget(req[r].id) \/ userAuth[req[r].id] = "none"
          /\ Return(r)

UserReject(r) ==
    /\ At(r, "reject")
    /\ \/ /\ ClearUserAuth(req[r].id)
          /\ Done(r)
          /\ UNCHANGED <<record, inbox>>
       \/ ~UserAuthTarget(req[r].id) /\ Return(r)

(***************************************************************************)
(* connect and nextEligible.                                               *)
(***************************************************************************)
\* A result for a command that is not open any more is logged and ignored.
ConnectResult(r) ==
    LET q == req[r] IN
    /\ At(r, "result")
    /\ \/ /\ StoreResult(q.id, q.uuid, q.result)
          /\ Goto(r, "next")
          /\ UNCHANGED <<record, inbox>>
       \/ /\ Live(q.id) /\ \A i \in DOMAIN queue[q.id] : ~Answered(q.id, q.uuid, i)
          /\ Goto(r, "next")
          /\ UNCHANGED <<store, record, inbox>>
       \/ ~Live(q.id) /\ Return(r)

\* An empty reply, which may be lost too, ends the conversation.
ConnectNext(r) ==
    LET q == req[r]
        skip == q.result = "NotNow"
    IN
    /\ At(r, "next")
    /\ \/ \E i \in DOMAIN queue[q.id] :
            /\ NextCommand(q.id, skip, i)
            /\ req' = [req EXCEPT ![r].pc = "verdict", ![r].uuid = queue[q.id][i].uuid]
            /\ UNCHANGED <<record, inbox>>
       \/ /\ Live(q.id)
          /\ \A i \in DOMAIN queue[q.id] : ~Eligible(queue[q.id][i], skip)
          /\ Done(r)
          /\ inbox' \in {inbox, [inbox EXCEPT ![q.id] = None]}
          /\ UNCHANGED <<store, record>>
       \/ ~Live(q.id) /\ Return(r)

\* checkTargets still supports the command: it is the reply, which may be lost.
ConnectReply(r) ==
    /\ At(r, "verdict")
    /\ Done(r)
    /\ inbox' \in {inbox, [inbox EXCEPT ![req[r].id] = req[r].uuid]}
    /\ UNCHANGED <<store, record>>

\* The command or its target became unsupported: clear it and look again.
ConnectDiscard(r) ==
    LET q == req[r]
        open == {i \in DOMAIN queue[q.id] :
                   queue[q.id][i].uuid = q.uuid /\ queue[q.id][i].state \in Open}
    IN  /\ At(r, "verdict")
        /\ IF open = {} THEN UNCHANGED store ELSE Clear(q.id, open)
        /\ Goto(r, "next")
        /\ UNCHANGED <<record, inbox>>

(***************************************************************************)
(* The administrator: Enqueue to the targets checkTargets kept, Clear and  *)
(* Disable; time passes for deferred commands.                             *)
(***************************************************************************)
Admin ==
    /\ \/ \E ids \in SUBSET Ids, uuid \in UUIDs, key \in Keys \cup {None} :
            Enqueue(ids, uuid, key)
       \/ \E id \in Ids : \E picked \in SUBSET DOMAIN queue[id] : Clear(id, picked)
       \/ \E id \in Ids : Disable(id)
       \/ \E id \in Ids : \E i \in DOMAIN queue[id] : BackoffElapses(id, i)
    /\ UNCHANGED service

Handle(r) ==
    \/ AuthorizeDevice(r) \/ AuthorizeChild(r) \/ AuthorizePin(r)
    \/ AuthenticateRead(r) \/ AuthenticateHistory(r) \/ AuthenticateCommit(r)
    \/ TokenUserAuth(r) \/ TokenRow(r) \/ TokenUpsert(r) \/ TokenStore(r)
    \/ CheckOut(r) \/ SetBootstrapToken(r)
    \/ UserChallenge(r) \/ UserOutstanding(r) \/ UserGrant(r) \/ UserReject(r)
    \/ ConnectResult(r) \/ ConnectNext(r) \/ ConnectReply(r) \/ ConnectDiscard(r)

ServiceNext ==
    \/ \E r \in Requests :
         \/ \E kind \in Kinds, id \in Ids, cert \in Hashes, result \in Statuses :
              Receive(r, kind, id, cert, result)
         \/ Handle(r)
    \/ Admin

ServiceSpec == ServiceInit /\ [][ServiceNext]_vars

(***************************************************************************)
(* Types, and what a handler's registers say.                              *)
(***************************************************************************)
DevicePcs == {"read", "history", "commit"}
UserPcs == {"child", "userauth", "row", "upsert", "challenge", "outstanding",
            "grant", "reject"}
SharedPcs == {"device", "pin", "token", "disable", "escrow", "result", "next", "verdict"}

Slot == [pc : {"idle"} \cup DevicePcs \cup UserPcs \cup SharedPcs,
         kind : Kinds \cup {None}, id : Ids \cup {None}, cert : Hashes,
         existed : BOOLEAN, expected : Hashes, rotated : BOOLEAN, reuse : BOOLEAN,
         uuid : UUIDs \cup {None}, result : Statuses]

ServiceTypeOK ==
    /\ req \in [Requests -> Slot]
    /\ tokenBy \in [Ids -> Hashes]
    /\ enrolled \in [Devices -> 0 .. 2]
    /\ inbox \in [Ids -> UUIDs \cup {None}]

\* A handler works on the channel its message is for.
Routed(q) ==
    /\ q.pc # "idle" => q.id \in Ids
    /\ q.pc \in DevicePcs => q.id \in Devices
    /\ q.pc \in UserPcs => q.id \in Users
    /\ q.pc \in {"device", "child", "pin"} => q.kind \in Kinds \ {"Authenticate"}
    /\ q.pc # "idle" /\ q.kind \in {"UserChallenge", "UserDigest"} => q.id \in Users
    /\ q.pc = "result" => q.result # "Idle"
    /\ q.result # "Idle" => q.uuid \in UUIDs

\* An Authenticate past its read carries the policy's verdict on the pin it saw.
Decided(q) ==
    q.pc \in {"history", "commit"} =>
      /\ q.rotated <=> /\ q.expected # None /\ q.cert # None
                       /\ q.expected # q.cert /\ Pinning # "off"
      /\ ~q.existed => q.expected = None
      /\ Pinning = "enforce" => q.cert # None

\* A row that does not exist has no pin; under PinEnforce every row has one.
Pinned ==
    \A d \in Devices :
       /\ status[d] = "absent" => pin[d] = None /\ enrolled[d] = 0
       /\ Pinning = "enforce" /\ status[d] # "absent" => pin[d] # None

(***************************************************************************)
(* Properties.                                                             *)
(***************************************************************************)
\* The request that commits an Authenticate for d in this step.
Committing(d) == {r \in Requests : At(r, "commit") /\ req[r].id = d /\ req'[r] = Idle}

\* Under PinEnforce a pinned device changes its certificate only when the
\* re-enrollment policy approved exactly that change: the pin the policy saw is
\* the pin replaced, whatever other requests did between read and commit.
RotationApproved ==
    [][\A d \in Devices : Pinning = "enforce" /\ pin[d] # None /\ pin'[d] # pin[d] =>
         \E r \in Committing(d) : /\ req[r].rotated
                                  /\ req[r].expected = pin[d]
                                  /\ req[r].cert = pin'[d]]_vars

\* A certificate another device ever held is pinned only after the reuse
\* policy was asked, even if that device pinned it after the history was read.
ReuseApproved ==
    [][\A d \in Devices : pin'[d] # pin[d] /\ OtherHolders(d, pin'[d]) # {} =>
         \E r \in Committing(d) : req[r].reuse]_vars

\* A device that was removed comes back only under a certificate that differs
\* from the one it was removed with, however late its messages are handled.
NoReplay ==
    [][\A d \in Devices : status[d] = "disabled" /\ status'[d] # "disabled" =>
         pin'[d] \notin {pin[d], None}]_vars

\* A disabled row, a user channel included, leaves that state only when its
\* device authenticates anew: a TokenUpdate never reactivates it.
NoReactivation ==
    [][\A id \in Ids : status[id] = "disabled" /\ status'[id] # "disabled" =>
         Committing(Device(id)) # {}]_vars

\* Enrolled is published once for a device: concurrent first Authenticates do
\* not both claim the enrollment.
EnrolledOnce == \A d \in Devices : enrolled[d] <= 1

\* The inductive invariant: the store's, with the handlers that run on it.
ServiceInvariant ==
    /\ StoreInvariant /\ ServiceTypeOK /\ Pinned
    /\ \A r \in Requests : Routed(req[r]) /\ Decided(req[r])
    /\ Pinning = "enforce" => EnrolledOnce

\* The handlers, however they overlap, show each device the lifecycle of
\* EnrollmentLifecycle.
Lifecycle == INSTANCE EnrollmentLifecycle
               WITH phase <- [d \in Devices |-> status[d]], identity <- pin
ImplementsLifecycle == Lifecycle!LifecycleSpec

\* The push credentials of an enabled enrollment came from a request that
\* presented the certificate the device is pinned to now.
TokensUnderCurrentIdentity ==
    \A id \in Ids : status[id] = "enabled" => tokenBy[id] = pin[Device(id)]

\* Under WithRequireUserAuth a user channel becomes enabled only while a
\* completed UserAuthenticate exchange of this enrollment stands.
UserAuthenticatedFirst ==
    [][\A u \in Users : /\ RequireUserAuth
                        /\ status[u] # "enabled" /\ status'[u] = "enabled"
                        => userAuth[u] = "token"]_vars

\* With unique command UUIDs a device's answer, however late or repeated,
\* settles only a command that was handed out.
AnswersOnlySent ==
    [][UniqueUUID => \A id \in Ids : \A i \in DOMAIN queue[id] :
         queue[id][i].state = "Pending" =>
           queue'[id][i].state \in {"Pending", "Sent", "Cleared"}]_vars

(***************************************************************************)
(* Liveness: a device that keeps polling, reports what it holds and does   *)
(* not answer NotNow for ever; a transport that does not lose every reply. *)
(***************************************************************************)
Reply(r) == ConnectReply(r) /\ inbox'[req[r].id] = req[r].uuid

Polls(id) ==
    \E r \in Requests :
       /\ inbox[id] = None
       /\ Receive(r, "Connect", id, pin[Device(id)], "Idle")
Reports(id) ==
    \E r \in Requests : Receive(r, "Connect", id, pin[Device(id)], "Acknowledged")

FairService ==
    /\ ServiceSpec
    /\ \A r \in Requests : WF_vars(Handle(r)) /\ SF_vars(Reply(r))
    /\ \A id \in Ids :
         /\ SF_vars(Polls(id)) /\ SF_vars(Reports(id))
         /\ \A i \in 1 .. MaxQueued :
              WF_vars(i \in DOMAIN queue[id] /\ BackoffElapses(id, i) /\ UNCHANGED service)

\* Every queued command is eventually answered or cleared.
CommandSettles ==
    \A id \in Ids, i \in 1 .. MaxQueued :
      (i \in DOMAIN queue[id] /\ queue[id][i].state \in Open)
        ~> (i \in DOMAIN queue[id] /\ queue[id][i].state \in Terminal)
=============================================================================
