----------------------------- MODULE Replacement -----------------------------
(***************************************************************************)
(* The controlled replacement of a device's identity certificate.  The     *)
(* administrator begins an attempt, the working identity fetches a profile *)
(* and gets a candidate certificate issued, and the candidate takes over   *)
(* once it authenticated, sent the device's push token and the profile was *)
(* acknowledged.  The attempt is one record of the store, advanced by      *)
(* AdvanceReplacement under the store's lock; the service reads it first,  *)
(* routes the message, and makes its transition with a second call.        *)
(* Certificate pinning is enforced.                                        *)
(***************************************************************************)
EXTENDS EnrollmentStore

CONSTANTS
    Candidates,      \* certificates whose subject names a replacement attempt
    PublicKeys,
    KeyOf,           \* the public key of each candidate
    Methods,         \* how the profile enrolls: "scep", "acme"
    Requests,        \* concurrent handlers
    MaxAttempts      \* bound: attempts prepared for one device

ASSUME CandidatesAssumption ==
    Candidates \subseteq Certs /\ KeyOf \in [Candidates -> PublicKeys] /\ None \notin PublicKeys
ASSUME AttemptsAssumption ==
    /\ MaxAttempts \in Nat /\ Methods \subseteq {"scep", "acme"}
    /\ None \notin Devices \X (0 .. MaxAttempts)

VARIABLES
    att,      \* s.replacements: the latest attempt of a device
    prepared, \* the attempt prepareReplacement built and begin has not stored
    count,    \* attempts prepared so far: the next attempt's UUID
    subject,  \* the attempt a candidate certificate was issued for
    holds,    \* attempts whose profile reached the device
    req,      \* the request each handler works on
    tokenBy   \* history: the certificate behind a device's push token

service == <<prepared, count, subject, holds, req>>
vars == <<store, att, service, tokenBy>>

AttemptIds == 1 .. MaxAttempts
States == {"none", "pending", "committed", "failed", "cancelled", "expired"}

Attempt(id, state, method, old) ==
    [id |-> id, state |-> state, method |-> method, old |-> old, cand |-> None,
     key |-> None, delivered |-> FALSE, acked |-> FALSE, authed |-> FALSE,
     tokens |-> {}, late |-> FALSE, over |-> FALSE]
NoAttempt == Attempt(0, "none", "scep", None)

\* Of an attempt that ended, only this much is read again.
Ended(a, how) == [Attempt(a.id, how, a.method, a.old) EXCEPT !.cand = a.cand]

Message(pc, kind, id, cert, result, uuid) ==
    [pc |-> pc, kind |-> kind, id |-> id, cert |-> cert, result |-> result,
     uuid |-> uuid, op |-> "none", att |-> 0]
Idle == Message("idle", "Connect", None, None, "Idle", 0)

ReplacementInit ==
    /\ Init
    /\ att = [d \in Devices |-> NoAttempt]
    /\ prepared = [d \in Devices |-> NoAttempt]
    /\ count = [d \in Devices |-> 0]
    /\ subject = [c \in Candidates |-> None]
    /\ holds = [d \in Devices |-> {}]
    /\ req = [r \in Requests |-> Idle]
    /\ tokenBy = [d \in Devices |-> None]

(***************************************************************************)
(* AdvanceReplacement and the backend's commit.                            *)
(***************************************************************************)
\* Every call first applies the deadline: ExpiresAt (late), or NotAfter of the
\* recorded candidate (over) when that is later.
Expired(a) == a.state = "pending" /\ a.late /\ (a.cand = None \/ a.over)
Current(d) == IF Expired(att[d]) THEN Ended(att[d], "expired") ELSE att[d]

Active(d, id) ==
    /\ Current(d).id = id
    /\ Current(d).state = "pending"
    /\ Current(d).old = pin[d]
    /\ status[d] = "enabled"

CompleteAnyChannel(d, a) == a.state = "pending" /\ a.authed /\ a.acked /\ a.tokens # {}
Complete(d, a) ==
    /\ a.state = "pending"
    /\ a.authed /\ a.acked
    /\ d \in a.tokens

\* commit: the candidate becomes the pin and every staged token is applied.
\* Nothing else of the enrollment is reset.
Promote(d, a) ==
    /\ att' = [att EXCEPT ![d] = Ended(a, "committed")]
    /\ pin' = [pin EXCEPT ![d] = a.cand]
    /\ certs' = Repin(d, a.cand)
    /\ history' = RecordAssociation(d, a.cand)
    /\ status' = [id \in Ids |-> IF id \in a.tokens THEN "enabled" ELSE status[id]]
    /\ tokenBy' = [tokenBy EXCEPT ![d] = IF d \in a.tokens THEN a.cand ELSE @]
    /\ UNCHANGED <<escrow, userAuth, queue, imported>>

\* A candidate another device ever held cannot commit.
Committable(d, a) ==
    Complete(d, a) => \A o \in Devices \ {d} : <<o, a.cand>> \notin history

Advance(d, a) ==
    IF Complete(d, a) THEN Promote(d, a)
    ELSE att' = [att EXCEPT ![d] = a] /\ UNCHANGED <<store, tokenBy>>

\* "read" stores an expiry it finds.
Read(d) ==
    /\ att' = [att EXCEPT ![d] = Current(d)]
    /\ UNCHANGED <<store, tokenBy>>

\* The operations the service asks for.
PermittedUnordered(a, q) ==
    CASE q.op \in {"authenticate", "token"} -> a.cand = q.cert
      [] q.op = "deliver" -> a.old = q.cert
      [] OTHER -> a.delivered /\ q.uuid = a.id
Permitted(a, q) ==
    CASE q.op = "authenticate" -> a.cand = q.cert
      [] q.op = "token" -> a.authed /\ a.cand = q.cert
      [] q.op = "deliver" -> a.old = q.cert
      [] OTHER -> /\ q.cert \in {a.old, a.cand}
                  /\ a.delivered /\ q.uuid = a.id

Reported(a, result) ==
    CASE result = "Acknowledged" -> [a EXCEPT !.acked = TRUE]
      [] result = "NotNow" -> a
      [] OTHER -> Ended(a, "failed")

Advanced(a, q) ==
    CASE q.op = "authenticate" -> [a EXCEPT !.authed = TRUE]
      [] q.op = "token" -> [a EXCEPT !.tokens = @ \cup {q.id}]
      [] q.op = "deliver" -> [a EXCEPT !.delivered = TRUE]
      [] OTHER -> Reported(a, q.result)

(***************************************************************************)
(* The administrator: replaceEnrollment.                                   *)
(***************************************************************************)
\* prepareReplacement reads the enrollment and binds a fresh attempt UUID.
Prepare(d, method) ==
    /\ prepared[d] = NoAttempt
    /\ count[d] < MaxAttempts
    /\ status[d] = "enabled" /\ pin[d] # None
    /\ count' = [count EXCEPT ![d] = @ + 1]
    /\ prepared' = [prepared EXCEPT ![d] = Attempt(count[d] + 1, "pending", method, pin[d])]
    /\ UNCHANGED <<store, att, subject, holds, req, tokenBy>>

Begins(d) ==
    /\ Current(d).state # "pending"
    /\ prepared[d].old = pin[d]
    /\ status[d] = "enabled"

Begin(d) ==
    /\ prepared[d] # NoAttempt
    /\ prepared' = [prepared EXCEPT ![d] = NoAttempt]
    /\ att' = IF Begins(d) THEN [att EXCEPT ![d] = prepared[d]] ELSE att
    /\ UNCHANGED <<store, count, subject, holds, req, tokenBy>>

Cancel(d) ==
    /\ Active(d, att[d].id)
    /\ Advance(d, Ended(Current(d), "cancelled"))
    /\ UNCHANGED service

DeadlinePasses(d) ==
    /\ att[d].state = "pending" /\ ~att[d].late
    /\ att' = [att EXCEPT ![d].late = TRUE]
    /\ UNCHANGED <<store, service, tokenBy>>

CandidateLapses(d) ==
    /\ att[d].state = "pending" /\ att[d].cand # None /\ ~att[d].over
    /\ att' = [att EXCEPT ![d].over = TRUE]
    /\ UNCHANGED <<store, service, tokenBy>>

(***************************************************************************)
(* Issuance: replacementChallenge binds the key of the request that knows  *)
(* the profile's secret; replacementIssuance records the certificate.      *)
(***************************************************************************)
Claim(d, id, key) ==
    /\ id \in holds[d] /\ Active(d, id)
    /\ LET a == Current(d) IN
       /\ a.method = "scep" /\ ~a.late
       /\ a.key \in {None, key}
       /\ Advance(d, [a EXCEPT !.key = key])
    /\ UNCHANGED service

Issue(d, id, c) ==
    /\ id \in holds[d] /\ Active(d, id)
    /\ subject[c] \in {None, <<d, id>>}
    /\ LET a == Current(d) IN
       /\ a.late => a.cand = c
       /\ a.cand \in {None, c}
       /\ a.method = "scep" => a.key = KeyOf[c]
       /\ Advance(d, [a EXCEPT !.cand = c])
    /\ subject' = [subject EXCEPT ![c] = <<d, id>>]
    /\ UNCHANGED <<prepared, count, holds, req>>

(***************************************************************************)
(* A request: admitted, routed on what "read" returned, then either the    *)
(* transition of the attempt or the ordinary handling.                     *)
(***************************************************************************)
Kinds == {"Authenticate", "TokenUpdate", "CheckOut", "Connect"}
Results == {"Idle", "Acknowledged", "NotNow", "Error"}

At(r, pc) == req[r].pc = pc
Done(r) == req' = [req EXCEPT ![r] = Idle]
Goto(r, pc) == req' = [req EXCEPT ![r].pc = pc]
Unchanged == UNCHANGED <<store, att, tokenBy>>
Registers == <<prepared, count, subject, holds>>

\* A device has the candidates issued to it and any certificate issued to it
\* otherwise, and answers the profiles it received.
Receive(r, kind, id, cert, result, uuid) ==
    /\ At(r, "idle")
    /\ cert \in Candidates => subject[cert] # None
    /\ kind = "Authenticate" => id \in Devices
    /\ result # "Idle" => kind = "Connect" /\ id \in Devices
    /\ uuid # 0 <=> result # "Idle"
    /\ uuid # 0 => uuid \in holds[Device(id)]
    /\ req' = [req EXCEPT ![r] =
                 Message(IF cert \in Candidates THEN "admit" ELSE "route", kind, id,
                         cert, result, uuid)]
    /\ Unchanged /\ UNCHANGED Registers

\* replacementAdmission.Before: a replacement identity speaks for its own
\* device only, as the pin or as the candidate of the pending attempt.
Admitted(d, c) ==
    /\ subject[c][1] = d
    /\ \/ pin[d] = c
       \/ /\ Current(d).state = "pending"
          /\ Current(d).cand = c
          /\ subject[c][2] = Current(d).id

Admit(r) ==
    LET d == Device(req[r].id) IN
    /\ At(r, "admit")
    /\ IF Admitted(d, req[r].cert) THEN Goto(r, "route") ELSE Done(r)
    /\ IF pin[d] = req[r].cert \/ subject[req[r].cert][1] # d THEN Unchanged ELSE Read(d)
    /\ UNCHANGED Registers

\* What replacementCheckin and replacementConnect decide: "ordinary", "handled"
\* (also with an error), or the transition to make.
RouteEnded(a, q) ==
    IF /\ q.kind # "Connect" /\ q.cert = a.cand
       /\ a.state # "committed" \/ q.kind = "Authenticate"
    THEN "handled" ELSE "ordinary"

RouteCheckin(a, q) ==
    IF q.cert = a.old THEN IF q.kind = "Authenticate" THEN "handled" ELSE "ordinary"
    ELSE IF q.cert # a.cand THEN "handled"
    ELSE CASE q.kind = "Authenticate" -> "authenticate"
           [] q.kind = "TokenUpdate" -> "token"
           [] OTHER -> "handled"

RouteConnect(a, q) ==
    IF q.cert \notin {a.old, a.cand} THEN "handled"
    ELSE IF q.id \in Users THEN IF q.cert = a.cand THEN "handled" ELSE "ordinary"
    ELSE IF q.result # "Idle" /\ q.uuid = a.id THEN "result"
    ELSE IF a.acked \/ q.cert # a.old THEN "handled" ELSE "deliver"

RouteForgetful(d, q) ==
    LET a == Current(d) IN
    IF status[d] = "absent" \/ a.state # "pending" THEN "ordinary"
    ELSE IF q.kind = "Connect" THEN RouteConnect(a, q) ELSE RouteCheckin(a, q)
Routed(d, q) ==
    LET a == Current(d) IN
    IF status[d] = "absent" \/ a.state = "none" THEN "ordinary"
    ELSE IF a.state # "pending" THEN RouteEnded(a, q)
    ELSE IF q.kind = "Connect" THEN RouteConnect(a, q) ELSE RouteCheckin(a, q)

Route(r) ==
    LET d == Device(req[r].id)
        to == Routed(d, req[r])
    IN  /\ At(r, "route")
        /\ CASE to = "handled" -> Done(r)
             [] to = "ordinary" ->
                  Goto(r, IF req[r].kind = "Authenticate" THEN "authenticate" ELSE "authorize")
             [] OTHER -> req' = [req EXCEPT ![r].pc = "transition", ![r].op = to,
                                            ![r].att = att[d].id]
        /\ Read(d)
        /\ UNCHANGED Registers

\* transitionReplacement; the reply that carries the profile may be lost.
Transition(r) ==
    LET q == req[r]
        d == Device(q.id)
        a == Advanced(Current(d), q)
    IN  /\ At(r, "transition")
        /\ Done(r)
        /\ \/ /\ Active(d, q.att) /\ Permitted(Current(d), q) /\ Committable(d, a)
              /\ Advance(d, a)
              /\ \/ UNCHANGED holds
                 \/ q.op = "deliver" /\ holds' = [holds EXCEPT ![d] = @ \cup {q.att}]
           \/ /\ ~(Active(d, q.att) /\ Permitted(Current(d), q) /\ Committable(d, a))
              /\ Unchanged /\ UNCHANGED holds
        /\ UNCHANGED <<prepared, count, subject>>

(***************************************************************************)
(* The ordinary handling, which DeviceService refines.                     *)
(***************************************************************************)
\* authenticate: the policies on changed and reused certificates answer as they
\* like, and the store compares what they were asked about.
Authenticate(r) ==
    LET q == req[r]
        rotated == pin[q.id] # None /\ pin[q.id] # q.cert
    IN  /\ At(r, "authenticate")
        /\ Done(r)
        /\ \/ \E reuse \in BOOLEAN : AuthenticateEnrollment(q.id, pin[q.id], q.cert, reuse, rotated)
           \/ UNCHANGED store
        /\ UNCHANGED <<att, tokenBy, Registers>>

Authorized(q) ==
    /\ status[Device(q.id)] # "absent"
    /\ q.kind # "CheckOut" => status[Device(q.id)] # "disabled" /\ status[q.id] # "disabled"
    /\ pin[Device(q.id)] = q.cert

\* Connect goes on to the command queue, which no attempt touches.
Authorize(r) ==
    /\ At(r, "authorize")
    /\ IF Authorized(req[r]) /\ req[r].kind # "Connect" THEN Goto(r, "store")
       ELSE Done(r)
    /\ Unchanged /\ UNCHANGED Registers

StoreToken(r) ==
    LET id == req[r].id IN
    /\ At(r, "store") /\ req[r].kind = "TokenUpdate"
    /\ \/ id \in Users /\ status[id] = "absent" /\ UpsertAuthenticateUser(id)
          /\ UNCHANGED <<req, tokenBy>>
       \/ /\ StoreTokenUpdate(id)
          /\ tokenBy' = [d \in Devices |-> IF d = id THEN req[r].cert ELSE tokenBy[d]]
          /\ Done(r)
       \/ /\ ~TokenUpdateAllowed(id)
          /\ id \in Users /\ status[id] = "absent" => status[Parent[id]] \in {"absent", "disabled"}
          /\ Done(r) /\ UNCHANGED <<store, tokenBy>>
    /\ UNCHANGED <<att, Registers>>

CheckOut(r) ==
    /\ At(r, "store") /\ req[r].kind = "CheckOut"
    /\ IF status[req[r].id] = "absent" THEN UNCHANGED store ELSE Disable(req[r].id)
    /\ Done(r)
    /\ UNCHANGED <<att, tokenBy, Registers>>

AdminDisable(id) == Disable(id) /\ UNCHANGED <<att, service, tokenBy>>

Handle(r) ==
    \/ Admit(r) \/ Route(r) \/ Transition(r)
    \/ Authenticate(r) \/ Authorize(r) \/ StoreToken(r) \/ CheckOut(r)

Administer(d) ==
    \/ \E method \in Methods : Prepare(d, method)
    \/ Begin(d) \/ Cancel(d)
    \/ DeadlinePasses(d) \/ CandidateLapses(d)
    \/ \E id \in holds[d] : \/ \E key \in PublicKeys : Claim(d, id, key)
                           \/ \E c \in Candidates : Issue(d, id, c)

ReplacementNext ==
    \/ \E r \in Requests :
         \/ \E kind \in Kinds, id \in Ids, cert \in Certs, result \in Results,
               uuid \in 0 .. MaxAttempts : Receive(r, kind, id, cert, result, uuid)
         \/ Handle(r)
    \/ \E d \in Devices : Administer(d)
    \/ \E id \in Ids : AdminDisable(id)

ReplacementSpec == ReplacementInit /\ [][ReplacementNext]_vars

(***************************************************************************)
(* Properties.                                                             *)
(***************************************************************************)
AttemptType ==
    [id : 0 .. MaxAttempts, state : States, method : {"scep", "acme"}, old : Hashes,
     cand : Candidates \cup {None}, key : PublicKeys \cup {None}, delivered : BOOLEAN,
     acked : BOOLEAN, authed : BOOLEAN, tokens : SUBSET Ids, late : BOOLEAN, over : BOOLEAN]

Slot == [pc : {"idle", "admit", "route", "transition", "authenticate", "authorize", "store"},
         kind : Kinds, id : Ids \cup {None}, cert : Hashes, result : Results,
         uuid : 0 .. MaxAttempts, att : 0 .. MaxAttempts,
         op : {"none", "authenticate", "token", "deliver", "result"}]

ReplacementTypeOK ==
    /\ att \in [Devices -> AttemptType] /\ prepared \in [Devices -> AttemptType]
    /\ count \in [Devices -> 0 .. MaxAttempts]
    /\ subject \in [Candidates -> {None} \cup (Devices \X AttemptIds)]
    /\ holds \in [Devices -> SUBSET AttemptIds]
    /\ req \in [Requests -> Slot]
    /\ tokenBy \in [Devices -> Hashes]

Abstract == INSTANCE IdentityReplacement WITH
    phase <- [d \in Devices |-> status[d]],
    identity <- pin,
    origin <- [d \in Devices |-> att[d].old],
    outcome <- [d \in Devices |-> Current(d).state],
    candidate <- [d \in Devices |-> att[d].cand]

\* The handshake is one atomic change of identity: whatever messages, retries,
\* deadlines and administrators do between its steps, an attempt takes over
\* once and while it is pending, or leaves the enrollment as it was, and a
\* candidate that has not taken over never enrolls by the ordinary path.
ImplementsReplacement == Abstract!AttemptSpec

\* The evidence of a pending attempt builds up in order and belongs to it: a
\* candidate exists only once the profile was handed out, was issued for this
\* attempt and, with SCEP, for the key that claimed it; it authenticated
\* before it sent a token; and only a profile handed out is acknowledged.
EvidenceChain ==
    \A d \in Devices : LET a == att[d] IN a.state = "pending" =>
       /\ a.cand # None => /\ a.delivered
                           /\ subject[a.cand] = <<d, a.id>>
                           /\ a.method = "scep" => a.key = KeyOf[a.cand]
       /\ a.authed => a.cand # None
       /\ a.tokens # {} => a.authed
       /\ a.acked => a.delivered

\* What they rest on.  Attempts are numbered as they are prepared, only a stored
\* attempt's profile is handed out, and only a known device has one.
AttemptsNumbered ==
    \A d \in Devices :
       /\ att[d].id <= count[d]
       /\ prepared[d] # NoAttempt =>
            /\ att[d].id < prepared[d].id /\ prepared[d].id <= count[d]
            /\ prepared[d] = Attempt(prepared[d].id, "pending", prepared[d].method, prepared[d].old)
       /\ \A i \in holds[d] : i <= att[d].id
       /\ att[d].state = "none" \/ att[d].id = 0 => att[d] = NoAttempt
       /\ status[d] = "absent" => att[d] = NoAttempt /\ pin[d] = None

\* A candidate is issued once, for one attempt, before any device is pinned to
\* it, and it is that attempt's only one.
IssuedOnce ==
    /\ \A c \in Candidates, d \in Devices, i \in AttemptIds :
         subject[c] = <<d, i>> => i <= att[d].id /\ (i = att[d].id => att[d].cand = c)
    /\ \A d \in Devices : pin[d] \in Candidates => subject[pin[d]] # None

\* A pending attempt lacks some evidence, and its tokens are the device's own.
StillPending ==
    \A d \in Devices : LET a == att[d] IN a.state = "pending" =>
       /\ ~Complete(d, a) /\ a.tokens \subseteq Family(d)
       /\ a.id \in holds[d] => a.delivered

\* A message is an issued certificate's, and one routed to the ordinary
\* Authenticate does not come from the latest attempt's candidate.
RequestsRouted ==
    \A r \in Requests : LET q == req[r] IN q.pc # "idle" =>
       /\ q.id \in Ids /\ q.cert \in Certs
       /\ q.cert \in Candidates => subject[q.cert] # None
       /\ q.kind = "Authenticate" => q.id \in Devices
       /\ q.pc = "authenticate" => q.kind = "Authenticate" /\ att[q.id].cand # q.cert

\* The inductive invariant, beside the store's own.
ReplacementInvariant ==
    /\ StoreInvariant /\ ReplacementTypeOK /\ EvidenceChain
    /\ AttemptsNumbered /\ IssuedOnce /\ StillPending /\ RequestsRouted

\* An enabled device is reached with a push token that the identity it is
\* pinned to sent: the promotion applies the candidate's staged token and no
\* message of the replaced identity overwrites it.
PushUnderPin == \A d \in Devices : status[d] = "enabled" => tokenBy[d] = pin[d]
==============================================================================
