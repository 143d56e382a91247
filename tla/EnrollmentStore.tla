--------------------------- MODULE EnrollmentStore ---------------------------
(***************************************************************************)
(* The enrollment store of devicemanagement/storage: enrollment rows, the  *)
(* certificate index and its history, escrowed bootstrap tokens, user      *)
(* authentication and the command queues.  Every operation is one critical *)
(* section of the in-memory backend's mutex; a call that returns an error  *)
(* changes nothing and is the stuttering step.                             *)
(***************************************************************************)
EXTENDS Naturals, Sequences, FiniteSets

CONSTANTS
    Devices,    \* device-channel enrollment ids
    Users,      \* user-channel enrollment ids
    Parent,     \* ParentID of each user channel
    Certs,      \* identity-certificate hashes
    Keys,       \* deduplication keys
    UUIDs,      \* command UUIDs
    None,       \* "no certificate", "no key", "no owner"
    UniqueUUID, \* the SQL backends refuse a UUID twice in one queue
    MaxQueued   \* bound: commands ever queued

Ids == Devices \cup Users

ASSUME IdsAssumption == Devices \cap Users = {} /\ Parent \in [Users -> Devices]
ASSUME NoneAssumption == None \notin Certs \cup Devices \cup Keys
ASSUME BoundsAssumption == UniqueUUID \in BOOLEAN /\ MaxQueued \in Nat

VARIABLES
    status,   \* row: absent, pending (authenticated), enabled or disabled
    pin,      \* row: CertHash of a device
    certs,    \* s.certs: which device a certificate currently identifies
    history,  \* s.history: every certificate a device was ever pinned to
    escrow,   \* s.bootstrap: devices with an escrowed bootstrap token
    userAuth, \* s.userAuth: the UserAuthenticate exchange of a user channel
    queue,    \* r.queue
    imported  \* history: rows Import wrote since their last reset

store == <<status, pin, certs, history, escrow, userAuth, queue, imported>>

Terminal == {"Acknowledged", "Error", "Cleared"}
Open == {"Pending", "Sent", "NotNow"}
\* wait: now is still before NotNowUntil.
Entry == [uuid : UUIDs, key : Keys \cup {None}, state : Open \cup Terminal,
          wait : BOOLEAN]

TypeOK ==
    /\ status \in [Ids -> {"absent", "pending", "enabled", "disabled"}]
    /\ pin \in [Devices -> Certs \cup {None}]
    /\ certs \in [Certs -> Devices \cup {None}]
    /\ history \subseteq Devices \X Certs
    /\ escrow \subseteq Devices
    /\ userAuth \in [Users -> {"none", "challenge", "token"}]
    /\ queue \in [Ids -> Seq(Entry)]
    /\ imported \subseteq Ids

Init ==
    /\ status = [id \in Ids |-> "absent"]
    /\ pin = [d \in Devices |-> None]
    /\ certs = [c \in Certs |-> None]
    /\ history = {}
    /\ escrow = {}
    /\ userAuth = [u \in Users |-> "none"]
    /\ queue = [id \in Ids |-> << >>]
    /\ imported = {}

Children(d) == {u \in Users : Parent[u] = d}
Family(d) == {d} \cup Children(d)

\* id.Device()
Device(id) == IF id \in Users THEN Parent[id] ELSE id

\* The check Enqueue, Next and StoreResult make: enabled, under an enabled
\* device.
Live(id) == status[id] = "enabled" /\ status[Device(id)] = "enabled"

(***************************************************************************)
(* Helpers of the mutations.                                               *)
(***************************************************************************)
Cleared(q) ==
    [i \in DOMAIN q |->
       IF q[i].state \in Open THEN [q[i] EXCEPT !.state = "Cleared"] ELSE q[i]]

\* clearPendingLocked on every row of ids.
ClearPendingDevicesOnly(ids) ==
    [id \in Ids |-> IF id \in ids \ Users THEN Cleared(queue[id]) ELSE queue[id]]
ClearPending(ids) ==
    [id \in Ids |-> IF id \in ids THEN Cleared(queue[id]) ELSE queue[id]]

\* dropCertLocked, then the new pin when there is one.
Repin(d, c) ==
    [h \in Certs |-> IF h = c THEN d
                     ELSE IF certs[h] = d THEN None ELSE certs[h]]

\* recordAssociationLocked
RecordAssociation(d, c) == IF c = None THEN history ELSE history \cup {<<d, c>>}

\* resetAuthenticateLocked: everything the previous identity owned goes.
ResetDevice(d, c) ==
    /\ status' = [id \in Ids |->
                    IF id = d \/ (id \in Children(d) /\ status[id] # "absent")
                    THEN "pending" ELSE status[id]]
    /\ pin' = [pin EXCEPT ![d] = c]
    /\ certs' = Repin(d, c)
    /\ history' = RecordAssociation(d, c)
    /\ escrow' = escrow \ {d}
    /\ userAuth' = [u \in Users |-> IF Parent[u] = d THEN "none" ELSE userAuth[u]]
    /\ queue' = ClearPending(Family(d))
    /\ imported' = imported \ Family(d)

(***************************************************************************)
(* EnrollmentStore.                                                        *)
(***************************************************************************)
CheckAuthenticateUncompared(d, expected, hash, reenroll) ==
    IF status[d] = "disabled" /\ (~reenroll \/ hash = None \/ hash = pin[d]) THEN "disabled"
    ELSE IF hash # None /\ pin[d] = hash THEN "retry" ELSE "reset"
CheckAuthenticate(d, expected, hash, reenroll) ==
    IF status[d] = "absent" THEN IF expected = None THEN "reset" ELSE "conflict"
    ELSE IF status[d] = "disabled" /\ (~reenroll \/ hash = None \/ hash = pin[d])
         THEN "disabled"
    ELSE IF hash # None /\ pin[d] = hash THEN "retry"
    ELSE IF pin[d] = expected THEN "reset" ELSE "conflict"

\* No other device holds the certificate, or ever held it unless reuse is allowed.
CertAvailableUnchecked(d, hash, reuse) == TRUE
CertAvailable(d, hash, reuse) ==
    hash # None =>
      /\ certs[hash] \in {None, d}
      /\ reuse \/ \A o \in Devices \ {d} : <<o, hash>> \notin history

\* An idempotent retry leaves the store as it is.
AuthenticateEnrollment(d, expected, hash, reuse, reenroll) ==
    /\ CheckAuthenticate(d, expected, hash, reenroll) = "reset"
    /\ CertAvailable(d, hash, reuse)
    /\ ResetDevice(d, hash)

UpsertAuthenticateDevice(d) == ResetDevice(d, None)

UpsertAuthenticateUser(u) ==
    /\ status[Parent[u]] \notin {"absent", "disabled"}
    /\ status' = [status EXCEPT ![u] = "pending"]
    /\ queue' = ClearPending({u})
    /\ imported' = imported \ {u}
    /\ UNCHANGED <<pin, certs, history, escrow, userAuth>>

\* The device row was written and neither it nor the id's own row is disabled.
TokenUpdateAllowedDevice(id) == status[Device(id)] \in {"pending", "enabled"}
TokenUpdateAllowed(id) ==
    /\ status[id] \in {"pending", "enabled"}
    /\ status[Device(id)] \in {"pending", "enabled"}

StoreTokenUpdate(id) ==
    /\ TokenUpdateAllowed(id)
    /\ status' = [status EXCEPT ![id] = "enabled"]
    /\ UNCHANGED <<pin, certs, history, escrow, userAuth, queue, imported>>

\* Disable, with disableChildrenLocked for a device.
DisabledRowsOnly(id) == {id}
DisabledRows(id) ==
    {id} \cup {u \in Users : Parent[u] = id /\ status[u] # "absent"}

Disable(id) ==
    /\ status[id] # "absent"
    /\ status' = [x \in Ids |-> IF x \in DisabledRows(id) THEN "disabled" ELSE status[x]]
    /\ queue' = ClearPending(DisabledRows(id))
    /\ UNCHANGED <<pin, certs, history, escrow, userAuth, imported>>

(***************************************************************************)
(* CommandQueue.                                                           *)
(***************************************************************************)
HasPendingKeyUnsent(id, key) ==
    \E i \in DOMAIN queue[id] :
       queue[id][i].key = key /\ queue[id][i].state = "Pending"
HasPendingKey(id, key) ==
    \E i \in DOMAIN queue[id] :
       queue[id][i].key = key /\ queue[id][i].state \in Open

HasUUID(id, uuid) == \E i \in DOMAIN queue[id] : queue[id][i].uuid = uuid

Accepts(id, key) ==
    /\ Live(id)
    /\ key # None => ~HasPendingKey(id, key)

Queued == UNION {{id} \X DOMAIN queue[id] : id \in Ids}

\* One call serves several enrollments; those that cannot take it are skipped.
\* A repeated UUID fails the INSERT of a SQL backend, and with it the whole call.
Enqueue(ids, uuid, key) ==
    /\ Cardinality(Queued) + Cardinality(ids) <= MaxQueued
    /\ UniqueUUID => \A id \in ids : Accepts(id, key) => ~HasUUID(id, uuid)
    /\ queue' = [id \in Ids |->
                   IF id \in ids /\ Accepts(id, key)
                   THEN Append(queue[id], [uuid |-> uuid, key |-> key,
                                           state |-> "Pending", wait |-> FALSE])
                   ELSE queue[id]]
    /\ UNCHANGED <<status, pin, certs, history, escrow, userAuth, imported>>

EligibleOnce(e, skipNotNow) == e.state \in {"Pending", "Sent"}
Eligible(e, skipNotNow) ==
    \/ e.state \in {"Pending", "Sent"}
    \/ e.state = "NotNow" /\ ~skipNotNow /\ ~e.wait

IsNext(id, skipNotNow, i) ==
    /\ i \in DOMAIN queue[id]
    /\ Eligible(queue[id][i], skipNotNow)
    /\ \A j \in 1 .. i - 1 : ~Eligible(queue[id][j], skipNotNow)

\* The store's Next: hand out the oldest eligible command and mark it sent.
NextCommandUnmarked(id, skipNotNow, i) ==
    /\ Live(id) /\ IsNext(id, skipNotNow, i)
    /\ UNCHANGED store
NextCommand(id, skipNotNow, i) ==
    /\ Live(id)
    /\ IsNext(id, skipNotNow, i)
    /\ queue' = [queue EXCEPT ![id][i].state = "Sent"]
    /\ UNCHANGED <<status, pin, certs, history, escrow, userAuth, imported>>

Answer(e, result) ==
    CASE result = "Acknowledged" -> [e EXCEPT !.state = "Acknowledged"]
      [] result = "NotNow" -> [e EXCEPT !.state = "NotNow", !.wait = TRUE]
      [] OTHER -> [e EXCEPT !.state = "Error"]

\* A result answers the first open command with its UUID.
AnsweredAnyState(id, uuid, i) ==
    /\ i \in DOMAIN queue[id] /\ queue[id][i].uuid = uuid
    /\ \A j \in 1 .. i - 1 : queue[id][j].uuid # uuid
Answered(id, uuid, i) ==
    /\ i \in DOMAIN queue[id]
    /\ queue[id][i].uuid = uuid /\ queue[id][i].state \in Open
    /\ \A j \in 1 .. i - 1 :
         queue[id][j].uuid = uuid => queue[id][j].state \in Terminal

StoreResult(id, uuid, result) ==
    /\ Live(id)
    /\ \E i \in DOMAIN queue[id] :
         /\ Answered(id, uuid, i)
         /\ queue' = [queue EXCEPT ![id][i] = Answer(@, result)]
    /\ UNCHANGED <<status, pin, certs, history, escrow, userAuth, imported>>

\* Clear on any filter, of which ClearCommand is one: some open commands go.
Clear(id, picked) ==
    /\ status[id] # "absent"
    /\ picked # {}
    /\ picked \subseteq {i \in DOMAIN queue[id] : queue[id][i].state \in Open}
    /\ queue' = [queue EXCEPT ![id] =
                   [i \in DOMAIN @ |-> IF i \in picked
                                       THEN [@[i] EXCEPT !.state = "Cleared"]
                                       ELSE @[i]]]
    /\ UNCHANGED <<status, pin, certs, history, escrow, userAuth, imported>>

\* NotNowUntil of a deferred command passes.
BackoffElapses(id, i) ==
    /\ queue[id][i].state = "NotNow" /\ queue[id][i].wait
    /\ queue' = [queue EXCEPT ![id][i].wait = FALSE]
    /\ UNCHANGED <<status, pin, certs, history, escrow, userAuth, imported>>

(***************************************************************************)
(* CertAuthStore, BootstrapTokenStore, UserAuthStore, MigrationStore.      *)
(***************************************************************************)
AssociateCert(id, hash) ==
    LET d == Device(id) IN
    /\ status[d] # "absent"
    /\ certs[hash] \in {None, d}
    /\ certs' = Repin(d, hash)
    /\ pin' = [pin EXCEPT ![d] = hash]
    /\ history' = RecordAssociation(d, hash)
    /\ UNCHANGED <<status, escrow, userAuth, queue, imported>>

\* An empty token removes the escrow.
StoreBootstrapToken(id, token) ==
    LET d == Device(id) IN
    /\ status[d] \notin {"absent", "disabled"}
    /\ escrow' = IF token THEN escrow \cup {d} ELSE escrow \ {d}
    /\ UNCHANGED <<status, pin, certs, history, userAuth, queue, imported>>

\* userAuthTargetLocked
UserAuthTarget(u) ==
    status[u] # "disabled" /\ status[Parent[u]] \notin {"absent", "disabled"}

StoreUserAuthChallenge(u) ==
    /\ UserAuthTarget(u)
    /\ userAuth' = [userAuth EXCEPT ![u] = "challenge"]
    /\ status' = [status EXCEPT ![u] = IF @ = "absent" THEN "pending" ELSE @]
    /\ UNCHANGED <<pin, certs, history, escrow, queue, imported>>

StoreUserAuthToken(u) ==
    /\ UserAuthTarget(u)
    /\ userAuth[u] # "none"
    /\ userAuth' = [userAuth EXCEPT ![u] = "token"]
    /\ UNCHANGED <<status, pin, certs, history, escrow, queue, imported>>

ClearUserAuth(u) ==
    /\ UserAuthTarget(u)
    /\ userAuth' = [userAuth EXCEPT ![u] = "none"]
    /\ UNCHANGED <<status, pin, certs, history, escrow, queue, imported>>

\* Import writes a device row, its pin, escrow and history as another store
\* exported them (there the pin is in the history); queues stay.
ImportDevice(d, st, hash, token, past) ==
    /\ hash # None => hash \in past /\ certs[hash] \in {None, d}
    /\ status' = [status EXCEPT ![d] = st]
    /\ pin' = [pin EXCEPT ![d] = hash]
    /\ certs' = Repin(d, hash)
    /\ escrow' = IF token THEN escrow \cup {d} ELSE escrow \ {d}
    /\ history' = history \cup ({d} \X past)
    /\ imported' = imported \cup {d}
    /\ UNCHANGED <<userAuth, queue>>

ImportUser(u, st) ==
    /\ status[Parent[u]] # "absent"
    /\ status' = [status EXCEPT ![u] = st]
    /\ imported' = imported \cup {u}
    /\ UNCHANGED <<pin, certs, history, escrow, userAuth, queue>>

(***************************************************************************)
(* The store, under every sequence of calls.                               *)
(***************************************************************************)
Hashes == Certs \cup {None}
Written == {"pending", "enabled", "disabled"}

IdentityStep ==
    \/ \E d \in Devices, expected, hash \in Hashes, reuse, reenroll \in BOOLEAN :
         AuthenticateEnrollment(d, expected, hash, reuse, reenroll)
    \/ \E d \in Devices : UpsertAuthenticateDevice(d)
    \/ \E u \in Users : UpsertAuthenticateUser(u)
    \/ \E id \in Ids : StoreTokenUpdate(id) \/ Disable(id)
    \/ \E id \in Ids, hash \in Certs : AssociateCert(id, hash)
    \/ \E id \in Ids, token \in BOOLEAN : StoreBootstrapToken(id, token)

UserAuthStep ==
    \E u \in Users : StoreUserAuthChallenge(u) \/ StoreUserAuthToken(u) \/ ClearUserAuth(u)

EnrollmentStep == IdentityStep \/ UserAuthStep

QueueStep ==
    \/ \E ids \in SUBSET Ids, uuid \in UUIDs, key \in Keys \cup {None} :
         Enqueue(ids, uuid, key)
    \/ \E id \in Ids, skip \in BOOLEAN :
         \E i \in DOMAIN queue[id] : NextCommand(id, skip, i)
    \/ \E id \in Ids, uuid \in UUIDs, result \in {"Acknowledged", "NotNow", "Error"} :
         StoreResult(id, uuid, result)
    \/ \E id \in Ids : \E picked \in SUBSET DOMAIN queue[id] : Clear(id, picked)
    \/ \E id \in Ids : \E i \in DOMAIN queue[id] : BackoffElapses(id, i)

ImportStep ==
    \/ \E d \in Devices, st \in Written, hash \in Hashes, token \in BOOLEAN,
          past \in SUBSET Certs : ImportDevice(d, st, hash, token, past)
    \/ \E u \in Users, st \in Written : ImportUser(u, st)

Next == EnrollmentStep \/ QueueStep \/ ImportStep

Spec == Init /\ [][Next]_store

(***************************************************************************)
(* Properties.                                                             *)
(***************************************************************************)
\* s.certs and the CertHash of the rows always agree, so a certificate
\* identifies at most one device and EnrollmentByCertHash never returns a
\* device that is pinned to another certificate.
IdentityIndex ==
    \A d \in Devices, c \in Certs : certs[c] = d <=> pin[d] = c

\* Every pin is in the history that the reuse check and revocation read.
PinRecorded == \A d \in Devices : pin[d] # None => <<d, pin[d]>> \in history

\* A command is open only while its enrollment and its device are enabled:
\* no re-enrollment, removal or parent change leaves a command behind that a
\* later enrollment would receive.  Import is documented not to touch queues.
OpenOnlyWhenLive ==
    \A id \in Ids : id \notin imported /\ Device(id) \notin imported =>
       \A i \in DOMAIN queue[id] : queue[id][i].state \in Open => Live(id)

\* Two open commands of one queue never share a deduplication key.
OneOpenPerKey ==
    \A id \in Ids : \A i, j \in DOMAIN queue[id] :
       /\ queue[id][i].state \in Open /\ queue[id][j].state \in Open
       /\ queue[id][i].key = queue[id][j].key /\ queue[id][i].key # None
       => i = j

\* A user channel exists only under a device row, and is disabled whenever
\* its device is; user authentication never outlives the rows it is about.
FamilyConsistent ==
    \A u \in Users :
       /\ status[u] # "absent" => status[Parent[u]] # "absent"
       /\ userAuth[u] # "none" => status[u] # "absent"
       /\ status[Parent[u]] = "disabled" /\ u \notin imported /\ Parent[u] \notin imported
          => status[u] \in {"absent", "disabled"}

\* Settled commands are never reopened or rewritten, queues only grow and the
\* association history only grows.
RecordsFinal ==
    [][/\ history \subseteq history'
       /\ \A id \in Ids :
            /\ Len(queue'[id]) >= Len(queue[id])
            /\ \A i \in DOMAIN queue[id] :
                 /\ queue'[id][i].uuid = queue[id][i].uuid
                 /\ queue[id][i].state \in Terminal => queue'[id][i] = queue[id][i]]_store

StoreInvariant ==
    /\ TypeOK /\ IdentityIndex /\ PinRecorded
    /\ OpenOnlyWhenLive /\ OneOpenPerKey /\ FamilyConsistent
=============================================================================
