--------------------------- MODULE DeclarationSync ---------------------------
(***************************************************************************)
(* Declarative management: the engine of mdmprotocol/ddm over its store,   *)
(* the notifier of server/ddmsync that turns change rows into commands,    *)
(* the lifecycle cleanup of its service hook, and the device's sync loop   *)
(* as the repository's simulator runs it.  A server token is a digest of   *)
(* the content and a declarations token a digest of the manifest, so the   *)
(* content and the manifest stand for them.  Every store transaction is    *)
(* one step; the notifier and the devices interleave between theirs.       *)
(***************************************************************************)
EXTENDS Naturals, FiniteSets

CONSTANTS
    Enrollments, \* enrollment ids, device and user channels
    Parent,      \* the device of a user channel; a device is its own
    Identifiers, \* declaration identifiers
    Contents,    \* canonical declaration contents
    Sets,        \* declaration sets
    None,        \* no declaration, no manifest, no token
    Batch,       \* NotifierConfig.Batch
    MaxOps       \* bound: administrative writes, resets and failures

ASSUME ParentAssumption ==
    /\ IsFiniteSet(Enrollments)
    /\ Parent \in [Enrollments -> Enrollments]
    /\ \A e \in Enrollments : Parent[Parent[e]] = Parent[e]
ASSUME NothingAssumption ==
    None \notin Contents /\ \A m \in SUBSET (Identifiers \X Contents) : m # None
ASSUME LimitsAssumption == Batch \in Nat \ {0} /\ MaxOps \in Nat

VARIABLES
    decl,     \* st.decls: the current content of each declaration
    versions, \* st.versions: the revisions retained
    members,  \* st.members, None for a set that does not exist
    sets,     \* st.enrollSets
    direct,   \* st.enrollDecls
    snapshot, \* st.snapshots: the manifest last advertised
    changes,  \* st.changes: the pending rows
    seq,      \* the last change sequence number
    ops,      \* bound: writes, resets and failures so far
    on,       \* the enrollment row is enabled
    open,     \* tokens of the enrollment's unfinished DeclarativeManagement commands
    drain,    \* what DrainOnce holds between its calls
    dev,      \* the device's DDM client
    told,     \* history: the token last queued for the enrollment, None if dropped
    shared,   \* history: enrollments whose last change found its token's command unfinished
    granted   \* history: identifiers assigned to the enrollment since its last reset

admin == <<decl, versions, members, sets, direct>>
vars == <<admin, snapshot, changes, seq, ops, on, open, drain, dev, told, shared, granted>>

Items == Identifiers \X Contents
Manifests == SUBSET Items
Row == [seq : Nat, id : Enrollments, age : {"young", "due", "later"}]

\* One of the bounded operations.
Spend == ops < MaxOps /\ ops' = ops + 1

Family(e) == {x \in Enrollments : x = e \/ Parent[x] = e}

\* What the command queue requires of an enrollment.
Live(e) == on[e] /\ on[Parent[e]]

(***************************************************************************)
(* Membership.                                                             *)
(***************************************************************************)
Members(s) == IF members[s] = None THEN {} ELSE members[s]

\* staticIdentifiers
Assigned(e) == direct[e] \cup UNION {Members(s) : s \in sets[e]}

\* manifestFor, every declaration being eligible for every target.
Manifest(e) == {it \in Items : it[1] \in Assigned(e) /\ decl[it[1]] = it[2]}

\* AffectedEnrollments
Affected(identifiers, names) ==
    {e \in Enrollments :
       \/ direct[e] \cap identifiers # {}
       \/ \E s \in sets[e] : s \in names \/ Members(s) \cap identifiers # {}}

\* refreshSnapshot
Refreshed(e) == [snapshot EXCEPT ![e] = Manifest(e)]

(***************************************************************************)
(* Change rows.                                                            *)
(***************************************************************************)
\* RecordChanges: one row for each enrollment, under the next numbers.
RecordChanges(ids) ==
    \E number \in [ids -> seq + 1 .. seq + Cardinality(ids)] :
       /\ \A x, y \in ids : number[x] = number[y] => x = y
       /\ changes' = changes \cup {[seq |-> number[x], id |-> x, age |-> "young"] : x \in ids}
       /\ seq' = seq + Cardinality(ids)

\* FailChanges and CompleteChanges; unknown numbers are ignored.
FailChanges(numbers) ==
    changes' = {IF r.seq \in numbers THEN [r EXCEPT !.age = "later"] ELSE r : r \in changes}
CompleteChanges(numbers) ==
    changes' = {r \in changes : r.seq \notin numbers}

\* The coalescing window or a retry delay passes.
Elapse ==
    /\ \E r \in changes :
         /\ r.age # "due"
         /\ changes' = (changes \ {r}) \cup {[r EXCEPT !.age = "due"]}
    /\ UNCHANGED <<admin, snapshot, seq, ops, on, open, drain, dev, told, shared, granted>>

(***************************************************************************)
(* Administration (admin.go, publication.go), one transaction each.        *)
(***************************************************************************)
Elsewhere ==
    /\ UNCHANGED <<snapshot, on, open, drain, dev, told, shared>>
    /\ granted' = [e \in Enrollments |-> granted[e] \cup Assigned(e)']

\* Equal content is no change; a changed one is also recorded as a revision.
PutDeclaration(i, c) ==
    /\ Spend /\ decl[i] # c
    /\ decl' = [decl EXCEPT ![i] = c]
    /\ versions' = versions \cup {<<i, c>>}
    /\ RecordChanges(Affected({i}, {}))
    /\ UNCHANGED <<members, sets, direct>> /\ Elsewhere

Without(i) ==
    /\ decl' = [decl EXCEPT ![i] = None]
    /\ versions' = {v \in versions : v[1] # i}
    /\ members' = [s \in Sets |-> IF members[s] = None THEN None ELSE members[s] \ {i}]
    /\ direct' = [e \in Enrollments |-> direct[e] \ {i}]

\* The affected enrollments are listed before the rows that make them so go,
\* not after.
DeleteDeclarationFirst(i) ==
    /\ Spend /\ decl[i] # None
    /\ Without(i)
    /\ RecordChanges({e \in Enrollments :
                        i \in direct'[e] \/ \E s \in sets[e] : i \in members'[s]})
    /\ UNCHANGED sets /\ Elsewhere
DeleteDeclaration(i) ==
    /\ Spend /\ decl[i] # None
    /\ RecordChanges(Affected({i}, {}))
    /\ Without(i)
    /\ UNCHANGED sets /\ Elsewhere

PutSet(s) ==
    /\ Spend /\ members[s] = None
    /\ members' = [members EXCEPT ![s] = {}]
    /\ UNCHANGED <<decl, versions, sets, direct, changes, seq>> /\ Elsewhere

DeleteSet(s) ==
    /\ Spend /\ members[s] # None
    /\ RecordChanges(Affected({}, {s}))
    /\ members' = [members EXCEPT ![s] = None]
    /\ sets' = [e \in Enrollments |-> sets[e] \ {s}]
    /\ UNCHANGED <<decl, versions, direct>> /\ Elsewhere

\* AddToSet and RemoveFromSet
SetMembership(s, i) ==
    /\ Spend /\ members[s] # None
    /\ \/ decl[i] # None /\ i \notin members[s] /\ members' = [members EXCEPT ![s] = @ \cup {i}]
       \/ i \in members[s] /\ members' = [members EXCEPT ![s] = @ \ {i}]
    /\ RecordChanges(Affected({}, {s}))
    /\ UNCHANGED <<decl, versions, sets, direct>> /\ Elsewhere

\* PublishSet: the set's complete contents, replaced in one transaction.
PublishSet(s, wanted) ==
    LET ids == {it[1] : it \in wanted}
        changed == {it[1] : it \in {w \in wanted : decl[w[1]] # w[2]}}
    IN /\ Spend
       /\ \A v, w \in wanted : v[1] = w[1] => v = w
       /\ members[s] # ids \/ changed # {}
       /\ decl' = [i \in Identifiers |->
                     IF i \in changed THEN CHOOSE c \in Contents : <<i, c>> \in wanted ELSE decl[i]]
       /\ versions' = versions \cup {w \in wanted : w[1] \in changed}
       /\ members' = [members EXCEPT ![s] = ids]
       /\ RecordChanges(Affected(changed, {s}))
       /\ UNCHANGED <<sets, direct>> /\ Elsewhere

\* AssignSet and UnassignSet
AssignSet(e, s) ==
    /\ Spend
    /\ \/ members[s] # None /\ s \notin sets[e] /\ sets' = [sets EXCEPT ![e] = @ \cup {s}]
       \/ s \in sets[e] /\ sets' = [sets EXCEPT ![e] = @ \ {s}]
    /\ RecordChanges({e})
    /\ UNCHANGED <<decl, versions, members, direct>> /\ Elsewhere

\* AssignDeclaration and UnassignDeclaration
AssignDeclaration(e, i) ==
    /\ Spend
    /\ \/ decl[i] # None /\ i \notin direct[e] /\ direct' = [direct EXCEPT ![e] = @ \cup {i}]
       \/ i \in direct[e] /\ direct' = [direct EXCEPT ![e] = @ \ {i}]
    /\ RecordChanges({e})
    /\ UNCHANGED <<decl, versions, members, sets>> /\ Elsewhere

Touch(e) ==
    /\ Spend
    /\ RecordChanges({e})
    /\ UNCHANGED admin /\ Elsewhere

\* PruneVersions keeps what is current or advertised.
Advertised(e) == IF snapshot[e] = None THEN {} ELSE snapshot[e]
Referenced == {it \in Items : decl[it[1]] = it[2] \/ \E e \in Enrollments : it \in Advertised(e)}
PrunedToCurrent == {v \in versions : decl[v[1]] = v[2]}
Pruned == versions \cap Referenced

PruneVersions ==
    /\ versions # Pruned
    /\ versions' = Pruned
    /\ UNCHANGED <<decl, members, sets, direct, changes, seq, ops>> /\ Elsewhere

(***************************************************************************)
(* Lifecycle: a reset or a check-out ends the enrollment's commands, and   *)
(* ServiceHook.Complete clears its DDM state and its user channels' in the *)
(* same unit of work.                                                      *)
(***************************************************************************)
Offline == [phase |-> "idle", token |-> None, held |-> {}, cmd |-> None,
            tok |-> None, list |-> None, left |-> {}, gone |-> {}]

\* ClearEnrollment, the snapshot table included.
ClearedKeepSnapshots(ids) == snapshot
Cleared(ids) == [e \in Enrollments |-> IF e \in ids THEN None ELSE snapshot[e]]

Emptied(f, ids) == [x \in Enrollments |-> IF x \in ids THEN {} ELSE f[x]]

Reset(e) ==
    /\ Spend
    /\ on' = [x \in Enrollments |-> on[x] /\ x \notin Family(e)]
    /\ open' = Emptied(open, Family(e))
    /\ sets' = Emptied(sets, Family(e))
    /\ direct' = Emptied(direct, Family(e))
    /\ snapshot' = Cleared(Family(e))
    /\ changes' = {r \in changes : r.id \notin Family(e)}
    /\ dev' = [x \in Enrollments |-> IF x \in Family(e) THEN Offline ELSE dev[x]]
    /\ told' = Emptied(told, Family(e))
    /\ granted' = Emptied(granted, Family(e))
    /\ shared' = shared \ Family(e)
    /\ UNCHANGED <<decl, versions, members, seq, drain>>

TokenUpdate(e) ==
    /\ ~on[e] /\ (Parent[e] = e \/ on[Parent[e]])
    /\ on' = [on EXCEPT ![e] = TRUE]
    /\ UNCHANGED <<admin, snapshot, changes, seq, ops, open, drain, dev, told, shared, granted>>

(***************************************************************************)
(* The notifier.  Its memory: the rows read for each ready enrollment, the *)
(* enrollments still to command, those to push and those to complete.      *)
(***************************************************************************)
NoRows == [e \in Enrollments |-> {}]
Idle == [phase |-> "idle", rows |-> NoRows, todo |-> {}, at |-> None, token |-> None,
         push |-> {}, done |-> {}]

\* PendingChanges: the oldest Batch rows that are due for an attempt.
Pending ==
    LET due == {r \in changes : r.age # "later"}
    IN {r \in due : Cardinality({q \in due : q.seq < r.seq}) < Batch}

\* groupChanges, without the enrollments that changed within the window.
Ready == {e \in Enrollments :
            /\ \E r \in Pending : r.id = e
            /\ \A r \in Pending : r.id = e => r.age # "young"}

DrainRead ==
    /\ drain.phase = "idle" /\ Ready # {}
    /\ drain' = [Idle EXCEPT
         !.phase = "command", !.todo = Ready,
         !.rows = [e \in Enrollments |->
                     IF e \in Ready THEN {r.seq : r \in {q \in Pending : q.id = e}} ELSE {}]]
    /\ UNCHANGED <<admin, snapshot, changes, seq, ops, on, open, dev, told, shared, granted>>

\* Tokens refreshes the snapshot and returns its token ...
DrainTokens ==
    /\ drain.phase = "command"
    /\ \E e \in drain.todo :
         /\ snapshot' = Refreshed(e)
         /\ drain' = [drain EXCEPT !.phase = "enqueue", !.at = e, !.token = Manifest(e),
                                   !.todo = @ \ {e}]
    /\ UNCHANGED <<admin, changes, seq, ops, on, open, dev, told, shared, granted>>

\* ... and the command carrying it is queued under the token's own key: an
\* unfinished command with the same token stands for it, and an enrollment
\* that cannot be commanded is completed without a push.
HasGenerationAny(e, token) == open[e] # {}
HasGeneration(e, token) == token \in open[e]

\* A drain that outlived a reset no longer speaks for the enrollment.
Current(e) == \E r \in changes : r.seq \in drain.rows[e]
Queued(e) == IF Current(e) THEN drain.token ELSE told[e]

DrainEnqueue ==
    LET e == drain.at IN
    /\ drain.phase = "enqueue"
    /\ \/ /\ ~Live(e)
          /\ drain' = [drain EXCEPT !.phase = "command", !.at = None, !.token = None,
                                    !.done = @ \cup {e}]
          /\ told' = [told EXCEPT ![e] = IF Current(e) THEN None ELSE @]
          /\ UNCHANGED <<open, shared>>
       \/ /\ Live(e)
          /\ open' = [open EXCEPT ![e] = IF HasGeneration(e, drain.token) THEN @
                                         ELSE @ \cup {drain.token}]
          /\ drain' = [drain EXCEPT !.phase = "command", !.at = None, !.token = None,
                                    !.push = @ \cup {e}]
          /\ told' = [told EXCEPT ![e] = Queued(e)]
          /\ shared' = IF drain.token \in open[e] THEN shared \cup {e} ELSE shared \ {e}
    /\ UNCHANGED <<admin, snapshot, changes, seq, ops, on, dev, granted>>

\* Tokens or Enqueue failed: the rows are scheduled for another attempt.
DrainFail ==
    /\ Spend /\ drain.phase = "enqueue"
    /\ FailChanges(drain.rows[drain.at])
    /\ drain' = [drain EXCEPT !.phase = "command", !.at = None, !.token = None]
    /\ UNCHANGED <<admin, snapshot, seq, on, open, dev, told, shared, granted>>

\* push: each target is pushed (or its push token is dead) or fails.
DrainPush ==
    /\ drain.phase = "command" /\ drain.todo = {}
    /\ \E failed \in SUBSET drain.push :
         /\ IF failed = {} THEN UNCHANGED ops ELSE Spend
         /\ FailChanges(UNION {drain.rows[e] : e \in failed})
         /\ drain' = [drain EXCEPT !.phase = "complete", !.push = {},
                                   !.done = @ \cup (drain.push \ failed)]
    /\ UNCHANGED <<admin, snapshot, seq, on, open, dev, told, shared, granted>>

DrainComplete ==
    /\ drain.phase = "complete"
    /\ CompleteChanges(UNION {drain.rows[e] : e \in drain.done})
    /\ drain' = Idle
    /\ UNCHANGED <<admin, snapshot, seq, ops, on, open, dev, told, shared, granted>>

\* A store error, a cancelled context or a crash: only the rows survive.
DrainAbort ==
    /\ Spend /\ drain.phase # "idle"
    /\ drain' = Idle
    /\ UNCHANGED <<admin, snapshot, changes, seq, on, open, dev, told, shared, granted>>

DrainStep == DrainRead \/ DrainTokens \/ DrainEnqueue \/ DrainPush \/ DrainComplete

(***************************************************************************)
(* The device's client (simulator/ddm.go): a command's token against its   *)
(* own, then declaration-items, the declarations that differ, and tokens   *)
(* again until nothing moved.                                              *)
(***************************************************************************)
Compare(d, token) ==
    [d EXCEPT !.tok = token, !.phase = IF token = d.token THEN "reply" ELSE "items"]

\* The queue hands out an unfinished command; which one is left open, since a
\* NotNow answer lets a later command overtake.
Deliver(e, token) ==
    /\ Live(e) /\ dev[e].phase = "idle" /\ token \in open[e]
    /\ dev' = [dev EXCEPT ![e] = Compare([@ EXCEPT !.cmd = token], token)]
    /\ UNCHANGED <<admin, snapshot, changes, seq, ops, on, open, drain, told, shared, granted>>

FetchItems(e) ==
    /\ Live(e) /\ dev[e].phase = "items"
    /\ snapshot' = Refreshed(e)
    /\ dev' = [dev EXCEPT ![e] = [@ EXCEPT !.phase = "fetch", !.list = Manifest(e),
                                           !.left = Manifest(e) \ dev[e].held]]
    /\ UNCHANGED <<admin, changes, seq, ops, on, open, drain, told, shared, granted>>

\* Declaration: the snapshot as advertised, refreshed when there is none or
\* when one of its revisions was deleted.
Serving(e) == IF snapshot[e] = None \/ ~(snapshot[e] \subseteq versions)
              THEN Refreshed(e) ELSE snapshot

\* What is served is the snapshot's revision of the identifier; 404 otherwise.
Fetched(d, it, served) ==
    [d EXCEPT !.left = @ \ {it},
              !.gone = IF served = {} THEN @ \cup {it[1]} ELSE @,
              !.held = IF served = {} THEN @ ELSE {x \in @ : x[1] # it[1]} \cup served]
FetchDeclaration(e, it) ==
    LET served == {x \in Serving(e)[e] : x[1] = it[1]} IN
    /\ Live(e) /\ dev[e].phase = "fetch" /\ it \in dev[e].left
    /\ snapshot' = Serving(e)
    /\ dev' = [dev EXCEPT ![e] = Fetched(@, it, served)]
    /\ UNCHANGED <<admin, changes, seq, ops, on, open, drain, told, shared, granted>>

\* reconcile drops what the manifest no longer lists and what was 404.
Settle(e) ==
    LET d == dev[e]
        kept == {x \in d.held : x[1] \notin d.gone /\ \E it \in d.list : it[1] = x[1]}
    IN /\ d.phase = "fetch" /\ d.left = {}
       /\ dev' = [dev EXCEPT ![e] =
            [@ EXCEPT !.held = kept, !.token = d.list, !.gone = {}, !.list = None,
                      !.phase = IF d.list = d.tok THEN "reply" ELSE "tokens"]]
       /\ UNCHANGED <<admin, snapshot, changes, seq, ops, on, open, drain, told, shared, granted>>

FetchTokens(e) ==
    /\ Live(e) /\ dev[e].phase = "tokens"
    /\ snapshot' = Refreshed(e)
    /\ dev' = [dev EXCEPT ![e] = Compare(@, Manifest(e))]
    /\ UNCHANGED <<admin, changes, seq, ops, on, open, drain, told, shared, granted>>

Rested(d) == [d EXCEPT !.phase = "idle", !.cmd = None, !.tok = None]

Acknowledge(e) ==
    /\ Live(e) /\ dev[e].phase = "reply"
    /\ open' = [open EXCEPT ![e] = @ \ {dev[e].cmd}]
    /\ dev' = [dev EXCEPT ![e] = Rested(@)]
    /\ UNCHANGED <<admin, snapshot, changes, seq, ops, on, drain, told, shared, granted>>

\* The reply never arrives; the command is delivered again.
ReplyLost(e) ==
    /\ Spend /\ dev[e].phase = "reply"
    /\ dev' = [dev EXCEPT ![e] = Rested(@)]
    /\ UNCHANGED <<admin, snapshot, changes, seq, on, open, drain, told, shared, granted>>

DeviceStep(e) ==
    \/ \E token \in Manifests : Deliver(e, token)
    \/ FetchItems(e)
    \/ \E it \in Items : FetchDeclaration(e, it)
    \/ Settle(e)
    \/ FetchTokens(e)
    \/ Acknowledge(e)
    \/ ReplyLost(e)

(***************************************************************************)
(* The composition.                                                        *)
(***************************************************************************)
Init ==
    /\ decl = [i \in Identifiers |-> None]
    /\ versions = {}
    /\ members = [s \in Sets |-> None]
    /\ sets = [e \in Enrollments |-> {}]
    /\ direct = [e \in Enrollments |-> {}]
    /\ snapshot = [e \in Enrollments |-> None]
    /\ changes = {}
    /\ seq = 0
    /\ ops = 0
    /\ on = [e \in Enrollments |-> TRUE]
    /\ open = [e \in Enrollments |-> {}]
    /\ drain = Idle
    /\ dev = [e \in Enrollments |-> Offline]
    /\ told = [e \in Enrollments |-> {}]
    /\ shared = {}
    /\ granted = [e \in Enrollments |-> {}]

Administer ==
    \/ \E i \in Identifiers, c \in Contents : PutDeclaration(i, c)
    \/ \E i \in Identifiers : DeleteDeclaration(i)
    \/ \E s \in Sets : PutSet(s) \/ DeleteSet(s)
    \/ \E s \in Sets, i \in Identifiers : SetMembership(s, i)
    \/ \E s \in Sets, wanted \in Manifests : PublishSet(s, wanted)
    \/ \E e \in Enrollments, s \in Sets : AssignSet(e, s)
    \/ \E e \in Enrollments, i \in Identifiers : AssignDeclaration(e, i)
    \/ \E e \in Enrollments : Touch(e)
    \/ PruneVersions

Next ==
    \/ Administer
    \/ \E e \in Enrollments : Reset(e) \/ TokenUpdate(e) \/ DeviceStep(e)
    \/ Elapse
    \/ DrainStep \/ DrainFail \/ DrainAbort

Spec == Init /\ [][Next]_vars

Fairness ==
    /\ WF_vars(Elapse)
    /\ WF_vars(DrainStep)
    /\ \A e \in Enrollments : WF_vars(DeviceStep(e))

LiveSpec == Spec /\ Fairness

(***************************************************************************)
(* Properties.                                                             *)
(***************************************************************************)
DrainType == [phase : {"idle", "command", "enqueue", "complete"},
              rows : [Enrollments -> SUBSET Nat], todo : SUBSET Enrollments,
              at : {None} \cup Enrollments, token : {None} \cup Manifests,
              push : SUBSET Enrollments, done : SUBSET Enrollments]

DevType == [phase : {"idle", "items", "fetch", "tokens", "reply"},
            token : {None} \cup Manifests, held : Manifests, cmd : {None} \cup Manifests,
            tok : {None} \cup Manifests, list : {None} \cup Manifests, left : Manifests,
            gone : SUBSET Identifiers]

TypeOK ==
    /\ decl \in [Identifiers -> Contents \cup {None}]
    /\ versions \subseteq Items
    /\ members \in [Sets -> {None} \cup SUBSET Identifiers]
    /\ sets \in [Enrollments -> SUBSET Sets]
    /\ direct \in [Enrollments -> SUBSET Identifiers]
    /\ snapshot \in [Enrollments -> {None} \cup Manifests]
    /\ changes \subseteq Row
    /\ seq \in Nat /\ ops \in 0 .. MaxOps
    /\ on \in [Enrollments -> BOOLEAN]
    /\ open \in [Enrollments -> SUBSET Manifests]
    /\ drain \in DrainType
    /\ dev \in [Enrollments -> DevType]
    /\ told \in [Enrollments -> {None} \cup Manifests]
    /\ shared \subseteq Enrollments
    /\ granted \in [Enrollments -> SUBSET Identifiers]

\* No change is lost: unless its change was dropped because it could not be
\* commanded, an enrollment's last command carries its present manifest or a
\* change row still asks for another one, whatever was written while the
\* notifier held rows, tokens or a batch, and wherever it stopped.
ChangesAccounted ==
    \A e \in Enrollments :
       told[e] \in {None, Manifest(e)} \/ \E r \in changes : r.id = e

\* An enrollment that was reset or checked out starts over: the snapshot it is
\* served from and the declarations its device holds name only what was
\* assigned since.
NothingInherited ==
    \A e \in Enrollments :
       \A it \in dev[e].held \cup Advertised(e) : it[1] \in granted[e]

\* What the two rest on.  The rows are numbered once; those a drain holds are
\* the enrollment's own.
RowsNumbered ==
    /\ \A r \in changes : r.seq <= seq
    /\ \A r, q \in changes : r.seq = q.seq => r.id = q.id
    /\ \A e \in Enrollments : \A n \in drain.rows[e] : n <= seq
    /\ \A e \in Enrollments : \A r \in changes : r.seq \in drain.rows[e] => r.id = e

\* A change the drain under way did not read.
Newer(e) == \E r \in changes : r.id = e /\ r.seq \notin drain.rows[e]

\* What a drain will complete it has told, unless more was written since or a
\* reset took the rows it read.
DrainSpeaks ==
    /\ \A e \in drain.push \cup drain.done : told[e] \in {None, Manifest(e)} \/ Newer(e)
    /\ drain.phase = "enqueue" =>
         /\ drain.at \in Enrollments /\ drain.token \in Manifests
         /\ drain.token = Manifest(drain.at) \/ Newer(drain.at) \/ ~Current(drain.at)

AssignedGranted == \A e \in Enrollments : Assigned(e) \subseteq granted[e]

\* The inductive invariant.
DeclarationInvariant ==
    /\ TypeOK /\ ChangesAccounted /\ NothingInherited
    /\ RowsNumbered /\ DrainSpeaks /\ AssignedGranted

\* A revision a manifest advertises stays available for the fetch that
\* follows; only deleting the declaration takes it away.
AdvertisedKept ==
    [][\A e \in Enrollments :
         \A it \in Advertised(e) \cap versions :
            it \in versions' \/ decl'[it[1]] = None]_vars

\* The device's token.
Known(e) == IF dev[e].token = None THEN {} ELSE dev[e].token

\* Once writes, resets and failures stop, every enrollment that could be
\* commanded has synchronised with its present manifest, although unfinished
\* commands of the same generation suppress new ones and replies get lost.
TokensConverge ==
    \A e \in Enrollments : <>[](Live(e) /\ told[e] # None /\ e \notin shared => Known(e) = Manifest(e))

\* docs/research/decisions/0022: "Declaration changes need to reach devices
\* despite enqueue failures, push failures and bursts of administrative
\* writes."  In the end every device holds the declarations of its manifest.
DeclarationsConverge ==
    \A e \in Enrollments : <>[](Live(e) /\ told[e] # None => dev[e].held = Manifest(e))
=============================================================================
