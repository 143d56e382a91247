--------------------------- MODULE DeviceInventory ---------------------------
(***************************************************************************)
(* One account's Automated Device Enrollment inventory: the workers of     *)
(* dep.Syncer that fetch Apple's list page by page and then follow its     *)
(* changes, the store they commit to, and the token import that renews or  *)
(* replaces the account behind them.  Apple's service is external.  Every  *)
(* store transaction and every answer of the service is one step; workers, *)
(* administrators and the service interleave between them.                 *)
(***************************************************************************)
EXTENDS Naturals, Sequences, FiniteSets

CONSTANTS
    Serials,    \* device serial numbers
    Workers,    \* concurrent runs of RunOnce for the account
    None,       \* no cursor value, nothing held
    PageSize,   \* the limit of one page
    MaxChanges, \* bound: changes at Apple
    MaxFaults   \* bound: failed and repeated calls, renewals and resets

ASSUME SizeAssumption ==
    /\ PageSize \in Nat \ {0}
    /\ MaxChanges \in Nat /\ MaxFaults \in Nat
ASSUME NoneAssumption == None \notin [pos : Nat, got : SUBSET Serials]

VARIABLES
    listed,  \* Apple: the serials assigned to the server now
    log,     \* Apple: the changes, oldest first
    account, \* the account's credentials and Apple server, numbered in the order imported
    cursor,  \* CursorStore: phase, revision, generation and value
    device,  \* DeviceStore: the row of each serial
    seen,    \* MarkFetched: the generation each serial was last seen in
    worker,  \* what a run holds between its calls
    faults   \* bound: faults so far

vars == <<listed, log, account, cursor, device, seen, worker, faults>>
apple == <<listed, log>>
store == <<account, cursor, device, seen>>

Op == [serial : Serials, op : {"added", "modified", "deleted"}]

\* Apple's opaque cursor: the position in the log when the fetch began and,
\* while it lasts, what was returned.  A cursor never stored has no phase.
Value == [pos : Nat, got : SUBSET Serials]
Cursor == [phase : {"unset", "fetch", "sync"}, rev : Nat, gen : Nat, value : {None} \cup Value]

Fault == faults < MaxFaults /\ faults' = faults + 1

(***************************************************************************)
(* Apple's service (external).                                             *)
(***************************************************************************)
Change(s) ==
    /\ Len(log) < MaxChanges
    /\ \E op \in IF s \in listed THEN {"modified", "deleted"} ELSE {"added"} :
         /\ log' = Append(log, [serial |-> s, op |-> op])
         /\ listed' = IF op = "deleted" THEN listed \ {s} ELSE listed \cup {s}
    /\ UNCHANGED <<store, worker, faults>>

\* The next serials of the list, in no order the syncer relies on, with the
\* cursor that follows.  The last page may still announce another one.
FetchAnswers(value) ==
    LET from == IF value = None THEN [pos |-> Len(log), got |-> {}] ELSE value
        rest == listed \ from.got
    IN {[devices |-> page, value |-> [from EXCEPT !.got = @ \cup page], more |-> more] :
          page \in {p \in SUBSET rest : Cardinality(p) = PageSize \/ p = rest},
          more \in BOOLEAN}

FetchPages(value) ==
    {a \in FetchAnswers(value) :
       /\ Cardinality(a.devices) <= PageSize
       /\ ~a.more => listed \subseteq a.value.got
       /\ a.more => a.value # value}

\* The changes after the cursor's position.
SyncPage(value) ==
    LET last == IF Len(log) < value.pos + PageSize THEN Len(log) ELSE value.pos + PageSize
    IN [ops |-> SubSeq(log, value.pos + 1, last),
        value |-> [pos |-> last, got |-> {}],
        more |-> last < Len(log)]

Exhausted(cur) ==
    IF cur.phase = "fetch" THEN cur.value # None /\ listed \subseteq cur.value.got
                           ELSE cur.value.pos = Len(log)

(***************************************************************************)
(* A worker's run.                                                         *)
(***************************************************************************)
Idle == [at |-> "idle", binding |-> None, cur |-> None, next |-> None, page |-> None,
         restarted |-> FALSE]

Goto(w, held) == worker' = [worker EXCEPT ![w] = held]

\* checkCursor: the account's credentials and the cursor are still the ones
\* the run was bound to.
CheckCursorValueOnly(w) == cursor.value = worker[w].cur.value
CheckCursor(w) == account = worker[w].binding /\ cursor = worker[w].cur

\* RunOnce binds the run to the account and the cursor; without a cursor, or
\* when it is too old, a fresh fetch starts.
Begin(w) ==
    /\ worker[w].at = "idle"
    /\ \/ /\ cursor.phase # "unset" /\ UNCHANGED faults
          /\ Goto(w, [Idle EXCEPT !.at = "call", !.binding = account, !.cur = cursor])
       \/ /\ IF cursor.phase = "unset" THEN UNCHANGED faults ELSE Fault
          /\ Goto(w, [Idle EXCEPT !.at = "restart", !.binding = account, !.cur = cursor])
    /\ UNCHANGED <<apple, store>>

\* startFetch persists a new generation before its first page is requested.
StartFetchSameGeneration(w) ==
    LET gen == IF cursor.gen = 0 THEN cursor.rev + 1 ELSE cursor.gen
        next == [phase |-> "fetch", rev |-> cursor.rev + 1, gen |-> gen, value |-> None]
    IN /\ worker[w].at = "restart" /\ CheckCursor(w)
       /\ cursor' = next
       /\ Goto(w, [worker[w] EXCEPT !.at = "call", !.cur = next])
       /\ UNCHANGED <<apple, account, device, seen, faults>>
StartFetch(w) ==
    LET next == [phase |-> "fetch", rev |-> cursor.rev + 1, gen |-> cursor.rev + 1, value |-> None]
    IN /\ worker[w].at = "restart" /\ CheckCursor(w)
       /\ cursor' = next
       /\ Goto(w, [worker[w] EXCEPT !.at = "call", !.cur = next])
       /\ UNCHANGED <<apple, account, device, seen, faults>>

\* A page of the full list: the run continues in the fetch while more follow.
CallFetch(w) ==
    LET cur == worker[w].cur IN
    /\ worker[w].at = "call" /\ cur.phase = "fetch" /\ account = worker[w].binding
    /\ \E a \in FetchPages(cur.value) :
         Goto(w, [worker[w] EXCEPT
           !.at = "commit",
           !.page = [s \in a.devices |-> "live"],
           !.next = [phase |-> IF a.more THEN "fetch" ELSE "sync", rev |-> cur.rev + 1,
                     gen |-> IF a.more THEN cur.gen ELSE 0, value |-> a.value]])
    /\ UNCHANGED <<apple, store, faults>>

\* Dedupe: the last operation of a page on a serial stands.
Dedupe(ops) ==
    [s \in {ops[k].serial : k \in DOMAIN ops} |->
       IF \E k \in DOMAIN ops : /\ ops[k] = [serial |-> s, op |-> "deleted"]
                               /\ \A j \in DOMAIN ops : ops[j].serial = s => j <= k
       THEN "deleted" ELSE "live"]

\* An empty page is a poll that only rewrites the cursor, and is bounded.
CallSync(w) ==
    LET cur == worker[w].cur
        a == SyncPage(cur.value)
    IN /\ worker[w].at = "call" /\ cur.phase = "sync" /\ account = worker[w].binding
       /\ Goto(w, [worker[w] EXCEPT
            !.at = IF a.more THEN "commit" ELSE "last",
            !.page = Dedupe(a.ops),
            !.next = [phase |-> "sync", rev |-> cur.rev + 1, gen |-> 0, value |-> a.value]])
       /\ IF a.ops = <<>> THEN Fault ELSE UNCHANGED faults
       /\ UNCHANGED <<apple, store>>

\* EXHAUSTED_CURSOR completes a fetch with an empty page and ends a sync.
CallExhausted(w) ==
    LET cur == worker[w].cur IN
    /\ worker[w].at = "call" /\ account = worker[w].binding /\ Exhausted(cur)
    /\ Goto(w, IF cur.phase = "sync" THEN Idle
               ELSE [worker[w] EXCEPT
                       !.at = "commit", !.page = [s \in {} |-> "live"],
                       !.next = [cur EXCEPT !.phase = "sync", !.gen = 0, !.rev = @ + 1]])
    /\ UNCHANGED <<apple, store, faults>>

\* EXPIRED_CURSOR, INVALID_CURSOR and CURSOR_REQUIRED restart the fetch once.
CallRejected(w) ==
    /\ Fault /\ worker[w].at = "call" /\ account = worker[w].binding
    /\ Goto(w, IF worker[w].restarted THEN Idle
               ELSE [worker[w] EXCEPT !.at = "restart", !.restarted = TRUE])
    /\ UNCHANGED <<apple, store>>

\* Any other failure, a lost page or a crash ends the run; the cursor stays.
Abort(w) ==
    /\ Fault /\ worker[w].at # "idle"
    /\ Goto(w, Idle)
    /\ UNCHANGED <<apple, store>>

\* A call whose account was replaced, and a transaction whose account or cursor
\* was, conflicts and ends the run.
Conflict(w) ==
    /\ \/ worker[w].at = "call" /\ account # worker[w].binding
       \/ worker[w].at \in {"restart", "commit", "last"} /\ ~CheckCursor(w)
    /\ Goto(w, Idle)
    /\ UNCHANGED <<apple, store, faults>>

Written(page) == [s \in Serials |-> IF s \in DOMAIN page THEN page[s] ELSE device[s]]
Marked(page, gen) == [s \in Serials |-> IF s \in DOMAIN page THEN gen ELSE seen[s]]

\* reconcile: what this generation has not seen is tombstoned when it is complete.
ReconciledNever(rows, marks, cur, next) == rows
ReconciledEveryPage(rows, marks, cur, next) ==
    IF cur.phase = "fetch"
    THEN [s \in Serials |-> IF rows[s] = "live" /\ marks[s] # cur.gen THEN "deleted" ELSE rows[s]]
    ELSE rows
Reconciled(rows, marks, cur, next) ==
    IF cur.phase = "fetch" /\ next.phase = "sync"
    THEN [s \in Serials |-> IF rows[s] = "live" /\ marks[s] # cur.gen THEN "deleted" ELSE rows[s]]
    ELSE rows

\* commitPage: rows, marks, reconciliation and the next cursor in one transaction.
Commit(w) ==
    LET cur == worker[w].cur
        next == worker[w].next
        page == worker[w].page
        marks == IF cur.phase = "fetch" THEN Marked(page, cur.gen) ELSE seen
    IN /\ worker[w].at \in {"commit", "last"} /\ CheckCursor(w)
       /\ device' = Reconciled(Written(page), marks, cur, next)
       /\ seen' = marks
       /\ cursor' = next
       /\ Goto(w, IF worker[w].at = "last" THEN Idle
                  ELSE [worker[w] EXCEPT !.at = "call", !.cur = next, !.next = None, !.page = None])
       /\ UNCHANGED <<apple, account, faults>>

(***************************************************************************)
(* Token import (commitTokens): a renewal changes the credentials only; a  *)
(* forced import of another server's token starts that server's inventory. *)
(***************************************************************************)
RenewTokens ==
    /\ Fault
    /\ account' = account + 1
    /\ UNCHANGED <<apple, cursor, device, seen, worker>>

\* resetAccount, with the list of the new server.
ResetAccount ==
    /\ Fault
    /\ account' = account + 1
    /\ device' = [s \in Serials |-> "none"]
    /\ seen' = [s \in Serials |-> 0]
    /\ cursor' = [phase |-> "fetch", rev |-> cursor.rev + 1, gen |-> cursor.rev + 1, value |-> None]
    /\ listed' \in SUBSET Serials
    /\ log' = <<>>
    /\ UNCHANGED worker

Init ==
    /\ listed \in SUBSET Serials
    /\ log = <<>>
    /\ account = 0
    /\ cursor = [phase |-> "unset", rev |-> 0, gen |-> 0, value |-> None]
    /\ device = [s \in Serials |-> "none"]
    /\ seen = [s \in Serials |-> 0]
    /\ worker = [w \in Workers |-> Idle]
    /\ faults = 0

Step(w) ==
    \/ Begin(w) \/ StartFetch(w) \/ CallFetch(w) \/ CallSync(w) \/ CallExhausted(w)
    \/ Commit(w) \/ Conflict(w)

Next ==
    \/ \E s \in Serials : Change(s)
    \/ \E w \in Workers : Step(w) \/ CallRejected(w) \/ Abort(w)
    \/ RenewTokens
    \/ ResetAccount

Spec == Init /\ [][Next]_vars
LiveSpec == Spec /\ \A w \in Workers : WF_vars(Step(w))

(***************************************************************************)
(* Properties.                                                             *)
(***************************************************************************)
Pages == UNION {[S -> {"live", "deleted"}] : S \in SUBSET Serials}
Held == [at : {"idle", "restart", "call", "commit", "last"}, binding : {None} \cup Nat,
         cur : {None} \cup Cursor, next : {None} \cup Cursor,
         page : {None} \cup Pages, restarted : BOOLEAN]

TypeOK ==
    /\ listed \subseteq Serials
    /\ log \in Seq(Op)
    /\ account \in Nat
    /\ cursor \in Cursor
    /\ device \in [Serials -> {"none", "live", "deleted"}]
    /\ seen \in [Serials -> Nat]
    /\ worker \in [Workers -> Held]
    /\ faults \in 0 .. MaxFaults

\* Apple changed the serial after a position of the log; added or deleted it.
Since(s, pos) == \E k \in DOMAIN log : k > pos /\ log[k].serial = s
Moved(s, pos) == \E k \in DOMAIN log : k > pos /\ log[k].serial = s /\ log[k].op # "modified"

\* The cursor never runs ahead of the rows: in the sync phase every serial
\* Apple has not changed since the cursor's position is stored live exactly
\* when Apple lists it, whichever workers committed the pages, however often
\* the fetch was interrupted and whatever changed between its pages.
InventoryCurrent ==
    cursor.phase = "sync" =>
       \A s \in Serials : Since(s, cursor.value.pos) \/ (device[s] = "live" <=> s \in listed)

\* A row is tombstoned only for a serial Apple did not list at some moment the
\* page speaks of: it is not listed now, or it came or went after the position
\* from which the cursor is being advanced.  Partial and superseded snapshots
\* never delete.
TombstonesJustified ==
    [][\A s \in Serials :
         device[s] = "live" /\ device'[s] = "deleted" =>
            s \notin listed
            \/ Moved(s, IF cursor.phase = "fetch" THEN cursor'.value.pos ELSE cursor.value.pos)]_vars

\* The account's rows are its present Apple server's: nothing a worker
\* fetched from the server before a reset is stored after it.
NothingForeign ==
    \A s \in Serials : device[s] # "none" => s \in listed \/ Since(s, 0)

\* Apple's log explains its list: a changed serial is off the list exactly when
\* its last change deleted it.
LastDeleted(s) ==
    \E k \in DOMAIN log : /\ log[k].serial = s /\ log[k].op = "deleted"
                          /\ \A j \in DOMAIN log : log[j].serial = s => j <= k
LogAgrees == \A s \in Serials : Since(s, 0) => (s \notin listed <=> LastDeleted(s))

\* A cursor of the present server.
Got(value) == IF value = None THEN {} ELSE value.got
Sound(cur) ==
    /\ cur.phase = "sync" => cur.value # None
    /\ cur.value # None => cur.value.pos <= Len(log)

\* The rows and marks of a fetch under way: its generation has seen what the
\* cursor says was returned, and nothing else.
SnapshotKept ==
    /\ Sound(cursor) /\ cursor.gen <= cursor.rev /\ \A s \in Serials : seen[s] <= cursor.rev
    /\ cursor.phase = "fetch" => \A s \in Serials :
         /\ seen[s] = cursor.gen <=> s \in Got(cursor.value)
         /\ s \in Got(cursor.value) =>
              device[s] = "live" /\ (s \in listed \/ Since(s, cursor.value.pos))

\* No run is ahead of the account or of the cursor.
Behind(held) ==
    held.at # "idle" =>
       /\ held.binding \in 0 .. account
       /\ held.cur \in Cursor /\ held.cur.rev <= cursor.rev
       /\ account = held.binding => Sound(held.cur)
       /\ held.at = "restart" \/ held.cur.phase # "unset"

\* A page whose transaction will pass, and the cursor it stores: the serials a
\* fetch returned were listed, none is missing when it is complete, and the
\* operations of a sync page stand for every change up to the next position.
PageOfList(cur, next, page) ==
    /\ Got(next.value) = Got(cur.value) \cup DOMAIN page
    /\ cur.value # None => next.value.pos = cur.value.pos
    /\ next.phase = "fetch" => next.gen = cur.gen
    /\ next.phase \in {"fetch", "sync"}
    /\ \A s \in DOMAIN page :
         page[s] = "live" /\ (s \in listed \/ Since(s, next.value.pos))
    /\ next.phase = "sync" => \A s \in listed : s \in next.value.got \/ Moved(s, next.value.pos)
PageOfChanges(cur, next, page) ==
    /\ next.phase = "sync"
    /\ \A s \in DOMAIN page :
         /\ Since(s, 0)
         /\ page[s] = "deleted" => Moved(s, cur.value.pos)
         /\ Since(s, next.value.pos) \/ (page[s] = "live" <=> s \in listed)
    /\ \A s \in Serials \ DOMAIN page :
         Since(s, cur.value.pos) => Since(s, next.value.pos)
Faithful(held) ==
    held.at \in {"commit", "last"} /\ account = held.binding /\ cursor = held.cur =>
       /\ held.next \in Cursor /\ held.next.rev = held.cur.rev + 1
       /\ held.next.value # None /\ held.next.gen <= held.next.rev /\ Sound(held.next)
       /\ held.page \in Pages
       /\ held.cur.phase = "fetch" => PageOfList(held.cur, held.next, held.page)
       /\ held.cur.phase = "sync" => PageOfChanges(held.cur, held.next, held.page)

RunsSound == \A w \in Workers : Behind(worker[w]) /\ Faithful(worker[w])

\* The inductive invariant.
InventoryInvariant ==
    /\ TypeOK /\ InventoryCurrent /\ NothingForeign
    /\ LogAgrees /\ SnapshotKept /\ RunsSound

\* Once Apple's list, the failures and the administrators come to rest, the
\* rows that are not tombstoned are Apple's list.
InventoryConverges == <>[]({s \in Serials : device[s] = "live"} = listed)
=============================================================================
