------------------------ MODULE DeviceInventoryProofs ------------------------
(***************************************************************************)
(* The inventory's safety for any set of devices and workers, any page     *)
(* size and any number of changes, failures, renewals and resets.          *)
(***************************************************************************)
EXTENDS DeviceInventory, SequenceTheorems, TLAPS

\* Zenon proves most leaves; those on arithmetic and records name SMT.
USE ZenonT(20), SizeAssumption DEF SizeAssumption

(***************************************************************************)
(* Apple's log.                                                            *)
(***************************************************************************)
LEMMA LogDomain ==
  ASSUME TypeOK
  PROVE  /\ Len(log) \in Nat /\ DOMAIN log = 1 .. Len(log)
         /\ \A k \in DOMAIN log : log[k] \in Op
  BY LenProperties, ElementOfSeq DEF TypeOK

LEMMA MovedSince ==
  ASSUME TypeOK, NEW s, NEW pos \in Nat
  PROVE  /\ Moved(s, pos) => Since(s, pos)
         /\ Since(s, pos) => Since(s, 0)
  <1>1. Moved(s, pos) => Since(s, pos)
    BY DEF Moved, Since
  <1>2. Since(s, pos) => Since(s, 0)
    BY SMT, LogDomain DEF Since
  <1>3. QED
    BY <1>1, <1>2

\* A change is after every earlier position, for its serial only.
LEMMA ChangeLog ==
  ASSUME TypeOK, NEW s \in Serials, Change(s)
  PROVE  /\ log' \in Seq(Op) /\ Len(log') = Len(log) + 1
         /\ listed' \subseteq Serials
         /\ DOMAIN log' = 1 .. Len(log) + 1
         /\ \A k \in DOMAIN log : log'[k] = log[k]
         /\ log'[Len(log) + 1].serial = s
         /\ \A t \in Serials \ {s} : t \in listed' <=> t \in listed
         /\ s \in listed' <=> log'[Len(log) + 1].op # "deleted"
         /\ s \in listed \/ log'[Len(log) + 1].op # "modified"
  <1>1. PICK op \in IF s \in listed THEN {"modified", "deleted"} ELSE {"added"} :
          /\ log' = Append(log, [serial |-> s, op |-> op])
          /\ listed' = IF op = "deleted" THEN listed \ {s} ELSE listed \cup {s}
    BY DEF Change
  <1>2. op \in {"added", "modified", "deleted"}
    OBVIOUS
  <1>3. [serial |-> s, op |-> op] \in Op
    BY <1>2 DEF Op
  <1>4. log \in Seq(Op) /\ listed \subseteq Serials
    BY DEF TypeOK
  <1>5. /\ log' \in Seq(Op) /\ Len(log') = Len(log) + 1
        /\ \A k \in 1 .. Len(log) : log'[k] = log[k]
        /\ log'[Len(log) + 1] = [serial |-> s, op |-> op]
    BY SMT, <1>1, <1>3, <1>4, AppendProperties
  <1>6. DOMAIN log' = 1 .. Len(log) + 1
    BY <1>5, LenProperties
  <1>7. QED
    BY SMT, <1>1, <1>4, <1>5, <1>6, LogDomain

LEMMA ChangeSince ==
  ASSUME TypeOK, NEW s \in Serials, Change(s)
  PROVE  /\ \A t \in Serials, pos \in Nat : Since(t, pos) => Since(t, pos)'
         /\ \A t \in Serials, pos \in Nat : Moved(t, pos) => Moved(t, pos)'
         /\ \A t \in Serials \ {s}, pos \in Nat : Since(t, pos)' => Since(t, pos)
         /\ \A pos \in 0 .. Len(log) : Since(s, pos)'
         /\ s \in listed' /\ s \notin listed => \A pos \in 0 .. Len(log) : Moved(s, pos)'
  <1> USE ChangeLog, LogDomain
  <1>1. \A t \in Serials, pos \in Nat : Since(t, pos) => Since(t, pos)'
    BY SMT DEF Since
  <1>2. \A t \in Serials, pos \in Nat : Moved(t, pos) => Moved(t, pos)'
    BY SMT DEF Moved
  <1>3. \A t \in Serials \ {s}, pos \in Nat : Since(t, pos)' => Since(t, pos)
    BY SMT DEF Since
  <1>4. \A pos \in 0 .. Len(log) : Since(s, pos)'
    BY SMT DEF Since
  <1>5. s \in listed' /\ s \notin listed => \A pos \in 0 .. Len(log) : Moved(s, pos)'
    BY SMT DEF Moved
  <1>6. QED
    BY <1>1, <1>2, <1>3, <1>4, <1>5

LEMMA ChangeAgrees ==
  ASSUME TypeOK, LogAgrees, NEW s \in Serials, Change(s)
  PROVE  LogAgrees'
  <1> USE ChangeLog, LogDomain
  <1>1. LastDeleted(s)' <=> s \notin listed'
    <2>1. LastDeleted(s)' => s \notin listed'
      BY SMT DEF LastDeleted
    <2>2. s \notin listed' => LastDeleted(s)'
      BY SMT DEF LastDeleted
    <2>3. QED
      BY <2>1, <2>2
  <1>2. ASSUME NEW t \in Serials \ {s} PROVE LastDeleted(t)' <=> LastDeleted(t)
    <2>1. LastDeleted(t)' => LastDeleted(t)
      BY SMT DEF LastDeleted
    <2>2. LastDeleted(t) => LastDeleted(t)'
      BY SMT DEF LastDeleted
    <2>3. QED
      BY <2>1, <2>2
  <1>3. QED
    BY <1>1, <1>2, ChangeSince DEF LogAgrees

\* Cursors and pages stay sound while the log grows.
LEMMA CursorValue ==
  ASSUME NEW cur \in Cursor, cur.value # None
  PROVE  cur.value \in Value /\ cur.value.pos \in Nat /\ cur.value.got \subseteq Serials
  <1>1. cur.value \in Value
    BY DEF Cursor
  <1>2. QED
    BY <1>1 DEF Value

LEMMA SoundPosition ==
  ASSUME TypeOK, NEW cur \in Cursor, Sound(cur), cur.value # None
  PROVE  cur.value.pos \in 0 .. Len(log)
  BY SMT, CursorValue, LogDomain DEF Sound

LEMMA ChangeSound ==
  ASSUME TypeOK, NEW s \in Serials, Change(s), NEW cur \in Cursor, Sound(cur)
  PROVE  Sound(cur)'
  <1>1. Len(log') = Len(log) + 1 /\ Len(log) \in Nat
    BY ChangeLog, LogDomain
  <1>2. cur.value # None => cur.value.pos \in 0 .. Len(log)
    BY SoundPosition
  <1>3. QED
    BY SMT, <1>1, <1>2 DEF Sound

LEMMA ChangePageOfList ==
  ASSUME TypeOK, NEW s \in Serials, Change(s), NEW cur, NEW next, NEW page \in Pages,
         next.value.pos \in 0 .. Len(log), PageOfList(cur, next, page)
  PROVE  PageOfList(cur, next, page)'
  <1>1. DOMAIN page \subseteq Serials
    BY DEF Pages
  <1>2. PICK pos \in 0 .. Len(log) : pos = next.value.pos
    OBVIOUS
  <1>3. pos \in Nat
    BY SMT, LogDomain
  <1>4. ASSUME NEW t \in DOMAIN page PROVE t \in listed' \/ Since(t, pos)'
    <2>1. t \in Serials /\ (t \in listed \/ Since(t, pos))
      BY <1>1, <1>2 DEF PageOfList
    <2>2. CASE t = s
      BY <2>2, ChangeSince
    <2>3. CASE t # s
      BY <1>3, <2>1, <2>3, ChangeSince, ChangeLog
    <2>4. QED
      BY <2>2, <2>3
  <1>5. ASSUME next.phase = "sync", NEW t \in listed', t \notin next.value.got
        PROVE  Moved(t, pos)'
    <2>1. t \in listed => Moved(t, pos)
      BY <1>2, <1>5 DEF PageOfList
    <2>2. t \in Serials
      BY <1>5, ChangeLog
    <2>3. t \notin listed => t = s
      BY <1>5, <2>2, ChangeLog
    <2>4. QED
      BY <1>3, <1>5, <2>1, <2>2, <2>3, ChangeSince
  <1>6. QED
    BY <1>2, <1>4, <1>5 DEF PageOfList

LEMMA ChangePageOfChanges ==
  ASSUME TypeOK, NEW s \in Serials, Change(s), NEW cur, NEW next, NEW page \in Pages,
         next.value.pos \in 0 .. Len(log), cur.value.pos \in 0 .. Len(log),
         PageOfChanges(cur, next, page)
  PROVE  PageOfChanges(cur, next, page)'
  <1>1. DOMAIN page \subseteq Serials
    BY DEF Pages
  <1>2. PICK pos \in 0 .. Len(log), from \in 0 .. Len(log) :
          pos = next.value.pos /\ from = cur.value.pos
    OBVIOUS
  <1>3. pos \in Nat /\ from \in Nat /\ 0 \in Nat
    BY SMT, LogDomain
  <1>4. ASSUME NEW t \in DOMAIN page
        PROVE  /\ Since(t, 0)'
               /\ page[t] = "deleted" => Moved(t, from)'
               /\ Since(t, pos)' \/ (page[t] = "live" <=> t \in listed')
    <2>1. /\ t \in Serials /\ Since(t, 0)
          /\ page[t] = "deleted" => Moved(t, from)
          /\ Since(t, pos) \/ (page[t] = "live" <=> t \in listed)
      BY <1>1, <1>2 DEF PageOfChanges
    <2>2. Since(t, 0)' /\ (page[t] = "deleted" => Moved(t, from)')
      BY <1>3, <2>1, ChangeSince
    <2>3. CASE t = s
      BY <2>2, <2>3, ChangeSince
    <2>4. CASE t # s
      BY <1>3, <2>1, <2>2, <2>4, ChangeSince, ChangeLog
    <2>5. QED
      BY <2>3, <2>4
  <1>5. ASSUME NEW t \in Serials \ DOMAIN page, Since(t, from)' PROVE Since(t, pos)'
    <2>1. Since(t, from) => Since(t, pos)
      BY <1>2 DEF PageOfChanges
    <2>2. CASE t = s
      BY <2>2, ChangeSince
    <2>3. CASE t # s
      BY <1>3, <1>5, <2>1, <2>3, ChangeSince
    <2>4. QED
      BY <2>2, <2>3
  <1>6. QED
    BY <1>2, <1>4, <1>5 DEF PageOfChanges

LEMMA ChangeFaithful ==
  ASSUME TypeOK, NEW s \in Serials, Change(s),
         NEW held, held.at # "idle" => held.cur \in Cursor,
         account = held.binding /\ held.at # "idle" => Sound(held.cur), Faithful(held)
  PROVE  Faithful(held)'
  <1>1. SUFFICES ASSUME held.at \in {"commit", "last"}, account = held.binding, cursor = held.cur
                 PROVE  Faithful(held)'
    BY DEF Faithful, Change, store
  <1>2. /\ held.cur \in Cursor /\ Sound(held.cur)
        /\ held.next \in Cursor /\ held.next.rev = held.cur.rev + 1
        /\ held.next.value # None /\ held.next.gen <= held.next.rev /\ Sound(held.next)
        /\ held.page \in Pages
        /\ held.cur.phase = "fetch" => PageOfList(held.cur, held.next, held.page)
        /\ held.cur.phase = "sync" => PageOfChanges(held.cur, held.next, held.page)
    BY <1>1 DEF Faithful
  <1>3. /\ held.next.value.pos \in 0 .. Len(log)
        /\ held.cur.phase = "sync" => held.cur.value.pos \in 0 .. Len(log)
    BY <1>2, SoundPosition DEF Sound
  <1>4. Sound(held.next)'
    BY <1>2, ChangeSound
  <1>5. held.cur.phase = "fetch" => PageOfList(held.cur, held.next, held.page)'
    BY <1>2, <1>3, ChangePageOfList
  <1>6. held.cur.phase = "sync" => PageOfChanges(held.cur, held.next, held.page)'
    BY <1>2, <1>3, ChangePageOfChanges
  <1>7. QED
    BY <1>2, <1>4, <1>5, <1>6 DEF Faithful

LEMMA ChangeKeeps ==
  ASSUME InventoryInvariant, NEW s \in Serials, Change(s)
  PROVE  InventoryInvariant'
  <1>1. /\ TypeOK /\ InventoryCurrent /\ NothingForeign
        /\ LogAgrees /\ SnapshotKept /\ RunsSound
    BY DEF InventoryInvariant
  <1>2. UNCHANGED <<account, cursor, device, seen, worker, faults>>
    BY DEF Change, store
  <1>3. TypeOK'
    BY <1>1, <1>2, ChangeLog DEF TypeOK
  <1>4. cursor \in Cursor /\ Sound(cursor)
    BY <1>1 DEF TypeOK, SnapshotKept
  <1>5. cursor.value # None => cursor.value.pos \in 0 .. Len(log)
    BY <1>1, <1>4, SoundPosition
  <1>6. InventoryCurrent'
    BY SMT, <1>1, <1>2, <1>4, <1>5, ChangeSince, ChangeLog DEF InventoryCurrent, Sound
  <1>7. NothingForeign'
    BY SMT, <1>1, <1>2, ChangeSince, ChangeLog, LogDomain DEF NothingForeign
  <1>8. LogAgrees'
    BY <1>1, ChangeAgrees
  <1>9. SnapshotKept'
    <2>1. Sound(cursor)'
      BY <1>1, <1>2, <1>4, ChangeSound
    <2>2. ASSUME NEW t \in Got(cursor.value), t \in Serials,
                 t \in listed \/ Since(t, cursor.value.pos)
          PROVE  t \in listed' \/ Since(t, cursor.value.pos)'
      <3>1. cursor.value.pos \in 0 .. Len(log)
        BY <1>5, <2>2 DEF Got
      <3>2. PICK pos \in 0 .. Len(log) : pos = cursor.value.pos
        BY <3>1
      <3>3. pos \in Nat
        BY SMT, <1>1, LogDomain
      <3>4. t \in listed' \/ Since(t, pos)'
        BY <1>1, <2>2, <3>2, <3>3, ChangeSince, ChangeLog
      <3>5. QED
        BY <1>2, <3>2, <3>4
    <2>3. QED
      BY <1>1, <1>2, <2>1, <2>2 DEF SnapshotKept, Got
  <1>10. ASSUME NEW w \in Workers PROVE Behind(worker[w])' /\ Faithful(worker[w])'
    <2>1. Behind(worker[w]) /\ Faithful(worker[w]) /\ worker[w] \in Held
      BY <1>1 DEF RunsSound, TypeOK
    <2>2. worker'[w] = worker[w]
      BY <1>2
    <2>3. Behind(worker[w])'
      BY <1>1, <1>2, <2>1, ChangeSound DEF Behind
    <2>4. Faithful(worker[w])'
      BY <1>1, <1>2, <2>1, ChangeFaithful DEF Behind, Faithful
    <2>5. QED
      BY <2>3, <2>4
  <1>11. QED
    BY <1>3, <1>6, <1>7, <1>8, <1>9, <1>10 DEF InventoryInvariant, RunsSound

(***************************************************************************)
(* Steps of one worker.  The cursor's revision grows with every commit and *)
(* the account with every import, so a page fetched under an older one is  *)
(* never committed.                                                        *)
(***************************************************************************)
Moves(w) == worker' = [worker EXCEPT ![w] = worker'[w]]

LEMMA MovesOne ==
  ASSUME TypeOK, NEW w \in Workers, Moves(w), worker'[w] \in Held
  PROVE  /\ worker' \in [Workers -> Held]
         /\ \A o \in Workers \ {w} : worker'[o] = worker[o]
  BY DEF Moves, TypeOK

LEMMA GotoMoves ==
  ASSUME TypeOK, NEW w \in Workers, NEW held, Goto(w, held)
  PROVE  Moves(w) /\ worker'[w] = held
  BY DEF Goto, Moves, TypeOK

\* While Apple rests, a cursor and a page stay what they are.
LEMMA AppleRests ==
  ASSUME UNCHANGED apple, NEW cur, NEW next, NEW page
  PROVE  /\ Sound(cur)' <=> Sound(cur)
         /\ PageOfList(cur, next, page)' <=> PageOfList(cur, next, page)
         /\ PageOfChanges(cur, next, page)' <=> PageOfChanges(cur, next, page)
         /\ LogAgrees' <=> LogAgrees
  <1>1. UNCHANGED <<listed, log>>
    BY DEF apple
  <1>2. Sound(cur)' <=> Sound(cur)
    BY <1>1 DEF Sound
  <1>3. PageOfList(cur, next, page)' <=> PageOfList(cur, next, page)
    BY SMT, <1>1 DEF PageOfList, Since, Moved
  <1>4. PageOfChanges(cur, next, page)' <=> PageOfChanges(cur, next, page)
    BY SMT, <1>1 DEF PageOfChanges, Since, Moved
  <1>5. LogAgrees' <=> LogAgrees
    BY <1>1 DEF LogAgrees, Since, LastDeleted
  <1>6. QED
    BY <1>2, <1>3, <1>4, <1>5

LEMMA WorkerStep ==
  ASSUME InventoryInvariant, NEW w \in Workers, Moves(w), worker'[w] \in Held,
         UNCHANGED <<apple, store>>, faults' \in 0 .. MaxFaults,
         Behind(worker[w])', Faithful(worker[w])'
  PROVE  InventoryInvariant'
  <1>1. /\ TypeOK /\ InventoryCurrent /\ NothingForeign
        /\ LogAgrees /\ SnapshotKept /\ RunsSound
    BY DEF InventoryInvariant
  <1>2. UNCHANGED <<listed, log, account, cursor, device, seen>>
    BY DEF apple, store
  <1>3. /\ worker' \in [Workers -> Held]
        /\ \A o \in Workers \ {w} : worker'[o] = worker[o]
    BY <1>1, MovesOne
  <1>4. TypeOK'
    BY <1>1, <1>2, <1>3 DEF TypeOK
  <1>5. InventoryCurrent' /\ NothingForeign'
    BY <1>1, <1>2 DEF InventoryCurrent, NothingForeign, Since
  <1>6. LogAgrees' /\ SnapshotKept'
    BY <1>1, <1>2, AppleRests DEF SnapshotKept, Since, Sound
  <1>7. ASSUME NEW o \in Workers \ {w} PROVE Behind(worker[o])' /\ Faithful(worker[o])'
    <2>1. Behind(worker[o]) /\ Faithful(worker[o]) /\ worker'[o] = worker[o]
      BY <1>1, <1>3 DEF RunsSound
    <2>2. PICK held : held = worker[o]
      OBVIOUS
    <2>3. Behind(held)' /\ Faithful(held)'
      BY <1>2, <2>1, <2>2, AppleRests DEF Behind, Faithful
    <2>4. QED
      BY <2>1, <2>2, <2>3
  <1>8. QED
    BY <1>4, <1>5, <1>6, <1>7 DEF InventoryInvariant, RunsSound

\* A run left behind by a transaction or by an import of tokens.
LEMMA OutOfDate ==
  ASSUME TypeOK, NEW held, Behind(held),
         \/ /\ UNCHANGED <<log, account>>
            /\ cursor'.rev = cursor.rev + 1
         \/ /\ account' = account + 1
            /\ cursor'.rev \in {cursor.rev, cursor.rev + 1}
  PROVE  Behind(held)' /\ Faithful(held)'
  <1>1. account \in Nat /\ cursor.rev \in Nat
    BY DEF TypeOK, Cursor
  <1>2. SUFFICES ASSUME held.at # "idle" PROVE Behind(held)' /\ Faithful(held)'
    BY DEF Behind, Faithful
  <1>3. /\ held.binding \in 0 .. account
        /\ held.cur \in Cursor /\ held.cur.rev <= cursor.rev
        /\ account = held.binding => Sound(held.cur)
        /\ held.at = "restart" \/ held.cur.phase # "unset"
    BY <1>2 DEF Behind
  <1>4. held.cur.rev \in Nat
    BY <1>3 DEF Cursor
  <1>5. account' = account => (Sound(held.cur)' <=> Sound(held.cur))
    BY SMT, <1>1 DEF Sound
  <1>6. held.binding \in 0 .. account' /\ held.cur.rev <= cursor'.rev
    BY SMT, <1>1, <1>3, <1>4
  <1>7. account' = held.binding => account = held.binding /\ account' = account
    BY SMT, <1>1, <1>3
  <1>8. account' # held.binding \/ cursor' # held.cur
    BY SMT, <1>1, <1>3, <1>4
  <1>9. QED
    BY <1>3, <1>5, <1>6, <1>7, <1>8 DEF Behind, Faithful

\* A transaction that stores the next cursor: every other run is behind it.
LEMMA CursorStep ==
  ASSUME InventoryInvariant, NEW w \in Workers, Moves(w), worker'[w] \in Held,
         UNCHANGED <<apple, account, faults>>,
         cursor' \in Cursor, cursor'.rev = cursor.rev + 1,
         device' \in [Serials -> {"none", "live", "deleted"}], seen' \in [Serials -> Nat],
         InventoryCurrent', NothingForeign', SnapshotKept',
         Behind(worker[w])', worker'[w].at \in {"idle", "call"}
  PROVE  InventoryInvariant'
  <1>1. TypeOK /\ LogAgrees /\ RunsSound
    BY DEF InventoryInvariant
  <1>2. UNCHANGED <<listed, log>>
    BY DEF apple
  <1>3. /\ worker' \in [Workers -> Held]
        /\ \A o \in Workers \ {w} : worker'[o] = worker[o]
    BY <1>1, MovesOne
  <1>4. TypeOK'
    BY <1>1, <1>2, <1>3 DEF TypeOK
  <1>5. LogAgrees'
    BY <1>1, AppleRests
  <1>7. ASSUME NEW o \in Workers \ {w} PROVE Behind(worker[o])' /\ Faithful(worker[o])'
    <2>1. Behind(worker[o]) /\ worker'[o] = worker[o]
      BY <1>1, <1>3 DEF RunsSound
    <2>2. PICK held : held = worker[o]
      OBVIOUS
    <2>3. Behind(held)' /\ Faithful(held)'
      BY <1>1, <1>2, <2>1, <2>2, OutOfDate
    <2>4. QED
      BY <2>1, <2>2, <2>3
  <1>8. Faithful(worker[w])'
    BY DEF Faithful
  <1>9. QED
    BY <1>4, <1>5, <1>7, <1>8 DEF InventoryInvariant, RunsSound

\* An import of tokens: no run is bound to the new account.
LEMMA ImportRuns ==
  ASSUME TypeOK, RunsSound, UNCHANGED worker, account' = account + 1,
         cursor'.rev \in {cursor.rev, cursor.rev + 1}
  PROVE  RunsSound'
  <1>1. ASSUME NEW o \in Workers PROVE Behind(worker[o])' /\ Faithful(worker[o])'
    <2>1. Behind(worker[o]) /\ worker'[o] = worker[o]
      BY DEF RunsSound
    <2>2. PICK held : held = worker[o]
      OBVIOUS
    <2>3. Behind(held)' /\ Faithful(held)'
      BY <2>1, <2>2, OutOfDate
    <2>4. QED
      BY <2>1, <2>2, <2>3
  <1>2. QED
    BY <1>1 DEF RunsSound

(***************************************************************************)
(* The steps that fetch nothing.                                           *)
(***************************************************************************)
LEMMA IdleHeld ==
  ASSUME NEW held, held = Idle
  PROVE  held \in Held /\ held.at = "idle" /\ Behind(held)' /\ Faithful(held)'
  <1>1. held \in Held /\ held.at = "idle"
    BY DEF Idle, Held
  <1>2. QED
    BY <1>1 DEF Behind, Faithful

LEMMA RunEnds ==
  ASSUME InventoryInvariant, NEW w \in Workers, Goto(w, Idle),
         UNCHANGED <<apple, store>>, faults' \in 0 .. MaxFaults
  PROVE  InventoryInvariant'
  <1>1. TypeOK
    BY DEF InventoryInvariant
  <1>2. Moves(w) /\ worker'[w] = Idle
    BY <1>1, GotoMoves
  <1>3. PICK held : held = Idle
    OBVIOUS
  <1>4. held \in Held /\ Behind(held)' /\ Faithful(held)'
    BY <1>3, IdleHeld
  <1>5. QED
    BY <1>2, <1>3, <1>4, WorkerStep

LEMMA FaultCount ==
  ASSUME TypeOK, Fault \/ UNCHANGED faults
  PROVE  faults' \in 0 .. MaxFaults
  BY SMT DEF TypeOK, Fault

LEMMA BeginKeeps ==
  ASSUME InventoryInvariant, NEW w \in Workers, Begin(w)
  PROVE  InventoryInvariant'
  <1>1. TypeOK /\ SnapshotKept /\ cursor \in Cursor /\ account \in Nat
    BY DEF InventoryInvariant, TypeOK
  <1>2. PICK at \in {"call", "restart"} :
          /\ Goto(w, [Idle EXCEPT !.at = at, !.binding = account, !.cur = cursor])
          /\ at = "restart" \/ cursor.phase # "unset"
    BY DEF Begin
  <1>3. UNCHANGED <<apple, store>> /\ faults' \in 0 .. MaxFaults
    BY <1>1, FaultCount DEF Begin
  <1>4. UNCHANGED <<log, account, cursor>>
    BY <1>3 DEF apple, store
  <1>5. PICK held : held = [Idle EXCEPT !.at = at, !.binding = account, !.cur = cursor]
    OBVIOUS
  <1>6. held \in Held
    BY <1>1, <1>5 DEF Held, Idle
  <1>7. held.at = at /\ held.binding = account /\ held.cur = cursor
    BY <1>5 DEF Idle
  <1>8. Moves(w) /\ worker'[w] = held
    BY <1>1, <1>2, <1>5, GotoMoves
  <1>9. cursor.rev \in Nat
    BY <1>1 DEF Cursor
  <1>10. Sound(held.cur)'
    BY <1>1, <1>4, <1>7 DEF SnapshotKept, Sound
  <1>11. Behind(held)'
    BY SMT, <1>1, <1>2, <1>4, <1>7, <1>9, <1>10 DEF Behind
  <1>12. Faithful(held)'
    BY <1>7 DEF Faithful
  <1>13. QED
    BY <1>3, <1>6, <1>8, <1>11, <1>12, WorkerStep

LEMMA RejectedKeeps ==
  ASSUME InventoryInvariant, NEW w \in Workers, CallRejected(w)
  PROVE  InventoryInvariant'
  <1>1. TypeOK /\ RunsSound /\ worker[w] \in Held
    BY DEF InventoryInvariant, TypeOK
  <1>2. UNCHANGED <<apple, store>> /\ faults' \in 0 .. MaxFaults
    BY <1>1, FaultCount DEF CallRejected
  <1>3. CASE worker[w].restarted
    BY <1>2, <1>3, RunEnds DEF CallRejected
  <1>4. CASE ~worker[w].restarted
    <2>1. PICK held : held = [worker[w] EXCEPT !.at = "restart", !.restarted = TRUE]
      OBVIOUS
    <2>2. Goto(w, held)
      BY <1>4, <2>1 DEF CallRejected
    <2>3. held \in Held
      BY <1>1, <2>1 DEF Held
    <2>4. held.at = "restart" /\ held.binding = worker[w].binding /\ held.cur = worker[w].cur
      BY <1>1, <2>1 DEF Held
    <2>5. Moves(w) /\ worker'[w] = held
      BY <1>1, <2>2, GotoMoves
    <2>6. UNCHANGED <<log, account, cursor>>
      BY <1>2 DEF apple, store
    <2>7. Behind(worker[w]) /\ worker[w].at = "call"
      BY <1>1 DEF RunsSound, CallRejected
    <2>8. Behind(held)'
      BY <2>4, <2>6, <2>7 DEF Behind, Sound
    <2>9. Faithful(held)'
      BY <2>4 DEF Faithful
    <2>10. QED
      BY <1>2, <2>3, <2>5, <2>8, <2>9, WorkerStep
  <1>5. QED
    BY <1>3, <1>4

LEMMA StartFetchKeeps ==
  ASSUME InventoryInvariant, NEW w \in Workers, StartFetch(w)
  PROVE  InventoryInvariant'
  <1>1. /\ TypeOK /\ NothingForeign /\ SnapshotKept /\ RunsSound /\ worker[w] \in Held
        /\ cursor \in Cursor /\ cursor.rev \in Nat
    BY DEF InventoryInvariant, TypeOK, Cursor
  <1>2. PICK next : next = [phase |-> "fetch", rev |-> cursor.rev + 1,
                            gen |-> cursor.rev + 1, value |-> None]
    OBVIOUS
  <1>3. PICK held : held = [worker[w] EXCEPT !.at = "call", !.cur = next]
    OBVIOUS
  <1>4. /\ cursor' = next /\ Goto(w, held) /\ UNCHANGED <<apple, account, device, seen, faults>>
        /\ worker[w].at = "restart"
    BY <1>2, <1>3 DEF StartFetch
  <1>5. /\ next \in Cursor /\ next.rev = cursor.rev + 1 /\ next.gen = cursor.rev + 1
        /\ next.phase = "fetch" /\ next.value = None
    BY SMT, <1>1, <1>2 DEF Cursor
  <1>6. held \in Held /\ held.at = "call" /\ held.cur = next /\ held.binding = worker[w].binding
    BY <1>1, <1>3, <1>5 DEF Held
  <1>7. Moves(w) /\ worker'[w] = held
    BY <1>1, <1>4, GotoMoves
  <1>8. UNCHANGED <<listed, log>>
    BY <1>4 DEF apple
  <1>9. NothingForeign'
    BY <1>1, <1>4, <1>8 DEF NothingForeign, Since
  <1>10. InventoryCurrent'
    BY <1>4, <1>5 DEF InventoryCurrent
  <1>11. Sound(next)'
    BY <1>5 DEF Sound
  <1>12. SnapshotKept'
    <2>1. \A s \in Serials : seen[s] \in Nat /\ seen[s] <= cursor.rev
      BY <1>1 DEF SnapshotKept, TypeOK
    <2>2. \A s \in Serials : seen[s] <= next.rev /\ seen[s] # next.gen
      BY SMT, <1>1, <1>5, <2>1
    <2>3. QED
      BY SMT, <1>1, <1>4, <1>5, <1>11, <2>2 DEF SnapshotKept, Got, Sound
  <1>13. Behind(held)'
    <2>1. held.binding \in 0 .. account
      BY <1>1, <1>4, <1>6 DEF RunsSound, Behind
    <2>2. QED
      BY SMT, <1>1, <1>4, <1>5, <1>6, <1>11, <2>1 DEF Behind
  <1>14. device' \in [Serials -> {"none", "live", "deleted"}] /\ seen' \in [Serials -> Nat]
    BY <1>1, <1>4 DEF TypeOK
  <1>15. QED
    BY <1>4, <1>5, <1>6, <1>7, <1>9, <1>10, <1>12, <1>13, <1>14, CursorStep

(***************************************************************************)
(* Pages.  An answer counts only for the account and cursor it was asked   *)
(* with.                                                                   *)
(***************************************************************************)
LEMMA PageHeld ==
  ASSUME InventoryInvariant, NEW w \in Workers, worker[w].at = "call",
         NEW at \in {"commit", "last"}, NEW next \in Cursor, NEW page \in Pages,
         Goto(w, [worker[w] EXCEPT !.at = at, !.page = page, !.next = next]),
         UNCHANGED <<apple, store>>, faults' \in 0 .. MaxFaults,
         next.rev = worker[w].cur.rev + 1, next.value # None, Sound(next),
         cursor = worker[w].cur => next.gen <= next.rev,
         worker[w].cur.phase = "fetch" => PageOfList(worker[w].cur, next, page),
         worker[w].cur.phase = "sync" => PageOfChanges(worker[w].cur, next, page)
  PROVE  InventoryInvariant'
  <1>1. TypeOK /\ RunsSound /\ worker[w] \in Held
    BY DEF InventoryInvariant, TypeOK
  <1>2. PICK held : held = [worker[w] EXCEPT !.at = at, !.page = page, !.next = next]
    OBVIOUS
  <1>3. held \in Held
    BY <1>1, <1>2 DEF Held
  <1>4. /\ held.at = at /\ held.binding = worker[w].binding /\ held.cur = worker[w].cur
        /\ held.next = next /\ held.page = page
    BY <1>1, <1>2 DEF Held
  <1>5. Moves(w) /\ worker'[w] = held
    BY <1>1, <1>2, GotoMoves
  <1>6. UNCHANGED <<listed, log, account, cursor>>
    BY DEF apple, store
  <1>7. Behind(worker[w])
    BY <1>1 DEF RunsSound
  <1>8. Behind(held)'
    BY <1>4, <1>6, <1>7 DEF Behind, Sound
  <1>9. Faithful(held)'
    <2>1. PICK cur : cur = worker[w].cur
      OBVIOUS
    <2>2. Sound(next)' /\ (cur.phase = "fetch" => PageOfList(cur, next, page)')
          /\ (cur.phase = "sync" => PageOfChanges(cur, next, page)')
      BY <2>1, AppleRests
    <2>3. QED
      BY <1>4, <1>6, <2>1, <2>2 DEF Faithful
  <1>10. QED
    BY <1>3, <1>5, <1>8, <1>9, WorkerStep

\* The cursor a run continues from.
LEMMA CallFrom ==
  ASSUME InventoryInvariant, NEW w \in Workers, worker[w].at = "call",
         account = worker[w].binding
  PROVE  LET cur == worker[w].cur IN
         /\ cur \in Cursor /\ cur.rev \in Nat /\ cur.gen \in Nat
         /\ cur.phase \in {"fetch", "sync"} /\ Sound(cur)
         /\ cursor = cur => cur.gen <= cur.rev
         /\ cur.value # None => /\ cur.value \in Value /\ cur.value.pos \in 0 .. Len(log)
                                /\ cur.value.got \subseteq Serials
         /\ Len(log) \in Nat
  <1>1. TypeOK /\ SnapshotKept /\ Behind(worker[w])
    BY DEF InventoryInvariant, RunsSound
  <1>2. PICK cur : cur = worker[w].cur
    OBVIOUS
  <1>3. cur \in Cursor /\ cur.phase # "unset" /\ Sound(cur)
    BY <1>1, <1>2 DEF Behind
  <1>4. cur.rev \in Nat /\ cur.gen \in Nat /\ cur.phase \in {"fetch", "sync"}
    BY <1>3 DEF Cursor
  <1>5. cursor = cur => cur.gen <= cur.rev
    BY <1>1 DEF SnapshotKept
  <1>6. QED
    BY <1>1, <1>2, <1>3, <1>4, <1>5, CursorValue, SoundPosition, LogDomain

LEMMA FetchKeeps ==
  ASSUME InventoryInvariant, NEW w \in Workers, CallFetch(w)
  PROVE  InventoryInvariant'
  <1> DEFINE cur == worker[w].cur
  <1>1. /\ worker[w].at = "call" /\ cur.phase = "fetch" /\ account = worker[w].binding
        /\ UNCHANGED <<apple, store, faults>>
    BY DEF CallFetch
  <1>2. PICK a \in FetchPages(cur.value) :
          Goto(w, [worker[w] EXCEPT
            !.at = "commit",
            !.page = [s \in a.devices |-> "live"],
            !.next = [phase |-> IF a.more THEN "fetch" ELSE "sync", rev |-> cur.rev + 1,
                      gen |-> IF a.more THEN cur.gen ELSE 0, value |-> a.value]])
    BY DEF CallFetch
  <1>3. TypeOK /\ faults' \in 0 .. MaxFaults
    BY <1>1, FaultCount DEF InventoryInvariant
  <1>4. /\ cur \in Cursor /\ cur.rev \in Nat /\ cur.gen \in Nat /\ Len(log) \in Nat
        /\ cursor = cur => cur.gen <= cur.rev
        /\ cur.value # None => /\ cur.value \in Value /\ cur.value.pos \in 0 .. Len(log)
                               /\ cur.value.got \subseteq Serials
    BY <1>1, CallFrom
  <1>5. PICK from : from = IF cur.value = None THEN [pos |-> Len(log), got |-> {}] ELSE cur.value
    OBVIOUS
  <1>6. from \in Value /\ from.pos \in 0 .. Len(log) /\ from.got = Got(cur.value)
        /\ (cur.value # None => from = cur.value)
    BY SMT, <1>4, <1>5 DEF Value, Got
  <1>7. PICK more \in BOOLEAN, got \in SUBSET listed :
          a = [devices |-> got, value |-> [from EXCEPT !.got = @ \cup got], more |-> more]
    BY SMT, <1>2, <1>5 DEF FetchPages, FetchAnswers
  <1>8. a.devices = got /\ a.more = more /\ (~more => listed \subseteq a.value.got)
    BY <1>2, <1>7 DEF FetchPages
  <1>9. /\ a.value \in Value /\ a.value.pos = from.pos /\ a.value.got = Got(cur.value) \cup got
    BY <1>3, <1>6, <1>7 DEF Value, TypeOK
  <1>10. a.value # None
    BY <1>9, NoneAssumption DEF NoneAssumption, Value
  <1>11. PICK next : next = [phase |-> IF more THEN "fetch" ELSE "sync", rev |-> cur.rev + 1,
                             gen |-> IF more THEN cur.gen ELSE 0, value |-> a.value]
    OBVIOUS
  <1>12. PICK page : page = [s \in got |-> "live"]
    OBVIOUS
  <1>13. Goto(w, [worker[w] EXCEPT !.at = "commit", !.page = page, !.next = next])
    BY <1>2, <1>8, <1>11, <1>12
  <1>14. page \in Pages /\ DOMAIN page = got /\ \A s \in got : page[s] = "live"
    <2>1. page \in [got -> {"live", "deleted"}] /\ got \in SUBSET Serials
      BY <1>3, <1>12 DEF TypeOK
    <2>2. QED
      BY <1>12, <2>1 DEF Pages
  <1>15. /\ next \in Cursor /\ next.rev = cur.rev + 1 /\ next.value = a.value
         /\ next.phase = (IF more THEN "fetch" ELSE "sync")
         /\ next.gen = (IF more THEN cur.gen ELSE 0)
    BY SMT, <1>4, <1>9, <1>11 DEF Cursor
  <1>16. cursor = cur => next.gen <= next.rev
    <2>1. PICK n \in Nat, g \in Nat : n = cur.rev /\ g = cur.gen
      BY <1>4
    <2>2. (cursor = cur => g <= n) /\ next.rev = n + 1 /\ next.gen \in {0, g}
      BY <1>4, <1>15, <2>1
    <2>3. QED
      BY SMT, <2>1, <2>2
  <1>17. Sound(next)
    BY SMT, <1>4, <1>6, <1>9, <1>10, <1>15 DEF Sound
  <1>18. PageOfList(cur, next, page)
    <2>1. /\ Got(next.value) = Got(cur.value) \cup DOMAIN page
          /\ cur.value # None => next.value.pos = cur.value.pos
      BY <1>6, <1>9, <1>10, <1>14, <1>15 DEF Got
    <2>2. /\ next.phase = "fetch" => next.gen = cur.gen
          /\ next.phase \in {"fetch", "sync"}
      BY <1>15
    <2>3. \A s \in DOMAIN page : page[s] = "live" /\ (s \in listed \/ Since(s, next.value.pos))
      BY <1>14
    <2>4. next.phase = "sync" => \A s \in listed : s \in next.value.got \/ Moved(s, next.value.pos)
      BY <1>8, <1>15
    <2>5. QED
      BY <2>1, <2>2, <2>3, <2>4 DEF PageOfList
  <1>19. QED
    BY <1>1, <1>3, <1>10, <1>13, <1>14, <1>15, <1>16, <1>17, <1>18, PageHeld

LEMMA CompletedCursor ==
  ASSUME NEW cur \in Cursor,
         NEW next, next = [cur EXCEPT !.phase = "sync", !.gen = 0, !.rev = @ + 1]
  PROVE  /\ next \in Cursor /\ next.rev = cur.rev + 1 /\ next.value = cur.value
         /\ next.phase = "sync" /\ next.gen = 0
  <1>1. PICK rev : rev = cur.rev + 1
    OBVIOUS
  <1>2. rev \in Nat
    BY SMT, <1>1 DEF Cursor
  <1>3. next = [cur EXCEPT !.phase = "sync", !.gen = 0, !.rev = rev]
    BY <1>1
  <1>4. next = [phase |-> "sync", rev |-> rev, gen |-> 0, value |-> cur.value]
    BY <1>3 DEF Cursor
  <1>5. cur.value \in {None} \cup Value
    BY DEF Cursor
  <1>6. QED
    BY SMT, <1>1, <1>2, <1>4, <1>5 DEF Cursor

LEMMA ExhaustedKeeps ==
  ASSUME InventoryInvariant, NEW w \in Workers, CallExhausted(w)
  PROVE  InventoryInvariant'
  <1> DEFINE cur == worker[w].cur
  <1>1. /\ worker[w].at = "call" /\ account = worker[w].binding /\ Exhausted(cur)
        /\ UNCHANGED <<apple, store, faults>>
    BY DEF CallExhausted
  <1>2. TypeOK /\ faults' \in 0 .. MaxFaults
    BY <1>1, FaultCount DEF InventoryInvariant
  <1>3. CASE cur.phase = "sync"
    BY <1>1, <1>2, <1>3, RunEnds DEF CallExhausted
  <1>4. CASE cur.phase # "sync"
    <2>1. /\ cur \in Cursor /\ cur.rev \in Nat /\ cur.gen \in Nat /\ Len(log) \in Nat
          /\ cur.phase = "fetch" /\ Sound(cur)
      BY <1>1, <1>4, CallFrom
    <2>2. cur.value # None /\ listed \subseteq cur.value.got
      BY <1>1, <2>1 DEF Exhausted
    <2>3. PICK next : next = [cur EXCEPT !.phase = "sync", !.gen = 0, !.rev = @ + 1]
      OBVIOUS
    <2>4. PICK page : page = [s \in {} |-> "live"]
      OBVIOUS
    <2>5. Goto(w, [worker[w] EXCEPT !.at = "commit", !.page = page, !.next = next])
      BY <1>4, <2>3, <2>4 DEF CallExhausted
    <2>6. page \in Pages /\ DOMAIN page = {}
      <3>1. page \in [{} -> {"live", "deleted"}]
        BY <2>4
      <3>2. QED
        BY <2>4, <3>1 DEF Pages
    <2>7. /\ next \in Cursor /\ next.rev = cur.rev + 1 /\ next.value = cur.value
          /\ next.phase = "sync" /\ next.gen = 0
      BY <2>1, <2>3, CompletedCursor
    <2>8. Sound(next)
      BY <2>1, <2>2, <2>7 DEF Sound
    <2>9. PageOfList(cur, next, page)
      BY <2>2, <2>6, <2>7 DEF PageOfList, Got
    <2>10. next.gen <= next.rev /\ next.value # None
      BY SMT, <2>1, <2>2, <2>7
    <2>11. QED
      BY <1>1, <1>2, <2>1, <2>5, <2>6, <2>7, <2>8, <2>9, <2>10, PageHeld
  <1>5. QED
    BY <1>3, <1>4

\* A page of changes stands for every operation between its positions.
LEMMA OpsOfPage ==
  ASSUME TypeOK, NEW from \in 0 .. Len(log), NEW last \in from .. Len(log)
  PROVE  LET ops == SubSeq(log, from + 1, last) IN
         /\ DOMAIN ops = 1 .. last - from
         /\ \A k \in DOMAIN ops : from + k \in DOMAIN log /\ ops[k] = log[from + k]
  <1>1. Len(log) \in Nat /\ DOMAIN log = 1 .. Len(log) /\ \A k \in DOMAIN log : log[k] \in Op
    BY LogDomain
  <1>2. from + 1 \in Int /\ last \in Int /\ \A k \in from + 1 .. last : log[k] \in Op
    BY SMT, <1>1
  <1>3. PICK ops : ops = SubSeq(log, from + 1, last)
    OBVIOUS
  <1>4. /\ ops \in Seq(Op)
        /\ Len(ops) = IF from + 1 <= last THEN last - (from + 1) + 1 ELSE 0
        /\ \A k \in 1 .. last - (from + 1) + 1 : ops[k] = log[from + 1 + k - 1]
    BY SMT, <1>2, <1>3, SubSeqProperties DEF TypeOK
  <1>5. Len(ops) = last - from /\ \A k \in 1 .. last - from : ops[k] = log[from + k]
    BY SMT, <1>1, <1>4
  <1>6. DOMAIN ops = 1 .. last - from
    BY <1>4, <1>5, LenProperties
  <1>7. QED
    BY SMT, <1>1, <1>3, <1>5, <1>6

LEMMA DedupePage ==
  ASSUME TypeOK, LogAgrees, NEW from \in 0 .. Len(log), NEW last \in from .. Len(log),
         NEW page, page = Dedupe(SubSeq(log, from + 1, last))
  PROVE  /\ page \in Pages
         /\ \A s \in DOMAIN page :
              /\ Since(s, 0)
              /\ page[s] = "deleted" => Moved(s, from)
              /\ Since(s, last) \/ (page[s] = "live" <=> s \in listed)
         /\ \A s \in Serials \ DOMAIN page : Since(s, from) => Since(s, last)
  <1>1. PICK ops : ops = SubSeq(log, from + 1, last)
    OBVIOUS
  <1>2. /\ DOMAIN ops = 1 .. last - from
        /\ \A k \in DOMAIN ops : from + k \in DOMAIN log /\ ops[k] = log[from + k]
    BY <1>1, OpsOfPage
  <1>3. /\ Len(log) \in Nat /\ DOMAIN log = 1 .. Len(log)
        /\ \A k \in DOMAIN log : log[k] \in Op
    BY LogDomain
  <1>4. \A k \in DOMAIN log : k > from /\ k <= last => k - from \in DOMAIN ops /\ ops[k - from] = log[k]
    BY SMT, <1>2, <1>3
  <1>5. \A k \in DOMAIN ops : ops[k].serial \in Serials
    BY <1>2, <1>3 DEF Op
  <1>6. DOMAIN page = {ops[k].serial : k \in DOMAIN ops}
    BY <1>1 DEF Dedupe
  <1> DEFINE Deletes(s, k) == /\ ops[k] = [serial |-> s, op |-> "deleted"]
                              /\ \A j \in DOMAIN ops : ops[j].serial = s => j <= k
  <1>7. \A s \in DOMAIN page :
          page[s] = IF \E k \in DOMAIN ops : Deletes(s, k) THEN "deleted" ELSE "live"
    BY <1>1, <1>6 DEF Dedupe
  <1>8. page \in Pages
    <2>1. DOMAIN page \in SUBSET Serials
      BY <1>5, <1>6
    <2>2. page \in [DOMAIN page -> {"live", "deleted"}]
      <3>1. page = [s \in DOMAIN page |-> page[s]]
        BY <1>1 DEF Dedupe
      <3>2. \A s \in DOMAIN page : page[s] \in {"live", "deleted"}
        BY <1>7
      <3>3. QED
        BY <3>1, <3>2
    <2>3. QED
      BY <2>1, <2>2 DEF Pages
  <1>9. ASSUME NEW s \in DOMAIN page
        PROVE  /\ Since(s, 0)
               /\ page[s] = "deleted" => Moved(s, from)
               /\ Since(s, last) \/ (page[s] = "live" <=> s \in listed)
    <2>1. PICK i \in DOMAIN ops : ops[i].serial = s
      BY <1>6
    <2>2. from + i \in DOMAIN log /\ log[from + i].serial = s /\ from + i > from /\ s \in Serials
      BY SMT, <1>2, <1>5, <2>1
    <2>3. Since(s, 0)
      BY SMT, <1>3, <2>2 DEF Since
    <2>4. page[s] = "deleted" => Moved(s, from)
      <3>1. SUFFICES ASSUME page[s] = "deleted" PROVE Moved(s, from)
        OBVIOUS
      <3>2. PICK k \in DOMAIN ops : ops[k] = [serial |-> s, op |-> "deleted"]
        BY <1>7, <3>1
      <3>3. /\ from + k \in DOMAIN log /\ from + k > from
            /\ log[from + k].serial = s /\ log[from + k].op = "deleted"
        BY SMT, <1>2, <3>2
      <3>4. QED
        BY <3>3 DEF Moved
    <2>5. ASSUME ~Since(s, last) PROVE page[s] = "live" <=> s \in listed
      <3>1. \A j \in DOMAIN log : log[j].serial = s => j <= last
        BY SMT, <1>3, <2>5 DEF Since
      <3>2. ASSUME NEW k \in DOMAIN ops, Deletes(s, k) PROVE LastDeleted(s)
        <4>1. /\ from + k \in DOMAIN log
              /\ log[from + k].serial = s /\ log[from + k].op = "deleted"
          BY SMT, <1>2, <3>2
        <4>2. ASSUME NEW j \in DOMAIN log, log[j].serial = s PROVE j <= from + k
          <5>1. CASE j <= from
            BY SMT, <1>2, <1>3, <5>1
          <5>2. CASE j > from
            <6>1. j - from \in DOMAIN ops /\ ops[j - from].serial = s
              BY <1>4, <3>1, <4>2, <5>2
            <6>2. j - from <= k
              BY <3>2, <6>1
            <6>3. QED
              BY SMT, <1>2, <1>3, <6>2
          <5>3. QED
            BY SMT, <1>3, <5>1, <5>2
        <4>3. QED
          BY <4>1, <4>2 DEF LastDeleted
      <3>3. ASSUME LastDeleted(s) PROVE \E k \in DOMAIN ops : Deletes(s, k)
        <4>1. PICK k \in DOMAIN log : /\ log[k].serial = s /\ log[k].op = "deleted"
                                      /\ \A j \in DOMAIN log : log[j].serial = s => j <= k
          BY <3>3 DEF LastDeleted
        <4>2. k > from /\ k <= last
          BY SMT, <1>2, <1>3, <2>2, <3>1, <4>1
        <4>3. k - from \in DOMAIN ops /\ ops[k - from] = log[k]
          BY <1>4, <4>2
        <4>4. log[k] = [serial |-> s, op |-> "deleted"]
          BY <1>3, <4>1 DEF Op
        <4>5. \A j \in DOMAIN ops : ops[j].serial = s => j <= k - from
          BY SMT, <1>2, <1>3, <4>1
        <4>6. QED
          BY <4>3, <4>4, <4>5
      <3>4. page[s] = "deleted" <=> LastDeleted(s)
        BY <1>7, <3>2, <3>3
      <3>5. page[s] = "live" <=> page[s] # "deleted"
        BY <1>7
      <3>6. s \notin listed <=> LastDeleted(s)
        BY <2>2, <2>3 DEF LogAgrees
      <3>7. QED
        BY <3>4, <3>5, <3>6
    <2>6. QED
      BY <2>3, <2>4, <2>5
  <1>10. ASSUME NEW s \in Serials \ DOMAIN page, Since(s, from) PROVE Since(s, last)
    <2>1. PICK k \in DOMAIN log : k > from /\ log[k].serial = s
      BY <1>10 DEF Since
    <2>2. k > last
      BY SMT, <1>3, <1>4, <1>6, <2>1
    <2>3. QED
      BY <2>1, <2>2 DEF Since
  <1>11. QED
    BY <1>8, <1>9, <1>10

LEMMA SyncKeeps ==
  ASSUME InventoryInvariant, NEW w \in Workers, CallSync(w)
  PROVE  InventoryInvariant'
  <1> DEFINE cur == worker[w].cur
             a == SyncPage(cur.value)
  <1>1. /\ worker[w].at = "call" /\ cur.phase = "sync" /\ account = worker[w].binding
        /\ UNCHANGED <<apple, store>> /\ (Fault \/ UNCHANGED faults)
    BY DEF CallSync
  <1>2. TypeOK /\ LogAgrees /\ faults' \in 0 .. MaxFaults
    BY <1>1, FaultCount DEF InventoryInvariant
  <1>3. /\ cur \in Cursor /\ cur.rev \in Nat /\ Len(log) \in Nat
        /\ cur.value # None /\ cur.value.pos \in 0 .. Len(log)
    BY <1>1, CallFrom DEF Sound
  <1>4. PICK from \in 0 .. Len(log) : from = cur.value.pos
    BY <1>3
  <1>5. PICK last : last = IF Len(log) < from + PageSize THEN Len(log) ELSE from + PageSize
    OBVIOUS
  <1>6. last \in from .. Len(log) /\ last \in Nat
    BY SMT, <1>3, <1>5
  <1>7. /\ a.ops = SubSeq(log, from + 1, last)
        /\ a.value = [pos |-> last, got |-> {}]
    BY <1>4, <1>5 DEF SyncPage
  <1>8. PICK value : value = a.value
    OBVIOUS
  <1>9. value \in Value /\ value.pos = last /\ value # None
    BY SMT, <1>6, <1>7, <1>8, NoneAssumption DEF NoneAssumption, Value
  <1>10. PICK page : page = Dedupe(a.ops)
    OBVIOUS
  <1>11. /\ page \in Pages
         /\ \A s \in DOMAIN page :
              /\ Since(s, 0)
              /\ page[s] = "deleted" => Moved(s, from)
              /\ Since(s, last) \/ (page[s] = "live" <=> s \in listed)
         /\ \A s \in Serials \ DOMAIN page : Since(s, from) => Since(s, last)
    BY SMT, <1>2, <1>6, <1>7, <1>10, DedupePage
  <1>12. PICK next : next = [phase |-> "sync", rev |-> cur.rev + 1, gen |-> 0, value |-> value]
    OBVIOUS
  <1>13. /\ next \in Cursor /\ next.rev = cur.rev + 1 /\ next.value = value
         /\ next.phase = "sync" /\ next.gen = 0
    BY SMT, <1>3, <1>9, <1>12 DEF Cursor
  <1>14. PICK at \in {"commit", "last"} :
           Goto(w, [worker[w] EXCEPT !.at = at, !.page = page, !.next = next])
    BY <1>8, <1>10, <1>12 DEF CallSync
  <1>15. Sound(next) /\ next.gen <= next.rev /\ next.value # None
    BY SMT, <1>3, <1>6, <1>9, <1>13 DEF Sound
  <1>16. PageOfChanges(cur, next, page)
    BY <1>4, <1>9, <1>11, <1>13 DEF PageOfChanges
  <1>17. QED
    BY <1>1, <1>2, <1>11, <1>13, <1>14, <1>15, <1>16, PageHeld

(***************************************************************************)
(* The transaction of a page.                                              *)
(***************************************************************************)
LEMMA CommitPage ==
  ASSUME InventoryInvariant, NEW w \in Workers, Commit(w)
  PROVE  LET cur == worker[w].cur
             next == worker[w].next
             page == worker[w].page
             marks == IF cur.phase = "fetch" THEN Marked(page, cur.gen) ELSE seen
         IN /\ cursor = cur /\ cursor' = next /\ cur.phase \in {"fetch", "sync"}
            /\ device' = Reconciled(Written(page), marks, cur, next) /\ seen' = marks
            /\ next \in Cursor /\ next.rev = cur.rev + 1
            /\ next.value # None /\ next.gen <= next.rev /\ Sound(next)
            /\ page \in Pages /\ DOMAIN page \subseteq Serials
            /\ \A s \in DOMAIN page : page[s] \in {"live", "deleted"}
            /\ cur.phase = "fetch" => PageOfList(cur, next, page)
            /\ cur.phase = "sync" => PageOfChanges(cur, next, page)
  <1>1. TypeOK /\ Behind(worker[w]) /\ Faithful(worker[w])
    BY DEF InventoryInvariant, RunsSound
  <1>2. /\ worker[w].at \in {"commit", "last"} /\ account = worker[w].binding
        /\ cursor = worker[w].cur
    BY DEF Commit, CheckCursor
  <1>3. worker[w].cur.phase \in {"fetch", "sync"}
    BY <1>1, <1>2 DEF Behind, Cursor
  <1>4. /\ worker[w].next \in Cursor /\ worker[w].next.rev = worker[w].cur.rev + 1
        /\ worker[w].next.value # None /\ worker[w].next.gen <= worker[w].next.rev
        /\ Sound(worker[w].next) /\ worker[w].page \in Pages
        /\ worker[w].cur.phase = "fetch" => PageOfList(worker[w].cur, worker[w].next, worker[w].page)
        /\ worker[w].cur.phase = "sync" => PageOfChanges(worker[w].cur, worker[w].next, worker[w].page)
    BY <1>1, <1>2 DEF Faithful
  <1>5. PICK page \in Pages : page = worker[w].page
    BY <1>4
  <1>6. DOMAIN page \subseteq Serials /\ \A s \in DOMAIN page : page[s] \in {"live", "deleted"}
    BY DEF Pages
  <1>7. QED
    BY <1>2, <1>3, <1>4, <1>5, <1>6 DEF Commit

\* A page of a fetch: what the generation has seen is live, and when it is
\* complete nothing else is.
\* A page of a fetch that is being committed, and what it leaves of the rows.
ListCommit(cur, next, page) ==
    /\ cursor = cur /\ cur.phase = "fetch" /\ next \in Cursor /\ DOMAIN page \subseteq Serials
    /\ next.value # None /\ Sound(next) /\ PageOfList(cur, next, page)
    /\ device' = Reconciled(Written(page), Marked(page, cur.gen), cur, next)
    /\ seen' = Marked(page, cur.gen)

ListRow(cur, next, page, s) ==
    /\ seen'[s] = IF s \in DOMAIN page THEN cur.gen ELSE seen[s]
    /\ seen'[s] = cur.gen <=> s \in next.value.got
    /\ s \in next.value.got => device'[s] = "live" /\ (s \in listed \/ Since(s, next.value.pos))
    /\ next.phase = "fetch" => device'[s] = IF s \in DOMAIN page THEN "live" ELSE device[s]
    /\ next.phase = "sync" /\ s \notin next.value.got =>
         /\ device'[s] # "live" /\ (device'[s] = "none" <=> device[s] = "none")
         /\ s \in listed => Moved(s, next.value.pos)

LEMMA ListPage ==
  ASSUME TypeOK, SnapshotKept, NEW cur, NEW next, NEW page, ListCommit(cur, next, page)
  PROVE  /\ device' \in [Serials -> {"none", "live", "deleted"}] /\ seen' \in [Serials -> Nat]
         /\ \A s \in Serials : ListRow(cur, next, page, s)
  <1>0. /\ cursor = cur /\ cur.phase = "fetch" /\ next \in Cursor /\ DOMAIN page \subseteq Serials
        /\ next.value # None /\ Sound(next) /\ PageOfList(cur, next, page)
        /\ device' = Reconciled(Written(page), Marked(page, cur.gen), cur, next)
        /\ seen' = Marked(page, cur.gen)
    BY DEF ListCommit
  <1>1. cur.gen \in Nat /\ cursor \in Cursor
    BY <1>0 DEF TypeOK, Cursor
  <1>2. next.value.got = Got(cur.value) \cup DOMAIN page
    BY <1>0 DEF PageOfList, Got
  <1>3. \A s \in DOMAIN page : page[s] = "live" /\ (s \in listed \/ Since(s, next.value.pos))
    BY <1>0 DEF PageOfList
  <1>4. \A s \in Serials : s \in Got(cur.value) =>
          device[s] = "live" /\ (s \in listed \/ Since(s, next.value.pos))
    BY <1>0 DEF SnapshotKept, PageOfList, Got
  <1>5. \A s \in Serials : seen[s] = cur.gen <=> s \in Got(cur.value)
    BY <1>0 DEF SnapshotKept
  <1>6. \A s \in Serials : seen'[s] = IF s \in DOMAIN page THEN cur.gen ELSE seen[s]
    BY <1>0 DEF Marked
  <1>7. \A s \in Serials : seen'[s] = cur.gen <=> s \in next.value.got
    BY <1>2, <1>5, <1>6
  <1>8. PICK rows : rows = Written(page)
    OBVIOUS
  <1>9. /\ rows \in [Serials -> {"none", "live", "deleted"}]
        /\ \A s \in Serials : rows[s] = IF s \in DOMAIN page THEN "live" ELSE device[s]
    BY <1>0, <1>3, <1>8 DEF Written, TypeOK
  <1>10. \A s \in Serials : s \in next.value.got => rows[s] = "live"
    BY <1>2, <1>4, <1>9
  <1>11. device' = IF next.phase = "sync"
                   THEN [s \in Serials |-> IF rows[s] = "live" /\ seen'[s] # cur.gen
                                           THEN "deleted" ELSE rows[s]]
                   ELSE rows
    BY <1>0, <1>8 DEF Reconciled
  <1>12. device' \in [Serials -> {"none", "live", "deleted"}] /\ seen' \in [Serials -> Nat]
    <2>1. seen' \in [Serials -> Nat]
      BY <1>0, <1>1 DEF Marked, TypeOK
    <2>2. device' \in [Serials -> {"none", "live", "deleted"}]
      BY <1>9, <1>11
    <2>3. QED
      BY <2>1, <2>2
  <1>13. ASSUME NEW s \in Serials
         PROVE  /\ s \in next.value.got =>
                     device'[s] = "live" /\ (s \in listed \/ Since(s, next.value.pos))
                /\ next.phase = "fetch" =>
                     device'[s] = IF s \in DOMAIN page THEN "live" ELSE device[s]
                /\ next.phase = "sync" /\ s \notin next.value.got =>
                     /\ device'[s] # "live" /\ (device'[s] = "none" <=> device[s] = "none")
                     /\ s \in listed => Moved(s, next.value.pos)
    <2>1. s \in next.value.got => s \in listed \/ Since(s, next.value.pos)
      BY <1>2, <1>3, <1>4
    <2>2. next.phase = "sync" /\ s \notin next.value.got => (s \in listed => Moved(s, next.value.pos))
      BY <1>0 DEF PageOfList
    <2>3. s \in next.value.got => device'[s] = "live"
      BY <1>7, <1>10, <1>11
    <2>4. next.phase = "fetch" => device'[s] = IF s \in DOMAIN page THEN "live" ELSE device[s]
      BY <1>9, <1>11
    <2>5. next.phase = "sync" /\ s \notin next.value.got =>
            device'[s] # "live" /\ (device'[s] = "none" <=> device[s] = "none")
      BY <1>2, <1>7, <1>9, <1>11
    <2>6. QED
      BY <2>1, <2>2, <2>3, <2>4, <2>5
  <1>14. QED
    BY <1>6, <1>7, <1>12, <1>13 DEF ListRow

LEMMA CommitRows ==
  ASSUME InventoryInvariant, NEW w \in Workers, Commit(w)
  PROVE  /\ device' \in [Serials -> {"none", "live", "deleted"}] /\ seen' \in [Serials -> Nat]
         /\ InventoryCurrent' /\ NothingForeign' /\ SnapshotKept'
         /\ \A s \in Serials : device[s] = "live" /\ device'[s] = "deleted" =>
              s \notin listed
              \/ Moved(s, IF cursor.phase = "fetch" THEN cursor'.value.pos ELSE cursor.value.pos)
  <1>1. /\ TypeOK /\ InventoryCurrent /\ NothingForeign /\ LogAgrees /\ SnapshotKept
        /\ UNCHANGED <<listed, log>>
    BY DEF InventoryInvariant, Commit, apple
  <1>2. PICK cur, next, page :
          /\ cursor = cur /\ cursor' = next /\ cur.phase \in {"fetch", "sync"}
          /\ device' = Reconciled(Written(page), IF cur.phase = "fetch" THEN Marked(page, cur.gen)
                                                                        ELSE seen, cur, next)
          /\ seen' = IF cur.phase = "fetch" THEN Marked(page, cur.gen) ELSE seen
          /\ next \in Cursor /\ next.rev = cur.rev + 1
          /\ next.value # None /\ next.gen <= next.rev /\ Sound(next)
          /\ page \in Pages /\ DOMAIN page \subseteq Serials
          /\ \A s \in DOMAIN page : page[s] \in {"live", "deleted"}
          /\ cur.phase = "fetch" => PageOfList(cur, next, page)
          /\ cur.phase = "sync" => PageOfChanges(cur, next, page)
    BY CommitPage
  <1>3. cursor \in Cursor /\ cur.rev \in Nat /\ cur.gen \in Nat /\ cur.gen <= cur.rev
    BY <1>1, <1>2 DEF TypeOK, Cursor, SnapshotKept
  <1>4. PICK pos \in Nat : pos = next.value.pos
    BY <1>2, CursorValue
  <1>5. /\ \A s \in Serials : Since(s, pos)' <=> Since(s, pos)
        /\ \A s \in Serials : Since(s, 0)' <=> Since(s, 0)
    BY <1>1 DEF Since
  <1>6. Sound(next)'
    BY <1>1, <1>2 DEF Sound
  <1>7. \A s \in Serials : seen[s] \in Nat /\ seen[s] <= cur.rev
    BY <1>1, <1>2 DEF SnapshotKept, TypeOK
  <1>8. next.rev = cur.rev + 1
    BY <1>2
  <1>9. CASE cur.phase = "fetch"
    <2>1. /\ next \in Cursor /\ cursor = cur /\ DOMAIN page \subseteq Serials
           /\ next.value # None /\ Sound(next) /\ PageOfList(cur, next, page)
      BY <1>2, <1>9
    <2>2. /\ device' = Reconciled(Written(page), Marked(page, cur.gen), cur, next)
           /\ seen' = Marked(page, cur.gen)
      BY <1>2, <1>9
    <2>3. /\ device' \in [Serials -> {"none", "live", "deleted"}] /\ seen' \in [Serials -> Nat]
          /\ \A s \in Serials :
              /\ seen'[s] = IF s \in DOMAIN page THEN cur.gen ELSE seen[s]
              /\ seen'[s] = cur.gen <=> s \in next.value.got
              /\ s \in next.value.got => device'[s] = "live" /\ (s \in listed \/ Since(s, pos))
              /\ next.phase = "fetch" =>
                   device'[s] = IF s \in DOMAIN page THEN "live" ELSE device[s]
              /\ next.phase = "sync" /\ s \notin next.value.got =>
                   /\ device'[s] # "live" /\ (device'[s] = "none" <=> device[s] = "none")
                   /\ s \in listed => Moved(s, pos)
      <3>1. ListCommit(cur, next, page)
        BY <1>9, <2>1, <2>2 DEF ListCommit
      <3>2. /\ device' \in [Serials -> {"none", "live", "deleted"}] /\ seen' \in [Serials -> Nat]
            /\ \A s \in Serials : ListRow(cur, next, page, s)
        BY <1>1, <3>1, ListPage
      <3>3. QED
        BY <1>4, <3>2 DEF ListRow
    <2>4. /\ next.phase \in {"fetch", "sync"} /\ (next.phase = "fetch" => next.gen = cur.gen)
          /\ DOMAIN page \subseteq next.value.got
      BY <1>2, <1>9 DEF PageOfList, Got
    <2>5. \A s \in Serials : Moved(s, pos) => Since(s, pos)
      BY <1>1, MovedSince
    <2>6. \A s \in Serials : Since(s, pos) => Since(s, 0)
      BY <1>1, MovedSince
    <2>7. InventoryCurrent'
      BY <1>1, <1>2, <1>4, <1>5, <2>3, <2>5 DEF InventoryCurrent
    <2>8. NothingForeign'
      <3>1. ASSUME NEW s \in Serials, device'[s] # "none" PROVE s \in listed \/ Since(s, 0)
        <4>1. CASE s \in next.value.got
          BY <2>3, <2>6, <4>1
        <4>2. CASE s \notin next.value.got
          BY <1>1, <2>3, <2>4, <3>1, <4>2 DEF NothingForeign
        <4>3. QED
          BY <4>1, <4>2
      <3>2. QED
        BY <1>1, <1>5, <3>1 DEF NothingForeign
    <2>9. SnapshotKept'
      <3>1. \A s \in Serials : seen'[s] <= next.rev
        BY SMT, <1>3, <1>7, <1>8, <2>3
      <3>2. Got(next.value) = next.value.got
        BY <1>2 DEF Got
      <3>3. next.phase = "fetch" => \A s \in Serials :
              /\ seen'[s] = next.gen <=> s \in Got(next.value)
              /\ s \in Got(next.value) =>
                   device'[s] = "live" /\ (s \in listed' \/ Since(s, pos)')
        BY <1>1, <1>5, <2>3, <2>4, <3>2
      <3>4. QED
        BY <1>2, <1>4, <1>6, <3>1, <3>3 DEF SnapshotKept, Got, Sound
    <2>10. ASSUME NEW s \in Serials, device[s] = "live", device'[s] = "deleted"
          PROVE  s \notin listed \/ Moved(s, pos)
      BY <2>3, <2>4, <2>10
    <2>11. QED
      BY <1>2, <1>4, <1>9, <2>3, <2>7, <2>8, <2>9, <2>10
  <1>10. CASE cur.phase = "sync"
    <2>1. PageOfChanges(cur, next, page)
      BY <1>2, <1>10
    <2>2. cur.value # None
      BY <1>1, <1>2, <1>10 DEF SnapshotKept, Sound
    <2>3. PICK from \in Nat : from = cur.value.pos
      BY <1>2, <1>3, <2>2, CursorValue
    <2>4. /\ device' = Written(page) /\ seen' = seen /\ next.phase = "sync"
      BY <1>2, <1>10, <2>1 DEF Reconciled, PageOfChanges
    <2>5. \A s \in Serials : device'[s] = IF s \in DOMAIN page THEN page[s] ELSE device[s]
      BY <2>4 DEF Written
    <2>6. device' \in [Serials -> {"none", "live", "deleted"}] /\ seen' \in [Serials -> Nat]
      BY <1>1, <1>2, <2>4 DEF Written, TypeOK
    <2>7. /\ \A s \in DOMAIN page :
               /\ Since(s, 0)
               /\ page[s] = "deleted" => Moved(s, from)
               /\ Since(s, pos) \/ (page[s] = "live" <=> s \in listed)
          /\ \A s \in Serials \ DOMAIN page : Since(s, from) => Since(s, pos)
      BY <1>4, <2>1, <2>3 DEF PageOfChanges
    <2>8. InventoryCurrent'
      <3>1. \A s \in Serials : Since(s, from) \/ (device[s] = "live" <=> s \in listed)
        BY <1>1, <1>2, <1>10, <2>3 DEF InventoryCurrent
      <3>2. \A s \in Serials : Since(s, pos) \/ (device'[s] = "live" <=> s \in listed)
        BY <2>5, <2>7, <3>1
      <3>3. QED
        BY <1>1, <1>2, <1>4, <1>5, <3>2 DEF InventoryCurrent
    <2>9. NothingForeign'
      BY <1>1, <1>5, <2>5, <2>7 DEF NothingForeign
    <2>10. SnapshotKept'
      <3>1. \A s \in Serials : seen'[s] <= next.rev
        BY SMT, <1>3, <1>7, <1>8, <2>4
      <3>2. QED
        BY <1>2, <1>6, <2>4, <3>1 DEF SnapshotKept, Sound
    <2>11. ASSUME NEW s \in Serials, device[s] = "live", device'[s] = "deleted"
           PROVE  Moved(s, from)
      BY <2>5, <2>7, <2>11
    <2>12. QED
      BY <1>2, <1>10, <2>3, <2>6, <2>8, <2>9, <2>10, <2>11
  <1>11. QED
    BY <1>2, <1>9, <1>10

LEMMA CommitKeeps ==
  ASSUME InventoryInvariant, NEW w \in Workers, Commit(w)
  PROVE  InventoryInvariant'
  <1>1. /\ TypeOK /\ RunsSound /\ worker[w] \in Held /\ cursor \in Cursor
        /\ UNCHANGED <<apple, account, faults>>
    BY DEF InventoryInvariant, TypeOK, Commit
  <1>2. /\ cursor' = worker[w].next /\ worker[w].next \in Cursor
        /\ worker[w].next.rev = cursor.rev + 1 /\ Sound(worker[w].next)
        /\ worker[w].next.phase # "unset"
    BY CommitPage DEF PageOfList, PageOfChanges
  <1>3. PICK next : next = worker[w].next
    OBVIOUS
  <1>4. PICK held : held = IF worker[w].at = "last" THEN Idle
                           ELSE [worker[w] EXCEPT !.at = "call", !.cur = next,
                                                  !.next = None, !.page = None]
    OBVIOUS
  <1>5. Goto(w, held) /\ worker[w].at # "idle"
    BY <1>3, <1>4 DEF Commit
  <1>6. Moves(w) /\ worker'[w] = held
    BY <1>1, <1>5, GotoMoves
  <1>7. held \in Held /\ held.at \in {"idle", "call"} /\ Behind(held)'
    <2>1. CASE worker[w].at = "last"
      BY <1>4, <2>1, IdleHeld
    <2>2. CASE worker[w].at # "last"
      <3>1. held \in Held
        BY <1>1, <1>2, <1>3, <1>4, <2>2 DEF Held
      <3>2. held.at = "call" /\ held.cur = next /\ held.binding = worker[w].binding
        BY <1>1, <1>4, <2>2 DEF Held
      <3>3. held.binding \in 0 .. account
        BY <1>1, <1>5, <3>2 DEF RunsSound, Behind
      <3>4. Sound(next)' /\ next.rev \in Nat
        BY <1>1, <1>2, <1>3, AppleRests DEF Cursor
      <3>5. next \in Cursor /\ next.phase # "unset" /\ cursor' = next /\ account' = account
        BY <1>1, <1>2, <1>3
      <3>6. Behind(held)'
        BY SMT, <3>2, <3>3, <3>4, <3>5 DEF Behind
      <3>7. QED
        BY <3>1, <3>2, <3>6
    <2>3. QED
      BY <2>1, <2>2
  <1>8. QED
    BY <1>1, <1>2, <1>3, <1>6, <1>7, CommitRows, CursorStep

(***************************************************************************)
(* Imports of tokens.                                                      *)
(***************************************************************************)
LEMMA ServerRests ==
  ASSUME UNCHANGED <<listed, log, cursor, device, seen>>
  PROVE  /\ InventoryCurrent => InventoryCurrent'
         /\ NothingForeign => NothingForeign'
         /\ LogAgrees => LogAgrees'
         /\ SnapshotKept => SnapshotKept'
  <1>1. InventoryCurrent => InventoryCurrent'
    BY DEF InventoryCurrent, Since
  <1>2. NothingForeign => NothingForeign'
    BY DEF NothingForeign, Since
  <1>3. LogAgrees => LogAgrees'
    BY DEF LogAgrees, Since, LastDeleted
  <1>4. SnapshotKept => SnapshotKept'
    BY DEF SnapshotKept, Since, Sound
  <1>5. QED
    BY <1>1, <1>2, <1>3, <1>4

LEMMA RenewKeeps ==
  ASSUME InventoryInvariant, RenewTokens
  PROVE  InventoryInvariant'
  <1>1. /\ TypeOK /\ InventoryCurrent /\ NothingForeign
        /\ LogAgrees /\ SnapshotKept /\ RunsSound
    BY DEF InventoryInvariant
  <1>2. /\ UNCHANGED <<listed, log, cursor, device, seen, worker>> /\ account' = account + 1
        /\ faults' \in 0 .. MaxFaults
    BY <1>1, FaultCount DEF RenewTokens, apple
  <1>3. TypeOK'
    BY SMT, <1>1, <1>2 DEF TypeOK
  <1>4. InventoryCurrent' /\ NothingForeign' /\ SnapshotKept' /\ LogAgrees'
    BY <1>1, <1>2, ServerRests
  <1>5. RunsSound'
    BY <1>1, <1>2, ImportRuns
  <1>6. QED
    BY <1>3, <1>4, <1>5 DEF InventoryInvariant

LEMMA ResetKeeps ==
  ASSUME InventoryInvariant, ResetAccount
  PROVE  InventoryInvariant'
  <1>1. TypeOK /\ RunsSound
    BY DEF InventoryInvariant
  <1>2. cursor.rev \in Nat /\ account \in Nat
    BY <1>1 DEF TypeOK, Cursor
  <1>3. /\ cursor' = [phase |-> "fetch", rev |-> cursor.rev + 1, gen |-> cursor.rev + 1, value |-> None]
        /\ account' = account + 1 /\ device' = [s \in Serials |-> "none"]
        /\ seen' = [s \in Serials |-> 0] /\ listed' \in SUBSET Serials /\ log' = <<>>
        /\ UNCHANGED worker /\ faults' \in 0 .. MaxFaults
    BY <1>1, FaultCount DEF ResetAccount
  <1>4. cursor' \in Cursor
    BY SMT, <1>2, <1>3 DEF Cursor
  <1>5. log' \in Seq(Op)
    BY SMT, <1>3
  <1>6. TypeOK'
    BY SMT, <1>1, <1>2, <1>3, <1>4, <1>5 DEF TypeOK
  <1>7. InventoryCurrent' /\ NothingForeign'
    BY <1>3 DEF InventoryCurrent, NothingForeign
  <1>8. DOMAIN log' = {}
    BY SMT, <1>3
  <1>9. LogAgrees'
    BY <1>8 DEF LogAgrees, Since
  <1>10. SnapshotKept'
    BY SMT, <1>2, <1>3 DEF SnapshotKept, Sound, Got
  <1>11. RunsSound'
    BY <1>1, <1>3, ImportRuns
  <1>12. QED
    BY <1>6, <1>7, <1>9, <1>10, <1>11 DEF InventoryInvariant

(***************************************************************************)
(* The theorems.                                                           *)
(***************************************************************************)
LEMMA InventoryInit == Init => InventoryInvariant
  <1> SUFFICES ASSUME Init PROVE InventoryInvariant
    OBVIOUS
  <1>1. cursor \in Cursor /\ cursor.phase = "unset" /\ cursor.value = None
        /\ cursor.rev = 0 /\ cursor.gen = 0
    BY DEF Init, Cursor
  <1>2. Idle \in Held /\ Idle.at = "idle"
    BY DEF Idle, Held
  <1>3. log \in Seq(Op) /\ DOMAIN log = {}
    BY SMT DEF Init
  <1>4. TypeOK
    BY SMT, <1>1, <1>2, <1>3 DEF Init, TypeOK
  <1>5. InventoryCurrent /\ NothingForeign
    BY <1>1 DEF Init, InventoryCurrent, NothingForeign
  <1>6. LogAgrees
    BY <1>3 DEF LogAgrees, Since
  <1>7. SnapshotKept
    BY SMT, <1>1 DEF Init, SnapshotKept, Sound
  <1>8. RunsSound
    BY <1>2 DEF Init, RunsSound, Behind, Faithful
  <1>9. QED
    BY <1>4, <1>5, <1>6, <1>7, <1>8 DEF InventoryInvariant

LEMMA Stutter ==
  ASSUME InventoryInvariant, UNCHANGED vars
  PROVE  InventoryInvariant'
  <1>1. UNCHANGED <<listed, log, account, cursor, device, seen, worker, faults>>
    BY DEF vars
  <1>2. /\ TypeOK /\ InventoryCurrent /\ NothingForeign
        /\ LogAgrees /\ SnapshotKept /\ RunsSound
    BY DEF InventoryInvariant
  <1>3. TypeOK'
    BY <1>1, <1>2 DEF TypeOK
  <1>4. InventoryCurrent' /\ NothingForeign' /\ LogAgrees' /\ SnapshotKept'
    BY <1>1, <1>2, ServerRests
  <1>5. RunsSound'
    <2>1. ASSUME NEW w \in Workers PROVE Behind(worker[w])' /\ Faithful(worker[w])'
      <3>1. PICK held : held = worker[w]
        OBVIOUS
      <3>2. Behind(held) /\ Faithful(held) /\ UNCHANGED apple
        BY <1>1, <1>2, <3>1 DEF RunsSound, apple
      <3>3. Behind(held)' /\ Faithful(held)'
        BY <1>1, <3>2, AppleRests DEF Behind, Faithful
      <3>4. QED
        BY <1>1, <3>1, <3>3
    <2>2. QED
      BY <2>1 DEF RunsSound
  <1>6. QED
    BY <1>3, <1>4, <1>5 DEF InventoryInvariant

LEMMA InventoryNext ==
  ASSUME InventoryInvariant, [Next]_vars
  PROVE  InventoryInvariant'
  <1>1. ASSUME NEW s \in Serials, Change(s) PROVE InventoryInvariant'
    BY <1>1, ChangeKeeps
  <1>2. ASSUME NEW w \in Workers, Step(w) \/ CallRejected(w) \/ Abort(w) PROVE InventoryInvariant'
    <2>1. TypeOK
      BY DEF InventoryInvariant
    <2>2. CASE Begin(w)
      BY <2>2, BeginKeeps
    <2>3. CASE StartFetch(w)
      BY <2>3, StartFetchKeeps
    <2>4. CASE CallFetch(w)
      BY <2>4, FetchKeeps
    <2>5. CASE CallSync(w)
      BY <2>5, SyncKeeps
    <2>6. CASE CallExhausted(w)
      BY <2>6, ExhaustedKeeps
    <2>7. CASE Commit(w)
      BY <2>7, CommitKeeps
    <2>8. CASE Conflict(w)
      <3>1. faults' \in 0 .. MaxFaults
        BY <2>1, <2>8, FaultCount DEF Conflict
      <3>2. QED
        BY <2>8, <3>1, RunEnds DEF Conflict
    <2>9. CASE CallRejected(w)
      BY <2>9, RejectedKeeps
    <2>10. CASE Abort(w)
      <3>1. faults' \in 0 .. MaxFaults
        BY <2>1, <2>10, FaultCount DEF Abort
      <3>2. QED
        BY <2>10, <3>1, RunEnds DEF Abort
    <2>11. QED
      BY <1>2, <2>2, <2>3, <2>4, <2>5, <2>6, <2>7, <2>8, <2>9, <2>10 DEF Step
  <1>3. CASE RenewTokens
    BY <1>3, RenewKeeps
  <1>4. CASE ResetAccount
    BY <1>4, ResetKeeps
  <1>5. CASE UNCHANGED vars
    BY <1>5, Stutter
  <1>6. QED
    BY <1>1, <1>2, <1>3, <1>4, <1>5 DEF Next

\* Whatever Apple changes between the pages and whichever runs are interrupted,
\* superseded or bound to tokens since replaced (dep.Syncer, commitPage,
\* commitTokens), the rows and marks agree with the cursor stored beside them
\* and a page that can still be committed speaks of the present server.
THEOREM InventorySafety == Spec => []InventoryInvariant
  <1>1. InventoryInvariant /\ [Next]_vars => InventoryInvariant'
    BY InventoryNext
  <1>2. QED
    BY <1>1, InventoryInit, PTL DEF Spec

\* The cursor never runs ahead of the rows it is committed with: commitPage
\* loses no change of Apple's list.
THEOREM CursorNeverAhead == Spec => []InventoryCurrent
  <1>1. InventoryInvariant => InventoryCurrent
    BY DEF InventoryInvariant
  <1>2. QED
    BY <1>1, InventorySafety, PTL

\* After resetAccount nothing the previous server listed reaches the rows.
THEOREM OnlyPresentServer == Spec => []NothingForeign
  <1>1. InventoryInvariant => NothingForeign
    BY DEF InventoryInvariant
  <1>2. QED
    BY <1>1, InventorySafety, PTL

\* commitPage and reconcile tombstone a row only for a serial Apple dropped, or
\* that came or went while the page was being read.
THEOREM TombstonesSound == Spec => TombstonesJustified
  <1> DEFINE Justified ==
        \A s \in Serials : device[s] = "live" /\ device'[s] = "deleted" =>
          s \notin listed
          \/ Moved(s, IF cursor.phase = "fetch" THEN cursor'.value.pos ELSE cursor.value.pos)
  <1>1. ASSUME InventoryInvariant, [Next]_vars PROVE [Justified]_vars
    <2>1. ASSUME NEW w \in Workers, Commit(w) PROVE Justified
      BY <1>1, <2>1, CommitRows
    <2>2. CASE ResetAccount
      BY <2>2 DEF ResetAccount
    <2>3. CASE UNCHANGED device
      BY <2>3
    <2>4. CASE UNCHANGED vars
      BY <2>4
    <2>5. Next => UNCHANGED device \/ ResetAccount \/ \E w \in Workers : Commit(w)
      BY DEF Next, Change, Step, Begin, StartFetch, CallFetch, CallSync, CallExhausted, Conflict,
             CallRejected, Abort, RenewTokens, store
    <2>6. QED
      BY <1>1, <2>1, <2>2, <2>3, <2>4, <2>5
  <1>2. QED
    BY <1>1, InventorySafety, PTL DEF Spec, TombstonesJustified

(***************************************************************************)
(* Progress.  The cursor only moves forward: every commit makes headway    *)
(* that no run left behind can undo, which is the safety half of           *)
(* InventoryConverges.                                                     *)
(***************************************************************************)
Onward ==
    /\ cursor' # cursor => cursor'.rev = cursor.rev + 1
    /\ cursor.phase = "sync" /\ cursor'.phase = "sync" => cursor.value.pos <= cursor'.value.pos
    /\ cursor.phase = "fetch" /\ cursor'.phase = "fetch" /\ cursor'.gen = cursor.gen =>
         /\ Got(cursor.value) \subseteq Got(cursor'.value)
         /\ cursor.value # None => cursor'.value.pos = cursor.value.pos

\* A page of changes is not behind the cursor it was read from.
Ahead(held) ==
    held.at \in {"commit", "last"} /\ held.cur.phase = "sync" =>
       held.cur.value.pos <= held.next.value.pos
PagesAhead == \A w \in Workers : Ahead(worker[w])

LEMMA AheadMoves ==
  ASSUME TypeOK, PagesAhead, NEW w \in Workers, NEW held, Goto(w, held), Ahead(held)
  PROVE  PagesAhead'
  <1>1. Moves(w) /\ worker'[w] = held
    BY GotoMoves
  <1>2. \A o \in Workers \ {w} : worker'[o] = worker[o]
    BY <1>1 DEF Moves, TypeOK
  <1>3. ASSUME NEW o \in Workers PROVE Ahead(worker[o])'
    <2>1. CASE o = w
      <3>1. Ahead(worker'[w])
        BY <1>1
      <3>2. QED
        BY <2>1, <3>1 DEF Ahead
    <2>2. CASE o # w
      <3>1. worker'[o] = worker[o] /\ Ahead(worker[o])
        BY <1>2, <2>2 DEF PagesAhead
      <3>2. QED
        BY <3>1 DEF Ahead
    <2>3. QED
      BY <2>1, <2>2
  <1>4. QED
    BY <1>3 DEF PagesAhead

\* A run that holds no page of changes.
LEMMA NoPage ==
  ASSUME NEW held, held.at \notin {"commit", "last"} \/ held.cur.phase # "sync"
  PROVE  Ahead(held)
  BY DEF Ahead

LEMMA SyncAhead ==
  ASSUME InventoryInvariant, NEW w \in Workers, CallSync(w)
  PROVE  \E held : Goto(w, held) /\ Ahead(held)
  <1>1. worker[w].at = "call" /\ worker[w].cur.phase = "sync" /\ account = worker[w].binding
    BY DEF CallSync
  <1>2. TypeOK /\ worker[w] \in Held
    BY DEF InventoryInvariant, TypeOK
  <1>3. PICK cur : cur = worker[w].cur
    OBVIOUS
  <1>4. Len(log) \in Nat /\ cur.value.pos \in 0 .. Len(log)
    BY <1>1, <1>3, CallFrom DEF Sound
  <1>5. PICK from \in 0 .. Len(log) : from = cur.value.pos
    BY <1>4
  <1>6. PICK last : last = IF Len(log) < from + PageSize THEN Len(log) ELSE from + PageSize
    OBVIOUS
  <1>7. from <= last
    BY SMT, <1>4, <1>6
  <1>8. PICK value : value = SyncPage(cur.value).value
    OBVIOUS
  <1>9. value.pos = last
    BY <1>5, <1>6, <1>8 DEF SyncPage
  <1>10. PICK next : next = [phase |-> "sync", rev |-> cur.rev + 1, gen |-> 0, value |-> value]
    OBVIOUS
  <1>11. next.value.pos = last
    BY <1>9, <1>10
  <1>12. PICK page : page = Dedupe(SyncPage(cur.value).ops)
    OBVIOUS
  <1>13. PICK at : Goto(w, [worker[w] EXCEPT !.at = at, !.page = page, !.next = next])
    BY <1>3, <1>8, <1>10, <1>12 DEF CallSync
  <1>14. PICK held : held = [worker[w] EXCEPT !.at = at, !.page = page, !.next = next]
    OBVIOUS
  <1>15. held.cur = cur /\ held.next = next
    BY SMT, <1>2, <1>3, <1>14 DEF Held
  <1>16. Ahead(held)
    BY <1>5, <1>7, <1>11, <1>15 DEF Ahead
  <1>17. QED
    BY <1>13, <1>14, <1>16

LEMMA AheadStep ==
  ASSUME InventoryInvariant, PagesAhead, [Next]_vars
  PROVE  PagesAhead'
  <1>1. TypeOK
    BY DEF InventoryInvariant
  <1>2. CASE UNCHANGED worker
    BY <1>2 DEF PagesAhead, Ahead
  <1>3. ASSUME NEW w \in Workers, Step(w) \/ CallRejected(w) \/ Abort(w) PROVE PagesAhead'
    <2>1. worker[w] \in Held /\ Idle \in Held /\ Idle.at = "idle"
      BY <1>1, IdleHeld DEF TypeOK
    <2>2. Goto(w, Idle) => PagesAhead'
      <3>1. Ahead(Idle)
        BY <2>1 DEF Ahead
      <3>2. QED
        BY <1>1, <3>1, AheadMoves
    <2>3. ASSUME NEW held, Goto(w, held), held.at \notin {"commit", "last"} \/ held.cur.phase # "sync"
          PROVE  PagesAhead'
      BY <1>1, <2>3, NoPage, AheadMoves
    <2>4. CASE Begin(w)
      <3>1. PICK held : Goto(w, held) /\ held.at \in {"call", "restart"}
        <4>1. PICK at \in {"call", "restart"} :
                Goto(w, [Idle EXCEPT !.at = at, !.binding = account, !.cur = cursor])
          BY <2>4 DEF Begin
        <4>2. PICK held : held = [Idle EXCEPT !.at = at, !.binding = account, !.cur = cursor]
          OBVIOUS
        <4>3. held.at = at
          BY <4>2 DEF Idle
        <4>4. QED
          BY <4>1, <4>2, <4>3
      <3>2. QED
        BY <2>3, <3>1
    <2>5. CASE StartFetch(w)
      <3>1. PICK held : Goto(w, held) /\ held.at = "call"
        <4>1. PICK next : Goto(w, [worker[w] EXCEPT !.at = "call", !.cur = next])
          BY <2>5 DEF StartFetch
        <4>2. PICK held : held = [worker[w] EXCEPT !.at = "call", !.cur = next]
          OBVIOUS
        <4>3. held.at = "call"
          BY <2>1, <4>2 DEF Held
        <4>4. QED
          BY <4>1, <4>2, <4>3
      <3>2. QED
        BY <2>3, <3>1
    <2>6. CASE CallFetch(w)
      <3>1. PICK held : Goto(w, held) /\ held.cur.phase = "fetch"
        <4>1. PICK page, next : Goto(w, [worker[w] EXCEPT !.at = "commit", !.page = page, !.next = next])
          BY <2>6 DEF CallFetch
        <4>2. PICK held : held = [worker[w] EXCEPT !.at = "commit", !.page = page, !.next = next]
          OBVIOUS
        <4>3. held.cur = worker[w].cur
          BY SMT, <2>1, <4>2 DEF Held
        <4>4. QED
          BY <2>6, <4>1, <4>2, <4>3 DEF CallFetch
      <3>2. QED
        BY <2>3, <3>1
    <2>7. CASE CallSync(w)
      BY <1>1, <2>7, SyncAhead, AheadMoves
    <2>8. CASE CallExhausted(w)
      <3>1. CASE worker[w].cur.phase = "sync"
        BY <2>2, <2>8, <3>1 DEF CallExhausted
      <3>2. CASE worker[w].cur.phase # "sync"
        <4>1. PICK page, next : Goto(w, [worker[w] EXCEPT !.at = "commit", !.page = page, !.next = next])
          BY <2>8, <3>2 DEF CallExhausted
        <4>2. PICK held : held = [worker[w] EXCEPT !.at = "commit", !.page = page, !.next = next]
          OBVIOUS
        <4>3. held.cur = worker[w].cur
          BY SMT, <2>1, <4>2 DEF Held
        <4>4. QED
          BY <2>3, <3>2, <4>1, <4>2, <4>3
      <3>3. QED
        BY <3>1, <3>2
    <2>9. CASE Commit(w)
      <3>1. CASE worker[w].at = "last"
        BY <2>2, <2>9, <3>1 DEF Commit
      <3>2. CASE worker[w].at # "last"
        <4>1. PICK held : Goto(w, held) /\ held.at = "call"
          <5>1. PICK next : Goto(w, [worker[w] EXCEPT !.at = "call", !.cur = next, !.next = None,
                                                      !.page = None])
            BY <2>9, <3>2 DEF Commit
          <5>2. PICK held : held = [worker[w] EXCEPT !.at = "call", !.cur = next, !.next = None,
                                                     !.page = None]
            OBVIOUS
          <5>3. held.at = "call"
            BY <2>1, <5>2 DEF Held
          <5>4. QED
            BY <5>1, <5>2, <5>3
        <4>2. QED
          BY <2>3, <4>1
      <3>3. QED
        BY <3>1, <3>2
    <2>10. CASE CallRejected(w)
      <3>1. CASE worker[w].restarted
        BY <2>2, <2>10, <3>1 DEF CallRejected
      <3>2. CASE ~worker[w].restarted
        <4>1. PICK held : Goto(w, held) /\ held.at = "restart"
          <5>1. PICK held : held = [worker[w] EXCEPT !.at = "restart", !.restarted = TRUE]
            OBVIOUS
          <5>2. held.at = "restart"
            BY <2>1, <5>1 DEF Held
          <5>3. QED
            BY <2>10, <3>2, <5>1, <5>2 DEF CallRejected
        <4>2. QED
          BY <2>3, <4>1
      <3>3. QED
        BY <3>1, <3>2
    <2>11. CASE Conflict(w) \/ Abort(w)
      BY <2>2, <2>11 DEF Conflict, Abort
    <2>12. QED
      BY <1>3, <2>4, <2>5, <2>6, <2>7, <2>8, <2>9, <2>10, <2>11 DEF Step
  <1>4. QED
    BY <1>2, <1>3 DEF Next, Change, RenewTokens, ResetAccount, vars

\* A new fetch has a generation no earlier one had.
LEMMA FreshFetch ==
  ASSUME InventoryInvariant, cursor'.phase = "fetch",
         cursor'.rev = cursor.rev + 1, cursor'.gen = cursor.rev + 1
  PROVE  Onward
  <1>1. cursor.rev \in Nat /\ cursor.gen \in Nat /\ cursor.gen <= cursor.rev
    BY DEF InventoryInvariant, TypeOK, Cursor, SnapshotKept
  <1>2. cursor'.gen # cursor.gen
    BY SMT, <1>1
  <1>3. QED
    BY <1>2 DEF Onward

LEMMA OnwardStep ==
  ASSUME InventoryInvariant, PagesAhead, [Next]_vars
  PROVE  Onward
  <1>1. CASE UNCHANGED cursor
    <2>1. cursor.phase = "sync" => cursor.value.pos <= cursor.value.pos
      <3>1. cursor.phase = "sync" => cursor.value.pos \in Nat
        BY DEF InventoryInvariant, TypeOK, SnapshotKept, Sound, Cursor, Value
      <3>2. QED
        BY SMT, <3>1
    <2>2. QED
      BY <1>1, <2>1 DEF Onward
  <1>2. ASSUME NEW w \in Workers, Commit(w) PROVE Onward
    <2>1. PICK cur, next, page :
            /\ cursor = cur /\ cursor' = next /\ cur.phase \in {"fetch", "sync"}
            /\ next.rev = cur.rev + 1 /\ next.value # None
            /\ cur.phase = "fetch" => PageOfList(cur, next, page)
            /\ cur.phase = "sync" => cur.value.pos <= next.value.pos
      BY <1>2, CommitPage DEF PagesAhead, Ahead, Commit
    <2>2. QED
      BY <2>1 DEF Onward, PageOfList
  <1>3. ASSUME NEW w \in Workers, StartFetch(w) PROVE Onward
    <2>1. /\ cursor'.phase = "fetch" /\ cursor'.rev = cursor.rev + 1
          /\ cursor'.gen = cursor.rev + 1
      BY <1>3 DEF StartFetch
    <2>2. QED
      BY <2>1, FreshFetch
  <1>4. CASE ResetAccount
    <2>1. /\ cursor'.phase = "fetch" /\ cursor'.rev = cursor.rev + 1
          /\ cursor'.gen = cursor.rev + 1
      BY <1>4 DEF ResetAccount
    <2>2. QED
      BY <2>1, FreshFetch
  <1>5. Next => \/ UNCHANGED cursor \/ ResetAccount
                \/ \E w \in Workers : Commit(w) \/ StartFetch(w)
    BY DEF Next, Change, Step, Begin, CallFetch, CallSync, CallExhausted, Conflict,
           CallRejected, Abort, RenewTokens, store
  <1>6. QED
    BY <1>1, <1>2, <1>3, <1>4, <1>5 DEF vars

\* commitPage, startFetch and resetAccount number the cursor strictly upwards.
\* Within one server's sync phase its position never goes back, and within one
\* generation what a fetch has returned is never forgotten, whichever of
\* several runs commits and however late.
THEOREM CursorMovesForward == Spec => [][Onward]_vars
  <1>1. Init => PagesAhead
    BY IdleHeld DEF Init, PagesAhead, Ahead
  <1>2. InventoryInvariant /\ PagesAhead /\ [Next]_vars => PagesAhead'
    BY AheadStep
  <1>3. InventoryInvariant /\ PagesAhead /\ [Next]_vars => [Onward]_vars
    BY OnwardStep
  <1>4. QED
    BY <1>1, <1>2, <1>3, InventorySafety, PTL DEF Spec
=============================================================================
