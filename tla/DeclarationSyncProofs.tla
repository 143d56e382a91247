------------------------ MODULE DeclarationSyncProofs ------------------------
(***************************************************************************)
(* The notifier's bookkeeping and the engine's snapshots for any number of *)
(* enrollments, declarations and sets, any batch and any number of writes, *)
(* resets, failures and crashes.                                           *)
(***************************************************************************)
EXTENDS DeclarationSync, FiniteSetTheorems, TLAPS

\* Zenon proves most leaves; those on arithmetic and records name SMT.
USE ZenonT(20), ParentAssumption, NothingAssumption, LimitsAssumption DEF LimitsAssumption

(***************************************************************************)
(* Manifests.                                                              *)
(***************************************************************************)
LEMMA MembersType ==
  ASSUME TypeOK, NEW s \in Sets
  PROVE  Members(s) \subseteq Identifiers
  BY DEF TypeOK, Members

LEMMA AssignedType ==
  ASSUME TypeOK, NEW e \in Enrollments
  PROVE  Assigned(e) \subseteq Identifiers
  <1>1. direct[e] \subseteq Identifiers /\ sets[e] \subseteq Sets
    BY DEF TypeOK
  <1>2. \A s \in sets[e] : Members(s) \subseteq Identifiers
    BY <1>1, MembersType
  <1>3. QED
    BY <1>1, <1>2 DEF Assigned

LEMMA ManifestType ==
  ASSUME NEW e \in Enrollments
  PROVE  Manifest(e) \in Manifests /\ Manifest(e) # None
  <1>1. Manifest(e) \in Manifests
    BY DEF Manifest, Manifests
  <1>2. QED
    BY <1>1 DEF NothingAssumption, Manifests, Items

\* The manifest is a function of what is assigned and of its contents.
LEMMA SameManifest ==
  ASSUME NEW e \in Enrollments, Assigned(e)' = Assigned(e),
         \A i \in Assigned(e) : decl'[i] = decl[i]
  PROVE  Manifest(e)' = Manifest(e)
  BY DEF Manifest, Items

LEMMA SameAssigned ==
  ASSUME NEW e \in Enrollments, direct'[e] = direct[e], sets'[e] = sets[e],
         \A s \in sets[e] : Members(s)' = Members(s)
  PROVE  Assigned(e)' = Assigned(e)
  BY DEF Assigned

LEMMA AdminRests ==
  ASSUME UNCHANGED admin, NEW e \in Enrollments
  PROVE  Assigned(e)' = Assigned(e) /\ Manifest(e)' = Manifest(e)
  <1>1. UNCHANGED <<decl, members, sets, direct>>
    BY DEF admin
  <1>2. Assigned(e)' = Assigned(e)
    BY <1>1 DEF Assigned, Members
  <1>3. QED
    BY <1>1, <1>2, SameManifest

\* An enrollment is affected by what is assigned to it and by its sets.
LEMMA NotAffected ==
  ASSUME NEW e \in Enrollments, NEW ids, NEW names, e \notin Affected(ids, names)
  PROVE  Assigned(e) \cap ids = {} /\ sets[e] \cap names = {}
  BY SMT DEF Affected, Assigned

(***************************************************************************)
(* Change rows.                                                            *)
(***************************************************************************)
Recorded(ids) ==
    /\ seq' \in Nat /\ seq <= seq' /\ changes \subseteq changes' /\ changes' \subseteq Row
    /\ \A r \in changes' \ changes : r.id \in ids /\ seq < r.seq /\ r.seq <= seq'
    /\ \A r, q \in changes' \ changes : r.seq = q.seq => r.id = q.id
    /\ \A e \in ids : \E r \in changes' : r.id = e /\ seq < r.seq

LEMMA RowsRecorded ==
  ASSUME TypeOK, NEW ids \in SUBSET Enrollments,
         RecordChanges(ids) \/ (ids = {} /\ UNCHANGED <<changes, seq>>)
  PROVE  Recorded(ids)
  <1>1. seq \in Nat /\ changes \subseteq Row
    BY DEF TypeOK
  <1>2. CASE ids = {} /\ UNCHANGED <<changes, seq>>
    BY SMT, <1>1, <1>2 DEF Recorded
  <1>3. CASE RecordChanges(ids)
    <2>1. Cardinality(ids) \in Nat
      BY FS_Subset, FS_CardinalityType DEF ParentAssumption
    <2>2. PICK number \in [ids -> seq + 1 .. seq + Cardinality(ids)] :
            /\ \A x, y \in ids : number[x] = number[y] => x = y
            /\ changes' = changes \cup {[seq |-> number[x], id |-> x, age |-> "young"] : x \in ids}
            /\ seq' = seq + Cardinality(ids)
      BY <1>3 DEF RecordChanges
    <2>3. \A x \in ids : number[x] \in Nat /\ seq < number[x] /\ number[x] <= seq'
      BY SMT, <1>1, <2>1, <2>2
    <2>4. \A x \in ids : [seq |-> number[x], id |-> x, age |-> "young"] \in Row
      BY <2>3 DEF Row
    <2>5. \A r \in changes' \ changes : \E x \in ids : r.seq = number[x] /\ r.id = x
      BY SMT, <2>2
    <2>6. \A e \in ids : \E r \in changes' : r.id = e /\ r.seq = number[e]
      <3>1. TAKE e \in ids
      <3>2. [seq |-> number[e], id |-> e, age |-> "young"] \in changes'
        BY <2>2
      <3>3. QED
        BY <3>2
    <2>7. seq' \in Nat /\ seq <= seq' /\ changes \subseteq changes' /\ changes' \subseteq Row
      BY SMT, <1>1, <2>1, <2>2, <2>4
    <2>8. \A r, q \in changes' \ changes : r.seq = q.seq => r.id = q.id
      BY SMT, <2>2, <2>5
    <2>9. \A r \in changes' \ changes : r.id \in ids /\ seq < r.seq /\ r.seq <= seq'
      BY <2>3, <2>5
    <2>10. \A e \in ids : \E r \in changes' : r.id = e /\ seq < r.seq
      BY <2>3, <2>6
    <2>11. QED
      BY <2>7, <2>8, <2>9, <2>10 DEF Recorded
  <1>4. QED
    BY <1>2, <1>3

\* New rows are newer than every row a drain holds.
LEMMA RecordedRows ==
  ASSUME TypeOK, RowsNumbered, NEW ids, Recorded(ids), UNCHANGED drain
  PROVE  /\ RowsNumbered'
         /\ \A e \in Enrollments : Newer(e) => Newer(e)'
         /\ \A e \in ids \cap Enrollments : Newer(e)'
         /\ \A e \in Enrollments : Current(e)' => Current(e)
  <1>1. seq \in Nat /\ \A r \in changes : r.seq \in Nat
    BY DEF TypeOK, Row
  <1>2. \A e \in Enrollments : drain.rows[e] \subseteq Nat
    BY DEF TypeOK, DrainType
  <1>3. seq' \in Nat /\ \A r \in changes' : r.seq \in Nat
    BY DEF Recorded, Row
  <1>4. RowsNumbered'
    <2>1. \A r \in changes' : r.seq <= seq'
      BY SMT, <1>1, <1>3 DEF RowsNumbered, Recorded
    <2>2. \A r, q \in changes' : r.seq = q.seq => r.id = q.id
      BY SMT, <1>1, <1>3 DEF RowsNumbered, Recorded
    <2>3. \A e \in Enrollments : \A n \in drain.rows[e] : n <= seq'
      BY SMT, <1>1, <1>2, <1>3 DEF RowsNumbered, Recorded
    <2>4. \A e \in Enrollments : \A r \in changes' : r.seq \in drain.rows[e] => r.id = e
      BY SMT, <1>1, <1>2, <1>3 DEF RowsNumbered, Recorded
    <2>5. QED
      BY <2>1, <2>2, <2>3, <2>4 DEF RowsNumbered
  <1>5. \A e \in Enrollments : Newer(e) => Newer(e)'
    BY DEF Newer, Recorded
  <1>6. \A e \in ids \cap Enrollments : Newer(e)'
    BY SMT, <1>1, <1>2, <1>3 DEF Newer, Recorded, RowsNumbered
  <1>7. \A e \in Enrollments : Current(e)' => Current(e)
    BY SMT, <1>1, <1>2, <1>3 DEF Current, Recorded, RowsNumbered
  <1>8. QED
    BY <1>4, <1>5, <1>6, <1>7

\* A write that records every enrollment whose manifest it changes.
LEMMA WriteKeeps ==
  ASSUME DeclarationInvariant, NEW ids \in SUBSET Enrollments,
         RecordChanges(ids) \/ (ids = {} /\ UNCHANGED <<changes, seq>>),
         \A e \in Enrollments \ ids : Manifest(e)' = Manifest(e),
         Elsewhere, ops' \in 0 .. MaxOps,
         decl' \in [Identifiers -> Contents \cup {None}], versions' \subseteq Items,
         members' \in [Sets -> {None} \cup SUBSET Identifiers],
         sets' \in [Enrollments -> SUBSET Sets], direct' \in [Enrollments -> SUBSET Identifiers]
  PROVE  DeclarationInvariant'
  <1>1. /\ TypeOK /\ ChangesAccounted /\ NothingInherited
        /\ RowsNumbered /\ DrainSpeaks /\ AssignedGranted
    BY DEF DeclarationInvariant
  <1>2. Recorded(ids)
    BY <1>1, RowsRecorded
  <1>3. UNCHANGED <<snapshot, on, open, drain, dev, told, shared>>
    BY DEF Elsewhere
  <1>4. granted' = [e \in Enrollments |-> granted[e] \cup Assigned(e)']
    BY DEF Elsewhere
  <1>5. \A e \in Enrollments : Assigned(e)' \subseteq Identifiers
    <2>1. \A s \in Sets : Members(s)' \subseteq Identifiers
      BY DEF Members
    <2>2. QED
      BY SMT, <2>1 DEF Assigned
  <1>6. granted' \in [Enrollments -> SUBSET Identifiers]
    BY <1>1, <1>4, <1>5 DEF TypeOK
  <1>7. TypeOK'
    BY <1>1, <1>2, <1>3, <1>6 DEF TypeOK, Recorded
  <1>8. /\ RowsNumbered'
        /\ \A e \in Enrollments : Newer(e) => Newer(e)'
        /\ \A e \in ids : Newer(e)'
        /\ \A e \in Enrollments : Current(e)' => Current(e)
    BY <1>1, <1>2, <1>3, RecordedRows
  <1>9. ChangesAccounted'
    <2>1. SUFFICES ASSUME NEW e \in Enrollments
                   PROVE  told'[e] \in {None, Manifest(e)'} \/ \E r \in changes' : r.id = e
      BY DEF ChangesAccounted
    <2>2. CASE e \in ids
      BY <1>2, <2>2 DEF Recorded
    <2>3. CASE e \notin ids
      BY <1>1, <1>2, <1>3, <2>3 DEF ChangesAccounted, Recorded
    <2>4. QED
      BY <2>2, <2>3
  <1>10. DrainSpeaks'
    <2>1. ASSUME NEW e \in drain.push \cup drain.done
          PROVE  told'[e] \in {None, Manifest(e)'} \/ Newer(e)'
      <3>1. e \in Enrollments
        BY <1>1 DEF TypeOK, DrainType
      <3>2. told[e] \in {None, Manifest(e)} \/ Newer(e)
        BY <1>1 DEF DrainSpeaks
      <3>3. QED
        BY <1>3, <1>8, <3>1, <3>2
    <2>2. ASSUME drain.phase = "enqueue", NEW at \in Enrollments, at = drain.at
          PROVE  drain.token = Manifest(at)' \/ Newer(at)' \/ ~Current(at)'
      <3>1. drain.token = Manifest(at) \/ Newer(at) \/ ~Current(at)
        BY <1>1, <2>2 DEF DrainSpeaks
      <3>2. QED
        BY <1>8, <3>1
    <2>3. drain.phase = "enqueue" => drain.at \in Enrollments /\ drain.token \in Manifests
      BY <1>1 DEF DrainSpeaks
    <2>4. QED
      BY <1>3, <2>1, <2>2, <2>3 DEF DrainSpeaks
  <1>11. NothingInherited'
    BY <1>1, <1>3, <1>4 DEF NothingInherited, Advertised
  <1>12. AssignedGranted'
    BY <1>4 DEF AssignedGranted
  <1>13. QED
    BY <1>7, <1>8, <1>9, <1>10, <1>11, <1>12 DEF DeclarationInvariant

(***************************************************************************)
(* Administration.                                                         *)
(***************************************************************************)
LEMMA SpendCount ==
  ASSUME TypeOK, Spend \/ UNCHANGED ops
  PROVE  ops' \in 0 .. MaxOps
  BY SMT DEF TypeOK, Spend

LEMMA PutKeeps ==
  ASSUME DeclarationInvariant, NEW i \in Identifiers, NEW c \in Contents, PutDeclaration(i, c)
  PROVE  DeclarationInvariant'
  <1>1. TypeOK
    BY DEF DeclarationInvariant
  <1>2. PICK ids : ids = Affected({i}, {})
    OBVIOUS
  <1>3. /\ ids \subseteq Enrollments /\ RecordChanges(ids) /\ Elsewhere
        /\ ops' \in 0 .. MaxOps /\ UNCHANGED <<members, sets, direct>>
        /\ decl' = [decl EXCEPT ![i] = c] /\ versions' = versions \cup {<<i, c>>}
    BY <1>1, <1>2, SpendCount DEF PutDeclaration, Affected
  <1>4. ASSUME NEW e \in Enrollments \ ids PROVE Manifest(e)' = Manifest(e)
    <2>1. i \notin Assigned(e)
      BY SMT, <1>2, NotAffected
    <2>2. Assigned(e)' = Assigned(e)
      BY <1>3 DEF Assigned, Members
    <2>3. \A k \in Assigned(e) : decl'[k] = decl[k]
      BY <1>1, <1>3, <2>1, AssignedType DEF TypeOK
    <2>4. QED
      BY <2>2, <2>3, SameManifest
  <1>5. decl' \in [Identifiers -> Contents \cup {None}] /\ versions' \subseteq Items
    BY SMT, <1>1, <1>3 DEF TypeOK, Items
  <1>6. QED
    BY <1>1, <1>3, <1>4, <1>5, WriteKeeps DEF TypeOK

LEMMA DeleteKeeps ==
  ASSUME DeclarationInvariant, NEW i \in Identifiers, DeleteDeclaration(i)
  PROVE  DeclarationInvariant'
  <1>1. TypeOK
    BY DEF DeclarationInvariant
  <1>2. PICK ids : ids = Affected({i}, {})
    OBVIOUS
  <1>3. /\ ids \subseteq Enrollments /\ RecordChanges(ids) /\ Elsewhere
        /\ ops' \in 0 .. MaxOps /\ UNCHANGED sets
        /\ decl' = [decl EXCEPT ![i] = None]
        /\ versions' = {v \in versions : v[1] # i}
        /\ members' = [s \in Sets |-> IF members[s] = None THEN None ELSE members[s] \ {i}]
        /\ direct' = [e \in Enrollments |-> direct[e] \ {i}]
    BY <1>1, <1>2, SpendCount DEF DeleteDeclaration, Affected, Without
  <1>4. /\ decl' \in [Identifiers -> Contents \cup {None}] /\ versions' \subseteq Items
        /\ direct' \in [Enrollments -> SUBSET Identifiers]
    BY <1>1, <1>3 DEF TypeOK
  <1>5. members' \in [Sets -> {None} \cup SUBSET Identifiers]
    BY <1>1, <1>3 DEF TypeOK
  <1>6. ASSUME NEW e \in Enrollments \ ids PROVE Manifest(e)' = Manifest(e)
    <2>1. i \notin Assigned(e) /\ sets[e] \subseteq Sets
      BY SMT, <1>1, <1>2, NotAffected DEF TypeOK
    <2>2. direct'[e] = direct[e]
      BY <1>3, <2>1 DEF Assigned
    <2>3. ASSUME NEW s \in sets[e] PROVE Members(s)' = Members(s)
      <3>1. i \notin Members(s) /\ s \in Sets
        BY <2>1 DEF Assigned
      <3>2. CASE members[s] = None
        BY <1>3, <3>1, <3>2 DEF Members
      <3>3. CASE members[s] # None
        <4>1. members'[s] = members[s]
          BY <1>3, <3>1, <3>3 DEF Members
        <4>2. QED
          BY <4>1 DEF Members
      <3>4. QED
        BY <3>2, <3>3
    <2>4. Assigned(e)' = Assigned(e)
      BY <1>3, <2>2, <2>3, SameAssigned
    <2>5. \A k \in Assigned(e) : decl'[k] = decl[k]
      BY <1>1, <1>3, <2>1, AssignedType DEF TypeOK
    <2>6. QED
      BY <2>4, <2>5, SameManifest
  <1>7. QED
    BY <1>1, <1>3, <1>4, <1>5, <1>6, WriteKeeps DEF TypeOK

\* A write to one set: the enrollments without it are unaffected.
LEMMA SetWrite ==
  ASSUME DeclarationInvariant, NEW s \in Sets, NEW value \in {None} \cup SUBSET Identifiers,
         members' = [members EXCEPT ![s] = value],
         NEW e \in Enrollments, s \notin sets[e], sets'[e] = sets[e], UNCHANGED direct
  PROVE  Assigned(e)' = Assigned(e)
  <1>1. \A t \in sets[e] : members'[t] = members[t]
    BY DEF DeclarationInvariant, TypeOK
  <1>2. \A t \in sets[e] : Members(t)' = Members(t)
    BY <1>1 DEF Members
  <1>3. QED
    BY <1>2, SameAssigned

LEMMA PutSetKeeps ==
  ASSUME DeclarationInvariant, NEW s \in Sets, PutSet(s)
  PROVE  DeclarationInvariant'
  <1>1. TypeOK
    BY DEF DeclarationInvariant
  <1>2. /\ members[s] = None /\ members' = [members EXCEPT ![s] = {}]
        /\ UNCHANGED <<decl, versions, sets, direct, changes, seq>> /\ Elsewhere
        /\ ops' \in 0 .. MaxOps
    BY <1>1, SpendCount DEF PutSet
  <1>3. members' \in [Sets -> {None} \cup SUBSET Identifiers]
    BY <1>1, <1>2 DEF TypeOK
  <1>4. ASSUME NEW e \in Enrollments PROVE Manifest(e)' = Manifest(e)
    <2>1. \A t \in Sets : members'[t] = IF t = s THEN {} ELSE members[t]
      BY <1>1, <1>2 DEF TypeOK
    <2>2. \A t \in Sets : Members(t)' = Members(t)
      BY <1>2, <2>1 DEF Members
    <2>3. Assigned(e)' = Assigned(e)
      BY <1>1, <1>2, <2>2, SameAssigned DEF TypeOK
    <2>4. QED
      BY <1>2, <2>3, SameManifest
  <1>5. {} \in SUBSET Enrollments
    OBVIOUS
  <1>6. QED
    BY <1>1, <1>2, <1>3, <1>4, <1>5, WriteKeeps DEF TypeOK

LEMMA DeleteSetKeeps ==
  ASSUME DeclarationInvariant, NEW s \in Sets, DeleteSet(s)
  PROVE  DeclarationInvariant'
  <1>1. TypeOK
    BY DEF DeclarationInvariant
  <1>2. PICK ids : ids = Affected({}, {s})
    OBVIOUS
  <1>3. /\ ids \subseteq Enrollments /\ RecordChanges(ids) /\ Elsewhere
        /\ ops' \in 0 .. MaxOps /\ UNCHANGED <<decl, versions, direct>>
        /\ members' = [members EXCEPT ![s] = None]
        /\ sets' = [e \in Enrollments |-> sets[e] \ {s}]
    BY <1>1, <1>2, SpendCount DEF DeleteSet, Affected
  <1>4. /\ members' \in [Sets -> {None} \cup SUBSET Identifiers]
        /\ sets' \in [Enrollments -> SUBSET Sets]
    BY <1>1, <1>3 DEF TypeOK
  <1>5. ASSUME NEW e \in Enrollments \ ids PROVE Manifest(e)' = Manifest(e)
    <2>1. s \notin sets[e]
      BY SMT, <1>2, NotAffected
    <2>2. sets'[e] = sets[e]
      BY <1>3, <2>1
    <2>3. Assigned(e)' = Assigned(e)
      BY <1>3, <2>1, <2>2, SetWrite
    <2>4. QED
      BY <1>3, <2>3, SameManifest
  <1>6. QED
    BY <1>1, <1>3, <1>4, <1>5, WriteKeeps DEF TypeOK

LEMMA MembershipKeeps ==
  ASSUME DeclarationInvariant, NEW s \in Sets, NEW i \in Identifiers, SetMembership(s, i)
  PROVE  DeclarationInvariant'
  <1>1. TypeOK
    BY DEF DeclarationInvariant
  <1>2. PICK ids : ids = Affected({}, {s})
    OBVIOUS
  <1>3. /\ ids \subseteq Enrollments /\ RecordChanges(ids) /\ Elsewhere
        /\ ops' \in 0 .. MaxOps /\ UNCHANGED <<decl, versions, sets, direct>>
    BY <1>1, <1>2, SpendCount DEF SetMembership, Affected
  <1>4. PICK value \in SUBSET Identifiers : members' = [members EXCEPT ![s] = value]
    <2>1. members[s] \in SUBSET Identifiers
      BY <1>1 DEF TypeOK, SetMembership
    <2>2. members[s] \cup {i} \in SUBSET Identifiers /\ members[s] \ {i} \in SUBSET Identifiers
      BY <2>1
    <2>3. QED
      BY <2>2 DEF SetMembership
  <1>5. members' \in [Sets -> {None} \cup SUBSET Identifiers]
    BY <1>1, <1>4 DEF TypeOK
  <1>6. ASSUME NEW e \in Enrollments \ ids PROVE Manifest(e)' = Manifest(e)
    <2>1. s \notin sets[e]
      BY SMT, <1>2, NotAffected
    <2>2. Assigned(e)' = Assigned(e)
      BY <1>3, <1>4, <2>1, SetWrite
    <2>3. QED
      BY <1>3, <2>2, SameManifest
  <1>7. QED
    BY <1>1, <1>3, <1>5, <1>6, WriteKeeps DEF TypeOK

LEMMA PublishKeeps ==
  ASSUME DeclarationInvariant, NEW s \in Sets, NEW wanted \in Manifests, PublishSet(s, wanted)
  PROVE  DeclarationInvariant'
  <1>1. TypeOK
    BY DEF DeclarationInvariant
  <1>2. PICK changed : changed = {it[1] : it \in {w \in wanted : decl[w[1]] # w[2]}}
    OBVIOUS
  <1>3. PICK names : names = {it[1] : it \in wanted}
    OBVIOUS
  <1>4. PICK ids : ids = Affected(changed, {s})
    OBVIOUS
  <1>5. /\ ids \subseteq Enrollments /\ RecordChanges(ids) /\ Elsewhere
        /\ ops' \in 0 .. MaxOps /\ UNCHANGED <<sets, direct>>
        /\ decl' = [i \in Identifiers |->
                      IF i \in changed THEN CHOOSE c \in Contents : <<i, c>> \in wanted ELSE decl[i]]
        /\ versions' = versions \cup {w \in wanted : w[1] \in changed}
        /\ members' = [members EXCEPT ![s] = names]
    BY SMT, <1>1, <1>2, <1>3, <1>4, SpendCount DEF PublishSet, Affected
  <1>6. wanted \subseteq Items /\ names \in SUBSET Identifiers
    BY <1>3 DEF Manifests, Items
  <1>7. ASSUME NEW i \in changed PROVE (CHOOSE c \in Contents : <<i, c>> \in wanted) \in Contents
    <2>1. PICK it \in wanted : it[1] = i
      BY <1>2
    <2>2. it \in Identifiers \X Contents
      BY <1>6 DEF Items
    <2>3. it[2] \in Contents /\ <<i, it[2]>> = it
      BY SMT, <2>1, <2>2
    <2>4. \E c \in Contents : <<i, c>> \in wanted
      BY <2>3
    <2>5. QED
      BY <2>4
  <1>8. decl' \in [Identifiers -> Contents \cup {None}]
    <2>1. \A i \in Identifiers :
            (IF i \in changed THEN CHOOSE c \in Contents : <<i, c>> \in wanted ELSE decl[i])
              \in Contents \cup {None}
      BY <1>1, <1>7 DEF TypeOK
    <2>2. QED
      BY <1>5, <2>1
  <1>9. versions' \subseteq Items /\ members' \in [Sets -> {None} \cup SUBSET Identifiers]
    BY <1>1, <1>5, <1>6 DEF TypeOK
  <1>10. ASSUME NEW e \in Enrollments \ ids PROVE Manifest(e)' = Manifest(e)
    <2>1. Assigned(e) \cap changed = {} /\ s \notin sets[e]
      BY SMT, <1>4, NotAffected
    <2>2. Assigned(e)' = Assigned(e)
      BY <1>5, <1>6, <2>1, SetWrite
    <2>3. \A k \in Assigned(e) : k \in Identifiers /\ k \notin changed
      BY <1>1, <2>1, AssignedType
    <2>4. \A k \in Assigned(e) : decl'[k] = decl[k]
      BY <1>5, <2>3
    <2>5. QED
      BY <2>2, <2>4, SameManifest
  <1>11. QED
    BY <1>1, <1>5, <1>8, <1>9, <1>10, WriteKeeps DEF TypeOK

LEMMA AssignSetKeeps ==
  ASSUME DeclarationInvariant, NEW x \in Enrollments, NEW s \in Sets, AssignSet(x, s)
  PROVE  DeclarationInvariant'
  <1>1. TypeOK
    BY DEF DeclarationInvariant
  <1>2. /\ RecordChanges({x}) /\ Elsewhere /\ {x} \in SUBSET Enrollments
        /\ ops' \in 0 .. MaxOps /\ UNCHANGED <<decl, versions, members, direct>>
    BY <1>1, SpendCount DEF AssignSet
  <1>3. PICK value \in SUBSET Sets : sets' = [sets EXCEPT ![x] = value]
    <2>1. sets[x] \cup {s} \in SUBSET Sets /\ sets[x] \ {s} \in SUBSET Sets
      BY <1>1 DEF TypeOK
    <2>2. QED
      BY <2>1 DEF AssignSet
  <1>4. sets' \in [Enrollments -> SUBSET Sets]
    BY <1>1, <1>3 DEF TypeOK
  <1>5. ASSUME NEW e \in Enrollments \ {x} PROVE Manifest(e)' = Manifest(e)
    <2>1. sets'[e] = sets[e] /\ direct'[e] = direct[e]
      BY <1>1, <1>2, <1>3 DEF TypeOK
    <2>2. Assigned(e)' = Assigned(e)
      BY <1>2, <2>1 DEF Assigned, Members
    <2>3. QED
      BY <1>2, <2>2, SameManifest
  <1>6. QED
    BY <1>1, <1>2, <1>4, <1>5, WriteKeeps DEF TypeOK

LEMMA AssignDeclarationKeeps ==
  ASSUME DeclarationInvariant, NEW x \in Enrollments, NEW i \in Identifiers, AssignDeclaration(x, i)
  PROVE  DeclarationInvariant'
  <1>1. TypeOK
    BY DEF DeclarationInvariant
  <1>2. /\ RecordChanges({x}) /\ Elsewhere /\ {x} \in SUBSET Enrollments
        /\ ops' \in 0 .. MaxOps /\ UNCHANGED <<decl, versions, members, sets>>
    BY <1>1, SpendCount DEF AssignDeclaration
  <1>3. PICK value \in SUBSET Identifiers : direct' = [direct EXCEPT ![x] = value]
    <2>1. direct[x] \cup {i} \in SUBSET Identifiers /\ direct[x] \ {i} \in SUBSET Identifiers
      BY <1>1 DEF TypeOK
    <2>2. QED
      BY <2>1 DEF AssignDeclaration
  <1>4. direct' \in [Enrollments -> SUBSET Identifiers]
    BY <1>1, <1>3 DEF TypeOK
  <1>5. ASSUME NEW e \in Enrollments \ {x} PROVE Manifest(e)' = Manifest(e)
    <2>1. sets'[e] = sets[e] /\ direct'[e] = direct[e]
      BY <1>1, <1>2, <1>3 DEF TypeOK
    <2>2. Assigned(e)' = Assigned(e)
      BY <1>2, <2>1 DEF Assigned, Members
    <2>3. QED
      BY <1>2, <2>2, SameManifest
  <1>6. QED
    BY <1>1, <1>2, <1>4, <1>5, WriteKeeps DEF TypeOK

LEMMA TouchKeeps ==
  ASSUME DeclarationInvariant, NEW x \in Enrollments, Touch(x)
  PROVE  DeclarationInvariant'
  <1>1. TypeOK
    BY DEF DeclarationInvariant
  <1>2. /\ RecordChanges({x}) /\ Elsewhere /\ {x} \in SUBSET Enrollments
        /\ ops' \in 0 .. MaxOps /\ UNCHANGED admin
    BY <1>1, SpendCount DEF Touch
  <1>3. \A e \in Enrollments : Manifest(e)' = Manifest(e)
    BY <1>2, AdminRests
  <1>4. UNCHANGED <<decl, versions, members, sets, direct>>
    BY <1>2 DEF admin
  <1>5. QED
    BY <1>1, <1>2, <1>3, <1>4, WriteKeeps DEF TypeOK

LEMMA PruneKeeps ==
  ASSUME DeclarationInvariant, PruneVersions
  PROVE  DeclarationInvariant'
  <1>1. TypeOK
    BY DEF DeclarationInvariant
  <1>2. /\ UNCHANGED <<decl, members, sets, direct, changes, seq, ops>> /\ Elsewhere
        /\ versions' \subseteq versions
    BY DEF PruneVersions, Pruned
  <1>3. ASSUME NEW e \in Enrollments PROVE Manifest(e)' = Manifest(e)
    <2>1. Assigned(e)' = Assigned(e)
      BY <1>2 DEF Assigned, Members
    <2>2. QED
      BY <1>2, <2>1, SameManifest
  <1>4. {} \in SUBSET Enrollments
    OBVIOUS
  <1>5. QED
    BY <1>1, <1>2, <1>3, <1>4, WriteKeeps DEF TypeOK

LEMMA AdministerKeeps ==
  ASSUME DeclarationInvariant, Administer
  PROVE  DeclarationInvariant'
  BY PutKeeps, DeleteKeeps, PutSetKeeps, DeleteSetKeeps, MembershipKeeps, PublishKeeps,
     AssignSetKeeps, AssignDeclarationKeeps, TouchKeeps, PruneKeeps DEF Administer

(***************************************************************************)
(* Steps that keep the rows, but for their age.                            *)
(***************************************************************************)
SameRows ==
    /\ changes' \subseteq Row
    /\ \A r \in changes : \E q \in changes' : q.seq = r.seq /\ q.id = r.id
    /\ \A q \in changes' : \E r \in changes : q.seq = r.seq /\ q.id = r.id

LEMMA SameRowsKeep ==
  ASSUME TypeOK, RowsNumbered, SameRows, UNCHANGED seq, drain'.rows = drain.rows
  PROVE  /\ RowsNumbered'
         /\ \A e \in Enrollments : Newer(e) => Newer(e)'
         /\ \A e \in Enrollments : Current(e)' => Current(e)
         /\ \A e \in Enrollments : (\E r \in changes : r.id = e) => \E r \in changes' : r.id = e
  <1>1. RowsNumbered'
    BY SMT DEF RowsNumbered, SameRows
  <1>2. \A e \in Enrollments : Newer(e) => Newer(e)'
    BY DEF Newer, SameRows
  <1>3. \A e \in Enrollments : Current(e)' => Current(e)
    BY DEF Current, SameRows
  <1>4. \A e \in Enrollments : (\E r \in changes : r.id = e) => \E r \in changes' : r.id = e
    BY DEF SameRows
  <1>5. QED
    BY <1>1, <1>2, <1>3, <1>4

LEMMA AgedRow ==
  ASSUME NEW r \in Row, NEW age \in {"young", "due", "later"}
  PROVE  LET q == [r EXCEPT !.age = age] IN q \in Row /\ q.seq = r.seq /\ q.id = r.id
  BY DEF Row

LEMMA FailedRows ==
  ASSUME TypeOK, NEW numbers, FailChanges(numbers)
  PROVE  SameRows
  <1>1. \A r \in changes : LET q == IF r.seq \in numbers THEN [r EXCEPT !.age = "later"] ELSE r
                           IN q \in Row /\ q.seq = r.seq /\ q.id = r.id
    BY AgedRow DEF TypeOK
  <1>2. changes' = {IF r.seq \in numbers THEN [r EXCEPT !.age = "later"] ELSE r : r \in changes}
    BY DEF FailChanges
  <1>3. QED
    BY <1>1, <1>2 DEF SameRows

LEMMA ElapsedRows ==
  ASSUME TypeOK, Elapse
  PROVE  SameRows
  <1>1. PICK r \in changes : changes' = (changes \ {r}) \cup {[r EXCEPT !.age = "due"]}
    BY DEF Elapse
  <1>2. r \in Row /\ changes \subseteq Row
    BY DEF TypeOK
  <1>3. PICK q : q = [r EXCEPT !.age = "due"]
    OBVIOUS
  <1>4. q \in Row /\ q.seq = r.seq /\ q.id = r.id
    BY <1>2, <1>3, AgedRow
  <1>5. changes' = (changes \ {r}) \cup {q}
    BY <1>1, <1>3
  <1>6. changes' \subseteq Row
    BY <1>2, <1>4, <1>5
  <1>7. \A x \in changes : \E y \in changes' : y.seq = x.seq /\ y.id = x.id
    BY <1>4, <1>5
  <1>8. \A y \in changes' : \E x \in changes : y.seq = x.seq /\ y.id = x.id
    BY <1>4, <1>5
  <1>9. QED
    BY <1>6, <1>7, <1>8 DEF SameRows

\* Nothing the notifier relies on changes, except that it may forget.
LEMMA Quiet ==
  ASSUME DeclarationInvariant, SameRows, UNCHANGED <<admin, seq, told, granted>>,
         drain'.rows = drain.rows,
         drain'.push \cup drain'.done \subseteq drain.push \cup drain.done,
         drain'.phase = "enqueue" => UNCHANGED drain,
         TypeOK', NothingInherited'
  PROVE  DeclarationInvariant'
  <1>1. /\ TypeOK /\ ChangesAccounted /\ RowsNumbered /\ DrainSpeaks /\ AssignedGranted
    BY DEF DeclarationInvariant
  <1>2. /\ RowsNumbered'
        /\ \A e \in Enrollments : Newer(e) => Newer(e)'
        /\ \A e \in Enrollments : Current(e)' => Current(e)
        /\ \A e \in Enrollments : (\E r \in changes : r.id = e) => \E r \in changes' : r.id = e
    BY <1>1, SameRowsKeep
  <1>3. \A e \in Enrollments : Assigned(e)' = Assigned(e) /\ Manifest(e)' = Manifest(e)
    BY AdminRests
  <1>4. ChangesAccounted'
    BY <1>1, <1>2, <1>3 DEF ChangesAccounted
  <1>5. AssignedGranted'
    BY <1>1, <1>3 DEF AssignedGranted
  <1>6. drain.push \cup drain.done \subseteq Enrollments
    BY <1>1 DEF TypeOK, DrainType
  <1>7. \A e \in drain'.push \cup drain'.done : told'[e] \in {None, Manifest(e)'} \/ Newer(e)'
    BY <1>1, <1>2, <1>3, <1>6 DEF DrainSpeaks
  <1>8. ASSUME drain'.phase = "enqueue"
        PROVE  /\ drain'.at \in Enrollments /\ drain'.token \in Manifests
               /\ drain'.token = Manifest(drain.at)' \/ Newer(drain.at)' \/ ~Current(drain.at)'
    <2>1. PICK at \in Enrollments : at = drain.at
      BY <1>1, <1>8 DEF DrainSpeaks
    <2>2. drain.token \in Manifests /\ (drain.token = Manifest(at) \/ Newer(at) \/ ~Current(at))
      BY <1>1, <1>8, <2>1 DEF DrainSpeaks
    <2>3. drain.token = Manifest(at)' \/ Newer(at)' \/ ~Current(at)'
      BY <1>2, <1>3, <2>2
    <2>4. QED
      BY <1>8, <2>1, <2>2, <2>3
  <1>9. DrainSpeaks'
    BY <1>7, <1>8 DEF DrainSpeaks
  <1>10. QED
    BY <1>2, <1>4, <1>5, <1>9 DEF DeclarationInvariant

LEMMA ElapseKeeps ==
  ASSUME DeclarationInvariant, Elapse
  PROVE  DeclarationInvariant'
  <1>1. TypeOK /\ NothingInherited
    BY DEF DeclarationInvariant
  <1>2. SameRows
    BY <1>1, ElapsedRows
  <1>3. UNCHANGED <<admin, snapshot, seq, ops, on, open, drain, dev, told, shared, granted>>
    BY DEF Elapse
  <1>4. TypeOK'
    BY <1>1, <1>2, <1>3 DEF TypeOK, SameRows, admin
  <1>5. NothingInherited'
    BY <1>1, <1>3 DEF NothingInherited, Advertised
  <1>6. QED
    BY <1>2, <1>3, <1>4, <1>5, Quiet

LEMMA TokenUpdateKeeps ==
  ASSUME DeclarationInvariant, NEW e \in Enrollments, TokenUpdate(e)
  PROVE  DeclarationInvariant'
  <1>1. TypeOK /\ NothingInherited
    BY DEF DeclarationInvariant
  <1>2. /\ UNCHANGED <<admin, snapshot, changes, seq, ops, open, drain, dev, told, shared, granted>>
        /\ on' = [on EXCEPT ![e] = TRUE]
    BY DEF TokenUpdate
  <1>3. SameRows
    BY <1>1, <1>2 DEF SameRows, TypeOK
  <1>4. TypeOK'
    BY <1>1, <1>2 DEF TypeOK, admin
  <1>5. NothingInherited'
    BY <1>1, <1>2 DEF NothingInherited, Advertised
  <1>6. QED
    BY <1>2, <1>3, <1>4, <1>5, Quiet

(***************************************************************************)
(* The lifecycle.                                                          *)
(***************************************************************************)
LEMMA ResetKeeps ==
  ASSUME DeclarationInvariant, NEW x \in Enrollments, Reset(x)
  PROVE  DeclarationInvariant'
  <1>1. /\ TypeOK /\ ChangesAccounted /\ NothingInherited
        /\ RowsNumbered /\ DrainSpeaks /\ AssignedGranted
    BY DEF DeclarationInvariant
  <1>2. PICK gone : gone = Family(x)
    OBVIOUS
  <1>3. /\ on' = [e \in Enrollments |-> on[e] /\ e \notin gone]
        /\ open' = Emptied(open, gone) /\ sets' = Emptied(sets, gone)
        /\ direct' = Emptied(direct, gone) /\ snapshot' = Cleared(gone)
        /\ changes' = {r \in changes : r.id \notin gone}
        /\ dev' = [e \in Enrollments |-> IF e \in gone THEN Offline ELSE dev[e]]
        /\ told' = Emptied(told, gone) /\ granted' = Emptied(granted, gone)
        /\ shared' = shared \ gone
        /\ UNCHANGED <<decl, versions, members, seq, drain>>
    BY <1>2 DEF Reset
  <1>4. ops' \in 0 .. MaxOps
    BY <1>1, SpendCount DEF Reset
  <1>5. Offline \in DevType /\ Offline.held = {}
    BY DEF Offline, DevType, Manifests
  <1>6. TypeOK'
    <2>1. on' \in [Enrollments -> BOOLEAN]
      BY <1>1, <1>3 DEF TypeOK
    <2>2. /\ open' \in [Enrollments -> SUBSET Manifests] /\ sets' \in [Enrollments -> SUBSET Sets]
          /\ direct' \in [Enrollments -> SUBSET Identifiers]
          /\ granted' \in [Enrollments -> SUBSET Identifiers]
      BY <1>1, <1>3 DEF TypeOK, Emptied
    <2>3. told' \in [Enrollments -> {None} \cup Manifests]
      BY <1>1, <1>3 DEF TypeOK, Emptied, Manifests
    <2>4. snapshot' \in [Enrollments -> {None} \cup Manifests]
      BY <1>1, <1>3 DEF TypeOK, Cleared
    <2>5. dev' \in [Enrollments -> DevType]
      BY <1>1, <1>3, <1>5 DEF TypeOK
    <2>6. changes' \subseteq Row /\ shared' \subseteq Enrollments
      BY <1>1, <1>3 DEF TypeOK
    <2>7. QED
      BY <1>1, <1>3, <1>4, <2>1, <2>2, <2>3, <2>4, <2>5, <2>6 DEF TypeOK
  <1>7. ASSUME NEW e \in Enrollments, e \in gone
        PROVE  Assigned(e)' = {} /\ Manifest(e)' = {} /\ told'[e] = {}
    <2>1. direct'[e] = {} /\ sets'[e] = {} /\ told'[e] = {}
      BY <1>3, <1>7 DEF Emptied
    <2>2. Assigned(e)' = {}
      BY <2>1 DEF Assigned
    <2>3. Manifest(e)' = {}
      BY <2>2 DEF Manifest
    <2>4. QED
      BY <2>1, <2>2, <2>3
  <1>8. ASSUME NEW e \in Enrollments, e \notin gone
        PROVE  Assigned(e)' = Assigned(e) /\ Manifest(e)' = Manifest(e) /\ told'[e] = told[e]
    <2>1. direct'[e] = direct[e] /\ sets'[e] = sets[e] /\ told'[e] = told[e]
      BY <1>3, <1>8 DEF Emptied
    <2>2. Assigned(e)' = Assigned(e)
      BY <1>3, <2>1 DEF Assigned, Members
    <2>3. Manifest(e)' = Manifest(e)
      BY <1>3, <2>2, SameManifest
    <2>4. QED
      BY <2>1, <2>2, <2>3
  <1>9. ChangesAccounted'
    BY <1>1, <1>3, <1>7, <1>8 DEF ChangesAccounted
  <1>10. NothingInherited'
    <2>1. \A e \in Enrollments : e \in gone => dev'[e].held = {} /\ Advertised(e)' = {}
      BY <1>3, <1>5 DEF Cleared, Advertised
    <2>2. \A e \in Enrollments : e \notin gone =>
            dev'[e] = dev[e] /\ Advertised(e)' = Advertised(e) /\ granted'[e] = granted[e]
      BY <1>3 DEF Cleared, Advertised, Emptied
    <2>3. QED
      BY <1>1, <2>1, <2>2 DEF NothingInherited
  <1>11. RowsNumbered'
    BY <1>1, <1>3 DEF RowsNumbered
  <1>12. \A e \in Enrollments : e \notin gone => (Newer(e) => Newer(e)')
    BY <1>3 DEF Newer
  <1>13. \A e \in Enrollments : (Current(e)' => Current(e)) /\ (e \in gone => ~Current(e)')
    BY <1>1, <1>3 DEF Current, RowsNumbered
  <1>14. DrainSpeaks'
    <2>1. ASSUME NEW e \in drain.push \cup drain.done
          PROVE  told'[e] \in {None, Manifest(e)'} \/ Newer(e)'
      <3>1. e \in Enrollments /\ (told[e] \in {None, Manifest(e)} \/ Newer(e))
        BY <1>1 DEF TypeOK, DrainType, DrainSpeaks
      <3>2. QED
        BY <1>7, <1>8, <1>12, <3>1
    <2>2. ASSUME drain.phase = "enqueue", NEW at \in Enrollments, at = drain.at
          PROVE  drain.token = Manifest(at)' \/ Newer(at)' \/ ~Current(at)'
      <3>1. drain.token = Manifest(at) \/ Newer(at) \/ ~Current(at)
        BY <1>1, <2>2 DEF DrainSpeaks
      <3>2. QED
        BY <1>8, <1>12, <1>13, <3>1
    <2>3. drain.phase = "enqueue" => drain.at \in Enrollments /\ drain.token \in Manifests
      BY <1>1 DEF DrainSpeaks
    <2>4. QED
      BY <1>3, <2>1, <2>2, <2>3 DEF DrainSpeaks
  <1>15. AssignedGranted'
    <2>1. \A e \in Enrollments : e \notin gone => granted'[e] = granted[e]
      BY <1>3 DEF Emptied
    <2>2. QED
      BY <1>1, <1>7, <1>8, <2>1 DEF AssignedGranted
  <1>16. QED
    BY <1>6, <1>9, <1>10, <1>11, <1>14, <1>15 DEF DeclarationInvariant

(***************************************************************************)
(* The notifier.                                                           *)
(***************************************************************************)
LEMMA IdleDrain ==
  /\ Idle \in DrainType /\ Idle.phase = "idle" /\ Idle.push = {} /\ Idle.done = {}
  /\ \A e \in Enrollments : Idle.rows[e] = {}
  BY DEF Idle, DrainType, NoRows

\* A step after which the drain has nothing to complete.
LEMMA Forgets ==
  ASSUME DeclarationInvariant, UNCHANGED <<admin, snapshot, seq, on, open, dev, told, shared, granted>>,
         changes' \subseteq changes, ops' \in 0 .. MaxOps, drain' \in DrainType,
         drain'.push = {}, drain'.done = {}, drain'.phase # "enqueue",
         \A e \in Enrollments : drain'.rows[e] \subseteq {r.seq : r \in {q \in changes : q.id = e}},
         \A e \in Enrollments : told[e] \in {None, Manifest(e)} \/ \E r \in changes' : r.id = e
  PROVE  DeclarationInvariant'
  <1>1. /\ TypeOK /\ NothingInherited /\ RowsNumbered /\ AssignedGranted
    BY DEF DeclarationInvariant
  <1>2. UNCHANGED <<decl, versions, members, sets, direct>>
    BY DEF admin
  <1>3. \A e \in Enrollments : Assigned(e)' = Assigned(e) /\ Manifest(e)' = Manifest(e)
    BY AdminRests
  <1>4. TypeOK'
    BY <1>1, <1>2 DEF TypeOK
  <1>5. ChangesAccounted' /\ AssignedGranted'
    BY <1>1, <1>3 DEF ChangesAccounted, AssignedGranted
  <1>6. NothingInherited'
    BY <1>1 DEF NothingInherited, Advertised
  <1>7. RowsNumbered'
    BY SMT, <1>1 DEF RowsNumbered
  <1>8. DrainSpeaks'
    BY DEF DrainSpeaks
  <1>9. QED
    BY <1>4, <1>5, <1>6, <1>7, <1>8 DEF DeclarationInvariant

LEMMA DrainReadKeeps ==
  ASSUME DeclarationInvariant, DrainRead
  PROVE  DeclarationInvariant'
  <1>1. TypeOK /\ ChangesAccounted
    BY DEF DeclarationInvariant
  <1>2. PICK rows : rows = [e \in Enrollments |->
                              IF e \in Ready THEN {r.seq : r \in {q \in Pending : q.id = e}} ELSE {}]
    OBVIOUS
  <1>3. drain' = [Idle EXCEPT !.phase = "command", !.todo = Ready, !.rows = rows]
    BY <1>2 DEF DrainRead
  <1>4. UNCHANGED <<admin, snapshot, changes, seq, ops, on, open, dev, told, shared, granted>>
    BY DEF DrainRead
  <1>5. Pending \subseteq changes /\ Ready \subseteq Enrollments
    BY DEF Pending, Ready
  <1>6. \A e \in Enrollments : rows[e] \subseteq {r.seq : r \in {q \in changes : q.id = e}}
    BY <1>2, <1>5
  <1>7. \A r \in changes : r.seq \in Nat
    BY <1>1 DEF TypeOK, Row
  <1>8. rows \in [Enrollments -> SUBSET Nat]
    <2>1. \A e \in Enrollments : rows[e] \subseteq Nat
      BY SMT, <1>6, <1>7
    <2>2. QED
      BY <1>2, <2>1
  <1>9. /\ drain' \in DrainType /\ drain'.push = {} /\ drain'.done = {}
        /\ drain'.phase = "command" /\ drain'.rows = rows
    BY <1>3, <1>5, <1>8 DEF Idle, DrainType, NoRows
  <1>10. ops' \in 0 .. MaxOps
    BY <1>1, <1>4, SpendCount
  <1>11. \A e \in Enrollments : told[e] \in {None, Manifest(e)} \/ \E r \in changes' : r.id = e
    BY <1>1, <1>4 DEF ChangesAccounted
  <1>12. QED
    BY <1>4, <1>6, <1>9, <1>10, <1>11, Forgets

LEMMA DrainAbortKeeps ==
  ASSUME DeclarationInvariant, DrainAbort
  PROVE  DeclarationInvariant'
  <1>1. TypeOK /\ ChangesAccounted
    BY DEF DeclarationInvariant
  <1>2. /\ UNCHANGED <<admin, snapshot, changes, seq, on, open, dev, told, shared, granted>>
        /\ drain' = Idle /\ ops' \in 0 .. MaxOps
    BY <1>1, SpendCount DEF DrainAbort
  <1>3. \A e \in Enrollments : told[e] \in {None, Manifest(e)} \/ \E r \in changes' : r.id = e
    BY <1>1, <1>2 DEF ChangesAccounted
  <1>4. /\ drain' \in DrainType /\ drain'.phase # "enqueue" /\ drain'.push = {} /\ drain'.done = {}
        /\ \A e \in Enrollments : drain'.rows[e] = {}
    BY <1>2, IdleDrain
  <1>5. QED
    BY <1>2, <1>3, <1>4, Forgets

\* A row that is completed was read for an enrollment told since.
LEMMA DrainCompleteKeeps ==
  ASSUME DeclarationInvariant, DrainComplete
  PROVE  DeclarationInvariant'
  <1>1. TypeOK /\ ChangesAccounted /\ RowsNumbered /\ DrainSpeaks
    BY DEF DeclarationInvariant
  <1>2. /\ UNCHANGED <<admin, snapshot, seq, ops, on, open, dev, told, shared, granted>>
        /\ drain' = Idle
        /\ changes' = {r \in changes : r.seq \notin UNION {drain.rows[e] : e \in drain.done}}
    BY DEF DrainComplete, CompleteChanges
  <1>3. ops' \in 0 .. MaxOps
    BY <1>1, <1>2, SpendCount
  <1>4. drain.done \subseteq Enrollments
    BY <1>1 DEF TypeOK, DrainType
  <1>5. \A r \in changes : r \notin changes' => \E e \in drain.done : r.id = e /\ r.seq \in drain.rows[e]
    BY <1>1, <1>2, <1>4 DEF RowsNumbered
  <1>6. ASSUME NEW e \in Enrollments
        PROVE  told[e] \in {None, Manifest(e)} \/ \E r \in changes' : r.id = e
    <2>1. CASE e \in drain.done
      <3>1. told[e] \in {None, Manifest(e)} \/ \E r \in changes : r.id = e /\ r.seq \notin drain.rows[e]
        BY <1>1, <2>1 DEF DrainSpeaks, Newer
      <3>2. QED
        BY <1>5, <3>1
    <2>2. CASE e \notin drain.done
      <3>1. told[e] \in {None, Manifest(e)} \/ \E r \in changes : r.id = e
        BY <1>1 DEF ChangesAccounted
      <3>2. QED
        BY <1>5, <2>2, <3>1
    <2>3. QED
      BY <2>1, <2>2
  <1>7. /\ drain' \in DrainType /\ drain'.phase # "enqueue" /\ drain'.push = {} /\ drain'.done = {}
        /\ \A e \in Enrollments : drain'.rows[e] = {}
    BY <1>2, IdleDrain
  <1>8. changes' \subseteq changes
    BY <1>2
  <1>9. QED
    BY <1>2, <1>3, <1>6, <1>7, <1>8, Forgets

LEMMA DrainFailKeeps ==
  ASSUME DeclarationInvariant, DrainFail
  PROVE  DeclarationInvariant'
  <1>1. TypeOK /\ NothingInherited /\ drain \in DrainType
    BY DEF DeclarationInvariant, TypeOK
  <1>2. /\ UNCHANGED <<admin, snapshot, seq, on, open, dev, told, shared, granted>>
        /\ drain' = [drain EXCEPT !.phase = "command", !.at = None, !.token = None]
        /\ ops' \in 0 .. MaxOps /\ SameRows
    BY <1>1, SpendCount, FailedRows DEF DrainFail
  <1>3. /\ drain' \in DrainType /\ drain'.rows = drain.rows /\ drain'.phase = "command"
        /\ drain'.push = drain.push /\ drain'.done = drain.done
    BY <1>1, <1>2 DEF DrainType
  <1>4. TypeOK'
    BY <1>1, <1>2, <1>3 DEF TypeOK, SameRows, admin
  <1>5. NothingInherited'
    BY <1>1, <1>2 DEF NothingInherited, Advertised
  <1>6. QED
    BY <1>2, <1>3, <1>4, <1>5, Quiet

LEMMA DrainPushKeeps ==
  ASSUME DeclarationInvariant, DrainPush
  PROVE  DeclarationInvariant'
  <1>1. TypeOK /\ NothingInherited /\ drain \in DrainType
    BY DEF DeclarationInvariant, TypeOK
  <1>2. UNCHANGED <<admin, snapshot, seq, on, open, dev, told, shared, granted>>
    BY DEF DrainPush
  <1>3. PICK failed \in SUBSET drain.push :
          /\ IF failed = {} THEN UNCHANGED ops ELSE Spend
          /\ FailChanges(UNION {drain.rows[e] : e \in failed})
          /\ drain' = [drain EXCEPT !.phase = "complete", !.push = {},
                                    !.done = @ \cup (drain.push \ failed)]
    BY DEF DrainPush
  <1>4. ops' \in 0 .. MaxOps /\ SameRows
    BY <1>1, <1>3, SpendCount, FailedRows
  <1>5. PICK done : done = drain.done \cup (drain.push \ failed)
    OBVIOUS
  <1>6. drain' = [drain EXCEPT !.phase = "complete", !.push = {}, !.done = done]
    BY <1>3, <1>5
  <1>7. done \subseteq Enrollments /\ done \subseteq drain.push \cup drain.done
    BY <1>1, <1>5 DEF DrainType
  <1>8. /\ drain' \in DrainType /\ drain'.rows = drain.rows /\ drain'.phase = "complete"
        /\ drain'.push = {} /\ drain'.done = done
    BY <1>1, <1>6, <1>7 DEF DrainType
  <1>9. TypeOK'
    BY <1>1, <1>2, <1>4, <1>8 DEF TypeOK, SameRows, admin
  <1>10. NothingInherited'
    BY <1>1, <1>2 DEF NothingInherited, Advertised
  <1>11. QED
    BY <1>2, <1>4, <1>7, <1>8, <1>9, <1>10, Quiet

\* A refreshed snapshot advertises only what is assigned.
LEMMA RefreshedSnapshot ==
  ASSUME DeclarationInvariant, NEW e \in Enrollments, snapshot' = Refreshed(e)
  PROVE  /\ snapshot' \in [Enrollments -> {None} \cup Manifests]
         /\ snapshot'[e] = Manifest(e) /\ Advertised(e)' = Manifest(e)
         /\ \A it \in Manifest(e) : it[1] \in granted[e]
         /\ \A x \in Enrollments : \A it \in Advertised(x)' : it[1] \in granted[x]
  <1>1. TypeOK /\ NothingInherited /\ AssignedGranted
    BY DEF DeclarationInvariant
  <1>2. Manifest(e) \in Manifests /\ Manifest(e) # None
    BY ManifestType
  <1>3. /\ snapshot' \in [Enrollments -> {None} \cup Manifests]
        /\ snapshot'[e] = Manifest(e)
        /\ \A x \in Enrollments \ {e} : snapshot'[x] = snapshot[x]
    BY <1>1, <1>2 DEF TypeOK, Refreshed
  <1>4. \A it \in Manifest(e) : it[1] \in granted[e]
    BY <1>1 DEF Manifest, AssignedGranted
  <1>5. Advertised(e)' = Manifest(e) /\ \A x \in Enrollments \ {e} : Advertised(x)' = Advertised(x)
    BY <1>2, <1>3 DEF Advertised
  <1>6. \A x \in Enrollments : \A it \in Advertised(x) : it[1] \in granted[x]
    BY <1>1 DEF NothingInherited
  <1>7. QED
    BY SMT, <1>3, <1>4, <1>5, <1>6

LEMMA DrainTokensKeeps ==
  ASSUME DeclarationInvariant, DrainTokens
  PROVE  DeclarationInvariant'
  <1>1. /\ TypeOK /\ ChangesAccounted /\ NothingInherited /\ drain \in DrainType
        /\ RowsNumbered /\ DrainSpeaks /\ AssignedGranted
    BY DEF DeclarationInvariant, TypeOK
  <1>2. UNCHANGED <<admin, changes, seq, ops, on, open, dev, told, shared, granted>>
    BY DEF DrainTokens
  <1>3. PICK e \in drain.todo :
          /\ snapshot' = Refreshed(e)
          /\ drain' = [drain EXCEPT !.phase = "enqueue", !.at = e, !.token = Manifest(e),
                                    !.todo = @ \ {e}]
    BY DEF DrainTokens
  <1>4. e \in Enrollments /\ drain.todo \ {e} \subseteq Enrollments /\ Manifest(e) \in Manifests
    BY <1>1, <1>3, ManifestType DEF DrainType
  <1>5. PICK token \in Manifests, todo \in SUBSET Enrollments :
          token = Manifest(e) /\ todo = drain.todo \ {e}
    BY <1>4
  <1>6. drain' = [drain EXCEPT !.phase = "enqueue", !.at = e, !.token = token, !.todo = todo]
    BY <1>3, <1>5
  <1>7. /\ drain' \in DrainType /\ drain'.rows = drain.rows /\ drain'.at = e
        /\ drain'.token = token /\ drain'.push = drain.push /\ drain'.done = drain.done
    BY <1>1, <1>4, <1>6 DEF DrainType
  <1>8. \A x \in Enrollments : Assigned(x)' = Assigned(x) /\ Manifest(x)' = Manifest(x)
    BY <1>2, AdminRests
  <1>9. TypeOK'
    BY <1>1, <1>2, <1>3, <1>4, <1>7, RefreshedSnapshot DEF TypeOK, admin
  <1>10. ChangesAccounted' /\ AssignedGranted'
    BY <1>1, <1>2, <1>8 DEF ChangesAccounted, AssignedGranted
  <1>11. NothingInherited'
    BY <1>1, <1>2, <1>3, <1>4, RefreshedSnapshot DEF NothingInherited
  <1>12. RowsNumbered' /\ \A x \in Enrollments : Newer(x)' <=> Newer(x)
    BY <1>1, <1>2, <1>7 DEF RowsNumbered, Newer
  <1>13. DrainSpeaks'
    <2>1. \A x \in drain.push \cup drain.done : told[x] \in {None, Manifest(x)'} \/ Newer(x)'
      BY <1>1, <1>8, <1>12 DEF DrainSpeaks, DrainType
    <2>2. drain'.token = Manifest(e)'
      BY <1>4, <1>5, <1>7, <1>8
    <2>3. QED
      BY <1>2, <1>4, <1>7, <2>1, <2>2 DEF DrainSpeaks
  <1>14. QED
    BY <1>9, <1>10, <1>11, <1>12, <1>13 DEF DeclarationInvariant

LEMMA DrainEnqueueKeeps ==
  ASSUME DeclarationInvariant, DrainEnqueue
  PROVE  DeclarationInvariant'
  <1>1. /\ TypeOK /\ ChangesAccounted /\ NothingInherited /\ drain \in DrainType
        /\ RowsNumbered /\ DrainSpeaks /\ AssignedGranted
    BY DEF DeclarationInvariant, TypeOK
  <1>2. /\ UNCHANGED <<admin, snapshot, changes, seq, ops, on, dev, granted>>
        /\ drain.phase = "enqueue"
    BY DEF DrainEnqueue
  <1>3. PICK e \in Enrollments : e = drain.at
    BY <1>1, <1>2 DEF DrainSpeaks
  <1>4. drain.token \in Manifests /\ (drain.token = Manifest(e) \/ Newer(e) \/ ~Current(e))
    BY <1>1, <1>2, <1>3 DEF DrainSpeaks
  <1>5. PICK push \in SUBSET Enrollments, done \in SUBSET Enrollments :
          /\ drain' = [drain EXCEPT !.phase = "command", !.at = None, !.token = None,
                                    !.push = push, !.done = done]
          /\ push \cup done = drain.push \cup drain.done \cup {e}
    <2>1. CASE ~Live(e)
      <3>1. drain' = [drain EXCEPT !.phase = "command", !.at = None, !.token = None,
                                   !.push = drain.push, !.done = drain.done \cup {e}]
        BY <1>1, <1>3, <2>1 DEF DrainEnqueue, DrainType
      <3>2. drain.push \in SUBSET Enrollments /\ drain.done \cup {e} \in SUBSET Enrollments
        BY <1>1 DEF DrainType
      <3>3. drain.push \cup (drain.done \cup {e}) = drain.push \cup drain.done \cup {e}
        OBVIOUS
      <3>4. QED
        BY <3>1, <3>2, <3>3, Zenon
    <2>2. CASE Live(e)
      <3>1. drain' = [drain EXCEPT !.phase = "command", !.at = None, !.token = None,
                                   !.push = drain.push \cup {e}, !.done = drain.done]
        BY <1>1, <1>3, <2>2 DEF DrainEnqueue, DrainType
      <3>2. drain.push \cup {e} \in SUBSET Enrollments /\ drain.done \in SUBSET Enrollments
        BY <1>1 DEF DrainType
      <3>3. (drain.push \cup {e}) \cup drain.done = drain.push \cup drain.done \cup {e}
        OBVIOUS
      <3>4. QED
        BY <3>1, <3>2, <3>3, Zenon
    <2>3. QED
      BY <2>1, <2>2
  <1>6. /\ drain' \in DrainType /\ drain'.rows = drain.rows /\ drain'.phase = "command"
        /\ drain'.push = push /\ drain'.done = done
    BY <1>1, <1>5 DEF DrainType
  <1>7. PICK value \in {None} \cup Manifests :
          /\ told' = [told EXCEPT ![e] = value]
          /\ Current(e) => value \in {None, drain.token}
          /\ ~Current(e) => value = told[e]
    <2>1. told[e] \in {None} \cup Manifests
      BY <1>1 DEF TypeOK
    <2>2. CASE ~Live(e)
      BY <1>3, <2>1, <2>2 DEF DrainEnqueue
    <2>3. CASE Live(e)
      BY <1>3, <1>4, <2>1, <2>3 DEF DrainEnqueue, Queued
    <2>4. QED
      BY <2>2, <2>3
  <1>8. /\ told' \in [Enrollments -> {None} \cup Manifests]
        /\ told'[e] = value /\ \A x \in Enrollments \ {e} : told'[x] = told[x]
    BY <1>1, <1>7 DEF TypeOK
  <1>9. open' \in [Enrollments -> SUBSET Manifests] /\ shared' \subseteq Enrollments
    BY SMT, <1>1, <1>3, <1>4 DEF DrainEnqueue, TypeOK
  <1>10. TypeOK'
    BY <1>1, <1>2, <1>6, <1>8, <1>9 DEF TypeOK, admin
  <1>11. \A x \in Enrollments : Assigned(x)' = Assigned(x) /\ Manifest(x)' = Manifest(x)
    BY <1>2, AdminRests
  <1>12. NothingInherited' /\ AssignedGranted'
    BY <1>1, <1>2, <1>11 DEF NothingInherited, AssignedGranted, Advertised
  <1>13. RowsNumbered' /\ \A x \in Enrollments : Newer(x)' <=> Newer(x)
    BY <1>1, <1>2, <1>6 DEF RowsNumbered, Newer
  <1>14. Current(e) => \E r \in changes : r.id = e
    BY <1>1 DEF Current, RowsNumbered
  <1>15. ChangesAccounted'
    <2>1. told'[e] \in {None, Manifest(e)} \/ \E r \in changes : r.id = e
      BY <1>1, <1>7, <1>8, <1>14 DEF ChangesAccounted
    <2>2. \A x \in Enrollments \ {e} : told'[x] \in {None, Manifest(x)} \/ \E r \in changes : r.id = x
      BY <1>1, <1>8 DEF ChangesAccounted
    <2>3. QED
      BY <1>2, <1>11, <2>1, <2>2 DEF ChangesAccounted
  <1>16. told'[e] \in {None, Manifest(e)} \/ Newer(e)
    <2>1. CASE Current(e)
      BY <1>4, <1>7, <1>8, <2>1
    <2>2. CASE ~Current(e)
      <3>1. told[e] \in {None, Manifest(e)} \/ \E r \in changes : r.id = e
        BY <1>1 DEF ChangesAccounted
      <3>2. QED
        BY <1>7, <1>8, <2>2, <3>1 DEF Current, Newer
    <2>3. QED
      BY <2>1, <2>2
  <1>17. DrainSpeaks'
    <2>1. \A x \in drain.push \cup drain.done : x \in Enrollments
      BY <1>1 DEF DrainType
    <2>2. \A x \in drain.push \cup drain.done : x # e =>
            told'[x] \in {None, Manifest(x)} \/ Newer(x)
      BY <1>1, <1>8, <2>1 DEF DrainSpeaks
    <2>3. \A x \in push \cup done : told'[x] \in {None, Manifest(x)'} \/ Newer(x)'
      BY <1>5, <1>11, <1>13, <1>16, <2>1, <2>2
    <2>4. QED
      BY <1>6, <2>3 DEF DrainSpeaks
  <1>18. QED
    BY <1>10, <1>12, <1>13, <1>15, <1>17 DEF DeclarationInvariant

(***************************************************************************)
(* The device.                                                             *)
(***************************************************************************)
LEMMA DeviceMoves ==
  ASSUME DeclarationInvariant, NEW e \in Enrollments, NEW d \in DevType,
         dev' = [dev EXCEPT ![e] = d],
         UNCHANGED <<admin, changes, seq, on, drain, told, shared, granted>>,
         ops' \in 0 .. MaxOps, open' \in [Enrollments -> SUBSET Manifests],
         snapshot' \in [Enrollments -> {None} \cup Manifests],
         \A it \in d.held : it[1] \in granted[e],
         \A x \in Enrollments : \A it \in Advertised(x)' : it[1] \in granted[x]
  PROVE  DeclarationInvariant'
  <1>1. TypeOK /\ NothingInherited
    BY DEF DeclarationInvariant
  <1>2. /\ dev' \in [Enrollments -> DevType] /\ dev'[e] = d
        /\ \A x \in Enrollments \ {e} : dev'[x] = dev[x]
    BY <1>1 DEF TypeOK
  <1>3. SameRows
    BY <1>1 DEF SameRows, TypeOK
  <1>4. TypeOK'
    BY <1>1, <1>2 DEF TypeOK, admin
  <1>5. NothingInherited'
    BY <1>1, <1>2 DEF NothingInherited
  <1>6. QED
    BY <1>3, <1>4, <1>5, Quiet

\* A step of the device that refreshes no snapshot.
LEMMA SnapshotRests ==
  ASSUME DeclarationInvariant, UNCHANGED snapshot
  PROVE  /\ snapshot' \in [Enrollments -> {None} \cup Manifests]
         /\ \A x \in Enrollments : \A it \in Advertised(x)' : it[1] \in granted[x]
  BY DEF DeclarationInvariant, TypeOK, NothingInherited, Advertised

LEMMA DeviceType ==
  ASSUME DeclarationInvariant, NEW e \in Enrollments
  PROVE  dev[e] \in DevType /\ \A it \in dev[e].held : it[1] \in granted[e]
  BY DEF DeclarationInvariant, TypeOK, NothingInherited

LEMMA Compared ==
  ASSUME NEW d \in DevType, NEW token \in Manifests
  PROVE  Compare(d, token) \in DevType /\ Compare(d, token).held = d.held
  BY DEF Compare, DevType

LEMMA DeliverKeeps ==
  ASSUME DeclarationInvariant, NEW e \in Enrollments, NEW token \in Manifests, Deliver(e, token)
  PROVE  DeclarationInvariant'
  <1>1. PICK c : c = [dev[e] EXCEPT !.cmd = token]
    OBVIOUS
  <1>2. c \in DevType /\ c.held = dev[e].held
    BY <1>1, DeviceType DEF DevType
  <1>3. /\ dev' = [dev EXCEPT ![e] = Compare(c, token)]
        /\ UNCHANGED <<admin, snapshot, changes, seq, ops, on, open, drain, told, shared, granted>>
    BY <1>1 DEF Deliver
  <1>4. PICK d : d = Compare(c, token)
    OBVIOUS
  <1>5. d \in DevType /\ \A it \in d.held : it[1] \in granted[e]
    BY <1>2, <1>4, Compared, DeviceType
  <1>6. open' \in [Enrollments -> SUBSET Manifests] /\ ops' \in 0 .. MaxOps
    BY <1>3 DEF DeclarationInvariant, TypeOK
  <1>7. /\ snapshot' \in [Enrollments -> {None} \cup Manifests]
        /\ \A x \in Enrollments : \A it \in Advertised(x)' : it[1] \in granted[x]
    BY <1>3, SnapshotRests
  <1>8. QED
    BY <1>3, <1>4, <1>5, <1>6, <1>7, DeviceMoves

LEMMA FetchItemsKeeps ==
  ASSUME DeclarationInvariant, NEW e \in Enrollments, FetchItems(e)
  PROVE  DeclarationInvariant'
  <1>1. PICK list \in Manifests : list = Manifest(e)
    BY ManifestType
  <1>2. PICK left \in Manifests : left = list \ dev[e].held
    BY DEF Manifests
  <1>3. PICK d : d = [dev[e] EXCEPT !.phase = "fetch", !.list = list, !.left = left]
    OBVIOUS
  <1>4. d \in DevType /\ \A it \in d.held : it[1] \in granted[e]
    <2>1. dev[e] \in DevType
      BY DeviceType
    <2>2. d \in DevType /\ d.held = dev[e].held
      BY <1>3, <2>1 DEF DevType
    <2>3. QED
      BY <2>2, DeviceType
  <1>5. /\ dev' = [dev EXCEPT ![e] = d] /\ snapshot' = Refreshed(e)
        /\ UNCHANGED <<admin, changes, seq, ops, on, open, drain, told, shared, granted>>
    BY <1>1, <1>2, <1>3 DEF FetchItems
  <1>6. open' \in [Enrollments -> SUBSET Manifests] /\ ops' \in 0 .. MaxOps
    BY <1>5 DEF DeclarationInvariant, TypeOK
  <1>7. /\ snapshot' \in [Enrollments -> {None} \cup Manifests]
        /\ \A x \in Enrollments : \A it \in Advertised(x)' : it[1] \in granted[x]
    BY <1>5, RefreshedSnapshot
  <1>8. QED
    BY <1>4, <1>5, <1>6, <1>7, DeviceMoves

LEMMA FetchedType ==
  ASSUME NEW d \in DevType, NEW item \in Items, NEW served \in Manifests
  PROVE  /\ Fetched(d, item, served) \in DevType
         /\ Fetched(d, item, served).held \subseteq d.held \cup served
  <1>1. PICK left \in Manifests : left = d.left \ {item}
    BY DEF DevType, Manifests
  <1>2. PICK gone \in SUBSET Identifiers :
          gone = IF served = {} THEN d.gone \cup {item[1]} ELSE d.gone
    BY DEF DevType, Items
  <1>3. PICK held \in Manifests :
          held = IF served = {} THEN d.held ELSE {x \in d.held : x[1] # item[1]} \cup served
    BY DEF DevType, Manifests
  <1>4. Fetched(d, item, served) = [d EXCEPT !.left = left, !.gone = gone, !.held = held]
    BY <1>1, <1>2, <1>3 DEF Fetched
  <1>5. held \subseteq d.held \cup served
    BY <1>3
  <1>6. PICK f : f = [d EXCEPT !.left = left, !.gone = gone, !.held = held]
    OBVIOUS
  <1>7. f \in DevType /\ f.held = held
    BY <1>6 DEF DevType
  <1>8. QED
    BY <1>4, <1>5, <1>6, <1>7

LEMMA FetchDeclarationKeeps ==
  ASSUME DeclarationInvariant, NEW e \in Enrollments, NEW item \in Items, FetchDeclaration(e, item)
  PROVE  DeclarationInvariant'
  <1>1. TypeOK /\ dev[e] \in DevType /\ \A it \in dev[e].held : it[1] \in granted[e]
    BY DeviceType DEF DeclarationInvariant
  <1>2. snapshot' = Serving(e)
    BY DEF FetchDeclaration
  <1>3. /\ snapshot' \in [Enrollments -> {None} \cup Manifests]
        /\ \A x \in Enrollments : \A it \in Advertised(x)' : it[1] \in granted[x]
    BY <1>2, RefreshedSnapshot, SnapshotRests DEF Serving
  <1>4. snapshot'[e] \in Manifests /\ \A it \in snapshot'[e] : it[1] \in granted[e]
    <2>1. snapshot'[e] # None
      <3>1. CASE snapshot' = Refreshed(e)
        BY <3>1, RefreshedSnapshot, ManifestType
      <3>2. CASE snapshot' # Refreshed(e)
        BY <1>2, <3>2 DEF Serving
      <3>3. QED
        BY <3>1, <3>2
    <2>2. QED
      BY <1>3, <2>1 DEF Advertised
  <1>5. PICK served : served = {x \in Serving(e)[e] : x[1] = item[1]}
    OBVIOUS
  <1>6. served \in Manifests /\ \A it \in served : it[1] \in granted[e]
    BY <1>2, <1>4, <1>5 DEF Manifests
  <1>7. PICK d : d = Fetched(dev[e], item, served)
    OBVIOUS
  <1>8. d \in DevType /\ d.held \subseteq dev[e].held \cup served
    BY <1>1, <1>6, <1>7, FetchedType
  <1>9. /\ dev' = [dev EXCEPT ![e] = d]
        /\ UNCHANGED <<admin, changes, seq, ops, on, open, drain, told, shared, granted>>
    BY <1>5, <1>7 DEF FetchDeclaration
  <1>10. \A it \in d.held : it[1] \in granted[e]
    BY <1>1, <1>6, <1>8
  <1>11. open' \in [Enrollments -> SUBSET Manifests] /\ ops' \in 0 .. MaxOps
    BY <1>1, <1>9 DEF TypeOK
  <1>12. QED
    BY <1>3, <1>8, <1>9, <1>10, <1>11, DeviceMoves

LEMMA SettleKeeps ==
  ASSUME DeclarationInvariant, NEW e \in Enrollments, Settle(e)
  PROVE  DeclarationInvariant'
  <1>1. TypeOK /\ dev[e] \in DevType /\ \A it \in dev[e].held : it[1] \in granted[e]
    BY DeviceType DEF DeclarationInvariant
  <1>2. PICK kept : kept = {x \in dev[e].held : /\ x[1] \notin dev[e].gone
                                                /\ \E it \in dev[e].list : it[1] = x[1]}
    OBVIOUS
  <1>3. PICK phase \in {"reply", "tokens"} :
          phase = IF dev[e].list = dev[e].tok THEN "reply" ELSE "tokens"
    OBVIOUS
  <1>4. PICK d : d = [dev[e] EXCEPT !.held = kept, !.token = dev[e].list, !.gone = {},
                                    !.list = None, !.phase = phase]
    OBVIOUS
  <1>5. kept \in Manifests /\ dev[e].list \in {None} \cup Manifests
    BY <1>1, <1>2 DEF DevType, Manifests
  <1>6. d \in DevType /\ d.held = kept
    BY <1>1, <1>4, <1>5 DEF DevType
  <1>7. /\ dev' = [dev EXCEPT ![e] = d]
        /\ UNCHANGED <<admin, snapshot, changes, seq, ops, on, open, drain, told, shared, granted>>
    BY <1>2, <1>3, <1>4 DEF Settle
  <1>8. open' \in [Enrollments -> SUBSET Manifests] /\ ops' \in 0 .. MaxOps
    BY <1>1, <1>7 DEF TypeOK
  <1>9. /\ snapshot' \in [Enrollments -> {None} \cup Manifests]
        /\ \A x \in Enrollments : \A it \in Advertised(x)' : it[1] \in granted[x]
    BY <1>7, SnapshotRests
  <1>10. \A it \in d.held : it[1] \in granted[e]
    BY <1>1, <1>2, <1>6
  <1>11. QED
    BY <1>6, <1>7, <1>8, <1>9, <1>10, DeviceMoves

LEMMA FetchTokensKeeps ==
  ASSUME DeclarationInvariant, NEW e \in Enrollments, FetchTokens(e)
  PROVE  DeclarationInvariant'
  <1>1. PICK d : d = Compare(dev[e], Manifest(e))
    OBVIOUS
  <1>2. d \in DevType /\ \A it \in d.held : it[1] \in granted[e]
    BY <1>1, DeviceType, ManifestType, Compared
  <1>3. /\ dev' = [dev EXCEPT ![e] = d] /\ snapshot' = Refreshed(e)
        /\ UNCHANGED <<admin, changes, seq, ops, on, open, drain, told, shared, granted>>
    BY <1>1 DEF FetchTokens
  <1>4. open' \in [Enrollments -> SUBSET Manifests] /\ ops' \in 0 .. MaxOps
    BY <1>3 DEF DeclarationInvariant, TypeOK
  <1>5. /\ snapshot' \in [Enrollments -> {None} \cup Manifests]
        /\ \A x \in Enrollments : \A it \in Advertised(x)' : it[1] \in granted[x]
    BY <1>3, RefreshedSnapshot
  <1>6. QED
    BY <1>2, <1>3, <1>4, <1>5, DeviceMoves

\* The command is over, acknowledged or with its reply lost.
LEMMA ReplyKeeps ==
  ASSUME DeclarationInvariant, NEW e \in Enrollments, Acknowledge(e) \/ ReplyLost(e)
  PROVE  DeclarationInvariant'
  <1>1. TypeOK
    BY DEF DeclarationInvariant
  <1>2. PICK d : d = Rested(dev[e])
    OBVIOUS
  <1>3. d \in DevType /\ \A it \in d.held : it[1] \in granted[e]
    <2>1. dev[e] \in DevType
      BY DeviceType
    <2>2. d \in DevType /\ d.held = dev[e].held
      BY <1>2, <2>1 DEF DevType, Rested
    <2>3. QED
      BY <2>2, DeviceType
  <1>4. /\ dev' = [dev EXCEPT ![e] = d]
        /\ UNCHANGED <<admin, snapshot, changes, seq, on, drain, told, shared, granted>>
    BY <1>2 DEF Acknowledge, ReplyLost
  <1>5. open' \in [Enrollments -> SUBSET Manifests] /\ ops' \in 0 .. MaxOps
    BY SMT, <1>1, SpendCount DEF TypeOK, Acknowledge, ReplyLost
  <1>6. /\ snapshot' \in [Enrollments -> {None} \cup Manifests]
        /\ \A x \in Enrollments : \A it \in Advertised(x)' : it[1] \in granted[x]
    BY <1>4, SnapshotRests
  <1>7. QED
    BY <1>3, <1>4, <1>5, <1>6, DeviceMoves

(***************************************************************************)
(* The theorems.                                                           *)
(***************************************************************************)
LEMMA DeclarationInit == Init => DeclarationInvariant
  <1> SUFFICES ASSUME Init PROVE DeclarationInvariant
    OBVIOUS
  <1>1. \A e \in Enrollments : Assigned(e) = {}
    BY DEF Init, Assigned
  <1>2. \A e \in Enrollments : Manifest(e) = {}
    BY <1>1 DEF Manifest
  <1>3. Offline \in DevType /\ Offline.held = {}
    BY DEF Offline, DevType, Manifests
  <1>4. {} \in Manifests
    BY DEF Manifests
  <1>5. TypeOK
    BY SMT, <1>3, <1>4, IdleDrain DEF Init, TypeOK
  <1>6. ChangesAccounted /\ AssignedGranted
    BY <1>1, <1>2 DEF Init, ChangesAccounted, AssignedGranted
  <1>7. NothingInherited
    BY <1>3 DEF Init, NothingInherited, Advertised
  <1>8. RowsNumbered /\ DrainSpeaks
    BY IdleDrain DEF Init, RowsNumbered, DrainSpeaks
  <1>9. QED
    BY <1>5, <1>6, <1>7, <1>8 DEF DeclarationInvariant

LEMMA Stutter ==
  ASSUME DeclarationInvariant, UNCHANGED vars
  PROVE  DeclarationInvariant'
  <1>1. TypeOK /\ NothingInherited
    BY DEF DeclarationInvariant
  <1>2. UNCHANGED <<admin, snapshot, changes, seq, ops, on, open, drain, dev, told, shared, granted>>
    BY DEF vars
  <1>3. SameRows
    BY <1>1, <1>2 DEF SameRows, TypeOK
  <1>4. TypeOK'
    BY <1>1, <1>2 DEF TypeOK, admin
  <1>5. NothingInherited'
    BY <1>1, <1>2 DEF NothingInherited, Advertised
  <1>6. QED
    BY <1>2, <1>3, <1>4, <1>5, Quiet

LEMMA DeclarationNext ==
  ASSUME DeclarationInvariant, [Next]_vars
  PROVE  DeclarationInvariant'
  <1>1. CASE Administer
    BY <1>1, AdministerKeeps
  <1>2. ASSUME NEW e \in Enrollments, Reset(e) \/ TokenUpdate(e) \/ DeviceStep(e)
        PROVE  DeclarationInvariant'
    BY <1>2, ResetKeeps, TokenUpdateKeeps, DeliverKeeps, FetchItemsKeeps, FetchDeclarationKeeps,
       SettleKeeps, FetchTokensKeeps, ReplyKeeps DEF DeviceStep
  <1>3. CASE Elapse
    BY <1>3, ElapseKeeps
  <1>4. CASE DrainStep \/ DrainFail \/ DrainAbort
    BY <1>4, DrainReadKeeps, DrainTokensKeeps, DrainEnqueueKeeps, DrainPushKeeps,
       DrainCompleteKeeps, DrainFailKeeps, DrainAbortKeeps DEF DrainStep
  <1>5. CASE UNCHANGED vars
    BY <1>5, Stutter
  <1>6. QED
    BY <1>1, <1>2, <1>3, <1>4, <1>5 DEF Next

\* The notifier's rows, the tokens it holds and the snapshots agree through
\* every interleaving of writes, resets, drains and devices (admin.go,
\* servicehook.go, notifier.go).
THEOREM DeclarationSafety == Spec => []DeclarationInvariant
  <1>1. DeclarationInvariant /\ [Next]_vars => DeclarationInvariant'
    BY DeclarationNext
  <1>2. QED
    BY <1>1, DeclarationInit, PTL DEF Spec

\* No change is lost between recordAffected and completeRecorded.
THEOREM NoChangeLost == Spec => []ChangesAccounted
  <1>1. DeclarationInvariant => ChangesAccounted
    BY DEF DeclarationInvariant
  <1>2. QED
    BY <1>1, DeclarationSafety, PTL

\* ClearEnrollment and refreshSnapshot: an enrollment that starts over is served
\* nothing of what it was assigned before.
THEOREM StartsOver == Spec => []NothingInherited
  <1>1. DeclarationInvariant => NothingInherited
    BY DEF DeclarationInvariant
  <1>2. QED
    BY <1>1, DeclarationSafety, PTL

\* PruneVersions and DeleteDeclaration are the only writes that remove a
\* revision, and pruning keeps what a snapshot advertises.
THEOREM AdvertisedSurvives == Spec => AdvertisedKept
  <1> DEFINE Kept == \A e \in Enrollments :
                       \A it \in Advertised(e) \cap versions :
                          it \in versions' \/ decl'[it[1]] = None
  <1>1. ASSUME TypeOK, [Next]_vars PROVE [Kept]_vars
    <2>1. CASE versions \subseteq versions'
      BY <2>1
    <2>2. ASSUME NEW i \in Identifiers, DeleteDeclaration(i) PROVE Kept
      <3>1. decl' = [decl EXCEPT ![i] = None] /\ versions' = {v \in versions : v[1] # i}
        BY <2>2 DEF DeleteDeclaration, Without
      <3>2. decl'[i] = None
        BY <1>1, <3>1 DEF TypeOK
      <3>3. QED
        BY <3>1, <3>2
    <2>3. CASE PruneVersions
      <3>1. versions' = versions \cap Referenced /\ versions \subseteq Items
        BY <1>1, <2>3 DEF PruneVersions, Pruned, TypeOK
      <3>2. QED
        BY <3>1 DEF Referenced
    <2>4. Administer => \/ versions \subseteq versions' \/ PruneVersions
                        \/ \E i \in Identifiers : DeleteDeclaration(i)
      BY DEF Administer, PutDeclaration, PutSet, DeleteSet, SetMembership, PublishSet, AssignSet,
             AssignDeclaration, Touch, admin
    <2>5. Next => Administer \/ UNCHANGED versions
      BY DEF Next, Reset, TokenUpdate, DeviceStep, Deliver, FetchItems, FetchDeclaration, Settle,
             FetchTokens, Acknowledge, ReplyLost, Elapse, DrainStep, DrainRead, DrainTokens,
             DrainEnqueue, DrainPush, DrainComplete, DrainFail, DrainAbort, admin
    <2>6. QED
      BY <1>1, <2>1, <2>2, <2>3, <2>4, <2>5
  <1>2. DeclarationInvariant => TypeOK
    BY DEF DeclarationInvariant
  <1>3. QED
    BY <1>1, <1>2, DeclarationSafety, PTL DEF Spec, AdvertisedKept

\* The revisions of what is current are retained ...
Retained == \A it \in Items : decl[it[1]] = it[2] => it \in versions
\* ... so what Declaration serves from, after its one refresh, is all there.
Servable == \A e \in Enrollments : Serving(e)[e] \subseteq versions

LEMMA RetainedStep ==
  ASSUME TypeOK, Retained, [Next]_vars PROVE Retained'
  <1>1. CASE UNCHANGED <<decl, versions>>
    BY <1>1 DEF Retained
  <1>2. ASSUME NEW i \in Identifiers, NEW c \in Contents, PutDeclaration(i, c) PROVE Retained'
    <2>1. decl' = [decl EXCEPT ![i] = c] /\ versions' = versions \cup {<<i, c>>}
      BY <1>2 DEF PutDeclaration
    <2>2. ASSUME NEW j \in Identifiers, NEW b \in Contents, decl'[j] = b PROVE <<j, b>> \in versions'
      <3>1. CASE j = i
        BY <2>1, <2>2, <3>1 DEF TypeOK
      <3>2. CASE j # i
        <4>1. decl[j] = b
          BY <2>1, <2>2, <3>2 DEF TypeOK
        <4>2. <<j, b>> \in versions
          BY SMT, <4>1 DEF Retained, Items
        <4>3. QED
          BY <2>1, <4>2
      <3>3. QED
        BY <3>1, <3>2
    <2>3. QED
      BY SMT, <2>2 DEF Retained, Items
  <1>3. ASSUME NEW i \in Identifiers, DeleteDeclaration(i) PROVE Retained'
    <2>1. decl' = [decl EXCEPT ![i] = None] /\ versions' = {v \in versions : v[1] # i}
      BY <1>3 DEF DeleteDeclaration, Without
    <2>2. QED
      BY SMT, <2>1, NothingAssumption DEF Retained, TypeOK, Items, NothingAssumption
  <1>4. ASSUME NEW s \in Sets, NEW wanted \in Manifests, PublishSet(s, wanted) PROVE Retained'
    <2> DEFINE changed == {it[1] : it \in {w \in wanted : decl[w[1]] # w[2]}}
    <2>1. /\ decl' = [i \in Identifiers |->
                        IF i \in changed THEN CHOOSE c \in Contents : <<i, c>> \in wanted ELSE decl[i]]
          /\ versions' = versions \cup {w \in wanted : w[1] \in changed}
      BY <1>4 DEF PublishSet
    <2>2. ASSUME NEW i \in Identifiers, NEW c \in Contents, decl'[i] = c PROVE <<i, c>> \in versions'
      <3>1. CASE i \in changed
        <4>1. \E b \in Contents : <<i, b>> \in wanted
          BY SMT, <3>1 DEF Manifests, Items
        <4>2. <<i, c>> \in wanted
          BY <2>1, <2>2, <3>1, <4>1
        <4>3. QED
          BY SMT, <2>1, <3>1, <4>2
      <3>2. CASE i \notin changed
        <4>1. decl[i] = c
          BY <2>1, <2>2, <3>2
        <4>2. <<i, c>> \in versions
          BY SMT, <4>1 DEF Retained, Items
        <4>3. QED
          BY <2>1, <4>2
      <3>3. QED
        BY <3>1, <3>2
    <2>3. QED
      BY SMT, <2>2 DEF Retained, Items
  <1>5. CASE PruneVersions
    <2>1. versions' = versions \cap Referenced /\ decl' = decl
      BY <1>5 DEF PruneVersions, Pruned
    <2>2. QED
      BY <2>1 DEF Retained, Referenced
  <1>6. Next => \/ UNCHANGED <<decl, versions>> \/ PruneVersions
                \/ \E i \in Identifiers, c \in Contents : PutDeclaration(i, c)
                \/ \E i \in Identifiers : DeleteDeclaration(i)
                \/ \E s \in Sets, wanted \in Manifests : PublishSet(s, wanted)
    BY DEF Next, Administer, PutSet, DeleteSet, SetMembership, AssignSet, AssignDeclaration, Touch,
           Reset, TokenUpdate, DeviceStep, Deliver, FetchItems, FetchDeclaration, Settle,
           FetchTokens, Acknowledge, ReplyLost, Elapse, DrainStep, DrainRead, DrainTokens,
           DrainEnqueue, DrainPush, DrainComplete, DrainFail, DrainAbort, admin
  <1>7. QED
    BY <1>1, <1>2, <1>3, <1>4, <1>5, <1>6 DEF vars, admin

LEMMA RetainedServes ==
  ASSUME TypeOK, Retained PROVE Servable
  <1> SUFFICES ASSUME NEW e \in Enrollments PROVE Serving(e)[e] \subseteq versions
    BY DEF Servable
  <1>1. Manifest(e) \subseteq versions
    BY DEF Manifest, Retained
  <1>2. Refreshed(e)[e] = Manifest(e)
    BY DEF Refreshed, TypeOK
  <1>3. CASE snapshot[e] = None \/ ~(snapshot[e] \subseteq versions)
    BY <1>1, <1>2, <1>3 DEF Serving
  <1>4. CASE ~(snapshot[e] = None \/ ~(snapshot[e] \subseteq versions))
    BY <1>4 DEF Serving
  <1>5. QED
    BY <1>3, <1>4

\* Whatever was pruned, published or deleted since the manifest was advertised,
\* one refresh is enough for Declaration: every revision of the manifest it then
\* serves from is in the store, so its 404 means the declaration was withdrawn.
THEOREM RevisionsServable == Spec => []Servable
  <1>1. Init => Retained
    BY SMT, NothingAssumption DEF Init, Retained, Items, NothingAssumption
  <1>2. DeclarationInvariant => TypeOK
    BY DEF DeclarationInvariant
  <1>3. TypeOK /\ Retained /\ [Next]_vars => Retained'
    BY RetainedStep
  <1>4. TypeOK /\ Retained => Servable
    BY RetainedServes
  <1>5. QED
    BY <1>1, <1>2, <1>3, <1>4, DeclarationSafety, PTL DEF Spec
=============================================================================
