---------------------- MODULE SalesContractFactsProofs ----------------------
(***************************************************************************)
(* Proofs about SalesContractFacts for any identities, fields, values,     *)
(* sessions, ledger files and any supply of revision ids.                  *)
(***************************************************************************)
EXTENDS SalesContractFacts, TLAPS

-----------------------------------------------------------------------------
(* Rows and assertions.                                                    *)

LEMMA ProjectionIsTyped ==
    ASSUME NEW as \in Assertions
    PROVE  /\ Projection(as) \in [Fields -> Values \cup {None}]
           /\ DOMAIN as \subseteq Fields
           /\ Restrict(Projection(as), DOMAIN as) = as
  <1>1. PICK D \in SUBSET Fields : as \in [D -> Values]
    BY DEF Assertions
  <1>2. DOMAIN as = D /\ \A f \in D : as[f] \in Values
    BY <1>1
  <1>3. Projection(as) \in [Fields -> Values \cup {None}]
    BY <1>2 DEF Projection
  <1>4. \A f \in D : Restrict(Projection(as), D)[f] = as[f]
    BY <1>2 DEF Projection, Restrict
  <1>5. Restrict(Projection(as), D) = as
    <2>1. DOMAIN Restrict(Projection(as), D) = D
      BY DEF Restrict
    <2>2. Restrict(Projection(as), D) = [f \in D |-> Restrict(Projection(as), D)[f]]
      BY DEF Restrict
    <2>3. as = [f \in D |-> as[f]]
      BY <1>1
    <2> QED BY <1>4, <2>2, <2>3
  <1> QED BY <1>2, <1>3, <1>5

LEMMA MergeIsTyped ==
    ASSUME NEW as \in Assertions, NEW v \in [Fields -> Values \cup {None}]
    PROVE  Merge(v, as) \in [Fields -> Values \cup {None}]
  <1>1. PICK D \in SUBSET Fields : as \in [D -> Values]
    BY DEF Assertions
  <1> QED BY <1>1 DEF Merge

LEMMA RevisionIsTyped ==
    ASSUME NEW a \in RevIds, NEW type \in {"INITIAL", "SUPPLEMENT", "CORRECTION"},
           NEW v \in [Fields -> Values \cup {None}], NEW as \in Assertions,
           NEW fragment \in Fragments
    PROVE  /\ Revision(a, type, v, as, fragment) \in Revisions
           /\ Revision(a, type, v, as, fragment) # None
  <1>1. DOMAIN as \subseteq Fields
    BY ProjectionIsTyped
  <1>2. Revision(a, type, v, as, fragment) \in Revisions
    BY <1>1 DEF Revision, Revisions
  <1> QED BY <1>2, NullRowAssumption

LEMMA TasksAreTyped ==
    /\ \A f \in Fragments : Incomplete(f) \in Tasks
    /\ \A a \in RevIds : CustomerUnknown(a) \in Tasks
    /\ \A a \in RevIds, f \in Fragments : KeyConflict(a, f) \in Tasks
    /\ \A i \in Identities \cup {None} : BackfillConflict(i) \in Tasks
  BY DEF Tasks

\* Tasks of different kinds, or about different things, are different.
LEMMA TasksDiffer ==
    ASSUME NEW a, NEW b, NEW f, NEW i
    PROVE  /\ CustomerUnknown(a) = CustomerUnknown(b) => a = b
           /\ CustomerUnknown(a) # Incomplete(f)
           /\ CustomerUnknown(a) # KeyConflict(b, f)
           /\ CustomerUnknown(a) # BackfillConflict(i)
           /\ ~IsKeyConflict(CustomerUnknown(a)) /\ ~IsKeyConflict(Incomplete(f))
           /\ ~IsKeyConflict(BackfillConflict(i)) /\ IsKeyConflict(KeyConflict(b, f))
           /\ KeyConflict(b, f).anchor = b /\ KeyConflict(b, f).key = f
  BY DEF CustomerUnknown, Incomplete, KeyConflict, BackfillConflict, IsKeyConflict

LEMMA EntryIsTyped ==
    ASSUME NEW i \in Identities \cup {None}, NEW as \in Assertions
    PROVE  /\ Entry(i, as, CreateFragment(i, as)) \in Entries(Fragments)
           /\ CreateFragment(i, as) \in CreateFragments
  <1>1. CreateFragment(i, as) \in CreateFragments
    BY DEF CreateFragment, CreateFragments
  <1>2. CreateFragment(i, as) \in Fragments
    BY <1>1 DEF Fragments
  <1>3. \A f \in Fragments : Entry(i, as, f) \in Entries(Fragments)
    BY DEF Entry, Entries
  <1> QED BY <1>1, <1>2, <1>3

LEMMA FilesAreTyped ==
    ASSUME NEW b \in Backfills
    PROVE  /\ Files[b] \in Seq(Entries(Fragments))
           /\ Len(Files[b]) \in Nat
           /\ \A j \in 1..Len(Files[b]) : Files[b][j].fragment \in RowFragments
  <1>1. Files[b] \in Seq(Entries(RowFragments))
    BY FilesAssumption
  <1>2. Len(Files[b]) \in Nat
    BY <1>1
  <1>3. \A j \in 1..Len(Files[b]) : Files[b][j] \in Entries(RowFragments)
    BY <1>1
  <1>4. Entries(RowFragments) \subseteq Entries(Fragments)
    BY DEF Entries, Fragments
  <1>5. Files[b] \in Seq(Entries(Fragments))
    <2>1. Files[b] \in [1..Len(Files[b]) -> Entries(Fragments)]
      BY <1>1, <1>3, <1>4
    <2> QED BY <1>2, <2>1
  <1>6. \A j \in 1..Len(Files[b]) : Files[b][j].fragment \in RowFragments
    BY <1>3 DEF Entries
  <1> QED BY <1>2, <1>5, <1>6

\* The entry a session is processing.
LEMMA NowIsTyped ==
    ASSUME TypeOK, NEW s \in Sessions, row[s] <= Len(work[s]), row[s] # 0
    PROVE  /\ row[s] \in 1..Len(work[s])
           /\ Now(s) \in Entries(Fragments)
           /\ Now(s).identity \in Identities \cup {None}
           /\ Now(s).asserted \in Assertions
           /\ Now(s).fragment \in Fragments
  <1>1. row[s] \in 1..Len(work[s]) /\ work[s] \in Seq(Entries(Fragments))
    BY DEF TypeOK
  <1>2. Now(s) \in Entries(Fragments)
    BY <1>1 DEF Now
  <1> QED BY <1>1, <1>2 DEF Entries

-----------------------------------------------------------------------------
(* Types, and what the sessions are working on.                            *)

TypedWork == TypeOK /\ Working

LEMMA InitIsTyped == Init => TypedWork
  <1> SUFFICES ASSUME Init PROVE TypedWork
    OBVIOUS
  <1>1. <<>> \in Seq(Entries(Fragments)) /\ Len(<<>>) = 0
    OBVIOUS
  <1>2. TypeOK
    BY <1>1 DEF Init, TypeOK
  <1>3. Working
    BY <1>1 DEF Init, Working
  <1> QED BY <1>2, <1>3 DEF TypedWork

\* The entries a transaction starts with.
LEMMA BeginKeepsTypes ==
    ASSUME TypedWork, NEW s \in Sessions, NEW entries \in Seq(Entries(Fragments)),
           \A j \in 1..Len(entries) :
               IF s \in Backfills THEN entries[j].fragment \in RowFragments
               ELSE entries[j].fragment
                        = CreateFragment(entries[j].identity, entries[j].asserted),
           Begin(s, entries), writeLock' \in Humans \cup {None}
    PROVE  TypedWork'
  <1>1. TypeOK'
    BY DEF TypedWork, TypeOK, Begin
  <1>2. Working'
    BY DEF TypedWork, TypeOK, Working, Begin, Now
  <1> QED BY <1>1, <1>2 DEF TypedWork

LEMMA StartCreateKeepsTypes ==
    ASSUME TypedWork, NEW p \in Humans, NEW c \in Creations, StartCreate(p, c[1], c[2])
    PROVE  TypedWork'
  <1> DEFINE e == Entry(c[1], c[2], CreateFragment(c[1], c[2]))
  <1>1. c[1] \in Identities \cup {None} /\ c[2] \in Assertions
    BY InputsAssumption
  <1>2. e \in Entries(Fragments)
    BY <1>1, EntryIsTyped
  <1>3. /\ <<e>> \in Seq(Entries(Fragments))
        /\ \A j \in 1..Len(<<e>>) : <<e>>[j].fragment
               = CreateFragment(<<e>>[j].identity, <<e>>[j].asserted)
    <2>1. e.fragment = CreateFragment(e.identity, e.asserted)
      BY DEF Entry
    <2> HIDE DEF e
    <2>2. <<e>> \in Seq(Entries(Fragments)) /\ Len(<<e>>) = 1 /\ <<e>>[1] = e
      BY <1>2
    <2> QED BY <2>1, <2>2
  <1>4. Begin(p, <<e>>) /\ writeLock' = p
    BY DEF StartCreate
  <1>5. p \in Sessions /\ p \notin Backfills
    BY SessionsAssumption DEF Sessions
  <1> HIDE DEF e
  <1> QED BY <1>3, <1>4, <1>5, BeginKeepsTypes

LEMMA StartBackfillKeepsTypes ==
    ASSUME TypedWork, NEW b \in Backfills, StartBackfill(b)
    PROVE  TypedWork'
  <1>1. Begin(b, Files[b]) /\ writeLock' \in Humans \cup {None} /\ b \in Sessions
    BY DEF StartBackfill, TypedWork, TypeOK, Sessions
  <1> QED BY <1>1, FilesAreTyped, BeginKeepsTypes

\* A session gets to the next entry, having written rows and tasks of its own.
LEMMA NextEntryKeepsTypes ==
    ASSUME TypedWork, NEW s \in Sessions, NextEntry(s),
           anchors' \in [RevIds -> Identities \cup {None}],
           revs' \in [RevIds -> Revisions \cup {None}],
           pending' \in [Sessions -> SUBSET RevIds],
           pendingTasks' \in [Sessions -> SUBSET Tasks]
    PROVE  TypedWork'
  <1>1. TypeOK'
    <2>1. row' \in [Sessions -> Nat]
      BY DEF TypedWork, TypeOK, NextEntry
    <2>2. pc' \in [Sessions -> {"idle", "read", "insert"}]
      BY DEF TypedWork, TypeOK, NextEntry
    <2>3. /\ tasks' \subseteq Tasks /\ evidence' \subseteq Entries(Fragments)
          /\ writeLock' \in Humans \cup {None}
          /\ work' \in [Sessions -> Seq(Entries(Fragments))]
      BY DEF TypedWork, TypeOK, NextEntry
    <2> QED BY <2>1, <2>2, <2>3 DEF TypeOK
  <1>2. Working'
    BY DEF TypedWork, TypeOK, Working, NextEntry, Now
  <1> QED BY <1>1, <1>2 DEF TypedWork

LEMMA ProcessingIsTyped ==
    ASSUME TypedWork, NEW s \in Sessions, Processing(s) \/ pc[s] = "insert"
    PROVE  /\ row[s] \in 1..Len(work[s])
           /\ Now(s).identity \in Identities \cup {None}
           /\ Now(s).asserted \in Assertions
           /\ Now(s).fragment \in Fragments
           /\ BackfillTask(s) \subseteq Tasks
           /\ pc[s] # "idle"
  <1>1. pc[s] # "idle" /\ row[s] <= Len(work[s]) /\ row[s] # 0
    BY DEF TypedWork, TypeOK, Working, Processing
  <1>2. Now(s).identity \in Identities \cup {None}
    BY <1>1, NowIsTyped DEF TypedWork
  <1>3. BackfillTask(s) \subseteq Tasks
    BY <1>2, TasksAreTyped DEF BackfillTask
  <1> QED BY <1>1, <1>3, NowIsTyped DEF TypedWork

\* The tasks one entry may add to a transaction.
LEMMA ReportsAreTyped ==
    ASSUME TypedWork, NEW s \in Sessions, IdentityIncomplete(s) \/ Agrees(s) \/ Conflicts(s)
    PROVE  pendingTasks' \in [Sessions -> SUBSET Tasks]
  <1>1. /\ Now(s).fragment \in Fragments
        /\ BackfillTask(s) \subseteq Tasks
    BY ProcessingIsTyped DEF IdentityIncomplete, Agrees, Conflicts
  <1>2. \A a \in RevIds : ConflictTask(a, Now(s).fragment) \subseteq Tasks
    BY <1>1, TasksAreTyped DEF ConflictTask
  <1>3. Matches(s) \subseteq RevIds
    BY DEF Matches
  <1>4. pendingTasks \in [Sessions -> SUBSET Tasks]
    BY DEF TypedWork, TypeOK
  <1>5. CASE IdentityIncomplete(s)
    BY <1>1, <1>4, <1>5, TasksAreTyped DEF IdentityIncomplete
  <1>6. CASE Agrees(s)
    BY <1>4, <1>6 DEF Agrees
  <1>7. CASE Conflicts(s)
    BY <1>1, <1>2, <1>3, <1>4, <1>7 DEF Conflicts
  <1> QED BY <1>5, <1>6, <1>7

LEMMA ReportKeepsTypes ==
    ASSUME TypedWork, NEW s \in Sessions, IdentityIncomplete(s) \/ Agrees(s) \/ Conflicts(s)
    PROVE  TypedWork'
  <1>1. NextEntry(s) /\ UNCHANGED <<anchors, revs, pending>>
    BY DEF IdentityIncomplete, Agrees, Conflicts
  <1> QED BY <1>1, ReportsAreTyped, NextEntryKeepsTypes DEF TypedWork, TypeOK

LEMMA NotFoundKeepsTypes ==
    ASSUME TypedWork, NEW s \in Sessions, NotFound(s)
    PROVE  TypedWork'
  <1>1. TypeOK'
    BY DEF TypedWork, TypeOK, NotFound
  <1>2. Working'
    BY DEF TypedWork, TypeOK, Working, NotFound, Processing, Now
  <1> QED BY <1>1, <1>2 DEF TypedWork

\* The row an insert writes.
InitialOf(s, a) ==
    Revision(a, "INITIAL", Projection(Now(s).asserted), Now(s).asserted, Now(s).fragment)

LEMMA InitialIsTyped ==
    ASSUME TypedWork, NEW s \in Sessions, pc[s] = "insert", NEW a \in RevIds
    PROVE  InitialOf(s, a) \in Revisions /\ InitialOf(s, a) # None
  BY ProcessingIsTyped, ProjectionIsTyped, RevisionIsTyped DEF InitialOf

LEMMA InsertKeepsTypes ==
    ASSUME TypedWork, NEW s \in Sessions, InsertAnchor(s)
    PROVE  TypedWork'
  <1>1. pc[s] = "insert" /\ NextEntry(s)
    BY DEF InsertAnchor
  <1>2. PICK a \in FreeIds :
          /\ anchors' = [anchors EXCEPT ![a] = Now(s).identity]
          /\ revs' = [revs EXCEPT ![a] = InitialOf(s, a)]
          /\ pending' = [pending EXCEPT ![s] = @ \cup {a}]
          /\ pendingTasks' = [pendingTasks EXCEPT
                ![s] = IF Projection(Now(s).asserted)[Customer] = None
                       THEN @ \cup {CustomerUnknown(a)} ELSE @]
    BY DEF InsertAnchor, InitialOf
  <1>3. a \in RevIds /\ CustomerUnknown(a) \in Tasks
    BY TasksAreTyped DEF FreeIds
  <1>4. anchors' \in [RevIds -> Identities \cup {None}]
    BY <1>1, <1>2, ProcessingIsTyped DEF TypedWork, TypeOK
  <1>5. revs' \in [RevIds -> Revisions \cup {None}]
    BY <1>1, <1>2, <1>3, InitialIsTyped DEF TypedWork, TypeOK
  <1>6. pending' \in [Sessions -> SUBSET RevIds]
    BY <1>2, <1>3 DEF TypedWork, TypeOK
  <1>7. pendingTasks' \in [Sessions -> SUBSET Tasks]
    BY <1>2, <1>3 DEF TypedWork, TypeOK
  <1> QED BY <1>1, <1>4, <1>5, <1>6, <1>7, NextEntryKeepsTypes

LEMMA EndKeepsTypes ==
    ASSUME TypedWork, NEW s \in Sessions, EndTransaction(s),
           anchors' \in [RevIds -> Identities \cup {None}],
           revs' \in [RevIds -> Revisions \cup {None}],
           tasks' \subseteq Tasks, evidence' \subseteq Entries(Fragments)
    PROVE  TypedWork'
  <1>1. <<>> \in Seq(Entries(Fragments)) /\ Len(<<>>) = 0
    OBVIOUS
  <1>2. TypeOK'
    BY <1>1 DEF TypedWork, TypeOK, EndTransaction
  <1>3. Working'
    BY <1>1 DEF TypedWork, TypeOK, Working, EndTransaction, Now
  <1> QED BY <1>2, <1>3 DEF TypedWork

LEMMA EndingKeepsTypes ==
    ASSUME TypedWork, NEW s \in Sessions, Commit(s) \/ Fail(s)
    PROVE  TypedWork'
  <1>1. EndTransaction(s)
    BY DEF Commit, Fail
  <1>2. CASE Commit(s)
    <2>1. tasks' \subseteq Tasks
      BY <1>2 DEF Commit, TypedWork, TypeOK
    <2>2. evidence' \subseteq Entries(Fragments)
      <3>1. work[s] \in Seq(Entries(Fragments))
        BY DEF TypedWork, TypeOK
      <3>2. \A j \in 1..Len(work[s]) : work[s][j] \in Entries(Fragments)
        BY <3>1
      <3> QED BY <1>2, <3>2 DEF Commit, TypedWork, TypeOK
    <2> QED BY <1>1, <1>2, <2>1, <2>2, EndKeepsTypes DEF Commit, TypedWork, TypeOK
  <1>3. CASE Fail(s)
    <2>1. anchors' \in [RevIds -> Identities \cup {None}]
      BY <1>3 DEF Fail, TypedWork, TypeOK
    <2>2. revs' \in [RevIds -> Revisions \cup {None}]
      BY <1>3 DEF Fail, TypedWork, TypeOK
    <2> QED BY <1>1, <1>3, <2>1, <2>2, EndKeepsTypes DEF Fail, TypedWork, TypeOK
  <1> QED BY <1>2, <1>3

-----------------------------------------------------------------------------
(* What a supplement or a correction does to the rows.                     *)

Amended(op, base, as) ==
    \/ /\ op = "SUPPLEMENT" /\ Supplementable(revs[base].values, as)
       /\ tasks' = tasks \ ResolvedBy(revs[base].anchor, as)
    \/ /\ op = "CORRECTION" /\ Correctable(revs[base].values, as)
       /\ tasks' = tasks

NewRow(op, base, as) ==
    Revision(revs[base].anchor, op, Merge(revs[base].values, as), as,
             ReviseFragment(op, revs[base].anchor, base, as))

\* op appends row new to the anchor whose current revision is base.
Revised(op, base, as, new) ==
    /\ base \in RevIds /\ new \in RevIds /\ as \in Assertions
    /\ IsCurrent(base) /\ ~Exists(new) /\ Committed(revs[base].anchor)
    /\ revs' = [revs EXCEPT ![base].next = new, ![new] = NewRow(op, base, as)]
    /\ UNCHANGED <<anchors, evidence, writeLock, pc, work, row, pending, pendingTasks>>
    /\ Amended(op, base, as)

LEMMA ReviseIsRevised ==
    ASSUME TypedWork, NEW a \in RevIds, NEW base \in RevIds, NEW as \in Amendments,
           Supplement(a, base, as) \/ Correct(a, base, as)
    PROVE  \E op, new : Revised(op, base, as, new)
  <1>1. as \in Assertions
    BY InputsAssumption
  <1>2. CASE Supplement(a, base, as)
    <2>1. PICK new \in FreeIds :
            AppendAgainstCurrent(a, base, new,
                Revision(a, "SUPPLEMENT", Merge(revs[base].values, as), as,
                         ReviseFragment("SUPPLEMENT", a, base, as)))
      BY <1>2 DEF Supplement, Revise
    <2>2. Revised("SUPPLEMENT", base, as, new)
      BY <1>1, <1>2, <2>1
         DEF Supplement, Revise, AppendAgainstCurrent, Revised, Amended, NewRow,
             FreeIds, IsCurrent, session
    <2> QED BY <2>2
  <1>3. CASE Correct(a, base, as)
    <2>1. PICK new \in FreeIds :
            AppendAgainstCurrent(a, base, new,
                Revision(a, "CORRECTION", Merge(revs[base].values, as), as,
                         ReviseFragment("CORRECTION", a, base, as)))
      BY <1>3 DEF Correct, Revise
    <2>2. Revised("CORRECTION", base, as, new)
      BY <1>1, <1>3, <2>1
         DEF Correct, Revise, AppendAgainstCurrent, Revised, Amended, NewRow,
             FreeIds, IsCurrent, session
    <2> QED BY <2>2
  <1> QED BY <1>2, <1>3

LEMMA NewRowIsTyped ==
    ASSUME TypedWork, NEW op, NEW base, NEW as, NEW new, Revised(op, base, as, new)
    PROVE  NewRow(op, base, as) \in Revisions /\ NewRow(op, base, as) # None
  <1> DEFINE fragment == ReviseFragment(op, revs[base].anchor, base, as)
  <1>1. revs[base] \in Revisions /\ revs[base].anchor \in RevIds
        /\ revs[base].values \in [Fields -> Values \cup {None}]
    BY DEF Revised, IsCurrent, Exists, TypedWork, TypeOK, Revisions
  <1>2. op \in {"SUPPLEMENT", "CORRECTION"}
    BY DEF Revised, Amended
  <1>3. fragment \in Fragments
    <2>1. fragment \in ReviseFragments
      BY <1>1, <1>2 DEF Revised, ReviseFragment, ReviseFragments
    <2> QED BY <2>1 DEF Fragments
  <1>4. Merge(revs[base].values, as) \in [Fields -> Values \cup {None}]
    BY <1>1, MergeIsTyped DEF Revised
  <1> HIDE DEF fragment
  <1>5. NewRow(op, base, as)
          = Revision(revs[base].anchor, op, Merge(revs[base].values, as), as, fragment)
    BY DEF NewRow, fragment
  <1> QED BY <1>1, <1>2, <1>3, <1>4, <1>5, RevisionIsTyped DEF Revised

\* Rows are appended; of the old ones, only base changes, and only its next.
Appended(op, base, as, new) ==
    /\ base # new /\ op # "INITIAL"
    /\ revs' \in [RevIds -> Revisions \cup {None}]
    /\ revs'[new] = NewRow(op, base, as) /\ revs'[base].next = new
    /\ revs'[new].anchor = revs[base].anchor /\ revs'[new].type = op
    /\ revs'[new].next = None /\ revs'[new].values = Merge(revs[base].values, as)
    /\ revs'[new].fragment \in ReviseFragments
    /\ \A r \in RevIds : revs'[r] # None <=> Exists(r) \/ r = new
    /\ \A r \in RevIds : Exists(r) =>
          /\ revs'[r].anchor = revs[r].anchor /\ revs'[r].type = revs[r].type
          /\ revs'[r].values = revs[r].values /\ revs'[r].names = revs[r].names
          /\ revs'[r].fragment = revs[r].fragment
          /\ r # base => revs'[r].next = revs[r].next
    /\ \A a \in RevIds : Committed(a)' <=> Committed(a)

LEMMA RevisedRows ==
    ASSUME TypedWork, NEW op, NEW base, NEW as, NEW new, Revised(op, base, as, new)
    PROVE  Appended(op, base, as, new)
  <1>1. base # new /\ base \in RevIds /\ new \in RevIds /\ op \in {"SUPPLEMENT", "CORRECTION"}
    BY DEF Revised, IsCurrent, Amended
  <1>2. NewRow(op, base, as) \in Revisions /\ NewRow(op, base, as) # None
    BY NewRowIsTyped
  <1>3. revs[base] \in Revisions /\ revs[base].anchor \in RevIds
    BY DEF Revised, IsCurrent, Exists, TypedWork, TypeOK, Revisions
  <1>4. [revs[base] EXCEPT !.next = new] \in Revisions
    BY <1>1, <1>3 DEF Revisions
  <1>5. /\ revs'[new] = NewRow(op, base, as)
        /\ revs'[base] = [revs[base] EXCEPT !.next = new]
        /\ \A r \in RevIds : r # base /\ r # new => revs'[r] = revs[r]
    BY <1>1 DEF Revised, TypedWork, TypeOK
  <1>6. revs' \in [RevIds -> Revisions \cup {None}]
    BY <1>1, <1>2, <1>4, <1>5 DEF Revised, TypedWork, TypeOK
  <1>7. /\ revs'[base].next = new /\ revs'[base] # None
        /\ revs'[base].anchor = revs[base].anchor /\ revs'[base].type = revs[base].type
        /\ revs'[base].values = revs[base].values /\ revs'[base].names = revs[base].names
        /\ revs'[base].fragment = revs[base].fragment
    BY <1>3, <1>4, <1>5, NullRowAssumption DEF Revisions
  <1>8. /\ revs'[new].anchor = revs[base].anchor /\ revs'[new].type = op
        /\ revs'[new].next = None /\ revs'[new].values = Merge(revs[base].values, as)
        /\ revs'[new].fragment \in ReviseFragments
    <2>1. revs'[new].fragment = ReviseFragment(op, revs[base].anchor, base, as)
      BY <1>5 DEF NewRow, Revision
    <2>2. as \in Assertions
      BY DEF Revised
    <2>3. ReviseFragment(op, revs[base].anchor, base, as) \in ReviseFragments
      BY <1>1, <1>3, <2>2 DEF ReviseFragment, ReviseFragments
    <2>4. /\ revs'[new].anchor = revs[base].anchor /\ revs'[new].type = op
          /\ revs'[new].next = None /\ revs'[new].values = Merge(revs[base].values, as)
      BY <1>5 DEF NewRow, Revision
    <2> QED BY <2>1, <2>3, <2>4
  <1>9. \A r \in RevIds : revs'[r] # None <=> Exists(r) \/ r = new
    BY <1>1, <1>2, <1>5, <1>7 DEF Exists, Revised, IsCurrent
  <1>10. \A a \in RevIds : Committed(a)' <=> Committed(a)
    BY DEF Revised, Committed
  <1>11. \A r \in RevIds : Exists(r) =>
            /\ revs'[r].anchor = revs[r].anchor /\ revs'[r].type = revs[r].type
            /\ revs'[r].values = revs[r].values /\ revs'[r].names = revs[r].names
            /\ revs'[r].fragment = revs[r].fragment
            /\ r # base => revs'[r].next = revs[r].next
    BY <1>5, <1>7 DEF Revised, Exists
  <1> QED BY <1>1, <1>5, <1>6, <1>7, <1>8, <1>9, <1>10, <1>11 DEF Appended

LEMMA ReviseKeepsTypes ==
    ASSUME TypedWork, NEW op, NEW base, NEW as, NEW new, Revised(op, base, as, new)
    PROVE  TypedWork'
  <1>1. revs' \in [RevIds -> Revisions \cup {None}]
    BY RevisedRows DEF Appended
  <1>2. tasks' \subseteq Tasks
    BY DEF Revised, Amended, TypedWork, TypeOK
  <1>3. TypeOK'
    BY <1>1, <1>2 DEF TypedWork, TypeOK, Revised
  <1>4. Working'
    BY DEF TypedWork, Working, Revised, Now
  <1> QED BY <1>3, <1>4 DEF TypedWork

-----------------------------------------------------------------------------
(* Rows, ownership, identities and chains.                                 *)

\* One anchor's history, so that it can be shown to be kept anchor by anchor.
Chain(a) == /\ a \in RevisionsOf(a) /\ \E r \in RevisionsOf(a) : IsCurrent(r)
            /\ OneInitial(a) /\ OneCurrent(a) /\ Connected(a)

LEMMA HistoryByAnchor ==
    /\ HistoryIsAChain <=> \A a \in RevIds : anchors[a] # None => Chain(a)
    /\ HistoryIsAChain' <=> \A a \in RevIds : anchors'[a] # None => Chain(a)'
  BY DEF HistoryIsAChain, Chain

\* A history is kept by a step that keeps the rows it consists of.
LEMMA SameRowsSameChain ==
    ASSUME NEW a \in RevIds, Chain(a), RevisionsOf(a)' = RevisionsOf(a),
           \A r \in RevisionsOf(a) : revs'[r] = revs[r]
    PROVE  Chain(a)'
  <1>1. \A r \in RevisionsOf(a) : IsCurrent(r)' <=> IsCurrent(r)
    BY DEF IsCurrent, Exists
  <1>2. OneInitial(a)' /\ OneCurrent(a)'
    BY <1>1 DEF Chain, OneInitial, OneCurrent
  <1>3. Connected(a)'
    <2> SUFFICES ASSUME NEW S \in SUBSET RevisionsOf(a), S # {},
                        ClosedUnderPredecessors(a, S)'
                 PROVE  a \in S
      BY DEF Connected
    <2>1. ClosedUnderPredecessors(a, S)
      BY DEF ClosedUnderPredecessors
    <2> QED BY <2>1 DEF Chain, Connected
  <1> QED BY <1>1, <1>2, <1>3 DEF Chain

\* A step that touches neither rows nor ownership of anchors.
LEMMA QuietKeepsChains ==
    ASSUME Chains, UNCHANGED <<anchors, revs, pending>>,
           \A s \in Sessions : pc'[s] = "idle" => pending[s] = {} /\ pendingTasks'[s] = {}
    PROVE  Chains'
  <1>1. Rows' /\ OneAnchorPerIdentity'
    BY DEF Chains, Rows, OneAnchorPerIdentity, Exists
  <1>2. \A a \in RevIds : RevisionsOf(a)' = RevisionsOf(a)
    BY DEF RevisionsOf, Exists
  <1>3. HistoryIsAChain'
    BY <1>2, HistoryByAnchor, SameRowsSameChain DEF Chains
  <1>4. Ownership'
    BY DEF Chains, Ownership, RevisionsOf, Exists
  <1> QED BY <1>1, <1>3, <1>4 DEF Chains

\* s writes the anchor a and its INITIAL revision.
Inserted(s, a) ==
    /\ a \in RevIds /\ ~Exists(a) /\ pc[s] = "insert"
    /\ UniqueIndexAdmits(Now(s).identity)
    /\ anchors' = [anchors EXCEPT ![a] = Now(s).identity]
    /\ revs' = [revs EXCEPT ![a] = InitialOf(s, a)]
    /\ pending' = [pending EXCEPT ![s] = @ \cup {a}]
    /\ pendingTasks' = [pendingTasks EXCEPT
            ![s] = IF Projection(Now(s).asserted)[Customer] = None
                   THEN @ \cup {CustomerUnknown(a)} ELSE @]
    /\ NextEntry(s)

LEMMA InsertIsInserted ==
    ASSUME NEW s \in Sessions, InsertAnchor(s)
    PROVE  \E a : Inserted(s, a)
  BY DEF InsertAnchor, Inserted, FreeIds, InitialOf

LEMMA InsertedRows ==
    ASSUME TypedWork, Rows, NEW s \in Sessions, NEW a, Inserted(s, a)
    PROVE  /\ anchors[a] = None /\ Now(s).identity # None /\ anchors'[a] = Now(s).identity
           /\ revs'[a] = InitialOf(s, a) /\ Exists(a)'
           /\ revs'[a].anchor = a /\ revs'[a].type = "INITIAL" /\ revs'[a].next = None
           /\ revs'[a].values = Projection(Now(s).asserted)
           /\ revs'[a].fragment = Now(s).fragment
           /\ AssertedBy(a)' = Now(s).asserted
           /\ \A r \in RevIds : r # a => revs'[r] = revs[r] /\ anchors'[r] = anchors[r]
           /\ \A r \in RevIds : Exists(r)' <=> Exists(r) \/ r = a
           /\ \A r \in RevIds : Exists(r) => revs[r].anchor # a /\ revs[r].anchor \in RevIds
           /\ \A t \in Sessions : t # s => pending'[t] = pending[t]
           /\ pending'[s] = pending[s] \cup {a}
           /\ \A b \in RevIds : Committed(b) => Committed(b)'
           /\ \A b \in RevIds : b # a => (Committed(b)' <=> Committed(b))
           /\ ~Committed(a)'
  <1>1. a \in RevIds /\ ~Exists(a)
    BY DEF Inserted
  <1>2. anchors[a] = None
    BY <1>1 DEF Rows
  <1>3. Now(s).identity # None
    BY DEF Inserted, TypedWork, Working
  <1>4. anchors'[a] = Now(s).identity
    BY <1>1 DEF Inserted, TypedWork, TypeOK
  <1>5. revs'[a] = InitialOf(s, a)
    BY <1>1 DEF Inserted, TypedWork, TypeOK
  <1>6. InitialOf(s, a) # None
    BY <1>1, InitialIsTyped DEF Inserted
  <1>7. /\ revs'[a].anchor = a /\ revs'[a].type = "INITIAL" /\ revs'[a].next = None
        /\ revs'[a].values = Projection(Now(s).asserted)
        /\ revs'[a].names = DOMAIN Now(s).asserted
        /\ revs'[a].fragment = Now(s).fragment
    BY <1>5 DEF InitialOf, Revision
  <1>8. AssertedBy(a)' = Now(s).asserted
    <2>1. Now(s).asserted \in Assertions
      BY ProcessingIsTyped DEF Inserted
    <2> QED BY <1>7, <2>1, ProjectionIsTyped DEF AssertedBy
  <1>9. \A r \in RevIds : r # a => revs'[r] = revs[r] /\ anchors'[r] = anchors[r]
    BY <1>1 DEF Inserted, TypedWork, TypeOK
  <1>10. \A r \in RevIds : Exists(r)' <=> Exists(r) \/ r = a
    BY <1>5, <1>6, <1>9 DEF Exists
  <1>11. \A r \in RevIds : Exists(r) => revs[r].anchor # a /\ revs[r].anchor \in RevIds
    BY <1>2 DEF Rows, Exists, TypedWork, TypeOK, Revisions
  <1>12. /\ \A t \in Sessions : t # s => pending'[t] = pending[t]
         /\ pending'[s] = pending[s] \cup {a}
    BY DEF Inserted, TypedWork, TypeOK
  <1>13. /\ \A b \in RevIds : b # a => (Committed(b)' <=> Committed(b))
         /\ ~Committed(a)' /\ ~Committed(a)
    BY <1>2, <1>9, <1>12 DEF Committed
  <1> QED BY <1>1, <1>2, <1>3, <1>4, <1>5, <1>6, <1>7, <1>8, <1>9, <1>10, <1>11, <1>12, <1>13
             DEF Exists

LEMMA InsertKeepsChains ==
    ASSUME TypedWork, Chains, NEW s \in Sessions, NEW a, Inserted(s, a)
    PROVE  Chains'
  <1> USE DEF Chains
  <1>1. a \in RevIds /\ ~Exists(a)
    BY DEF Inserted
  <1>2. Rows'
    <2>1. \A b \in RevIds : anchors'[b] # None =>
            Exists(b)' /\ revs'[b].anchor = b /\ revs'[b].type = "INITIAL"
      BY InsertedRows DEF Rows
    <2>2. ASSUME NEW r \in RevIds, Exists(r)'
          PROVE  /\ anchors'[revs'[r].anchor] # None
                 /\ revs'[r].type = "INITIAL" => revs'[r].anchor = r
                 /\ revs'[r].next # None =>
                      /\ revs'[revs'[r].next] # None
                      /\ revs'[revs'[r].next].anchor = revs'[r].anchor
      <3>1. CASE r = a
        BY <3>1, InsertedRows
      <3>2. CASE r # a
        <4>1. /\ Exists(r) /\ revs'[r] = revs[r] /\ revs[r].anchor # a
              /\ revs[r].anchor \in RevIds
          BY <2>2, <3>2, InsertedRows
        <4>2. anchors'[revs'[r].anchor] # None
          BY <4>1, InsertedRows DEF Rows
        <4>3. ASSUME revs[r].next # None
              PROVE  /\ revs'[revs[r].next] # None
                     /\ revs'[revs[r].next].anchor = revs[r].anchor
          <5> DEFINE n == revs[r].next
          <5>1. n \in RevIds
            BY <4>1, <4>3 DEF Exists, TypedWork, TypeOK, Revisions
          <5>2. Exists(n) /\ revs[n].anchor = revs[r].anchor
            BY <4>1, <4>3 DEF Rows
          <5>3. n # a
            BY <1>1, <5>2
          <5> HIDE DEF n
          <5>4. revs'[n] = revs[n] /\ revs[n] # None
            BY <5>1, <5>2, <5>3, InsertedRows DEF Exists
          <5>5. revs'[n] # None /\ revs'[n].anchor = revs[r].anchor
            BY <5>2, <5>4
          <5> QED BY <5>5 DEF n
        <4>4. revs[r].type = "INITIAL" => revs[r].anchor = r
          BY <4>1 DEF Rows
        <4> QED BY <4>1, <4>2, <4>3, <4>4
      <3> QED BY <3>1, <3>2
    <2> QED BY <2>1, <2>2 DEF Rows, Exists
  <1>3. OneAnchorPerIdentity'
    BY InsertedRows DEF OneAnchorPerIdentity, Inserted, UniqueIndexAdmits
  <1>4. RevisionsOf(a)' = {a} /\ \A b \in RevIds : b # a => RevisionsOf(b)' = RevisionsOf(b)
    BY <1>1, InsertedRows DEF RevisionsOf
  <1>5. HistoryIsAChain'
    <2>1. Chain(a)'
      <3>1. IsCurrent(a)'
        BY InsertedRows DEF IsCurrent
      <3>2. OneInitial(a)'
        BY <1>4, InsertedRows DEF OneInitial
      <3>3. OneCurrent(a)' /\ Connected(a)'
        BY <1>4 DEF OneCurrent, Connected
      <3> QED BY <1>4, <3>1, <3>2, <3>3 DEF Chain
    <2>2. ASSUME NEW b \in RevIds, b # a, anchors'[b] # None PROVE Chain(b)'
      <3>1. Chain(b)
        BY <2>2, InsertedRows, HistoryByAnchor
      <3>2. \A r \in RevisionsOf(b) : revs'[r] = revs[r]
        BY <1>1, InsertedRows DEF RevisionsOf
      <3> QED BY <1>4, <2>2, <3>1, <3>2, SameRowsSameChain
    <2> QED BY <2>1, <2>2, HistoryByAnchor
  <1>6. Ownership'
    <2>1. ASSUME NEW t \in Sessions, NEW b \in pending'[t]
          PROVE  anchors'[b] # None /\ RevisionsOf(b)' = {b} /\ revs'[b].next = None
      <3>1. CASE b = a
        BY <1>4, <3>1, InsertedRows
      <3>2. CASE b # a
        <4>1. b \in pending[t]
          BY <2>1, <3>2, InsertedRows
        <4>2. b \in RevIds
          BY <4>1 DEF TypedWork, TypeOK
        <4> QED BY <1>4, <3>2, <4>1, <4>2, InsertedRows DEF Ownership
      <3> QED BY <3>1, <3>2
    <2>2. ASSUME NEW t \in Sessions, NEW u \in Sessions, NEW b \in pending'[t], b \in pending'[u]
          PROVE  t = u
      <3>1. \A t2 \in Sessions : a \notin pending[t2]
        BY InsertedRows DEF Ownership
      <3> QED BY <2>2, <3>1, InsertedRows DEF Ownership
    <2>3. ASSUME NEW t \in Sessions, pc'[t] = "idle"
          PROVE  pending'[t] = {} /\ pendingTasks'[t] = {}
      <3>1. t # s /\ pc[t] = "idle"
        BY <2>3 DEF Inserted, NextEntry, TypedWork, TypeOK
      <3>2. pending'[t] = pending[t] /\ pendingTasks'[t] = pendingTasks[t]
        BY <3>1 DEF Inserted, TypedWork, TypeOK
      <3> QED BY <3>1, <3>2 DEF Ownership
    <2> QED BY <2>1, <2>2, <2>3 DEF Ownership
  <1> QED BY <1>2, <1>3, <1>5, <1>6

LEMMA EndedSession ==
    ASSUME TypeOK, NEW s \in Sessions, EndTransaction(s)
    PROVE  /\ pending'[s] = {} /\ pendingTasks'[s] = {} /\ work'[s] = <<>>
           /\ \A t \in Sessions : t # s =>
                /\ pending'[t] = pending[t] /\ pendingTasks'[t] = pendingTasks[t]
                /\ pc'[t] = pc[t] /\ work'[t] = work[t] /\ row'[t] = row[t]
           /\ \A t \in Sessions : t = s \/ t # s
  BY DEF TypeOK, EndTransaction

LEMMA CommitKeepsChains ==
    ASSUME TypedWork, Chains, NEW s \in Sessions, Commit(s)
    PROVE  Chains'
  <1>1. EndTransaction(s) /\ UNCHANGED <<anchors, revs>>
    BY DEF Commit
  <1>2. Rows' /\ OneAnchorPerIdentity'
    BY <1>1 DEF Chains, Rows, OneAnchorPerIdentity, Exists
  <1>3. \A a \in RevIds : RevisionsOf(a)' = RevisionsOf(a)
    BY <1>1 DEF RevisionsOf, Exists
  <1>4. HistoryIsAChain'
    BY <1>1, <1>3, HistoryByAnchor, SameRowsSameChain DEF Chains
  <1>5. \A t \in Sessions : \A a \in pending'[t] : a \in pending[t] /\ t # s /\ a \in RevIds
    BY <1>1, EndedSession DEF TypedWork, TypeOK
  <1>6. Ownership'
    <2>1. ASSUME NEW t \in Sessions, NEW a \in pending'[t]
          PROVE  anchors'[a] # None /\ RevisionsOf(a)' = {a} /\ revs'[a].next = None
      BY <1>1, <1>3, <1>5 DEF Chains, Ownership
    <2>2. ASSUME NEW t \in Sessions, NEW u \in Sessions, NEW a \in pending'[t], a \in pending'[u]
          PROVE  t = u
      BY <2>2, <1>5 DEF Chains, Ownership
    <2>3. ASSUME NEW t \in Sessions, pc'[t] = "idle"
          PROVE  pending'[t] = {} /\ pendingTasks'[t] = {}
      BY <2>3, <1>1, EndedSession DEF Chains, Ownership, TypedWork
    <2> QED BY <2>1, <2>2, <2>3 DEF Ownership
  <1> QED BY <1>2, <1>4, <1>6 DEF Chains

\* A rollback takes away the session's anchors and their INITIAL revisions.
LEMMA FailedRows ==
    ASSUME TypedWork, Chains, NEW s \in Sessions, Fail(s)
    PROVE  /\ \A r \in RevIds : r \in pending[s] => revs'[r] = None /\ anchors'[r] = None
           /\ \A r \in RevIds : r \notin pending[s] => revs'[r] = revs[r] /\ anchors'[r] = anchors[r]
           /\ \A r \in RevIds : Exists(r)' <=> Exists(r) /\ r \notin pending[s]
           /\ \A r \in RevIds : Exists(r) /\ r \notin pending[s] =>
                revs[r].anchor \in RevIds /\ revs[r].anchor \notin pending[s]
           /\ \A a \in RevIds : a \notin pending[s] => RevisionsOf(a)' = RevisionsOf(a)
           /\ \A a \in RevIds : a \notin pending[s] => (Committed(a)' <=> Committed(a))
  <1>1. /\ \A r \in RevIds : r \in pending[s] => revs'[r] = None /\ anchors'[r] = None
        /\ \A r \in RevIds : r \notin pending[s] => revs'[r] = revs[r] /\ anchors'[r] = anchors[r]
    BY DEF Fail
  <1>2. \A r \in RevIds : Exists(r)' <=> Exists(r) /\ r \notin pending[s]
    BY <1>1 DEF Exists
  <1>3. ASSUME NEW r \in RevIds, Exists(r), r \notin pending[s]
        PROVE  revs[r].anchor \in RevIds /\ revs[r].anchor \notin pending[s]
    <2>1. revs[r].anchor \in RevIds
      BY <1>3 DEF Exists, TypedWork, TypeOK, Revisions
    <2>2. r \in RevisionsOf(revs[r].anchor)
      BY <1>3 DEF RevisionsOf
    <2>3. \A b \in pending[s] : RevisionsOf(b) = {b}
      BY DEF Chains, Ownership
    <2> QED BY <1>3, <2>1, <2>2, <2>3
  <1>4. ASSUME NEW a \in RevIds, a \notin pending[s] PROVE RevisionsOf(a)' = RevisionsOf(a)
    <2>1. \A r \in RevisionsOf(a) : r \notin pending[s]
      <3>1. \A r \in pending[s] : anchors[r] # None /\ r \in RevIds
        BY DEF Chains, Ownership, TypedWork, TypeOK
      <3>2. \A r \in pending[s] : revs[r].anchor = r
        BY <3>1 DEF Chains, Rows
      <3> QED BY <1>4, <3>2 DEF RevisionsOf
    <2> QED BY <1>1, <1>2, <2>1 DEF RevisionsOf
  <1>5. ASSUME NEW a \in RevIds, a \notin pending[s] PROVE Committed(a)' <=> Committed(a)
    <2>1. EndTransaction(s)
      BY DEF Fail
    <2>2. \A t \in Sessions : a \in pending'[t] <=> a \in pending[t]
      BY <1>5, <2>1, EndedSession DEF TypedWork
    <2> QED BY <1>1, <1>5, <2>2 DEF Committed
  <1> QED BY <1>1, <1>2, <1>3, <1>4, <1>5

LEMMA FailKeepsChains ==
    ASSUME TypedWork, Chains, NEW s \in Sessions, Fail(s)
    PROVE  Chains'
  <1>1. EndTransaction(s)
    BY DEF Fail
  <1>2. Rows'
    <2>1. ASSUME NEW a \in RevIds, anchors'[a] # None
          PROVE  Exists(a)' /\ revs'[a].anchor = a /\ revs'[a].type = "INITIAL"
      BY <2>1, FailedRows DEF Chains, Rows
    <2>2. ASSUME NEW r \in RevIds, Exists(r)'
          PROVE  /\ anchors'[revs'[r].anchor] # None
                 /\ revs'[r].type = "INITIAL" => revs'[r].anchor = r
                 /\ revs'[r].next # None =>
                      /\ revs'[revs'[r].next] # None
                      /\ revs'[revs'[r].next].anchor = revs'[r].anchor
      <3>1. Exists(r) /\ r \notin pending[s] /\ revs'[r] = revs[r]
        BY <2>2, FailedRows
      <3>2. anchors'[revs[r].anchor] # None
        BY <3>1, FailedRows DEF Chains, Rows
      <3>3. ASSUME revs[r].next # None
            PROVE  revs'[revs[r].next] # None /\ revs'[revs[r].next].anchor = revs[r].anchor
        <4> DEFINE n == revs[r].next
        <4>1. n \in RevIds
          BY <3>1, <3>3 DEF Exists, TypedWork, TypeOK, Revisions
        <4>2. Exists(n) /\ revs[n].anchor = revs[r].anchor
          BY <3>1, <3>3 DEF Chains, Rows
        <4> HIDE DEF n
        <4>3. n \notin pending[s]
          <5>1. n \in pending[s] => revs[n].anchor = n
            BY <4>1 DEF Chains, Rows, Ownership
          <5> QED BY <3>1, <4>2, <5>1, FailedRows
        <4>4. revs'[n] = revs[n] /\ revs[n] # None
          BY <4>1, <4>2, <4>3, FailedRows DEF Exists
        <4>5. revs'[n] # None /\ revs'[n].anchor = revs[r].anchor
          BY <4>2, <4>4
        <4> QED BY <4>5 DEF n
      <3>4. revs[r].type = "INITIAL" => revs[r].anchor = r
        BY <3>1 DEF Chains, Rows
      <3> QED BY <3>1, <3>2, <3>3, <3>4
    <2> QED BY <2>1, <2>2 DEF Rows, Exists
  <1>3. OneAnchorPerIdentity'
    BY FailedRows DEF Chains, OneAnchorPerIdentity
  <1>4. HistoryIsAChain'
    <2>1. ASSUME NEW a \in RevIds, anchors'[a] # None PROVE Chain(a)'
      <3>1. a \notin pending[s] /\ anchors[a] # None
        BY <2>1, FailedRows
      <3>2. Chain(a) /\ RevisionsOf(a)' = RevisionsOf(a)
        BY <3>1, FailedRows, HistoryByAnchor DEF Chains
      <3>3. \A r \in RevisionsOf(a) : Exists(r)' /\ r \in RevIds
        BY <3>2 DEF RevisionsOf
      <3>4. \A r \in RevisionsOf(a) : revs'[r] = revs[r]
        BY <3>3, FailedRows
      <3> QED BY <3>2, <3>4, SameRowsSameChain
    <2> QED BY <2>1, HistoryByAnchor
  <1>5. Ownership'
    <2>1. \A t \in Sessions : \A a \in pending'[t] :
            a \in pending[t] /\ t # s /\ a \in RevIds
      BY <1>1, EndedSession DEF TypedWork, TypeOK
    <2>2. \A t \in Sessions : \A a \in pending'[t] : a \notin pending[s]
      BY <2>1 DEF Chains, Ownership
    <2>3. ASSUME NEW t \in Sessions, NEW a \in pending'[t]
          PROVE  anchors'[a] # None /\ RevisionsOf(a)' = {a} /\ revs'[a].next = None
      BY <2>1, <2>2, FailedRows DEF Chains, Ownership
    <2>4. ASSUME NEW t \in Sessions, NEW u \in Sessions, NEW a \in pending'[t], a \in pending'[u]
          PROVE  t = u
      BY <2>4, <2>1 DEF Chains, Ownership
    <2>5. ASSUME NEW t \in Sessions, pc'[t] = "idle"
          PROVE  pending'[t] = {} /\ pendingTasks'[t] = {}
      BY <2>5, <1>1, EndedSession DEF Chains, Ownership, TypedWork
    <2> QED BY <2>3, <2>4, <2>5 DEF Ownership
  <1> QED BY <1>2, <1>3, <1>4, <1>5 DEF Chains

LEMMA ReviseKeepsChains ==
    ASSUME TypedWork, Chains, NEW op, NEW base, NEW as, NEW new, Revised(op, base, as, new)
    PROVE  Chains'
  <1>0. Appended(op, base, as, new)
    BY RevisedRows
  <1>1. /\ base \in RevIds /\ new \in RevIds /\ base # new
        /\ Exists(base) /\ revs[base].next = None /\ ~Exists(new)
        /\ anchors' = anchors /\ pending' = pending /\ pc' = pc /\ pendingTasks' = pendingTasks
    BY <1>0 DEF Revised, IsCurrent, Appended, Exists
  <1>a. PICK a \in RevIds : a = revs[base].anchor
    BY <1>1 DEF Exists, TypedWork, TypeOK, Revisions
  <1>2. a \in RevIds /\ Committed(a) /\ anchors[a] # None
    BY <1>1, <1>a DEF Revised, Committed
  <1>3. Chain(a)
    BY <1>2, HistoryByAnchor DEF Chains
  <1>4. /\ RevisionsOf(a)' = RevisionsOf(a) \cup {new}
        /\ \A b \in RevIds : b # a => RevisionsOf(b)' = RevisionsOf(b)
        /\ base \in RevisionsOf(a) /\ new \notin RevisionsOf(a)
    <2>1. \A b \in RevIds : \A r \in RevIds :
            r \in RevisionsOf(b)' <=> r \in RevisionsOf(b) \/ (r = new /\ b = a)
      <3>1. revs'[new] # None /\ revs'[new].anchor = a /\ revs[new] = None
        BY <1>0, <1>1, <1>a DEF Appended, Exists
      <3>2. \A r \in RevIds : r # new => (revs'[r] # None <=> revs[r] # None)
        BY <1>0 DEF Appended, Exists
      <3>3. \A r \in RevIds : revs[r] # None => revs'[r].anchor = revs[r].anchor
        BY <1>0 DEF Appended, Exists
      <3> QED BY <3>1, <3>2, <3>3 DEF RevisionsOf, Exists
    <2>2. \A b \in RevIds : RevisionsOf(b) \subseteq RevIds /\ RevisionsOf(b)' \subseteq RevIds
      BY DEF RevisionsOf
    <2>3. base \in RevisionsOf(a) /\ new \notin RevisionsOf(a)
      BY <1>1, <1>a DEF RevisionsOf
    <2> QED BY <1>1, <1>2, <2>1, <2>2, <2>3
  <1>5. Rows'
    <2>1. ASSUME NEW b \in RevIds, anchors'[b] # None
          PROVE  revs'[b] # None /\ revs'[b].anchor = b /\ revs'[b].type = "INITIAL"
      <3>1. Exists(b) /\ revs[b].anchor = b /\ revs[b].type = "INITIAL"
        BY <1>1, <2>1 DEF Chains, Rows
      <3>2. Exists(b)'
        BY <3>1, <1>0 DEF Appended, Exists
      <3> QED BY <3>1, <3>2, <1>0 DEF Exists, Appended
    <2>2. ASSUME NEW r \in RevIds, Exists(r)'
          PROVE  /\ anchors'[revs'[r].anchor] # None
                 /\ revs'[r].type = "INITIAL" => revs'[r].anchor = r
                 /\ revs'[r].next # None =>
                      /\ revs'[revs'[r].next] # None
                      /\ revs'[revs'[r].next].anchor = revs'[r].anchor
      <3>1. CASE r = new
        BY <1>1, <1>2, <3>1, <1>0, <1>a DEF Appended, Exists
      <3>2. CASE r = base
        <4>1. revs'[new] # None
          BY <1>1, <1>0 DEF Exists, Appended
        <4>2. /\ revs'[r].next = new /\ revs'[r].anchor = a /\ revs'[new].anchor = a
              /\ revs'[r].type = revs[r].type
          BY <1>1, <3>2, <1>0, <1>a DEF Appended, Exists
        <4>3. revs[r].type = "INITIAL" => a = r
          BY <1>1, <3>2, <1>a DEF Chains, Rows
        <4> QED BY <1>1, <1>2, <4>1, <4>2, <4>3
      <3>3. CASE r # new /\ r # base
        <4> DEFINE n == revs[r].next
        <4>1. /\ Exists(r) /\ revs'[r].next = n /\ revs'[r].anchor = revs[r].anchor
              /\ revs'[r].type = revs[r].type
          BY <2>2, <3>3, <1>0 DEF Appended, Exists
        <4>2. /\ anchors[revs[r].anchor] # None
              /\ revs[r].type = "INITIAL" => revs[r].anchor = r
              /\ n # None => Exists(n) /\ revs[n].anchor = revs[r].anchor
          BY <4>1 DEF Chains, Rows
        <4>3. n # None => n \in RevIds
          BY <4>1 DEF Exists, TypedWork, TypeOK, Revisions
        <4> HIDE DEF n
        <4>4. n # None => revs'[n] # None /\ revs'[n].anchor = revs[n].anchor
          BY <4>2, <4>3, <1>0 DEF Appended, Exists
        <4> QED BY <1>1, <4>1, <4>2, <4>4 DEF Exists
      <3> QED BY <3>1, <3>2, <3>3
    <2> QED BY <2>1, <2>2 DEF Rows, Exists
  <1>6. OneAnchorPerIdentity'
    BY <1>1 DEF Chains, OneAnchorPerIdentity
  <1>7. Chain(a)'
    <2>1. /\ IsCurrent(new)' /\ ~IsCurrent(base)'
          /\ \A r \in RevisionsOf(a) : r # base => ~IsCurrent(r)'
      <3>1. IsCurrent(new)'
        BY <1>1, <1>0 DEF IsCurrent, Appended, Exists
      <3>2. ~IsCurrent(base)'
        BY <1>1, NoneAssumption, <1>0 DEF IsCurrent, Appended, Exists
      <3>3. ASSUME NEW r \in RevisionsOf(a), r # base PROVE ~IsCurrent(r)'
        <4>1. ~IsCurrent(r) /\ Exists(r) /\ r \in RevIds
          BY <1>1, <1>3, <1>4, <3>3 DEF Chain, OneCurrent, IsCurrent, RevisionsOf
        <4>2. revs'[r].next = revs[r].next
          BY <3>3, <4>1, <1>0 DEF Appended, Exists
        <4> QED BY <4>1, <4>2 DEF IsCurrent
      <3> QED BY <3>1, <3>2, <3>3
    <2>2. OneCurrent(a)'
      BY <1>4, <2>1 DEF OneCurrent
    <2>3. OneInitial(a)'
      <3>1. a # new
        BY <1>3, <1>4 DEF Chain
      <3>2. \A r \in RevisionsOf(a) : revs'[r].type = revs[r].type
        BY <1>0 DEF RevisionsOf, Appended, Exists
      <3>3. revs'[new].type # "INITIAL"
        BY <1>0 DEF Appended, Exists
      <3>4. \A r \in RevisionsOf(a) : revs[r].type = "INITIAL" <=> r = a
        BY <1>3 DEF Chain, OneInitial
      <3>5. \A r \in RevisionsOf(a)' : revs'[r].type = "INITIAL" <=> r = a
        BY <1>4, <3>1, <3>2, <3>3, <3>4
      <3> QED BY <1>4, <3>5 DEF OneInitial
    <2>4. Connected(a)'
      <3> SUFFICES ASSUME NEW S \in SUBSET (RevisionsOf(a) \cup {new}), S # {},
                          \A r \in RevisionsOf(a) \cup {new} : revs'[r].next \in S => r \in S
                   PROVE  a \in S
        BY <1>4 DEF Connected, ClosedUnderPredecessors
      <3> DEFINE T == S \ {new}
      <3>1. new \in S => base \in S
        BY <1>4, <1>0 DEF Appended, Exists
      <3>2. T # {} /\ T \in SUBSET RevisionsOf(a)
        BY <1>1, <3>1
      <3>3. ASSUME NEW r \in RevisionsOf(a), revs[r].next \in T PROVE r \in T
        <4>1. r # base
          <5>1. None \notin T
            BY <3>2, NoneAssumption DEF RevisionsOf
          <5> QED BY <1>1, <3>3, <5>1
        <4>2. revs'[r].next = revs[r].next
          BY <4>1, <1>0 DEF RevisionsOf, Appended, Exists
        <4> QED BY <1>4, <3>3, <4>2
      <3>4. a \in T
        <4> HIDE DEF T
        <4> QED BY <1>3, <3>2, <3>3 DEF Chain, Connected, ClosedUnderPredecessors
      <3> QED BY <3>4
    <2> QED BY <1>3, <1>4, <2>1, <2>2, <2>3, <2>4 DEF Chain
  <1>8. HistoryIsAChain'
    <2>1. ASSUME NEW b \in RevIds, b # a, anchors'[b] # None PROVE Chain(b)'
      <3>1. Chain(b) /\ RevisionsOf(b)' = RevisionsOf(b)
        BY <1>1, <1>4, <2>1, HistoryByAnchor DEF Chains
      <3>2. \A r \in RevisionsOf(b) : r # base /\ r # new
        BY <1>1, <2>1, <1>a DEF RevisionsOf
      <3>3. \A r \in RevisionsOf(b) : revs'[r] = revs[r]
        BY <1>1, <3>2 DEF Revised, RevisionsOf, TypedWork, TypeOK
      <3> QED BY <3>1, <3>3, SameRowsSameChain
    <2> QED BY <1>7, <2>1, HistoryByAnchor
  <1>9. Ownership'
    <2>1. \A t \in Sessions : \A b \in pending[t] : b # a /\ b \in RevIds
      BY <1>2 DEF Committed, TypedWork, TypeOK
    <2>2. ASSUME NEW t \in Sessions, NEW b \in pending[t]
          PROVE  anchors'[b] # None /\ RevisionsOf(b)' = {b} /\ revs'[b].next = None
      <3>1. anchors[b] # None /\ RevisionsOf(b) = {b} /\ revs[b].next = None
        BY DEF Chains, Ownership
      <3>2. b # base /\ Exists(b) /\ b \in RevIds
        <4>1. b \in RevisionsOf(b) /\ b # a
          BY <2>1, <3>1
        <4> QED BY <4>1, <1>a DEF RevisionsOf
      <3> QED BY <1>1, <1>4, <2>1, <3>1, <3>2, <1>0 DEF Appended, Exists
    <2> QED BY <1>1, <2>2 DEF Chains, Ownership
  <1> QED BY <1>5, <1>6, <1>8, <1>9 DEF Chains

-----------------------------------------------------------------------------
(* The steps, and the customer tasks.                                      *)

\* Steps that read, and write nothing but tasks of the running transaction.
QuietStep ==
    \/ \E p \in Humans, c \in Creations : StartCreate(p, c[1], c[2])
    \/ \E b \in Backfills : StartBackfill(b)
    \/ \E s \in Sessions : IdentityIncomplete(s) \/ Agrees(s) \/ Conflicts(s) \/ NotFound(s)

LEMMA StepCases ==
    ASSUME TypedWork, Next
    PROVE  \/ QuietStep
           \/ \E s \in Sessions, a \in RevIds : InsertAnchor(s) /\ Inserted(s, a)
           \/ \E s \in Sessions : Commit(s)
           \/ \E s \in Sessions : Fail(s)
           \/ \E op, base, as, new : Revised(op, base, as, new)
  <1>1. \A s \in Sessions : InsertAnchor(s) => \E a \in RevIds : Inserted(s, a)
    BY InsertIsInserted DEF Inserted
  <1>2. \A a, base \in RevIds, as \in Amendments :
            Supplement(a, base, as) \/ Correct(a, base, as)
                => \E op, b, d, new : Revised(op, b, d, new)
    BY ReviseIsRevised
  <1> QED BY <1>1, <1>2 DEF Next, Create, QuietStep

LEMMA QuietKeepsTypes ==
    ASSUME TypedWork, QuietStep PROVE TypedWork'
  BY StartCreateKeepsTypes, StartBackfillKeepsTypes, ReportKeepsTypes, NotFoundKeepsTypes
     DEF QuietStep

LEMMA QuietSteps ==
    ASSUME TypedWork, Chains, QuietStep
    PROVE  /\ UNCHANGED <<anchors, revs, tasks, evidence, pending>>
           /\ \A s \in Sessions : pc'[s] = "idle" => pending[s] = {} /\ pendingTasks'[s] = {}
           /\ \A s \in Sessions, a \in RevIds :
                CustomerUnknown(a) \in pendingTasks'[s] <=> CustomerUnknown(a) \in pendingTasks[s]
  <1>1. \A s \in Sessions : pc[s] = "idle" => pending[s] = {} /\ pendingTasks[s] = {}
    BY DEF Chains, Ownership
  <1>2. CASE \E p \in Humans, c \in Creations : StartCreate(p, c[1], c[2])
    BY <1>1, <1>2 DEF StartCreate, Begin, TypedWork, TypeOK, Sessions
  <1>3. CASE \E b \in Backfills : StartBackfill(b)
    BY <1>1, <1>3 DEF StartBackfill, Begin, TypedWork, TypeOK, Sessions
  <1>4. ASSUME NEW s \in Sessions, IdentityIncomplete(s) \/ Agrees(s) \/ Conflicts(s) \/ NotFound(s)
        PROVE  /\ UNCHANGED <<anchors, revs, tasks, evidence, pending>>
               /\ \A t \in Sessions : pc'[t] = "idle" => t # s /\ pc[t] = "idle"
               /\ \A t \in Sessions : t # s => pendingTasks'[t] = pendingTasks[t]
               /\ \A a \in RevIds : CustomerUnknown(a) \in pendingTasks'[s]
                                        <=> CustomerUnknown(a) \in pendingTasks[s]
    <2>1. UNCHANGED <<anchors, revs, tasks, evidence, pending>>
      BY <1>4 DEF IdentityIncomplete, Agrees, Conflicts, NotFound, NextEntry
    <2>2. \A t \in Sessions : pc'[t] = "idle" => t # s /\ pc[t] = "idle"
      BY <1>4 DEF IdentityIncomplete, Agrees, Conflicts, NotFound, NextEntry, TypedWork, TypeOK
    <2>3. \A t \in Sessions : t # s => pendingTasks'[t] = pendingTasks[t]
      BY <1>4 DEF IdentityIncomplete, Agrees, Conflicts, NotFound, NextEntry, TypedWork, TypeOK
    <2>4. ASSUME NEW a \in RevIds
          PROVE  /\ CustomerUnknown(a) \notin BackfillTask(s)
                 /\ CustomerUnknown(a) # Incomplete(Now(s).fragment)
                 /\ \A b : CustomerUnknown(a) \notin ConflictTask(b, Now(s).fragment)
      BY TasksDiffer DEF BackfillTask, ConflictTask
    <2>5. CASE IdentityIncomplete(s)
      BY <2>1, <2>2, <2>3, <2>4, <2>5 DEF IdentityIncomplete, TypedWork, TypeOK
    <2>6. CASE Agrees(s) \/ NotFound(s)
      BY <2>1, <2>2, <2>3, <2>6 DEF Agrees, NotFound
    <2>7. CASE Conflicts(s)
      BY <2>1, <2>2, <2>3, <2>4, <2>7 DEF Conflicts, TypedWork, TypeOK
    <2> QED BY <1>4, <2>5, <2>6, <2>7
  <1>5. CASE \E s \in Sessions : IdentityIncomplete(s) \/ Agrees(s) \/ Conflicts(s) \/ NotFound(s)
    BY <1>1, <1>4, <1>5
  <1> QED BY <1>2, <1>3, <1>5 DEF QuietStep

LEMMA QuietKeepsCustomers ==
    ASSUME TypedWork, Chains, Customers, QuietStep PROVE Customers'
  <1>1. /\ UNCHANGED <<anchors, revs, tasks, pending>>
        /\ \A s \in Sessions, a \in RevIds :
             CustomerUnknown(a) \in pendingTasks'[s] <=> CustomerUnknown(a) \in pendingTasks[s]
    BY QuietSteps
  <1>2. \A a : Committed(a)' <=> Committed(a)
    BY <1>1 DEF Committed
  <1>3. \A r \in RevIds : IsCurrent(r)' <=> IsCurrent(r)
    BY <1>1 DEF IsCurrent, Exists
  <1> QED BY <1>1, <1>2, <1>3 DEF Customers, Committed, IsCurrent, Exists

LEMMA InsertKeepsCustomers ==
    ASSUME TypedWork, Chains, Customers, NEW s \in Sessions, NEW a \in RevIds, Inserted(s, a)
    PROVE  Customers'
  <1>1. Rows
    BY DEF Chains
  <1>2. tasks' = tasks /\ ~Exists(a)
    BY DEF Inserted, NextEntry
  <1>3. ASSUME NEW b \in RevIds, CustomerUnknown(b) \in tasks' PROVE Committed(b)'
    BY <1>1, <1>2, <1>3, InsertedRows DEF Customers
  <1>4. ASSUME NEW r \in RevIds, IsCurrent(r)', revs'[r].anchor \in RevIds,
               anchors'[revs'[r].anchor] # None,
               \A t \in Sessions : revs'[r].anchor \notin pending'[t]
        PROVE  CustomerUnknown(revs'[r].anchor) \in tasks' <=> revs'[r].values[Customer] = None
    <2>1. r # a
      BY <1>1, <1>4, InsertedRows
    <2>2. IsCurrent(r) /\ revs'[r] = revs[r] /\ revs[r].anchor # a
      BY <1>1, <1>4, <2>1, InsertedRows DEF IsCurrent, Exists
    <2>3. Committed(revs[r].anchor)
      BY <1>1, <1>4, <2>2, InsertedRows DEF Committed
    <2> QED BY <1>2, <2>2, <2>3 DEF Customers
  <1>5. ASSUME NEW t \in Sessions, NEW b \in RevIds
        PROVE  CustomerUnknown(b) \in pendingTasks'[t]
                  <=> b \in pending'[t] /\ revs'[b].values[Customer] = None
    <2>1. \A u \in Sessions : a \notin pending[u]
      BY <1>1, InsertedRows DEF Chains, Ownership
    <2>2. CustomerUnknown(a) \notin pendingTasks[t]
      BY <2>1 DEF Customers
    <2>3. CASE t # s
      <3>1. pendingTasks'[t] = pendingTasks[t] /\ pending'[t] = pending[t]
        BY <1>1, <2>3, InsertedRows DEF Inserted, TypedWork, TypeOK
      <3>2. b \in pending[t] => b # a
        BY <2>1
      <3> QED BY <1>1, <3>1, <3>2, InsertedRows DEF Customers
    <2>4. CASE t = s
      <3>a. pendingTasks'[s] = IF Projection(Now(s).asserted)[Customer] = None
                               THEN pendingTasks[s] \cup {CustomerUnknown(a)}
                               ELSE pendingTasks[s]
        BY DEF Inserted, TypedWork, TypeOK
      <3>b. pending'[s] = pending[s] \cup {a}
        BY DEF Inserted, TypedWork, TypeOK
      <3>c. revs'[a].values = Projection(Now(s).asserted)
        BY <1>1, InsertedRows DEF Inserted, Revision, TypedWork, TypeOK
      <3>1. /\ pendingTasks'[s] = IF revs'[a].values[Customer] = None
                                  THEN pendingTasks[s] \cup {CustomerUnknown(a)}
                                  ELSE pendingTasks[s]
            /\ pending'[s] = pending[s] \cup {a}
        BY <3>a, <3>b, <3>c
      <3>2. CASE b = a
        BY <2>2, <2>4, <3>1, <3>2
      <3>3. CASE b # a
        <4>1. CustomerUnknown(b) # CustomerUnknown(a)
          BY <3>3, TasksDiffer
        <4>2. revs'[b] = revs[b]
          BY <1>1, <3>3, InsertedRows
        <4> QED BY <2>4, <3>1, <3>3, <4>1, <4>2 DEF Customers
      <3> QED BY <3>2, <3>3
    <2> QED BY <2>3, <2>4
  <1>6. \A r \in RevIds : IsCurrent(r)' => revs'[r].anchor \in RevIds
    BY InsertKeepsTypes, <1>1, InsertedRows DEF IsCurrent, Exists
  <1> QED BY <1>3, <1>4, <1>5, <1>6 DEF Customers, Committed

LEMMA CommitKeepsCustomers ==
    ASSUME TypedWork, Chains, Customers, NEW s \in Sessions, Commit(s)
    PROVE  Customers'
  <1>1. EndTransaction(s) /\ UNCHANGED <<anchors, revs>> /\ tasks' = tasks \cup pendingTasks[s]
    BY DEF Commit
  <1>2. /\ pending'[s] = {} /\ pendingTasks'[s] = {}
        /\ \A t \in Sessions : t # s => pending'[t] = pending[t] /\ pendingTasks'[t] = pendingTasks[t]
    BY <1>1, EndedSession DEF TypedWork
  <1>3. \A b \in RevIds : b \in pending[s] =>
            /\ anchors[b] # None /\ RevisionsOf(b) = {b}
            /\ \A t \in Sessions : t # s => b \notin pending[t]
    BY DEF Chains, Ownership
  <1>4. \A b \in RevIds : Committed(b)' <=> Committed(b) \/ b \in pending[s]
    BY <1>1, <1>2, <1>3 DEF Committed
  <1>5. \A b \in RevIds : CustomerUnknown(b) \in tasks' => Committed(b)'
    BY <1>1, <1>4 DEF Customers
  <1>6. ASSUME NEW r \in RevIds, IsCurrent(r), Committed(revs[r].anchor)'
        PROVE  CustomerUnknown(revs[r].anchor) \in tasks' <=> revs[r].values[Customer] = None
    <2>1. revs[r].anchor \in RevIds /\ r \in RevisionsOf(revs[r].anchor)
      BY <1>6 DEF IsCurrent, Exists, RevisionsOf, TypedWork, TypeOK, Revisions
    <2>2. CASE revs[r].anchor \in pending[s]
      <3>1. r = revs[r].anchor
        BY <1>3, <2>1, <2>2
      <3>2. CustomerUnknown(r) \notin tasks
        BY <2>2, <3>1 DEF Customers, Committed
      <3> QED BY <1>1, <2>2, <3>1, <3>2 DEF Customers
    <2>3. CASE revs[r].anchor \notin pending[s]
      BY <1>1, <1>4, <1>6, <2>1, <2>3 DEF Customers
    <2> QED BY <2>2, <2>3
  <1>7. \A t \in Sessions, b \in RevIds :
            CustomerUnknown(b) \in pendingTasks'[t]
                <=> b \in pending'[t] /\ revs'[b].values[Customer] = None
    BY <1>1, <1>2 DEF Customers
  <1>8. \A r \in RevIds : IsCurrent(r)' <=> IsCurrent(r)
    BY <1>1 DEF IsCurrent, Exists
  <1>9. \A r \in RevIds : IsCurrent(r)' /\ Committed(revs[r].anchor)' =>
            (CustomerUnknown(revs'[r].anchor) \in tasks' <=> revs'[r].values[Customer] = None)
    BY <1>1, <1>6, <1>8
  <1> QED BY <1>1, <1>5, <1>7, <1>9 DEF Customers, Committed

LEMMA FailKeepsCustomers ==
    ASSUME TypedWork, Chains, Customers, NEW s \in Sessions, Fail(s)
    PROVE  Customers'
  <1>1. EndTransaction(s) /\ tasks' = tasks
    BY DEF Fail
  <1>2. /\ pending'[s] = {} /\ pendingTasks'[s] = {}
        /\ \A t \in Sessions : t # s => pending'[t] = pending[t] /\ pendingTasks'[t] = pendingTasks[t]
    BY <1>1, EndedSession DEF TypedWork
  <1>3. ASSUME NEW b \in RevIds, CustomerUnknown(b) \in tasks' PROVE Committed(b)'
    <2>1. Committed(b) /\ b \notin pending[s]
      BY <1>1, <1>3 DEF Customers, Committed
    <2> QED BY <2>1, FailedRows
  <1>4. ASSUME NEW r \in RevIds, IsCurrent(r)', Committed(revs[r].anchor)'
        PROVE  CustomerUnknown(revs'[r].anchor) \in tasks' <=> revs'[r].values[Customer] = None
    <2>1. Exists(r)'
      BY <1>4 DEF IsCurrent
    <2>2. Exists(r) /\ r \notin pending[s]
      BY <2>1, FailedRows
    <2>3. /\ revs'[r] = revs[r] /\ revs[r].anchor \in RevIds /\ revs[r].anchor \notin pending[s]
      BY <2>2, FailedRows
    <2>4. IsCurrent(r)
      BY <1>4, <2>3, <2>2 DEF IsCurrent, Exists
    <2>5. Committed(revs[r].anchor)
      BY <1>4, <2>3, FailedRows DEF Committed
    <2> QED BY <1>1, <2>3, <2>4, <2>5 DEF Customers
  <1>5. ASSUME NEW t \in Sessions, NEW b \in RevIds
        PROVE  CustomerUnknown(b) \in pendingTasks'[t]
                  <=> b \in pending'[t] /\ revs'[b].values[Customer] = None
    <2>1. CASE t = s
      BY <1>2, <2>1
    <2>2. CASE t # s
      <3>1. b \in pending[t] => b \notin pending[s]
        BY <2>2 DEF Chains, Ownership
      <3>2. b \in pending[t] => revs'[b] = revs[b]
        BY <3>1, FailedRows
      <3> QED BY <1>2, <2>2, <3>2 DEF Customers
    <2> QED BY <2>1, <2>2
  <1> QED BY <1>3, <1>4, <1>5 DEF Customers, Committed

LEMMA ReviseKeepsCustomers ==
    ASSUME TypedWork, Chains, Customers,
           NEW op, NEW base, NEW as, NEW new, Revised(op, base, as, new)
    PROVE  Customers'
  <1>0. Appended(op, base, as, new)
    BY RevisedRows
  <1>1. /\ base \in RevIds /\ new \in RevIds /\ Exists(base) /\ IsCurrent(base) /\ ~Exists(new)
        /\ anchors' = anchors /\ pending' = pending /\ pendingTasks' = pendingTasks
    BY DEF Revised, IsCurrent
  <1>a. PICK a \in RevIds : a = revs[base].anchor
    BY <1>1 DEF Exists, TypedWork, TypeOK, Revisions
  <1>2. Committed(a) /\ (CustomerUnknown(a) \in tasks <=> revs[base].values[Customer] = None)
    BY <1>1, <1>a DEF Revised, Customers
  <1>3. \A b \in RevIds : Committed(b)' <=> Committed(b)
    BY <1>0 DEF Appended
  <1>4. tasks' = tasks \/ tasks' = tasks \ {CustomerUnknown(a)}
    BY <1>a DEF Revised, Amended, ResolvedBy
  <1>5. \A b \in RevIds : b # a =>
            (CustomerUnknown(b) \in tasks' <=> CustomerUnknown(b) \in tasks)
    BY <1>4, TasksDiffer
  <1>6. CustomerUnknown(a) \in tasks'
            <=> Merge(revs[base].values, as)[Customer] = None
    <2>1. Merge(revs[base].values, as)[Customer]
            = IF Customer \in DOMAIN as THEN as[Customer] ELSE revs[base].values[Customer]
      BY CustomerAssumption DEF Merge
    <2>2. Customer \in DOMAIN as => as[Customer] # None
      <3>1. PICK D \in SUBSET Fields : as \in [D -> Values]
        BY DEF Revised, Assertions
      <3> QED BY <3>1, NoneAssumption
    <2>3. CASE Customer \in DOMAIN as
      <3>1. op = "SUPPLEMENT" => CustomerUnknown(a) \notin tasks'
        BY <1>a, <2>3 DEF Revised, Amended, ResolvedBy
      <3>2. op = "CORRECTION" => CustomerUnknown(a) \notin tasks'
        BY <1>2, <2>3 DEF Revised, Amended, Correctable
      <3> QED BY <2>1, <2>2, <2>3, <3>1, <3>2 DEF Revised, Amended
    <2>4. CASE Customer \notin DOMAIN as
      BY <1>2, <2>1, <2>4 DEF Revised, Amended, ResolvedBy
    <2> QED BY <2>3, <2>4
  <1>7. ASSUME NEW b \in RevIds, CustomerUnknown(b) \in tasks' PROVE Committed(b)'
    BY <1>3, <1>4, <1>7 DEF Customers
  <1>8. ASSUME NEW r \in RevIds, revs'[r] # None, revs'[r].next = None,
               Committed(revs[r].anchor)'
        PROVE  CustomerUnknown(revs'[r].anchor) \in tasks' <=> revs'[r].values[Customer] = None
    <2>1. CASE r = new
      BY <1>0, <1>a, <1>6, <2>1 DEF Appended
    <2>2. CASE r # new
      <3>1. /\ Exists(r) /\ r # base /\ revs'[r].anchor = revs[r].anchor
            /\ revs'[r].values = revs[r].values /\ revs[r].next = None
        BY <1>0, <1>1, <1>8, <2>2, NoneAssumption DEF Appended, Exists
      <3>b. PICK b \in RevIds : b = revs[r].anchor
        BY <3>1 DEF Exists, TypedWork, TypeOK, Revisions
      <3>2. b # a
        <4>1. Chain(a)
          BY <1>2, HistoryByAnchor DEF Chains, Committed
        <4>2. base \in RevisionsOf(a) /\ (b = a => r \in RevisionsOf(a))
          BY <1>1, <1>a, <3>1, <3>b DEF RevisionsOf
        <4> QED BY <1>1, <3>1, <4>1, <4>2 DEF Chain, OneCurrent, IsCurrent
      <3>3. Committed(b)
        BY <1>3, <1>8, <3>1, <3>b DEF Committed
      <3>4. CustomerUnknown(b) \in tasks <=> revs[r].values[Customer] = None
        BY <3>1, <3>3, <3>b DEF Customers, IsCurrent
      <3> QED BY <1>5, <3>1, <3>2, <3>4, <3>b
    <2> QED BY <2>1, <2>2
  <1>9. ASSUME NEW t \in Sessions, NEW b \in RevIds
        PROVE  CustomerUnknown(b) \in pendingTasks'[t]
                  <=> b \in pending'[t] /\ revs'[b].values[Customer] = None
    <2>1. b \in pending[t] => Exists(b)
      BY DEF Chains, Ownership, Rows
    <2>2. b \in pending[t] => revs'[b].values = revs[b].values
      BY <1>0, <2>1 DEF Appended
    <2> QED BY <1>1, <2>2 DEF Customers
  <1> QED BY <1>7, <1>8, <1>9 DEF Customers, Committed, IsCurrent, Exists

-----------------------------------------------------------------------------
(* The inductive invariant of the rows and the customer tasks.             *)

Core == TypedWork /\ Chains /\ Customers

LEMMA InitIsCore == Init => Core
  <1> SUFFICES ASSUME Init PROVE Core
    OBVIOUS
  <1>1. TypedWork
    BY InitIsTyped
  <1>2. Chains
    BY DEF Init, Chains, Rows, Ownership, OneAnchorPerIdentity, HistoryIsAChain, Exists
  <1>3. Customers
    BY DEF Init, Customers, IsCurrent, Exists
  <1> QED BY <1>1, <1>2, <1>3 DEF Core

LEMMA NextKeepsCore == Core /\ [Next]_vars => Core'
  <1> SUFFICES ASSUME Core, [Next]_vars PROVE Core'
    OBVIOUS
  <1> USE DEF Core
  <1>1. CASE QuietStep
    <2>1. UNCHANGED <<anchors, revs, tasks, evidence, pending>>
          /\ \A s \in Sessions : pc'[s] = "idle" => pending[s] = {} /\ pendingTasks'[s] = {}
      BY <1>1, QuietSteps
    <2>2. Chains'
      BY <2>1, QuietKeepsChains
    <2> QED BY <1>1, <2>2, QuietKeepsTypes, QuietKeepsCustomers
  <1>2. ASSUME NEW s \in Sessions, NEW a \in RevIds, InsertAnchor(s), Inserted(s, a)
        PROVE  Core'
    BY <1>2, InsertKeepsTypes, InsertKeepsChains, InsertKeepsCustomers
  <1>3. ASSUME NEW s \in Sessions, Commit(s) PROVE Core'
    BY <1>3, EndingKeepsTypes, CommitKeepsChains, CommitKeepsCustomers
  <1>4. ASSUME NEW s \in Sessions, Fail(s) PROVE Core'
    BY <1>4, EndingKeepsTypes, FailKeepsChains, FailKeepsCustomers
  <1>5. ASSUME NEW op, NEW base, NEW as, NEW new, Revised(op, base, as, new) PROVE Core'
    BY <1>5, ReviseKeepsTypes, ReviseKeepsChains, ReviseKeepsCustomers
  <1>6. CASE UNCHANGED vars
    <2>1. TypedWork'
      BY <1>6 DEF vars, TypedWork, TypeOK, Working, Now
    <2>2. Chains'
      BY <1>6, QuietKeepsChains DEF vars, Chains, Ownership
    <2>3. \A r \in RevIds : IsCurrent(r)' <=> IsCurrent(r)
      BY <1>6 DEF vars, IsCurrent, Exists
    <2>4. Customers'
      BY <1>6, <2>3 DEF vars, Customers, Committed
    <2> QED BY <2>1, <2>2, <2>4
  <1> QED BY <1>1, <1>2, <1>3, <1>4, <1>5, <1>6, StepCases

\* Types, chains and customer tasks are kept together by every step.
THEOREM CoreInvariant == Spec => []Core
  BY InitIsCore, NextKeepsCore, PTL DEF Spec

\* Every step leaves every variable in its type: a current row is a complete
\* projection, and what a session works on is an entry.
THEOREM TypeCorrect == Spec => []TypeOK
  <1>1. Core => TypeOK
    BY DEF Core, TypedWork
  <1> QED BY <1>1, CoreInvariant, PTL

\* However many sessions race to create it, a business identity has one
\* anchor: find_by_identity has one answer.
THEOREM OneAnchor == Spec => []OneAnchorPerIdentity
  <1>1. Core => OneAnchorPerIdentity
    BY DEF Core, Chains
  <1> QED BY <1>1, CoreInvariant, PTL

\* The revisions of an anchor are one chain from the INITIAL to the current.
THEOREM HistoryChain == Spec => []HistoryIsAChain
  <1>1. Core => HistoryIsAChain
    BY DEF Core, Chains
  <1> QED BY <1>1, CoreInvariant, PTL

LEMMA CurrentIsCurrent ==
    ASSUME Core, NEW a \in RevIds, anchors[a] # None
    PROVE  Current(a) \in RevIds /\ IsCurrent(Current(a)) /\ revs[Current(a)].anchor = a
  <1>1. \E r \in RevisionsOf(a) : IsCurrent(r)
    BY DEF Core, Chains, HistoryIsAChain
  <1>2. Current(a) \in RevisionsOf(a) /\ IsCurrent(Current(a))
    BY <1>1 DEF Current
  <1> QED BY <1>2 DEF RevisionsOf

\* The open task about an unresolved customer tells the truth.
THEOREM CustomerTasks == Spec => []CustomerTaskTruthful
  <1>1. ASSUME Core PROVE CustomerTaskTruthful
    <2>1. ASSUME NEW a \in RevIds
          PROVE  CustomerUnknown(a) \in tasks
                    <=> Committed(a) /\ revs[Current(a)].values[Customer] = None
      <3>1. CASE Committed(a)
        BY <1>1, <3>1, CurrentIsCurrent DEF Core, Customers, Committed
      <3>2. CASE ~Committed(a)
        BY <1>1, <3>2 DEF Core, Customers
      <3> QED BY <3>1, <3>2
    <2> QED BY <2>1 DEF CustomerTaskTruthful
  <1> QED BY <1>1, CoreInvariant, PTL

-----------------------------------------------------------------------------
(* The store implements the abstract fact ledger.                          *)

Has(i, a) == a \in RevIds /\ Committed(a) /\ anchors[a] = i

\* Known, without CHOOSE.
KnownFacts ==
    \A i \in Identities :
        /\ (\A a : ~Has(i, a)) => Known[i] = None
        /\ \A a, r : Has(i, a) /\ r \in RevisionsOf(a) /\ IsCurrent(r) => Known[i] = revs[r].values

LEMMA CoreHasKnownFacts == Core => KnownFacts
  <1> SUFFICES ASSUME Core, NEW i \in Identities
               PROVE  /\ (\A a : ~Has(i, a)) => Known[i] = None
                      /\ \A a, r : Has(i, a) /\ r \in RevisionsOf(a) /\ IsCurrent(r)
                                       => Known[i] = revs[r].values
    BY DEF KnownFacts
  <1>1. CASE \A a : ~Has(i, a)
    BY <1>1 DEF Has, Known
  <1>2. ASSUME NEW a, NEW r, Has(i, a), r \in RevisionsOf(a), IsCurrent(r)
        PROVE  Known[i] = revs[r].values
    <2>1. a \in RevIds /\ Committed(a) /\ anchors[a] = i /\ anchors[a] # None
      BY <1>2 DEF Has, Committed
    <2>2. \A b \in RevIds : Committed(b) /\ anchors[b] = i => b = a
      BY <2>1 DEF Core, Chains, OneAnchorPerIdentity
    <2>3. (CHOOSE b \in RevIds : Committed(b) /\ anchors[b] = i) = a
      BY <2>1, <2>2
    <2>4. Current(a) = r
      <3>1. OneCurrent(a)
        BY <2>1 DEF Core, Chains, HistoryIsAChain
      <3>2. Current(a) \in RevisionsOf(a) /\ IsCurrent(Current(a))
        BY <2>1, CurrentIsCurrent DEF RevisionsOf, IsCurrent
      <3> QED BY <1>2, <3>1, <3>2 DEF OneCurrent
    <2>5. Known[i] = revs[Current(CHOOSE b \in RevIds : Committed(b) /\ anchors[b] = i)].values
      BY <2>1 DEF Known
    <2> QED BY <2>3, <2>4, <2>5
  <1> QED BY <1>1, <1>2

\* A step that keeps the committed anchors of i and their current revisions.
LEMMA SameKnown ==
    ASSUME Core, KnownFacts, KnownFacts', NEW i \in Identities,
           \A a : Has(i, a)' <=> Has(i, a),
           \A a, r : Has(i, a) /\ r \in RevisionsOf(a) /\ IsCurrent(r) =>
              r \in RevisionsOf(a)' /\ IsCurrent(r)' /\ revs'[r].values = revs[r].values
    PROVE  Known'[i] = Known[i]
  <1>1. CASE \A a : ~Has(i, a)
    BY <1>1 DEF KnownFacts
  <1>2. ASSUME NEW a, Has(i, a) PROVE Known'[i] = Known[i]
    <2>1. PICK r : r \in RevisionsOf(a) /\ IsCurrent(r)
      BY <1>2 DEF Has, Committed, Core, Chains, HistoryIsAChain
    <2>2. Known[i] = revs[r].values
      BY <1>2, <2>1 DEF KnownFacts
    <2>3. Has(i, a)' /\ r \in RevisionsOf(a)' /\ IsCurrent(r)' /\ revs'[r].values = revs[r].values
      BY <1>2, <2>1
    <2>4. Known'[i] = revs'[r].values
      BY <2>3 DEF KnownFacts
    <2> QED BY <2>2, <2>3, <2>4
  <1> QED BY <1>1, <1>2

LEMMA QuietKnows ==
    ASSUME Core, KnownFacts, KnownFacts', UNCHANGED <<anchors, revs, pending>>,
           NEW i \in Identities
    PROVE  Known'[i] = Known[i]
  <1>1. \A a : Has(i, a)' <=> Has(i, a)
    BY DEF Has, Committed
  <1>2. \A a, r : r \in RevisionsOf(a) /\ IsCurrent(r) => r \in RevisionsOf(a)' /\ IsCurrent(r)'
    BY DEF RevisionsOf, IsCurrent, Exists
  <1> QED BY <1>1, <1>2, SameKnown

LEMMA InsertKnows ==
    ASSUME Core, KnownFacts, KnownFacts', NEW s \in Sessions, NEW a \in RevIds, Inserted(s, a),
           NEW i \in Identities
    PROVE  Known'[i] = Known[i]
  <1>1. Rows /\ TypedWork
    BY DEF Core, Chains
  <1>2. ~Committed(a)
    BY <1>1, InsertedRows DEF Committed
  <1>3. ASSUME NEW b PROVE Has(i, b)' <=> Has(i, b)
    <2>1. CASE b = a
      BY <1>1, <1>2, <2>1, InsertedRows DEF Has
    <2>2. CASE b # a
      BY <1>1, <2>2, InsertedRows DEF Has
    <2> QED BY <2>1, <2>2
  <1>4. ASSUME NEW b, NEW r, Has(i, b), r \in RevisionsOf(b), IsCurrent(r)
        PROVE  r \in RevisionsOf(b)' /\ IsCurrent(r)' /\ revs'[r].values = revs[r].values
    <2>1. r \in RevIds /\ r # a /\ Exists(r)
      BY <1>4 DEF RevisionsOf, IsCurrent, Inserted
    <2>2. revs'[r] = revs[r]
      BY <1>1, <2>1, InsertedRows
    <2> QED BY <1>4, <2>2 DEF RevisionsOf, IsCurrent, Exists
  <1> QED BY <1>3, <1>4, SameKnown

LEMMA FailKnows ==
    ASSUME Core, KnownFacts, KnownFacts', NEW s \in Sessions, Fail(s), NEW i \in Identities
    PROVE  Known'[i] = Known[i]
  <1> USE DEF Core
  <1>1. ASSUME NEW b PROVE Has(i, b)' <=> Has(i, b)
    <2>1. CASE b \in RevIds /\ b \in pending[s]
      <3>1. ~Committed(b) /\ anchors'[b] = None
        BY <2>1, FailedRows DEF Committed
      <3> QED BY <3>1 DEF Has, Committed
    <2>2. CASE b \in RevIds /\ b \notin pending[s]
      BY <2>2, FailedRows DEF Has
    <2>3. CASE b \notin RevIds
      BY <2>3 DEF Has
    <2> QED BY <2>1, <2>2, <2>3
  <1>2. ASSUME NEW b, NEW r, Has(i, b), r \in RevisionsOf(b), IsCurrent(r)
        PROVE  r \in RevisionsOf(b)' /\ IsCurrent(r)' /\ revs'[r].values = revs[r].values
    <2>1. b \in RevIds /\ b \notin pending[s]
      BY <1>2 DEF Has, Committed
    <2>2. r \in RevisionsOf(b)'
      BY <1>2, <2>1, FailedRows
    <2>3. r \in RevIds /\ revs'[r] # None
      BY <2>2 DEF RevisionsOf, Exists
    <2>4. revs'[r] = revs[r]
      BY <2>3, FailedRows
    <2> QED BY <1>2, <2>2, <2>4 DEF IsCurrent, Exists
  <1> QED BY <1>1, <1>2, SameKnown

\* A commit makes the session's anchors known, and changes no other.
LEMMA CommitKnows ==
    ASSUME Core, KnownFacts, KnownFacts', NEW s \in Sessions, Commit(s), NEW i \in Identities
    PROVE  \/ Known'[i] = Known[i]
           \/ Known[i] = None /\ Known'[i] \in [Fields -> Values \cup {None}]
  <1> USE DEF Core
  <1>1. EndTransaction(s) /\ UNCHANGED <<anchors, revs>>
    BY DEF Commit
  <1>2. \A b \in RevIds : Committed(b)' <=> Committed(b) \/ b \in pending[s]
    <2>1. pending'[s] = {} /\ \A t \in Sessions : t # s => pending'[t] = pending[t]
      BY <1>1, EndedSession DEF TypedWork
    <2>2. \A b \in pending[s] : anchors[b] # None /\ \A t \in Sessions : t # s => b \notin pending[t]
      BY DEF Chains, Ownership
    <2> QED BY <1>1, <2>1, <2>2 DEF Committed
  <1>3. \A a, r : r \in RevisionsOf(a) /\ IsCurrent(r) => r \in RevisionsOf(a)' /\ IsCurrent(r)'
    BY <1>1 DEF RevisionsOf, IsCurrent, Exists
  <1>4. CASE \A b \in pending[s] : anchors[b] # i
    <2>1. \A b : Has(i, b)' <=> Has(i, b)
      BY <1>1, <1>2, <1>4 DEF Has
    <2> QED BY <1>1, <1>3, <2>1, SameKnown
  <1>5. ASSUME NEW b \in pending[s], anchors[b] = i
        PROVE  Known[i] = None /\ Known'[i] \in [Fields -> Values \cup {None}]
    <2>1. b \in RevIds /\ anchors[b] # None /\ RevisionsOf(b) = {b} /\ revs[b].next = None
      BY DEF Chains, Ownership, TypedWork, TypeOK
    <2>2. \A a : ~Has(i, a)
      BY <1>5, <2>1 DEF Has, Committed, Chains, OneAnchorPerIdentity
    <2>3. Has(i, b)'
      BY <1>1, <1>2, <1>5, <2>1 DEF Has
    <2>4. b \in RevisionsOf(b) /\ IsCurrent(b)
      BY <2>1 DEF RevisionsOf, IsCurrent
    <2>5. Known'[i] = revs'[b].values
      BY <1>3, <2>3, <2>4 DEF KnownFacts
    <2>6. revs[b].values \in [Fields -> Values \cup {None}]
      BY <2>1, <2>4 DEF IsCurrent, Exists, TypedWork, TypeOK, Revisions
    <2> QED BY <1>1, <2>2, <2>5, <2>6 DEF KnownFacts
  <1> QED BY <1>4, <1>5

\* A merge keeps the known fields of a supplement's base, and the knownness
\* of those of a correction's.
LEMMA MergeKnows ==
    ASSUME NEW v \in [Fields -> Values \cup {None}], NEW as \in Assertions
    PROVE  /\ Supplementable(v, as) =>
                \A f \in Fields : v[f] # None => Merge(v, as)[f] = v[f]
           /\ Correctable(v, as) =>
                \A f \in Fields : v[f] # None <=> Merge(v, as)[f] # None
  <1>1. PICK D \in SUBSET Fields : as \in [D -> Values]
    BY DEF Assertions
  <1>2. \A f \in DOMAIN as : as[f] # None
    BY <1>1, NoneAssumption
  <1>3. \A f \in Fields : Merge(v, as)[f] = IF f \in DOMAIN as THEN as[f] ELSE v[f]
    BY DEF Merge
  <1> QED BY <1>2, <1>3 DEF Supplementable, Correctable

LEMMA ReviseKnows ==
    ASSUME Core, KnownFacts, KnownFacts',
           NEW op, NEW base, NEW as, NEW new, Revised(op, base, as, new), NEW i \in Identities
    PROVE  \/ Known'[i] = Known[i]
           \/ /\ Known[i] = revs[base].values /\ Known[i] # None
              /\ Known'[i] = Merge(revs[base].values, as)
  <1> USE DEF Core
  <1>0. Appended(op, base, as, new)
    BY RevisedRows
  <1>1. /\ base \in RevIds /\ new \in RevIds /\ Exists(base) /\ IsCurrent(base) /\ ~Exists(new)
        /\ anchors' = anchors
    BY DEF Revised, IsCurrent
  <1>a. PICK a \in RevIds : a = revs[base].anchor
    BY <1>1 DEF Exists, TypedWork, TypeOK, Revisions
  <1>2. Committed(a) /\ anchors[a] # None /\ base \in RevisionsOf(a)
    BY <1>1, <1>a DEF Revised, Committed, RevisionsOf
  <1>3. \A b : Has(i, b)' <=> Has(i, b)
    BY <1>0, <1>1 DEF Appended, Has
  <1>4. CASE anchors[a] # i
    <2>1. ASSUME NEW b, NEW r, Has(i, b), r \in RevisionsOf(b), IsCurrent(r)
          PROVE  r \in RevisionsOf(b)' /\ IsCurrent(r)' /\ revs'[r].values = revs[r].values
      <3>1. r \in RevIds /\ Exists(r) /\ r # base /\ revs[r].anchor = b /\ revs[r].next = None
        BY <1>4, <1>a, <2>1 DEF RevisionsOf, IsCurrent, Has
      <3>2. /\ revs'[r] # None /\ revs'[r].anchor = b /\ revs'[r].values = revs[r].values
            /\ revs'[r].next = None
        BY <1>0, <3>1 DEF Appended
      <3> QED BY <3>1, <3>2 DEF RevisionsOf, IsCurrent, Exists
    <2> QED BY <1>3, <2>1, SameKnown
  <1>5. CASE anchors[a] = i
    <2>1. Has(i, a) /\ Has(i, a)'
      BY <1>2, <1>3, <1>5 DEF Has
    <2>2. Known[i] = revs[base].values
      BY <1>1, <1>2, <2>1 DEF KnownFacts
    <2>3. new \in RevisionsOf(a)' /\ IsCurrent(new)'
      <3>1. revs'[new] # None /\ revs'[new].anchor = a /\ revs'[new].next = None
        BY <1>0, <1>1, <1>a DEF Appended
      <3> QED BY <1>1, <3>1 DEF RevisionsOf, IsCurrent, Exists
    <2>4. Known'[i] = revs'[new].values
      BY <2>1, <2>3 DEF KnownFacts
    <2>5. Known[i] # None
      <3>1. revs[base].values \in [Fields -> Values \cup {None}]
        BY <1>1 DEF Exists, TypedWork, TypeOK, Revisions
      <3> QED BY <2>2, <3>1, NullRowAssumption
    <2> QED BY <1>0, <2>2, <2>4, <2>5 DEF Appended
  <1> QED BY <1>4, <1>5

\* The store implements the abstract ledger of facts: the initial store knows
\* nothing, and a step asserts, supplements, corrects or leaves alone what is
\* known about each identity.
THEOREM ImplementsLedger == Spec => LedgerSpec
  <1>1. Init => Ledger!Init
    BY DEF Init, Ledger!Init, Known, Committed
  <1>2. ASSUME Core, Core', KnownFacts, KnownFacts', [Next]_vars
        PROVE  [Ledger!Next]_Known
    <2> SUFFICES ASSUME NEW i \in Identities
                 PROVE  \/ Ledger!Unchanged(i) \/ Ledger!FirstAsserted(i)
                        \/ Ledger!Supplemented(i) \/ Ledger!Corrected(i)
      BY DEF Ledger!Next
    <2>1. CASE UNCHANGED vars
      BY <1>2, <2>1, QuietKnows DEF vars, Ledger!Unchanged
    <2>2. CASE QuietStep
      <3>1. UNCHANGED <<anchors, revs, pending>>
        BY <1>2, <2>2, QuietSteps DEF Core
      <3> QED BY <1>2, <3>1, QuietKnows DEF Ledger!Unchanged
    <2>3. ASSUME NEW s \in Sessions, NEW a \in RevIds, Inserted(s, a)
          PROVE  Ledger!Unchanged(i)
      BY <1>2, <2>3, InsertKnows DEF Ledger!Unchanged
    <2>4. ASSUME NEW s \in Sessions, Commit(s)
          PROVE  Ledger!Unchanged(i) \/ Ledger!FirstAsserted(i)
      BY <1>2, <2>4, CommitKnows DEF Ledger!Unchanged, Ledger!FirstAsserted, Ledger!Projections
    <2>5. ASSUME NEW s \in Sessions, Fail(s)
          PROVE  Ledger!Unchanged(i)
      BY <1>2, <2>5, FailKnows DEF Ledger!Unchanged
    <2>6. ASSUME NEW op, NEW base, NEW as, NEW new, Revised(op, base, as, new)
          PROVE  Ledger!Unchanged(i) \/ Ledger!Supplemented(i) \/ Ledger!Corrected(i)
      <3>1. CASE Known'[i] = Known[i]
        BY <3>1 DEF Ledger!Unchanged
      <3>2. CASE /\ Known[i] = revs[base].values /\ Known[i] # None
                 /\ Known'[i] = Merge(revs[base].values, as)
        <4>1. /\ revs[base].values \in [Fields -> Values \cup {None}] /\ as \in Assertions
              /\ \/ Supplementable(revs[base].values, as) \/ Correctable(revs[base].values, as)
          BY <1>2, <2>6 DEF Revised, Amended, IsCurrent, Exists, Core, TypedWork, TypeOK, Revisions
        <4>2. Merge(revs[base].values, as) \in [Fields -> Values \cup {None}]
          BY <4>1, MergeIsTyped
        <4>3. PICK v, w : v = revs[base].values /\ w = Merge(revs[base].values, as)
          OBVIOUS
        <4>4. Known[i] = v /\ Known[i] # None /\ Known'[i] = w /\ w \in Ledger!Projections
          BY <3>2, <4>2, <4>3 DEF Ledger!Projections
        <4>5. \/ \A f \in Fields : v[f] # None => w[f] = v[f]
              \/ \A f \in Fields : v[f] # None <=> w[f] # None
          BY <4>1, <4>3, MergeKnows
        <4>6. (\A f \in Fields : v[f] # None => w[f] = v[f]) => Ledger!Supplemented(i)
          BY <4>4 DEF Ledger!Supplemented, Ledger!KnownFields
        <4>7. (\A f \in Fields : v[f] # None <=> w[f] # None) => Ledger!Corrected(i)
          BY <4>4 DEF Ledger!Corrected, Ledger!KnownFields
        <4> QED BY <4>5, <4>6, <4>7
      <3> QED BY <1>2, <2>6, <3>1, <3>2, ReviseKnows
    <2>7. Next \/ UNCHANGED vars
      BY <1>2
    <2>8. CASE Next
      BY <1>2, <2>2, <2>3, <2>4, <2>5, <2>6, <2>8, StepCases DEF Core
    <2> QED BY <2>1, <2>7, <2>8
  <1>3. Core /\ Core' /\ KnownFacts /\ KnownFacts' /\ [Next]_vars => [Ledger!Next]_Known
    BY <1>2
  <1>4. Spec => Ledger!Spec
    BY <1>1, <1>3, CoreInvariant, CoreHasKnownFacts, PTL DEF Spec, Ledger!Spec
  <1> QED BY <1>4 DEF LedgerSpec

-----------------------------------------------------------------------------
(* Evidence and conflict tasks: no committed Evidence of a creation is     *)
(* dropped, and a conflict task names Evidence that disagrees.  The        *)
(* invariant, entry by entry and task by task.                             *)

Accounted(e) ==
    IF e.identity = None THEN Incomplete(e.fragment) \in tasks
    ELSE \E a \in RevIds : /\ Committed(a) /\ anchors[a] = e.identity
                           /\ Corroborated(e, a) \/ Reported(e, a)

Justified(t) ==
    /\ Committed(t.anchor) /\ revs[t.anchor].fragment # t.key
    /\ \E e \in evidence : Disagrees(e, t)

JustifiedFor(s, t) ==
    /\ Sees(s, t.anchor) /\ revs[t.anchor].fragment # t.key
    /\ \E j \in 1..Len(work[s]) : Disagrees(work[s][j], t)

\* What a running transaction owes.
SessionAccounts(s) ==
    /\ \A j \in 1..Len(work[s]) : j < row[s] => Told(s, work[s][j])
    /\ \A t \in pendingTasks[s] : IsKeyConflict(t) => JustifiedFor(s, t)

LEMMA AccountsBySession ==
    Accounts <=> /\ FragmentsSay
                 /\ \A e \in evidence : Accounted(e)
                 /\ \A t \in tasks : IsKeyConflict(t) => Justified(t)
                 /\ \A s \in Sessions : SessionAccounts(s)
  BY DEF Accounts, EvidenceAccountedFor, Accounted, ConflictTasksJustified, Justified,
         Processed, PendingConflictsJustified, SessionAccounts, JustifiedFor

LEMMA AccountsNext ==
    ASSUME FragmentsSay', \A e \in evidence' : Accounted(e)',
           \A t \in tasks' : IsKeyConflict(t) => Justified(t)',
           \A s \in Sessions : SessionAccounts(s)'
    PROVE  Accounts'
  BY DEF Accounts, EvidenceAccountedFor, Accounted, ConflictTasksJustified, Justified,
         Processed, PendingConflictsJustified, SessionAccounts, JustifiedFor

\* Conflict tasks are about anchors.
LEMMA ConflictsNameAnchors ==
    ASSUME NEW t \in Tasks, IsKeyConflict(t) PROVE t.anchor \in RevIds
  BY DEF Tasks, IsKeyConflict, Incomplete, CustomerUnknown, KeyConflict, BackfillConflict

-----------------------------------------------------------------------------
(* What a step leaves alone.                                               *)

\* Anchor a keeps what its creation said of it.
Kept(a) ==
    /\ anchors'[a] = anchors[a] /\ revs'[a].fragment = revs[a].fragment
    /\ AssertedBy(a)' = AssertedBy(a)
KeptCommitted == \A a \in RevIds : Committed(a) => Kept(a) /\ Committed(a)'
KeptSeen(s)   == \A a \in RevIds : Sees(s, a) => Kept(a) /\ Sees(s, a)'
\* No task is resolved but one about a customer.
TasksKept == \A t \in tasks : (\A a \in RevIds : t # CustomerUnknown(a)) => t \in tasks'

LEMMA RowKept ==
    ASSUME NEW a, anchors'[a] = anchors[a], revs'[a].fragment = revs[a].fragment,
           revs'[a].values = revs[a].values, revs'[a].names = revs[a].names
    PROVE  Kept(a)
  BY DEF Kept, AssertedBy

LEMMA AccountedStays ==
    ASSUME NEW e, Accounted(e), KeptCommitted, TasksKept
    PROVE  Accounted(e)'
  <1>1. /\ \A f : Incomplete(f) \in tasks => Incomplete(f) \in tasks'
        /\ \A a, f : KeyConflict(a, f) \in tasks => KeyConflict(a, f) \in tasks'
        /\ \A i : BackfillConflict(i) \in tasks => BackfillConflict(i) \in tasks'
    BY TasksDiffer DEF TasksKept
  <1>2. CASE e.identity = None
    BY <1>1, <1>2 DEF Accounted
  <1>3. CASE e.identity # None
    <2>1. PICK a \in RevIds : /\ Committed(a) /\ anchors[a] = e.identity
                              /\ Corroborated(e, a) \/ Reported(e, a)
      BY <1>3 DEF Accounted
    <2>2. Kept(a) /\ Committed(a)'
      BY <2>1 DEF KeptCommitted
    <2>3. Corroborated(e, a)' \/ Reported(e, a)'
      BY <1>1, <2>1, <2>2 DEF Kept, Corroborated, Reported
    <2> QED BY <1>3, <2>1, <2>2, <2>3 DEF Kept, Accounted
  <1> QED BY <1>2, <1>3

LEMMA JustifiedStays ==
    ASSUME NEW t, t.anchor \in RevIds, Justified(t), KeptCommitted, evidence \subseteq evidence'
    PROVE  Justified(t)'
  <1>1. Kept(t.anchor) /\ Committed(t.anchor)'
    BY DEF Justified, KeptCommitted
  <1>2. PICK e \in evidence : Disagrees(e, t)
    BY DEF Justified
  <1>3. Disagrees(e, t)'
    BY <1>1, <1>2 DEF Disagrees, Kept
  <1> QED BY <1>1, <1>2, <1>3 DEF Justified, Kept

LEMMA ToldStays ==
    ASSUME NEW s, NEW e, Told(s, e), KeptSeen(s), pendingTasks[s] \subseteq pendingTasks'[s]
    PROVE  Told(s, e)'
  <1>1. CASE e.identity = None
    BY <1>1 DEF Told
  <1>2. CASE e.identity # None
    <2>1. PICK a \in RevIds :
            /\ Sees(s, a) /\ anchors[a] = e.identity
            /\ \/ Corroborated(e, a)
               \/ KeyConflict(a, e.fragment) \in pendingTasks[s]
               \/ /\ BackfillConflict(e.identity) \in pendingTasks[s]
                  /\ e.fragment = revs[a].fragment
      BY <1>2 DEF Told
    <2>2. Kept(a) /\ Sees(s, a)'
      BY <2>1 DEF KeptSeen
    <2>3. \/ Corroborated(e, a)'
          \/ KeyConflict(a, e.fragment) \in pendingTasks'[s]
          \/ /\ BackfillConflict(e.identity) \in pendingTasks'[s]
             /\ e.fragment = revs'[a].fragment
      BY <2>1, <2>2 DEF Kept, Corroborated
    <2> QED BY <1>2, <2>1, <2>2, <2>3 DEF Kept, Told
  <1> QED BY <1>1, <1>2

LEMMA JustifiedForStays ==
    ASSUME NEW s, NEW t, t.anchor \in RevIds, JustifiedFor(s, t), KeptSeen(s), work'[s] = work[s]
    PROVE  JustifiedFor(s, t)'
  <1>1. Kept(t.anchor) /\ Sees(s, t.anchor)'
    BY DEF JustifiedFor, KeptSeen
  <1>2. PICK j \in 1..Len(work[s]) : Disagrees(work[s][j], t)
    BY DEF JustifiedFor
  <1>3. Disagrees(work[s][j], t)'
    BY <1>1, <1>2 DEF Disagrees, Kept
  <1> QED BY <1>1, <1>2, <1>3 DEF JustifiedFor, Kept

\* A session the step does not concern.
LEMMA BystanderAccounts ==
    ASSUME TypeOK, NEW s \in Sessions, SessionAccounts(s), KeptSeen(s), work'[s] = work[s],
           row'[s] = row[s], pendingTasks'[s] = pendingTasks[s]
    PROVE  SessionAccounts(s)'
  <1>1. ASSUME NEW j \in 1..Len(work'[s]), j < row'[s]
        PROVE  Told(s, work[s][j])'
    <2>1. PICK e : e = work[s][j]
      OBVIOUS
    <2>2. Told(s, e)
      BY <1>1, <2>1 DEF SessionAccounts
    <2>3. Told(s, e)'
      BY <2>2, ToldStays
    <2> QED BY <2>1, <2>3
  <1>2. ASSUME NEW t \in pendingTasks'[s], IsKeyConflict(t)
        PROVE  JustifiedFor(s, t)'
    <2>1. t \in Tasks /\ JustifiedFor(s, t)
      BY <1>2 DEF SessionAccounts, TypeOK
    <2> QED BY <1>2, <2>1, ConflictsNameAnchors, JustifiedForStays
  <1> QED BY <1>1, <1>2 DEF SessionAccounts

\* A session that gets to its next entry e, having accounted for it.
LEMMA AdvancingAccounts ==
    ASSUME TypeOK, NEW s \in Sessions, SessionAccounts(s), KeptSeen(s), work'[s] = work[s],
           row'[s] = row[s] + 1, pendingTasks[s] \subseteq pendingTasks'[s],
           NEW e, e = Now(s), Told(s, e)',
           \A t \in pendingTasks'[s] : IsKeyConflict(t) => t \in pendingTasks[s] \/ JustifiedFor(s, t)'
    PROVE  SessionAccounts(s)'
  <1>1. ASSUME NEW j \in 1..Len(work'[s]), j < row'[s]
        PROVE  Told(s, work[s][j])'
    <2>1. PICK d : d = work[s][j]
      OBVIOUS
    <2>2. j < row[s] \/ j = row[s]
      BY <1>1 DEF TypeOK
    <2>3. CASE j < row[s]
      <3>1. Told(s, d)
        BY <1>1, <2>1, <2>3 DEF SessionAccounts
      <3>2. Told(s, d)'
        BY <3>1, ToldStays
      <3> QED BY <2>1, <3>2
    <2>4. CASE j = row[s]
      BY <2>1, <2>4 DEF Now
    <2> QED BY <2>2, <2>3, <2>4
  <1>2. ASSUME NEW t \in pendingTasks'[s], IsKeyConflict(t)
        PROVE  JustifiedFor(s, t)'
    <2>1. CASE t \in pendingTasks[s]
      <3>1. t \in Tasks /\ JustifiedFor(s, t)
        BY <1>2, <2>1 DEF SessionAccounts, TypeOK
      <3> QED BY <1>2, <3>1, ConflictsNameAnchors, JustifiedForStays
    <2> QED BY <1>2, <2>1
  <1> QED BY <1>1, <1>2 DEF SessionAccounts

-----------------------------------------------------------------------------
(* Steps that write tasks of the running transaction, and nothing else.    *)

Same == UNCHANGED <<anchors, revs, tasks, evidence, pending>>

LEMMA SameKeeps ==
    ASSUME Same
    PROVE  KeptCommitted /\ TasksKept /\ \A s \in Sessions : KeptSeen(s)
  <1>1. \A a : Kept(a)
    BY RowKept DEF Same
  <1>2. \A a : (Committed(a) => Committed(a)') /\ \A s : Sees(s, a) => Sees(s, a)'
    BY DEF Same, Committed, Sees
  <1> QED BY <1>1, <1>2 DEF Same, KeptCommitted, TasksKept, KeptSeen

LEMMA SameAccounts ==
    ASSUME Accounts, TypeOK, Same, \A s \in Sessions : SessionAccounts(s)'
    PROVE  Accounts'
  <1>1. FragmentsSay'
    BY AccountsBySession DEF FragmentsSay, Same, AssertedBy
  <1>2. \A e \in evidence : Accounted(e)'
    BY AccountsBySession, SameKeeps, AccountedStays
  <1>3. \A t \in tasks : IsKeyConflict(t) => Justified(t)'
    BY AccountsBySession, SameKeeps, JustifiedStays, ConflictsNameAnchors DEF TypeOK, Same
  <1> QED BY <1>1, <1>2, <1>3, AccountsNext DEF Same

\* A transaction begins with nothing to account for.
LEMMA BeginAccounts ==
    ASSUME TypedWork, Chains, Accounts, NEW s \in Sessions, pc[s] = "idle", NEW entries,
           Begin(s, entries)
    PROVE  Accounts'
  <1>1. Same /\ pendingTasks' = pendingTasks
    BY DEF Begin, Same
  <1>2. pendingTasks[s] = {} /\ row'[s] = 1
    BY DEF Chains, Ownership, Begin, TypedWork, TypeOK
  <1>3. SessionAccounts(s)'
    BY <1>1, <1>2 DEF SessionAccounts
  <1>4. ASSUME NEW t \in Sessions, t # s PROVE SessionAccounts(t)'
    <2>1. work'[t] = work[t] /\ row'[t] = row[t]
      BY <1>4 DEF Begin, TypedWork, TypeOK
    <2> QED BY <1>1, <2>1, SameKeeps, BystanderAccounts, AccountsBySession DEF TypedWork
  <1> QED BY <1>1, <1>3, <1>4, SameAccounts DEF TypedWork

\* NotFound only moves to the insert.
LEMMA NotFoundAccounts ==
    ASSUME TypedWork, Accounts, NEW s \in Sessions, NotFound(s)
    PROVE  Accounts'
  <1>1. Same /\ UNCHANGED <<work, row, pendingTasks>>
    BY DEF NotFound, Same
  <1>2. \A t \in Sessions : SessionAccounts(t)'
    BY <1>1, SameKeeps, BystanderAccounts, AccountsBySession DEF TypedWork
  <1> QED BY <1>1, <1>2, SameAccounts DEF TypedWork

\* An entry that writes no anchor, but tells what became of it.
LEMMA ReportAccounts ==
    ASSUME TypedWork, Accounts, NEW s \in Sessions, NextEntry(s),
           UNCHANGED <<anchors, revs, pending>>,
           pendingTasks[s] \subseteq pendingTasks'[s],
           \A t \in Sessions : t # s => pendingTasks'[t] = pendingTasks[t],
           NEW e, e = Now(s), Told(s, e)',
           \A t \in pendingTasks'[s] : IsKeyConflict(t) => t \in pendingTasks[s] \/ JustifiedFor(s, t)'
    PROVE  Accounts'
  <1>1. Same /\ work' = work /\ row'[s] = row[s] + 1
    BY DEF NextEntry, Same, TypedWork, TypeOK
  <1>2. SessionAccounts(s)'
    BY <1>1, SameKeeps, AdvancingAccounts, AccountsBySession DEF TypedWork
  <1>3. ASSUME NEW t \in Sessions, t # s PROVE SessionAccounts(t)'
    <2>1. row'[t] = row[t]
      BY <1>3 DEF NextEntry, TypedWork, TypeOK
    <2> QED BY <1>1, <1>3, <2>1, SameKeeps, BystanderAccounts, AccountsBySession DEF TypedWork
  <1> QED BY <1>1, <1>2, <1>3, SameAccounts DEF TypedWork

LEMMA IncompleteAccounts ==
    ASSUME TypedWork, Accounts, NEW s \in Sessions, IdentityIncomplete(s)
    PROVE  Accounts'
  <1>1. PICK e : e = Now(s)
    OBVIOUS
  <1>2. /\ NextEntry(s) /\ UNCHANGED <<anchors, revs, pending>> /\ e.identity = None
        /\ pendingTasks'[s] = pendingTasks[s] \cup {Incomplete(e.fragment)} \cup BackfillTask(s)
        /\ \A t \in Sessions : t # s => pendingTasks'[t] = pendingTasks[t]
    BY <1>1 DEF IdentityIncomplete, TypedWork, TypeOK
  <1>3. Told(s, e)'
    BY <1>2 DEF Told
  <1>4. \A t \in pendingTasks'[s] : IsKeyConflict(t) => t \in pendingTasks[s]
    BY <1>2, TasksDiffer DEF BackfillTask
  <1> QED BY <1>1, <1>2, <1>3, <1>4, ReportAccounts

LEMMA AgreesAccounts ==
    ASSUME TypedWork, Accounts, NEW s \in Sessions, Agrees(s)
    PROVE  Accounts'
  <1>1. PICK e : e = Now(s)
    OBVIOUS
  <1>2. /\ NextEntry(s) /\ UNCHANGED <<anchors, revs, pending, pendingTasks>>
        /\ e.identity # None
    BY <1>1 DEF Agrees
  <1>3. PICK a \in RevIds : Sees(s, a) /\ anchors[a] = e.identity /\ e.asserted = AssertedBy(a)
    BY <1>1 DEF Agrees, Matches
  <1>4. Told(s, e)
    BY <1>2, <1>3 DEF Told, Corroborated
  <1>5. Same
    BY <1>2 DEF NextEntry, Same
  <1>6. Told(s, e)'
    BY <1>2, <1>4, <1>5, SameKeeps, ToldStays
  <1> QED BY <1>1, <1>2, <1>6, ReportAccounts

\* A conflict is told: as a conflict task or, when the very Evidence of the
\* anchor now says something else, by the backfill; a person's Evidence
\* cannot say something else (FragmentsSay).
LEMMA ConflictsAccounts ==
    ASSUME TypedWork, Accounts, NEW s \in Sessions, Conflicts(s)
    PROVE  Accounts'
  <1>1. PICK e : e = Now(s)
    OBVIOUS
  <1>2. PICK a \in Matches(s) :
            /\ Now(s).asserted # AssertedBy(a)
            /\ pendingTasks' = [pendingTasks EXCEPT
                    ![s] = @ \cup ConflictTask(a, Now(s).fragment) \cup BackfillTask(s)]
    BY DEF Conflicts
  <1>3. /\ NextEntry(s) /\ UNCHANGED <<anchors, revs, pending>> /\ e.identity # None
        /\ Processing(s)
    BY <1>1 DEF Conflicts
  <1>4. /\ pendingTasks'[s]
            = pendingTasks[s] \cup ConflictTask(a, e.fragment) \cup BackfillTask(s)
        /\ \A t \in Sessions : t # s => pendingTasks'[t] = pendingTasks[t]
    BY <1>1, <1>2 DEF TypedWork, TypeOK
  <1>5. a \in RevIds /\ Sees(s, a) /\ anchors[a] = e.identity /\ e.asserted # AssertedBy(a)
    BY <1>1, <1>2 DEF Matches
  <1>6. Same
    BY <1>3 DEF NextEntry, Same
  <1>7. Kept(a) /\ Sees(s, a)'
    BY <1>5, <1>6, SameKeeps DEF KeptSeen
  <1>8. CASE revs[a].fragment # e.fragment
    <2>1. pendingTasks'[s] = pendingTasks[s] \cup {KeyConflict(a, e.fragment)} \cup BackfillTask(s)
      BY <1>4, <1>8 DEF ConflictTask
    <2>2. Told(s, e)'
      BY <1>3, <1>5, <1>7, <2>1 DEF Told, Kept
    <2>3. JustifiedFor(s, KeyConflict(a, e.fragment))'
      <3>1. PICK t : t = KeyConflict(a, e.fragment)
        OBVIOUS
      <3>2. t.anchor = a /\ t.key = e.fragment
        BY <3>1, TasksDiffer
      <3>3. row[s] \in 1..Len(work[s]) /\ work[s][row[s]] = e /\ work' = work
        BY <1>1, <1>3, ProcessingIsTyped DEF Now, NextEntry
      <3>4. Disagrees(e, t)'
        BY <1>5, <1>7, <3>2 DEF Disagrees, Kept
      <3>5. JustifiedFor(s, t)'
        BY <1>7, <1>8, <3>2, <3>3, <3>4 DEF JustifiedFor, Kept
      <3> QED BY <3>1, <3>5
    <2>4. \A t \in pendingTasks'[s] : IsKeyConflict(t) => t \in pendingTasks[s] \/ JustifiedFor(s, t)'
      BY <2>1, <2>3, TasksDiffer DEF BackfillTask
    <2> QED BY <1>1, <1>3, <1>4, <2>2, <2>4, ReportAccounts
  <1>9. CASE revs[a].fragment = e.fragment
    <2>1. pendingTasks'[s] = pendingTasks[s] \cup BackfillTask(s)
      BY <1>4, <1>9 DEF ConflictTask
    <2>2. s \in Backfills
      <3>1. SUFFICES ASSUME s \notin Backfills PROVE FALSE
        OBVIOUS
      <3>2. /\ e.identity \in Identities \cup {None} /\ e.asserted \in Assertions
            /\ e.fragment = CreateFragment(e.identity, e.asserted)
        BY <1>1, <1>3, <3>1, ProcessingIsTyped DEF TypedWork, Working, Now
      <3>3. revs[a].fragment \in CreateFragments
        BY <1>9, <3>2, EntryIsTyped
      <3>4. revs[a].fragment = CreateFragment(anchors[a], AssertedBy(a))
        BY <1>3, <1>5, <3>3, AccountsBySession DEF FragmentsSay
      <3> QED BY <1>5, <1>9, <3>2, <3>4 DEF CreateFragment
    <2>3. BackfillConflict(e.identity) \in pendingTasks'[s]
      BY <1>1, <2>1, <2>2 DEF BackfillTask
    <2>4. Told(s, e)'
      BY <1>3, <1>5, <1>7, <1>9, <2>3 DEF Told, Kept
    <2>5. \A t \in pendingTasks'[s] : IsKeyConflict(t) => t \in pendingTasks[s]
      BY <2>1, TasksDiffer DEF BackfillTask
    <2> QED BY <1>1, <1>3, <1>4, <2>1, <2>4, <2>5, ReportAccounts
  <1> QED BY <1>8, <1>9

-----------------------------------------------------------------------------
(* Steps that write rows.                                                  *)

LEMMA InsertAccounts ==
    ASSUME TypedWork, Chains, Accounts, NEW s \in Sessions, NEW a \in RevIds, Inserted(s, a)
    PROVE  Accounts'
  <1> USE DEF Chains
  <1>1. PICK e : e = Now(s)
    OBVIOUS
  <1>2. /\ anchors[a] = None /\ e.identity # None /\ anchors'[a] = e.identity
        /\ AssertedBy(a)' = e.asserted /\ revs'[a].fragment = e.fragment
        /\ a \in pending'[s]
    BY <1>1, InsertedRows
  <1>3. \A b \in RevIds : b # a => Kept(b)
    BY InsertedRows, RowKept
  <1>4. \A b \in RevIds : Committed(b) => Committed(b)' /\ b # a
    BY <1>2, InsertedRows DEF Committed
  <1>5. \A t \in Sessions : pending[t] \subseteq pending'[t]
    BY InsertedRows
  <1>6. KeptCommitted /\ \A t \in Sessions : KeptSeen(t)
    <2>1. \A t \in Sessions : a \notin pending[t]
      BY <1>2 DEF Ownership
    <2> QED BY <1>3, <1>4, <1>5, <2>1 DEF KeptCommitted, KeptSeen, Sees
  <1>7. /\ UNCHANGED <<tasks, evidence, work>> /\ row'[s] = row[s] + 1
        /\ \A t \in Sessions : t # s => row'[t] = row[t] /\ pendingTasks'[t] = pendingTasks[t]
        /\ pendingTasks[s] \subseteq pendingTasks'[s]
        /\ \A t \in pendingTasks'[s] : t \in pendingTasks[s] \/ t = CustomerUnknown(a)
    BY DEF Inserted, NextEntry, TypedWork, TypeOK
  <1>8. FragmentsSay'
    <2>1. ASSUME revs'[a].fragment \in CreateFragments
          PROVE  revs'[a].fragment = CreateFragment(anchors'[a], AssertedBy(a)')
      <3>1. row[s] \in 1..Len(work[s]) /\ e = work[s][row[s]]
        BY <1>1, ProcessingIsTyped DEF Inserted, Now
      <3>2. IF s \in Backfills THEN e.fragment \in RowFragments
            ELSE e.fragment = CreateFragment(e.identity, e.asserted)
        BY <3>1 DEF TypedWork, Working
      <3> QED BY <1>2, <2>1, <3>2, FragmentsAssumption
    <2>2. ASSUME NEW b \in RevIds, b # a, anchors'[b] # None, revs'[b].fragment \in CreateFragments
          PROVE  revs'[b].fragment = CreateFragment(anchors'[b], AssertedBy(b)')
      BY <1>3, <2>2, AccountsBySession DEF FragmentsSay, Kept
    <2> QED BY <2>1, <2>2 DEF FragmentsSay
  <1>9. \A d \in evidence' : Accounted(d)'
    BY <1>6, <1>7, AccountedStays, AccountsBySession DEF TasksKept
  <1>10. \A t \in tasks' : IsKeyConflict(t) => Justified(t)'
    BY <1>6, <1>7, JustifiedStays, ConflictsNameAnchors, AccountsBySession DEF TypedWork, TypeOK
  <1>11. SessionAccounts(s)'
    <2>1. Told(s, e)'
      BY <1>2 DEF Told, Sees, Corroborated
    <2>2. \A t \in pendingTasks'[s] : IsKeyConflict(t) => t \in pendingTasks[s]
      BY <1>7, TasksDiffer
    <2> QED BY <1>1, <1>6, <1>7, <2>1, <2>2, AdvancingAccounts, AccountsBySession DEF TypedWork
  <1>12. \A t \in Sessions : t # s => SessionAccounts(t)'
    BY <1>6, <1>7, BystanderAccounts, AccountsBySession DEF TypedWork
  <1> QED BY <1>8, <1>9, <1>10, <1>11, <1>12, AccountsNext

\* A commit publishes what the transaction owes.
LEMMA CommitAccounts ==
    ASSUME TypedWork, Chains, Accounts, NEW s \in Sessions, Commit(s)
    PROVE  Accounts'
  <1>1. /\ EndTransaction(s) /\ UNCHANGED <<anchors, revs>>
        /\ tasks' = tasks \cup pendingTasks[s]
        /\ evidence' = evidence \cup {work[s][j] : j \in 1..Len(work[s])}
        /\ row[s] > Len(work[s])
    BY DEF Commit
  <1>2. \A a : Kept(a)
    BY <1>1, RowKept
  <1>3. \A a \in RevIds : Committed(a) \/ a \in pending[s] => Committed(a)'
    <2>1. pending'[s] = {} /\ \A t \in Sessions : t # s => pending'[t] = pending[t]
      BY <1>1, EndedSession DEF TypedWork
    <2>2. \A a \in pending[s] : anchors[a] # None /\ \A t \in Sessions : t # s => a \notin pending[t]
      BY DEF Chains, Ownership
    <2> QED BY <1>1, <2>1, <2>2 DEF Committed
  <1>4. KeptCommitted /\ \A t \in Sessions : t # s => KeptSeen(t)
    <2>1. \A t \in Sessions : t # s => pending'[t] = pending[t]
      BY <1>1, EndedSession DEF TypedWork
    <2> QED BY <1>2, <1>3, <2>1 DEF KeptCommitted, KeptSeen, Sees
  <1>5. FragmentsSay'
    BY <1>1, AccountsBySession DEF FragmentsSay, AssertedBy
  <1>6. ASSUME NEW e \in evidence' PROVE Accounted(e)'
    <2>1. CASE e \in evidence
      BY <1>1, <1>4, <2>1, AccountedStays, AccountsBySession DEF TasksKept
    <2>2. ASSUME NEW j \in 1..Len(work[s]), e = work[s][j] PROVE Accounted(e)'
      <3>1. j < row[s]
        BY <1>1 DEF TypedWork, TypeOK
      <3>2. Told(s, e)
        BY <2>2, <3>1, AccountsBySession DEF SessionAccounts
      <3>3. CASE e.identity = None
        BY <1>1, <3>2, <3>3 DEF Told, Accounted
      <3>4. CASE e.identity # None
        <4>1. PICK a \in RevIds :
                /\ Sees(s, a) /\ anchors[a] = e.identity
                /\ \/ Corroborated(e, a)
                   \/ KeyConflict(a, e.fragment) \in pendingTasks[s]
                   \/ /\ BackfillConflict(e.identity) \in pendingTasks[s]
                      /\ e.fragment = revs[a].fragment
          BY <3>2, <3>4 DEF Told
        <4>2. Committed(a)' /\ anchors'[a] = e.identity
          BY <1>1, <1>3, <4>1 DEF Sees
        <4>3. Corroborated(e, a)' \/ Reported(e, a)'
          BY <1>1, <1>2, <4>1 DEF Corroborated, Reported, Kept
        <4> QED BY <3>4, <4>2, <4>3 DEF Accounted
      <3> QED BY <3>3, <3>4
    <2> QED BY <1>1, <2>1, <2>2
  <1>7. ASSUME NEW t \in tasks', IsKeyConflict(t) PROVE Justified(t)'
    <2>1. CASE t \in tasks
      BY <1>1, <1>4, <1>7, <2>1, JustifiedStays, ConflictsNameAnchors, AccountsBySession
         DEF TypedWork, TypeOK
    <2>2. CASE t \in pendingTasks[s]
      <3>1. t.anchor \in RevIds /\ JustifiedFor(s, t)
        BY <1>7, <2>2, ConflictsNameAnchors, AccountsBySession
           DEF TypedWork, TypeOK, SessionAccounts
      <3>2. Committed(t.anchor)' /\ revs'[t.anchor].fragment # t.key
        BY <1>1, <1>3, <3>1 DEF JustifiedFor, Sees
      <3>3. PICK j \in 1..Len(work[s]) : Disagrees(work[s][j], t)
        BY <3>1 DEF JustifiedFor
      <3>4. PICK e : e = work[s][j]
        OBVIOUS
      <3>5. e \in evidence' /\ Disagrees(e, t)'
        BY <1>1, <1>2, <3>3, <3>4 DEF Disagrees, Kept
      <3> QED BY <3>2, <3>5 DEF Justified
    <2> QED BY <1>1, <2>1, <2>2
  <1>8. SessionAccounts(s)'
    BY <1>1, EndedSession DEF SessionAccounts, TypedWork
  <1>9. ASSUME NEW t \in Sessions, t # s PROVE SessionAccounts(t)'
    BY <1>1, <1>4, <1>9, EndedSession, BystanderAccounts, AccountsBySession DEF TypedWork
  <1> QED BY <1>5, <1>6, <1>7, <1>8, <1>9, AccountsNext

\* A rollback takes away anchors that nothing committed refers to.
LEMMA FailAccounts ==
    ASSUME TypedWork, Chains, Accounts, NEW s \in Sessions, Fail(s)
    PROVE  Accounts'
  <1>1. EndTransaction(s) /\ UNCHANGED <<tasks, evidence>>
    BY DEF Fail
  <1>2. /\ \A a \in RevIds : a \in pending[s] => anchors'[a] = None
        /\ \A a \in RevIds : a \notin pending[s] => Kept(a) /\ (Committed(a)' <=> Committed(a))
    BY FailedRows, RowKept
  <1>3. KeptCommitted
    BY <1>2 DEF KeptCommitted, Committed
  <1>4. \A t \in Sessions : t # s => KeptSeen(t)
    <2>1. \A t \in Sessions : t # s => pending'[t] = pending[t]
      BY <1>1, EndedSession DEF TypedWork
    <2>2. \A t \in Sessions, a \in RevIds : t # s /\ Sees(t, a) => a \notin pending[s]
      BY DEF Chains, Ownership, Sees, Committed
    <2> QED BY <1>2, <2>1, <2>2 DEF KeptSeen, Sees
  <1>5. FragmentsSay'
    <2>1. ASSUME NEW a \in RevIds, anchors'[a] # None, revs'[a].fragment \in CreateFragments
          PROVE  revs'[a].fragment = CreateFragment(anchors'[a], AssertedBy(a)')
      BY <1>2, <2>1, AccountsBySession DEF FragmentsSay, Kept
    <2> QED BY <2>1 DEF FragmentsSay
  <1>6. \A e \in evidence' : Accounted(e)'
    BY <1>1, <1>3, AccountedStays, AccountsBySession DEF TasksKept
  <1>7. \A t \in tasks' : IsKeyConflict(t) => Justified(t)'
    BY <1>1, <1>3, JustifiedStays, ConflictsNameAnchors, AccountsBySession DEF TypedWork, TypeOK
  <1>8. SessionAccounts(s)'
    BY <1>1, EndedSession DEF SessionAccounts, TypedWork
  <1>9. ASSUME NEW t \in Sessions, t # s PROVE SessionAccounts(t)'
    BY <1>1, <1>4, <1>9, EndedSession, BystanderAccounts, AccountsBySession DEF TypedWork
  <1> QED BY <1>5, <1>6, <1>7, <1>8, <1>9, AccountsNext

LEMMA ReviseAccounts ==
    ASSUME TypedWork, Chains, Accounts,
           NEW op, NEW base, NEW as, NEW new, Revised(op, base, as, new)
    PROVE  Accounts'
  <1>0. Appended(op, base, as, new)
    BY RevisedRows
  <1>1. /\ UNCHANGED <<anchors, evidence, work, row, pending, pendingTasks>>
        /\ base \in RevIds /\ revs[base].anchor \in RevIds
    BY DEF Revised, IsCurrent, Exists, TypedWork, TypeOK, Revisions
  <1>2. \A a \in RevIds : anchors[a] # None => Kept(a)
    BY <1>0, <1>1, RowKept DEF Appended, Chains, Rows
  <1>3. \A a \in RevIds : Committed(a)' <=> Committed(a)
    BY <1>0 DEF Appended
  <1>4. KeptCommitted /\ \A t \in Sessions : KeptSeen(t)
    <2>1. \A t \in Sessions, a \in RevIds : Sees(t, a) => anchors[a] # None
      BY DEF Sees, Committed, Chains, Ownership
    <2>2. \A a \in RevIds : Committed(a) => anchors[a] # None
      BY DEF Committed
    <2> QED BY <1>1, <1>2, <1>3, <2>1, <2>2 DEF KeptCommitted, KeptSeen, Sees
  <1>5. TasksKept /\ tasks' \subseteq tasks
    BY <1>1 DEF Revised, Amended, ResolvedBy, TasksKept
  <1>6. FragmentsSay'
    <2>1. ASSUME NEW a \in RevIds, anchors'[a] # None, revs'[a].fragment \in CreateFragments
          PROVE  revs'[a].fragment = CreateFragment(anchors'[a], AssertedBy(a)')
      BY <1>1, <1>2, <2>1, AccountsBySession DEF FragmentsSay, Kept
    <2> QED BY <2>1 DEF FragmentsSay
  <1>7. \A e \in evidence' : Accounted(e)'
    BY <1>1, <1>4, <1>5, AccountedStays, AccountsBySession
  <1>8. \A t \in tasks' : IsKeyConflict(t) => Justified(t)'
    BY <1>1, <1>4, <1>5, JustifiedStays, ConflictsNameAnchors, AccountsBySession
       DEF TypedWork, TypeOK
  <1>9. \A t \in Sessions : SessionAccounts(t)'
    BY <1>1, <1>4, BystanderAccounts, AccountsBySession DEF TypedWork
  <1> QED BY <1>6, <1>7, <1>8, <1>9, AccountsNext

-----------------------------------------------------------------------------
(* The theorems.                                                           *)

LEMMA InitAccounts == Init => Accounts
  <1> SUFFICES ASSUME Init PROVE Accounts
    OBVIOUS
  <1>1. \A s \in Sessions : Len(work[s]) = 0 /\ pendingTasks[s] = {}
    BY DEF Init
  <1>2. FragmentsSay /\ tasks = {} /\ evidence = {}
    BY DEF Init, FragmentsSay
  <1> QED BY <1>1, <1>2, AccountsBySession DEF SessionAccounts

LEMMA NextKeepsAccounts == Core /\ Accounts /\ [Next]_vars => Accounts'
  <1> SUFFICES ASSUME Core, Accounts, [Next]_vars PROVE Accounts'
    OBVIOUS
  <1> USE DEF Core
  <1>1. ASSUME NEW p \in Humans, NEW c \in Creations, StartCreate(p, c[1], c[2])
        PROVE  Accounts'
    BY <1>1, BeginAccounts DEF StartCreate, Sessions
  <1>2. ASSUME NEW b \in Backfills, StartBackfill(b) PROVE Accounts'
    BY <1>2, BeginAccounts DEF StartBackfill, Sessions
  <1>3. ASSUME NEW s \in Sessions,
               IdentityIncomplete(s) \/ Agrees(s) \/ Conflicts(s) \/ NotFound(s)
        PROVE  Accounts'
    BY <1>3, IncompleteAccounts, AgreesAccounts, ConflictsAccounts, NotFoundAccounts
  <1>4. CASE QuietStep
    BY <1>1, <1>2, <1>3, <1>4 DEF QuietStep
  <1>5. CASE UNCHANGED vars
    <2>1. Same /\ UNCHANGED <<work, row, pendingTasks>>
      BY <1>5 DEF vars, Same
    <2>2. \A t \in Sessions : SessionAccounts(t)'
      BY <2>1, SameKeeps, BystanderAccounts, AccountsBySession DEF TypedWork
    <2> QED BY <2>1, <2>2, SameAccounts DEF TypedWork
  <1> QED BY <1>4, <1>5, StepCases, InsertAccounts, CommitAccounts, FailAccounts, ReviseAccounts

\* The strengthened invariant: what every running transaction owes for the
\* entries it is done with, so that its commit can publish it.
THEOREM Invariant == Spec => []IInv
  <1>1. Core /\ Accounts => IInv
    BY DEF Core, TypedWork, IInv
  <1> QED BY <1>1, CoreInvariant, InitAccounts, NextKeepsAccounts, PTL DEF Spec

\* Whatever races, fails or is rejected, the committed Evidence of a creation
\* is what an anchor's INITIAL revision asserts, or a task tells a person.
THEOREM NoEvidenceDropped == Spec => []EvidenceAccountedFor
  <1>1. IInv => EvidenceAccountedFor
    BY DEF IInv, Accounts
  <1> QED BY <1>1, Invariant, PTL

\* A conflict task is never raised between pieces of Evidence that agree.
THEOREM ConflictTasksTrue == Spec => []ConflictTasksJustified
  <1>1. IInv => ConflictTasksJustified
    BY DEF IInv, Accounts
  <1> QED BY <1>1, Invariant, PTL

=============================================================================
