---------------------------- MODULE CutoverProofs ----------------------------
(***************************************************************************)
(* No rerun and no race stores anything twice, no crash or race loses a    *)
(* row of a file that is stored, and the gate passes only what is true.    *)
(***************************************************************************)
EXTENDS Cutover, TLAPS, FiniteSetTheorems

-----------------------------------------------------------------------------
(* The invariant.  What the indexes keep apart is stated of all rows,      *)
(* committed or not: then a commit publishes nothing new.                  *)

Typed ==
    /\ \A d \in documents : d = [file |-> d.file, by |-> d.by]
    /\ \A f \in facts : f = [row |-> f.row, at |-> f.at, by |-> f.by] /\ f.at[2] \in Nat
    /\ DOMAIN pc = Sessions /\ DOMAIN todo = Sessions
    /\ at \in [Sessions -> Nat]

DocumentOnce == \A d, e \in documents : d.file = e.file => d = e

SameInvoice(f, g) ==
    f.row.kind = "INVOICE" /\ f.row.kind = g.row.kind /\ f.row.id = g.row.id /\ f.row.id # None
FactOnce == \A f, g \in facts : f.at = g.at \/ SameInvoice(f, g) => f = g

\* A row is there with its document, in the same transaction.
RowsInDocuments == \A f \in facts : \E d \in documents : d.file = f.at[1] /\ d.by = f.by

\* Who reads the rows of a file has inserted its document, and is the only one
\* to add rows of it, in their order.
Inside(s) == pc[s] \in {"row", "insert"} /\ todo[s] # <<>>
ReadersApart ==
    \A s \in Sessions : Inside(s) =>
        /\ \E d \in documents : d.file = File(s) /\ d.by = s
        /\ \A f \in facts : f.at[1] = File(s) => f.at[2] < at[s]

IInv == Typed /\ DocumentOnce /\ FactOnce /\ RowsInDocuments /\ ReadersApart

-----------------------------------------------------------------------------
(* What steps do to documents and rows.                                    *)

\* Documents and rows stay, and readers only go on.
GoesOn ==
    /\ documents' = documents /\ facts' = facts
    /\ DOMAIN pc' = Sessions /\ DOMAIN todo' = Sessions /\ at' \in [Sessions -> Nat]
    /\ \A s \in Sessions : Inside(s)' => Inside(s) /\ todo'[s] = todo[s] /\ at[s] <= at'[s]

LEMMA GoesOnInv ==
    ASSUME IInv, GoesOn PROVE IInv'
<1>1. Typed' /\ DocumentOnce' /\ FactOnce' /\ RowsInDocuments'
  BY DEF IInv, GoesOn, Typed, DocumentOnce, FactOnce, RowsInDocuments
<1>2. ASSUME NEW s \in Sessions, Inside(s)'
      PROVE  /\ \E d \in documents' : d.file = File(s)' /\ d.by = s
             /\ \A f \in facts' : f.at[1] = File(s)' => f.at[2] < at'[s]
  <2>1. Inside(s) /\ File(s)' = File(s) /\ at[s] <= at'[s] /\ documents' = documents /\ facts' = facts
    BY <1>2 DEF GoesOn, File
  <2>2. \A f \in facts : f.at[1] = File(s) => f.at[2] < at[s] /\ f.at[2] \in Nat
    BY <2>1 DEF IInv, ReadersApart, Typed
  <2>3. at[s] \in Nat /\ at'[s] \in Nat
    BY DEF IInv, Typed, GoesOn
  <2> QED BY <2>1, <2>2, <2>3 DEF IInv, ReadersApart
<1> QED BY <1>1, <1>2 DEF IInv, ReadersApart

LEMMA InsertDocumentInv ==
    ASSUME IInv, NEW s \in Sessions, InsertDocument(s) PROVE IInv'
<1> DEFINE new == [file |-> File(s), by |-> s]
<1>1. /\ documents' = documents \cup {new} /\ facts' = facts /\ todo' = todo
      /\ \A d \in documents : d.file # File(s)
      /\ at' = [at EXCEPT ![s] = 1] /\ pc' = [pc EXCEPT ![s] = "row"]
  BY DEF InsertDocument, Document, Goto
<1>2. Typed' /\ DocumentOnce' /\ FactOnce'
  BY <1>1 DEF IInv, Typed, DocumentOnce, FactOnce
<1>3. RowsInDocuments'
  BY <1>1 DEF IInv, RowsInDocuments
<1>4. ASSUME NEW t \in Sessions, Inside(t)'
      PROVE  /\ \E d \in documents' : d.file = File(t)' /\ d.by = t
             /\ \A f \in facts' : f.at[1] = File(t)' => f.at[2] < at'[t]
  <2>1. File(t)' = File(t)
    BY <1>1 DEF File
  <2>2. CASE t = s
    <3>1. new \in documents' /\ new.file = File(t)' /\ new.by = t
      BY <1>1, <2>1, <2>2
    <3>2. \A f \in facts' : f.at[1] # File(t)'
      BY <1>1, <2>1, <2>2 DEF IInv, RowsInDocuments
    <3> QED BY <3>1, <3>2
  <2>3. CASE t # s
    <3>1. Inside(t) /\ at'[t] = at[t]
      BY <1>1, <1>4, <2>3 DEF Inside, IInv, Typed
    <3> QED BY <1>1, <2>1, <3>1 DEF IInv, ReadersApart
  <2> QED BY <2>2, <2>3
<1> QED BY <1>2, <1>3, <1>4 DEF IInv, ReadersApart

LEMMA InsertFactInv ==
    ASSUME IInv, NEW s \in Sessions, InsertFact(s) PROVE IInv'
<1> DEFINE new == [row |-> Now(s), at |-> <<File(s), at[s]>>, by |-> s]
<1>1. /\ documents' = documents /\ facts' = facts \cup {new} /\ todo' = todo
      /\ at' = [at EXCEPT ![s] = @ + 1] /\ pc' = [pc EXCEPT ![s] = "row"]
      /\ pc[s] = "insert" /\ todo[s] # <<>> /\ UniqueIndexAdmits(Now(s), facts)
  BY DEF InsertFact, Goto, Reading
<1>2. at[s] \in Nat /\ Inside(s)
  BY <1>1 DEF IInv, Typed, Inside
<1>3. /\ \E d \in documents : d.file = File(s) /\ d.by = s
      /\ \A f \in facts : f.at[1] = File(s) => f.at[2] < at[s]
  BY <1>2 DEF IInv, ReadersApart
<1>4. Typed' /\ DocumentOnce'
  BY <1>1, <1>2 DEF IInv, Typed, DocumentOnce
<1>5. \A f \in facts : f.at # new.at /\ ~SameInvoice(f, new) /\ ~SameInvoice(new, f)
  <2>1. \A f \in facts : f.at # new.at
    BY <1>2, <1>3 DEF IInv, Typed
  <2>2. \A f \in facts : ~SameInvoice(f, new) /\ ~SameInvoice(new, f)
    BY <1>1 DEF UniqueIndexAdmits, Named, OfKind, SameInvoice
  <2> QED BY <2>1, <2>2
<1>6. FactOnce'
  BY <1>1, <1>5 DEF IInv, FactOnce
<1>7. RowsInDocuments'
  BY <1>1, <1>3 DEF IInv, RowsInDocuments
<1>8. ASSUME NEW t \in Sessions, Inside(t)'
      PROVE  /\ \E d \in documents' : d.file = File(t)' /\ d.by = t
             /\ \A f \in facts' : f.at[1] = File(t)' => f.at[2] < at'[t]
  <2>1. File(t)' = File(t)
    BY <1>1 DEF File
  <2>2. CASE t = s
    <3>1. at'[t] = at[s] + 1
      BY <1>1, <2>2 DEF IInv, Typed
    <3>2. \A f \in facts : f.at[1] = File(s) => f.at[2] < at[s] + 1
      BY <1>2, <1>3 DEF IInv, Typed
    <3>3. new.at[2] < at[s] + 1
      BY <1>2
    <3> QED BY <1>1, <1>3, <2>1, <2>2, <3>1, <3>2, <3>3
  <2>3. CASE t # s
    <3>1. Inside(t) /\ at'[t] = at[t]
      BY <1>1, <1>8, <2>3 DEF Inside, IInv, Typed
    <3>2. /\ \E d \in documents : d.file = File(t) /\ d.by = t
          /\ \A f \in facts : f.at[1] = File(t) => f.at[2] < at[t]
      BY <3>1 DEF IInv, ReadersApart
    <3>3. File(t) # File(s)
      BY <1>3, <2>3, <3>2 DEF IInv, DocumentOnce
    <3> QED BY <1>1, <2>1, <3>1, <3>2, <3>3
  <2> QED BY <2>2, <2>3
<1> QED BY <1>4, <1>6, <1>7, <1>8 DEF IInv, ReadersApart

LEMMA PreStageInv ==
    ASSUME IInv, NEW p \in Sessions, PreStage(p) PROVE IInv'
<1> DEFINE new == [file |-> p, by |-> p]
<1>1. facts' = facts /\ todo' = todo /\ at' = at /\ pc' = [pc EXCEPT ![p] = "commit"]
  BY DEF PreStage, Goto
<1>5. \/ documents' = documents
      \/ documents' = documents \cup {new} /\ \A d \in documents : d.file # p
  <2>1. \A d \in documents : d.file = p => d \in Visible(p, documents)
    BY DEF PreStage, PackApplies, Visible
  <2>2. CASE \E d \in Visible(p, documents) : d.file = p
    BY <2>2 DEF PreStage
  <2>3. CASE ~\E d \in Visible(p, documents) : d.file = p
    BY <2>1, <2>3 DEF PreStage, Document
  <2> QED BY <2>2, <2>3
<1>2. \A t \in Sessions : Inside(t)' => Inside(t) /\ File(t)' = File(t)
  BY <1>1 DEF Inside, File, IInv, Typed
<1>3. CASE documents' = documents
  <2> GoesOn
    BY <1>1, <1>2, <1>3 DEF GoesOn, IInv, Typed
  <2> QED BY GoesOnInv
<1>4. CASE documents' = documents \cup {new} /\ \A d \in documents : d.file # p
  <2>1. Typed'
    BY <1>1, <1>4 DEF IInv, Typed
  <2>2. DocumentOnce'
    BY <1>4 DEF IInv, DocumentOnce
  <2>3. FactOnce' /\ RowsInDocuments'
    BY <1>1, <1>4 DEF IInv, FactOnce, RowsInDocuments
  <2>4. ReadersApart'
    BY <1>1, <1>2, <1>4 DEF IInv, ReadersApart
  <2> QED BY <2>1, <2>2, <2>3, <2>4 DEF IInv
<1> QED BY <1>3, <1>4, <1>5

\* What a commit makes of documents and rows.
LEMMA PublishedDocuments ==
    ASSUME IInv, NEW s
    PROVE  Published(s, documents) =
             {[file |-> x.file, by |-> IF x.by = s THEN None ELSE x.by] : x \in documents}
<1> DEFINE Public(x) == [x EXCEPT !.by = IF @ = s THEN None ELSE @]
           Made(x)   == [file |-> x.file, by |-> IF x.by = s THEN None ELSE x.by]
<1>1. ASSUME NEW x \in documents PROVE Public(x) = Made(x)
  <2>1. x = [file |-> x.file, by |-> x.by]
    BY DEF IInv, Typed
  <2>2. \A file, by : [[file |-> file, by |-> by] EXCEPT !.by = IF @ = s THEN None ELSE @]
                         = [file |-> file, by |-> IF by = s THEN None ELSE by]
    OBVIOUS
  <2> QED BY <2>1, <2>2
<1>2. Published(s, documents) = {Public(x) : x \in documents}
  BY DEF Published
<1>3. {Public(x) : x \in documents} = {Made(x) : x \in documents}
  <2> HIDE DEF Public, Made
  <2> QED BY <1>1
<1> QED BY <1>2, <1>3

LEMMA PublishedFacts ==
    ASSUME IInv, NEW s
    PROVE  Published(s, facts) =
             {[row |-> x.row, at |-> x.at, by |-> IF x.by = s THEN None ELSE x.by] : x \in facts}
<1> DEFINE Public(x) == [x EXCEPT !.by = IF @ = s THEN None ELSE @]
           Made(x)   == [row |-> x.row, at |-> x.at, by |-> IF x.by = s THEN None ELSE x.by]
<1>1. ASSUME NEW x \in facts PROVE Public(x) = Made(x)
  <2>1. x = [row |-> x.row, at |-> x.at, by |-> x.by]
    BY DEF IInv, Typed
  <2>2. \A r, i, by : [[row |-> r, at |-> i, by |-> by] EXCEPT !.by = IF @ = s THEN None ELSE @]
                         = [row |-> r, at |-> i, by |-> IF by = s THEN None ELSE by]
    OBVIOUS
  <2> QED BY <2>1, <2>2
<1>2. Published(s, facts) = {Public(x) : x \in facts}
  BY DEF Published
<1>3. {Public(x) : x \in facts} = {Made(x) : x \in facts}
  <2> HIDE DEF Public, Made
  <2> QED BY <1>1
<1> QED BY <1>2, <1>3

\* The rows of s are committed, and s leaves its file.
LEMMA CommitInv ==
    ASSUME IInv, NEW s \in Sessions, NEW next, next \notin {"row", "insert"}, CommitTo(s, next)
    PROVE  IInv'
<1> DEFINE By(x) == IF x.by = s THEN None ELSE x.by
<1>1. todo' = todo /\ pc' = [pc EXCEPT ![s] = next] /\ at' = [at EXCEPT ![s] = 0]
  BY DEF CommitTo
<1>2. documents' = {[file |-> x.file, by |-> By(x)] : x \in documents}
  BY PublishedDocuments DEF CommitTo
<1>3. facts' = {[row |-> x.row, at |-> x.at, by |-> By(x)] : x \in facts}
  BY PublishedFacts DEF CommitTo
<1> HIDE DEF By
<1>4. Typed'
  BY <1>1, <1>2, <1>3 DEF IInv, Typed
<1>5. DocumentOnce'
  BY <1>2 DEF IInv, DocumentOnce
<1>6. FactOnce'
  BY <1>3 DEF IInv, FactOnce, SameInvoice
<1>7. RowsInDocuments'
  <2> SUFFICES ASSUME NEW x \in facts PROVE \E d \in documents' : d.file = x.at[1] /\ d.by = By(x)
    BY <1>3 DEF RowsInDocuments
  <2>1. PICK d \in documents : d.file = x.at[1] /\ d.by = x.by
    BY DEF IInv, RowsInDocuments
  <2>2. [file |-> d.file, by |-> By(d)] \in documents' /\ By(d) = By(x)
    BY <1>2, <2>1 DEF By
  <2> QED BY <2>1, <2>2
<1>8. ASSUME NEW t \in Sessions, Inside(t)'
      PROVE  /\ \E d \in documents' : d.file = File(t)' /\ d.by = t
             /\ \A f \in facts' : f.at[1] = File(t)' => f.at[2] < at'[t]
  <2>1. t # s /\ Inside(t) /\ File(t)' = File(t) /\ at'[t] = at[t]
    BY <1>1, <1>8 DEF Inside, File, IInv, Typed
  <2>2. PICK d \in documents : d.file = File(t) /\ d.by = t
    BY <2>1 DEF IInv, ReadersApart
  <2>3. [file |-> File(t), by |-> t] \in documents'
    BY <1>2, <2>1, <2>2 DEF By
  <2>4. \A f \in facts : f.at[1] = File(t) => f.at[2] < at[t]
    BY <2>1 DEF IInv, ReadersApart
  <2> QED BY <1>3, <2>1, <2>3, <2>4
<1> QED BY <1>4, <1>5, <1>6, <1>7, <1>8 DEF IInv, ReadersApart

\* The rows of s vanish with their documents.
LEMMA RollbackInv ==
    ASSUME IInv, NEW s \in Sessions, Rollback(s) PROVE IInv'
<1>1. /\ documents' = {x \in documents : x.by # s} /\ facts' = {x \in facts : x.by # s}
      /\ todo' = [todo EXCEPT ![s] = <<>>] /\ pc' = [pc EXCEPT ![s] = "idle"]
      /\ at' = [at EXCEPT ![s] = 0]
  BY DEF Rollback, Discarded
<1>2. Typed' /\ DocumentOnce' /\ FactOnce'
  BY <1>1 DEF IInv, Typed, DocumentOnce, FactOnce
<1>3. RowsInDocuments'
  BY <1>1 DEF IInv, RowsInDocuments
<1>4. ASSUME NEW t \in Sessions, Inside(t)'
      PROVE  /\ \E d \in documents' : d.file = File(t)' /\ d.by = t
             /\ \A f \in facts' : f.at[1] = File(t)' => f.at[2] < at'[t]
  <2>1. t # s /\ Inside(t) /\ File(t)' = File(t) /\ at'[t] = at[t]
    BY <1>1, <1>4 DEF Inside, File, IInv, Typed
  <2> QED BY <1>1, <2>1 DEF IInv, ReadersApart
<1> QED BY <1>2, <1>3, <1>4 DEF IInv, ReadersApart

-----------------------------------------------------------------------------
(* Every step.                                                             *)

LEMMA ReadRowInv ==
    ASSUME IInv, NEW s \in Sessions, ReadRow(s) PROVE IInv'
<1> USE DEF Inside
<1>1. CASE OpenFile(s)
  <2> GoesOn
    BY <1>1 DEF OpenFile, Reading, Goto, GoesOn, IInv, Typed, ledger
  <2> QED BY GoesOnInv
<1>2. CASE InsertDocument(s)
  BY <1>2, InsertDocumentInv
<1>3. ASSUME NEW raised, Proceed(s, raised) PROVE IInv'
  <2> GoesOn
    BY <1>3 DEF Proceed, GoesOn, IInv, Typed, ledger
  <2> QED BY GoesOnInv
<1>4. CASE Exclude(s) \/ IdentityIncomplete(s) \/ Ambiguous(s) \/ Conflict(s)
  BY <1>3, <1>4 DEF Exclude, IdentityIncomplete, Ambiguous, Conflict
<1>9. CASE Corroborate(s)
  <2> GoesOn
    BY <1>9 DEF Corroborate, GoesOn, IInv, Typed
  <2> QED BY GoesOnInv
<1>5. CASE New(s)
  <2> GoesOn
    BY <1>5 DEF New, InRow, Reading, Goto, GoesOn, IInv, Typed, ledger
  <2> QED BY GoesOnInv
<1>6. CASE InsertFact(s)
  BY <1>6, InsertFactInv
<1>7. CASE CloseFile(s)
  <2> GoesOn
    BY <1>7 DEF CloseFile, Reading, Goto, GoesOn, IInv, Typed, ledger
  <2> QED BY GoesOnInv
<1>8. CASE EndImport(s)
  BY <1>8, CommitInv DEF EndImport
<1> QED BY <1>1, <1>2, <1>4, <1>5, <1>6, <1>7, <1>8, <1>9 DEF ReadRow

LEMMA ApplyPackInv ==
    ASSUME IInv, NEW p \in Sessions, ApplyPack(p) PROVE IInv'
<1> USE DEF Inside
<1>1. CASE EnterPack(p) \/ Match(p) \/ PostStage(p)
  <2>1. CASE EnterPack(p)
    BY <2>1, GoesOnInv DEF EnterPack, FilesDone, Goto, GoesOn, IInv, Typed, ledger
  <2>2. CASE Match(p)
    <3>1. /\ documents' = documents /\ facts' = facts /\ todo' = todo /\ at' = at
          /\ \E next \in {"PAYMENT", "ready"} : pc' = [pc EXCEPT ![p] = next]
      BY <2>2 DEF Match, Goto
    <3> QED BY <3>1, GoesOnInv DEF GoesOn, IInv, Typed
  <2>3. CASE PostStage(p)
    BY <2>3, GoesOnInv DEF PostStage, Goto, GoesOn, IInv, Typed
  <2> QED BY <1>1, <2>1, <2>2, <2>3
<1>2. CASE PreStage(p)
  BY <1>2, PreStageInv
<1>3. CASE CommitPre(p) \/ CommitPost(p)
  BY <1>3, CommitInv DEF CommitPre, CommitPost
<1>4. CASE RefusePack(p) \/ NotReady(p)
  BY <1>4, RollbackInv DEF RefusePack, NotReady
<1> QED BY <1>1, <1>2, <1>3, <1>4 DEF ApplyPack

LEMMA StepInv == IInv /\ [Next]_vars => IInv'
<1> SUFFICES ASSUME IInv, [Next]_vars PROVE IInv'
  OBVIOUS
<1>1. ASSUME NEW s \in Sessions, Start(s) PROVE IInv'
  <2> GoesOn
    BY <1>1 DEF Start, Goto, GoesOn, Inside, IInv, Typed, ledger
  <2> QED BY GoesOnInv
<1>2. ASSUME NEW s \in Sessions, Step(s) PROVE IInv'
  BY <1>2, ReadRowInv, ApplyPackInv, RollbackInv DEF Step, UniqueViolation, Deadlock
<1>3. ASSUME NEW s \in Sessions, Crash(s) PROVE IInv'
  BY <1>3, RollbackInv DEF Crash
<1>4. ASSUME UNCHANGED <<documents, facts, session>> PROVE IInv'
  <2> GoesOn
    BY <1>4 DEF GoesOn, Inside, IInv, Typed, session
  <2> QED BY GoesOnInv
<1>5. ASSUME NEW f, NEW c, Confirm(f, c) PROVE IInv'
  BY <1>4, <1>5 DEF Confirm
<1>6. ASSUME NEW b, OpenGate(b) PROVE IInv'
  BY <1>4, <1>6 DEF OpenGate, ledger
<1>7. CASE \/ HashBefore \/ ReadContracts \/ ReadSubjects \/ ReadTasks \/ HashAfter
          \/ \E ok \in BOOLEAN : Judge(ok)
  BY <1>4, <1>7 DEF HashBefore, ReadContracts, ReadSubjects, ReadTasks, Read, HashAfter, Judge, ledger
<1>8. CASE UNCHANGED vars
  BY <1>4, <1>8 DEF vars, ledger
<1> QED BY <1>1, <1>2, <1>3, <1>5, <1>6, <1>7, <1>8 DEF Next

LEMMA InitInv == Init => IInv
BY DEF Init, IInv, Typed, DocumentOnce, FactOnce, RowsInDocuments, ReadersApart, Inside

-----------------------------------------------------------------------------
(* What it gives.                                                          *)

\* However often plans and imports are rerun, crash or race each other, one
\* document per file, one fact per row and one invoice per external key are
\* committed: the unique indexes decide, without a lock (import_invoices.py,
\* cutover_backfill.py).
THEOREM StoredOnce == Spec => []NothingTwice
<1>1. IInv => NothingTwice
  BY DEF IInv, DocumentOnce, FactOnce, SameInvoice, NothingTwice, Committed
<1>2. Spec => []IInv
  BY InitInv, StepInv, PTL DEF Spec
<1> QED BY <1>1, <1>2, PTL
-----------------------------------------------------------------------------
(* Every row of a stored file is accounted for.                            *)

RowsOfFiles ==
    /\ \A f \in facts : /\ f.by \in Sessions \cup {None} /\ f.at = <<f.at[1], f.at[2]>>
                        /\ f.at[1] \in DOMAIN Files /\ f.at[2] \in DOMAIN Files[f.at[1]]
                        /\ f.row = Files[f.at[1]][f.at[2]]
    /\ \A d \in documents : d.by \in Sessions \cup {None}
    /\ \A l \in links : l = [contract |-> l.contract, sales |-> l.sales, by |-> l.by]
    /\ DOMAIN draft = Sessions /\ DOMAIN scope = Sessions
    /\ \A s \in Sessions : todo[s] \in Seq(DOMAIN Files)

\* What a commit makes of links.
LEMMA PublishedLinks ==
    ASSUME RowsOfFiles, NEW s
    PROVE  Published(s, links) =
             {[contract |-> x.contract, sales |-> x.sales, by |-> IF x.by = s THEN None ELSE x.by] : x \in links}
<1> DEFINE Public(x) == [x EXCEPT !.by = IF @ = s THEN None ELSE @]
           Made(x)   == [contract |-> x.contract, sales |-> x.sales, by |-> IF x.by = s THEN None ELSE x.by]
<1>1. ASSUME NEW x \in links PROVE Public(x) = Made(x)
  <2>1. x = [contract |-> x.contract, sales |-> x.sales, by |-> x.by]
    BY DEF RowsOfFiles
  <2>2. \A c, t, by : [[contract |-> c, sales |-> t, by |-> by] EXCEPT !.by = IF @ = s THEN None ELSE @]
                         = [contract |-> c, sales |-> t, by |-> IF by = s THEN None ELSE by]
    OBVIOUS
  <2> QED BY <2>1, <2>2
<1>2. Published(s, links) = {Public(x) : x \in links}
  BY DEF Published
<1>3. {Public(x) : x \in links} = {Made(x) : x \in links}
  <2> HIDE DEF Public, Made
  <2> QED BY <1>1
<1> QED BY <1>2, <1>3

\* A task is about a sales scope or about a row, under the key of that row.
Raised(by) == IF by = None THEN tasks ELSE tasks \cup draft[by]
AboutRow(t) ==
    t.key[1] # "SCOPE" =>
        \E f \in DOMAIN Files : \E j \in DOMAIN Files[f] :
            t.at = <<f, j>> /\ t.key = TaskKey(Files[f][j], j)
TasksOfRows == \A by \in Sessions \cup {None} : \A t \in Raised(by) : AboutRow(t)

\* A session reads its program in order, and every file before is stored.
AtWork(s) == pc[s] \in {"file", "document", "row", "insert"}
DocumentStored(s, file) == \E d \in documents : d.by \in {None, s} /\ d.file = file
Reached(s, j) ==
    /\ j + Len(todo[s]) = Len(Program[s]) + 1
    /\ \A k \in 1..Len(todo[s]) : todo[s][k] = Program[s][j + k - 1]
    /\ \A i \in 1..(j - 1) : DocumentStored(s, Program[s][i])
InOrder == \A s \in Sessions : AtWork(s) => \E j \in 1..(Len(Program[s]) + 1) : Reached(s, j)

\* The parties of the contracts in the files before the one at hand are in scope.
Contract(c)  == c.kind = "CONTRACT" /\ c.id # None
ScopeKnown ==
    \A s \in Plans : Inside(s) =>
        \E j \in DOMAIN Program[s] :
            /\ Program[s][j] = File(s)
            /\ \A i \in 1..(j - 1) : \A k \in DOMAIN Files[Program[s][i]] :
                  LET c == Files[Program[s][i]][k]
                  IN  Contract(c) => c.party \in scope[s] \cup {None}

\* What a row is to a transaction, or to everybody when by is None.
ScopeKeptTo(by, r, where) ==
    Scoped(r) => \/ \E l \in links : l.by \in {None, by} /\ l.contract = where /\ l.sales = r.sales
                 \/ \E t \in Raised(by) : t.key = ScopeKey(r)
StandsTo(by, r, where) ==
    \E f \in facts :
        /\ f.by \in {None, by}
        /\ f.at = where \/ (f.row.kind = r.kind /\ f.row.id = r.id /\ r.id # None
                           /\ f.row.content = r.content)
        /\ ScopeKeptTo(by, r, f.at)
ToldTo(by, r, where) ==
    \E t \in Raised(by) :
        /\ t.key = TaskKey(r, where[2])
        /\ r.id = None => t.at = where \/ KeyShared(r, where)
AccountedTo(by, r, where) == StandsTo(by, r, where) \/ ToldTo(by, r, where) \/ Outside(r, where[1])
KnownTo(by, r) ==
    Contract(r) => \E f \in facts : /\ f.by \in {None, by} /\ f.row.kind = "CONTRACT"
                                    /\ f.row.id = r.id
HandledTo(by, file, i) == /\ AccountedTo(by, Files[file][i], <<file, i>>)
                          /\ KnownTo(by, Files[file][i])
ToBeRead(s, file, i) == s \in Sessions /\ Inside(s) /\ File(s) = file /\ at[s] <= i
Handled ==
    \A d \in documents : d.file \in DOMAIN Files =>
        \A i \in DOMAIN Files[d.file] : HandledTo(d.by, d.file, i) \/ ToBeRead(d.by, d.file, i)

\* The row at hand is a row of the file.
RowAtHand ==
    \A s \in Sessions : Inside(s) => /\ at[s] # 0
                                     /\ pc[s] = "insert" => at[s] <= Len(Files[File(s)])

Coverage == RowsOfFiles /\ TasksOfRows /\ InOrder /\ ScopeKnown /\ Handled

\* What a transaction saw and told stays so, to it or to everybody.
Grows(by, new) ==
    /\ \A f \in facts : f.by \in {None, by} =>
          \E g \in facts' : g.by \in {None, new} /\ g.row = f.row /\ g.at = f.at
    /\ \A l \in links : l.by \in {None, by} =>
          \E m \in links' : m.by \in {None, new} /\ m.contract = l.contract /\ m.sales = l.sales
    /\ Raised(by) \subseteq Raised(new)'

LEMMA ScopeStaysKept ==
    ASSUME NEW by, NEW new, Grows(by, new), NEW r, NEW where, ScopeKeptTo(by, r, where)
    PROVE  ScopeKeptTo(new, r, where)'
<1> SUFFICES ASSUME Scoped(r)
             PROVE  \/ \E l \in links' : l.by \in {None, new} /\ l.contract = where /\ l.sales = r.sales
                    \/ \E t \in Raised(new)' : t.key = ScopeKey(r)
  BY DEF ScopeKeptTo, Scoped, ScopeKey
<1>1. CASE \E l \in links : l.by \in {None, by} /\ l.contract = where /\ l.sales = r.sales
  BY <1>1 DEF Grows
<1>2. CASE \E t \in Raised(by) : t.key = ScopeKey(r)
  BY <1>2 DEF Grows
<1> QED BY <1>1, <1>2 DEF ScopeKeptTo

LEMMA StaysAccounted ==
    ASSUME NEW by, NEW new, Grows(by, new), NEW r, NEW where, AccountedTo(by, r, where)
    PROVE  AccountedTo(new, r, where)'
<1>1. CASE StandsTo(by, r, where)
  <2>1. PICK f \in facts :
           /\ f.by \in {None, by}
           /\ f.at = where \/ (f.row.kind = r.kind /\ f.row.id = r.id /\ r.id # None
                              /\ f.row.content = r.content)
           /\ ScopeKeptTo(by, r, f.at)
    BY <1>1 DEF StandsTo
  <2>2. PICK g \in facts' : g.by \in {None, new} /\ g.row = f.row /\ g.at = f.at
    BY <2>1 DEF Grows
  <2>3. PICK place : place = f.at
    OBVIOUS
  <2>4. ScopeKeptTo(new, r, place)'
    BY <2>1, <2>3, ScopeStaysKept
  <2>5. StandsTo(new, r, where)'
    BY <2>1, <2>2, <2>3, <2>4 DEF StandsTo, ScopeKeptTo
  <2> QED BY <2>5 DEF AccountedTo
<1>2. CASE ToldTo(by, r, where)
  <2>1. ToldTo(new, r, where)'
    BY <1>2 DEF ToldTo, Grows, KeyShared, TaskKey, Partial
  <2> QED BY <2>1 DEF AccountedTo
<1>3. CASE Outside(r, where[1])
  BY <1>3 DEF AccountedTo, Outside
<1> QED BY <1>1, <1>2, <1>3 DEF AccountedTo

LEMMA StaysHandled ==
    ASSUME NEW by, NEW new, Grows(by, new), NEW file, NEW i, HandledTo(by, file, i)
    PROVE  HandledTo(new, file, i)'
<1>1. PICK r, where : r = Files[file][i] /\ where = <<file, i>>
  OBVIOUS
<1>2. AccountedTo(by, r, where) /\ KnownTo(by, r)
  BY <1>1 DEF HandledTo
<1>3. AccountedTo(new, r, where)'
  BY <1>2, StaysAccounted
<1>4. KnownTo(new, r)'
  <2>1. SUFFICES ASSUME Contract(r)
                 PROVE  \E g \in facts' : /\ g.by \in {None, new} /\ g.row.kind = "CONTRACT"
                                          /\ g.row.id = r.id
    BY DEF KnownTo, Contract
  <2>2. PICK f \in facts : f.by \in {None, by} /\ f.row.kind = "CONTRACT" /\ f.row.id = r.id
    BY <1>2, <2>1 DEF KnownTo
  <2>3. PICK g \in facts' : g.by \in {None, new} /\ g.row = f.row
    BY <2>2 DEF Grows
  <2> QED BY <2>2, <2>3
<1> QED BY <1>1, <1>3, <1>4 DEF HandledTo

LEMMA HandledOf ==
    ASSUME Handled, NEW d \in documents, d.file \in DOMAIN Files, NEW i \in DOMAIN Files[d.file]
    PROVE  HandledTo(d.by, d.file, i) \/ ToBeRead(d.by, d.file, i)
BY DEF Handled

LEMMA FilesAreSequences ==
    ASSUME NEW f \in DOMAIN Files
    PROVE  /\ Len(Files[f]) \in Nat /\ DOMAIN Files[f] = 1..Len(Files[f])
           /\ f \notin Plans
BY FilesAssumption

\* A row that is there for a contract carries the contract's party.
LEMMA KnownParty ==
    ASSUME RowsOfFiles, NEW f \in facts, f.row.kind = "CONTRACT",
           NEW file \in DOMAIN Files, NEW i \in DOMAIN Files[file],
           Contract(Files[file][i]), f.row.id = Files[file][i].id
    PROVE  f.row.party = Files[file][i].party
<1>1. f.at[1] \in DOMAIN Files /\ f.at[2] \in DOMAIN Files[f.at[1]] /\ f.row = Files[f.at[1]][f.at[2]]
  BY DEF RowsOfFiles
<1>2. PICK g, j : g = f.at[1] /\ j = f.at[2]
  OBVIOUS
<1>3. g \in DOMAIN Files /\ j \in DOMAIN Files[g] /\ f.row = Files[g][j]
  BY <1>1, <1>2
<1> QED BY <1>3, FilesAssumption DEF Contract

\* A step that adds nothing, and leaves no row behind that is not accounted for.
Quiet ==
    /\ documents' = documents /\ facts' = facts /\ links' = links
    /\ tasks' = tasks /\ draft' = draft
    /\ DOMAIN scope' = Sessions /\ \A s \in Sessions : todo'[s] \in Seq(DOMAIN Files)

LEMMA QuietGrows ==
    ASSUME Quiet, NEW by \in Sessions \cup {None}
    PROVE  Grows(by, by)
BY SessionsAssumption DEF Quiet, Grows, Raised

LEMMA QuietHandled ==
    ASSUME RowsOfFiles, TasksOfRows, Handled, Quiet,
           \A s \in Sessions, file \in DOMAIN Files : \A i \in DOMAIN Files[file] :
              ToBeRead(s, file, i) => ToBeRead(s, file, i)' \/ HandledTo(s, file, i)'
    PROVE  RowsOfFiles' /\ TasksOfRows' /\ Handled'
<1>1. RowsOfFiles' /\ TasksOfRows'
  BY DEF RowsOfFiles, TasksOfRows, Raised, AboutRow, Quiet
<1>2. ASSUME NEW d \in documents, d.file \in DOMAIN Files, NEW i \in DOMAIN Files[d.file]
      PROVE  HandledTo(d.by, d.file, i)' \/ ToBeRead(d.by, d.file, i)'
  <2>1. d.by \in Sessions \cup {None}
    BY DEF RowsOfFiles
  <2>2. PICK by, file : by = d.by /\ file = d.file
    OBVIOUS
  <2>3. CASE HandledTo(by, file, i)
    <3>1. Grows(by, by)
      BY <2>1, <2>2, QuietGrows
    <3> QED BY <2>2, <2>3, <3>1, StaysHandled
  <2>4. CASE ToBeRead(by, file, i)
    BY <1>2, <2>2, <2>4 DEF ToBeRead
  <2>5. HandledTo(by, file, i) \/ ToBeRead(by, file, i)
    BY <1>2, <2>2, HandledOf
  <2> QED BY <2>2, <2>3, <2>4, <2>5
<1>3. documents' = documents
  BY DEF Quiet
<1> QED BY <1>1, <1>2, <1>3 DEF Handled

\* Sessions that go on where they are.
LEMMA SameWork ==
    ASSUME documents' = documents, NEW s \in Sessions, todo'[s] = todo[s],
           AtWork(s)' => AtWork(s), InOrder
    PROVE  AtWork(s)' => \E j \in 1..(Len(Program[s]) + 1) : Reached(s, j)'
<1> SUFFICES ASSUME AtWork(s)' PROVE \E j \in 1..(Len(Program[s]) + 1) : Reached(s, j)'
  OBVIOUS
<1>1. PICK j \in 1..(Len(Program[s]) + 1) : Reached(s, j)
  BY DEF InOrder
<1> QED BY <1>1 DEF Reached, DocumentStored

LEMMA SameScope ==
    ASSUME ScopeKnown, NEW s \in Plans, Inside(s)' => Inside(s) /\ todo'[s] = todo[s] /\ scope'[s] = scope[s]
    PROVE  Inside(s)' =>
             \E j \in DOMAIN Program[s] :
                /\ Program[s][j] = File(s)'
                /\ \A i \in 1..(j - 1) : \A k \in DOMAIN Files[Program[s][i]] :
                      LET c == Files[Program[s][i]][k]
                      IN  Contract(c) => c.party \in scope'[s] \cup {None}
<1> SUFFICES ASSUME Inside(s)'
             PROVE  \E j \in DOMAIN Program[s] :
                      /\ Program[s][j] = File(s)'
                      /\ \A i \in 1..(j - 1) : \A k \in DOMAIN Files[Program[s][i]] :
                            LET c == Files[Program[s][i]][k]
                            IN  Contract(c) => c.party \in scope'[s] \cup {None}
  OBVIOUS
<1>1. Inside(s) /\ File(s)' = File(s) /\ scope'[s] = scope[s]
  BY DEF File
<1> QED BY <1>1 DEF ScopeKnown

\* Everything at once, for the steps that leave every session where it is.
Resting ==
    /\ Quiet /\ todo' = todo
    /\ \A s \in Sessions : /\ at'[s] = at[s] /\ scope'[s] = scope[s]
                           /\ AtWork(s)' => AtWork(s)
                           /\ Inside(s)' <=> Inside(s)

LEMMA RestingCovers ==
    ASSUME Coverage, Resting PROVE Coverage'
<1>1. \A s \in Sessions : File(s)' = File(s)
  BY DEF Resting, File
<1>2. RowsOfFiles' /\ TasksOfRows' /\ Handled'
  <2>1. \A s \in Sessions, file \in DOMAIN Files : \A i \in DOMAIN Files[file] :
              ToBeRead(s, file, i) => ToBeRead(s, file, i)'
    BY <1>1 DEF Resting, ToBeRead
  <2> QED BY <2>1, QuietHandled DEF Resting, Coverage
<1>3. InOrder'
  BY SameWork DEF Coverage, Resting, InOrder, Quiet
<1>4. ScopeKnown'
  <2>1. ASSUME NEW s \in Plans
        PROVE  Inside(s)' => Inside(s) /\ todo'[s] = todo[s] /\ scope'[s] = scope[s]
    BY DEF Resting, Sessions
  <2> QED BY <2>1, SameScope DEF Coverage, ScopeKnown
<1> QED BY <1>2, <1>3, <1>4 DEF Coverage

LEMMA RestingSteps ==
    ASSUME IInv, Coverage, NEW s \in Sessions,
           \/ New(s) \/ EnterPack(s) \/ Match(s) \/ PostStage(s)
    PROVE  Coverage'
<1>1. /\ documents' = documents /\ facts' = facts /\ tasks' = tasks /\ draft' = draft
      /\ links' = links /\ scope' = scope /\ todo' = todo /\ at' = at
      /\ \E next \in {"insert", "pre", "INVOICE", "PAYMENT", "ready", "done"} :
            /\ pc' = [pc EXCEPT ![s] = next]
            /\ next = "insert" => Reading(s, "row")
            /\ next # "insert" => ~Inside(s)
  <2>1. CASE New(s)
    BY <2>1 DEF New, InRow, Goto, ledger
  <2>2. CASE EnterPack(s)
    BY <2>2 DEF EnterPack, FilesDone, Goto, ledger, Inside
  <2>3. CASE Match(s)
    BY <2>3 DEF Match, Goto, Inside
  <2>4. CASE PostStage(s)
    BY <2>4 DEF PostStage, Goto, Inside
  <2> QED BY <2>1, <2>2, <2>3, <2>4
<1>2. PICK next \in {"insert", "pre", "INVOICE", "PAYMENT", "ready", "done"} :
            /\ pc' = [pc EXCEPT ![s] = next]
            /\ next = "insert" => Reading(s, "row")
            /\ next # "insert" => ~Inside(s)
  BY <1>1
<1>3. \A t \in Sessions : (AtWork(t)' => AtWork(t)) /\ (Inside(t)' <=> Inside(t))
  BY <1>1, <1>2 DEF IInv, Typed, AtWork, Inside, Reading
<1>4. Quiet
  BY <1>1 DEF Quiet, Coverage, RowsOfFiles
<1> QED BY <1>1, <1>3, <1>4, RestingCovers DEF Resting

LEMMA StartCovers ==
    ASSUME IInv, Coverage, NEW s \in Sessions, Start(s) PROVE Coverage'
<1>1. /\ documents' = documents /\ facts' = facts /\ tasks' = tasks /\ draft' = draft
      /\ links' = links /\ scope' = scope /\ at' = at /\ pc[s] = "idle"
      /\ todo' = [todo EXCEPT ![s] = Program[s]] /\ pc' = [pc EXCEPT ![s] = "file"]
  BY DEF Start, Goto, ledger
<1>2. Program[s] \in Seq(DOMAIN Files)
  BY FilesAssumption
<1>3. Quiet
  BY <1>1, <1>2 DEF Quiet, Coverage, RowsOfFiles, IInv, Typed
<1>4. ASSUME NEW t \in Sessions, t # s
      PROVE  /\ todo'[t] = todo[t] /\ File(t)' = File(t)
             /\ (AtWork(t)' <=> AtWork(t)) /\ (Inside(t)' <=> Inside(t))
  BY <1>1, <1>4 DEF IInv, Typed, AtWork, Inside, File
<1>5. ~Inside(s) /\ ~Inside(s)' /\ todo'[s] = Program[s]
  BY <1>1 DEF IInv, Typed, Inside
<1>6. RowsOfFiles' /\ TasksOfRows' /\ Handled'
  <2>1. ASSUME NEW t \in Sessions, NEW file, NEW i, ToBeRead(t, file, i)
        PROVE  ToBeRead(t, file, i)'
    BY <1>1, <1>4, <1>5, <2>1 DEF ToBeRead
  <2> QED BY <1>3, <2>1, QuietHandled DEF Coverage
<1>7. ASSUME NEW t \in Sessions, AtWork(t)'
      PROVE  \E j \in 1..(Len(Program[t]) + 1) : Reached(t, j)'
  <2>1. CASE t = s
    <3>1. 1 \in 1..(Len(Program[s]) + 1) /\ Reached(s, 1)'
      BY <1>2, <1>5 DEF Reached
    <3> QED BY <2>1, <3>1
  <2>2. CASE t # s
    BY <1>1, <1>4, <1>7, <2>2, SameWork DEF Coverage
  <2> QED BY <2>1, <2>2
<1>8. ScopeKnown'
  <2>1. ASSUME NEW t \in Plans
        PROVE  Inside(t)' => Inside(t) /\ todo'[t] = todo[t] /\ scope'[t] = scope[t]
    BY <1>1, <1>4, <1>5 DEF Sessions
  <2> QED BY <2>1, SameScope DEF Coverage, ScopeKnown
<1> QED BY <1>6, <1>7, <1>8 DEF Coverage, InOrder

LEMMA TailIsSeq ==
    ASSUME NEW S, NEW q \in Seq(S), q # <<>>
    PROVE  Tail(q) \in Seq(S)
OBVIOUS

LEMMA TailReaches ==
    ASSUME NEW S, NEW P \in Seq(S), NEW q \in Seq(S), q # <<>>, NEW j \in 1..(Len(P) + 1),
           j + Len(q) = Len(P) + 1, \A k \in 1..Len(q) : q[k] = P[j + k - 1]
    PROVE  /\ Head(q) = P[j] /\ j \in 1..Len(P) /\ Tail(q) \in Seq(S)
           /\ (j + 1) + Len(Tail(q)) = Len(P) + 1
           /\ \A k \in 1..Len(Tail(q)) : Tail(q)[k] = P[(j + 1) + k - 1]
<1>1. /\ Len(P) \in Nat /\ Len(q) \in Nat \ {0} /\ Len(Tail(q)) = Len(q) - 1
      /\ \A k \in 1..Len(Tail(q)) : Tail(q)[k] = q[k + 1]
  OBVIOUS
<1>2. ASSUME NEW k \in 1..Len(Tail(q)) PROVE Tail(q)[k] = P[(j + 1) + k - 1]
  <2>1. k + 1 \in 1..Len(q) /\ j + (k + 1) - 1 = (j + 1) + k - 1
    BY <1>1
  <2> QED BY <1>1, <2>1
<1>3. Head(q) = q[1] /\ j + 1 - 1 = j /\ 1 \in 1..Len(q)
  BY <1>1
<1>4. q[1] = P[j + 1 - 1]
  BY <1>3
<1>5. Head(q) = P[j]
  BY <1>3, <1>4
<1>6. j \in 1..Len(P) /\ (j + 1) + Len(Tail(q)) = Len(P) + 1
  BY <1>1
<1>7. Tail(q) \in Seq(S)
  BY TailIsSeq
<1> QED BY <1>2, <1>5, <1>6, <1>7

\* A session that leaves a file behind, whose document is stored.
LEMMA NextFile ==
    ASSUME NEW s \in Sessions, todo[s] # <<>>, todo[s] \in Seq(DOMAIN Files),
           documents' = documents, todo'[s] = Tail(todo[s]),
           NEW j \in 1..(Len(Program[s]) + 1), Reached(s, j), DocumentStored(s, File(s))
    PROVE  j + 1 \in 1..(Len(Program[s]) + 1) /\ Reached(s, j + 1)'
<1>1. Program[s] \in Seq(DOMAIN Files) /\ Len(Program[s]) \in Nat
  BY FilesAssumption
<1>2. /\ j + Len(todo[s]) = Len(Program[s]) + 1
      /\ \A k \in 1..Len(todo[s]) : todo[s][k] = Program[s][j + k - 1]
      /\ \A i \in 1..(j - 1) : DocumentStored(s, Program[s][i])
  BY DEF Reached
<1>3. /\ File(s) = Program[s][j] /\ j \in 1..Len(Program[s])
      /\ (j + 1) + Len(todo'[s]) = Len(Program[s]) + 1
      /\ \A k \in 1..Len(todo'[s]) : todo'[s][k] = Program[s][(j + 1) + k - 1]
  <2>1. PICK P, q : P = Program[s] /\ q = todo[s]
    OBVIOUS
  <2>2. /\ P \in Seq(DOMAIN Files) /\ q \in Seq(DOMAIN Files) /\ q # <<>>
        /\ j \in 1..(Len(P) + 1) /\ j + Len(q) = Len(P) + 1
        /\ \A k \in 1..Len(q) : q[k] = P[j + k - 1]
    BY <1>1, <1>2, <2>1
  <2>3. /\ Head(q) = P[j] /\ j \in 1..Len(P)
        /\ (j + 1) + Len(Tail(q)) = Len(P) + 1
        /\ \A k \in 1..Len(Tail(q)) : Tail(q)[k] = P[(j + 1) + k - 1]
    BY <2>2, TailReaches
  <2> QED BY <2>1, <2>3 DEF File
<1>4. \A i \in 1..((j + 1) - 1) : DocumentStored(s, Program[s][i])
  <2>1. \A i \in 1..((j + 1) - 1) : i \in 1..(j - 1) \/ i = j
    OBVIOUS
  <2> QED BY <1>2, <1>3, <2>1
<1>5. \A i \in 1..((j + 1) - 1) : DocumentStored(s, Program[s][i])'
  BY <1>4 DEF DocumentStored
<1>6. j + 1 \in 1..(Len(Program[s]) + 1)
  BY <1>1, <1>3
<1> QED BY <1>3, <1>5, <1>6 DEF Reached

LEMMA OpenFileCovers ==
    ASSUME IInv, Coverage, NEW s \in Sessions, OpenFile(s) PROVE Coverage'
<1>1. /\ documents' = documents /\ facts' = facts /\ tasks' = tasks /\ draft' = draft
      /\ links' = links /\ scope' = scope /\ at' = at /\ pc[s] = "file" /\ todo[s] # <<>>
  BY DEF OpenFile, Reading, ledger
<1>2. CASE todo' = todo /\ pc' = [pc EXCEPT ![s] = "document"]
  <2>1. Quiet /\ todo' = todo /\ at' = at /\ scope' = scope
    BY <1>1, <1>2 DEF Quiet, Coverage, RowsOfFiles
  <2>2. \A t \in Sessions : (AtWork(t)' => AtWork(t)) /\ (Inside(t)' <=> Inside(t))
    BY <1>1, <1>2 DEF IInv, Typed, AtWork, Inside
  <2> QED BY <2>1, <2>2, RestingCovers DEF Resting
<1>3. CASE DocumentStored(s, File(s)) /\ pc' = pc /\ todo' = [todo EXCEPT ![s] = Tail(@)]
  <2>1. /\ todo'[s] = Tail(todo[s]) /\ ~Inside(s) /\ ~Inside(s)'
        /\ \A t \in Sessions : t # s => /\ todo'[t] = todo[t] /\ File(t)' = File(t)
                                        /\ (Inside(t)' <=> Inside(t)) /\ (AtWork(t)' <=> AtWork(t))
    BY <1>1, <1>3 DEF IInv, Typed, Inside, AtWork, File
  <2>2. todo[s] \in Seq(DOMAIN Files) /\ Tail(todo[s]) \in Seq(DOMAIN Files)
    <3>1. todo[s] \in Seq(DOMAIN Files)
      BY DEF Coverage, RowsOfFiles
    <3> QED BY <1>1, <3>1, TailIsSeq
  <2>3. Quiet
    BY <1>1, <2>1, <2>2 DEF Quiet, Coverage, RowsOfFiles
  <2>4. RowsOfFiles' /\ TasksOfRows' /\ Handled'
    <3>1. ASSUME NEW t \in Sessions, NEW file, NEW i, ToBeRead(t, file, i)
          PROVE  ToBeRead(t, file, i)'
      BY <1>1, <2>1, <3>1 DEF ToBeRead
    <3> QED BY <2>3, <3>1, QuietHandled DEF Coverage
  <2>5. ASSUME NEW t \in Sessions, AtWork(t)'
        PROVE  \E j \in 1..(Len(Program[t]) + 1) : Reached(t, j)'
    <3>1. CASE t = s
      <4>1. PICK j \in 1..(Len(Program[s]) + 1) : Reached(s, j)
        BY <1>1 DEF Coverage, InOrder, AtWork
      <4> QED BY <1>1, <1>3, <2>1, <2>2, <3>1, <4>1, NextFile
    <3>2. CASE t # s
      BY <1>1, <2>1, <2>5, <3>2, SameWork DEF Coverage
    <3> QED BY <3>1, <3>2
  <2>6. ScopeKnown'
    <3>1. ASSUME NEW t \in Plans
          PROVE  Inside(t)' => Inside(t) /\ todo'[t] = todo[t] /\ scope'[t] = scope[t]
      BY <1>1, <2>1 DEF Sessions
    <3> QED BY <3>1, SameScope DEF Coverage, ScopeKnown
  <2> QED BY <2>4, <2>5, <2>6 DEF Coverage, InOrder
<1> QED BY <1>2, <1>3 DEF OpenFile, Goto, DocumentStored, Visible

\* Who inserts the document of a file knows the contracts of the files before.
LEMMA ScopeIsKnown ==
    ASSUME IInv, Coverage, NEW s \in Sessions, ~Inside(s),
           NEW file \in DOMAIN Files, DocumentStored(s, file), NEW k \in DOMAIN Files[file],
           Contract(Files[file][k])
    PROVE  Files[file][k].party \in {f.row.party : f \in OfKind(Visible(s, facts), "CONTRACT")}
<1>1. PICK d \in documents : d.by \in {None, s} /\ d.file = file
  BY DEF DocumentStored
<1>2. HandledTo(d.by, file, k)
  BY <1>1, HandledOf, SessionsAssumption DEF Coverage, ToBeRead
<1>3. PICK f \in facts : /\ f.by \in {None, d.by} /\ f.row.kind = "CONTRACT"
                         /\ f.row.id = Files[file][k].id
  BY <1>2 DEF HandledTo, KnownTo
<1>4. f.row.party = Files[file][k].party
  BY <1>3, KnownParty DEF Coverage
<1>5. f \in OfKind(Visible(s, facts), "CONTRACT")
  BY <1>1, <1>3 DEF OfKind, Visible
<1> QED BY <1>4, <1>5

LEMMA InsertDocumentCovers ==
    ASSUME IInv, Coverage, NEW s \in Sessions, InsertDocument(s) PROVE Coverage'
<1> DEFINE new == [file |-> File(s), by |-> s]
           parties == {f.row.party : f \in OfKind(Visible(s, facts), "CONTRACT")}
<1>1. /\ documents' = documents \cup {new} /\ facts' = facts /\ todo' = todo
      /\ tasks' = tasks /\ draft' = draft /\ links' = links
      /\ \A d \in documents : d.file # File(s)
      /\ at' = [at EXCEPT ![s] = 1] /\ pc' = [pc EXCEPT ![s] = "row"]
      /\ scope' = [scope EXCEPT ![s] = parties \ {None}]
      /\ pc[s] = "document" /\ todo[s] # <<>>
  BY DEF InsertDocument, Document, Goto, Reading
<1> HIDE DEF parties
<1>2. /\ ~Inside(s) /\ Inside(s)' /\ at'[s] = 1 /\ scope'[s] = parties \ {None} /\ AtWork(s)
      /\ \A t \in Sessions : t # s => /\ at'[t] = at[t] /\ scope'[t] = scope[t]
                                      /\ (Inside(t)' <=> Inside(t)) /\ (AtWork(t)' <=> AtWork(t))
      /\ \A t \in Sessions : File(t)' = File(t)
  BY <1>1 DEF IInv, Typed, Coverage, RowsOfFiles, Inside, AtWork, File
<1>3. RowsOfFiles' /\ TasksOfRows'
  BY <1>1 DEF Coverage, RowsOfFiles, TasksOfRows, Raised, AboutRow
<1>4. ASSUME NEW by, NEW file, NEW i, HandledTo(by, file, i) PROVE HandledTo(by, file, i)'
  <2>1. Grows(by, by)
    BY <1>1 DEF Grows, Raised
  <2> QED BY <1>4, <2>1, StaysHandled
<1>5. Handled'
  <2>1. ASSUME NEW d \in documents', d.file \in DOMAIN Files, NEW i \in DOMAIN Files[d.file]
        PROVE  HandledTo(d.by, d.file, i)' \/ ToBeRead(d.by, d.file, i)'
    <3>1. CASE d = new
      <4>1. i \in Nat /\ 1 <= i
        BY <2>1, FilesAreSequences
      <4> QED BY <1>2, <3>1, <4>1 DEF ToBeRead
    <3>2. CASE d \in documents
      <4>1. CASE HandledTo(d.by, d.file, i)
        BY <1>4, <4>1
      <4>2. CASE ToBeRead(d.by, d.file, i)
        BY <1>2, <4>2 DEF ToBeRead
      <4> QED BY <2>1, <3>2, <4>1, <4>2, HandledOf DEF Coverage
    <3> QED BY <1>1, <3>1, <3>2
  <2> QED BY <2>1 DEF Handled
<1>6. ASSUME NEW t \in Sessions, AtWork(t)'
      PROVE  \E j \in 1..(Len(Program[t]) + 1) : Reached(t, j)'
  <2>1. PICK j \in 1..(Len(Program[t]) + 1) : Reached(t, j)
    BY <1>2, <1>6 DEF Coverage, InOrder
  <2>2. \A file : DocumentStored(t, file) => DocumentStored(t, file)'
    BY <1>1 DEF DocumentStored
  <2> QED BY <1>1, <2>1, <2>2 DEF Reached
<1>7. ASSUME NEW t \in Plans, Inside(t)'
      PROVE  \E j \in DOMAIN Program[t] :
                /\ Program[t][j] = File(t)'
                /\ \A i \in 1..(j - 1) : \A k \in DOMAIN Files[Program[t][i]] :
                      LET c == Files[Program[t][i]][k]
                      IN  Contract(c) => c.party \in scope'[t] \cup {None}
  <2>1. t \in Sessions
    BY DEF Sessions
  <2>2. CASE t = s
    <3>1. PICK j \in 1..(Len(Program[s]) + 1) : Reached(s, j)
      BY <1>2 DEF Coverage, InOrder
    <3>2. Program[s] \in Seq(DOMAIN Files) /\ todo[s] \in Seq(DOMAIN Files)
      BY FilesAssumption DEF Coverage, RowsOfFiles
    <3>3. File(s) = Program[s][j] /\ j \in DOMAIN Program[s]
      <4>1. PICK P, q : P = Program[s] /\ q = todo[s]
        OBVIOUS
      <4>2. /\ P \in Seq(DOMAIN Files) /\ q \in Seq(DOMAIN Files) /\ q # <<>>
            /\ j \in 1..(Len(P) + 1) /\ j + Len(q) = Len(P) + 1
            /\ \A k \in 1..Len(q) : q[k] = P[j + k - 1]
        BY <1>1, <3>1, <3>2, <4>1 DEF Reached
      <4>3. Head(q) = P[j] /\ j \in 1..Len(P)
        BY <4>2, TailReaches
      <4> QED BY <4>1, <4>2, <4>3 DEF File
    <3>4. ASSUME NEW i \in 1..(j - 1), NEW k \in DOMAIN Files[Program[s][i]],
                 Contract(Files[Program[s][i]][k])
          PROVE  Files[Program[s][i]][k].party \in parties
      <4>1. PICK file : file = Program[s][i]
        OBVIOUS
      <4>2. file \in DOMAIN Files
        BY <3>2, <3>3, <4>1
      <4>3. DocumentStored(s, file)
        BY <3>1, <4>1 DEF Reached
      <4> QED BY <1>2, <3>4, <4>1, <4>2, <4>3, ScopeIsKnown DEF parties
    <3> QED BY <1>2, <2>2, <3>3, <3>4
  <2>3. CASE t # s
    <3>1. Inside(t)' => Inside(t) /\ todo'[t] = todo[t] /\ scope'[t] = scope[t]
      BY <1>1, <1>2, <2>1, <2>3
    <3> QED BY <1>7, <3>1, SameScope DEF Coverage
  <2> QED BY <2>2, <2>3
<1> QED BY <1>3, <1>5, <1>6, <1>7 DEF Coverage, InOrder, ScopeKnown

\* A payment that is excluded is out of scope.
LEMMA ExcludedIsOutside ==
    ASSUME Coverage, NEW s \in Plans, Inside(s), Excluded(s, Now(s))
    PROVE  Outside(Now(s), File(s))
<1>1. PICK r : r = Now(s)
  OBVIOUS
<1>2. r.dismissed \/ (r.out /\ r.party # None /\ r.party \notin scope[s])
  BY <1>1 DEF Excluded
<1>3. PICK j \in DOMAIN Program[s] :
         /\ Program[s][j] = File(s)
         /\ \A i \in 1..(j - 1) : \A k \in DOMAIN Files[Program[s][i]] :
               LET c == Files[Program[s][i]][k]
               IN  Contract(c) => c.party \in scope[s] \cup {None}
  BY DEF Coverage, ScopeKnown
<1>4. CASE r.out /\ r.party # None /\ r.party \notin scope[s]
  <2>1. \A i \in 1..(j - 1) : \A k \in DOMAIN Files[Program[s][i]] :
               LET c == Files[Program[s][i]][k]
               IN  c.kind = "CONTRACT" /\ c.id # None => c.party # r.party
    BY <1>3, <1>4 DEF Contract
  <2> QED BY <1>1, <1>3, <1>4, <2>1 DEF Outside
<1>5. CASE r.dismissed
  BY <1>1, <1>5 DEF Outside
<1> QED BY <1>2, <1>4, <1>5

\* A task that is raised, or reused, for the row at hand tells of it.
LEMMA TaskKeyNamesKind ==
    ASSUME NEW r, NEW i PROVE TaskKey(r, i)[1] = r.kind
BY DEF TaskKey

LEMMA TaskTells ==
    ASSUME TasksOfRows, NEW s \in Sessions, NEW reason,
           NEW file \in DOMAIN Files, NEW i \in DOMAIN Files[file], file = File(s), i = at[s],
           tasks' = tasks,
           draft'[s] = draft[s] \cup BackfillTask(s, reason, TaskKey(Files[file][i], i))
    PROVE  ToldTo(s, Files[file][i], <<file, i>>)'
<1> DEFINE where == <<file, i>>
<1>1. PICK r, key : r = Files[file][i] /\ key = TaskKey(r, i)
  OBVIOUS
<1>2. s # None /\ Raised(s) = tasks \cup draft[s]
      /\ Raised(s)' = Raised(s) \cup BackfillTask(s, reason, key)
  BY <1>1, SessionsAssumption DEF Raised
<1>3. \E t \in Raised(s)' : t.key = key /\ (t.at = where \/ KeyShared(r, where))
  <2>1. CASE BackfillTask(s, reason, key) = {}
    <3>1. PICK t \in Raised(s) : t.key = key
      BY <1>2, <2>1 DEF BackfillTask
    <3>2. AboutRow(t)
      BY <3>1 DEF TasksOfRows
    <3>3. t.key[1] # "SCOPE"
      <4>1. key[1] = r.kind
        BY <1>1, TaskKeyNamesKind
      <4>2. r.kind # "SCOPE"
        BY <1>1, FilesAssumption
      <4> QED BY <3>1, <4>1, <4>2
    <3>4. PICK g \in DOMAIN Files : \E j \in DOMAIN Files[g] :
             t.at = <<g, j>> /\ t.key = TaskKey(Files[g][j], j)
      BY <3>2, <3>3 DEF AboutRow
    <3>5. PICK j \in DOMAIN Files[g] : t.at = <<g, j>> /\ t.key = TaskKey(Files[g][j], j)
      BY <3>4
    <3>6. t.at # where => KeyShared(r, where)
      BY <1>1, <3>1, <3>5 DEF KeyShared
    <3> QED BY <1>2, <3>1, <3>6
  <2>2. CASE BackfillTask(s, reason, key) # {}
    <3>1. PICK t : t = [reason |-> reason, key |-> key, at |-> where]
      OBVIOUS
    <3>2. BackfillTask(s, reason, key) = {t}
      BY <2>2, <3>1 DEF BackfillTask
    <3>3. t.key = key /\ t.at = where
      BY <3>1
    <3> QED BY <1>2, <3>2, <3>3
  <2> QED BY <2>1, <2>2
<1>4. where[2] = i
  OBVIOUS
<1> QED BY <1>1, <1>3, <1>4 DEF ToldTo

\* The tasks that are raised for the row at hand.
Drafted(s, raised) ==
    /\ DOMAIN draft' = Sessions /\ draft'[s] = draft[s] \cup raised
    /\ \A t \in Sessions \ {s} : draft'[t] = draft[t]

LEMMA RaisedAboutRows ==
    ASSUME RowsOfFiles, TasksOfRows, NEW s \in Sessions, NEW raised,
           \A t \in raised : AboutRow(t),
           tasks' = tasks, Drafted(s, raised)
    PROVE  TasksOfRows'
<1> SUFFICES ASSUME NEW by \in Sessions \cup {None}, NEW t \in Raised(by)' PROVE AboutRow(t)
  BY DEF TasksOfRows, AboutRow
<1>1. Raised(by)' \subseteq Raised(by) \cup raised
  BY SessionsAssumption DEF Raised, Drafted
<1> QED BY <1>1 DEF TasksOfRows

LEMMA AtHandInFile ==
    ASSUME IInv, RowsOfFiles, RowAtHand, NEW s \in Sessions, Inside(s),
           at[s] <= Len(Files[File(s)])
    PROVE  File(s) \in DOMAIN Files /\ at[s] \in DOMAIN Files[File(s)]
<1>1. todo[s] \in Seq(DOMAIN Files) /\ todo[s] # <<>>
  BY DEF RowsOfFiles, Inside
<1>2. File(s) \in DOMAIN Files
  BY <1>1 DEF File
<1>3. at[s] \in Nat /\ at[s] # 0
  BY DEF RowAtHand, IInv, Typed
<1> QED BY <1>2, <1>3, FilesAreSequences

LEMMA BackfillTaskAbout ==
    ASSUME NEW s, NEW reason, NEW key,
           File(s) \in DOMAIN Files, at[s] \in DOMAIN Files[File(s)],
           key[1] = "SCOPE" \/ key = TaskKey(Now(s), at[s])
    PROVE  \A t \in BackfillTask(s, reason, key) : AboutRow(t)
<1> SUFFICES ASSUME NEW t \in BackfillTask(s, reason, key), t.key[1] # "SCOPE"
             PROVE  \E f \in DOMAIN Files : \E j \in DOMAIN Files[f] :
                      t.at = <<f, j>> /\ t.key = TaskKey(Files[f][j], j)
  BY DEF AboutRow
<1>1. t.key = key /\ t.at = <<File(s), at[s]>>
  BY DEF BackfillTask
<1>2. t.key = TaskKey(Files[File(s)][at[s]], at[s])
  BY <1>1 DEF Now
<1> QED BY <1>1, <1>2

\* What a plan passes over is accounted for.
LEMMA RowIsHandled ==
    ASSUME IInv, Coverage, RowAtHand, NEW s \in Sessions,
           Exclude(s) \/ IdentityIncomplete(s) \/ Ambiguous(s) \/ Conflict(s),
           NEW file, NEW i, file = File(s), i = at[s]
    PROVE  /\ HandledTo(s, file, i)'
           /\ \E raised : Proceed(s, raised) /\ \A t \in raised : AboutRow(t)
           /\ InRow(s)
<1>0. InRow(s) /\ s \in Plans /\ Inside(s) /\ s # None
  BY SessionsAssumption
     DEF Exclude, IdentityIncomplete, Ambiguous, Conflict, Meets, InRow, Reading, Inside, Sessions
<1>1. i = at[s] /\ file = File(s) /\ file \in DOMAIN Files /\ i \in DOMAIN Files[file]
  BY <1>0, AtHandInFile DEF InRow, Coverage
<1>2. PICK r : r = Now(s) /\ r = Files[file][i]
  BY <1>1 DEF Now
<1>3. CASE Exclude(s)
  <2>1. Proceed(s, {}) /\ Excluded(s, Now(s)) /\ r.kind = "PAYMENT"
    BY <1>2, <1>3 DEF Exclude, Excluded
  <2>2. Outside(r, file)
    BY <1>0, <1>1, <1>2, <2>1, ExcludedIsOutside
  <2>3. AccountedTo(s, Files[file][i], <<file, i>>)'
    BY <1>2, <2>2 DEF AccountedTo, Outside
  <2>4. KnownTo(s, Files[file][i])'
    BY <1>2, <2>1 DEF KnownTo, Contract
  <2> QED BY <1>0, <2>1, <2>3, <2>4 DEF HandledTo
<1>4. ASSUME NEW reason, Proceed(s, BackfillTask(s, reason, TaskKey(r, i))), KnownTo(s, r)'
      PROVE  /\ HandledTo(s, file, i)'
             /\ \E raised : Proceed(s, raised) /\ \A t \in raised : AboutRow(t)
  <2>1. PICK raised : raised = BackfillTask(s, reason, TaskKey(r, i))
    OBVIOUS
  <2>2. tasks' = tasks /\ draft' = [draft EXCEPT ![s] = @ \cup raised]
    BY <1>4, <2>1 DEF Proceed, ledger
  <2>3. draft'[s] = draft[s] \cup raised
    BY <2>2 DEF Coverage, RowsOfFiles
  <2>4. ToldTo(s, Files[file][i], <<file, i>>)'
    BY <1>1, <1>2, <2>1, <2>2, <2>3, TaskTells DEF Coverage
  <2>5. AccountedTo(s, Files[file][i], <<file, i>>)'
    BY <2>4 DEF AccountedTo
  <2>6. \A t \in raised : AboutRow(t)
    BY <1>1, <1>2, <2>1, BackfillTaskAbout
  <2> QED BY <1>2, <1>4, <2>1, <2>5, <2>6 DEF HandledTo
<1>5. CASE IdentityIncomplete(s)
  <2>1. Proceed(s, BackfillTask(s, "IDENTITY_INCOMPLETE", TaskKey(r, i))) /\ r.id = None
    BY <1>1, <1>2, <1>5 DEF IdentityIncomplete
  <2>2. KnownTo(s, r)'
    BY <1>2, <2>1 DEF KnownTo, Contract
  <2> QED BY <1>0, <1>4, <2>1, <2>2
<1>6. CASE Ambiguous(s) \/ Conflict(s)
  <2>1. PICK reason : Proceed(s, BackfillTask(s, reason, TaskKey(r, i)))
    BY <1>1, <1>2, <1>6 DEF Ambiguous, Conflict
  <2>2. r.id # None /\ Known(s, r) # {}
    BY <1>2, <1>6 DEF Ambiguous, Conflict, Meets
  <2>3. PICK f \in Known(s, r) : TRUE
    BY <2>2
  <2>4. f \in facts /\ f.by \in {None, s} /\ f.row.kind = r.kind /\ f.row.id = r.id
    BY <2>3 DEF Known, Named, OfKind, Visible
  <2>5. facts' = facts
    BY <2>1 DEF Proceed, ledger
  <2>6. KnownTo(s, r)'
    BY <1>2, <2>4, <2>5 DEF KnownTo, Contract
  <2> QED BY <1>0, <1>4, <2>1, <2>6
<1> QED BY <1>0, <1>3, <1>5, <1>6

\* The row of a contract that was created or corroborated keeps its scope.
LEMMA ScopeIsKept ==
    ASSUME RowsOfFiles, NEW s \in Sessions, NEW c, KeepScope(s, c), tasks' = tasks,
           NEW r, r = Now(s)
    PROVE  /\ ScopeKeptTo(s, r, c)'
           /\ links \subseteq links'
           /\ \A l \in links' : l = [contract |-> l.contract, sales |-> l.sales, by |-> l.by]
           /\ \E raised : /\ Drafted(s, raised)
                          /\ raised = {} \/ \E q : raised = BackfillTask(s, "CONFLICT", ScopeKey(q))
<1> DEFINE linked   == \E l \in Visible(s, links) : l.contract = c /\ l.sales = r.sales
           disputed == r.sales \in Disputed
           raised   == IF Scoped(r) /\ disputed THEN BackfillTask(s, "CONFLICT", ScopeKey(r)) ELSE {}
<1>1. /\ links' = IF Scoped(r) /\ ~disputed /\ ~linked
                  THEN links \cup {[contract |-> c, sales |-> r.sales, by |-> s]} ELSE links
      /\ draft' = IF Scoped(r) /\ disputed
                  THEN [draft EXCEPT ![s] = @ \cup BackfillTask(s, "CONFLICT", ScopeKey(r))]
                  ELSE draft
  BY DEF KeepScope
<1>2. Drafted(s, raised)
  <2>1. CASE Scoped(r) /\ disputed
    BY <1>1, <2>1 DEF RowsOfFiles, Drafted
  <2>2. CASE ~(Scoped(r) /\ disputed)
    BY <1>1, <2>2 DEF RowsOfFiles, Drafted
  <2> QED BY <2>1, <2>2
<1>3. Raised(s)' = Raised(s) \cup raised /\ Raised(s) = tasks \cup draft[s]
  BY <1>2, SessionsAssumption DEF Raised, Drafted
<1>4. ASSUME Scoped(r)
      PROVE  \/ \E l \in links' : l.by \in {None, s} /\ l.contract = c /\ l.sales = r.sales
             \/ \E t \in Raised(s)' : t.key = ScopeKey(r)
  <2>1. CASE disputed
    <3>1. PICK key : key = ScopeKey(r)
      OBVIOUS
    <3>2. raised = BackfillTask(s, "CONFLICT", key)
      BY <1>4, <2>1, <3>1
    <3>3. \E t \in Raised(s) \cup BackfillTask(s, "CONFLICT", key) : t.key = key
      <4>1. CASE \E t \in Raised(s) : t.key = key
        BY <4>1
      <4>2. CASE ~\E t \in Raised(s) : t.key = key
        <5>1. PICK t : t = [reason |-> "CONFLICT", key |-> key, at |-> <<File(s), at[s]>>]
          OBVIOUS
        <5>2. BackfillTask(s, "CONFLICT", key) = {t} /\ t.key = key
          BY <1>3, <4>2, <5>1 DEF BackfillTask
        <5> QED BY <5>2
      <4> QED BY <4>1, <4>2
    <3> QED BY <1>3, <3>1, <3>2, <3>3
  <2>2. CASE ~disputed /\ linked
    BY <1>1, <2>2 DEF Visible
  <2>3. CASE ~disputed /\ ~linked
    <3>1. PICK l : l = [contract |-> c, sales |-> r.sales, by |-> s]
      OBVIOUS
    <3>2. l \in links' /\ l.by = s /\ l.contract = c /\ l.sales = r.sales
      BY <1>1, <1>4, <2>3, <3>1
    <3> QED BY <3>2
  <2> QED BY <2>1, <2>2, <2>3
<1>5. ScopeKeptTo(s, r, c)'
  BY <1>4 DEF ScopeKeptTo, Scoped, ScopeKey
<1>6. links \subseteq links'
  BY <1>1
<1>7. \A l \in links' : l = [contract |-> l.contract, sales |-> l.sales, by |-> l.by]
  BY <1>1 DEF RowsOfFiles
<1> QED BY <1>2, <1>5, <1>6, <1>7

LEMMA ScopeTasksAbout ==
    ASSUME RowsOfFiles, TasksOfRows, NEW s \in Sessions, NEW raised, tasks' = tasks,
           File(s) \in DOMAIN Files, at[s] \in DOMAIN Files[File(s)],
           Drafted(s, raised),
           raised = {} \/ \E q : raised = BackfillTask(s, "CONFLICT", ScopeKey(q))
    PROVE  TasksOfRows' /\ DOMAIN draft' = Sessions /\ \A t \in Sessions : draft[t] \subseteq draft'[t]
<1>1. \A q : ScopeKey(q)[1] = "SCOPE"
  BY DEF ScopeKey
<1>2. \A t \in raised : AboutRow(t)
  BY <1>1, BackfillTaskAbout
<1>3. TasksOfRows'
  BY <1>2, RaisedAboutRows
<1> QED BY <1>3 DEF Drafted

\* A session that goes on to the next row of its file.
LEMMA NextRowCovers ==
    ASSUME IInv, Coverage, NEW s \in Sessions, Inside(s),
           facts \subseteq facts', links \subseteq links', documents' = documents,
           RowsOfFiles', TasksOfRows', tasks \subseteq tasks', \A t \in Sessions : draft[t] \subseteq draft'[t],
           scope' = scope, todo' = todo,
           at' = [at EXCEPT ![s] = @ + 1],
           Inside(s)', \A t \in Sessions : t # s => pc'[t] = pc[t],
           \A file, i : file = File(s) /\ i = at[s] => HandledTo(s, file, i)'
    PROVE  Coverage'
<1>1. /\ at[s] \in Nat /\ at'[s] = at[s] + 1 /\ \A t \in Sessions : t # s => at'[t] = at[t]
      /\ \A t \in Sessions : File(t)' = File(t) /\ (Inside(t)' <=> Inside(t)) /\ (AtWork(t)' <=> AtWork(t))
  BY DEF IInv, Typed, File, Inside, AtWork
<1>2. ASSUME NEW by \in Sessions \cup {None}, NEW file, NEW i, HandledTo(by, file, i)
      PROVE  HandledTo(by, file, i)'
  <2>1. Grows(by, by)
    BY DEF Grows, Raised
  <2> QED BY <1>2, <2>1, StaysHandled
<1>3. Handled'
  <2>1. ASSUME NEW d \in documents, d.file \in DOMAIN Files, NEW i \in DOMAIN Files[d.file]
        PROVE  HandledTo(d.by, d.file, i)' \/ ToBeRead(d.by, d.file, i)'
    <3>1. d.by \in Sessions \cup {None} /\ i \in Nat
      BY <2>1, FilesAreSequences DEF Coverage, RowsOfFiles
    <3>2. CASE HandledTo(d.by, d.file, i)
      BY <1>2, <3>1, <3>2
    <3>3. CASE ToBeRead(d.by, d.file, i) /\ d.by = s /\ i = at[s]
      BY <3>3 DEF ToBeRead
    <3>4. CASE ToBeRead(d.by, d.file, i) /\ ~(d.by = s /\ i = at[s])
      BY <1>1, <3>1, <3>4 DEF ToBeRead
    <3> QED BY <2>1, <3>2, <3>3, <3>4, HandledOf DEF Coverage
  <2> QED BY <2>1 DEF Handled
<1>4. InOrder'
  BY <1>1, SameWork DEF Coverage, InOrder
<1>5. ScopeKnown'
  <2>1. ASSUME NEW t \in Plans
        PROVE  Inside(t)' => Inside(t) /\ todo'[t] = todo[t] /\ scope'[t] = scope[t]
    BY <1>1 DEF Sessions
  <2> QED BY <2>1, SameScope DEF Coverage, ScopeKnown
<1> QED BY <1>3, <1>4, <1>5 DEF Coverage

LEMMA ProceedCovers ==
    ASSUME IInv, Coverage, RowAtHand, NEW s \in Sessions,
           Exclude(s) \/ IdentityIncomplete(s) \/ Ambiguous(s) \/ Conflict(s)
    PROVE  Coverage'
<1>1. /\ \A file, i : file = File(s) /\ i = at[s] => HandledTo(s, file, i)'
      /\ \E raised : Proceed(s, raised) /\ \A t \in raised : AboutRow(t)
      /\ InRow(s)
  BY RowIsHandled
<1>2. PICK raised : Proceed(s, raised) /\ \A t \in raised : AboutRow(t)
  BY <1>1
<1>3. /\ documents' = documents /\ facts' = facts /\ tasks' = tasks /\ scope' = scope /\ todo' = todo
      /\ links' = links /\ pc' = pc /\ at' = [at EXCEPT ![s] = @ + 1]
      /\ draft' = [draft EXCEPT ![s] = @ \cup raised]
  BY <1>2 DEF Proceed, ledger
<1>4. Inside(s) /\ Inside(s)'
  BY <1>1, <1>3 DEF InRow, Reading, Inside
<1>5. RowsOfFiles' /\ \A t \in Sessions : draft[t] \subseteq draft'[t]
  BY <1>3 DEF Coverage, RowsOfFiles
<1>6. TasksOfRows'
  <2>1. Drafted(s, raised)
    BY <1>3 DEF Drafted, Coverage, RowsOfFiles
  <2> QED BY <1>2, <1>3, <2>1, RaisedAboutRows DEF Coverage
<1> QED BY <1>1, <1>3, <1>4, <1>5, <1>6, NextRowCovers

LEMMA CorroborateCovers ==
    ASSUME IInv, Coverage, RowAtHand, NEW s \in Sessions, Corroborate(s) PROVE Coverage'
<1>1. PICK f \in facts : Corroborates(s, f) /\ KeepScope(s, f.at)
  BY DEF Corroborate
<1>2. /\ documents' = documents /\ facts' = facts /\ tasks' = tasks /\ scope' = scope /\ todo' = todo
      /\ pc' = pc /\ at' = [at EXCEPT ![s] = @ + 1]
  BY DEF Corroborate
<1>3. InRow(s) /\ Inside(s) /\ Inside(s)'
  BY <1>1, <1>2 DEF Corroborates, Meets, InRow, Reading, Inside
<1>4. PICK r, place : r = Now(s) /\ place = f.at
  OBVIOUS
<1>5. /\ f.by \in {None, s} /\ f.row.kind = r.kind /\ f.row.id = r.id /\ r.id # None
      /\ f.row.content = r.content
  BY <1>1, <1>4 DEF Corroborates, Meets, Known, Named, OfKind, Visible
<1>6. KeepScope(s, place)
  BY <1>1, <1>4
<1>7. /\ ScopeKeptTo(s, r, place)'
      /\ links \subseteq links'
      /\ \A l \in links' : l = [contract |-> l.contract, sales |-> l.sales, by |-> l.by]
      /\ \E raised : /\ Drafted(s, raised)
                     /\ raised = {} \/ \E q : raised = BackfillTask(s, "CONFLICT", ScopeKey(q))
  BY <1>2, <1>4, <1>6, ScopeIsKept DEF Coverage
<1>8. File(s) \in DOMAIN Files /\ at[s] \in DOMAIN Files[File(s)]
  BY <1>3, AtHandInFile DEF InRow, Coverage
<1>9. TasksOfRows' /\ DOMAIN draft' = Sessions /\ \A t \in Sessions : draft[t] \subseteq draft'[t]
  BY <1>2, <1>7, <1>8, ScopeTasksAbout DEF Coverage
<1>10. RowsOfFiles'
  BY <1>2, <1>7, <1>9 DEF Coverage, RowsOfFiles
<1>11. ASSUME NEW file, NEW i, file = File(s), i = at[s] PROVE HandledTo(s, file, i)'
  <2>1. r = Files[file][i] /\ f \in facts'
    BY <1>2, <1>4, <1>11 DEF Now
  <2>2. StandsTo(s, r, <<file, i>>)'
    BY <1>4, <1>5, <1>7, <2>1 DEF StandsTo, ScopeKeptTo
  <2>3. KnownTo(s, r)'
    BY <1>5, <2>1 DEF KnownTo, Contract
  <2> QED BY <2>1, <2>2, <2>3 DEF HandledTo, AccountedTo
<1> QED BY <1>2, <1>3, <1>7, <1>9, <1>10, <1>11, NextRowCovers

LEMMA InsertFactCovers ==
    ASSUME IInv, Coverage, RowAtHand, NEW s \in Sessions, InsertFact(s) PROVE Coverage'
<1> DEFINE new == [row |-> Now(s), at |-> <<File(s), at[s]>>, by |-> s]
<1>1. /\ documents' = documents /\ facts' = facts \cup {new} /\ todo' = todo /\ tasks' = tasks
      /\ KeepScope(s, <<File(s), at[s]>>) /\ scope' = scope
      /\ at' = [at EXCEPT ![s] = @ + 1] /\ pc' = [pc EXCEPT ![s] = "row"]
      /\ pc[s] = "insert" /\ todo[s] # <<>>
  BY DEF InsertFact, Goto, Reading
<1>2. Inside(s) /\ Inside(s)' /\ \A t \in Sessions : t # s => pc'[t] = pc[t]
  BY <1>1 DEF Inside, IInv, Typed
<1>3. File(s) \in DOMAIN Files /\ at[s] \in DOMAIN Files[File(s)]
  <2>1. at[s] <= Len(Files[File(s)])
    BY <1>1, <1>2 DEF RowAtHand
  <2> QED BY <1>2, <2>1, AtHandInFile DEF Coverage
<1>4. PICK r, place : r = Now(s) /\ place = <<File(s), at[s]>>
  OBVIOUS
<1>5. /\ ScopeKeptTo(s, r, place)'
      /\ links \subseteq links'
      /\ \A l \in links' : l = [contract |-> l.contract, sales |-> l.sales, by |-> l.by]
      /\ \E raised : /\ Drafted(s, raised)
                     /\ raised = {} \/ \E q : raised = BackfillTask(s, "CONFLICT", ScopeKey(q))
  <2>1. KeepScope(s, place)
    BY <1>1, <1>4
  <2> QED BY <1>1, <1>4, <2>1, ScopeIsKept DEF Coverage
<1>6. TasksOfRows' /\ DOMAIN draft' = Sessions /\ \A t \in Sessions : draft[t] \subseteq draft'[t]
  BY <1>1, <1>3, <1>5, ScopeTasksAbout DEF Coverage
<1>7. RowsOfFiles'
  <2>1. /\ new.by \in Sessions /\ new.at = <<new.at[1], new.at[2]>>
        /\ new.at[1] \in DOMAIN Files /\ new.at[2] \in DOMAIN Files[new.at[1]]
        /\ new.row = Files[new.at[1]][new.at[2]]
    BY <1>3 DEF Now
  <2> HIDE DEF new
  <2> QED BY <1>1, <1>5, <1>6, <2>1 DEF Coverage, RowsOfFiles
<1>8. ASSUME NEW file, NEW i, file = File(s), i = at[s] PROVE HandledTo(s, file, i)'
  <2>1. /\ new \in facts' /\ new.by = s /\ new.at = place /\ place = <<file, i>>
        /\ new.row = r /\ r = Files[file][i]
    BY <1>1, <1>4, <1>8 DEF Now
  <2> HIDE DEF new
  <2>2. StandsTo(s, r, place)'
    BY <1>5, <2>1 DEF StandsTo, ScopeKeptTo
  <2>3. KnownTo(s, r)'
    BY <2>1 DEF KnownTo, Contract
  <2> QED BY <2>1, <2>2, <2>3 DEF HandledTo, AccountedTo
<1> QED BY <1>1, <1>2, <1>5, <1>6, <1>7, <1>8, NextRowCovers

LEMMA CloseFileCovers ==
    ASSUME IInv, Coverage, NEW s \in Sessions, CloseFile(s) PROVE Coverage'
<1>1. /\ documents' = documents /\ facts' = facts /\ tasks' = tasks /\ draft' = draft
      /\ links' = links /\ scope' = scope /\ pc[s] = "row" /\ todo[s] # <<>> /\ at[s] > Len(Files[File(s)])
      /\ todo' = [todo EXCEPT ![s] = Tail(@)] /\ at' = [at EXCEPT ![s] = 0]
      /\ pc' = [pc EXCEPT ![s] = "file"]
  BY DEF CloseFile, Reading, Goto, ledger
<1>2. /\ todo'[s] = Tail(todo[s]) /\ Inside(s) /\ ~Inside(s)' /\ AtWork(s)
      /\ \A t \in Sessions : t # s =>
            /\ todo'[t] = todo[t] /\ File(t)' = File(t) /\ at'[t] = at[t]
            /\ (Inside(t)' <=> Inside(t)) /\ (AtWork(t)' <=> AtWork(t))
  BY <1>1 DEF IInv, Typed, Inside, AtWork, File
<1>3. todo[s] \in Seq(DOMAIN Files) /\ Tail(todo[s]) \in Seq(DOMAIN Files)
  <2>1. todo[s] \in Seq(DOMAIN Files)
    BY DEF Coverage, RowsOfFiles
  <2> QED BY <1>1, <2>1, TailIsSeq
<1>4. Quiet
  BY <1>1, <1>2, <1>3 DEF Quiet, Coverage, RowsOfFiles
<1>5. RowsOfFiles' /\ TasksOfRows' /\ Handled'
  <2>1. ASSUME NEW t \in Sessions, NEW file \in DOMAIN Files, NEW i \in DOMAIN Files[file],
               ToBeRead(t, file, i)
        PROVE  ToBeRead(t, file, i)'
    <3>1. CASE t = s
      <4>1. at[s] \in Nat /\ File(s) = file /\ at[s] <= i
        BY <2>1, <3>1 DEF ToBeRead, IInv, Typed
      <4>2. i \in 1..Len(Files[file]) /\ Len(Files[file]) \in Nat
        BY FilesAreSequences
      <4> QED BY <1>1, <4>1, <4>2
    <3>2. CASE t # s
      BY <1>2, <2>1, <3>2 DEF ToBeRead
    <3> QED BY <3>1, <3>2
  <2> QED BY <1>4, <2>1, QuietHandled DEF Coverage
<1>6. ASSUME NEW t \in Sessions, AtWork(t)'
      PROVE  \E j \in 1..(Len(Program[t]) + 1) : Reached(t, j)'
  <2>1. CASE t = s
    <3>1. PICK j \in 1..(Len(Program[s]) + 1) : Reached(s, j)
      BY <1>2 DEF Coverage, InOrder
    <3>2. DocumentStored(s, File(s))
      BY <1>2 DEF IInv, ReadersApart, DocumentStored
    <3> QED BY <1>1, <1>2, <1>3, <2>1, <3>1, <3>2, NextFile
  <2>2. CASE t # s
    BY <1>1, <1>2, <1>6, <2>2, SameWork DEF Coverage
  <2> QED BY <2>1, <2>2
<1>7. ScopeKnown'
  <2>1. ASSUME NEW t \in Plans
        PROVE  Inside(t)' => Inside(t) /\ todo'[t] = todo[t] /\ scope'[t] = scope[t]
    BY <1>1, <1>2 DEF Sessions
  <2> QED BY <2>1, SameScope DEF Coverage, ScopeKnown
<1> QED BY <1>5, <1>6, <1>7 DEF Coverage, InOrder

\* The document of a pack has no rows.
LEMMA PreStageCovers ==
    ASSUME IInv, Coverage, NEW p \in Plans, PreStage(p) PROVE Coverage'
<1> DEFINE new == [file |-> p, by |-> p]
<1>1. /\ facts' = facts /\ todo' = todo /\ at' = at /\ tasks' = tasks /\ draft' = draft
      /\ links' = links /\ scope' = scope /\ pc' = [pc EXCEPT ![p] = "commit"] /\ pc[p] = "pre"
      /\ documents' = documents \/ documents' = documents \cup {new}
  BY DEF PreStage, Goto, Document
<1>2. p \in Sessions
  BY DEF Sessions
<1>3. \A t \in Sessions : /\ File(t)' = File(t) /\ (Inside(t)' <=> Inside(t)) /\ (AtWork(t)' <=> AtWork(t))
  BY <1>1, <1>2 DEF IInv, Typed, Inside, AtWork, File
<1>4. RowsOfFiles' /\ TasksOfRows'
  <2>1. \A d \in documents' : d.by \in Sessions \cup {None}
    BY <1>1, <1>2 DEF Coverage, RowsOfFiles
  <2> QED BY <1>1, <2>1 DEF Coverage, RowsOfFiles, TasksOfRows, Raised, AboutRow
<1>5. ASSUME NEW by, NEW file, NEW i, HandledTo(by, file, i) PROVE HandledTo(by, file, i)'
  <2>1. Grows(by, by)
    BY <1>1 DEF Grows, Raised
  <2> QED BY <1>5, <2>1, StaysHandled
<1>6. Handled'
  <2>1. ASSUME NEW d \in documents', d.file \in DOMAIN Files, NEW i \in DOMAIN Files[d.file]
        PROVE  HandledTo(d.by, d.file, i)' \/ ToBeRead(d.by, d.file, i)'
    <3>1. d \in documents
      BY <1>1, <2>1, FilesAssumption
    <3>2. CASE HandledTo(d.by, d.file, i)
      BY <1>5, <3>2
    <3>3. CASE ToBeRead(d.by, d.file, i)
      BY <1>1, <1>3, <3>3 DEF ToBeRead
    <3> QED BY <2>1, <3>1, <3>2, <3>3, HandledOf DEF Coverage
  <2> QED BY <2>1 DEF Handled
<1>7. ASSUME NEW t \in Sessions, AtWork(t)'
      PROVE  \E j \in 1..(Len(Program[t]) + 1) : Reached(t, j)'
  <2>1. PICK j \in 1..(Len(Program[t]) + 1) : Reached(t, j)
    BY <1>3, <1>7 DEF Coverage, InOrder
  <2>2. \A file : DocumentStored(t, file) => DocumentStored(t, file)'
    BY <1>1 DEF DocumentStored
  <2> QED BY <1>1, <2>1, <2>2 DEF Reached
<1>8. ScopeKnown'
  <2>1. ASSUME NEW t \in Plans
        PROVE  Inside(t)' => Inside(t) /\ todo'[t] = todo[t] /\ scope'[t] = scope[t]
    BY <1>1, <1>3 DEF Sessions
  <2> QED BY <2>1, SameScope DEF Coverage, ScopeKnown
<1> QED BY <1>4, <1>6, <1>7, <1>8 DEF Coverage, InOrder

\* A commit publishes rows and tasks together with the documents they account for.
LEMMA CommitCovers ==
    ASSUME IInv, Coverage, NEW s \in Sessions, NEW next, ~Inside(s),
           next \notin {"file", "document", "row", "insert"}, CommitTo(s, next)
    PROVE  Coverage'
<1> DEFINE By(x) == IF x.by = s THEN None ELSE x.by
<1>1. /\ documents' = Published(s, documents) /\ facts' = Published(s, facts)
      /\ todo' = todo /\ pc' = [pc EXCEPT ![s] = next] /\ at' = [at EXCEPT ![s] = 0]
      /\ tasks' = tasks \cup draft[s] /\ draft' = [draft EXCEPT ![s] = {}]
      /\ scope' = [scope EXCEPT ![s] = {}] /\ links' = Published(s, links)
  BY DEF CommitTo
<1>2. documents' = {[file |-> x.file, by |-> By(x)] : x \in documents}
  BY <1>1, PublishedDocuments
<1>3. facts' = {[row |-> x.row, at |-> x.at, by |-> By(x)] : x \in facts}
  BY <1>1, PublishedFacts
<1>10. links' = {[contract |-> x.contract, sales |-> x.sales, by |-> By(x)] : x \in links}
  BY <1>1, PublishedLinks DEF Coverage
<1>4. /\ ~Inside(s)' /\ ~AtWork(s)'
      /\ \A t \in Sessions : t # s =>
            /\ at'[t] = at[t] /\ draft'[t] = draft[t] /\ scope'[t] = scope[t]
            /\ (Inside(t)' <=> Inside(t)) /\ (AtWork(t)' <=> AtWork(t))
      /\ \A t \in Sessions : File(t)' = File(t)
  BY <1>1 DEF IInv, Typed, Coverage, RowsOfFiles, Inside, AtWork, File
<1>5. RowsOfFiles' /\ TasksOfRows'
  <2>1. \A f \in facts' : /\ f.by \in Sessions \cup {None} /\ f.at = <<f.at[1], f.at[2]>>
                          /\ f.at[1] \in DOMAIN Files /\ f.at[2] \in DOMAIN Files[f.at[1]]
                          /\ f.row = Files[f.at[1]][f.at[2]]
    BY <1>3 DEF Coverage, RowsOfFiles
  <2>2. \A d \in documents' : d.by \in Sessions \cup {None}
    BY <1>2 DEF Coverage, RowsOfFiles
  <2>3. \A l \in links' : l = [contract |-> l.contract, sales |-> l.sales, by |-> l.by]
    BY <1>10 DEF By
  <2>4. RowsOfFiles'
    BY <1>1, <2>1, <2>2, <2>3 DEF Coverage, RowsOfFiles
  <2>5. TasksOfRows'
    <3>1. ASSUME NEW by \in Sessions \cup {None}
          PROVE  Raised(by)' \subseteq Raised(by) \cup Raised(s)
      BY <1>1, SessionsAssumption DEF Raised, Coverage, RowsOfFiles
    <3> QED BY <3>1 DEF Coverage, TasksOfRows, AboutRow
  <2> QED BY <2>4, <2>5
<1>6. ASSUME NEW x, x.by \in Sessions \cup {None} PROVE Grows(x.by, By(x))
  <2>1. \A f \in facts : [row |-> f.row, at |-> f.at, by |-> By(f)] \in facts'
    BY <1>3
  <2>2. Raised(x.by) \subseteq Raised(By(x))'
    <3>1. CASE x.by = s
      BY <1>1, <3>1, SessionsAssumption DEF Raised
    <3>2. CASE x.by # s
      BY <1>1, <1>4, <1>6, <3>2, SessionsAssumption DEF Raised
    <3> QED BY <3>1, <3>2
  <2>3. \A l \in links : [contract |-> l.contract, sales |-> l.sales, by |-> By(l)] \in links'
    BY <1>10
  <2> QED BY <2>1, <2>2, <2>3 DEF Grows
<1>7. Handled'
  <2>1. ASSUME NEW x \in documents, x.file \in DOMAIN Files, NEW i \in DOMAIN Files[x.file]
        PROVE  HandledTo(By(x), x.file, i)' \/ ToBeRead(By(x), x.file, i)'
    <3>1. x.by \in Sessions \cup {None}
      BY DEF Coverage, RowsOfFiles
    <3>2. CASE HandledTo(x.by, x.file, i)
      <4>1. Grows(x.by, By(x))
        BY <1>6, <3>1
      <4>2. PICK b : b = By(x)
        OBVIOUS
      <4>3. Grows(x.by, b)
        BY <4>1, <4>2
      <4>4. HandledTo(b, x.file, i)'
        BY <3>2, <4>3, StaysHandled
      <4> QED BY <4>2, <4>4
    <3>3. CASE ToBeRead(x.by, x.file, i)
      BY <1>4, <3>3 DEF ToBeRead
    <3> QED BY <2>1, <3>2, <3>3, HandledOf DEF Coverage
  <2> HIDE DEF By
  <2>2. ASSUME NEW d \in documents', d.file \in DOMAIN Files, NEW i \in DOMAIN Files[d.file]
        PROVE  HandledTo(d.by, d.file, i)' \/ ToBeRead(d.by, d.file, i)'
    <3>1. PICK x \in documents : d = [file |-> x.file, by |-> By(x)]
      BY <1>2, <2>2
    <3>2. x.file = d.file /\ By(x) = d.by
      BY <3>1
    <3> QED BY <2>1, <2>2, <3>2
  <2> QED BY <2>2 DEF Handled
<1>8. ASSUME NEW t \in Sessions, AtWork(t)'
      PROVE  \E j \in 1..(Len(Program[t]) + 1) : Reached(t, j)'
  <2>1. t # s /\ AtWork(t)
    BY <1>4, <1>8
  <2>2. PICK j \in 1..(Len(Program[t]) + 1) : Reached(t, j)
    BY <2>1 DEF Coverage, InOrder
  <2>3. ASSUME NEW file, DocumentStored(t, file) PROVE DocumentStored(t, file)'
    <3>1. PICK d \in documents : d.by \in {None, t} /\ d.file = file
      BY <2>3 DEF DocumentStored
    <3>2. [file |-> d.file, by |-> By(d)] \in documents' /\ By(d) \in {None, t}
      BY <1>2, <2>1, <3>1
    <3> QED BY <3>1, <3>2 DEF DocumentStored
  <2> QED BY <1>1, <2>2, <2>3 DEF Reached
<1>9. ScopeKnown'
  <2>1. ASSUME NEW t \in Plans
        PROVE  Inside(t)' => Inside(t) /\ todo'[t] = todo[t] /\ scope'[t] = scope[t]
    BY <1>1, <1>4 DEF Sessions
  <2> QED BY <2>1, SameScope DEF Coverage, ScopeKnown
<1> QED BY <1>5, <1>7, <1>8, <1>9 DEF Coverage, InOrder

\* What a rollback takes was seen by its own session only.
LEMMA RollbackCovers ==
    ASSUME IInv, Coverage, NEW s \in Sessions, Rollback(s) PROVE Coverage'
<1>1. /\ documents' = {x \in documents : x.by # s} /\ facts' = {x \in facts : x.by # s}
      /\ todo' = [todo EXCEPT ![s] = <<>>] /\ pc' = [pc EXCEPT ![s] = "idle"]
      /\ at' = [at EXCEPT ![s] = 0] /\ tasks' = tasks /\ draft' = [draft EXCEPT ![s] = {}]
      /\ scope' = [scope EXCEPT ![s] = {}] /\ links' = {x \in links : x.by # s}
  BY DEF Rollback, Discarded
<1>2. /\ ~Inside(s)' /\ ~AtWork(s)' /\ todo'[s] = <<>>
      /\ \A t \in Sessions : t # s =>
            /\ at'[t] = at[t] /\ draft'[t] = draft[t] /\ scope'[t] = scope[t] /\ todo'[t] = todo[t]
            /\ (Inside(t)' <=> Inside(t)) /\ (AtWork(t)' <=> AtWork(t)) /\ File(t)' = File(t)
  BY <1>1 DEF IInv, Typed, Coverage, RowsOfFiles, Inside, AtWork, File
<1>3. RowsOfFiles' /\ TasksOfRows'
  <2>1. <<>> \in Seq(DOMAIN Files)
    OBVIOUS
  <2>2. \A t \in Sessions : todo'[t] \in Seq(DOMAIN Files)
    BY <1>2, <2>1 DEF Coverage, RowsOfFiles
  <2>3. ASSUME NEW by \in Sessions \cup {None} PROVE Raised(by)' \subseteq Raised(by)
    BY <1>1 DEF Raised, Coverage, RowsOfFiles
  <2>4. TasksOfRows'
    BY <2>3 DEF Coverage, TasksOfRows, AboutRow
  <2> QED BY <1>1, <2>2, <2>4 DEF Coverage, RowsOfFiles
<1>4. ASSUME NEW by \in Sessions \cup {None}, by # s PROVE Grows(by, by)
  BY <1>1, <1>2, <1>4, SessionsAssumption DEF Grows, Raised
<1>5. Handled'
  <2>1. ASSUME NEW d \in documents', d.file \in DOMAIN Files, NEW i \in DOMAIN Files[d.file]
        PROVE  HandledTo(d.by, d.file, i)' \/ ToBeRead(d.by, d.file, i)'
    <3>1. d \in documents /\ d.by # s /\ d.by \in Sessions \cup {None}
      BY <1>1 DEF Coverage, RowsOfFiles
    <3>2. CASE HandledTo(d.by, d.file, i)
      BY <1>4, <3>1, <3>2, StaysHandled
    <3>3. CASE ToBeRead(d.by, d.file, i)
      BY <1>2, <3>1, <3>3 DEF ToBeRead
    <3> QED BY <2>1, <3>1, <3>2, <3>3, HandledOf DEF Coverage
  <2> QED BY <2>1 DEF Handled
<1>6. ASSUME NEW t \in Sessions, AtWork(t)'
      PROVE  \E j \in 1..(Len(Program[t]) + 1) : Reached(t, j)'
  <2>1. t # s /\ AtWork(t) /\ todo'[t] = todo[t]
    BY <1>2, <1>6
  <2>2. PICK j \in 1..(Len(Program[t]) + 1) : Reached(t, j)
    BY <2>1 DEF Coverage, InOrder
  <2>3. \A file : DocumentStored(t, file) => DocumentStored(t, file)'
    BY <1>1, <2>1, SessionsAssumption DEF DocumentStored
  <2> QED BY <2>1, <2>2, <2>3 DEF Reached
<1>7. ScopeKnown'
  <2>1. ASSUME NEW t \in Plans
        PROVE  Inside(t)' => Inside(t) /\ todo'[t] = todo[t] /\ scope'[t] = scope[t]
    BY <1>2 DEF Sessions
  <2> QED BY <2>1, SameScope DEF Coverage, ScopeKnown
<1> QED BY <1>3, <1>5, <1>6, <1>7 DEF Coverage, InOrder
-----------------------------------------------------------------------------
(* The row at hand.                                                        *)

\* Only s moves, and moves to a row of its file or leaves the file.
Moves(s) ==
    /\ \A t \in Sessions \ {s} : pc'[t] = pc[t] /\ todo'[t] = todo[t] /\ at'[t] = at[t]
    /\ pc'[s] \in {"row", "insert"} =>
          /\ at'[s] # 0
          /\ pc'[s] = "insert" => at'[s] <= Len(Files[File(s)]) /\ todo'[s] = todo[s]

LEMMA MovesAtHand ==
    ASSUME RowAtHand, NEW s, Moves(s) PROVE RowAtHand'
<1> SUFFICES ASSUME NEW t \in Sessions, Inside(t)'
             PROVE  /\ at'[t] # 0
                    /\ pc'[t] = "insert" => at'[t] <= Len(Files[File(t)'])
  BY DEF RowAtHand
<1>1. CASE t = s
  BY <1>1 DEF Moves, Inside, File
<1>2. CASE t # s
  BY <1>2 DEF Moves, Inside, File, RowAtHand
<1> QED BY <1>1, <1>2

\* Nothing moves but sessions that leave their file.
LEMMA StaysAtHand ==
    ASSUME RowAtHand, pc' = pc, todo' = todo, at' = at PROVE RowAtHand'
BY DEF RowAtHand, Inside, File

LEMMA ReadRowAtHand ==
    ASSUME IInv, RowAtHand, NEW s \in Sessions, ReadRow(s) PROVE RowAtHand'
<1>t. DOMAIN pc = Sessions /\ DOMAIN todo = Sessions /\ at \in [Sessions -> Nat]
  BY DEF IInv, Typed
<1>1. CASE OpenFile(s) \/ InsertDocument(s) \/ CloseFile(s)
  <2>1. Moves(s)
    BY <1>1, <1>t DEF OpenFile, InsertDocument, CloseFile, Reading, Goto, Moves
  <2> QED BY <2>1, MovesAtHand
<1>2. CASE New(s)
  <2>1. at' = at /\ todo' = todo /\ pc' = [pc EXCEPT ![s] = "insert"]
        /\ pc[s] = "row" /\ todo[s] # <<>> /\ at[s] <= Len(Files[File(s)])
    BY <1>2 DEF New, Goto, InRow, Reading
  <2>2. at[s] # 0
    BY <2>1 DEF RowAtHand, Inside
  <2>3. Moves(s)
    BY <2>1, <2>2, <1>t DEF Moves
  <2> QED BY <2>3, MovesAtHand
<1>3. ASSUME NEW raised, Proceed(s, raised), InRow(s) PROVE RowAtHand'
  <2>1. pc' = pc /\ todo' = todo /\ at' = [at EXCEPT ![s] = @ + 1] /\ pc[s] = "row"
    BY <1>3 DEF Proceed, InRow, Reading
  <2>2. Moves(s)
    BY <2>1, <1>t DEF Moves
  <2> QED BY <2>2, MovesAtHand
<1>4. CASE Exclude(s) \/ IdentityIncomplete(s) \/ Ambiguous(s) \/ Conflict(s)
  BY <1>3, <1>4 DEF Exclude, IdentityIncomplete, Ambiguous, Conflict, Meets
<1>7. CASE Corroborate(s)
  <2>1. pc' = pc /\ todo' = todo /\ at' = [at EXCEPT ![s] = @ + 1] /\ pc[s] = "row"
    BY <1>7 DEF Corroborate, Corroborates, Meets, InRow, Reading
  <2>2. Moves(s)
    BY <2>1, <1>t DEF Moves
  <2> QED BY <2>2, MovesAtHand
<1>5. CASE InsertFact(s)
  <2>1. todo' = todo /\ at' = [at EXCEPT ![s] = @ + 1] /\ pc' = [pc EXCEPT ![s] = "row"]
    BY <1>5 DEF InsertFact, Goto
  <2>2. Moves(s)
    BY <2>1, <1>t DEF Moves
  <2> QED BY <2>2, MovesAtHand
<1>6. CASE EndImport(s)
  <2>1. Moves(s)
    BY <1>6, <1>t DEF EndImport, CommitTo, Moves
  <2> QED BY <2>1, MovesAtHand
<1> QED BY <1>1, <1>2, <1>4, <1>5, <1>6, <1>7 DEF ReadRow

LEMMA RollbackAtHand ==
    ASSUME IInv, RowAtHand, NEW s \in Sessions, Rollback(s) PROVE RowAtHand'
<1>1. Moves(s)
  BY DEF IInv, Typed, Rollback, Moves
<1> QED BY <1>1, MovesAtHand

LEMMA ApplyPackAtHand ==
    ASSUME IInv, RowAtHand, NEW p \in Sessions, ApplyPack(p) PROVE RowAtHand'
<1>t. DOMAIN pc = Sessions /\ DOMAIN todo = Sessions /\ at \in [Sessions -> Nat]
  BY DEF IInv, Typed
<1>1. ASSUME todo' = todo, at' = at,
             \E next : next \notin {"row", "insert"} /\ pc' = [pc EXCEPT ![p] = next]
      PROVE  RowAtHand'
  <2>1. Moves(p)
    BY <1>1, <1>t DEF Moves
  <2> QED BY <2>1, MovesAtHand
<1>2. CASE EnterPack(p) \/ PreStage(p) \/ PostStage(p)
  BY <1>1, <1>2 DEF EnterPack, PreStage, PostStage, Goto
<1>3. CASE Match(p)
  <2>1. todo' = todo /\ at' = at /\ pc' = [pc EXCEPT ![p] = IF pc[p] = "INVOICE" THEN "PAYMENT" ELSE "ready"]
    BY <1>3 DEF Match, Goto
  <2>2. (IF pc[p] = "INVOICE" THEN "PAYMENT" ELSE "ready") \notin {"row", "insert"}
    OBVIOUS
  <2> QED BY <1>1, <2>1, <2>2
<1>4. CASE CommitPre(p) \/ CommitPost(p)
  <2>1. Moves(p)
    BY <1>4, <1>t DEF CommitPre, CommitPost, CommitTo, Moves
  <2> QED BY <2>1, MovesAtHand
<1>5. CASE RefusePack(p) \/ NotReady(p)
  BY <1>5, RollbackAtHand DEF RefusePack, NotReady
<1> QED BY <1>2, <1>3, <1>4, <1>5 DEF ApplyPack

LEMMA AtHandInv == IInv /\ RowAtHand /\ [Next]_vars => RowAtHand'
<1> SUFFICES ASSUME IInv, RowAtHand, [Next]_vars PROVE RowAtHand'
  OBVIOUS
<1>1. ASSUME NEW s \in Sessions, Start(s) PROVE RowAtHand'
  <2>1. Moves(s)
    BY <1>1 DEF Start, Goto, Moves, IInv, Typed
  <2> QED BY <2>1, MovesAtHand
<1>2. ASSUME NEW s \in Sessions, Step(s) PROVE RowAtHand'
  BY <1>2, ReadRowAtHand, ApplyPackAtHand, RollbackAtHand DEF Step, UniqueViolation, Deadlock
<1>3. ASSUME NEW s \in Sessions, Crash(s) PROVE RowAtHand'
  BY <1>3, RollbackAtHand DEF Crash
<1>4. ASSUME UNCHANGED session PROVE RowAtHand'
  BY <1>4, StaysAtHand DEF session
<1>5. ASSUME NEW f, NEW c, Confirm(f, c) PROVE RowAtHand'
  BY <1>4, <1>5 DEF Confirm
<1>6. ASSUME NEW b, OpenGate(b) PROVE RowAtHand'
  BY <1>4, <1>6 DEF OpenGate
<1>7. CASE \/ HashBefore \/ ReadContracts \/ ReadSubjects \/ ReadTasks \/ HashAfter
          \/ \E ok \in BOOLEAN : Judge(ok)
  BY <1>4, <1>7 DEF HashBefore, ReadContracts, ReadSubjects, ReadTasks, Read, HashAfter, Judge
<1>8. CASE UNCHANGED vars
  BY <1>4, <1>8 DEF vars
<1> QED BY <1>1, <1>2, <1>3, <1>5, <1>6, <1>7, <1>8 DEF Next

-----------------------------------------------------------------------------
(* Coverage under every step.                                              *)

LEMMA ReadRowCovers ==
    ASSUME IInv, Coverage, RowAtHand, NEW s \in Sessions, ReadRow(s) PROVE Coverage'
<1>1. CASE EndImport(s)
  <2>1. ~Inside(s)
    BY <1>1 DEF EndImport, FilesDone, Inside
  <2> QED BY <1>1, <2>1, CommitCovers DEF EndImport
<1> QED BY <1>1, OpenFileCovers, InsertDocumentCovers, ProceedCovers, RestingSteps, InsertFactCovers,
           CorroborateCovers, CloseFileCovers DEF ReadRow

LEMMA ApplyPackCovers ==
    ASSUME IInv, Coverage, NEW p \in Plans, ApplyPack(p) PROVE Coverage'
<1>1. p \in Sessions
  BY DEF Sessions
<1>2. CASE CommitPre(p) \/ CommitPost(p)
  <2>1. ~Inside(p)
    BY <1>2 DEF CommitPre, CommitPost, Inside
  <2> QED BY <1>1, <1>2, <2>1, CommitCovers DEF CommitPre, CommitPost
<1>3. CASE RefusePack(p) \/ NotReady(p)
  BY <1>1, <1>3, RollbackCovers DEF RefusePack, NotReady
<1> QED BY <1>1, <1>2, <1>3, RestingSteps, PreStageCovers DEF ApplyPack

LEMMA CoverageInv == IInv /\ RowAtHand /\ Coverage /\ [Next]_vars => Coverage'
<1> SUFFICES ASSUME IInv, RowAtHand, Coverage, [Next]_vars PROVE Coverage'
  OBVIOUS
<1>1. ASSUME NEW s \in Sessions, Start(s) PROVE Coverage'
  BY <1>1, StartCovers
<1>2. ASSUME NEW s \in Sessions, Step(s) PROVE Coverage'
  BY <1>2, ReadRowCovers, ApplyPackCovers, RollbackCovers DEF Step, UniqueViolation, Deadlock
<1>3. ASSUME NEW s \in Sessions, Crash(s) PROVE Coverage'
  BY <1>3, RollbackCovers DEF Crash
<1>4. ASSUME UNCHANGED <<documents, facts, links, tasks, session>> PROVE Coverage'
  <2>1. Resting
    BY <1>4 DEF Resting, Quiet, Coverage, RowsOfFiles, session, AtWork, Inside
  <2> QED BY <2>1, RestingCovers
<1>5. ASSUME NEW f, NEW c, Confirm(f, c) PROVE Coverage'
  BY <1>4, <1>5 DEF Confirm
<1>6. ASSUME NEW b, OpenGate(b) PROVE Coverage'
  BY <1>4, <1>6 DEF OpenGate, ledger
<1>7. CASE \/ HashBefore \/ ReadContracts \/ ReadSubjects \/ ReadTasks \/ HashAfter
          \/ \E ok \in BOOLEAN : Judge(ok)
  BY <1>4, <1>7 DEF HashBefore, ReadContracts, ReadSubjects, ReadTasks, Read, HashAfter, Judge, ledger
<1>8. CASE UNCHANGED vars
  BY <1>4, <1>8 DEF vars, ledger
<1> QED BY <1>1, <1>2, <1>3, <1>5, <1>6, <1>7, <1>8 DEF Next

LEMMA InitCovers == Init => Coverage /\ RowAtHand
<1> SUFFICES ASSUME Init PROVE Coverage /\ RowAtHand
  OBVIOUS
<1>1. RowAtHand
  BY DEF Init, RowAtHand, Inside
<1>2. RowsOfFiles /\ TasksOfRows /\ Handled
  BY DEF Init, RowsOfFiles, TasksOfRows, Raised, Handled
<1>3. InOrder
  BY DEF Init, InOrder, AtWork
<1>4. ScopeKnown
  BY DEF Init, ScopeKnown, Inside, Sessions
<1> QED BY <1>1, <1>2, <1>3, <1>4 DEF Coverage

LEMMA HandledIsAccounted ==
    ASSUME NEW r, NEW where, AccountedTo(None, r, where) PROVE Accounted(r, where)
<1>1. Raised(None) = tasks
  BY DEF Raised
<1>2. \A place : ScopeKeptTo(None, r, place) /\ Scoped(r) =>
         \/ \E l \in Committed(links) : l.contract = place /\ l.sales = r.sales
         \/ \E t \in tasks : t.key = ScopeKey(r)
  BY <1>1 DEF ScopeKeptTo, Committed
<1>3. StandsTo(None, r, where) => Stands(r, where)
  BY <1>2 DEF StandsTo, Stands, ScopeKept, Committed
<1>4. ToldTo(None, r, where) => Told(r, where)
  BY <1>1 DEF ToldTo, Told
<1> QED BY <1>3, <1>4 DEF AccountedTo, Accounted

\* Whatever crashed, raced or was rerun: every row of a file whose document is
\* stored, and which a rerun therefore skips, has become a fact or repeats one,
\* within the sales scope the row names or with a task that says otherwise; or
\* it has an open task under its key, which another row without identity and
\* of the same key may share; or it is out of scope (cutover_backfill.py, the
\* imports beside it).
THEOREM RowsAccountedForHolds == Spec => []RowsAccountedFor
<1>1. Coverage => RowsAccountedFor
  <2> SUFFICES ASSUME Coverage, NEW d \in Committed(documents), d.file \in DOMAIN Files,
                      NEW i \in DOMAIN Files[d.file]
               PROVE  Accounted(Files[d.file][i], <<d.file, i>>)
    BY DEF RowsAccountedFor
  <2>1. d \in documents /\ d.by = None
    BY DEF Committed
  <2>2. HandledTo(None, d.file, i)
    BY <2>1, SessionsAssumption DEF Coverage, Handled, ToBeRead
  <2> QED BY <2>2, HandledIsAccounted DEF HandledTo
<1>2. Spec => [](IInv /\ RowAtHand /\ Coverage)
  BY InitInv, StepInv, InitCovers, AtHandInv, CoverageInv, PTL DEF Spec
<1> QED BY <1>1, <1>2, PTL

-----------------------------------------------------------------------------
(* What a comparison without findings says of the view it compared.        *)

LEMMA FiniteImage ==
    ASSUME NEW S, IsFiniteSet(S), NEW f, DOMAIN f = S
    PROVE  IsFiniteSet({f[x] : x \in S})
<1>1. [x \in S |-> f[x]] \in Surjection(S, {f[x] : x \in S})
  BY DEF Surjection
<1> QED BY <1>1, FS_Surjection

LEMMA TwoMembers ==
    ASSUME NEW S, IsFiniteSet(S), NEW e \in S, NEW f \in S, e # f
    PROVE  Cardinality(S) > 1
<1>1. IsFiniteSet(S \ {e}) /\ Cardinality(S \ {e}) = Cardinality(S) - 1
  BY FS_RemoveElement
<1>2. Cardinality(S) \in Nat /\ Cardinality(S \ {e}) \in Nat
  BY <1>1, FS_CardinalityType
<1>3. Cardinality(S \ {e}) # 0
  BY <1>1, FS_EmptySet
<1> QED BY <1>1, <1>2, <1>3

FiniteView(v) ==
    /\ IsFiniteSet(v.contracts) /\ IsFiniteSet(v.allocations) /\ IsFiniteSet(v.links)
    /\ IsFiniteSet(v.packed)

LEMMA ObservedIsFinite ==
    ASSUME NEW v, FiniteView(v) PROVE IsFiniteSet(Observed(v))
<1> DEFINE C == v.contracts
           K == {k \in FactsOf(v) : k.key # None}
           A == {a \in Allocated(v) : a[1].id # None}
           L == {cl \in v.contracts \X v.links : cl[2].contract = cl[1].at}
           onC[c \in C] == Observation(<<"contract", c.id>>, c.content, c)
           onK[k \in K] == Observation(<<"fact", k.contract, k.key>>, None, k)
           onA[a \in A] == Observation(<<a[1].kind, a[2].id, a[1].id>>, a[1].content, a)
           onS[cl \in L] == Observation(<<"sales", cl[2].sales>>, None, cl)
           onL[cl \in L] == Observation(<<"link", cl[1].id, cl[2].sales>>, None, cl)
<1>1. IsFiniteSet(C) /\ IsFiniteSet(K) /\ IsFiniteSet(A) /\ IsFiniteSet(L)
  <2>1. IsFiniteSet(C) /\ IsFiniteSet(v.packed) /\ IsFiniteSet(v.allocations) /\ IsFiniteSet(v.links)
    BY DEF FiniteView
  <2>2. IsFiniteSet(v.contracts \X v.links)
    BY <2>1, FS_Product
  <2>3. /\ K \in SUBSET v.packed /\ A \in SUBSET v.allocations
        /\ L \in SUBSET (v.contracts \X v.links)
    BY DEF Allocated, FactsOf
  <2> HIDE DEF C, K, A, L
  <2> QED BY <2>1, <2>2, <2>3, FS_Subset
<1>2. Observed(v) = {onC[c] : c \in C} \cup {onK[k] : k \in K} \cup {onA[a] : a \in A}
                      \cup {onS[cl] : cl \in L} \cup {onL[cl] : cl \in L}
  <2>1. {Observation(<<"contract", c.id>>, c.content, c) : c \in C} = {onC[c] : c \in C}
    OBVIOUS
  <2>2. {Observation(<<"fact", k.contract, k.key>>, None, k) : k \in K} = {onK[k] : k \in K}
    OBVIOUS
  <2>3. {Observation(<<a[1].kind, a[2].id, a[1].id>>, a[1].content, a) : a \in A} = {onA[a] : a \in A}
    OBVIOUS
  <2>4. \A cl \in L : /\ onS[cl] = Observation(<<"sales", cl[2].sales>>, None, cl)
                      /\ onL[cl] = Observation(<<"link", cl[1].id, cl[2].sales>>, None, cl)
    OBVIOUS
  <2>5. UNION {{Observation(<<"sales", cl[2].sales>>, None, cl),
                Observation(<<"link", cl[1].id, cl[2].sales>>, None, cl)} : cl \in L}
          = UNION {{onS[cl], onL[cl]} : cl \in L}
    <3> HIDE DEF onS, onL, L
    <3> QED BY <2>4
  <2>6. UNION {{onS[cl], onL[cl]} : cl \in L} = {onS[cl] : cl \in L} \cup {onL[cl] : cl \in L}
    <3> HIDE DEF onS, onL, L
    <3> QED OBVIOUS
  <2>7. Observed(v) = {Observation(<<"contract", c.id>>, c.content, c) : c \in C}
                        \cup {Observation(<<"fact", k.contract, k.key>>, None, k) : k \in K}
                        \cup {Observation(<<a[1].kind, a[2].id, a[1].id>>, a[1].content, a) : a \in A}
                        \cup UNION {{Observation(<<"sales", cl[2].sales>>, None, cl),
                                     Observation(<<"link", cl[1].id, cl[2].sales>>, None, cl)} : cl \in L}
    BY DEF Observed
  <2> HIDE DEF onC, onK, onA, onS, onL, C, K, A, L
  <2> QED BY <2>1, <2>2, <2>3, <2>5, <2>6, <2>7
<1>3. DOMAIN onC = C /\ DOMAIN onK = K /\ DOMAIN onA = A /\ DOMAIN onS = L /\ DOMAIN onL = L
  OBVIOUS
<1> HIDE DEF onC, onK, onA, onS, onL, C, K, A, L
<1>4. /\ IsFiniteSet({onC[c] : c \in C}) /\ IsFiniteSet({onK[k] : k \in K})
      /\ IsFiniteSet({onA[a] : a \in A}) /\ IsFiniteSet({onS[cl] : cl \in L})
      /\ IsFiniteSet({onL[cl] : cl \in L})
  BY <1>1, <1>3, FiniteImage
<1>5. IsFiniteSet({onC[c] : c \in C} \cup {onK[k] : k \in K})
  BY <1>4, FS_Union
<1>6. IsFiniteSet({onC[c] : c \in C} \cup {onK[k] : k \in K} \cup {onA[a] : a \in A})
  BY <1>4, <1>5, FS_Union
<1>7. IsFiniteSet({onC[c] : c \in C} \cup {onK[k] : k \in K} \cup {onA[a] : a \in A}
                    \cup {onS[cl] : cl \in L})
  BY <1>4, <1>6, FS_Union
<1>8. IsFiniteSet(({onC[c] : c \in C} \cup {onK[k] : k \in K} \cup {onA[a] : a \in A}
                    \cup {onS[cl] : cl \in L}) \cup {onL[cl] : cl \in L})
  BY <1>4, <1>7, FS_Union
<1> QED BY <1>2, <1>8

\* An adjudicated key: one baseline entry, with the value of what is shown.
LEMMA AdjudicatedKey ==
    ASSUME NEW v, NEW baseline, IsFiniteSet(DOMAIN baseline), Passed(v, baseline),
           Repeated(Observed(v)) = {}, RepeatedKeys(baseline) = {},
           NEW i \in DOMAIN baseline
    PROVE  /\ baseline[i].outcome \in Recordable
           /\ \E e \in Observed(v) : e.key = baseline[i].key
           /\ \A e \in Observed(v) : e.key = baseline[i].key => e.value = baseline[i].expected
<1> DEFINE all == Observed(v)
           b == baseline[i]
<1>1. Adjudicate(b, {e \in all : e.key \notin Repeated(all)}) \subseteq Findings(v, baseline)
  BY DEF Findings
<1>2. {e \in all : e.key \notin Repeated(all)} = all
  OBVIOUS
<1>3. Adjudicate(b, all) = {}
  BY <1>1, <1>2 DEF Passed
<1> HIDE DEF all, b
<1>4. b.outcome \in Recordable /\ Under(all, b.key) # {} /\ \A e \in Under(all, b.key) : e.value = b.expected
  BY <1>3 DEF Adjudicate
<1>5. \A e : e \in Under(all, b.key) <=> e \in all /\ e.key = b.key
  BY DEF Under
<1> QED BY <1>4, <1>5 DEF all, b

LEMMA PassedAgrees ==
    ASSUME NEW v, NEW baseline, FiniteView(v), IsFiniteSet(DOMAIN baseline), Passed(v, baseline)
    PROVE  Agreed(v, baseline)
<1> DEFINE all == Observed(v)
<1>1. Findings(v, baseline) = {}
  BY DEF Passed
<1>2. RepeatedKeys(baseline) = {} /\ Incomplete(v) = {} /\ Repeated(all) = {} /\ v.tasks = {}
  <2>1. {Finding(key, "DUPLICATE_BASELINE_KEY") : key \in RepeatedKeys(baseline)} = {}
    BY <1>1 DEF Findings
  <2>2. {Finding(u, "UNRESOLVED_SOURCE") : u \in Incomplete(v) \cup Repeated(all)} = {}
    BY <1>1 DEF Findings
  <2>3. {<<"unresolved task", t>> : t \in v.tasks} \subseteq Incomplete(v)
    BY DEF Incomplete
  <2> HIDE DEF all
  <2>4. RepeatedKeys(baseline) = {} /\ Incomplete(v) = {} /\ Repeated(all) = {}
    BY <2>1, <2>2
  <2> QED BY <2>3, <2>4
<1>3. \A e \in all : e.key \in KeysOf(baseline)
  <2>1. {Finding(key, "MISSING_BASELINE_ENTRY") :
           key \in {e.key : e \in {e \in all : e.key \notin Repeated(all)}} \ KeysOf(baseline)} = {}
    BY <1>1 DEF Findings
  <2> HIDE DEF all
  <2>2. {e.key : e \in {e \in all : e.key \notin Repeated(all)}} \subseteq KeysOf(baseline)
    BY <2>1
  <2> QED BY <1>2, <2>2
<1>4. ASSUME NEW i \in DOMAIN baseline, NEW j \in DOMAIN baseline, baseline[i].key = baseline[j].key
      PROVE  i = j
  <2> DEFINE same == {k \in DOMAIN baseline : baseline[k].key = baseline[i].key}
  <2>1. IsFiniteSet(same)
    BY FS_Subset
  <2>2. baseline[i].key \in KeysOf(baseline)
    BY DEF KeysOf
  <2>3. ~(Cardinality(same) > 1)
    BY <1>2, <2>2 DEF RepeatedKeys
  <2>4. i \in same /\ j \in same
    BY <1>4
  <2> HIDE DEF same
  <2> QED BY <2>1, <2>3, <2>4, TwoMembers
<1>5. ASSUME NEW e \in all, NEW f \in all, e.key = f.key, e.key[1] # "sales"
      PROVE  e = f
  <2>1. IsFiniteSet(all) /\ Under(all, e.key) \in SUBSET all
    BY ObservedIsFinite DEF Under
  <2>2. IsFiniteSet(Under(all, e.key)) /\ e \in Under(all, e.key) /\ f \in Under(all, e.key)
    <3> HIDE DEF all
    <3> QED BY <1>5, <2>1, FS_Subset DEF Under
  <2>3. e.key \notin Repeated(all)
    BY <1>2
  <2> HIDE DEF all
  <2>4. ~(Cardinality(Under(all, e.key)) > 1)
    BY <1>5, <2>3 DEF Repeated
  <2> QED BY <2>2, <2>4, TwoMembers
<1>6. \A i \in DOMAIN baseline :
         /\ baseline[i].outcome \in Recordable
         /\ \E e \in all : e.key = baseline[i].key
         /\ \A e \in all : e.key = baseline[i].key => e.value = baseline[i].expected
  BY <1>2, AdjudicatedKey
<1>7. ASSUME NEW e \in all
      PROVE  \E i \in DOMAIN baseline :
                /\ baseline[i].key = e.key /\ baseline[i].expected = e.value
                /\ baseline[i].outcome \in Recordable
                /\ \A j \in DOMAIN baseline : baseline[j].key = e.key => i = j
  <2>1. PICK i \in DOMAIN baseline : baseline[i].key = e.key
    BY <1>3 DEF KeysOf
  <2> HIDE DEF all
  <2> QED BY <1>4, <1>6, <2>1
<1>8. ASSUME NEW e \in all, NEW f \in all, e.key = f.key
      PROVE  e.value = f.value /\ (e = f \/ e.key[1] = "sales")
  <2> HIDE DEF all
  <2>1. PICK i \in DOMAIN baseline : baseline[i].key = e.key
    BY <1>7
  <2> QED BY <1>5, <1>6, <1>8, <2>1
<1> QED BY <1>2, <1>6, <1>7, <1>8 DEF Agreed

-----------------------------------------------------------------------------
(* What a list of tables shows, and that it only grows.                    *)

ViewOf(contracts, subjects, pairs, linked, pack, open) ==
    [contracts |-> contracts, subjects |-> subjects, allocations |-> pairs, links |-> linked,
     packed |-> pack, tasks |-> open]
Shape(v) == v = ViewOf(v.contracts, v.subjects, v.allocations, v.links, v.packed, v.tasks)

Lines(set) ==
    {[kind |-> f.row.kind, id |-> f.row.id, content |-> f.row.content, party |-> f.row.party,
      at |-> f.at] : f \in set}
Pairs(S, C, A) == {fc \in S \X C : <<fc[1].at, fc[2].at>> \in A}
Linked(L) == {[contract |-> l.contract, sales |-> l.sales] : l \in L}
Facts(P)  == {x.fact : x \in P}

\* The view that shows the tables X, in the order of Tables.
ViewFrom(X) ==
    ViewOf(Lines(X[2]), Lines(X[6] \cup X[8]),
           Pairs(Lines(X[6] \cup X[8]), Lines(X[2]), X[4] \cup X[7]), Linked(X[9]),
           Facts(X[1] \cup X[5]), X[10])

\* A view shows every table but the documents.
Viewed == (1..10) \ {3}
AtMost(X, Y) == \A i \in Viewed : X[i] \subseteq Y[i]
Below(v, w) ==
    /\ v.contracts \subseteq w.contracts /\ v.subjects \subseteq w.subjects
    /\ v.allocations \subseteq w.allocations /\ v.links \subseteq w.links
    /\ v.packed \subseteq w.packed /\ v.tasks \subseteq w.tasks

LEMMA ViewParts ==
    ASSUME NEW X
    PROVE  LET v == ViewFrom(X) IN
           /\ Shape(v)
           /\ v.contracts = Lines(X[2]) /\ v.subjects = Lines(X[6] \cup X[8])
           /\ v.allocations = Pairs(Lines(X[6] \cup X[8]), Lines(X[2]), X[4] \cup X[7])
           /\ v.links = Linked(X[9]) /\ v.packed = Facts(X[1] \cup X[5]) /\ v.tasks = X[10]
BY DEF ViewFrom, ViewOf, Shape

LEMMA ViewGrows ==
    ASSUME NEW X, NEW Y, AtMost(X, Y) PROVE Below(ViewFrom(X), ViewFrom(Y))
<1>1. /\ X[1] \subseteq Y[1] /\ X[2] \subseteq Y[2] /\ X[4] \subseteq Y[4] /\ X[5] \subseteq Y[5]
      /\ X[6] \subseteq Y[6] /\ X[7] \subseteq Y[7] /\ X[8] \subseteq Y[8] /\ X[9] \subseteq Y[9]
      /\ X[10] \subseteq Y[10]
  BY DEF AtMost, Viewed
<1>2. /\ X[6] \cup X[8] \subseteq Y[6] \cup Y[8] /\ X[4] \cup X[7] \subseteq Y[4] \cup Y[7]
      /\ X[1] \cup X[5] \subseteq Y[1] \cup Y[5]
  BY <1>1
<1>3. ASSUME NEW S, NEW T, S \subseteq T
      PROVE  Lines(S) \subseteq Lines(T) /\ Linked(S) \subseteq Linked(T) /\ Facts(S) \subseteq Facts(T)
  BY <1>3 DEF Lines, Linked, Facts
<1>4. ASSUME NEW S, NEW C, NEW A, NEW T, NEW D, NEW B, S \subseteq T, C \subseteq D, A \subseteq B
      PROVE  Pairs(S, C, A) \subseteq Pairs(T, D, B)
  BY <1>4 DEF Pairs
<1>5. PICK sx, sy, ax, ay, px, py :
         /\ sx = X[6] \cup X[8] /\ sy = Y[6] \cup Y[8] /\ ax = X[4] \cup X[7] /\ ay = Y[4] \cup Y[7]
         /\ px = X[1] \cup X[5] /\ py = Y[1] \cup Y[5]
  OBVIOUS
<1>6. sx \subseteq sy /\ ax \subseteq ay /\ px \subseteq py
  BY <1>2, <1>5
<1>7. Lines(sx) \subseteq Lines(sy)
  BY <1>3, <1>6
<1>8. Lines(X[2]) \subseteq Lines(Y[2])
  BY <1>1, <1>3
<1>9. Facts(px) \subseteq Facts(py)
  BY <1>3, <1>6
<1>10. Linked(X[9]) \subseteq Linked(Y[9])
  BY <1>1, <1>3
<1>11. PICK lsx, lsy, lcx, lcy : /\ lsx = Lines(sx) /\ lsy = Lines(sy)
                                /\ lcx = Lines(X[2]) /\ lcy = Lines(Y[2])
  OBVIOUS
<1>12. Pairs(lsx, lcx, ax) \subseteq Pairs(lsy, lcy, ay)
  <2>1. lsx \subseteq lsy /\ lcx \subseteq lcy
    BY <1>7, <1>8, <1>11
  <2> QED BY <1>4, <1>6, <2>1
<1>13. PICK v, w : v = ViewFrom(X) /\ w = ViewFrom(Y)
  OBVIOUS
<1>14. /\ v.contracts = lcx /\ v.subjects = lsx /\ v.allocations = Pairs(lsx, lcx, ax)
       /\ v.links = Linked(X[9]) /\ v.packed = Facts(px) /\ v.tasks = X[10]
  BY <1>5, <1>11, <1>13, ViewParts
<1>15. /\ w.contracts = lcy /\ w.subjects = lsy /\ w.allocations = Pairs(lsy, lcy, ay)
       /\ w.links = Linked(Y[9]) /\ w.packed = Facts(py) /\ w.tasks = Y[10]
  BY <1>5, <1>11, <1>13, ViewParts
<1>16. Below(v, w)
  BY <1>1, <1>7, <1>8, <1>9, <1>10, <1>11, <1>12, <1>14, <1>15 DEF Below
<1> QED BY <1>13, <1>16

LEMMA TableRows ==
    /\ Len(Tables) = 10
    /\ Tables[1] = {x \in Committed(packed) : x.fact.subject = None}
    /\ Tables[2] = OfKind(Committed(facts), "CONTRACT")
    /\ Tables[4] = AllocationsOf("INVOICE")
    /\ Tables[5] = {x \in Committed(packed) : x.fact.subject # None}
    /\ Tables[6] = OfKind(Committed(facts), "INVOICE")
    /\ Tables[7] = AllocationsOf("PAYMENT")
    /\ Tables[8] = OfKind(Committed(facts), "PAYMENT")
    /\ Tables[9] = Committed(links) /\ Tables[10] = tasks
BY DEF Tables

LEMMA KindsOfFacts ==
    ASSUME RowsOfFiles, NEW f \in facts PROVE f.row.kind \in {"CONTRACT", "INVOICE", "PAYMENT"}
<1>1. f.at[1] \in DOMAIN Files /\ f.at[2] \in DOMAIN Files[f.at[1]] /\ f.row = Files[f.at[1]][f.at[2]]
  BY DEF RowsOfFiles
<1> QED BY <1>1, FilesAssumption

\* What the statements of the comparison show is what the tables show.
LEMMA NowIsView == ASSUME RowsOfFiles PROVE ViewNow = ViewFrom(Tables)
<1> DEFINE inv == OfKind(Committed(facts), "INVOICE")
           pay == OfKind(Committed(facts), "PAYMENT")
           con == OfKind(Committed(facts), "CONTRACT")
<1>1. \A f \in Committed(facts) : f.row.kind \in {"CONTRACT", "INVOICE", "PAYMENT"}
  BY KindsOfFacts DEF Committed
<1>2. ContractsNow = Lines(con)
  BY DEF ContractsNow, Shown, Lines, OfKind
<1>3. SubjectsNow = Lines(inv \cup pay)
  <2>1. ASSUME NEW x \in SubjectsNow PROVE x \in Lines(inv \cup pay)
    BY <1>1 DEF SubjectsNow, Shown, Lines, OfKind
  <2>2. ASSUME NEW x \in Lines(inv \cup pay) PROVE x \in SubjectsNow
    BY DEF SubjectsNow, Shown, Lines, OfKind
  <2> QED BY <2>1, <2>2
<1>4. PairsNow = Pairs(Lines(inv \cup pay), Lines(con), AllocationsOf("INVOICE") \cup AllocationsOf("PAYMENT"))
  <2>1. ASSUME NEW x \in Lines(inv \cup pay), NEW y, <<x.at, y>> \in allocations
        PROVE  <<x.at, y>> \in AllocationsOf("INVOICE") \cup AllocationsOf("PAYMENT")
    <3>1. PICK f \in inv \cup pay : x.at = f.at
      BY DEF Lines
    <3>2. PICK a : a = <<x.at, y>>
      OBVIOUS
    <3>3. a[1] = f.at /\ a \in allocations
      BY <2>1, <3>1, <3>2
    <3>4. a \in AllocationsOf("INVOICE") \cup AllocationsOf("PAYMENT")
      BY <3>3 DEF AllocationsOf
    <3> QED BY <3>2, <3>4
  <2>2. AllocationsOf("INVOICE") \cup AllocationsOf("PAYMENT") \subseteq allocations
    BY DEF AllocationsOf
  <2> HIDE DEF inv, pay, con
  <2> QED BY <1>2, <1>3, <2>1, <2>2 DEF PairsNow, Pairs
<1>5. LinksNow = Linked(Committed(links))
  BY DEF LinksNow, Linked
<1>6. PackedNow = Facts(Tables[1] \cup Tables[5])
  <2>1. Tables[1] \cup Tables[5] = Committed(packed)
    BY TableRows
  <2> QED BY <2>1 DEF PackedNow, Facts
<1>7. ViewNow = ViewOf(ContractsNow, SubjectsNow, PairsNow, LinksNow, PackedNow, tasks)
  BY DEF ViewNow, ViewOf
<1> HIDE DEF inv, pay, con
<1> QED BY <1>2, <1>3, <1>4, <1>5, <1>6, <1>7, TableRows DEF ViewFrom, inv, pay, con

\* Nothing that is committed goes away.
OnlyGrows ==
    /\ Committed(facts) \subseteq Committed(facts') /\ allocations \subseteq allocations'
    /\ Committed(links) \subseteq Committed(links')
    /\ Committed(packed) \subseteq Committed(packed') /\ tasks \subseteq tasks'

LEMMA TablesGrow == ASSUME OnlyGrows PROVE AtMost(Tables, Tables')
<1>1. \A kind : OfKind(Committed(facts), kind) \subseteq OfKind(Committed(facts'), kind)
  BY DEF OnlyGrows, OfKind
<1>2. AllocationsOf("INVOICE") \subseteq AllocationsOf("INVOICE")'
      /\ AllocationsOf("PAYMENT") \subseteq AllocationsOf("PAYMENT")'
  BY <1>1 DEF OnlyGrows, AllocationsOf
<1>3. Tables[2] \subseteq Tables[2]' /\ Tables[6] \subseteq Tables[6]' /\ Tables[8] \subseteq Tables[8]'
  BY <1>1 DEF Tables
<1>4. Tables[4] \subseteq Tables[4]' /\ Tables[7] \subseteq Tables[7]'
  BY <1>2 DEF Tables
<1>5. Tables[1] \subseteq Tables[1]' /\ Tables[5] \subseteq Tables[5]'
      /\ Tables[9] \subseteq Tables[9]' /\ Tables[10] \subseteq Tables[10]'
  BY DEF Tables, OnlyGrows
<1>6. Viewed = {1, 2, 4, 5, 6, 7, 8, 9, 10}
  BY DEF Viewed
<1>7. PICK X, Y : X = Tables /\ Y = Tables'
  OBVIOUS
<1> QED BY <1>3, <1>4, <1>5, <1>6, <1>7 DEF AtMost

-----------------------------------------------------------------------------
(* The ledger only grows, and stays finite.                                *)

PacksTyped == \A x \in packed : x = [fact |-> x.fact, by |-> x.by]
Finite ==
    /\ IsFiniteSet(facts) /\ IsFiniteSet(allocations) /\ IsFiniteSet(links) /\ IsFiniteSet(packed)
Steady == PacksTyped' /\ Finite' /\ OnlyGrows

LEMMA PublishedPacks ==
    ASSUME PacksTyped, NEW s
    PROVE  Published(s, packed) = {[fact |-> x.fact, by |-> IF x.by = s THEN None ELSE x.by] : x \in packed}
<1> DEFINE Public(x) == [x EXCEPT !.by = IF @ = s THEN None ELSE @]
           Made(x)   == [fact |-> x.fact, by |-> IF x.by = s THEN None ELSE x.by]
<1>1. ASSUME NEW x \in packed PROVE Public(x) = Made(x)
  <2>1. x = [fact |-> x.fact, by |-> x.by]
    BY DEF PacksTyped
  <2>2. \A k, by : [[fact |-> k, by |-> by] EXCEPT !.by = IF @ = s THEN None ELSE @]
                         = [fact |-> k, by |-> IF by = s THEN None ELSE by]
    OBVIOUS
  <2> QED BY <2>1, <2>2
<1>2. Published(s, packed) = {Public(x) : x \in packed}
  BY DEF Published
<1>3. {Public(x) : x \in packed} = {Made(x) : x \in packed}
  <2> HIDE DEF Public, Made
  <2> QED BY <1>1
<1> QED BY <1>2, <1>3

LEMMA PublishedIsFinite ==
    ASSUME NEW s, NEW set, IsFiniteSet(set) PROVE IsFiniteSet(Published(s, set))
<1> DEFINE public == [x \in set |-> [x EXCEPT !.by = IF @ = s THEN None ELSE @]]
<1>1. DOMAIN public = set /\ {public[x] : x \in set} = Published(s, set)
  BY DEF Published
<1> HIDE DEF public
<1>2. IsFiniteSet({public[x] : x \in set})
  BY <1>1, FiniteImage
<1> QED BY <1>1, <1>2

LEMMA CommitSteady ==
    ASSUME IInv, RowsOfFiles, PacksTyped, Finite, NEW s \in Sessions, NEW next, CommitTo(s, next)
    PROVE  Steady
<1>1. /\ facts' = {[row |-> x.row, at |-> x.at, by |-> IF x.by = s THEN None ELSE x.by] : x \in facts}
      /\ packed' = {[fact |-> x.fact, by |-> IF x.by = s THEN None ELSE x.by] : x \in packed}
      /\ links' = {[contract |-> x.contract, sales |-> x.sales,
                    by |-> IF x.by = s THEN None ELSE x.by] : x \in links}
      /\ allocations' = allocations /\ tasks \subseteq tasks'
  BY PublishedFacts, PublishedLinks, PublishedPacks DEF CommitTo
<1>2. Finite'
  BY PublishedIsFinite DEF CommitTo, Finite
<1>3. PacksTyped'
  BY <1>1 DEF PacksTyped
<1>4. ASSUME NEW x \in Committed(facts) PROVE x \in Committed(facts')
  <2>1. x \in facts /\ x = [row |-> x.row, at |-> x.at, by |-> None] /\ None # s
    BY SessionsAssumption DEF Committed, IInv, Typed
  <2>2. [row |-> x.row, at |-> x.at, by |-> IF x.by = s THEN None ELSE x.by] \in facts'
    BY <1>1, <2>1
  <2>3. x.by = None
    BY DEF Committed
  <2>4. x \in facts'
    BY <2>1, <2>2, <2>3
  <2> QED BY <2>3, <2>4 DEF Committed
<1>5. ASSUME NEW x \in Committed(packed) PROVE x \in Committed(packed')
  <2>1. x \in packed /\ x = [fact |-> x.fact, by |-> None] /\ None # s
    BY SessionsAssumption DEF Committed, PacksTyped
  <2>2. [fact |-> x.fact, by |-> IF x.by = s THEN None ELSE x.by] \in packed'
    BY <1>1, <2>1
  <2>3. x.by = None
    BY DEF Committed
  <2>4. x \in packed'
    BY <2>1, <2>2, <2>3
  <2> QED BY <2>3, <2>4 DEF Committed
<1>6. ASSUME NEW x \in Committed(links) PROVE x \in Committed(links')
  <2>1. x \in links /\ x = [contract |-> x.contract, sales |-> x.sales, by |-> None] /\ None # s
    BY SessionsAssumption DEF Committed, RowsOfFiles
  <2>2. [contract |-> x.contract, sales |-> x.sales, by |-> IF x.by = s THEN None ELSE x.by] \in links'
    BY <1>1, <2>1
  <2>3. x.by = None
    BY DEF Committed
  <2>4. x \in links'
    BY <2>1, <2>2, <2>3
  <2> QED BY <2>3, <2>4 DEF Committed
<1> QED BY <1>1, <1>2, <1>3, <1>4, <1>5, <1>6 DEF Steady, OnlyGrows

LEMMA RollbackSteady ==
    ASSUME PacksTyped, Finite, NEW s \in Sessions, Rollback(s) PROVE Steady
<1>1. /\ facts' = {x \in facts : x.by # s} /\ packed' = {x \in packed : x.by # s}
      /\ links' = {x \in links : x.by # s} /\ allocations' = allocations /\ tasks' = tasks
  BY DEF Rollback, Discarded
<1>2. facts' \subseteq facts /\ packed' \subseteq packed /\ links' \subseteq links
  BY <1>1
<1>3. Finite'
  BY <1>1, <1>2, FS_Subset DEF Finite
<1>4. PacksTyped'
  BY <1>1 DEF PacksTyped
<1>5. OnlyGrows
  BY <1>1, SessionsAssumption DEF OnlyGrows, Committed
<1> QED BY <1>3, <1>4, <1>5 DEF Steady

LEMMA RecordSteady ==
    ASSUME PacksTyped, Finite, NEW p \in Plans, NEW post, Record(p, Stage(p, post)),
           facts' = facts, allocations' = allocations, links' = links, tasks' = tasks
    PROVE  Steady
<1> DEFINE set == Missing(p, Stage(p, post))
           made == [k \in set |-> [fact |-> k, by |-> p]]
<1>1. packed' = packed \cup {made[k] : k \in set} /\ DOMAIN made = set
  BY DEF Record
<1>2. set \in SUBSET Pack[p] /\ IsFiniteSet(Pack[p])
  BY FinitenessAssumption DEF Missing, Stage
<1>3. IsFiniteSet(set)
  <2> HIDE DEF set
  <2> QED BY <1>2, FS_Subset
<1>4. \A k \in set : made[k] = [fact |-> k, by |-> p]
  OBVIOUS
<1> HIDE DEF set, made
<1>5. IsFiniteSet({made[k] : k \in set})
  BY <1>1, <1>3, FiniteImage
<1>6. IsFiniteSet(packed')
  BY <1>1, <1>5, FS_Union DEF Finite
<1>7. Finite'
  BY <1>6 DEF Finite
<1>8. PacksTyped'
  BY <1>1, <1>4 DEF PacksTyped
<1>9. OnlyGrows
  BY <1>1 DEF OnlyGrows, Committed
<1> QED BY <1>7, <1>8, <1>9 DEF Steady

LEMMA DecidedIsFinite ==
    ASSUME Finite, NEW kind PROVE IsFiniteSet(Decided(kind))
<1> DEFINE all == OfKind(Committed(facts), kind) \X OfKind(Committed(facts), "CONTRACT")
           chosen == {fc \in all :
            /\ Procurement(fc[1].row) /\ fc[1].row.content \in Matchable
            /\ fc[1].row.party = fc[2].row.party
            /\ fc[1].at \notin Allocations(allocations)
            /\ \A d \in OfKind(Committed(facts), "CONTRACT") :
                  d.row.party = fc[2].row.party => d = fc[2]}
           edge == [fc \in chosen |-> <<fc[1].at, fc[2].at>>]
<1>1. OfKind(Committed(facts), kind) \in SUBSET facts /\ OfKind(Committed(facts), "CONTRACT") \in SUBSET facts
  BY DEF OfKind, Committed
<1>2. IsFiniteSet(OfKind(Committed(facts), kind)) /\ IsFiniteSet(OfKind(Committed(facts), "CONTRACT"))
  BY <1>1, FS_Subset DEF Finite
<1>3. IsFiniteSet(all)
  BY <1>2, FS_Product
<1>4. chosen \in SUBSET all
  OBVIOUS
<1>5. Decided(kind) = {edge[fc] : fc \in chosen} /\ DOMAIN edge = chosen
  BY DEF Decided
<1> HIDE DEF all, chosen, edge
<1>6. IsFiniteSet(chosen)
  BY <1>3, <1>4, FS_Subset
<1> QED BY <1>5, <1>6, FiniteImage

\* Steps that write neither facts, allocations, links, packs nor tasks.
LEMMA StillSteady ==
    ASSUME PacksTyped, Finite, facts' = facts, allocations' = allocations, links' = links,
           packed' = packed, tasks' = tasks
    PROVE  Steady
BY DEF Steady, PacksTyped, Finite, OnlyGrows

\* A row adds one link, or none.
LEMMA KeepScopeSteady ==
    ASSUME Finite, NEW s, NEW c, KeepScope(s, c)
    PROVE  IsFiniteSet(links') /\ Committed(links) \subseteq Committed(links')
<1>1. links' = links \/ \E new : links' = links \cup {new}
  BY DEF KeepScope
<1>2. CASE links' = links
  BY <1>2 DEF Finite
<1>3. ASSUME NEW new, links' = links \cup {new}
      PROVE  IsFiniteSet(links') /\ Committed(links) \subseteq Committed(links')
  BY <1>3, FS_AddElement DEF Finite, Committed
<1> QED BY <1>1, <1>2, <1>3

LEMMA ReadRowSteady ==
    ASSUME IInv, RowsOfFiles, PacksTyped, Finite, NEW s \in Sessions, ReadRow(s) PROVE Steady
<1>1. CASE OpenFile(s) \/ InsertDocument(s) \/ New(s) \/ CloseFile(s)
  BY <1>1, StillSteady DEF OpenFile, InsertDocument, New, CloseFile, ledger
<1>2. CASE Exclude(s) \/ IdentityIncomplete(s) \/ Ambiguous(s) \/ Conflict(s)
  BY <1>2, StillSteady DEF Exclude, IdentityIncomplete, Ambiguous, Conflict, Proceed, ledger
<1>5. CASE Corroborate(s)
  <2>1. /\ facts' = facts /\ allocations' = allocations /\ packed' = packed /\ tasks' = tasks
        /\ \E c : KeepScope(s, c)
    BY <1>5 DEF Corroborate
  <2>2. IsFiniteSet(links') /\ Committed(links) \subseteq Committed(links')
    BY <2>1, KeepScopeSteady
  <2> QED BY <2>1, <2>2 DEF Steady, Finite, PacksTyped, OnlyGrows
<1>3. CASE InsertFact(s)
  <2>1. PICK new : facts' = facts \cup {new}
    BY <1>3 DEF InsertFact
  <2>4. IsFiniteSet(links') /\ Committed(links) \subseteq Committed(links')
    BY <1>3, KeepScopeSteady DEF InsertFact
  <2>2. allocations' = allocations /\ packed' = packed /\ tasks' = tasks
    BY <1>3 DEF InsertFact
  <2>3. IsFiniteSet(facts')
    BY <2>1, FS_AddElement DEF Finite
  <2> QED BY <2>1, <2>2, <2>3, <2>4 DEF Steady, Finite, PacksTyped, OnlyGrows, Committed
<1>4. CASE EndImport(s)
  BY <1>4, CommitSteady DEF EndImport
<1> QED BY <1>1, <1>2, <1>3, <1>4, <1>5 DEF ReadRow

LEMMA ApplyPackSteady ==
    ASSUME IInv, RowsOfFiles, PacksTyped, Finite, NEW p \in Plans, ApplyPack(p) PROVE Steady
<1>1. p \in Sessions
  BY DEF Sessions
<1>2. CASE EnterPack(p)
  BY <1>2, StillSteady DEF EnterPack, ledger
<1>3. CASE PreStage(p) \/ PostStage(p)
  BY <1>3, RecordSteady DEF PreStage, PostStage
<1>4. CASE CommitPre(p) \/ CommitPost(p)
  BY <1>1, <1>4, CommitSteady DEF CommitPre, CommitPost
<1>5. CASE RefusePack(p) \/ NotReady(p)
  BY <1>1, <1>5, RollbackSteady DEF RefusePack, NotReady
<1>6. CASE Match(p)
  <2>1. PICK D : D = Decided(pc[p])
    OBVIOUS
  <2>2. IsFiniteSet(D)
    BY <2>1, DecidedIsFinite
  <2>3. allocations' = allocations \cup D /\ facts' = facts /\ links' = links /\ packed' = packed
        /\ tasks' = tasks
    BY <1>6, <2>1 DEF Match
  <2>4. IsFiniteSet(allocations')
    BY <2>2, <2>3, FS_Union DEF Finite
  <2> QED BY <2>3, <2>4 DEF Steady, Finite, PacksTyped, OnlyGrows
<1> QED BY <1>2, <1>3, <1>4, <1>5, <1>6 DEF ApplyPack

LEMMA StepSteady ==
    ASSUME IInv, RowsOfFiles, PacksTyped, Finite, [Next]_vars PROVE Steady
<1>1. ASSUME NEW s \in Sessions, Start(s) PROVE Steady
  BY <1>1, StillSteady DEF Start, ledger
<1>2. ASSUME NEW s \in Sessions, Step(s) PROVE Steady
  BY <1>2, ReadRowSteady, ApplyPackSteady, RollbackSteady DEF Step, UniqueViolation, Deadlock
<1>3. ASSUME NEW s \in Sessions, Crash(s) PROVE Steady
  BY <1>3, RollbackSteady DEF Crash
<1>4. ASSUME NEW f, NEW c, Confirm(f, c) PROVE Steady
  <2>1. allocations' = allocations \cup {<<f.at, c.at>>} /\ facts' = facts /\ links' = links
        /\ packed' = packed /\ tasks' = tasks
    BY <1>4 DEF Confirm
  <2>2. IsFiniteSet(allocations')
    BY <2>1, FS_AddElement DEF Finite
  <2> QED BY <2>1, <2>2 DEF Steady, Finite, PacksTyped, OnlyGrows
<1>5. ASSUME UNCHANGED ledger PROVE Steady
  BY <1>5, StillSteady DEF ledger
<1>6. ASSUME NEW b, OpenGate(b) PROVE Steady
  BY <1>5, <1>6 DEF OpenGate
<1>7. CASE \/ HashBefore \/ ReadContracts \/ ReadSubjects \/ ReadTasks \/ HashAfter
          \/ \E ok \in BOOLEAN : Judge(ok)
  BY <1>5, <1>7 DEF HashBefore, ReadContracts, ReadSubjects, ReadTasks, Read, HashAfter, Judge
<1>8. CASE UNCHANGED vars
  BY <1>5, <1>8 DEF vars
<1> QED BY <1>1, <1>2, <1>3, <1>4, <1>6, <1>7, <1>8 DEF Next

-----------------------------------------------------------------------------
(* What the gate read lies between the ledger at its first fingerprint and *)
(* the one at its second.                                                  *)

Fields == {"phase", "verdict", "baseline", "before", "then", "view", "agrees", "hashed", "same"}

\* While the first fingerprint is made: what was hashed is still there.
Hashing(g, X) ==
    /\ \E S : g.before \in Seq(S)
    /\ Len(g.before) < 10
    /\ \A i \in Viewed : i <= Len(g.before) => g.before[i] \subseteq X[i]

\* The tables Old were there when the first fingerprint was complete.
Since(g, Old, X) == AtMost(g.before, Old) /\ AtMost(Old, X) /\ g.then = ViewFrom(Old)

\* What was read so far is between low and high.
Others(v, w) ==
    /\ v.subjects \subseteq w.subjects /\ v.allocations \subseteq w.allocations
    /\ v.links \subseteq w.links /\ v.packed \subseteq w.packed
Between(phase, v, low, high) ==
    /\ phase # "contracts" => low.contracts \subseteq v.contracts /\ v.contracts \subseteq high.contracts
    /\ phase = "tasks" => Others(low, v) /\ Others(v, high)

\* A comparison without findings was one of a view between Old and U.
Compared(g, Old, U) ==
    g.agrees => \E v : /\ Shape(v) /\ FiniteView(v) /\ Passed(v, g.baseline)
                       /\ Below(ViewFrom(Old), v) /\ Below(v, ViewFrom(U))
\* The tables that were hashed again are those of the first fingerprint.
Rehashed(g, U) == g.same => \A i \in Viewed : i <= g.hashed => U[i] \subseteq g.before[i]

Reads(g, X) ==
    \E Old : Since(g, Old, X) /\ Between(g.phase, g.view, ViewFrom(Old), ViewFrom(X))
Judging(g, X) ==
    \E Old : \E U : Since(g, Old, U) /\ AtMost(U, X) /\ Compared(g, Old, U) /\ Rehashed(g, U)

Sound(g, X) ==
    g.phase # "idle" =>
        /\ DOMAIN g = Fields /\ g.verdict = "FAIL" /\ g.baseline \in Baselines /\ Shape(g.view)
        /\ \/ g.phase = "before" /\ g.hashed = 0 /\ Hashing(g, X)
           \/ g.phase \in {"contracts", "subjects", "tasks"} /\ g.hashed = 0 /\ Reads(g, X)
           \/ /\ g.phase \in {"after", "judge"} /\ g.hashed \in 0..10 /\ Judging(g, X)
              /\ g.phase = "after" <=> g.hashed < 10

LEMMA AtMostGrows ==
    ASSUME NEW X, NEW Y, NEW Z, AtMost(X, Y), AtMost(Y, Z) PROVE AtMost(X, Z)
BY DEF AtMost

LEMMA BelowGrows ==
    ASSUME NEW u, NEW v, NEW w, Below(v, w)
    PROVE  /\ Below(u, v) => Below(u, w)
           /\ \A phase, low : Between(phase, u, low, v) => Between(phase, u, low, w)
BY DEF Below, Between, Others

\* Whatever is committed, what the gate has read stays between the two ledgers.
LEMMA SoundGrows ==
    ASSUME NEW g, NEW X, NEW Y, AtMost(X, Y), Sound(g, X) PROVE Sound(g, Y)
<1>1. Hashing(g, X) => Hashing(g, Y)
  BY DEF Hashing, AtMost
<1>2. Reads(g, X) => Reads(g, Y)
  <2>1. ASSUME NEW Old, Since(g, Old, X), Between(g.phase, g.view, ViewFrom(Old), ViewFrom(X))
        PROVE  Since(g, Old, Y) /\ Between(g.phase, g.view, ViewFrom(Old), ViewFrom(Y))
    <3>1. Since(g, Old, Y)
      BY <2>1, AtMostGrows DEF Since
    <3>2. PICK phase, u, low, v, w : /\ phase = g.phase /\ u = g.view /\ low = ViewFrom(Old)
                                     /\ v = ViewFrom(X) /\ w = ViewFrom(Y)
      OBVIOUS
    <3>3. Below(v, w)
      BY <3>2, ViewGrows
    <3>4. Between(phase, u, low, w)
      BY <2>1, <3>2, <3>3, BelowGrows
    <3> QED BY <3>1, <3>2, <3>4
  <2> QED BY <2>1 DEF Reads
<1>3. Judging(g, X) => Judging(g, Y)
  BY AtMostGrows DEF Judging
<1> QED BY <1>1, <1>2, <1>3 DEF Sound

LEMMA AppendOne ==
    ASSUME NEW S, NEW q \in Seq(S), NEW e
    PROVE  /\ Append(q, e) \in Seq(S \cup {e}) /\ Len(Append(q, e)) = Len(q) + 1
           /\ \A i \in 1..Len(q) : Append(q, e)[i] = q[i]
           /\ Append(q, e)[Len(q) + 1] = e
<1>1. q \in Seq(S \cup {e})
  OBVIOUS
<1> QED BY <1>1

\* The gate's steps leave the ledger alone.
LEMMA TablesStay ==
    ASSUME UNCHANGED ledger PROVE Tables' = Tables
BY DEF ledger, Tables, AllocationsOf, OfKind, Committed

LEMMA OpenGateSound ==
    ASSUME NEW b \in Baselines, OpenGate(b) PROVE Sound(gate', Tables)
<1>1. PICK h, X : h = gate' /\ X = Tables
  OBVIOUS
<1>2. /\ DOMAIN h = Fields /\ h.phase = "before" /\ h.verdict = "FAIL" /\ h.baseline = b
      /\ h.before = <<>> /\ h.view = Blank /\ h.hashed = 0
  BY <1>1 DEF OpenGate, Fields
<1>3. Shape(Blank)
  BY DEF Blank, Shape, ViewOf
<1>4. Hashing(h, X)
  <2>1. <<>> \in Seq({}) /\ Len(<<>>) = 0
    OBVIOUS
  <2> QED BY <1>2, <2>1 DEF Hashing, Viewed
<1> QED BY <1>1, <1>2, <1>3, <1>4 DEF Sound

LEMMA HashBeforeSound ==
    ASSUME RowsOfFiles, Sound(gate, Tables), HashBefore PROVE Sound(gate', Tables)
<1>1. PICK g, h, X : g = gate /\ h = gate' /\ X = Tables
  OBVIOUS
<1>2. PICK print : print = Append(g.before, X[Len(g.before) + 1])
  OBVIOUS
<1>3. /\ g.phase = "before"
      /\ h = [g EXCEPT !.before = print,
                       !.phase = IF Len(print) = 10 THEN "contracts" ELSE @,
                       !.then = IF Len(print) = 10 THEN ViewFrom(X) ELSE @]
  BY <1>1, <1>2, TableRows, NowIsView DEF HashBefore
<1>4. /\ DOMAIN g = Fields /\ g.verdict = "FAIL" /\ g.baseline \in Baselines /\ Shape(g.view)
      /\ g.hashed = 0 /\ Hashing(g, X)
  BY <1>1, <1>3 DEF Sound
<1>5. /\ DOMAIN h = Fields /\ h.verdict = g.verdict /\ h.baseline = g.baseline /\ h.view = g.view
      /\ h.hashed = g.hashed /\ h.before = print
      /\ h.phase = IF Len(print) = 10 THEN "contracts" ELSE "before"
      /\ Len(print) = 10 => h.then = ViewFrom(X)
  BY <1>3, <1>4 DEF Fields
<1>6. PICK S : g.before \in Seq(S)
  BY <1>4 DEF Hashing
<1>7. /\ \E T : print \in Seq(T)
      /\ Len(print) = Len(g.before) + 1 /\ Len(g.before) \in Nat /\ Len(g.before) < 10
      /\ \A i \in 1..Len(g.before) : print[i] = g.before[i]
      /\ print[Len(g.before) + 1] = X[Len(g.before) + 1]
  <2>1. PICK q, e : q = g.before /\ e = X[Len(g.before) + 1]
    OBVIOUS
  <2>2. q \in Seq(S) /\ print = Append(q, e)
    BY <1>2, <1>6, <2>1
  <2>3. /\ print \in Seq(S \cup {e}) /\ Len(print) = Len(q) + 1
        /\ \A i \in 1..Len(q) : print[i] = q[i]
        /\ print[Len(q) + 1] = e
    BY <2>2, AppendOne
  <2>4. Len(q) \in Nat
    BY <2>2
  <2>5. Len(q) < 10
    BY <1>4, <2>1 DEF Hashing
  <2> QED BY <2>1, <2>3, <2>4, <2>5
<1>8. \A i \in Viewed : i <= Len(print) => print[i] \subseteq X[i]
  <2>1. ASSUME NEW i \in Viewed, i <= Len(print) PROVE print[i] \subseteq X[i]
    <3>1. i \in 1..Len(g.before) \/ i = Len(g.before) + 1
      BY <1>7, <2>1 DEF Viewed
    <3>2. CASE i \in 1..Len(g.before)
      BY <1>4, <1>7, <3>2 DEF Hashing
    <3>3. CASE i = Len(g.before) + 1
      BY <1>7, <3>3
    <3> QED BY <3>1, <3>2, <3>3
  <2> QED BY <2>1
<1>9. CASE Len(print) = 10
  <2>1. AtMost(print, X) /\ AtMost(X, X)
    BY <1>8, <1>9 DEF AtMost, Viewed
  <2>2. Since(h, X, X)
    BY <1>5, <1>9, <2>1 DEF Since
  <2>3. Between(h.phase, h.view, ViewFrom(X), ViewFrom(X))
    BY <1>5, <1>9 DEF Between
  <2>4. Reads(h, X)
    BY <2>2, <2>3 DEF Reads
  <2> QED BY <1>1, <1>4, <1>5, <1>9, <2>4 DEF Sound
<1>10. CASE Len(print) # 10
  <2>1. Hashing(h, X)
    BY <1>5, <1>7, <1>8, <1>10 DEF Hashing
  <2> QED BY <1>1, <1>4, <1>5, <1>10, <2>1 DEF Sound
<1> QED BY <1>9, <1>10

\* The parts of what a statement shows now.
LEMMA NowParts ==
    ASSUME RowsOfFiles, NEW X, X = Tables
    PROVE  /\ ViewFrom(X).contracts = ContractsNow /\ ViewFrom(X).subjects = SubjectsNow
           /\ ViewFrom(X).allocations = PairsNow /\ ViewFrom(X).links = LinksNow
           /\ ViewFrom(X).packed = PackedNow /\ ViewFrom(X).tasks = tasks
<1>1. PICK v : v = ViewNow
  OBVIOUS
<1>2. /\ v.contracts = ContractsNow /\ v.subjects = SubjectsNow /\ v.allocations = PairsNow
      /\ v.links = LinksNow /\ v.packed = PackedNow /\ v.tasks = tasks
  BY <1>1 DEF ViewNow
<1> QED BY <1>1, <1>2, NowIsView

\* A statement that reads: the gate goes on with a larger view.
LEMMA ReadContractsSound ==
    ASSUME RowsOfFiles, Sound(gate, Tables), ReadContracts PROVE Sound(gate', Tables)
<1>1. PICK g, h, X, v : g = gate /\ h = gate' /\ X = Tables /\ v = gate.view
  OBVIOUS
<1>2. PICK w : w = [v EXCEPT !.contracts = ContractsNow]
  OBVIOUS
<1>3. g.phase = "contracts" /\ h = [g EXCEPT !.phase = "subjects", !.view = w]
  BY <1>1, <1>2 DEF ReadContracts, Read
<1>4. /\ DOMAIN g = Fields /\ g.verdict = "FAIL" /\ g.baseline \in Baselines /\ Shape(v)
      /\ g.hashed = 0 /\ Reads(g, X)
  BY <1>1, <1>3 DEF Sound
<1>5. Shape(w) /\ w.contracts = ContractsNow
  <2>1. w = ViewOf(ContractsNow, v.subjects, v.allocations, v.links, v.packed, v.tasks)
    BY <1>2, <1>4 DEF Shape, ViewOf
  <2> QED BY <2>1 DEF Shape, ViewOf
<1>6. /\ DOMAIN h = Fields /\ h.phase = "subjects" /\ h.view = w /\ h.verdict = g.verdict
      /\ h.baseline = g.baseline /\ h.before = g.before /\ h.then = g.then /\ h.hashed = g.hashed
  BY <1>3, <1>4 DEF Fields
<1>7. PICK Old : Since(g, Old, X)
  BY <1>4 DEF Reads
<1>8. Since(h, Old, X)
  BY <1>6, <1>7 DEF Since
<1>9. Between("subjects", w, ViewFrom(Old), ViewFrom(X))
  <2>1. Below(ViewFrom(Old), ViewFrom(X))
    BY <1>7, ViewGrows DEF Since
  <2>2. ViewFrom(X).contracts = w.contracts
    BY <1>1, <1>5, NowParts
  <2> QED BY <2>1, <2>2 DEF Between, Below
<1>10. Reads(h, X)
  BY <1>6, <1>8, <1>9 DEF Reads
<1> QED BY <1>1, <1>4, <1>5, <1>6, <1>10 DEF Sound

LEMMA ReadSubjectsSound ==
    ASSUME RowsOfFiles, Sound(gate, Tables), ReadSubjects PROVE Sound(gate', Tables)
<1>1. PICK g, h, X, v : g = gate /\ h = gate' /\ X = Tables /\ v = gate.view
  OBVIOUS
<1>2. PICK w : w = [v EXCEPT !.subjects = SubjectsNow, !.links = LinksNow,
                             !.allocations = PairsNow, !.packed = PackedNow]
  OBVIOUS
<1>3. g.phase = "subjects" /\ h = [g EXCEPT !.phase = "tasks", !.view = w]
  BY <1>1, <1>2 DEF ReadSubjects, Read
<1>4. /\ DOMAIN g = Fields /\ g.verdict = "FAIL" /\ g.baseline \in Baselines /\ Shape(v)
      /\ g.hashed = 0 /\ Reads(g, X)
  BY <1>1, <1>3 DEF Sound
<1>5. w = ViewOf(v.contracts, SubjectsNow, PairsNow, LinksNow, PackedNow, v.tasks)
  <2> DEFINE one   == [v EXCEPT !.subjects = SubjectsNow]
             two   == [one EXCEPT !.links = LinksNow]
             three == [two EXCEPT !.allocations = PairsNow]
             four  == [three EXCEPT !.packed = PackedNow]
  <2>1. one = ViewOf(v.contracts, SubjectsNow, v.allocations, v.links, v.packed, v.tasks)
    BY <1>4 DEF Shape, ViewOf
  <2> HIDE DEF one
  <2>2. two = ViewOf(v.contracts, SubjectsNow, v.allocations, LinksNow, v.packed, v.tasks)
    BY <2>1 DEF ViewOf
  <2> HIDE DEF two
  <2>3. three = ViewOf(v.contracts, SubjectsNow, PairsNow, LinksNow, v.packed, v.tasks)
    BY <2>2 DEF ViewOf
  <2> HIDE DEF three
  <2>4. four = ViewOf(v.contracts, SubjectsNow, PairsNow, LinksNow, PackedNow, v.tasks)
    BY <2>3 DEF ViewOf
  <2> QED BY <1>2, <2>4 DEF four, three, two, one
<1>6. /\ Shape(w) /\ w.contracts = v.contracts /\ w.subjects = SubjectsNow
      /\ w.allocations = PairsNow /\ w.links = LinksNow /\ w.packed = PackedNow
  BY <1>5 DEF Shape, ViewOf
<1>7. /\ DOMAIN h = Fields /\ h.phase = "tasks" /\ h.view = w /\ h.verdict = g.verdict
      /\ h.baseline = g.baseline /\ h.before = g.before /\ h.then = g.then /\ h.hashed = g.hashed
  BY <1>3, <1>4 DEF Fields
<1>8. PICK Old : Since(g, Old, X) /\ Between("subjects", v, ViewFrom(Old), ViewFrom(X))
  BY <1>1, <1>3, <1>4 DEF Reads
<1>9. Since(h, Old, X)
  BY <1>7, <1>8 DEF Since
<1>10. Between("tasks", w, ViewFrom(Old), ViewFrom(X))
  <2>1. Below(ViewFrom(Old), ViewFrom(X))
    BY <1>8, ViewGrows DEF Since
  <2>2. /\ ViewFrom(X).subjects = w.subjects /\ ViewFrom(X).allocations = w.allocations
        /\ ViewFrom(X).links = w.links /\ ViewFrom(X).packed = w.packed
    BY <1>1, <1>6, NowParts
  <2> QED BY <1>6, <1>8, <2>1, <2>2 DEF Between, Below, Others
<1>11. Reads(h, X)
  BY <1>7, <1>9, <1>10 DEF Reads
<1> QED BY <1>1, <1>4, <1>6, <1>7, <1>11 DEF Sound

LEMMA NowIsFinite ==
    ASSUME Finite
    PROVE  /\ IsFiniteSet(ContractsNow) /\ IsFiniteSet(PairsNow)
           /\ IsFiniteSet(LinksNow) /\ IsFiniteSet(PackedNow)
<1>1. IsFiniteSet(Shown(facts))
  <2> DEFINE show == [f \in Committed(facts) |->
                        [kind |-> f.row.kind, id |-> f.row.id, content |-> f.row.content,
                         party |-> f.row.party, at |-> f.at]]
  <2>1. Committed(facts) \in SUBSET facts
    BY DEF Committed
  <2>2. IsFiniteSet(Committed(facts))
    BY <2>1, FS_Subset DEF Finite
  <2>3. Shown(facts) = {show[f] : f \in Committed(facts)} /\ DOMAIN show = Committed(facts)
    BY DEF Shown
  <2> HIDE DEF show
  <2> QED BY <2>2, <2>3, FiniteImage
<1>2. IsFiniteSet(ContractsNow) /\ IsFiniteSet(SubjectsNow)
  <2>1. ContractsNow \in SUBSET Shown(facts) /\ SubjectsNow \in SUBSET Shown(facts)
    BY DEF ContractsNow, SubjectsNow
  <2> QED BY <1>1, <2>1, FS_Subset
<1>3. IsFiniteSet(PairsNow)
  <2>1. PairsNow \in SUBSET (SubjectsNow \X ContractsNow)
    BY DEF PairsNow
  <2> QED BY <1>2, <2>1, FS_Subset, FS_Product
<1>4. IsFiniteSet(PackedNow)
  <2> DEFINE take == [x \in Committed(packed) |-> x.fact]
  <2>1. Committed(packed) \in SUBSET packed
    BY DEF Committed
  <2>2. IsFiniteSet(Committed(packed))
    BY <2>1, FS_Subset DEF Finite
  <2>3. PackedNow = {take[x] : x \in Committed(packed)} /\ DOMAIN take = Committed(packed)
    BY DEF PackedNow
  <2> HIDE DEF take
  <2> QED BY <2>2, <2>3, FiniteImage
<1>5. IsFiniteSet(LinksNow)
  <2> DEFINE take == [l \in Committed(links) |-> [contract |-> l.contract, sales |-> l.sales]]
  <2>1. Committed(links) \in SUBSET links
    BY DEF Committed
  <2>2. IsFiniteSet(Committed(links))
    BY <2>1, FS_Subset DEF Finite
  <2>3. LinksNow = {take[l] : l \in Committed(links)} /\ DOMAIN take = Committed(links)
    BY DEF LinksNow
  <2> HIDE DEF take
  <2> QED BY <2>2, <2>3, FiniteImage
<1> QED BY <1>2, <1>3, <1>4, <1>5

LEMMA FiniteBelow ==
    ASSUME NEW v, NEW w, Below(v, w), FiniteView(w) PROVE FiniteView(v)
<1>1. /\ v.contracts \in SUBSET w.contracts /\ v.allocations \in SUBSET w.allocations
      /\ v.links \in SUBSET w.links /\ v.packed \in SUBSET w.packed
  BY DEF Below
<1> QED BY <1>1, FS_Subset DEF FiniteView

LEMMA ReadTasksSound ==
    ASSUME RowsOfFiles, Finite, Sound(gate, Tables), ReadTasks PROVE Sound(gate', Tables)
<1>1. PICK g, h, X, v : g = gate /\ h = gate' /\ X = Tables /\ v = gate.view
  OBVIOUS
<1>2. PICK w : w = [v EXCEPT !.tasks = tasks]
  OBVIOUS
<1>3. /\ g.phase = "tasks"
      /\ h = [g EXCEPT !.phase = "after", !.view = Blank, !.agrees = Passed(w, g.baseline)]
  BY <1>1, <1>2 DEF ReadTasks
<1>4. /\ DOMAIN g = Fields /\ g.verdict = "FAIL" /\ g.baseline \in Baselines /\ Shape(v)
      /\ g.hashed = 0 /\ Reads(g, X)
  BY <1>1, <1>3 DEF Sound
<1>5. /\ Shape(w) /\ w.contracts = v.contracts /\ w.subjects = v.subjects
      /\ w.allocations = v.allocations /\ w.links = v.links /\ w.packed = v.packed /\ w.tasks = tasks
  <2>1. w = ViewOf(v.contracts, v.subjects, v.allocations, v.links, v.packed, tasks)
    BY <1>2, <1>4 DEF Shape, ViewOf
  <2> QED BY <2>1 DEF Shape, ViewOf
<1>6. /\ DOMAIN h = Fields /\ h.phase = "after" /\ h.view = Blank /\ h.verdict = g.verdict
      /\ h.baseline = g.baseline /\ h.before = g.before /\ h.then = g.then /\ h.hashed = 0
      /\ h.agrees = Passed(w, g.baseline)
  BY <1>3, <1>4 DEF Fields
<1>7. PICK Old : Since(g, Old, X) /\ Between("tasks", v, ViewFrom(Old), ViewFrom(X))
  BY <1>1, <1>3, <1>4 DEF Reads
<1>8. Below(ViewFrom(Old), w) /\ Below(w, ViewFrom(X))
  <2>1. Below(ViewFrom(Old), ViewFrom(X))
    BY <1>7, ViewGrows DEF Since
  <2>2. ViewFrom(X).tasks = w.tasks
    BY <1>1, <1>5, NowParts
  <2> QED BY <1>5, <1>7, <2>1, <2>2 DEF Between, Below, Others
<1>9. FiniteView(w)
  <2>1. FiniteView(ViewFrom(X))
    BY <1>1, NowIsFinite, NowParts DEF FiniteView
  <2> QED BY <1>8, <2>1, FiniteBelow
<1>10. Since(h, Old, X) /\ AtMost(X, X)
  BY <1>6, <1>7 DEF Since, AtMost
<1>11. Compared(h, Old, X)
  <2>1. h.agrees => Passed(w, h.baseline)
    BY <1>6
  <2> QED BY <1>5, <1>8, <1>9, <2>1 DEF Compared
<1>12. Rehashed(h, X)
  BY <1>6 DEF Rehashed, Viewed
<1>13. Judging(h, X)
  BY <1>10, <1>11, <1>12 DEF Judging
<1>14. Shape(Blank)
  BY DEF Blank, Shape, ViewOf
<1> QED BY <1>1, <1>4, <1>6, <1>13, <1>14 DEF Sound

LEMMA HashAfterSound ==
    ASSUME Sound(gate, Tables), HashAfter PROVE Sound(gate', Tables)
<1>1. PICK g, h, X : g = gate /\ h = gate' /\ X = Tables
  OBVIOUS
<1>2. PICK i : i = g.hashed + 1
  OBVIOUS
<1>3. /\ g.phase = "after"
      /\ h = [g EXCEPT !.hashed = i, !.same = @ /\ ReadOnly(g.before[i], X[i]),
                       !.phase = IF i = 10 THEN "judge" ELSE @]
  BY <1>1, <1>2, TableRows DEF HashAfter
<1>4. /\ DOMAIN g = Fields /\ g.verdict = "FAIL" /\ g.baseline \in Baselines /\ Shape(g.view)
      /\ g.hashed \in 0..10 /\ g.hashed < 10 /\ Judging(g, X)
  BY <1>1, <1>3 DEF Sound
<1>5. /\ DOMAIN h = Fields /\ h.verdict = g.verdict /\ h.baseline = g.baseline /\ h.view = g.view
      /\ h.hashed = i /\ h.before = g.before /\ h.then = g.then /\ h.agrees = g.agrees
      /\ h.phase = IF i = 10 THEN "judge" ELSE "after"
      /\ h.same = (g.same /\ ReadOnly(g.before[i], X[i]))
  BY <1>3, <1>4 DEF Fields
<1>6. PICK Old : \E U : Since(g, Old, U) /\ AtMost(U, X) /\ Compared(g, Old, U) /\ Rehashed(g, U)
  BY <1>4 DEF Judging
<1>7. PICK U : Since(g, Old, U) /\ AtMost(U, X) /\ Compared(g, Old, U) /\ Rehashed(g, U)
  BY <1>6
<1>8. Since(h, Old, U)
  BY <1>5, <1>7 DEF Since
<1>9. Compared(h, Old, U)
  BY <1>5, <1>7 DEF Compared
<1>10. Rehashed(h, U)
  <2>1. ASSUME NEW k \in Viewed, k <= i, h.same PROVE U[k] \subseteq h.before[k]
    <3>1. g.same /\ g.before[i] = X[i]
      BY <1>5, <2>1 DEF ReadOnly
    <3>2. CASE k <= g.hashed
      BY <1>5, <1>7, <2>1, <3>1, <3>2 DEF Rehashed
    <3>3. CASE k = i
      BY <1>5, <1>7, <2>1, <3>1, <3>3 DEF AtMost
    <3>4. k <= g.hashed \/ k = i
      BY <1>2, <1>4, <2>1 DEF Viewed
    <3> QED BY <3>2, <3>3, <3>4
  <2> QED BY <1>5, <2>1 DEF Rehashed
<1>11. Judging(h, X)
  BY <1>7, <1>8, <1>9, <1>10 DEF Judging
<1>12. i \in 0..10 /\ (h.phase = "after" <=> i < 10) /\ h.phase \in {"after", "judge"}
  BY <1>2, <1>4, <1>5
<1> QED BY <1>1, <1>4, <1>5, <1>11, <1>12 DEF Sound

LEMMA GateStays ==
    ASSUME NEW s \in Sessions, Start(s) \/ Step(s) \/ Crash(s) PROVE gate' = gate
<1>1. CASE Start(s) \/ Crash(s) \/ UniqueViolation(s) \/ Deadlock(s)
  BY <1>1 DEF Start, Crash, UniqueViolation, Deadlock, Rollback
<1>2. CASE ReadRow(s)
  BY <1>2 DEF ReadRow, OpenFile, InsertDocument, Exclude, IdentityIncomplete, Ambiguous, Conflict,
              Corroborate, Proceed, New, InsertFact, CloseFile, EndImport, CommitTo
<1>3. CASE ApplyPack(s)
  BY <1>3 DEF ApplyPack, EnterPack, PreStage, CommitPre, RefusePack, Match, NotReady, PostStage,
              CommitPost, CommitTo, Rollback
<1> QED BY <1>1, <1>2, <1>3 DEF Step

GateInv == PacksTyped /\ Finite /\ Sound(gate, Tables)

LEMMA GateStep == IInv /\ RowsOfFiles /\ GateInv /\ [Next]_vars => GateInv'
<1> SUFFICES ASSUME IInv, RowsOfFiles, GateInv, [Next]_vars PROVE GateInv'
  OBVIOUS
<1>1. Steady
  BY StepSteady DEF GateInv
<1>2. CASE gate' = gate
  <2>1. AtMost(Tables, Tables')
    BY <1>1, TablesGrow DEF Steady
  <2>2. PICK g, X, Y : g = gate /\ X = Tables /\ Y = Tables'
    OBVIOUS
  <2>3. Sound(g, Y)
    BY <2>1, <2>2, SoundGrows DEF GateInv
  <2>4. Sound(gate, Tables)'
    BY <1>2, <2>2, <2>3
  <2> QED BY <1>1, <2>4 DEF GateInv, Steady
<1>3. ASSUME UNCHANGED ledger, Sound(gate', Tables) PROVE GateInv'
  <2>1. Sound(gate, Tables)'
    BY <1>3, TablesStay
  <2> QED BY <1>1, <2>1 DEF GateInv, Steady
<1>4. ASSUME NEW b \in Baselines, OpenGate(b) PROVE GateInv'
  BY <1>3, <1>4, OpenGateSound DEF OpenGate
<1>5. CASE HashBefore \/ ReadContracts \/ ReadSubjects \/ ReadTasks \/ HashAfter
  <2>1. Sound(gate', Tables)
    BY <1>5, HashBeforeSound, ReadContractsSound, ReadSubjectsSound, ReadTasksSound, HashAfterSound
       DEF GateInv
  <2>2. UNCHANGED ledger
    BY <1>5 DEF HashBefore, ReadContracts, ReadSubjects, Read, ReadTasks, HashAfter
  <2> QED BY <1>3, <2>1, <2>2
<1>6. ASSUME NEW ok \in BOOLEAN, Judge(ok) PROVE GateInv'
  <2>1. Sound(gate', Tables) /\ UNCHANGED ledger
    BY <1>6 DEF Judge, Sound
  <2> QED BY <1>3, <2>1
<1>7. ASSUME NEW s \in Sessions, Start(s) \/ Step(s) \/ Crash(s) PROVE gate' = gate
  BY <1>7, GateStays
<1>8. ASSUME NEW f, NEW c, Confirm(f, c) PROVE gate' = gate
  BY <1>8 DEF Confirm
<1>9. CASE UNCHANGED vars
  BY <1>2, <1>9 DEF vars
<1> QED BY <1>2, <1>4, <1>5, <1>6, <1>7, <1>8, <1>9 DEF Next

LEMMA GateInit == Init => GateInv
<1> SUFFICES ASSUME Init PROVE GateInv
  OBVIOUS
<1>1. Finite
  BY FS_EmptySet DEF Init, Finite
<1>2. gate.phase = "idle"
  BY DEF Init, Closed
<1> QED BY <1>1, <1>2 DEF Init, GateInv, PacksTyped, Sound

\* Both fingerprints agree: the comparison was one of the ledger at the first.
LEMMA JudgedView ==
    ASSUME NEW g, NEW X, Sound(g, X), g.phase = "judge", g.agrees, g.same
    PROVE  Agreed(g.then, g.baseline)
<1>1. /\ g.baseline \in Baselines /\ g.hashed = 10 /\ Judging(g, X)
  BY DEF Sound
<1>2. PICK Old : \E U : Since(g, Old, U) /\ AtMost(U, X) /\ Compared(g, Old, U) /\ Rehashed(g, U)
  BY <1>1 DEF Judging
<1>3. PICK U : Since(g, Old, U) /\ AtMost(U, X) /\ Compared(g, Old, U) /\ Rehashed(g, U)
  BY <1>2
<1>4. PICK v : /\ Shape(v) /\ FiniteView(v) /\ Passed(v, g.baseline)
               /\ Below(ViewFrom(Old), v) /\ Below(v, ViewFrom(U))
  BY <1>3 DEF Compared
<1>5. AtMost(U, Old)
  <2>1. ASSUME NEW i \in Viewed PROVE U[i] \subseteq Old[i]
    <3>1. U[i] \subseteq g.before[i]
      BY <1>1, <1>3 DEF Rehashed, Viewed
    <3>2. g.before[i] \subseteq Old[i]
      BY <1>3 DEF Since, AtMost
    <3> QED BY <3>1, <3>2
  <2> QED BY <2>1 DEF AtMost
<1>6. v = ViewFrom(Old)
  <2>1. PICK w, z : w = ViewFrom(Old) /\ z = ViewFrom(U)
    OBVIOUS
  <2>2. Below(z, w) /\ Below(w, v) /\ Below(v, z)
    BY <1>4, <1>5, <2>1, ViewGrows
  <2>3. /\ v.contracts = w.contracts /\ v.subjects = w.subjects /\ v.allocations = w.allocations
        /\ v.links = w.links /\ v.packed = w.packed /\ v.tasks = w.tasks
    BY <2>2 DEF Below
  <2>4. Shape(w)
    BY <2>1, ViewParts
  <2> QED BY <1>4, <2>1, <2>3, <2>4 DEF Shape
<1>7. g.then = v
  BY <1>3, <1>6 DEF Since
<1>8. IsFiniteSet(DOMAIN g.baseline)
  BY <1>1, FinitenessAssumption
<1>9. PICK b : b = g.baseline
  OBVIOUS
<1>10. Agreed(v, b)
  BY <1>4, <1>8, <1>9, PassedAgrees
<1> QED BY <1>7, <1>9, <1>10

\* The gate passes only what was true of the ledger when its first fingerprint
\* was complete: it hashed the tables one by one, read contracts, allocations
\* and tasks in separate statements and hashed the tables again, and every
\* table it had read was then as before (first_stage_cutover_gate.py,
\* cutover_reconciliation.py).
THEOREM GatePassHolds == Spec => GatePassIsTrue
<1>1. ASSUME GateInv, [Next]_vars
      PROVE  [gate'.verdict = "PASS" /\ gate.verdict # "PASS" => Agreed(gate.then, gate.baseline)]_vars
  <2> SUFFICES ASSUME Next, gate'.verdict = "PASS", gate.verdict # "PASS"
               PROVE  Agreed(gate.then, gate.baseline)
    BY <1>1
  <2>1. ASSUME NEW ok \in BOOLEAN, Judge(ok) PROVE Agreed(gate.then, gate.baseline)
    <3>1. gate.phase = "judge" /\ gate.agrees /\ gate.same
      BY <2>1 DEF Judge
    <3>2. PICK g, X : g = gate /\ X = Tables
      OBVIOUS
    <3>3. Agreed(g.then, g.baseline)
      BY <1>1, <3>1, <3>2, JudgedView DEF GateInv
    <3> QED BY <3>2, <3>3
  <2>2. gate' = gate \/ gate'.verdict = "FAIL" \/ \E ok \in BOOLEAN : Judge(ok)
    <3>1. ASSUME NEW b, OpenGate(b) PROVE gate'.verdict = "FAIL"
      BY <3>1 DEF OpenGate
    <3>2. CASE HashBefore \/ ReadContracts \/ ReadSubjects \/ ReadTasks \/ HashAfter
      <4>1. gate.phase # "idle"
        BY <3>2 DEF HashBefore, ReadContracts, ReadSubjects, Read, ReadTasks, HashAfter
      <4>2. DOMAIN gate = Fields /\ gate.verdict = "FAIL"
        BY <1>1, <4>1 DEF GateInv, Sound
      <4>3. gate'.verdict = gate.verdict
        BY <3>2, <4>2 DEF HashBefore, ReadContracts, ReadSubjects, Read, ReadTasks, HashAfter, Fields
      <4> QED BY <4>2, <4>3
    <3>3. ASSUME NEW s \in Sessions, Start(s) \/ Step(s) \/ Crash(s) PROVE gate' = gate
      BY <3>3, GateStays
    <3>4. ASSUME NEW f, NEW c, Confirm(f, c) PROVE gate' = gate
      BY <3>4 DEF Confirm
    <3> QED BY <3>1, <3>2, <3>3, <3>4 DEF Next
  <2> QED BY <2>1, <2>2
<1>2. Spec => [](IInv /\ RowAtHand /\ Coverage /\ GateInv)
  <2>1. IInv /\ Coverage /\ GateInv /\ [Next]_vars => GateInv'
    BY GateStep DEF Coverage
  <2> QED BY <2>1, InitInv, StepInv, InitCovers, AtHandInv, CoverageInv, GateInit, PTL DEF Spec
<1> QED BY <1>1, <1>2, PTL DEF Spec, GatePassIsTrue
=============================================================================
