------------------------------- MODULE Cutover -------------------------------
(***************************************************************************)
(* The cutover of one period: `bel cutover backfill` runs a plan, plain    *)
(* imports of invoices and bank statements run beside it, people decide    *)
(* match cases, and `bel cutover gate` judges the result.                  *)
(*                                                                         *)
(* A plan is three transactions with matching in between:                  *)
(*   sources and the pack's first stage | commit                           *)
(*   match_invoices | match_payments    (each a locked transaction)        *)
(*   readiness, the pack's second stage | commit                           *)
(* No transaction but the matching takes the write lock: what serialises   *)
(* the others is the unique index on a document's sha256 and the one on    *)
(* an invoice's external key.                                              *)
(***************************************************************************)
EXTENDS Reconciliation

CONSTANTS
    Plans, Importers,
    Files,       \* Files[f]: the rows of file f, in order
    Program,     \* Program[s]: the files session s reads, in order
    Pack,        \* Pack[p]: the facts of the pack of plan p
    Matchable,   \* contents that matching decides without a person
    Disputed,    \* sales contracts whose links people have asserted otherwise
    Baselines,   \* baselines a gate may be given
    Crashing,    \* the sessions that may crash: a bound, like the next two
    MaxCrashes, MaxOpen   \* crashes, and runs open at a time

Sessions == Plans \cup Importers

ASSUME SessionsAssumption == None \notin Sessions
\* The document of a pack is not a file of rows, a plain import reads invoices
\* or payments, and a contract's identity names its party.
ASSUME FilesAssumption ==
    /\ Plans \cap DOMAIN Files = {}
    /\ \A f \in DOMAIN Files : Files[f] \in Seq({Files[f][i] : i \in DOMAIN Files[f]})
    /\ \A f \in DOMAIN Files : \A i \in DOMAIN Files[f] :
          Files[f][i].kind \in {"CONTRACT", "INVOICE", "PAYMENT"}
    /\ \A s \in Sessions : Program[s] \in Seq(DOMAIN Files)
    /\ \A s \in Importers : \A j \in DOMAIN Program[s] : \A i \in DOMAIN Files[Program[s][j]] :
          Files[Program[s][j]][i].kind # "CONTRACT"
    /\ \A f, g \in DOMAIN Files : \A i \in DOMAIN Files[f], j \in DOMAIN Files[g] :
          LET c == Files[f][i]
              d == Files[g][j]
          IN  c.kind = "CONTRACT" /\ c.kind = d.kind /\ c.id = d.id /\ c.id # None
                => c.party = d.party
ASSUME FinitenessAssumption ==
    /\ \A p \in Plans : IsFiniteSet(Pack[p])
    /\ \A b \in Baselines : IsFiniteSet(DOMAIN b)

\* id is None when the row has no complete identity, and part what it has of
\* one; a contract row may name the sales contract it belongs to, with its
\* buyer; out marks an outgoing payment, dismissed one that a confirmed scope
\* decision puts out of scope.
Row(kind, id, content, party) ==
    [kind |-> kind, id |-> id, part |-> None, content |-> content, party |-> party,
     sales |-> None, out |-> FALSE, dismissed |-> FALSE]
\* A fact of a pack; subject is the invoice of an item allocation.
PackFact(key, contract, subject) == [key |-> key, contract |-> contract, subject |-> subject]

VARIABLES
    documents,   \* Evidence documents: [file, by]; by is the open transaction
    facts,       \* rows made of files: [row, at, by] with at = <<file, index>>
    allocations, \* <<at of an invoice or payment, at of a contract>>
    links,       \* [contract, sales, by]: contract is the at of a contract
    packed,      \* facts of packs: [fact, by]
    tasks,       \* committed OPEN backfill tasks: [reason, key, at]
    draft,       \* draft[s]: tasks not committed yet
    pc,          \* the next statement of a session
    todo,        \* todo[s]: the files its run has not finished
    at,          \* at[s]: the row of the file at hand
    scope,       \* scope[s]: the parties of the contracts when it opened the file
    prepared,    \* plans that reported DONE
    crashes,
    gate         \* the gate's run: phase, baseline, what it read, verdict;
                 \* then is the ledger when the first fingerprint was complete

ledger  == <<documents, facts, allocations, links, packed, tasks>>
session == <<draft, pc, todo, at, scope, prepared, crashes>>
vars == <<ledger, session, gate>>

Closed == [phase |-> "idle", verdict |-> "FAIL"]

Init ==
    /\ documents = {} /\ facts = {} /\ allocations = {} /\ links = {} /\ packed = {} /\ tasks = {}
    /\ draft = [s \in Sessions |-> {}] /\ pc = [s \in Sessions |-> "idle"]
    /\ todo = [s \in Sessions |-> <<>>] /\ at = [s \in Sessions |-> 0]
    /\ scope = [s \in Sessions |-> {}]
    /\ prepared = {} /\ crashes = 0 /\ gate = Closed

-----------------------------------------------------------------------------
(* What a transaction sees, and how it ends.                               *)

Visible(s, set) == {x \in set : x.by \in {None, s}}
Committed(set)  == {x \in set : x.by = None}
OfKind(set, kind)   == {f \in set : f.row.kind = kind}
Named(set, kind, id) == {f \in OfKind(set, kind) : f.row.id = id}

Published(s, set) == {[x EXCEPT !.by = IF @ = s THEN None ELSE @] : x \in set}
Discarded(s, set) == {x \in set : x.by # s}

\* The transaction of s is committed and the session goes on at next.
CommitTo(s, next) ==
    /\ documents' = Published(s, documents) /\ facts' = Published(s, facts)
    /\ packed' = Published(s, packed) /\ links' = Published(s, links)
    /\ tasks' = tasks \cup draft[s]
    /\ draft' = [draft EXCEPT ![s] = {}] /\ pc' = [pc EXCEPT ![s] = next]
    /\ at' = [at EXCEPT ![s] = 0] /\ scope' = [scope EXCEPT ![s] = {}]
    /\ UNCHANGED <<allocations, todo, crashes, gate>>

Rollback(s) ==
    /\ documents' = Discarded(s, documents) /\ facts' = Discarded(s, facts)
    /\ packed' = Discarded(s, packed) /\ links' = Discarded(s, links)
    /\ draft' = [draft EXCEPT ![s] = {}] /\ pc' = [pc EXCEPT ![s] = "idle"]
    /\ todo' = [todo EXCEPT ![s] = <<>>] /\ at' = [at EXCEPT ![s] = 0]
    /\ scope' = [scope EXCEPT ![s] = {}]
    /\ UNCHANGED <<allocations, tasks, prepared, gate>>

Crash(s) ==
    /\ s \in Crashing /\ pc[s] # "idle" /\ crashes < MaxCrashes
    /\ crashes' = crashes + 1 /\ Rollback(s)

Goto(s, next) == pc' = [pc EXCEPT ![s] = next]

-----------------------------------------------------------------------------
(* Files.                                                                  *)

Open == {s \in Sessions : pc[s] # "idle"}
MayOpen == Cardinality(Open) + (IF gate.phase = "idle" THEN 0 ELSE 1) < MaxOpen

Start(s) ==
    /\ pc[s] = "idle" /\ MayOpen
    /\ todo' = [todo EXCEPT ![s] = Program[s]] /\ Goto(s, "file")
    /\ UNCHANGED <<ledger, draft, at, scope, prepared, crashes, gate>>

File(s) == Head(todo[s])
Reading(s, where) == pc[s] = where /\ todo[s] # <<>>

\* A file whose document is stored is skipped as a whole.
OpenFile(s) ==
    /\ Reading(s, "file")
    /\ IF \E d \in Visible(s, documents) : d.file = File(s)
       THEN todo' = [todo EXCEPT ![s] = Tail(@)] /\ UNCHANGED pc
       ELSE Goto(s, "document") /\ UNCHANGED todo
    /\ UNCHANGED <<ledger, draft, at, scope, prepared, crashes, gate>>

\* A document that is durable before the rows it holds.
Document_Durable(s, file) == [file |-> file, by |-> None]
Document(s, file) == [file |-> file, by |-> s]

\* Waits for another transaction that inserted the same sha256.
InsertDocument(s) ==
    /\ Reading(s, "document")
    /\ \A d \in documents : d.file # File(s)
    /\ documents' = documents \cup {Document(s, File(s))}
    /\ at' = [at EXCEPT ![s] = 1]
    /\ scope' = [scope EXCEPT ![s] =
          {f.row.party : f \in OfKind(Visible(s, facts), "CONTRACT")} \ {None}]
    /\ Goto(s, "row")
    /\ UNCHANGED <<facts, allocations, links, packed, tasks, draft, todo, prepared, crashes, gate>>

Now(s)  == Files[File(s)][at[s]]
InRow(s) == Reading(s, "row") /\ at[s] <= Len(Files[File(s)])

\* Without any contract nothing is known to be outside.
Excluded(s, r) ==
    /\ r.kind = "PAYMENT"
    /\ r.dismissed \/ (r.out /\ r.party # None /\ scope[s] # {} /\ r.party \notin scope[s])

\* A task's identity key. Without an identity it is what the row has of one: a
\* contract's number or party, the position of an invoice in its file, both for
\* a payment. Rows of several files may share such a key.
Partial(r, i) ==
    CASE r.kind = "CONTRACT" -> <<r.part, r.party>>
      [] r.kind = "INVOICE"  -> <<i>>
      [] OTHER               -> <<r.part, r.out, i>>
TaskKey(r, i) == <<r.kind, r.id, IF r.id = None THEN Partial(r, i) ELSE None>>
\* The key of a contract's sales scope names the sales contract alone.
ScopeKey(r) == <<"SCOPE", r.sales, None>>

\* An OPEN task of the same reason and key is reused, whatever row it is about.
BackfillTask(s, reason, key) ==
    IF \E t \in tasks \cup draft[s] : t.reason = reason /\ t.key = key THEN {}
    ELSE {[reason |-> reason, key |-> key, at |-> <<File(s), at[s]>>]}

Proceed(s, raised) ==
    /\ draft' = [draft EXCEPT ![s] = @ \cup raised]
    /\ at' = [at EXCEPT ![s] = @ + 1]
    /\ UNCHANGED <<ledger, pc, todo, scope, prepared, crashes, gate>>

Exclude(s) ==
    /\ InRow(s) /\ s \in Plans
    /\ Excluded(s, Now(s))
    /\ Proceed(s, {})

IdentityIncomplete(s) ==
    /\ InRow(s) /\ s \in Plans
    /\ ~Excluded(s, Now(s)) /\ Now(s).id = None
    /\ Proceed(s, BackfillTask(s, "IDENTITY_INCOMPLETE", TaskKey(Now(s), at[s])))

Known(s, r) == Named(Visible(s, facts), r.kind, r.id)

Meets(s) ==
    /\ InRow(s) /\ s \in Plans
    /\ ~Excluded(s, Now(s)) /\ Now(s).id # None /\ Known(s, Now(s)) # {}

Ambiguous(s) ==
    /\ Meets(s) /\ Cardinality(Known(s, Now(s))) > 1
    /\ Proceed(s, BackfillTask(s, "IDENTITY_AMBIGUOUS", TaskKey(Now(s), at[s])))

Conflict(s) ==
    /\ Meets(s)
    /\ \E f \in Known(s, Now(s)) : Known(s, Now(s)) = {f} /\ f.row.content # Now(s).content
    /\ Proceed(s, BackfillTask(s, "CONFLICT", TaskKey(Now(s), at[s])))

Scoped(r) == r.kind = "CONTRACT" /\ r.sales # None

\* Uncommitted rows that the sales scope of contract c has to wait for: the
\* same link, or another transaction's first row of that sales contract.
Rivals(s, c) ==
    {l \in links : /\ Scoped(Now(s)) /\ l.sales = Now(s).sales /\ l.by \notin {None, s}
                   /\ l.contract = c \/ \A m \in Visible(s, links) : m.sales # l.sales}

\* A contract row that was created or corroborated also says which sales
\* contract it belongs to: a link, its replay, or a task.
KeepScope(s, c) ==
    LET r == Now(s)
        linked   == \E l \in Visible(s, links) : l.contract = c /\ l.sales = r.sales
        disputed == r.sales \in Disputed
    IN  /\ Rivals(s, c) = {}
        /\ links' = IF Scoped(r) /\ ~disputed /\ ~linked
                    THEN links \cup {[contract |-> c, sales |-> r.sales, by |-> s]} ELSE links
        /\ draft' = IF Scoped(r) /\ disputed
                    THEN [draft EXCEPT ![s] = @ \cup BackfillTask(s, "CONFLICT", ScopeKey(r))]
                    ELSE draft

\* One fact of the same content.
Corroborates(s, f) ==
    Meets(s) /\ Known(s, Now(s)) = {f} /\ f.row.content = Now(s).content
Corroborate(s) ==
    \E f \in facts :
        /\ Corroborates(s, f)
        /\ KeepScope(s, f.at)
        /\ at' = [at EXCEPT ![s] = @ + 1]
        /\ UNCHANGED <<documents, facts, allocations, packed, tasks, pc, todo, scope, prepared,
                       crashes, gate>>

\* A plain import adds every row, whatever is there.
New(s) ==
    /\ InRow(s)
    /\ s \in Importers \/ (~Excluded(s, Now(s)) /\ Now(s).id # None /\ Known(s, Now(s)) = {})
    /\ Goto(s, "insert")
    /\ UNCHANGED <<ledger, draft, todo, at, scope, prepared, crashes, gate>>

\* A lookup among committed invoices in place of the index.
UniqueIndexAdmits_Committed(r, set) ==
    r.kind = "INVOICE" /\ r.id # None => Named(Committed(set), "INVOICE", r.id) = {}

\* Only invoices have an index; it knows uncommitted rows, and NULLs never collide.
UniqueIndexAdmits(r, set) ==
    r.kind = "INVOICE" /\ r.id # None => Named(set, "INVOICE", r.id) = {}

InsertFact(s) ==
    /\ Reading(s, "insert")
    /\ UniqueIndexAdmits(Now(s), facts)
    /\ facts' = facts \cup {[row |-> Now(s), at |-> <<File(s), at[s]>>, by |-> s]}
    /\ KeepScope(s, <<File(s), at[s]>>)
    /\ at' = [at EXCEPT ![s] = @ + 1] /\ Goto(s, "row")
    /\ UNCHANGED <<documents, allocations, packed, tasks, todo, scope, prepared, crashes, gate>>

CloseFile(s) ==
    /\ Reading(s, "row") /\ at[s] > Len(Files[File(s)])
    /\ todo' = [todo EXCEPT ![s] = Tail(@)] /\ at' = [at EXCEPT ![s] = 0]
    /\ Goto(s, "file")
    /\ UNCHANGED <<ledger, draft, scope, prepared, crashes, gate>>

\* The transactions whose uncommitted rows s waits for, and whether the row
\* it wants is committed already.
Conflicting(s) ==
    IF Reading(s, "document") THEN {d \in documents : d.file = File(s)}
    ELSE IF Reading(s, "insert") /\ ~UniqueIndexAdmits(Now(s), facts)
    THEN Named(facts, "INVOICE", Now(s).id)
    ELSE IF Reading(s, "insert") THEN Rivals(s, <<File(s), at[s]>>)
    ELSE IF InRow(s) THEN UNION {Rivals(s, f.at) : f \in {f \in facts : Corroborates(s, f)}}
    ELSE IF pc[s] = "pre" THEN {d \in documents : d.file = s /\ d.by # None}
    ELSE {}
WaitsFor(s) == {x.by : x \in Conflicting(s)}

\* The index refuses the row: the run fails and leaves nothing.
UniqueViolation(s) ==
    /\ None \in WaitsFor(s)
    /\ Rollback(s) /\ UNCHANGED crashes

\* Two runs wait for each other and one of them is the victim.
Deadlock(s) ==
    /\ \E t \in Sessions \ {s} : t \in WaitsFor(s) /\ s \in WaitsFor(t)
    /\ Rollback(s) /\ UNCHANGED crashes

HasPack(s)   == IF s \in Plans THEN Pack[s] # {} ELSE FALSE
FilesDone(s) == pc[s] = "file" /\ todo[s] = <<>>

EndImport(s) ==
    /\ FilesDone(s)
    /\ ~HasPack(s)
    /\ CommitTo(s, "idle")
    /\ prepared' = IF s \in Plans THEN prepared \cup {s} ELSE prepared

-----------------------------------------------------------------------------
(* The fact pack around matching.                                          *)

Stage(p, post) == {k \in Pack[p] : (k.subject # None) = post}
Resolves(p, k) == Cardinality(Named(Visible(p, facts), "CONTRACT", k.contract)) = 1
Missing(p, set) == {k \in set : \A x \in Visible(p, packed) : x.fact # k}

EnterPack(p) ==
    /\ FilesDone(p) /\ HasPack(p)
    /\ Goto(p, "pre")
    /\ UNCHANGED <<ledger, draft, todo, at, scope, prepared, crashes, gate>>

PackApplies(p) ==
    /\ \A d \in documents : d.file = p => d.by \in {None, p}
    /\ \A k \in Stage(p, FALSE) : Resolves(p, k)

Record(p, set) == packed' = packed \cup {[fact |-> k, by |-> p] : k \in Missing(p, set)}

PreStage(p) ==
    /\ pc[p] = "pre" /\ PackApplies(p)
    /\ documents' = IF \E d \in Visible(p, documents) : d.file = p THEN documents
                    ELSE documents \cup {Document(p, p)}
    /\ Record(p, Stage(p, FALSE))
    /\ Goto(p, "commit")
    /\ UNCHANGED <<facts, allocations, links, tasks, draft, todo, at, scope, prepared, crashes, gate>>

CommitPre(p) ==
    /\ pc[p] = "commit"
    /\ CommitTo(p, "INVOICE") /\ UNCHANGED prepared

\* A contract the pack names is unknown or ambiguous: nothing of the run stays.
RefusePack(p) ==
    /\ pc[p] = "pre"
    /\ \E k \in Stage(p, FALSE) : ~Resolves(p, k)
    /\ Rollback(p) /\ UNCHANGED crashes

Allocations(set) == {a[1] : a \in set}
\* What procurement matching looks at: purchase invoices and outgoing payments.
Procurement(r) == r.kind = "INVOICE" \/ (r.kind = "PAYMENT" /\ r.out)

\* What one matching run decides: subjects of one kind whose party has one
\* committed contract.
Decided(kind) ==
    {<<fc[1].at, fc[2].at>> : fc \in
        {fc \in OfKind(Committed(facts), kind) \X OfKind(Committed(facts), "CONTRACT") :
            /\ Procurement(fc[1].row) /\ fc[1].row.content \in Matchable
            /\ fc[1].row.party = fc[2].row.party
            /\ fc[1].at \notin Allocations(allocations)
            /\ \A d \in OfKind(Committed(facts), "CONTRACT") :
                  d.row.party = fc[2].row.party => d = fc[2]}}

\* match_invoices, then match_payments.
Match(p) ==
    /\ pc[p] \in {"INVOICE", "PAYMENT"}
    /\ allocations' = allocations \cup Decided(pc[p])
    /\ Goto(p, IF pc[p] = "INVOICE" THEN "PAYMENT" ELSE "ready")
    /\ UNCHANGED <<documents, facts, links, packed, tasks, draft, todo, at, scope, prepared, crashes, gate>>

\* A person decides, at any time, a match case: what matching left undecided.
Confirm(f, c) ==
    /\ f \in Committed(facts) /\ c \in OfKind(Committed(facts), "CONTRACT")
    /\ Procurement(f.row) /\ f.row.party = c.row.party
    /\ f.at \notin Allocations(allocations) /\ <<f.at, c.at>> \notin Decided(f.row.kind)
    /\ allocations' = allocations \cup {<<f.at, c.at>>}
    /\ UNCHANGED <<documents, facts, links, packed, tasks, session, gate>>

\* Contract, invoice and confirmed edge of an entry of the second stage.
EntryReady(p, k) ==
    \E f \in Named(Visible(p, facts), "INVOICE", k.subject),
       c \in Named(Visible(p, facts), "CONTRACT", k.contract) :
          Resolves(p, k) /\ <<f.at, c.at>> \in allocations

NotReady(p) ==
    /\ pc[p] = "ready"
    /\ \E k \in Stage(p, TRUE) : ~EntryReady(p, k)
    /\ Rollback(p) /\ UNCHANGED crashes

PostStage(p) ==
    /\ pc[p] = "ready"
    /\ \A k \in Stage(p, TRUE) : EntryReady(p, k)
    /\ Record(p, Stage(p, TRUE))
    /\ Goto(p, "done")
    /\ UNCHANGED <<documents, facts, allocations, links, tasks, draft, todo, at, scope, prepared, crashes, gate>>

CommitPost(p) ==
    /\ pc[p] = "done"
    /\ CommitTo(p, "idle") /\ prepared' = prepared \cup {p}

-----------------------------------------------------------------------------
(* The gate: READ COMMITTED statements between two fingerprints.           *)

AllocationsOf(kind) ==
    {a \in allocations : \E f \in OfKind(Committed(facts), kind) : f.at = a[1]}

\* The tables in the order of their names, with the rows one SELECT shows:
\* contract_items (for all a pack's first stage adds), contracts,
\* evidence_documents, invoice_allocations, invoice_item_allocations, invoices,
\* payment_allocations, payments, procurement_sales_links, task_exceptions.
Tables ==
    <<{x \in Committed(packed) : x.fact.subject = None},
      OfKind(Committed(facts), "CONTRACT"), Committed(documents), AllocationsOf("INVOICE"),
      {x \in Committed(packed) : x.fact.subject # None},
      OfKind(Committed(facts), "INVOICE"), AllocationsOf("PAYMENT"),
      OfKind(Committed(facts), "PAYMENT"), Committed(links), tasks>>

Shown(set) ==
    {[kind |-> f.row.kind, id |-> f.row.id, content |-> f.row.content, party |-> f.row.party,
      at |-> f.at] : f \in Committed(set)}
ContractsNow == {f \in Shown(facts) : f.kind = "CONTRACT"}
SubjectsNow  == {f \in Shown(facts) : f.kind # "CONTRACT"}
PairsNow  == {fc \in SubjectsNow \X ContractsNow : <<fc[1].at, fc[2].at>> \in allocations}
LinksNow  == {[contract |-> l.contract, sales |-> l.sales] : l \in Committed(links)}
PackedNow == {x.fact : x \in Committed(packed)}
ViewNow == [contracts |-> ContractsNow, subjects |-> SubjectsNow, allocations |-> PairsNow,
            links |-> LinksNow, packed |-> PackedNow, tasks |-> tasks]
Blank == [contracts |-> {}, subjects |-> {}, allocations |-> {}, links |-> {}, packed |-> {},
          tasks |-> {}]

\* An operator runs the gate once a plan has reported DONE and left no task: a
\* bound, since with one it would fail.
OpenGate(b) ==
    /\ gate.phase = "idle" /\ MayOpen /\ prepared # {} /\ tasks = {}
    /\ gate' = [phase |-> "before", verdict |-> "FAIL", baseline |-> b, before |-> <<>>,
                then |-> Blank, view |-> Blank, agrees |-> FALSE, hashed |-> 0, same |-> TRUE]
    /\ UNCHANGED <<ledger, session>>

\* The first fingerprint: one SELECT per table.
HashBefore ==
    /\ gate.phase = "before"
    /\ LET print == Append(gate.before, Tables[Len(gate.before) + 1])
           complete == Len(print) = Len(Tables)
       IN  gate' = [gate EXCEPT !.before = print,
                                !.phase = IF complete THEN "contracts" ELSE @,
                                !.then = IF complete THEN ViewNow ELSE @]
    /\ UNCHANGED <<ledger, session>>

Read(phase, next, view) ==
    /\ gate.phase = phase
    /\ gate' = [gate EXCEPT !.phase = next, !.view = view]
    /\ UNCHANGED <<ledger, session>>

ReadContracts == gate.phase = "contracts" /\
    Read("contracts", "subjects", [gate.view EXCEPT !.contracts = ContractsNow])
ReadSubjects == gate.phase = "subjects" /\
    Read("subjects", "tasks", [gate.view EXCEPT !.subjects = SubjectsNow, !.links = LinksNow,
                                                !.allocations = PairsNow, !.packed = PackedNow])

\* The last statement of the comparison with the baseline, and its result.
ReadTasks ==
    /\ gate.phase = "tasks"
    /\ gate' = [gate EXCEPT !.phase = "after", !.view = Blank,
                            !.agrees = Passed([gate.view EXCEPT !.tasks = tasks], gate.baseline)]
    /\ UNCHANGED <<ledger, session>>

\* The comparison of two fingerprints, left out.
ReadOnly_Skipped(before, after) == TRUE
ReadOnly(before, after) == before = after

\* The second fingerprint, compared with the first one table by table.
HashAfter ==
    /\ gate.phase = "after"
    /\ LET i == gate.hashed + 1 IN
       gate' = [gate EXCEPT !.hashed = i, !.same = @ /\ ReadOnly(gate.before[i], Tables[i]),
                            !.phase = IF i = Len(Tables) THEN "judge" ELSE @]
    /\ UNCHANGED <<ledger, session>>

\* operational: the dimensions about the runtime, the files, the surfaces and
\* the products, any of which may fail.
Judge(operational) ==
    /\ gate.phase = "judge"
    /\ gate' = [phase |-> "idle",
                verdict |-> IF operational /\ gate.agrees /\ gate.same THEN "PASS" ELSE "FAIL"]
    /\ UNCHANGED <<ledger, session>>

-----------------------------------------------------------------------------
ReadRow(s) ==
    \/ OpenFile(s) \/ InsertDocument(s) \/ Exclude(s) \/ IdentityIncomplete(s) \/ Ambiguous(s)
    \/ Conflict(s) \/ Corroborate(s) \/ New(s) \/ InsertFact(s) \/ CloseFile(s) \/ EndImport(s)
ApplyPack(p) ==
    \/ EnterPack(p) \/ PreStage(p) \/ CommitPre(p) \/ RefusePack(p) \/ Match(p)
    \/ NotReady(p) \/ PostStage(p) \/ CommitPost(p)
Step(s) ==
    ReadRow(s) \/ UniqueViolation(s) \/ Deadlock(s) \/ (s \in Plans /\ ApplyPack(s))

Next ==
    \/ \E s \in Sessions : Start(s) \/ Step(s) \/ Crash(s)
    \/ \E f, c \in facts : Confirm(f, c)
    \/ \E b \in Baselines : OpenGate(b)
    \/ HashBefore \/ ReadContracts \/ ReadSubjects \/ ReadTasks \/ HashAfter
    \/ \E ok \in BOOLEAN : Judge(ok)

\* A plan's run that was started goes on; nobody has to start, import, confirm
\* or judge.
Spec == Init /\ [][Next]_vars /\ \A p \in Plans : WF_vars(Step(p))

-----------------------------------------------------------------------------
(* Properties.                                                             *)

\* Once a file's document is stored, and its rerun therefore skipped, every
\* row of it is accounted for, whatever crashed or raced before: by an open task
\* under its identity key, as a payment that is out of scope (by a confirmed
\* decision, or as an outgoing one to a party that no contract names in the
\* files which a plan reads before it), or by a fact made of it or one of its
\* identity and content; that of a contract belongs to the sales contract the
\* row names, or a task says so. The task of a row without identity is about
\* this row, unless another row without identity has the same key: then the
\* two may share one task, which is about either.
Outside(r, file) ==
    r.dismissed \/
    /\ r.out
    /\ \E s \in Plans : \E j \in DOMAIN Program[s] :
          /\ Program[s][j] = file
          /\ \A i \in 1..(j - 1) : \A k \in DOMAIN Files[Program[s][i]] :
                LET c == Files[Program[s][i]][k]
                IN  c.kind = "CONTRACT" /\ c.id # None => c.party # r.party
KeyShared(r, where) ==
    \E f \in DOMAIN Files : \E j \in DOMAIN Files[f] :
        <<f, j>> # where /\ TaskKey(Files[f][j], j) = TaskKey(r, where[2])
Told(r, where) ==
    \E t \in tasks :
        /\ t.key = TaskKey(r, where[2])
        /\ r.id = None => t.at = where \/ KeyShared(r, where)
ScopeKept(r, f) ==
    Scoped(r) => \/ \E l \in Committed(links) : l.contract = f.at /\ l.sales = r.sales
                 \/ \E t \in tasks : t.key = ScopeKey(r)
Stands(r, where) ==
    \E f \in Committed(facts) :
        /\ f.at = where \/ (f.row.kind = r.kind /\ f.row.id = r.id /\ r.id # None
                           /\ f.row.content = r.content)
        /\ ScopeKept(r, f)
Accounted(r, where) == Stands(r, where) \/ Told(r, where) \/ Outside(r, where[1])
RowsAccountedFor ==
    \A d \in Committed(documents) : d.file \in DOMAIN Files =>
        \A i \in DOMAIN Files[d.file] : Accounted(Files[d.file][i], <<d.file, i>>)

\* Reruns and racing imports repeat nothing: one document per file, one fact
\* per row, one invoice per external key (unlocked, so by the indexes alone).
NothingTwice ==
    /\ \A d, e \in Committed(documents) : d.file = e.file => d = e
    /\ \A f, g \in Committed(facts) : f # g =>
          /\ f.at # g.at
          /\ ~(f.row.kind = "INVOICE" /\ f.row.kind = g.row.kind /\ f.row.id = g.row.id /\ f.row.id # None)

\* The gate passes only a ledger that agreed with the baseline when its first
\* fingerprint was complete, although it hashed every table and read contracts,
\* allocations and tasks in separate statements while imports, matching and
\* people went on (dimensions C and G): each observable key once on both sides
\* with equal values, nothing incomplete, no open backfill task. What is
\* committed to a table that the second fingerprint has left behind is unseen.
Agreed(v, baseline) ==
    LET all == Observed(v) IN
    /\ v.tasks = {} /\ Incomplete(v) = {}
    /\ \A e, f \in all : e.key = f.key => (e.value = f.value /\ (e = f \/ e.key[1] = "sales"))
    /\ \A e \in all : \E i \in DOMAIN baseline :
          /\ baseline[i].key = e.key /\ baseline[i].expected = e.value
          /\ baseline[i].outcome \in Recordable
          /\ \A j \in DOMAIN baseline : baseline[j].key = e.key => i = j
    /\ \A i \in DOMAIN baseline : \E e \in all : e.key = baseline[i].key
GatePassIsTrue ==
    [][gate'.verdict = "PASS" /\ gate.verdict # "PASS" => Agreed(gate.then, gate.baseline)]_vars

\* A plan is finished by rerunning it: an operator who starts it again whenever
\* it failed sees DONE once the runs that raced it are over, wherever it
\* crashed and whichever run won its rows, unless its pack waits for somebody
\* else: for a contract or an invoice that is in no file of the plan, or for a
\* person, because a contract's identity was stored twice or matching leaves the
\* invoice undecided.
InPlan(p, kind, id) ==
    \E j \in DOMAIN Program[p] : \E i \in DOMAIN Files[Program[p][j]] :
        Files[Program[p][j]][i].kind = kind /\ Files[Program[p][j]][i].id = id
Stored(kind, id) == Named(Committed(facts), kind, id)
Absent(p, kind, id) == Stored(kind, id) = {} /\ ~InPlan(p, kind, id)
Undecided(k) ==
    \E f \in Stored("INVOICE", k.subject) :
        /\ Stored("CONTRACT", k.contract) # {}
        /\ \A c \in Stored("CONTRACT", k.contract) :
              <<f.at, c.at>> \notin allocations \cup Decided("INVOICE")
Waits(p) ==
    \E k \in Pack[p] :
        \/ Absent(p, "CONTRACT", k.contract)
        \/ Cardinality(Stored("CONTRACT", k.contract)) > 1
        \/ k.subject # None /\ (Absent(p, "INVOICE", k.subject) \/ Undecided(k))
Alone(p) == \A s \in Sessions \ {p} : pc[s] = "idle"

=============================================================================
