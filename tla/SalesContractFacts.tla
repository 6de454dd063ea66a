------------------------ MODULE SalesContractFacts ------------------------
(***************************************************************************)
(* The sales contract store: anchors (our_entity, sales_contract_no),      *)
(* append-only revisions chained by superseded_by_revision_id, and the     *)
(* tasks that creating and supplementing raise and resolve.                *)
(*                                                                         *)
(*   Humans     run execute_create / supplement / correct: one             *)
(*              serialized_write_transaction per command, under the global *)
(*              write lock.                                                *)
(*   Backfills  import a ledger: one long transaction that calls           *)
(*              create_sales_contract_fact for every entry and never takes *)
(*              the write lock.                                            *)
(*                                                                         *)
(* Rows a transaction has written and not committed stay in the tables,    *)
(* named by its `pending'; other sessions do not see them, but the unique  *)
(* index does.  Only creations race: supplements and corrections are       *)
(* written under the lock and no unlocked writer touches an anchor that    *)
(* exists, so each of them is one step.                                    *)
(***************************************************************************)
EXTENDS Naturals, Sequences, Functions

CONSTANTS
    Identities, \* complete business identities (our_entity, sales_contract_no)
    Fields,     \* SALES_CONTRACT_FACT_FIELDS
    Customer,   \* the field whose absence raises a task
    Values,     \* values a field can be asserted to have
    RevIds,     \* the pool of revision ids (a bound: no id, no insert)
    Humans,     \* sessions of people using the CLI
    Backfills,  \* ledger files, each imported by one session
    Files,      \* Files[b]: the entries of file b, in order
    RowFragments, \* Evidence fragments of the rows of the files
    Creations,  \* the <<identity, assertion>> pairs people submit
    Amendments, \* the assertions people supplement or correct with
    None

Sessions == Humans \cup Backfills

\* What one command or ledger row asserts: values for some of the fields.
Assertions == UNION {[D -> Values] : D \in SUBSET Fields}

\* A manual fragment is the sha256 of the command's arguments: the same
\* command yields the same fragment.  A ledger row has a fragment of its own.
CreateFragment(i, as) == [command |-> "create", identity |-> i, asserted |-> as]
ReviseFragment(op, a, base, as) == [command |-> op, anchor |-> a, base |-> base, asserted |-> as]

\* One creation: an identity (None: incomplete), an assertion, its Evidence.
Entry(i, as, fragment) == [identity |-> i, asserted |-> as, fragment |-> fragment]
Entries(fragments) ==
    [identity : Identities \cup {None}, asserted : Assertions, fragment : fragments]

ASSUME SessionsAssumption == Humans \cap Backfills = {}
ASSUME CustomerAssumption == Customer \in Fields
ASSUME NoneAssumption == None \notin Identities \cup Values \cup RevIds \cup Sessions
ASSUME InputsAssumption ==
    /\ Creations \subseteq (Identities \cup {None}) \X Assertions
    /\ Amendments \subseteq Assertions
ASSUME FilesAssumption == Files \in [Backfills -> Seq(Entries(RowFragments))]

VARIABLES
    anchors,      \* anchors[a]: identity of the anchor whose INITIAL revision is a
    revs,         \* revs[r]: row of sales_contract_revisions
    tasks,        \* committed OPEN tasks
    evidence,     \* entries whose Evidence is committed
    writeLock,    \* holder of the advisory write lock
    pc,           \* pc[s]: the next statement of session s
    work,         \* work[s]: the entries of the transaction
    row,          \* row[s]: the entry being processed
    pending,      \* pending[s]: anchors s has written and not committed
    pendingTasks  \* pendingTasks[s]: tasks s has written and not committed

vars == <<anchors, revs, tasks, evidence, writeLock, pc, work, row, pending, pendingTasks>>
session == <<pc, work, row>>

-----------------------------------------------------------------------------
(* Rows and what a statement sees of them.                                 *)

Projection(as) == [f \in Fields |-> IF f \in DOMAIN as THEN as[f] ELSE None]
\* A revision that holds the asserted fields only.
Merge_Forgets(v, as) == Projection(as)
Merge(v, as) == [f \in Fields |-> IF f \in DOMAIN as THEN as[f] ELSE v[f]]

Revision(a, type, v, as, fragment) ==
    [anchor |-> a, type |-> type, values |-> v, names |-> DOMAIN as,
     fragment |-> fragment, next |-> None]

Exists(r)        == revs[r] # None
IsCurrent(r)     == Exists(r) /\ revs[r].next = None
RevisionsOf(a)   == {r \in RevIds : Exists(r) /\ revs[r].anchor = a}
Current(a)       == CHOOSE r \in RevisionsOf(a) : IsCurrent(r)
AssertedBy(r)    == Restrict(revs[r].values, revs[r].names)
Committed(a)     == anchors[a] # None /\ \A s \in Sessions : a \notin pending[s]
Sees(s, a)       == Committed(a) \/ a \in pending[s]
FreeIds          == {r \in RevIds : ~Exists(r)}

\* The entry session s is processing, and the anchors it finds for it.
Now(s)     == work[s][row[s]]
Matches(s) == {a \in RevIds : Sees(s, a) /\ anchors[a] = Now(s).identity}

Incomplete(fragment)       == [kind |-> "IDENTITY_INCOMPLETE", anchor |-> None, key |-> fragment]
CustomerUnknown(a)         == [kind |-> "CUSTOMER_UNRESOLVED", anchor |-> a, key |-> None]
KeyConflict(a, fragment)   == [kind |-> "BUSINESS_KEY_CONFLICT", anchor |-> a, key |-> fragment]
BackfillConflict(identity) == [kind |-> "BACKFILL_CONFLICT", anchor |-> None, key |-> identity]

\* A backfill that catches the error of a creation leaves a task of its own.
BackfillTask(s) == IF s \in Backfills THEN {BackfillConflict(Now(s).identity)} ELSE {}

-----------------------------------------------------------------------------
Init ==
    /\ anchors = [a \in RevIds |-> None]
    /\ revs = [r \in RevIds |-> None]
    /\ tasks = {} /\ evidence = {}
    /\ writeLock = None
    /\ pc = [s \in Sessions |-> "idle"]
    /\ work = [s \in Sessions |-> <<>>]
    /\ row = [s \in Sessions |-> 0]
    /\ pending = [s \in Sessions |-> {}]
    /\ pendingTasks = [s \in Sessions |-> {}]

Begin(s, entries) ==
    /\ pc' = [pc EXCEPT ![s] = "read"]
    /\ work' = [work EXCEPT ![s] = entries]
    /\ row' = [row EXCEPT ![s] = 1]
    /\ UNCHANGED <<anchors, revs, tasks, evidence, pending, pendingTasks>>

StartCreate(p, i, as) ==
    /\ p \in Humans /\ pc[p] = "idle" /\ writeLock = None
    /\ writeLock' = p
    /\ Begin(p, <<Entry(i, as, CreateFragment(i, as))>>)

StartBackfill(b) ==
    /\ b \in Backfills /\ pc[b] = "idle"
    /\ \A j \in 1..Len(Files[b]) : Files[b][j] \notin evidence
    /\ Begin(b, Files[b])
    /\ UNCHANGED writeLock

NextEntry(s) ==
    /\ pc' = [pc EXCEPT ![s] = "read"]
    /\ row' = [row EXCEPT ![s] = @ + 1]
    /\ UNCHANGED <<work, tasks, evidence, writeLock>>

Processing(s) == pc[s] = "read" /\ row[s] <= Len(work[s])

IdentityIncomplete(s) ==
    /\ Processing(s) /\ Now(s).identity = None
    /\ pendingTasks' = [pendingTasks EXCEPT
            ![s] = @ \cup {Incomplete(Now(s).fragment)} \cup BackfillTask(s)]
    /\ NextEntry(s)
    /\ UNCHANGED <<anchors, revs, pending>>

\* A replay (same Evidence) or a corroboration (other Evidence).
Agrees(s) ==
    /\ Processing(s) /\ Now(s).identity # None
    /\ \E a \in Matches(s) : Now(s).asserted = AssertedBy(a)
    /\ NextEntry(s)
    /\ UNCHANGED <<anchors, revs, pending, pendingTasks>>

\* One task per anchor, whichever Evidence conflicts with it.
ConflictTask_OncePerAnchor(a, fragment) ==
    IF revs[a].fragment = fragment \/ \E f \in {e.fragment : e \in evidence} : KeyConflict(a, f) \in tasks
    THEN {} ELSE {KeyConflict(a, fragment)}

\* Other content: a task, unless it comes under the very same Evidence.
ConflictTask(a, fragment) ==
    IF revs[a].fragment = fragment THEN {} ELSE {KeyConflict(a, fragment)}

Conflicts(s) ==
    /\ Processing(s) /\ Now(s).identity # None
    /\ \E a \in Matches(s) :
        /\ Now(s).asserted # AssertedBy(a)
        /\ pendingTasks' = [pendingTasks EXCEPT
                ![s] = @ \cup ConflictTask(a, Now(s).fragment) \cup BackfillTask(s)]
    /\ NextEntry(s)
    /\ UNCHANGED <<anchors, revs, pending>>

NotFound(s) ==
    /\ Processing(s) /\ Now(s).identity # None
    /\ Matches(s) = {}
    /\ pc' = [pc EXCEPT ![s] = "insert"]
    /\ UNCHANGED <<anchors, revs, tasks, evidence, writeLock, work, row, pending, pendingTasks>>

\* A check of the committed rows in place of the index.
UniqueIndexAdmits_Committed(identity) ==
    \A a \in RevIds : Committed(a) => anchors[a] # identity

\* The unique index knows every row, committed or not.  An insert waits for
\* the transaction that wrote the same identity, then succeeds or fails.
UniqueIndexAdmits(identity) == \A a \in RevIds : anchors[a] # identity

InsertAnchor(s) ==
    /\ pc[s] = "insert"
    /\ UniqueIndexAdmits(Now(s).identity)
    /\ \E a \in FreeIds :
        /\ anchors' = [anchors EXCEPT ![a] = Now(s).identity]
        /\ revs' = [revs EXCEPT ![a] = Revision(a, "INITIAL", Projection(Now(s).asserted),
                                                Now(s).asserted, Now(s).fragment)]
        /\ pending' = [pending EXCEPT ![s] = @ \cup {a}]
        /\ pendingTasks' = [pendingTasks EXCEPT
                ![s] = IF Projection(Now(s).asserted)[Customer] = None
                       THEN @ \cup {CustomerUnknown(a)} ELSE @]
    /\ NextEntry(s)

EndTransaction(s) ==
    /\ writeLock' = IF writeLock = s THEN None ELSE writeLock
    /\ pc' = [pc EXCEPT ![s] = "idle"]
    /\ work' = [work EXCEPT ![s] = <<>>]
    /\ row' = [row EXCEPT ![s] = 0]
    /\ pending' = [pending EXCEPT ![s] = {}]
    /\ pendingTasks' = [pendingTasks EXCEPT ![s] = {}]

\* A rejected creation commits too: its Evidence and its task must survive.
Commit(s) ==
    /\ pc[s] = "read" /\ row[s] > Len(work[s])
    /\ tasks' = tasks \cup pendingTasks[s]
    /\ evidence' = evidence \cup {work[s][j] : j \in 1..Len(work[s])}
    /\ EndTransaction(s)
    /\ UNCHANGED <<anchors, revs>>

\* A crash, a lock timeout, a unique violation (nothing catches it) or being
\* the victim of a deadlock: the transaction's rows vanish.
Fail(s) ==
    /\ pc[s] # "idle"
    /\ anchors' = [a \in RevIds |-> IF a \in pending[s] THEN None ELSE anchors[a]]
    /\ revs' = [r \in RevIds |-> IF r \in pending[s] THEN None ELSE revs[r]]
    /\ EndTransaction(s)
    /\ UNCHANGED <<tasks, evidence>>

-----------------------------------------------------------------------------
(* Supplements and corrections.                                            *)

\* An unconditional UPDATE.
AppendAgainstCurrent_Any(a, base, new, r) ==
    /\ revs[base].anchor = a
    /\ revs' = [revs EXCEPT ![base].next = new, ![new] = r]

\* The retiring UPDATE ... WHERE superseded_by_revision_id IS NULL, then the
\* insert of the new current row.
AppendAgainstCurrent(a, base, new, r) ==
    /\ revs[base].anchor = a /\ revs[base].next = None
    /\ revs' = [revs EXCEPT ![base].next = new, ![new] = r]

\* A supplement may only fill in, or repeat what is known.
Supplementable(v, as) == \A f \in DOMAIN as : v[f] \in {None, as[f]}
\* A correction may only replace what is known.
Correctable(v, as) == \A f \in DOMAIN as : v[f] # None

\* Replays, conflicts and stale bases raise and write nothing.
Revise(op, allowed, a, base, as) ==
    LET fragment == ReviseFragment(op, a, base, as) IN
    /\ writeLock = None
    /\ DOMAIN as # {}
    /\ Committed(a) /\ Exists(base)
    /\ \A r \in RevisionsOf(a) : revs[r].fragment # fragment
    /\ allowed
    /\ \E new \in FreeIds :
         AppendAgainstCurrent(a, base, new,
             Revision(a, op, Merge(revs[base].values, as), as, fragment))
    /\ UNCHANGED <<anchors, evidence, writeLock, session, pending, pendingTasks>>

\* Any supplement resolves the task.
ResolvedBy_Any(a, as) == {CustomerUnknown(a)}
ResolvedBy(a, as) == IF Customer \in DOMAIN as THEN {CustomerUnknown(a)} ELSE {}

Supplement(a, base, as) ==
    /\ Revise("SUPPLEMENT", Supplementable(revs[base].values, as), a, base, as)
    /\ tasks' = tasks \ ResolvedBy(a, as)

Correct(a, base, as) ==
    /\ Revise("CORRECTION", Correctable(revs[base].values, as), a, base, as)
    /\ UNCHANGED tasks

Create(s) == IdentityIncomplete(s) \/ Agrees(s) \/ Conflicts(s) \/ NotFound(s) \/ InsertAnchor(s)

Next ==
    \/ \E p \in Humans, c \in Creations : StartCreate(p, c[1], c[2])
    \/ \E b \in Backfills : StartBackfill(b)
    \/ \E s \in Sessions : Create(s) \/ Commit(s) \/ Fail(s)
    \/ \E a, base \in RevIds, as \in Amendments : Supplement(a, base, as) \/ Correct(a, base, as)

Spec == Init /\ [][Next]_vars

-----------------------------------------------------------------------------
(* Properties.                                                             *)

CreateFragments == [command : {"create"}, identity : Identities \cup {None}, asserted : Assertions]
ReviseFragments ==
    [command : {"SUPPLEMENT", "CORRECTION"}, anchor : RevIds, base : RevIds, asserted : Assertions]
Fragments == RowFragments \cup CreateFragments \cup ReviseFragments

Revisions ==
    [anchor : RevIds, type : {"INITIAL", "SUPPLEMENT", "CORRECTION"},
     values : [Fields -> Values \cup {None}], names : SUBSET Fields,
     fragment : Fragments, next : RevIds \cup {None}]
Tasks ==
    {Incomplete(f) : f \in Fragments} \cup {CustomerUnknown(a) : a \in RevIds}
    \cup {KeyConflict(a, f) : a \in RevIds, f \in Fragments}
    \cup {BackfillConflict(i) : i \in Identities \cup {None}}

TypeOK ==
    /\ anchors \in [RevIds -> Identities \cup {None}]
    /\ revs \in [RevIds -> Revisions \cup {None}]
    /\ tasks \subseteq Tasks
    /\ evidence \subseteq Entries(Fragments)
    /\ writeLock \in Humans \cup {None}
    /\ pc \in [Sessions -> {"idle", "read", "insert"}]
    /\ work \in [Sessions -> Seq(Entries(Fragments))]
    /\ row \in [Sessions -> Nat]
    /\ pending \in [Sessions -> SUBSET RevIds]
    /\ pendingTasks \in [Sessions -> SUBSET Tasks]

\* No row and no projection is NULL; the Evidence of a file is not a person's.
ASSUME NullRowAssumption == None \notin Revisions \cup [Fields -> Values \cup {None}]
ASSUME FragmentsAssumption == RowFragments \cap (CreateFragments \cup ReviseFragments) = {}

\* One canonical anchor per business identity, whoever created it and
\* whatever raced with it (docs/PHASE2D1-R0-DECISIONS.md 4.4), so that
\* find_by_identity has one answer.
OneAnchorPerIdentity ==
    \A a, b \in RevIds : anchors[a] # None /\ anchors[a] = anchors[b] => a = b

\* The revisions of an anchor form one chain from the INITIAL revision to the
\* current one: list_revisions, which walks it from the front, sees them all
\* and get_current_revision finds its end.  (A set of revisions closed under
\* predecessors holds the INITIAL one: no branch and no cycle is cut off.)
OneInitial(a) == \A r \in RevisionsOf(a) : revs[r].type = "INITIAL" <=> r = a
OneCurrent(a) == \A r, q \in RevisionsOf(a) : IsCurrent(r) /\ IsCurrent(q) => r = q
ClosedUnderPredecessors(a, S) ==
    \A r \in RevisionsOf(a) : revs[r].next \in S => r \in S
Connected(a) ==
    \A S \in SUBSET RevisionsOf(a) : S # {} /\ ClosedUnderPredecessors(a, S) => a \in S
HistoryIsAChain ==
    \A a \in RevIds : anchors[a] # None =>
        /\ a \in RevisionsOf(a) /\ \E r \in RevisionsOf(a) : IsCurrent(r)
        /\ OneInitial(a) /\ OneCurrent(a) /\ Connected(a)

\* A task says the customer of a sales contract is unresolved exactly while
\* its current revision has none (2.3, "Task resolves").
CustomerTaskTruthful ==
    \A a \in RevIds :
        CustomerUnknown(a) \in tasks
            <=> Committed(a) /\ revs[Current(a)].values[Customer] = None

\* No committed Evidence of a creation is silently dropped: it is what the
\* anchor's INITIAL revision asserts, or a task tells a person about it.
Corroborated(e, a) == e.asserted = AssertedBy(a)
Reported(e, a) ==
    \/ KeyConflict(a, e.fragment) \in tasks
    \/ BackfillConflict(e.identity) \in tasks /\ e.fragment = revs[a].fragment
EvidenceAccountedFor ==
    \A e \in evidence :
        IF e.identity = None THEN Incomplete(e.fragment) \in tasks
        ELSE \E a \in RevIds : /\ Committed(a) /\ anchors[a] = e.identity
                               /\ Corroborated(e, a) \/ Reported(e, a)

\* A BusinessKeyConflict task names two pieces of Evidence that do disagree.
IsKeyConflict(t) == t.kind = "BUSINESS_KEY_CONFLICT"
Disagrees(e, t) ==
    e.fragment = t.key /\ e.identity = anchors[t.anchor] /\ e.asserted # AssertedBy(t.anchor)
ConflictTasksJustified ==
    \A t \in tasks : IsKeyConflict(t) =>
        /\ Committed(t.anchor) /\ revs[t.anchor].fragment # t.key
        /\ \E e \in evidence : Disagrees(e, t)

\* What readers see of the store is a fact ledger: nothing that was known is
\* forgotten by a supplement, and a correction changes only what was known.
Known == [i \in Identities |->
    IF \E a \in RevIds : Committed(a) /\ anchors[a] = i
    THEN revs[Current(CHOOSE a \in RevIds : Committed(a) /\ anchors[a] = i)].values
    ELSE None]
Ledger == INSTANCE FactLedger WITH known <- Known
LedgerSpec == Ledger!Spec

-----------------------------------------------------------------------------
(* The inductive invariant.                                                *)

\* Uncommitted anchors belong to one running transaction and have no
\* revision but their INITIAL one.
Ownership ==
    /\ \A s \in Sessions : \A a \in pending[s] :
          /\ anchors[a] # None /\ RevisionsOf(a) = {a} /\ revs[a].next = None
    /\ \A s, t \in Sessions : \A a \in pending[s] : a \in pending[t] => s = t
    /\ \A s \in Sessions : pc[s] = "idle" => pending[s] = {} /\ pendingTasks[s] = {}

Rows ==
    /\ \A a \in RevIds : anchors[a] # None =>
          Exists(a) /\ revs[a].anchor = a /\ revs[a].type = "INITIAL"
    /\ \A r \in RevIds : Exists(r) =>
          /\ anchors[revs[r].anchor] # None
          /\ revs[r].type = "INITIAL" => revs[r].anchor = r
          /\ revs[r].next # None =>
                Exists(revs[r].next) /\ revs[revs[r].next].anchor = revs[r].anchor

Customers ==
    /\ \A a \in RevIds : CustomerUnknown(a) \in tasks => Committed(a)
    /\ \A r \in RevIds : IsCurrent(r) /\ Committed(revs[r].anchor) =>
          (CustomerUnknown(revs[r].anchor) \in tasks <=> revs[r].values[Customer] = None)
    /\ \A s \in Sessions, a \in RevIds :
          CustomerUnknown(a) \in pendingTasks[s]
              <=> a \in pending[s] /\ revs[a].values[Customer] = None

\* What the sessions are working on.
Working ==
    /\ \A s \in Sessions : pc[s] # "idle" => row[s] >= 1
    /\ \A s \in Sessions : pc[s] = "insert" => row[s] <= Len(work[s]) /\ Now(s).identity # None
    /\ \A s \in Sessions : \A j \in 1..Len(work[s]) :
          IF s \in Backfills THEN work[s][j].fragment \in RowFragments
          ELSE work[s][j].fragment = CreateFragment(work[s][j].identity, work[s][j].asserted)

\* The Evidence of a manual creation says what its revision asserts.
FragmentsSay ==
    \A a \in RevIds : anchors[a] # None /\ revs[a].fragment \in CreateFragments =>
        revs[a].fragment = CreateFragment(anchors[a], AssertedBy(a))

\* An entry a running transaction is done with is accounted for in its view.
Told(s, e) ==
    IF e.identity = None THEN Incomplete(e.fragment) \in pendingTasks[s]
    ELSE \E a \in RevIds :
            /\ Sees(s, a) /\ anchors[a] = e.identity
            /\ \/ Corroborated(e, a)
               \/ KeyConflict(a, e.fragment) \in pendingTasks[s]
               \/ /\ BackfillConflict(e.identity) \in pendingTasks[s]
                  /\ e.fragment = revs[a].fragment
Processed ==
    \A s \in Sessions : \A j \in 1..Len(work[s]) : j < row[s] => Told(s, work[s][j])

PendingConflictsJustified ==
    \A s \in Sessions : \A t \in pendingTasks[s] : IsKeyConflict(t) =>
        /\ Sees(s, t.anchor) /\ revs[t.anchor].fragment # t.key
        /\ \E j \in 1..Len(work[s]) : Disagrees(work[s][j], t)

Chains == Rows /\ Ownership /\ OneAnchorPerIdentity /\ HistoryIsAChain
Accounts == FragmentsSay /\ Processed /\ EvidenceAccountedFor
            /\ ConflictTasksJustified /\ PendingConflictsJustified
IInv == TypeOK /\ Working /\ Chains /\ Customers /\ Accounts

=============================================================================
