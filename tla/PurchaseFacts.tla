---------------------------- MODULE PurchaseFacts ----------------------------
(***************************************************************************)
(* Procurement contracts, their items and their shipments: anchors named   *)
(* by their INITIAL revision, append-only revisions, and the records that  *)
(* depend on them (allocations, accruals and the facts behind them).       *)
(*                                                                         *)
(* The three stores work alike and differ in what identifies an anchor:    *)
(*   CONTRACT  (contract_no, counterparty), which nothing makes unique;    *)
(*   ITEM      (contract, source_item_key), unique;                        *)
(*   SHIPMENT  (contract, external_reference, execution_date), unique with *)
(*             a reference; without one only a person's confirmation and   *)
(*             the Evidence itself tell two shipments apart.               *)
(*                                                                         *)
(*   People     one command per transaction, under the global write lock   *)
(*   Ledgers    import_contract_ledger: adds every row, looks at nothing   *)
(*   Backfills  entry by entry; what cannot be created becomes a task      *)
(*   Packs      cutover fact packs: items and facts, all or nothing        *)
(*                                                                         *)
(* The last three take no lock.  Supplements and corrections do, and no    *)
(* unlocked writer touches an anchor that exists: each is one step.        *)
(***************************************************************************)
EXTENDS Naturals, Sequences, FiniteSets, Functions

CONSTANTS
    Fields,      \* Fields[kind]: the attributes of a revision
    Values,      \* values an attribute can be asserted to have
    Pool,        \* Pool[s]: ids for the rows of session s (a bound)
    Spare,       \* ids for supplements and corrections (a bound)
    People, Ledgers, Backfills, Packs,
    Files,       \* Files[m]: the entries of file m, in order
    Submissions, \* the entries people submit
    Amendments,  \* the <<kind, assertion>> pairs people supplement or correct with
    None

Imports  == Ledgers \cup Backfills \cup Packs
Sessions == People \cup Imports
RevIds   == Spare \cup UNION {Pool[s] : s \in Sessions}

\* What one command or row says: of a contract by its number, of an item by
\* its key, of a shipment by <<reference, date>>; an asserted item is a key.
\* Kind FACT is a record of a pack that depends on the item.
Entry(kind, number, key, as, fragment) ==
    [kind |-> kind, number |-> number, key |-> key, asserted |-> as,
     confirmed |-> FALSE, fragment |-> fragment]
Confirmed(e) == [e EXCEPT !.confirmed = TRUE]

\* The fragment of Evidence behind a fact: a row of a file, or the sha256 of the
\* arguments of a command (--confirm left out).
RowFragment(e)                  == <<"row", e.fragment>>
ManualFragment(id, as)          == <<"create", <<id, as>>>>
ReviseFragment(op, a, base, as) == <<"revise", <<op, a, base, as>>>>

\* What the variables range over.
Kinds       == {"CONTRACT", "ITEM", "SHIPMENT"}
AllFields   == UNION Range(Fields)
KnownValues == Values \cup RevIds
AllEntries  == Submissions \cup UNION {Range(Files[m]) : m \in Imports}
Assertions  == UNION {[D -> KnownValues] : D \in SUBSET AllFields}
Identities  == [kind : Kinds, of : {e.number : e \in AllEntries} \cup RevIds,
                key : {e.key : e \in AllEntries}]
ReviseFragments ==
    {"revise"} \X ({"SUPPLEMENT", "CORRECTION"} \X RevIds \X RevIds \X Assertions)
Fragments ==
    ({"row"} \X {e.fragment : e \in AllEntries})
    \cup ({"create"} \X (Identities \X Assertions)) \cup ReviseFragments
Revisions ==
    [anchor : RevIds, type : {"INITIAL", "SUPPLEMENT", "CORRECTION"},
     values : UNION {[Fields[kind] -> KnownValues \cup {None}] : kind \in Kinds},
     names : SUBSET AllFields, fragment : Fragments, next : RevIds \cup {None}]

\* What is asserted of a kind of fact: an item by its key, the rest by value.
IsAssertion(kind, as) ==
    /\ DOMAIN as \subseteq Fields[kind] /\ as = [f \in DOMAIN as |-> as[f]]
    /\ \A f \in DOMAIN as \ {"item"} : as[f] \in Values
Unreferenced(m) ==
    {e.fragment : e \in {e \in Range(Files[m]) : e.kind = "SHIPMENT" /\ e.key[1] = None}}

ASSUME SessionsAssumption ==
    /\ People \cap Imports = {} /\ Ledgers \cap (Backfills \cup Packs) = {}
    /\ \A s, t \in Sessions : s # t => Pool[s] \cap Pool[t] = {}
    /\ \A s \in Sessions : Pool[s] \cap Spare = {}
ASSUME NoneAssumption ==
    None \notin Values \cup RevIds \cup Sessions \cup Identities \cup Revisions
ASSUME InputsAssumption ==
    /\ Kinds \subseteq DOMAIN Fields
    /\ \A e \in AllEntries :
          /\ e.kind \in Kinds \cup {"FACT"}
          /\ e.kind \in Kinds => IsAssertion(e.kind, e.asserted)
    /\ \A m \in Amendments : m[1] \in Kinds /\ IsAssertion(m[1], m[2])
\* The fragment of a file's row is of that file's document.
ASSUME FilesAssumption ==
    /\ \A m \in Imports : Files[m] \in Seq(Range(Files[m]))
    /\ \A m \in Ledgers : \A e \in Range(Files[m]) : e.kind = "CONTRACT"
    /\ \A m \in Packs : \A e \in Range(Files[m]) : e.kind \in {"ITEM", "FACT"}
    /\ \A m, n \in Imports : m # n => Unreferenced(m) \cap Unreferenced(n) = {}

VARIABLES
    anchors,     \* anchors[a]: identity of the anchor whose INITIAL revision is a
    revs,        \* revs[r]: a revision
    dependents,  \* the records that name an item or a shipment
    tasks,       \* committed OPEN tasks
    evidence,    \* what the committed Evidence of creations claims
    writeLock,   \* holder of the advisory write lock
    pc, row,     \* the next statement of a session, and the entry it is at
    work,        \* work[s]: the entries of its transaction
    claim,       \* claim[s]: the entry at hand, resolved
    draft        \* draft[s]: anchors, tasks and claims not committed yet

vars == <<anchors, revs, dependents, tasks, evidence, writeLock, pc, row, work, claim, draft>>
tables == <<anchors, revs, dependents>>
store == <<tables, tasks, evidence>>

-----------------------------------------------------------------------------
(* Rows and what a session sees of them.                                   *)

Exists(r)      == revs[r] # None
IsCurrent(r)   == Exists(r) /\ revs[r].next = None
RevisionsOf(a) == {r \in RevIds : Exists(r) /\ revs[r].anchor = a}
Current(a)     == CHOOSE r \in RevisionsOf(a) : IsCurrent(r)
AssertedBy(r)  == Restrict(revs[r].values, revs[r].names)
Committed(a)   == anchors[a] # None /\ \A s \in Sessions : a \notin draft[s].anchors
Sees(s, a)     == Committed(a) \/ a \in draft[s].anchors
Fresh(S)       == CHOOSE r \in S : ~Exists(r)
HasFresh(S)    == \E r \in S : ~Exists(r)

Identity(kind, of, key) == [kind |-> kind, of |-> of, key |-> key]
Anchored(s, id)         == {a \in RevIds : Sees(s, a) /\ anchors[a] = id}
ContractsOf(s, number)  == Anchored(s, Identity("CONTRACT", number, None))
ItemsOf(s, c, key)      == Anchored(s, Identity("ITEM", c, key))

Projection(kind, as) == [f \in Fields[kind] |-> IF f \in DOMAIN as THEN as[f] ELSE None]
Revision(a, type, v, as, fragment) ==
    [anchor |-> a, type |-> type, values |-> v, names |-> DOMAIN as,
     fragment |-> fragment, next |-> None]

\* Tasks.  A backfill's task is found again by its identity key while open; an
\* item without a key and a shipment without its contract have only the index
\* of their row in it, which rows of other files share.
TaskKey(reason, kind, key, at) ==
    IF (kind = "ITEM" /\ key = None) \/ (kind = "SHIPMENT" /\ reason # "CONFLICT")
    THEN <<"index", at>> ELSE key
BackfillTask(reason, e, at) ==
    [kind |-> reason, fact |-> e.kind, number |-> e.number,
     key |-> TaskKey(reason, e.kind, e.key, at)]
RepeatedNumber(n, S)         == [kind |-> "BUSINESS_KEY_CONFLICT", number |-> n, anchors |-> S]
ShipmentIncomplete(fragment) == [kind |-> "SHIPMENT_IDENTITY_INCOMPLETE", fragment |-> fragment]
ShipmentConflict(a, fragment) ==
    [kind |-> "SHIPMENT_IDENTITY_CONFLICT", anchor |-> a, fragment |-> fragment]
FactSuperseded(a, old, new, facts) ==
    [kind |-> "FACT_SUPERSEDED", anchor |-> a, old |-> old, new |-> new, facts |-> facts]

NoDraft == [anchors |-> {}, tasks |-> {}, claims |-> {}]

Init ==
    /\ anchors = [a \in RevIds |-> None] /\ revs = [r \in RevIds |-> None]
    /\ dependents = {} /\ tasks = {} /\ evidence = {}
    /\ writeLock = None
    /\ pc = [s \in Sessions |-> "idle"] /\ row = [s \in Sessions |-> 0]
    /\ work = [s \in Sessions |-> <<>>]
    /\ claim = [s \in Sessions |-> None]
    /\ draft = [s \in Sessions |-> NoDraft]

-----------------------------------------------------------------------------
(* Creations.                                                              *)

Begin(s, entries) ==
    /\ pc[s] = "idle"
    /\ pc' = [pc EXCEPT ![s] = "read"] /\ row' = [row EXCEPT ![s] = 1]
    /\ work' = [work EXCEPT ![s] = entries]
    /\ UNCHANGED <<store, claim, draft>>

Submit(p, e) ==
    /\ p \in People /\ writeLock = None
    /\ writeLock' = p
    /\ Begin(p, <<e>>)

\* A ledger whose document is stored is skipped; anything else may be rerun.
StartImport(m) ==
    /\ \A j \in 1..Len(Files[m]) :
          Files[m][j].kind = "CONTRACT" =>
              \A k \in evidence : k.fragment # RowFragment(Files[m][j])
    /\ Begin(m, Files[m])
    /\ UNCHANGED writeLock

Now(s)        == work[s][row[s]]
Processing(s) == pc[s] = "read" /\ row[s] <= Len(work[s])

\* The contract an entry is about.  A person names an anchor; a file names an
\* identity that must have exactly one.
Scopes(s) ==
    LET all == ContractsOf(s, Now(s).number) IN
    IF Now(s).kind = "CONTRACT" THEN {None}
    ELSE IF s \in Imports /\ Cardinality(all) # 1 THEN {} ELSE all

\* What is asserted once an item key is an item: a person's item may belong to
\* any contract, a backfill's is looked up in the shipment's own and left out
\* when it is not there.
Resolved(s, c) ==
    LET as == Now(s).asserted IN
    IF "item" \notin DOMAIN as THEN {as}
    ELSE LET own == ItemsOf(s, c, as["item"]) IN
         IF s \in People
         THEN {[as EXCEPT !["item"] = i] : i \in {i \in RevIds :
                  Sees(s, i) /\ anchors[i].kind = "ITEM" /\ anchors[i].key = as["item"]}}
         ELSE IF own = {} THEN {Restrict(as, DOMAIN as \ {"item"})}
         ELSE {[as EXCEPT !["item"] = i] : i \in own}

Claim(s, c, as) ==
    LET e  == Now(s)
        id == Identity(e.kind, IF e.kind = "CONTRACT" THEN e.number ELSE c, e.key)
    IN  [id |-> id, number |-> e.number, at |-> row[s], said |-> e.asserted,
         asserted |-> as, confirmed |-> e.confirmed,
         fragment |-> IF s \in People THEN ManualFragment(id, as) ELSE RowFragment(e)]
Claims(s) == {Claim(s, c, as) : c \in Scopes(s), as \in UNION {Resolved(s, d) : d \in Scopes(s)}}

NoReference(k) == k.id.kind = "SHIPMENT" /\ k.id.key[1] = None
ItemBelongs(c, as) ==
    ("item" \in DOMAIN as /\ as["item"] # None) => anchors[as["item"]].of = c

\* The anchors a claim meets: those of its identity, and for a shipment
\* without a reference those with a revision from the same Evidence.
Met(s, k) ==
    IF NoReference(k)
    THEN {revs[r].anchor : r \in {r \in RevIds : /\ Exists(r) /\ revs[r].fragment = k.fragment
                                                  /\ Sees(s, revs[r].anchor)}}
    ELSE Anchored(s, k.id)
\* Compared with what the current revision asserts.
Same_Current(k, a) ==
    /\ anchors[a] = k.id /\ AssertedBy(Current(a)) = k.asserted
    /\ NoReference(k) => revs[a].fragment = k.fragment
\* Compared with what the INITIAL revision asserts, not with current values.
Same(k, a) ==
    /\ anchors[a] = k.id /\ AssertedBy(a) = k.asserted
    /\ NoReference(k) => revs[a].fragment = k.fragment
AgreesWith(s, k) ==
    /\ Cardinality({a \in Met(s, k) : Same(k, a)}) = 1
    /\ k.id.kind = "CONTRACT" => Cardinality(Met(s, k)) = 1

Proceed(s, raised, claims) ==
    /\ draft' = [draft EXCEPT ![s].tasks = @ \cup raised, ![s].claims = @ \cup claims]
    /\ pc' = [pc EXCEPT ![s] = "read"] /\ row' = [row EXCEPT ![s] = @ + 1]
    /\ claim' = [claim EXCEPT ![s] = None]
    /\ UNCHANGED <<tasks, evidence, writeLock, work>>

\* The claim of an entry that never got as far as an identity.
Unresolvable(s) ==
    LET e  == Now(s)
        id == Identity(e.kind, None, e.key)
    IN  [id |-> id, number |-> e.number, at |-> row[s], said |-> e.asserted,
         asserted |-> e.asserted, confirmed |-> e.confirmed,
         fragment |-> IF s \in People THEN ManualFragment(id, e.asserted) ELSE RowFragment(e)]

\* A backfill entry without a key, or whose contract is unknown or ambiguous.
IdentityUnresolved(s) ==
    /\ Processing(s) /\ s \in Backfills
    /\ LET e == Now(s)
           incomplete == BackfillTask("IDENTITY_INCOMPLETE", e, row[s])
           ambiguous  == BackfillTask("IDENTITY_AMBIGUOUS", e, row[s])
       IN  \/ /\ e.number = None \/ (e.kind = "ITEM" /\ e.key = None)
              /\ Proceed(s, {incomplete}, {Unresolvable(s)})
           \/ /\ e.number # None /\ ~(e.kind = "ITEM" /\ e.key = None)
              /\ Scopes(s) = {}
              /\ Proceed(s, {IF ContractsOf(s, e.number) = {} THEN incomplete ELSE ambiguous},
                         {Unresolvable(s)})
    /\ UNCHANGED tables

Resolvable(s) ==
    /\ Processing(s) /\ Now(s).kind # "FACT"
    /\ Now(s).number # None /\ ~(Now(s).kind = "ITEM" /\ Now(s).key = None)

\* A person's shipment is refused when its contract or its item is not there,
\* or the item is of another contract.  Its Evidence is committed, with no task.
ScopeRefused(s) ==
    /\ Resolvable(s) /\ s \in People /\ Now(s).kind = "SHIPMENT"
    /\ \/ Claims(s) = {} /\ Proceed(s, {}, {Unresolvable(s)})
       \/ \E k \in Claims(s) : ~ItemBelongs(k.id.of, k.asserted) /\ Proceed(s, {}, {k})
    /\ UNCHANGED tables

Admissible(s, k) ==
    /\ k \in Claims(s)
    /\ k.id.kind = "SHIPMENT" => ItemBelongs(k.id.of, k.asserted)

\* Without a reference and without a confirmation no anchor is made: one task
\* per Evidence, which a rejected command commits.
ShipmentUnconfirmed(s) ==
    /\ Resolvable(s)
    /\ \E k \in {k \in Claims(s) : Admissible(s, k)} :
          /\ NoReference(k) /\ ~k.confirmed
          /\ Proceed(s, {ShipmentIncomplete(k.fragment)}
                        \cup (IF s \in Backfills THEN {BackfillTask("CONFLICT", Now(s), row[s])} ELSE {}), {k})
    /\ UNCHANGED tables

\* A replay or a corroboration.
Agrees(s) ==
    /\ Resolvable(s) /\ s \notin Ledgers
    /\ \E k \in {k \in Claims(s) : Admissible(s, k)} :
          /\ NoReference(k) => k.confirmed
          /\ AgreesWith(s, k)
          /\ Proceed(s, {}, {k})
    /\ UNCHANGED tables

\* Only a shipment has a task of its own, and only for other Evidence.
ConflictTasks(s, k, met) ==
    (IF s \in Backfills
     THEN {BackfillTask(IF k.id.kind = "CONTRACT" /\ Cardinality(met) > 1
                        THEN "IDENTITY_AMBIGUOUS" ELSE "CONFLICT", Now(s), row[s])}
     ELSE {})
    \cup (IF k.id.kind = "SHIPMENT" /\ ~NoReference(k)
          THEN {ShipmentConflict(a, k.fragment) : a \in {a \in met : revs[a].fragment # k.fragment}}
          ELSE {})

\* A backfill goes on after its task, a person's shipment commits its task.
\* Any other conflict is an error that rolls the transaction back: Fail.
Conflicts(s) ==
    /\ Resolvable(s)
    /\ s \in Backfills \/ (s \in People /\ Now(s).kind = "SHIPMENT")
    /\ \E k \in {k \in Claims(s) : Admissible(s, k)} :
          /\ NoReference(k) => k.confirmed
          /\ Met(s, k) # {} /\ ~AgreesWith(s, k)
          /\ Proceed(s, ConflictTasks(s, k, Met(s, k)), {k})
    /\ UNCHANGED tables

\* A ledger import adds its rows whatever exists.
NotFound(s) ==
    /\ Resolvable(s)
    /\ \E k \in {k \in Claims(s) : Admissible(s, k)} :
          /\ NoReference(k) => k.confirmed
          /\ s \in Ledgers \/ Met(s, k) = {}
          /\ claim' = [claim EXCEPT ![s] = k]
    /\ pc' = [pc EXCEPT ![s] = "insert"]
    /\ UNCHANGED <<store, writeLock, row, work, draft>>

\* A check of the committed rows in place of the index.
UniqueIndexAdmits_Committed(id) ==
    \/ id.kind = "CONTRACT" \/ (id.kind = "SHIPMENT" /\ id.key[1] = None)
    \/ \A a \in RevIds : Committed(a) => anchors[a] # id

\* The unique index knows uncommitted rows too; NULLs never collide, and
\* contracts have no such index.
UniqueIndexAdmits(id) ==
    \/ id.kind = "CONTRACT" \/ (id.kind = "SHIPMENT" /\ id.key[1] = None)
    \/ \A a \in RevIds : anchors[a] # id

InsertAnchor(s) ==
    LET k == claim[s]
        a == Fresh(Pool[s])
    IN  /\ pc[s] = "insert" /\ HasFresh(Pool[s])
        /\ UniqueIndexAdmits(k.id)
        /\ anchors' = [anchors EXCEPT ![a] = k.id]
        /\ revs' = [revs EXCEPT ![a] = Revision(a, "INITIAL", Projection(k.id.kind, k.asserted),
                                                k.asserted, k.fragment)]
        /\ draft' = [draft EXCEPT ![s].anchors = @ \cup {a}, ![s].claims = @ \cup {k}]
        /\ pc' = [pc EXCEPT ![s] = "read"] /\ row' = [row EXCEPT ![s] = @ + 1]
        /\ claim' = [claim EXCEPT ![s] = None]
        /\ UNCHANGED <<dependents, tasks, evidence, writeLock, work>>

\* A fact of a pack, unless an earlier run of the pack recorded it.
Depend(s) ==
    /\ Processing(s) /\ Now(s).kind = "FACT"
    /\ \E c \in Scopes(s) : \E i \in ItemsOf(s, c, Now(s).key) :
          dependents' = IF \E d \in dependents : d.fact = Now(s).fragment /\ d.by = None
                        THEN dependents
                        ELSE dependents \cup {[fact |-> Now(s).fragment, anchor |-> i,
                                               since |-> Current(i), by |-> s]}
    /\ Proceed(s, {}, {})
    /\ UNCHANGED <<anchors, revs>>

EndTransaction(s) ==
    /\ writeLock' = IF writeLock = s THEN None ELSE writeLock
    /\ pc' = [pc EXCEPT ![s] = "idle"] /\ row' = [row EXCEPT ![s] = 0]
    /\ work' = [work EXCEPT ![s] = <<>>]
    /\ claim' = [claim EXCEPT ![s] = None]
    /\ draft' = [draft EXCEPT ![s] = NoDraft]

\* A ledger that repeats a number tells so: one task per repeated number.
RepeatedIn(s) ==
    {RepeatedNumber(n, {a \in draft[s].anchors : anchors[a].of = n}) :
        n \in {n \in {anchors[a].of : a \in draft[s].anchors} :
                  Cardinality({a \in draft[s].anchors : anchors[a].of = n}) > 1}}

Commit(s) ==
    /\ pc[s] = "read" /\ row[s] > Len(work[s])
    /\ tasks' = tasks \cup draft[s].tasks \cup (IF s \in Ledgers THEN RepeatedIn(s) ELSE {})
    /\ evidence' = evidence \cup draft[s].claims
    /\ dependents' = {IF d.by = s THEN [d EXCEPT !.by = None, !.since = Current(d.anchor)] ELSE d
                        : d \in dependents}
    /\ EndTransaction(s)
    /\ UNCHANGED <<anchors, revs>>

\* An error of the command or of the pack, a crash, a lock timeout, a unique
\* violation, or being the victim of a deadlock.
Fail(s) ==
    /\ pc[s] # "idle"
    /\ anchors' = [a \in RevIds |-> IF a \in draft[s].anchors THEN None ELSE anchors[a]]
    /\ revs' = [r \in RevIds |-> IF r \in draft[s].anchors THEN None ELSE revs[r]]
    /\ dependents' = {d \in dependents : d.by # s}
    /\ EndTransaction(s)
    /\ UNCHANGED <<tasks, evidence>>

-----------------------------------------------------------------------------
(* Supplements, corrections and the records that depend on a fact.         *)

Supplementable(v, as) == \A f \in DOMAIN as : v[f] \in {None, as[f]}
Correctable(v, as)    == \A f \in DOMAIN as : v[f] # None

\* The asserted fields are known, the others forgotten.
Merge_Forgets(kind, v, as) == Projection(kind, as)
Merge(kind, v, as) == [f \in Fields[kind] |-> IF f \in DOMAIN as THEN as[f] ELSE v[f]]

\* Neither a replay nor a second use of the Evidence, and the base is current.
Based(a, base, as, fragment) ==
    /\ DOMAIN as # {} /\ Committed(a)
    /\ anchors[a].kind = "SHIPMENT" => ItemBelongs(anchors[a].of, as)
    /\ \A r \in RevisionsOf(a) : revs[r].fragment # fragment
    /\ Exists(base) /\ revs[base].anchor = a

\* UPDATE ... WHERE superseded_by_revision_id IS NULL, then the insert.
AppendAgainstCurrent(base, new, r) ==
    /\ revs[base].next = None
    /\ revs' = [revs EXCEPT ![base].next = new, ![new] = r]

\* Replays, conflicts and stale bases raise and write nothing.
Revise(op, allowed, a, base, as) ==
    LET fragment == ReviseFragment(op, a, base, as)
        new == Fresh(Spare)
    IN  /\ writeLock = None
        /\ HasFresh(Spare)
        /\ Based(a, base, as, fragment)
        /\ allowed
        /\ AppendAgainstCurrent(base, new,
               Revision(a, op, Merge(anchors[a].kind, revs[base].values, as), as, fragment))
        /\ UNCHANGED <<anchors, dependents, evidence, writeLock, pc, row, work, claim, draft>>

\* The records that name the superseded revision.
Dependents_OfRevision(a, base) ==
    {d.fact : d \in {d \in dependents : d.anchor = a /\ d.by = None /\ d.since = base}}
\* The committed records that name the anchor, whenever they were recorded.
Dependents(a, base) == {d.fact : d \in {d \in dependents : d.anchor = a /\ d.by = None}}

Supplement(a, base, as) ==
    /\ Revise("SUPPLEMENT", Supplementable(revs[base].values, as), a, base, as)
    /\ UNCHANGED tasks

\* A correction of a contract tells nobody.
Correct(a, base, as) ==
    /\ Revise("CORRECTION", Correctable(revs[base].values, as), a, base, as)
    /\ tasks' = tasks \cup
          IF anchors[a].kind = "CONTRACT" \/ Dependents(a, base) = {} THEN {}
          ELSE {FactSuperseded(a, base, Fresh(Spare), Dependents(a, base))}

\* What the desk records about an item or a shipment, under the lock.
Record(a, fact) ==
    /\ writeLock = None
    /\ Committed(a) /\ anchors[a].kind \in {"ITEM", "SHIPMENT"}
    /\ \A d \in dependents : d.fact # fact
    /\ dependents' = dependents \cup {[fact |-> fact, anchor |-> a, since |-> Current(a), by |-> None]}
    /\ UNCHANGED <<anchors, revs, tasks, evidence, writeLock, pc, row, work, claim, draft>>

\* The items an amendment may name.
Items(key) ==
    {i \in RevIds : Committed(i) /\ anchors[i].kind = "ITEM" /\ anchors[i].key = key}
Amended(as) ==
    IF "item" \notin DOMAIN as THEN {as}
    ELSE {[as EXCEPT !["item"] = i] : i \in Items(as["item"])}

Create(s) ==
    \/ IdentityUnresolved(s) \/ ScopeRefused(s) \/ ShipmentUnconfirmed(s)
    \/ Agrees(s) \/ Conflicts(s) \/ NotFound(s) \/ InsertAnchor(s) \/ Depend(s)

Next ==
    \/ \E p \in People, e \in Submissions : Submit(p, e)
    \/ \E m \in Imports : StartImport(m)
    \/ \E s \in Sessions : Create(s) \/ Commit(s) \/ Fail(s)
    \/ \E a, base \in RevIds, m \in Amendments :
          /\ Exists(a) /\ anchors[a] # None /\ anchors[a].kind = m[1]
          /\ \E as \in Amended(m[2]) : Supplement(a, base, as) \/ Correct(a, base, as)
    \/ \E a \in RevIds : Record(a, "desk")

Spec == Init /\ [][Next]_vars

-----------------------------------------------------------------------------
(* Properties.                                                             *)

\* Items and shipments with a reference have one anchor per business key,
\* whichever unlocked imports race; and the Evidence of a confirmed shipment
\* without a reference creates it once, however often it is submitted
\* (docs/PHASE2D1-R0-DECISIONS.md 4.4).
OneAnchorPerKey ==
    \A a, b \in RevIds :
        (Committed(a) /\ Committed(b) /\ anchors[a] = anchors[b] /\ a # b) =>
            \/ anchors[a].kind = "CONTRACT"
            \/ /\ anchors[a].kind = "SHIPMENT" /\ anchors[a].key[1] = None
               /\ revs[a].fragment # revs[b].fragment

\* No committed Evidence of a creation is dropped: an anchor's INITIAL revision
\* asserts all that was said, or an open task under its identity key tells a
\* person.  Two exceptions: a file's shipment may lose the key of an item that
\* is not there, and a person's shipment that names no contract, no item or
\* another contract's item is refused, with the error as the only answer.
Stated(k) == \E a \in RevIds : Committed(a) /\ anchors[a] = k.id /\ AssertedBy(a) = k.asserted
Meant(k) ==
    /\ \A f \in DOMAIN k.said \ {"item"} : f \in DOMAIN k.asserted /\ k.asserted[f] = k.said[f]
    /\ "item" \in DOMAIN k.said =>
          IF "item" \in DOMAIN k.asserted THEN k.asserted["item"] \in Items(k.said["item"])
          ELSE k.fragment[1] = "row"
Reported(k) ==
    \E t \in tasks :
        \/ /\ t.kind \in {"IDENTITY_INCOMPLETE", "IDENTITY_AMBIGUOUS", "CONFLICT"}
           /\ t.fact = k.id.kind /\ t.number = k.number
           /\ t.key = TaskKey(t.kind, k.id.kind, k.id.key, k.at)
        \/ /\ t.kind \in {"SHIPMENT_IDENTITY_INCOMPLETE", "SHIPMENT_IDENTITY_CONFLICT"}
           /\ t.fragment = k.fragment /\ k.fragment[1] = "create"
Refused(k) ==
    /\ k.fragment[1] = "create" /\ k.id.kind = "SHIPMENT"
    /\ \/ k.id.of = None
       \/ /\ "item" \in DOMAIN k.asserted
          /\ \E i \in Items(k.said["item"]) : k.asserted["item"] = i /\ anchors[i].of # k.id.of
EvidenceAccountedFor == \A k \in evidence : (Stated(k) /\ Meant(k)) \/ Reported(k) \/ Refused(k)

\* A correction of an item or a shipment is told to whoever relied on it: every
\* record that was visible when a later revision corrected the fact it names
\* is listed by that correction's task (1.5), after any number of supplements
\* and corrections and also for records made before the last one.
Later(r, base) ==
    /\ r # base
    /\ \A S \in SUBSET RevisionsOf(revs[base].anchor) :
          base \in S /\ (\A q \in S : revs[q].next \in S \cup {None}) => r \in S
DependentsTold ==
    \A d \in dependents : d.by = None =>
        \A r \in {r \in RevisionsOf(d.anchor) : revs[r].type = "CORRECTION"} : Later(r, d.since) =>
            \E t \in tasks : t.kind = "FACT_SUPERSEDED" /\ t.new = r /\ d.fact \in t.facts

\* What readers see of each anchor is a fact ledger: no supplement forgets and
\* no correction invents or unsets an attribute.
Known == [a \in RevIds |->
    IF Committed(a)
    THEN [f \in AllFields |-> IF f \in Fields[anchors[a].kind] THEN revs[Current(a)].values[f] ELSE None]
    ELSE None]
Ledger == INSTANCE FactLedger WITH known <- Known, Identities <- RevIds,
                                   Fields <- AllFields, Values <- KnownValues
LedgerSpec == Ledger!Spec

=============================================================================
