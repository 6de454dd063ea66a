----------------------------- MODULE CloseFacts -----------------------------
(***************************************************************************)
(* The facts a period close is computed from, and their writers:           *)
(*                                                                         *)
(*   Documents  close fact packs (import_close_facts) and manual item      *)
(*              allocations: one transaction each, under the write lock,   *)
(*              that works through its entries one after the other.        *)
(*   Cutovers   cutover fact packs among them: they take no lock, commit    *)
(*              what matching does not need first, and the allocations     *)
(*              after matching; after a crash they are run from the start. *)
(*   Superseders  whole-fact supersessions: read and check, then insert    *)
(*              and compare-and-set in one savepoint.  They leave locking  *)
(*              to their caller: `callersLock' says whether callers do.    *)
(*                                                                         *)
(* Allocations, cost recognitions, accrual bases and historical accruals   *)
(* are whole facts of one table, told apart by their type.                 *)
(***************************************************************************)
EXTENDS Integers, Sequences, FiniteSetsExt

CONSTANTS
    Items,       \* contract items
    Contracts,
    ContractOf,  \* the contract of an item
    Lines,       \* invoice lines (InvoiceItem)
    Invoices,
    InvoiceOf,   \* the invoice of a line
    LineQuantity, \* what a line is about, or None
    LineNet,     \* its net amount
    Periods,     \* periods, ordered by their end dates
    Documents,   \* packs and manual commands
    Entries,     \* Entries[d]: what document d asserts, in the order of the passes
    Manual,      \* the documents that are manual allocations
    Cutovers,    \* those that are cutover fact packs
    Replacements, \* what supersessions assert: [type, content, fragment]
    Superseders, \* sessions that supersede
    Pool,        \* Pool[w]: the fact ids of document or replacement w (a bound: no id, no insert)
    None

VARIABLES
    facts,       \* facts[f]: row of one of the four fact tables
    accruals,    \* accruals[<<i, p>>]: the accrual of an item for a period
    reversals,   \* rows of accrual_reversals
    confirmed,   \* confirmed contract-level allocations <<invoice, contract>>
    documents,   \* Evidence documents by sha256
    callersLock, \* do callers of supersessions take the write lock?
    writeLock,   \* holder of the advisory write lock
    row,         \* row[d]: position in document d of its writer, 0 when it does not run
    draft,       \* draft[d]: what it has written and not committed
    noted,       \* allocation_ids of the running close import
    plan         \* plan[s]: the checked supersession of session s

vars == <<facts, accruals, reversals, confirmed, documents, callersLock, writeLock, row, draft, noted, plan>>
session == <<writeLock, row, draft, noted>>

Accruals == Items \X Periods
Pairs    == Lines \X Items
FactIds  == UNION {Pool[w] : w \in DOMAIN Pool}
Nothing  == [facts |-> {}, accruals |-> {}, reversals |-> {}]

\* What a row of a fact table can say.
Fragments == {r.fragment : r \in Replacements}
Asserted  == UNION {{Entries[d][n] : n \in DOMAIN Entries[d]} : d \in Documents}
OwnFragments == UNION {{<<d, n>> : n \in DOMAIN Entries[d]} : d \in Documents}
Rows == [type : {"ALLOCATION", "COST", "BASIS", "HISTORICAL"} \cup {r.type : r \in Replacements},
         scope : {e.scope : e \in Asserted},
         content : {e.content : e \in Asserted} \cup {r.content : r \in Replacements},
         fragment : OwnFragments \cup Fragments,
         next : FactIds \cup {None}]
Plans == [old : FactIds, fact : Rows]
\* What a row of the accruals' table can say.
AccrualRows == [quantity : Int, cost : Int, fact : FactIds, status : {"ACTIVE", "PARTIALLY_REVERSED", "REVERSED"}]

\* Every writer has a pool of ids; None is no id, no row and no plan; the
\* fragments of supersessions are not those of the documents.
ASSUME PoolAssumption     == Documents \cup Fragments \subseteq DOMAIN Pool
ASSUME NoneAssumption     == None \notin FactIds /\ None \notin Rows /\ None \notin Plans
ASSUME AccrualsAssumption == None \notin AccrualRows
ASSUME FragmentAssumption == OwnFragments \cap Fragments = {}

\* A document and a supersession are different sessions.
ASSUME SessionsAssumption == Superseders \cap Documents = {} /\ None \notin Superseders \cup Documents
\* Documents are sequences, and quantities are numbers.
ASSUME EntriesAssumption == Entries \in [Documents -> Seq(Asserted)]
ASSUME QuantitiesAssumption ==
    /\ \A l \in Lines : LineQuantity[l] # None => LineQuantity[l] \in Int
    /\ \A e \in Asserted : e.type \in {"ALLOCATION", "HISTORICAL", "REVERSAL"} => e.content.quantity \in Int
    /\ \A r \in Replacements : r.type = "ALLOCATION" => r.content.quantity \in Int

-----------------------------------------------------------------------------
(* Rows.                                                                   *)

Fact(type, scope, content, fragment) ==
    [type |-> type, scope |-> scope, content |-> content, fragment |-> fragment, next |-> None]

Exists(f)    == facts[f] # None
Committed(f) == Exists(f) /\ \A d \in Documents : f \notin draft[d].facts
IsCurrent(f) == Exists(f) /\ facts[f].next = None
\* A new uuid: which one it is makes no difference.
Free(w)      == {f \in Pool[w] : ~Exists(f)}
Fresh(w)     == CHOOSE f \in Free(w) : TRUE

Sees(d, f)   == Committed(f) \/ f \in draft[d].facts

\* The current rows of a type, as the writer of d and as another session sees them.
Own(d, type)  == {f \in FactIds : Sees(d, f) /\ IsCurrent(f) /\ facts[f].type = type}
Current(type) == {f \in FactIds : Committed(f) /\ IsCurrent(f) /\ facts[f].type = type}

Sum(rows, line) ==
    SumFunction([f \in {g \in rows : facts[g].scope[1] = line} |-> facts[f].content.quantity])

\* Constraint B against the line alone.
ValidAllocation_EachFits(pair, content, existing) ==
    /\ <<InvoiceOf[pair[1]], ContractOf[pair[2]]>> \in confirmed
    /\ LineQuantity[pair[1]] # None
    /\ content.quantity > 0 /\ content.quantity <= LineQuantity[pair[1]]
    /\ content.net >= 0 /\ content.net <= LineNet[pair[1]]
\* Constraint A dropped.
ValidAllocation_AnyContract(pair, content, existing) ==
    /\ LineQuantity[pair[1]] # None
    /\ content.quantity > 0
    /\ content.net >= 0 /\ content.net <= LineNet[pair[1]]
    /\ Sum(existing, pair[1]) + content.quantity <= LineQuantity[pair[1]]
ValidAllocation(pair, content, existing) ==
    /\ <<InvoiceOf[pair[1]], ContractOf[pair[2]]>> \in confirmed
    /\ LineQuantity[pair[1]] # None
    /\ content.quantity > 0
    /\ content.net >= 0 /\ content.net <= LineNet[pair[1]]
    /\ Sum(existing, pair[1]) + content.quantity <= LineQuantity[pair[1]]

Total(field, rows)         == SumFunction([r \in rows |-> r[field]])
RowsOf(a, rows)            == {r \in rows : r.accrual = a}
RemainingQuantity(a, rows) == accruals[a].quantity - Total("quantity", RowsOf(a, rows))
RemainingCost(a, rows)     == accruals[a].cost - Total("cost", RowsOf(a, rows))

ProjectedStatus(reversed, remaining) ==
    IF remaining <= 0 THEN "REVERSED" ELSE IF reversed > 0 THEN "PARTIALLY_REVERSED" ELSE "ACTIVE"

-----------------------------------------------------------------------------
Init ==
    /\ facts = [f \in FactIds |-> None]
    /\ accruals = [a \in Accruals |-> None]
    /\ reversals = {} /\ confirmed = {} /\ documents = {}
    /\ callersLock \in BOOLEAN
    /\ writeLock = None
    /\ row = [d \in Documents |-> 0]
    /\ draft = [d \in Documents |-> Nothing]
    /\ noted = [p \in Pairs |-> None]
    /\ plan = [s \in Superseders |-> None]

\* Matching or a person allocates an invoice to a contract (a match that is
\* already there stays).
Confirm(invoice, contract) ==
    /\ writeLock = None
    /\ confirmed' = confirmed \cup {<<invoice, contract>>}
    /\ UNCHANGED <<facts, accruals, reversals, documents, callersLock, session, plan>>

-----------------------------------------------------------------------------
(* Documents: close fact packs, manual allocations and cutover packs.      *)

\* The same bytes again are a no-op (a pack) or refused (a manual command);
\* a cutover pack is worked through again, its Evidence document reused.
Start(d) ==
    /\ row[d] = 0
    /\ row' = [row EXCEPT ![d] = 1]
    /\ IF d \in Cutovers THEN UNCHANGED writeLock
       ELSE /\ writeLock = None /\ d \notin documents
            /\ writeLock' = d
    /\ UNCHANGED <<facts, accruals, reversals, confirmed, documents, callersLock, draft, noted, plan>>

Entry(d) == Entries[d][row[d]]
Processing(d, type) == row[d] \in DOMAIN Entries[d] /\ Entry(d).type = type
\* A row's fragment: the document and the position in it.
Fragment(d) == <<d, row[d]>>

Advance(d) == row' = [row EXCEPT ![d] = @ + 1]
Write(d, field, new) == draft' = [draft EXCEPT ![d][field] = @ \cup new]

Skip(d) ==
    /\ Advance(d)
    /\ UNCHANGED <<facts, accruals, reversals, confirmed, documents, callersLock, writeLock, draft, plan>>

AddFact(d, fact) ==
    /\ Free(d) # {}
    /\ facts' = [facts EXCEPT ![Fresh(d)] = fact]
    /\ Advance(d)
    /\ UNCHANGED <<reversals, confirmed, documents, callersLock, writeLock, plan>>

\* find_duplicate looks at superseded rows as well: what was superseded is
\* not asserted again by an old file.
\* (A basis' quantity is not looked at.)
SameContent(type, c1, c2) == IF type = "BASIS" THEN c1.cost = c2.cost ELSE c1 = c2
Duplicates(d) ==
    {f \in FactIds : /\ Sees(d, f) /\ facts[f].type = Entry(d).type /\ facts[f].scope = Entry(d).scope
                     /\ SameContent(Entry(d).type, facts[f].content, Entry(d).content)}

\* Passes 3 and 4 and, in a cutover pack, historical accruals: the fact alone.
FactOnly(d) == {"COST", "BASIS"} \cup IF d \in Cutovers THEN {"HISTORICAL"} ELSE {}
ImportFact(d) ==
    /\ \E type \in FactOnly(d) : Processing(d, type)
    /\ UNCHANGED noted
    /\ IF Duplicates(d) # {} THEN Skip(d)
       ELSE /\ AddFact(d, Fact(Entry(d).type, Entry(d).scope, Entry(d).content, Fragment(d)))
            /\ Write(d, "facts", {Fresh(d)})
            /\ UNCHANGED accruals

Accrue(d, fact) ==
    accruals' = [accruals EXCEPT ![Entry(d).scope] =
        [quantity |-> Entry(d).content.quantity, cost |-> Entry(d).content.cost,
         fact |-> fact, status |-> "ACTIVE"]]

\* Pass 5: one accrual per item and period, whatever the file says of it now.
\* The fact may be there without its accrual: a cutover pack has left it, and
\* it may have been superseded since.
ImportAccrual(d) ==
    /\ d \notin Cutovers /\ Processing(d, "HISTORICAL")
    /\ UNCHANGED noted
    /\ CASE accruals[Entry(d).scope] # None -> Skip(d)
         [] accruals[Entry(d).scope] = None /\ Duplicates(d) # {} ->
               /\ \E f \in Duplicates(d) : Accrue(d, f)
               /\ Write(d, "accruals", {Entry(d).scope})
               /\ Advance(d)
               /\ UNCHANGED <<facts, reversals, confirmed, documents, callersLock, writeLock, plan>>
         [] OTHER ->
               /\ AddFact(d, Fact("HISTORICAL", Entry(d).scope, Entry(d).content, Fragment(d)))
               /\ Accrue(d, Fresh(d))
               /\ draft' = [draft EXCEPT ![d].facts = @ \cup {Fresh(d)}, ![d].accruals = @ \cup {Entry(d).scope}]

\* Pass 6, the manual command and the cutover pack.  A pack takes the current
\* allocation of the pair when there is one, a manual command always adds.
FoundFor(d, pair) == {f \in Own(d, "ALLOCATION") : facts[f].scope = pair}

Note(d, f) == noted' = IF d \in Cutovers THEN noted ELSE [noted EXCEPT ![Entry(d).scope] = f]

KeepAllocation(d) ==
    /\ Processing(d, "ALLOCATION") /\ d \notin Manual
    /\ \E f \in FoundFor(d, Entry(d).scope) : Note(d, f)
    /\ Skip(d)

AddAllocation(d) ==
    /\ Processing(d, "ALLOCATION")
    /\ d \in Manual \/ FoundFor(d, Entry(d).scope) = {}
    /\ ValidAllocation(Entry(d).scope, Entry(d).content, Own(d, "ALLOCATION"))
    /\ AddFact(d, Fact("ALLOCATION", Entry(d).scope, Entry(d).content, Fragment(d)))
    /\ Note(d, Fresh(d))
    /\ Write(d, "facts", {Fresh(d)})
    /\ UNCHANGED accruals

\* Pass 7: what was reversed before the system went live.  It goes to the
\* allocation pass 6 has noted for the pair.  (A cutover pack may not have any.)
ImportReversal(d) ==
    /\ d \notin Cutovers /\ Processing(d, "REVERSAL")
    /\ UNCHANGED noted
    /\ LET e == Entry(d)
           r == [accrual |-> e.accrual, allocation |-> noted[e.scope],
                 quantity |-> e.content.quantity, cost |-> e.content.cost, document |-> Fragment(d)]
       IN /\ accruals[e.accrual] # None /\ noted[e.scope] # None
          /\ IF \E q \in RowsOf(r.accrual, reversals) : q.allocation = r.allocation
             THEN Skip(d)
             ELSE /\ reversals' = reversals \cup {r}
                  /\ Write(d, "reversals", {r})
                  /\ Advance(d)
                  /\ UNCHANGED <<facts, accruals, confirmed, documents, callersLock, writeLock, plan>>

Release(d) ==
    /\ row' = [row EXCEPT ![d] = 0]
    /\ draft' = [draft EXCEPT ![d] = Nothing]
    /\ IF d \in Cutovers THEN UNCHANGED <<writeLock, noted>>
       ELSE writeLock' = None /\ noted' = [p \in Pairs |-> None]

\* The cached status is recomputed for the accruals the document touched.
Refreshed(touched, rows) == [a \in Accruals |->
    IF a \notin touched THEN accruals[a]
    ELSE [accruals[a] EXCEPT !.status =
             ProjectedStatus(Total("quantity", RowsOf(a, rows)), RemainingQuantity(a, rows))]]

Commit(d) ==
    /\ row[d] > Len(Entries[d])
    /\ accruals' = Refreshed({r.accrual : r \in draft[d].reversals}, reversals)
    /\ documents' = documents \cup {d}
    /\ Release(d)
    /\ UNCHANGED <<facts, reversals, confirmed, callersLock, plan>>

\* A cutover pack's pre-match stage is committed, document and fragments with
\* it; matching runs before the allocations.
Checkpoint(d) ==
    /\ d \in Cutovers /\ Processing(d, "ALLOCATION") /\ draft[d] # Nothing
    /\ \A n \in 1 .. row[d] - 1 : Entries[d][n].type # "ALLOCATION"
    /\ documents' = documents \cup {d}
    /\ draft' = [draft EXCEPT ![d] = Nothing]
    /\ UNCHANGED <<facts, accruals, reversals, confirmed, callersLock, writeLock, row, noted, plan>>

\* A crash, an entry that is refused, a readiness check that fails: what is
\* not committed is rolled back.
Rollback(d) ==
    /\ row[d] # 0
    /\ facts' = [f \in FactIds |-> IF f \in draft[d].facts THEN None ELSE facts[f]]
    /\ accruals' = [a \in Accruals |-> IF a \in draft[d].accruals THEN None ELSE accruals[a]]
    /\ reversals' = reversals \ draft[d].reversals
    /\ Release(d)
    /\ UNCHANGED <<confirmed, documents, callersLock, plan>>

-----------------------------------------------------------------------------
(* Whole-fact supersession.                                                *)

\* Reads and checks.  The capacity base excludes the fact to be superseded.
Supersede(s, old, new) ==
    /\ plan[s] = None
    /\ callersLock => writeLock = None
    /\ Committed(old) /\ IsCurrent(old)
    /\ new.type = facts[old].type /\ new.fragment # facts[old].fragment
    /\ new.type = "ALLOCATION" =>
         ValidAllocation(facts[old].scope, new.content, Current("ALLOCATION") \ {old})
    /\ plan' = [plan EXCEPT ![s] =
            [old |-> old, fact |-> Fact(new.type, facts[old].scope, new.content, new.fragment)]]
    /\ writeLock' = IF callersLock THEN s ELSE writeLock
    /\ UNCHANGED <<facts, accruals, reversals, confirmed, documents, callersLock, row, draft, noted>>

EndSupersession(s) ==
    /\ plan' = [plan EXCEPT ![s] = None]
    /\ writeLock' = IF writeLock = s THEN None ELSE writeLock
    /\ UNCHANGED <<accruals, reversals, confirmed, documents, callersLock, row, draft, noted>>

New(s)  == Fresh(plan[s].fact.fragment)
Room(s) == Free(plan[s].fact.fragment) # {}
Mark(s) == [facts EXCEPT ![New(s)] = plan[s].fact, ![plan[s].old].next = New(s)]

\* The insert, then an unconditional UPDATE of the old row.
InsertAndMark_Any(s) ==
    /\ plan[s] # None
    /\ Room(s)
    /\ facts' = Mark(s)
    /\ EndSupersession(s)
\* insert, UPDATE ... WHERE superseded_by_fact_id IS NULL, and the commit.
InsertAndMark(s) ==
    /\ plan[s] # None
    /\ facts[plan[s].old].next = None
    /\ Room(s)
    /\ facts' = Mark(s)
    /\ EndSupersession(s)

\* The loser raises inside its savepoint: its new row is not left behind.
Lose(s) ==
    /\ plan[s] # None /\ facts[plan[s].old].next # None
    /\ EndSupersession(s)
    /\ UNCHANGED facts

Crash(s) == plan[s] # None /\ EndSupersession(s) /\ UNCHANGED facts

Next ==
    \/ \E i \in Invoices, c \in Contracts : Confirm(i, c)
    \/ \E d \in Documents :
         \/ Start(d) \/ ImportFact(d) \/ ImportAccrual(d) \/ KeepAllocation(d) \/ AddAllocation(d)
         \/ ImportReversal(d) \/ Checkpoint(d) \/ Commit(d) \/ Rollback(d)
    \/ \E s \in Superseders :
         \/ \E old \in FactIds, new \in Replacements : Supersede(s, old, new)
         \/ InsertAndMark(s) \/ Lose(s) \/ Crash(s)

Spec == Init /\ [][Next]_vars
=============================================================================
