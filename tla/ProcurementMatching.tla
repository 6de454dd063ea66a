------------------------- MODULE ProcurementMatching -------------------------
(***************************************************************************)
(* M001: matching purchase invoices and outgoing payments ("subjects") to  *)
(* procurement contracts by exact counterparty and exact gross amount.     *)
(*                                                                         *)
(*   Importers   commit contracts and subjects without the write lock.     *)
(*   Runs        match_invoices / match_payments: take the write lock,     *)
(*               read the contracts, read the subjects, decide about every *)
(*               unresolved subject, commit once.                          *)
(*   People      confirm_match a case left to them, and revise a           *)
(*               contract's facts; both hold the write lock throughout, so *)
(*               each is one action that needs the lock to be free.        *)
(*                                                                         *)
(* A run's two reads are separate statements under READ COMMITTED, so an   *)
(* import may commit between them; its loop over the subjects runs one     *)
(* action per subject on the run's private draft.                          *)
(*                                                                         *)
(* Ids are numbers because uuids are compared: the importer draws any      *)
(* unused one.  Dates, business keys and contract numbers are numbers too, *)
(* and 0 is the missing one.                                               *)
(***************************************************************************)
EXTENDS Integers, FiniteSets, FiniteSetsExt

CONSTANTS
    ContractIds,    \* pool of contract uuids
    SubjectIds,     \* pool of invoice and payment uuids
    ContractFacts,  \* facts a ledger row can state about a contract
    SubjectFacts,   \* facts a document can state about an invoice or payment
    Runs,           \* matching runs (a bound: each commits at most once)
    None

Kinds == {"INVOICE", "PAYMENT"}

ContractRecords ==
    [party : STRING, gross : Nat, date : Nat, no : Nat, terms : Nat]
SubjectRecords ==
    [kind : Kinds, party : STRING, amount : Nat, date : Nat, key : Nat,
     content : Nat]

ASSUME IdsAssumption ==
    /\ ContractIds \subseteq Nat /\ IsFiniteSet(ContractIds)
    /\ SubjectIds \subseteq Nat  /\ IsFiniteSet(SubjectIds)
ASSUME FactsAssumption ==
    ContractFacts \subseteq ContractRecords /\ SubjectFacts \subseteq SubjectRecords
ASSUME NoneAssumption ==
    None \notin ContractRecords \cup SubjectRecords \cup Runs \cup Nat

VARIABLES
    contracts,    \* contracts[c]: the current facts of contract c
    subjects,     \* subjects[s]: the facts of invoice or payment s
    cases,        \* match cases, with their candidate rows
    allocations,  \* allocation rows
    consumed,     \* consumed[k][c]: sum of the rows of kind k on contract c
    tasks,        \* cases with an OPEN ALLOCATION_CAPACITY_EXCEEDED task
    writeLock,    \* holder of the advisory write lock
    pc,           \* pc[r]: where run r is
    kind,         \* kind[r]: which subjects run r matches
    seen,         \* seen[r]: the contracts run r has read
    todo,         \* todo[r]: unresolved subjects run r has yet to decide
    blocked,      \* blocked[r]: members of cohorts without a defined order
    pairs,        \* pairs[r]: canonical <<subject, contract>> pairs
    remaining,    \* remaining[r][c]: capacity run r believes c has left
    draft         \* draft[r]: rows written by r and not committed

db == <<contracts, subjects, cases, allocations, consumed, tasks>>
local == <<pc, kind, seen, todo, blocked, pairs, remaining, draft>>
vars == <<db, writeLock, local>>

NoDraft == [cases |-> {}, allocations |-> {}, tasks |-> {},
            taken |-> [c \in ContractIds |-> 0]]

Init ==
    /\ contracts = [c \in ContractIds |-> None]
    /\ subjects = [s \in SubjectIds |-> None]
    /\ cases = {} /\ allocations = {} /\ tasks = {}
    /\ consumed = [k \in Kinds |-> [c \in ContractIds |-> 0]]
    /\ writeLock = None
    /\ pc = [r \in Runs |-> "idle"]
    /\ kind = [r \in Runs |-> "INVOICE"]
    /\ seen = [r \in Runs |-> [c \in ContractIds |-> None]]
    /\ todo = [r \in Runs |-> {}]
    /\ blocked = [r \in Runs |-> {}]
    /\ pairs = [r \in Runs |-> {}]
    /\ remaining = [r \in Runs |-> [c \in ContractIds |-> 0]]
    /\ draft = [r \in Runs |-> NoDraft]

-----------------------------------------------------------------------------
(* Importers: one transaction may bring a contract, a subject, or both.    *)

Import(c, cf, s, sf) ==
    /\ \/ c = None /\ UNCHANGED contracts
       \/ /\ c \in ContractIds /\ contracts[c] = None
          /\ contracts' = [contracts EXCEPT ![c] = cf]
    /\ \/ s = None /\ UNCHANGED subjects
       \/ /\ s \in SubjectIds /\ subjects[s] = None
          /\ subjects' = [subjects EXCEPT ![s] = sf]
    /\ UNCHANGED <<cases, allocations, consumed, tasks, writeLock, local>>

-----------------------------------------------------------------------------
(* Orders.  Keys are tuples compared lexicographically, as in the source.  *)

Below(a, b) ==
    \E i \in DOMAIN a : a[i] < b[i] /\ \A j \in 1..(i - 1) : a[j] = b[j]

Missing(x) == IF x = 0 THEN 1 ELSE 0

InvoiceKey(s) ==
    LET f == subjects[s]
    IN  <<Missing(f.date), f.date, Missing(f.key), f.key, s>>
PaymentKey(s) ==
    LET f == subjects[s] IN <<Missing(f.date), f.date, f.key, s>>

\* Processing order by uuid instead of business date.
ProcessedBefore_ByUuid(s, t) == s < t

ProcessedBefore(s, t) ==
    IF subjects[s].kind = "INVOICE" THEN Below(InvoiceKey(s), InvoiceKey(t))
                                    ELSE Below(PaymentKey(s), PaymentKey(t))

ChronologicalKey(cs, c) == <<cs[c].date, cs[c].no, c>>
Earlier(cs, c, d) == Below(ChronologicalKey(cs, c), ChronologicalKey(cs, d))

-----------------------------------------------------------------------------
(* Pass 1, over the contracts cs a run has read.                           *)

Eligible(cs, s) ==
    \E c \in ContractIds : cs[c] # None /\ cs[c].party = subjects[s].party

Candidates(cs, s) ==
    {c \in ContractIds : /\ cs[c] # None
                         /\ cs[c].party = subjects[s].party
                         /\ cs[c].gross = subjects[s].amount}

Resolved(s) == \E m \in cases : m.subject = s

Unresolved(k, cs) ==
    {s \in SubjectIds : /\ subjects[s] # None /\ subjects[s].kind = k
                        /\ Eligible(cs, s) /\ ~Resolved(s)}

Cohort(us, s) ==
    {t \in us : /\ subjects[t].party = subjects[s].party
                /\ subjects[t].amount = subjects[s].amount}

Capacity(k, cs) ==
    [c \in ContractIds |-> IF cs[c] = None THEN 0
                                           ELSE cs[c].gross - consumed[k][c]]

\* A contract with exactly the capacity asked for counts as full.
Viable_Strict(cs, rem, s) == {c \in Candidates(cs, s) : subjects[s].amount < rem[c]}
Viable(cs, rem, s) == {c \in Candidates(cs, s) : subjects[s].amount <= rem[c]}

\* Two or more competitors for some capacity, and no business order among them.
UndefinedOrder(us, cs, rem, s) ==
    LET group == Cohort(us, s)
        open  == Viable(cs, rem, s)
    IN  /\ Cardinality(group) >= 2
        /\ open # {}
        /\ \/ \E t \in group : subjects[t].date = 0
           \/ \E c \in open : cs[c].date = 0

\* Business identities that may repeat within the cohort.
Interchangeable_RepeatedKeys(us, cs, rem, s) ==
    LET group == Cohort(us, s)
        pool  == Candidates(cs, s)
    IN  /\ Cardinality(pool) = Cardinality(group)
        /\ \A c \in pool : rem[c] = subjects[s].amount /\ cs[c].no # 0
        /\ \A c, d \in pool : /\ c # d => cs[c].no # cs[d].no
                              /\ cs[c].terms = cs[d].terms
                              /\ cs[c].date = cs[d].date
        /\ \A t \in group : subjects[t].key # 0
        /\ \A t, u \in group : /\ subjects[t].content = subjects[u].content
                               /\ subjects[t].date = subjects[u].date

\* Every pairing of the cohort with its candidates has the same effect.
Interchangeable(us, cs, rem, s) ==
    LET group == Cohort(us, s)
        pool  == Candidates(cs, s)
    IN  /\ Cardinality(pool) = Cardinality(group)
        /\ \A c \in pool : rem[c] = subjects[s].amount /\ cs[c].no # 0
        /\ \A c, d \in pool : /\ c # d => cs[c].no # cs[d].no
                              /\ cs[c].terms = cs[d].terms
                              /\ cs[c].date = cs[d].date
        /\ \A t \in group : subjects[t].key # 0
        /\ \A t, u \in group : /\ t # u => subjects[t].key # subjects[u].key
                               /\ subjects[t].content = subjects[u].content
                               /\ subjects[t].date = subjects[u].date

\* The n-th subject by business identity goes to the n-th contract.
SameRank(us, cs, s, c) ==
    LET group == Cohort(us, s)
        pool  == Candidates(cs, s)
    IN  Cardinality({t \in group : subjects[t].key < subjects[s].key})
          = Cardinality({d \in pool : cs[d].no < cs[c].no})

\* No cohort snapshot: greedy allocation whatever the dates.
Blocked_Never(us, cs, rem) == {}
Blocked(us, cs, rem) == {s \in us : UndefinedOrder(us, cs, rem, s)}

CanonicalPairs(us, cs, rem) ==
    {p \in us \X ContractIds :
        /\ UndefinedOrder(us, cs, rem, p[1])
        /\ Interchangeable(us, cs, rem, p[1])
        /\ p[2] \in Candidates(cs, p[1])
        /\ SameRank(us, cs, p[1], p[2])}

-----------------------------------------------------------------------------
(* A matching run.                                                         *)

EndRun(r, label) ==
    /\ pc' = [pc EXCEPT ![r] = label]
    /\ writeLock' = IF writeLock = r THEN None ELSE writeLock
    /\ seen' = [seen EXCEPT ![r] = [c \in ContractIds |-> None]]
    /\ todo' = [todo EXCEPT ![r] = {}]
    /\ blocked' = [blocked EXCEPT ![r] = {}]
    /\ pairs' = [pairs EXCEPT ![r] = {}]
    /\ remaining' = [remaining EXCEPT ![r] = [c \in ContractIds |-> 0]]
    /\ draft' = [draft EXCEPT ![r] = NoDraft]
    /\ UNCHANGED kind

\* A run that does not wait for the write lock.
StartRun_WithoutLock(r, k) ==
    /\ pc[r] = "idle"
    /\ kind' = [kind EXCEPT ![r] = k]
    /\ seen' = [seen EXCEPT ![r] = contracts]
    /\ pc' = [pc EXCEPT ![r] = "subjects"]
    /\ UNCHANGED <<db, writeLock, todo, blocked, pairs, remaining, draft>>

\* acquire_serialization_lock, then the first read.
StartRun(r, k) ==
    /\ pc[r] = "idle"
    /\ writeLock = None
    /\ writeLock' = r
    /\ kind' = [kind EXCEPT ![r] = k]
    /\ seen' = [seen EXCEPT ![r] = contracts]
    /\ pc' = [pc EXCEPT ![r] = "subjects"]
    /\ UNCHANGED <<db, todo, blocked, pairs, remaining, draft>>

\* The second read, the cases and sums the lock keeps still, and pass 1.
ReadSubjects(r) ==
    /\ pc[r] = "subjects"
    /\ LET us  == Unresolved(kind[r], seen[r])
           rem == Capacity(kind[r], seen[r])
       IN  /\ todo' = [todo EXCEPT ![r] = us]
           /\ remaining' = [remaining EXCEPT ![r] = rem]
           /\ blocked' = [blocked EXCEPT ![r] = Blocked(us, seen[r], rem)]
           /\ pairs' = [pairs EXCEPT ![r] = CanonicalPairs(us, seen[r], rem)]
    /\ pc' = [pc EXCEPT ![r] = "allocate"]
    /\ UNCHANGED <<db, writeLock, kind, seen, draft>>

\* Pass 2 takes the unresolved subjects in business order.
IsNext(r, s) ==
    s \in todo[r] /\ \A t \in todo[r] \ {s} : ProcessedBefore(s, t)

WriteCase(r, s, status, cands, task) ==
    LET id == <<s, r>>
    IN  draft' = [draft EXCEPT
          ![r].cases = @ \cup {[id |-> id, subject |-> s, status |-> status,
                                candidates |-> cands]},
          ![r].tasks = IF task THEN @ \cup {id} ELSE @]

LeaveToPeople(r, s, cands, task) ==
    /\ WriteCase(r, s, "HCR", cands, task)
    /\ UNCHANGED remaining

Allocate(r, s, c, method) ==
    LET id == <<s, r>>
        amount == subjects[s].amount
    IN  /\ remaining' = [remaining EXCEPT ![r][c] = @ - amount]
        /\ draft' = [draft EXCEPT
             ![r].cases = @ \cup {[id |-> id, subject |-> s, status |-> "AUTO",
                                   candidates |-> {c}]},
             ![r].allocations = @ \cup {[case |-> id, subject |-> s,
                                         contract |-> c, amount |-> amount,
                                         method |-> method, by |-> "AUTO"]},
             ![r].taken[c] = @ + amount]

Method(cands) == IF Cardinality(cands) > 1 THEN "CHRONOLOGICAL" ELSE "UNIQUE"

\* Chronology is needed only to choose, and never made up from a missing date.
ChronologyDefined(cs, open, s) ==
    subjects[s].date # 0 /\ \A c \in open : cs[c].date # 0

Decide(r, s, cands, open) ==
    \/ /\ cands = {}
       /\ WriteCase(r, s, "UNMATCHED", {}, FALSE)
       /\ UNCHANGED remaining
    \/ \E c \in cands : <<s, c>> \in pairs[r] /\ Allocate(r, s, c, "CANONICAL")
    \/ /\ s \in blocked[r] /\ \A c \in cands : <<s, c>> \notin pairs[r]
       /\ LeaveToPeople(r, s, cands, FALSE)
    \/ /\ s \notin blocked[r] /\ cands # {}
       /\ \/ open = {} /\ LeaveToPeople(r, s, cands, TRUE)
          \/ \E c \in open : open = {c} /\ Allocate(r, s, c, Method(cands))
          \/ /\ Cardinality(open) > 1 /\ ~ChronologyDefined(seen[r], open, s)
             /\ LeaveToPeople(r, s, cands, FALSE)
          \/ /\ Cardinality(open) > 1 /\ ChronologyDefined(seen[r], open, s)
             /\ \E c \in open : /\ \A d \in open \ {c} : Earlier(seen[r], c, d)
                                /\ Allocate(r, s, c, Method(cands))

DecideSubject(r, s) ==
    /\ pc[r] = "allocate"
    /\ IsNext(r, s)
    /\ Decide(r, s, Candidates(seen[r], s), Viable(seen[r], remaining[r], s))
    /\ todo' = [todo EXCEPT ![r] = @ \ {s}]
    /\ UNCHANGED <<db, writeLock, pc, kind, seen, blocked, pairs>>

CommitRun(r) ==
    /\ pc[r] = "allocate" /\ todo[r] = {}
    /\ cases' = cases \cup draft[r].cases
    /\ allocations' = allocations \cup draft[r].allocations
    /\ tasks' = tasks \cup draft[r].tasks
    /\ consumed' = [consumed EXCEPT ![kind[r]] =
                      [c \in ContractIds |-> @[c] + draft[r].taken[c]]]
    /\ EndRun(r, "done")
    /\ UNCHANGED <<contracts, subjects>>

\* A crash or an error anywhere before the commit rolls everything back.
Rollback(r) ==
    /\ pc[r] \in {"subjects", "allocate"}
    /\ EndRun(r, "idle")
    /\ UNCHANGED db

-----------------------------------------------------------------------------
(* People.                                                                 *)

\* A case of any status may be confirmed.
AwaitsPerson_Always(m) == TRUE
AwaitsPerson(m) == m.status = "HCR"

\* The method label is the same whatever the case's candidates were.
ConfirmedRow(m, c) ==
    [case |-> m.id, subject |-> m.subject, contract |-> c,
     amount |-> subjects[m.subject].amount, method |-> "UNIQUE", by |-> "HUMAN"]

ResolvedCase(m) == [m EXCEPT !.status = "RESOLVED"]

\* Any contract may be named, not only a candidate.
ConfirmMatch(m, c) ==
    LET f == subjects[m.subject]
    IN  /\ writeLock = None
        /\ AwaitsPerson(m)
        /\ contracts[c] # None
        /\ consumed[f.kind][c] + f.amount <= contracts[c].gross
        /\ allocations' = allocations \cup {ConfirmedRow(m, c)}
        /\ consumed' = [consumed EXCEPT ![f.kind][c] = @ + f.amount]
        /\ cases' = (cases \ {m}) \cup {ResolvedCase(m)}
        /\ UNCHANGED <<contracts, subjects, tasks, writeLock, local>>

\* A correction that does not take the write lock.
ReviseContract_WithoutLock(c, f) ==
    /\ contracts[c] # None /\ f # contracts[c]
    /\ f.party = contracts[c].party /\ f.no = contracts[c].no
    /\ contracts' = [contracts EXCEPT ![c] = f]
    /\ UNCHANGED <<subjects, cases, allocations, consumed, tasks, writeLock, local>>

\* A supplement or correction keeps the contract's identity.
ReviseContract(c, f) ==
    /\ writeLock = None
    /\ contracts[c] # None /\ f # contracts[c]
    /\ f.party = contracts[c].party /\ f.no = contracts[c].no
    /\ contracts' = [contracts EXCEPT ![c] = f]
    /\ UNCHANGED <<subjects, cases, allocations, consumed, tasks, writeLock, local>>

-----------------------------------------------------------------------------
ImportStep ==
    \/ \E c \in ContractIds, cf \in ContractFacts : Import(c, cf, None, None)
    \/ \E s \in SubjectIds, sf \in SubjectFacts : Import(None, None, s, sf)
    \/ \E c \in ContractIds, cf \in ContractFacts,
          s \in SubjectIds, sf \in SubjectFacts : Import(c, cf, s, sf)

RunStep(r) ==
    \/ \E k \in Kinds : StartRun(r, k)
    \/ ReadSubjects(r)
    \/ \E s \in todo[r] : DecideSubject(r, s)
    \/ CommitRun(r)
    \/ Rollback(r)

PeopleStep ==
    \/ \E m \in cases, c \in ContractIds : ConfirmMatch(m, c)
    \/ \E c \in ContractIds, f \in ContractFacts : ReviseContract(c, f)

Next == ImportStep \/ PeopleStep \/ \E r \in Runs : RunStep(r)

Spec == Init /\ [][Next]_vars

-----------------------------------------------------------------------------
(* Types.                                                                  *)

CaseIds == SubjectIds \X Runs
CaseRecords ==
    [id : CaseIds, subject : SubjectIds, candidates : SUBSET ContractIds,
     status : {"AUTO", "HCR", "RESOLVED", "UNMATCHED"}]
AllocationRecords ==
    [case : CaseIds, subject : SubjectIds, contract : ContractIds, amount : Nat,
     method : {"UNIQUE", "CHRONOLOGICAL", "CANONICAL"}, by : {"AUTO", "HUMAN"}]
Drafts ==
    [cases : SUBSET CaseRecords, allocations : SUBSET AllocationRecords,
     tasks : SUBSET CaseIds, taken : [ContractIds -> Nat]]

\* The shape of the tables and of a run's local variables.
TypeOK ==
    /\ contracts \in [ContractIds -> ContractRecords \cup {None}]
    /\ subjects \in [SubjectIds -> SubjectRecords \cup {None}]
    /\ cases \subseteq CaseRecords
    /\ allocations \subseteq AllocationRecords
    /\ consumed \in [Kinds -> [ContractIds -> Nat]]
    /\ tasks \subseteq CaseIds
    /\ writeLock \in Runs \cup {None}
    /\ pc \in [Runs -> {"idle", "subjects", "allocate", "done"}]
    /\ kind \in [Runs -> Kinds]
    /\ seen \in [Runs -> [ContractIds -> ContractRecords \cup {None}]]
    /\ todo \in [Runs -> SUBSET SubjectIds]
    /\ blocked \in [Runs -> SUBSET SubjectIds]
    /\ pairs \in [Runs -> SUBSET (SubjectIds \X ContractIds)]
    /\ remaining \in [Runs -> [ContractIds -> Int]]
    /\ draft \in [Runs -> Drafts]

-----------------------------------------------------------------------------
(* Properties of the committed ledger.                                     *)

\* Matching never allocates beyond a contract's gross amount: whenever the
\* sum allocated to a contract grows, whoever makes it grow, the new sum is
\* within the gross amount the contract has at that moment.  (The capacity
\* guards of _run_match_pass and confirm_match, and the lock they share.)
NeverOverAllocates ==
    [][\A k \in Kinds, c \in ContractIds :
        consumed'[k][c] > consumed[k][c] =>
            contracts'[c] # None /\ consumed'[k][c] <= contracts'[c].gross]_vars

\* What the capacity guard counts is what the allocation rows say.
Sums(k, c) ==
    MapThenSumSet(LAMBDA a : a.amount,
        {a \in allocations : a.contract = c /\ subjects[a.subject].kind = k})
AllocationsAddUp ==
    \A k \in Kinds, c \in ContractIds : consumed[k][c] = Sums(k, c)

\* A subject is put to at most one case, however many runs there are: a
\* second case would let its amount be allocated twice.
OneCasePerSubject ==
    \A m, n \in cases : m.subject = n.subject => m = n

\* A decided case has exactly one allocation, for the whole amount of its
\* subject, and says truthfully who decided it; a case waiting for a person,
\* or unmatched, has none.
CaseMatchesAllocation ==
    /\ \A m \in cases :
         LET rows == {a \in allocations : a.case = m.id}
         IN  Cardinality(rows) = IF m.status \in {"AUTO", "RESOLVED"} THEN 1 ELSE 0
    /\ \A a \in allocations : \E m \in cases :
         /\ m.id = a.case /\ m.subject = a.subject
         /\ a.amount = subjects[a.subject].amount
         /\ m.status = IF a.by = "AUTO" THEN "AUTO" ELSE "RESOLVED"

\* "A subject that already has a MatchCase of any status is never reconsidered
\* or reassigned": rows are only added, and a case only changes by a person
\* resolving it.
DecisionsAreFinal ==
    [][/\ allocations \subseteq allocations'
       /\ \A m \in cases :
            \/ m \in cases'
            \/ m.status = "HCR" /\ [m EXCEPT !.status = "RESOLVED"] \in cases'
      ]_vars

-----------------------------------------------------------------------------
(* Properties of what a run is about to commit.                            *)

RunSubjects(r) == todo[r] \cup {m.subject : m \in draft[r].cases}
Rivals(r, s) == Cohort(RunSubjects(r), s)
WasOpen(r, s) == Viable(seen[r], Capacity(kind[r], seen[r]), s)
Greedy(r) == {a \in draft[r].allocations : a.method # "CANONICAL"}

\* Uniqueness is never manufactured by the run's own order: an allocation that
\* is not canonical was either the only choice of the only claimant before the
\* run wrote anything, or every rival and every open contract had a date.
NoManufacturedUniqueness ==
    \A r \in Runs : \A a \in Greedy(r) :
        \/ Rivals(r, a.subject) = {a.subject} /\ WasOpen(r, a.subject) = {a.contract}
        \/ /\ \A t \in Rivals(r, a.subject) : subjects[t].date # 0
           /\ \A c \in WasOpen(r, a.subject) : seen[r][c].date # 0

\* Earlier subjects get earlier contracts: a contract that could have taken the
\* subject and precedes the one it got went to a rival dated no later.
ChronologyRespected ==
    \A r \in Runs : \A a \in Greedy(r) : \A d \in WasOpen(r, a.subject) :
        (d # a.contract /\ seen[r][d].date < seen[r][a.contract].date) =>
            \E b \in Greedy(r) :
                /\ b.contract = d
                /\ subjects[b.subject].date <= subjects[a.subject].date

\* A capacity task is raised only when every candidate really is too full:
\* work is not sent to people while a candidate could take the subject.
CapacityTaskMeansFull ==
    \A r \in Runs : \A id \in draft[r].tasks :
        \A c \in Candidates(seen[r], id[1]) :
            consumed[kind[r]][c] + draft[r].taken[c] + subjects[id[1]].amount
              > seen[r][c].gross

\* The canonical representation is complete: it pairs a whole cohort with the
\* whole pool of its candidates, one to one, or nobody.
CanonicalIsOneToOne ==
    \A r \in Runs : pc[r] = "allocate" /\ todo[r] = {} =>
        \A a \in draft[r].allocations : a.method = "CANONICAL" =>
            LET cohort == Rivals(r, a.subject)
                rows == {b \in draft[r].allocations : b.subject \in cohort}
            IN  /\ {b.subject : b \in rows} = cohort
                /\ {b.contract : b \in rows} = Candidates(seen[r], a.subject)
                /\ Cardinality(rows) = Cardinality(cohort)

-----------------------------------------------------------------------------
(* Why the ledger properties hold, one conjunct per reason.                *)

Reading(r) == pc[r] \in {"subjects", "allocate"}

\* A run holds the lock from its first read on, and has no draft before pass 2.
LockHeld == \A r \in Runs : Reading(r) => writeLock = r
NothingBeforePass2 ==
    \A r \in Runs : pc[r] # "allocate" => draft[r] = NoDraft /\ todo[r] = {}

\* What a run has read of a contract is still what the contract says.
SnapshotCurrent ==
    \A r \in Runs : Reading(r) =>
        \A c \in ContractIds : seen[r][c] # None => seen[r][c] = contracts[c]

\* The in-memory capacity is the ledger's, less what the draft takes.
RemainingIsCapacity ==
    \A r \in Runs : pc[r] = "allocate" => \A c \in ContractIds : seen[r][c] # None =>
        remaining[r][c] = seen[r][c].gross - consumed[kind[r]][c] - draft[r].taken[c]

DraftFits ==
    \A r \in Runs : pc[r] = "allocate" => \A c \in ContractIds :
        draft[r].taken[c] > 0 => seen[r][c] # None /\ remaining[r][c] >= 0

\* A contract set aside for a canonical pair is kept for it: it has room, it is
\* in no other pair, and no subject outside the pair's cohort can want it.
PairKept(r, s, c) ==
    /\ seen[r][c] # None /\ subjects[s].amount <= remaining[r][c]
    /\ \A t \in todo[r] : /\ <<t, c>> \in pairs[r] => t = s
                          /\ c \in Candidates(seen[r], t) => t \in blocked[r]
PairsKept ==
    \A r \in Runs : pc[r] = "allocate" =>
        \A s \in todo[r], c \in ContractIds : <<s, c>> \in pairs[r] => PairKept(r, s, c)

SubjectsExist ==
    /\ \A m \in cases : subjects[m.subject] # None
    /\ \A r \in Runs : \A s \in todo[r] : subjects[s] # None
    /\ \A r \in Runs : \A m \in draft[r].cases : subjects[m.subject] # None

\* A run decides each subject once, and only subjects nobody has decided.
DecidedOnce ==
    \A r \in Runs :
        /\ \A s \in todo[r] : ~Resolved(s)
        /\ \A m \in draft[r].cases : m.subject \notin todo[r] /\ ~Resolved(m.subject)
        /\ \A m, n \in draft[r].cases : m.subject = n.subject => m = n

\* The inductive invariant.
IInv ==
    /\ TypeOK /\ LockHeld /\ NothingBeforePass2 /\ SnapshotCurrent
    /\ RemainingIsCapacity /\ DraftFits /\ PairsKept /\ SubjectsExist
    /\ DecidedOnce /\ OneCasePerSubject

-----------------------------------------------------------------------------
(* What the repository says and the code does not do.                      *)

=============================================================================
