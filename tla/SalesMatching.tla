--------------------------- MODULE SalesMatching ---------------------------
(***************************************************************************)
(* Sales-side manual matching: a person proposes candidate sales contracts *)
(* for an invoice (or an incoming payment), and a person confirms the case *)
(* with the whole set of <<target, amount>> allocations.                   *)
(*                                                                         *)
(* Two things keep concurrent commands apart, and the dialect decides      *)
(* which one acts.  PostgreSQL: acquire_serialization_lock, from the first *)
(* statement to the commit.  SQLite: that call does nothing, every read is *)
(* a transaction of its own, and the database's single write lock is taken *)
(* by the first INSERT or UPDATE; what was read before may be stale, and   *)
(* only the WHERE clauses of the writing statements protect the tables.    *)
(*                                                                         *)
(* Invoices and payments are twins in the code, and one kind of subject    *)
(* here.  Commands naming a subject of the other leg, an unknown sales     *)
(* contract or an amount that cannot be stored raise before they write.    *)
(***************************************************************************)
EXTENDS Naturals, Functions, FiniteSets

CONSTANTS
    Subjects,    \* SALES invoices and IN payments
    Amount,      \* Amount[j]: gross_amount of the invoice, amount of the payment
    Targets,     \* sales contracts
    Proposals,   \* the candidate sets people propose
    Submissions, \* the allocation sets people confirm: targets -> amounts
    CaseIds,     \* the pool of match case ids (a bound: no id, no insert)
    Persons,     \* sessions of people using the CLI
    None

ASSUME AmountAssumption == Amount \in [Subjects -> Nat]
ASSUME ProposalsAssumption == Proposals \subseteq SUBSET Targets \ {{}}
ASSUME SubmissionsAssumption ==
    \A submission \in Submissions :
        /\ DOMAIN submission \in SUBSET Targets \ {{}}
        /\ submission \in [DOMAIN submission -> Nat \ {0}]
ASSUME TargetsAssumption == IsFiniteSet(Targets) /\ IsFiniteSet(CaseIds)
ASSUME NoneAssumption == None \notin Persons \cup Subjects

Commands == [op : {"propose"}, subject : Subjects, candidates : Proposals]
            \cup [op : {"confirm"}, case : CaseIds, submission : Submissions]

VARIABLES
    dialect, \* "postgresql" or "sqlite"; never changes
    db,      \* the committed tables: cases (with their candidates), allocations
    draft,   \* the tables as the writer sees them
    writer,  \* holder of the advisory lock (PostgreSQL) or write lock (SQLite)
    pc,      \* pc[s]: the next statement of session s
    cmd,     \* cmd[s]: the command it executes
    left,    \* left[s]: the targets whose rows it has still to insert
    told     \* told[s]: the last answer s was given

vars == <<dialect, db, draft, writer, pc, cmd, left, told>>

-----------------------------------------------------------------------------
(* The tables.                                                             *)

NoCase == [subject |-> None, status |-> "NONE", candidates |-> {}]
NoRows == [t \in Targets |-> 0]

View(s) == IF writer = s THEN draft ELSE db

CasesOf(tables, j) == {c \in CaseIds : tables.cases[c].subject = j}
Pending(tables, c) == tables.cases[c].status = "HUMAN_CONFIRMATION_REQUIRED"

Total(rows) == SumFunction(rows)
\* sum_for_invoice, sum_for_payment: all allocations of the subject.
SumFor(tables, j) == Total([c \in CasesOf(tables, j) |-> Total(tables.allocations[c])])

\* Forgets the amount that is about to be added.
Fits_Before(tables, j, amount) == SumFor(tables, j) <= Amount[j]
Fits(tables, j, amount) == SumFor(tables, j) + amount <= Amount[j]

\* SQLite adds amounts as floating point numbers: a sum that is exactly the
\* amount may come out above it.
RoundsUp(tables, j, amount) ==
    /\ dialect = "sqlite" /\ SumFor(tables, j) # 0
    /\ SumFor(tables, j) + amount = Amount[j]

\* The allocations a submission asks for, as rows.
Rows(submission) ==
    [t \in Targets |-> IF t \in DOMAIN submission THEN submission[t] ELSE 0]

-----------------------------------------------------------------------------
Init ==
    /\ dialect \in {"postgresql", "sqlite"}
    /\ db = [cases |-> [c \in CaseIds |-> NoCase], allocations |-> [c \in CaseIds |-> NoRows]]
    /\ draft = db
    /\ writer = None
    /\ pc = [s \in Persons |-> "idle"]
    /\ cmd = [s \in Persons |-> None]
    /\ left = [s \in Persons |-> {}]
    /\ told = [s \in Persons |-> None]

Submit(s, command) ==
    /\ pc[s] = "idle"
    /\ pc' = [pc EXCEPT ![s] = "begin"]
    /\ cmd' = [cmd EXCEPT ![s] = command]
    /\ told' = [told EXCEPT ![s] = None]
    /\ UNCHANGED <<dialect, db, draft, writer, left>>

\* A command ends, and with it its transaction; rows it has not committed
\* vanish (the draft is what the next writer finds).
End(s, answer) ==
    /\ writer' = IF writer = s THEN None ELSE writer
    /\ draft' = IF writer = s THEN db ELSE draft
    /\ pc' = [pc EXCEPT ![s] = "idle"]
    /\ cmd' = [cmd EXCEPT ![s] = None]
    /\ left' = [left EXCEPT ![s] = {}]
    /\ told' = [told EXCEPT ![s] = answer]
    /\ UNCHANGED <<dialect, db>>
Answer(s, outcome) == End(s, [command |-> cmd[s], outcome |-> outcome])
Continue(s, next)  == pc' = [pc EXCEPT ![s] = next] /\ UNCHANGED <<dialect, cmd, told>>

MayWrite(s) == writer \in {None, s}

\* On SQLite the lock is a no-op.
Begin(s) ==
    /\ pc[s] = "begin"
    /\ dialect = "postgresql" => writer = None
    /\ writer' = IF dialect = "postgresql" THEN s ELSE writer
    /\ Continue(s, "read") /\ UNCHANGED <<db, draft, left>>

\* lock_timeout; on SQLite the busy_timeout of the first statement that
\* writes, or, in a confirmation, a commit since the savepoint's first read.
Busy(s) ==
    /\ \/ dialect = "postgresql" /\ pc[s] = "begin" /\ ~MayWrite(s)
       \/ dialect = "sqlite" /\ pc[s] = "insert" /\ ~MayWrite(s)
       \/ dialect = "sqlite" /\ pc[s] = "allocate" /\ writer # s
    /\ Answer(s, "busy")

-----------------------------------------------------------------------------
(* Proposals.                                                              *)

\* Any existing case is taken for a replay.
ProposalOutcome_AnyCase(tables, c, candidates) == "replay"
ProposalOutcome(tables, c, candidates) ==
    IF tables.cases[c].candidates = candidates THEN "replay" ELSE "conflict"

ProposeExisting(s) ==
    /\ \/ pc[s] = "read" /\ cmd[s].op = "propose"
       \/ pc[s] = "insert" /\ MayWrite(s)
    /\ \E c \in CasesOf(View(s), cmd[s].subject) :
          Answer(s, ProposalOutcome(View(s), c, cmd[s].candidates))

ProposeNew(s) ==
    /\ pc[s] = "read" /\ cmd[s].op = "propose"
    /\ CasesOf(View(s), cmd[s].subject) = {}
    /\ Continue(s, "insert") /\ UNCHANGED <<db, draft, writer, left>>

NewCase(j, candidates) ==
    [subject |-> j, status |-> "HUMAN_CONFIRMATION_REQUIRED", candidates |-> candidates]

\* A new proposal takes the place of the subject's case.
InsertCase_Replaces(s) ==
    /\ pc[s] = "insert" /\ MayWrite(s)
    /\ \E c \in CaseIds :
        /\ View(s).cases[c] = NoCase \/ c \in CasesOf(View(s), cmd[s].subject)
        /\ draft' = [View(s) EXCEPT !.cases[c] = NewCase(cmd[s].subject, cmd[s].candidates)]
    /\ writer' = s
    /\ Continue(s, "commit") /\ UNCHANGED <<db, left>>

\* add_if_no_case_for_subject: INSERT ... WHERE NOT EXISTS, then the
\* candidates, in the same transaction.
InsertCase(s) ==
    /\ pc[s] = "insert" /\ MayWrite(s)
    /\ CasesOf(View(s), cmd[s].subject) = {}
    /\ \E c \in CaseIds :
        /\ View(s).cases[c] = NoCase
        /\ draft' = [View(s) EXCEPT !.cases[c] = NewCase(cmd[s].subject, cmd[s].candidates)]
    /\ writer' = s
    /\ Continue(s, "commit") /\ UNCHANGED <<db, left>>

-----------------------------------------------------------------------------
(* Confirmations.                                                          *)

ConfirmUnknown(s) ==
    /\ pc[s] = "read" /\ cmd[s].op = "confirm"
    /\ View(s).cases[cmd[s].case] = NoCase
    /\ Answer(s, "rejected")

ConfirmResolved(s) ==
    /\ pc[s] = "read" /\ cmd[s].op = "confirm"
    /\ View(s).cases[cmd[s].case].status = "RESOLVED"
    /\ Answer(s, IF View(s).allocations[cmd[s].case] = Rows(cmd[s].submission)
                 THEN "replay" ELSE "conflict")

ConfirmPending(s) ==
    /\ pc[s] = "read" /\ cmd[s].op = "confirm"
    /\ Pending(View(s), cmd[s].case)
    /\ Continue(s, "sum") /\ UNCHANGED <<db, draft, writer, left>>

SubjectOf(s) == View(s).cases[cmd[s].case].subject

CheckSum(s) ==
    /\ pc[s] = "sum"
    /\ IF Fits(View(s), SubjectOf(s), Total(cmd[s].submission))
       THEN /\ left' = [left EXCEPT ![s] = DOMAIN cmd[s].submission]
            /\ Continue(s, "allocate") /\ UNCHANGED <<db, draft, writer>>
       ELSE Answer(s, "rejected")

\* Every row is committed as it is inserted.
AllocateRow_AutoCommit(s) ==
    /\ pc[s] = "allocate" /\ MayWrite(s)
    /\ Pending(View(s), cmd[s].case)
    /\ \E t \in left[s] :
        /\ draft' = [View(s) EXCEPT !.allocations[cmd[s].case][t] = @ + cmd[s].submission[t]]
        /\ left' = [left EXCEPT ![s] = @ \ {t}]
    /\ db' = draft' /\ writer' = s
    /\ Continue(s, "allocate")

\* One INSERT ... WHERE the case is pending AND the amount fits.
AllocateRow(s) ==
    /\ pc[s] = "allocate" /\ MayWrite(s)
    /\ Pending(View(s), cmd[s].case)
    /\ \E t \in left[s] :
        /\ Fits(View(s), SubjectOf(s), cmd[s].submission[t])
        /\ draft' = [View(s) EXCEPT !.allocations[cmd[s].case][t] = @ + cmd[s].submission[t]]
        /\ left' = [left EXCEPT ![s] = @ \ {t}]
    /\ writer' = s
    /\ Continue(s, "allocate") /\ UNCHANGED db

\* The INSERT wrote no row: roll back to the savepoint, and raise.
NotAllocated(s) ==
    /\ pc[s] = "allocate" /\ MayWrite(s)
    /\ \E t \in left[s] :
          \/ ~Pending(View(s), cmd[s].case)
          \/ ~Fits(View(s), SubjectOf(s), cmd[s].submission[t])
          \/ RoundsUp(View(s), SubjectOf(s), cmd[s].submission[t])
    /\ Answer(s, IF Pending(View(s), cmd[s].case) THEN "rejected" ELSE "conflict")

\* resolve_if_pending; the case cannot have been resolved since the inserts.
Resolve(s) ==
    /\ pc[s] = "allocate" /\ left[s] = {} /\ MayWrite(s)
    /\ Pending(View(s), cmd[s].case)
    /\ draft' = [View(s) EXCEPT !.cases[cmd[s].case].status = "RESOLVED"]
    /\ writer' = s
    /\ Continue(s, "commit") /\ UNCHANGED <<db, left>>

-----------------------------------------------------------------------------
\* On SQLite the RELEASE of a confirmation's savepoint, the outermost one,
\* commits already; nothing can come between it and the caller's commit.
Commit(s) ==
    /\ pc[s] = "commit"
    /\ db' = draft /\ writer' = None
    /\ Continue(s, "tell") /\ UNCHANGED <<draft, left>>

Tell(s) == pc[s] = "tell" /\ Answer(s, "created")

\* The process dies; nobody is told anything.
Crash(s) == pc[s] # "idle" /\ End(s, None)

Step(s) ==
    \/ Begin(s) \/ Busy(s)
    \/ ProposeExisting(s) \/ ProposeNew(s) \/ InsertCase(s)
    \/ ConfirmUnknown(s) \/ ConfirmResolved(s) \/ ConfirmPending(s)
    \/ CheckSum(s) \/ AllocateRow(s) \/ NotAllocated(s) \/ Resolve(s)
    \/ Commit(s) \/ Tell(s)

Next ==
    \/ \E s \in Persons, command \in Commands : Submit(s, command)
    \/ \E s \in Persons : Step(s) \/ Crash(s)

Spec == Init /\ [][Next]_vars

-----------------------------------------------------------------------------
(* Properties.                                                             *)

Cases == [subject : Subjects, status : {"HUMAN_CONFIRMATION_REQUIRED", "RESOLVED"},
          candidates : SUBSET Targets]
Tables == [cases : [CaseIds -> Cases \cup {NoCase}], allocations : [CaseIds -> [Targets -> Nat]]]
Answers == [command : Commands,
            outcome : {"created", "replay", "conflict", "rejected", "busy"}]

TypeOK ==
    /\ dialect \in {"postgresql", "sqlite"}
    /\ db \in Tables /\ draft \in Tables
    /\ writer \in Persons \cup {None}
    /\ pc \in [Persons -> {"idle", "begin", "read", "insert", "sum", "allocate", "commit", "tell"}]
    /\ cmd \in [Persons -> Commands \cup {None}]
    /\ left \in [Persons -> SUBSET Targets]
    /\ told \in [Persons -> Answers \cup {None}]

IsResolved(tables, c) == tables.cases[c].status = "RESOLVED"

OneCase(tables) ==
    \A c, d \in CaseIds :
        tables.cases[c] # NoCase /\ tables.cases[c].subject = tables.cases[d].subject => c = d

Whole(tables, c) ==
    IF IsResolved(tables, c)
    THEN \E submission \in Submissions : tables.allocations[c] = Rows(submission)
    ELSE tables.allocations[c] = NoRows

\* A stored case keeps its subject and candidates, and a resolved case its
\* allocations.
Keeps(tables, later) ==
    \A c \in CaseIds :
        /\ tables.cases[c] # NoCase =>
             /\ later.cases[c].subject = tables.cases[c].subject
             /\ later.cases[c].candidates = tables.cases[c].candidates
        /\ IsResolved(tables, c) =>
             /\ later.cases[c] = tables.cases[c]
             /\ later.allocations[c] = tables.allocations[c]

ProposalAnswered(tables, command, outcome) ==
    /\ outcome \in {"created", "replay"} =>
         \E c \in CasesOf(tables, command.subject) : tables.cases[c].candidates = command.candidates
    /\ outcome = "conflict" =>
         \E c \in CasesOf(tables, command.subject) : tables.cases[c].candidates # command.candidates

ConfirmationAnswered(tables, command, outcome) ==
    /\ outcome \in {"created", "replay"} =>
         /\ IsResolved(tables, command.case)
         /\ tables.allocations[command.case] = Rows(command.submission)
    /\ outcome = "conflict" => IsResolved(tables, command.case)

Answered(tables, command, outcome) ==
    IF command.op = "propose"
    THEN ProposalAnswered(tables, command, outcome)
    ELSE ConfirmationAnswered(tables, command, outcome)

\* A subject has at most one case on the sales leg, whoever proposes at the
\* same time.  On SQLite nothing but the INSERT's own condition
\* (add_if_no_case_for_subject) prevents a second one.
OneCasePerSubject == OneCase(db)

\* A case is resolved by one person's whole submission: it has no allocation
\* before, and never a part, a mixture or a repetition of submissions, however
\* the inserts, lost races and crashes of a confirmation interleave.
WholeSubmissions == \A c \in CaseIds : Whole(db, c)

\* What the INSERT's capacity condition and the sum before it are for: no
\* subject is allocated beyond its amount.
WithinAmount == \A j \in Subjects : SumFor(db, j) <= Amount[j]

\* What a person is told of a proposal or a confirmation (created, replay,
\* conflict) is so, and stays so whatever others do.
AnswersTrue ==
    \A s \in Persons : told[s] # None => Answered(db, told[s].command, told[s].outcome)

\* No step rewrites what is decided: "never silently appends a second
\* authoritative set" (_replay_or_conflict_proposal and its confirming twin).
Final == [][Keeps(db, db')]_vars

-----------------------------------------------------------------------------
(* The inductive invariant: what every running command may rely on.        *)

\* The rows a confirmation has inserted so far.
Inserted(s) ==
    [t \in Targets |-> IF t \in DOMAIN cmd[s].submission \ left[s]
                       THEN cmd[s].submission[t] ELSE 0]

CommandsOK ==
    \A s \in Persons :
        /\ pc[s] # "idle" => cmd[s] \in Commands
        /\ pc[s] = "insert" => cmd[s].op = "propose"
        /\ pc[s] \in {"sum", "allocate"} =>
             cmd[s].op = "confirm" /\ db.cases[cmd[s].case] # NoCase

\* Only the writer's rows differ from the committed ones, and only after its
\* first INSERT.
WriterOK ==
    /\ writer = None => draft = db
    /\ \A s \in Persons :
          /\ writer = s => pc[s] \in {"read", "insert", "sum", "allocate", "commit"}
          /\ writer = s /\ pc[s] \in {"read", "insert", "sum"} => draft = db
          /\ pc[s] = "commit" => writer = s

AllocatingOK ==
    \A s \in Persons : pc[s] = "allocate" =>
        /\ left[s] \subseteq DOMAIN cmd[s].submission
        /\ writer # s => left[s] = DOMAIN cmd[s].submission
        /\ writer = s =>
             /\ draft.cases = db.cases
             /\ \A c \in CaseIds : c # cmd[s].case => draft.allocations[c] = db.allocations[c]
             /\ Pending(draft, cmd[s].case) => draft.allocations[cmd[s].case] = Inserted(s)

\* What a command is about to commit, and what it has committed.
CommitOK ==
    \A s \in Persons :
        /\ pc[s] = "commit" =>
             /\ OneCase(draft) /\ (\A c \in CaseIds : Whole(draft, c)) /\ Keeps(db, draft)
             /\ Answered(draft, cmd[s], "created")
        /\ pc[s] = "tell" => Answered(db, cmd[s], "created")

IInv ==
    /\ TypeOK /\ CommandsOK /\ WriterOK /\ AllocatingOK /\ CommitOK
    /\ OneCasePerSubject /\ WholeSubmissions /\ AnswersTrue

=============================================================================
