-------------------------- MODULE InvoicingProofs --------------------------
(***************************************************************************)
(* The two components around invoices: what a confirmation of sales        *)
(* matching may write, in both dialects (Spec), and what the invoice       *)
(* preparation page may say (PageSpec), for every value of the constants.  *)
(* They share no variable: a theorem is about one of them.                 *)
(***************************************************************************)
EXTENDS SalesMatching, InvoicePreparation, SumTheorems

-----------------------------------------------------------------------------
(* Sales matching: one case per subject, whole submissions, true answers,  *)
(* final decisions and amounts, for any number of persons, subjects, cases.*)

-----------------------------------------------------------------------------
(* Commands and tables.                                                    *)

LEMMA CommandFields ==
    ASSUME NEW command \in Commands
    PROVE  /\ command.op \in {"propose", "confirm"}
           /\ command.op = "propose" => /\ command.subject \in Subjects
                                        /\ command.candidates \in Proposals
           /\ command.op = "confirm" => /\ command.case \in CaseIds
                                        /\ command.submission \in Submissions
  BY SMT DEF Commands

LEMMA SubjectsAreNotNone == None \notin Subjects /\ None \notin Persons
  BY NoneAssumption

LEMMA ProposalTypes ==
    ASSUME NEW p \in Proposals
    PROVE  p \in SUBSET Targets
  BY ProposalsAssumption

LEMMA SubmissionTypes ==
    ASSUME NEW a \in Submissions
    PROVE  /\ DOMAIN a \subseteq Targets
           /\ \A t \in DOMAIN a : a[t] \in Nat
           /\ Rows(a) \in [Targets -> Nat]
<1>1. DOMAIN a \subseteq Targets
  BY SubmissionsAssumption
<1>2. \A t \in DOMAIN a : a[t] \in Nat
  BY SubmissionsAssumption
<1>3. Rows(a) \in [Targets -> Nat]
  BY <1>1, <1>2 DEF Rows
<1>4. QED  BY <1>1, <1>2, <1>3

LEMMA TableFields ==
    ASSUME NEW T \in Tables
    PROVE  /\ \A c \in CaseIds : T.cases[c] \in Cases \cup {NoCase}
           /\ T.cases \in [CaseIds -> Cases \cup {NoCase}]
           /\ T.allocations \in [CaseIds -> [Targets -> Nat]]
  BY DEF Tables

\* A case that has a subject or is pending is stored.
LEMMA StoredCase ==
    ASSUME NEW T \in Tables, NEW c \in CaseIds
    PROVE  /\ T.cases[c].subject \in Subjects => T.cases[c] # NoCase
           /\ T.cases[c] # NoCase => T.cases[c] \in Cases
           /\ Pending(T, c) => T.cases[c] # NoCase /\ ~IsResolved(T, c)
           /\ T.cases[c] # NoCase /\ ~Pending(T, c) => IsResolved(T, c)
           /\ IsResolved(T, c) => T.cases[c] # NoCase
<1>1. T.cases[c] \in Cases \cup {NoCase}
  BY TableFields
<1>2. NoCase.subject = None /\ NoCase.status = "NONE"
  BY DEF NoCase
<1>3. T.cases[c].subject \in Subjects => T.cases[c] # NoCase
  BY <1>2, SubjectsAreNotNone
<1>4. Pending(T, c) => T.cases[c] # NoCase /\ ~IsResolved(T, c)
  BY <1>2 DEF Pending, IsResolved
<1>5. T.cases[c] # NoCase /\ ~Pending(T, c) => IsResolved(T, c)
  BY <1>1 DEF Pending, IsResolved, Cases
<1>6. IsResolved(T, c) => T.cases[c] # NoCase
  BY <1>2 DEF IsResolved
<1>7. QED  BY <1>1, <1>3, <1>4, <1>5, <1>6

LEMMA KeepsItself ==
    ASSUME NEW T
    PROVE  Keeps(T, T)
  BY DEF Keeps

\* What was answered truly stays true of tables that keep what was stored.
LEMMA KeepsAnswers ==
    ASSUME NEW T \in Tables, NEW U, Keeps(T, U),
           NEW command \in Commands, NEW outcome, Answered(T, command, outcome)
    PROVE  Answered(U, command, outcome)
<1>1. CASE command.op = "propose"
  <2>1. command.subject \in Subjects
    BY <1>1, CommandFields
  <2>2. ASSUME NEW c \in CasesOf(T, command.subject)
        PROVE  c \in CasesOf(U, command.subject) /\ U.cases[c].candidates = T.cases[c].candidates
    <3>1. c \in CaseIds /\ T.cases[c].subject = command.subject
      BY DEF CasesOf
    <3>2. T.cases[c] # NoCase
      BY <2>1, <3>1, StoredCase
    <3>3. QED  BY <3>1, <3>2 DEF Keeps, CasesOf
  <2>3. ProposalAnswered(T, command, outcome)
    BY <1>1 DEF Answered
  <2>4. ProposalAnswered(U, command, outcome)
    BY <2>2, <2>3 DEF ProposalAnswered
  <2>5. QED  BY <1>1, <2>4 DEF Answered
<1>2. CASE command.op = "confirm"
  <2>1. command.case \in CaseIds
    BY <1>2, CommandFields
  <2>2. ConfirmationAnswered(T, command, outcome)
    BY <1>2 DEF Answered
  <2>3. ConfirmationAnswered(U, command, outcome)
    BY <2>1, <2>2 DEF ConfirmationAnswered, Keeps, IsResolved
  <2>4. QED  BY <1>2, <2>3 DEF Answered
<1>3. QED  BY <1>1, <1>2, CommandFields

-----------------------------------------------------------------------------
(* What a subject is allocated.                                            *)

Within(tables) == \A j \in Subjects : SumFor(tables, j) <= Amount[j]

LEMMA TotalTyped ==
    /\ Total(NoRows) = 0
    /\ \A rows \in [Targets -> Nat] : Total(rows) \in Nat
<1>1. IsFiniteSet(Targets)
  BY TargetsAssumption
<1>2. ASSUME NEW rows \in [Targets -> Nat]
      PROVE  Total(rows) = SumOver(rows, Targets) /\ Total(rows) \in Nat
  BY <1>1, SumOfFunction, SumNatural DEF Total
<1>3. NoRows \in [Targets -> Nat] /\ \A t \in Targets : NoRows[t] = 0
  BY DEF NoRows
<1>4. SumOver(NoRows, Targets) = 0
  BY <1>1, <1>3, SumZero
<1>5. QED  BY <1>2, <1>3, <1>4

\* Adding to one row adds to the total.
LEMMA TotalAdds ==
    ASSUME NEW rows \in [Targets -> Nat], NEW t \in Targets, NEW n \in Nat
    PROVE  Total([rows EXCEPT ![t] = @ + n]) = Total(rows) + n
<1> DEFINE more == [rows EXCEPT ![t] = @ + n]
<1>1. /\ more \in [Targets -> Nat] /\ more[t] = rows[t] + n
      /\ \A u \in Targets : u # t => rows[u] = more[u]
  OBVIOUS
<1>2. \A u \in Targets : rows[u] \in Int /\ more[u] \in Int
  BY <1>1
<1>3. IsFiniteSet(Targets)
  BY TargetsAssumption
<1> HIDE DEF more
<1>4. SumOver(more, Targets) + rows[t] = SumOver(rows, Targets) + more[t]
  BY <1>1, <1>2, <1>3, SumChange
<1>5. Total(more) = SumOver(more, Targets) /\ Total(rows) = SumOver(rows, Targets)
  BY <1>1, SumOfFunction DEF Total
<1>6. Total(more) \in Nat /\ Total(rows) \in Nat /\ rows[t] \in Nat
  BY <1>1, TotalTyped
<1>7. Total(more) = Total(rows) + n
  BY <1>1, <1>4, <1>5, <1>6
<1>8. QED  BY <1>7 DEF more

\* What the cases of a subject are allocated, case by case.
Shares(T, j) == [c \in CasesOf(T, j) |-> Total(T.allocations[c])]

LEMMA SumForShares ==
    ASSUME NEW T \in Tables, NEW j
    PROVE  /\ SumFor(T, j) = SumOver(Shares(T, j), CasesOf(T, j))
           /\ IsFiniteSet(CasesOf(T, j)) /\ CasesOf(T, j) \subseteq CaseIds
           /\ \A c \in CasesOf(T, j) : /\ Shares(T, j)[c] = Total(T.allocations[c])
                                       /\ Shares(T, j)[c] \in Nat
           /\ SumFor(T, j) \in Nat
<1>1. SumFor(T, j) = SumOver(Shares(T, j), CasesOf(T, j))
  <2>1. DOMAIN Shares(T, j) = CasesOf(T, j)
    BY DEF Shares
  <2>2. SumFor(T, j) = SumFunction(Shares(T, j))
    BY DEF SumFor, Shares, Total
  <2>3. QED  BY <2>1, <2>2, SumOfFunction
<1>2. CasesOf(T, j) \in SUBSET CaseIds
  BY DEF CasesOf
<1>3. IsFiniteSet(CasesOf(T, j))
  BY <1>2, TargetsAssumption, FS_Subset
<1>4. ASSUME NEW c \in CasesOf(T, j)
      PROVE  Shares(T, j)[c] = Total(T.allocations[c]) /\ Shares(T, j)[c] \in Nat
  BY <1>2, TableFields, TotalTyped DEF Shares
<1>5. SumFor(T, j) \in Nat
  BY <1>1, <1>3, <1>4, SumNatural
<1>6. QED  BY <1>1, <1>2, <1>3, <1>4, <1>5

\* Tables in which a subject has the same cases with the same allocations.
LEMMA SameSum ==
    ASSUME NEW T, NEW U, NEW j, CasesOf(T, j) = CasesOf(U, j),
           \A c \in CasesOf(T, j) : T.allocations[c] = U.allocations[c]
    PROVE  SumFor(T, j) = SumFor(U, j)
<1>1. [c \in CasesOf(T, j) |-> Total(T.allocations[c])] = [c \in CasesOf(U, j) |-> Total(U.allocations[c])]
  OBVIOUS
<1>2. QED  BY <1>1 DEF SumFor

\* A case without allocations adds nothing to its subject's.
LEMMA EmptyCaseAddsNothing ==
    ASSUME NEW T \in Tables, NEW U \in Tables, NEW j, NEW c \in CaseIds,
           c \notin CasesOf(T, j), CasesOf(U, j) = CasesOf(T, j) \cup {c},
           U.allocations = T.allocations, U.allocations[c] = NoRows
    PROVE  SumFor(U, j) = SumFor(T, j)
<1> DEFINE S == CasesOf(T, j)
           f == Shares(T, j)
           g == Shares(U, j)
<1>1. \A d \in S : f[d] = g[d] /\ g[d] \in Int
  BY SumForShares
<1>2. g[c] = 0
  BY SumForShares, TotalTyped
<1>3. SumFor(T, j) = SumOver(f, S) /\ SumFor(U, j) = SumOver(g, S \cup {c}) /\ IsFiniteSet(S)
      /\ c \notin S
  BY SumForShares
<1>4. SumFor(T, j) \in Nat
  BY SumForShares
<1> HIDE DEF S, f, g
<1>5. SumOver(g, S \cup {c}) = g[c] + SumOver(g, S)
  <2>1. (\A d \in S : g[d] \in Int) /\ g[c] \in Int /\ c \notin S /\ IsFiniteSet(S)
    BY <1>1, <1>2, <1>3
  <2>2. QED  BY <2>1, SumWith, ZenonT(60)
<1>6. SumOver(g, S) = SumOver(f, S)
  BY <1>1, <1>3, SumAgree
<1>7. QED  BY <1>2, <1>3, <1>4, <1>5, <1>6

\* An inserted row adds its amount to the subject of its case.
LEMMA RowAdds ==
    ASSUME NEW T \in Tables, NEW U \in Tables, NEW j, NEW c \in CasesOf(T, j),
           NEW t \in Targets, NEW n \in Nat, U.cases = T.cases,
           U.allocations = [T.allocations EXCEPT ![c] = [T.allocations[c] EXCEPT ![t] = @ + n]]
    PROVE  SumFor(U, j) = SumFor(T, j) + n
<1> DEFINE S == CasesOf(T, j)
           f == Shares(T, j)
           g == Shares(U, j)
<1>1. CasesOf(U, j) = S
  BY DEF CasesOf
<1>2. c \in CaseIds /\ T.allocations \in [CaseIds -> [Targets -> Nat]]
  BY TableFields DEF CasesOf
<1>3. /\ \A d \in S : f[d] = Total(T.allocations[d]) /\ f[d] \in Nat
      /\ \A d \in S : g[d] = Total(U.allocations[d]) /\ g[d] \in Nat
      /\ SumFor(T, j) = SumOver(f, S) /\ SumFor(U, j) = SumOver(g, S)
      /\ IsFiniteSet(S) /\ S \subseteq CaseIds /\ SumFor(T, j) \in Nat /\ SumFor(U, j) \in Nat
  BY <1>1, SumForShares
<1>4. \A d \in S : d # c => f[d] = g[d]
  BY <1>2, <1>3
<1>5. g[c] = f[c] + n
  <2>1. U.allocations[c] = [T.allocations[c] EXCEPT ![t] = @ + n]
    BY <1>2
  <2>2. T.allocations[c] \in [Targets -> Nat]
    BY <1>2
  <2>3. Total(U.allocations[c]) = Total(T.allocations[c]) + n
    BY <2>1, <2>2, TotalAdds
  <2>4. QED  BY <1>3, <2>3
<1>6. c \in S /\ \A d \in S : f[d] \in Int /\ g[d] \in Int
  BY <1>3
<1> HIDE DEF S, f, g
<1>7. SumOver(g, S) + f[c] = SumOver(f, S) + g[c]
  BY <1>3, <1>4, <1>6, SumChange
<1>8. f[c] \in Nat
  BY <1>3, <1>6
<1>9. QED  BY <1>3, <1>5, <1>7, <1>8

-----------------------------------------------------------------------------
(* What a statement reads.                                                 *)

LEMMA ReadsCommitted ==
    ASSUME IInv, NEW s \in Persons, pc[s] \in {"read", "insert", "sum"}
    PROVE  View(s) = db
  BY DEF IInv, WriterOK, View

LEMMA ViewIsTables ==
    ASSUME TypeOK, NEW s \in Persons
    PROVE  View(s) \in Tables
  BY DEF TypeOK, View

-----------------------------------------------------------------------------
(* A command that ends, for whatever reason, leaves nothing uncommitted.   *)

LEMMA EndKeeps ==
    ASSUME IInv, NEW s \in Persons, pc[s] # "idle",
           NEW answer \in Answers \cup {None},
           answer # None => Answered(db, answer.command, answer.outcome),
           End(s, answer)
    PROVE  IInv'
<1> USE DEF IInv
<1>1. db' = db /\ dialect' = dialect
  BY DEF End
<1>2. \A r \in Persons : r # s => /\ pc'[r] = pc[r] /\ cmd'[r] = cmd[r]
                                  /\ left'[r] = left[r] /\ told'[r] = told[r]
                                  /\ writer = r => writer' = r /\ draft' = draft
                                  /\ writer # r => writer' # r
  BY SubjectsAreNotNone DEF End, TypeOK
<1>3. pc'[s] = "idle" /\ left'[s] = {} /\ writer' # s /\ told'[s] = answer
  BY SubjectsAreNotNone DEF End, TypeOK
<1>4. TypeOK'
  BY DEF TypeOK, End
<1>5. CommandsOK'
  BY <1>1, <1>2, <1>3 DEF CommandsOK
<1>6. WriterOK'
  <2>1. writer' = None => draft' = db'
    BY DEF End, WriterOK
  <2>2. QED  BY <1>1, <1>2, <1>3, <2>1 DEF WriterOK
<1>7. AllocatingOK'
  BY <1>1, <1>2, <1>3 DEF AllocatingOK, Inserted
<1>8. CommitOK'
  <2>1. \A r \in Persons : pc'[r] = "commit" => draft' = draft
    BY <1>2, <1>3 DEF WriterOK
  <2>2. QED  BY <1>1, <1>2, <1>3, <2>1 DEF CommitOK
<1>9. OneCasePerSubject' /\ WholeSubmissions'
  BY <1>1 DEF OneCasePerSubject, WholeSubmissions
<1>10. AnswersTrue'
  BY <1>1, <1>2, <1>3 DEF AnswersTrue
<1>11. QED  BY <1>4, <1>5, <1>6, <1>7, <1>8, <1>9, <1>10

LEMMA AnswerKeeps ==
    ASSUME IInv, NEW s \in Persons, pc[s] # "idle",
           NEW outcome \in {"created", "replay", "conflict", "rejected", "busy"},
           Answered(db, cmd[s], outcome),
           Answer(s, outcome)
    PROVE  IInv'
<1> DEFINE answer == [command |-> cmd[s], outcome |-> outcome]
<1>1. cmd[s] \in Commands
  BY DEF IInv, CommandsOK
<1>2. answer \in Answers
  BY <1>1 DEF Answers
<1>3. answer.command = cmd[s] /\ answer.outcome = outcome
  OBVIOUS
<1>4. End(s, answer)
  BY DEF Answer
<1> HIDE DEF answer
<1>5. QED  BY <1>2, <1>3, <1>4, EndKeeps

\* An outcome that claims nothing is true.
LEMMA NothingClaimed ==
    ASSUME NEW T, NEW command, NEW outcome \in {"rejected", "busy"}
    PROVE  Answered(T, command, outcome)
  BY DEF Answered, ProposalAnswered, ConfirmationAnswered

LEMMA BusyKeeps ==
    ASSUME IInv, NEW s \in Persons, Busy(s)
    PROVE  IInv'
<1>1. pc[s] # "idle" /\ Answer(s, "busy")
  BY DEF Busy
<1>2. QED  BY <1>1, NothingClaimed, AnswerKeeps

LEMMA CrashKeeps ==
    ASSUME IInv, NEW s \in Persons, Crash(s)
    PROVE  IInv'
  BY EndKeeps DEF Crash

LEMMA TellKeeps ==
    ASSUME IInv, NEW s \in Persons, Tell(s)
    PROVE  IInv'
<1>1. pc[s] = "tell" /\ Answer(s, "created")
  BY DEF Tell
<1>2. Answered(db, cmd[s], "created")
  BY <1>1 DEF IInv, CommitOK
<1>3. QED  BY <1>1, <1>2, AnswerKeeps

LEMMA ConfirmUnknownKeeps ==
    ASSUME IInv, NEW s \in Persons, ConfirmUnknown(s)
    PROVE  IInv'
<1>1. pc[s] # "idle" /\ Answer(s, "rejected")
  BY DEF ConfirmUnknown
<1>2. QED  BY <1>1, NothingClaimed, AnswerKeeps

LEMMA ProposeExistingKeeps ==
    ASSUME IInv, NEW s \in Persons, ProposeExisting(s)
    PROVE  IInv'
<1>1. pc[s] \in {"read", "insert"} /\ cmd[s].op = "propose"
  BY DEF ProposeExisting, IInv, CommandsOK
<1>2. View(s) = db
  BY <1>1, ReadsCommitted
<1>3. PICK c \in CasesOf(db, cmd[s].subject) : Answer(s, ProposalOutcome(db, c, cmd[s].candidates))
  BY <1>2 DEF ProposeExisting
<1> DEFINE outcome == ProposalOutcome(db, c, cmd[s].candidates)
<1>4. outcome \in {"replay", "conflict"}
  BY DEF ProposalOutcome
<1>5. ProposalAnswered(db, cmd[s], outcome)
  BY DEF ProposalAnswered, ProposalOutcome
<1>6. Answered(db, cmd[s], outcome)
  BY <1>1, <1>5 DEF Answered
<1> HIDE DEF outcome
<1>7. Answer(s, outcome)
  BY <1>3 DEF outcome
<1>8. QED  BY <1>1, <1>4, <1>6, <1>7, AnswerKeeps

LEMMA ConfirmResolvedKeeps ==
    ASSUME IInv, NEW s \in Persons, ConfirmResolved(s)
    PROVE  IInv'
<1>1. pc[s] = "read" /\ cmd[s].op = "confirm"
  BY DEF ConfirmResolved
<1>2. View(s) = db
  BY <1>1, ReadsCommitted
<1> DEFINE outcome == IF db.allocations[cmd[s].case] = Rows(cmd[s].submission)
                      THEN "replay" ELSE "conflict"
<1>3. outcome \in {"replay", "conflict"}
  OBVIOUS
<1>4. IsResolved(db, cmd[s].case)
  BY <1>2 DEF ConfirmResolved, IsResolved
<1>5. Answered(db, cmd[s], outcome)
  BY <1>1, <1>4 DEF Answered, ConfirmationAnswered
<1>6. Answer(s, outcome)
  BY <1>2 DEF ConfirmResolved
<1> HIDE DEF outcome
<1>7. QED  BY <1>1, <1>3, <1>5, <1>6, AnswerKeeps

LEMMA NotAllocatedKeeps ==
    ASSUME IInv, NEW s \in Persons, NotAllocated(s)
    PROVE  IInv'
<1>1. pc[s] = "allocate" /\ cmd[s].op = "confirm" /\ db.cases[cmd[s].case] # NoCase
  BY DEF NotAllocated, IInv, CommandsOK
<1>2. cmd[s] \in Commands /\ db \in Tables
  BY <1>1 DEF IInv, CommandsOK, TypeOK
<1>3. cmd[s].case \in CaseIds
  BY <1>1, <1>2, CommandFields
<1>4. Pending(View(s), cmd[s].case) <=> Pending(db, cmd[s].case)
  BY <1>1 DEF IInv, AllocatingOK, View, Pending
<1>5. CASE Pending(View(s), cmd[s].case)
  <2>1. Answer(s, "rejected")
    BY <1>5 DEF NotAllocated
  <2>2. QED  BY <1>1, <2>1, NothingClaimed, AnswerKeeps
<1>6. CASE ~Pending(View(s), cmd[s].case)
  <2>1. Answer(s, "conflict")
    BY <1>6 DEF NotAllocated
  <2>2. IsResolved(db, cmd[s].case)
    BY <1>1, <1>2, <1>3, <1>4, <1>6, StoredCase
  <2>3. Answered(db, cmd[s], "conflict")
    BY <1>1, <2>2 DEF Answered, ConfirmationAnswered
  <2>4. QED  BY <1>1, <2>1, <2>3, AnswerKeeps
<1>7. QED  BY <1>5, <1>6

-----------------------------------------------------------------------------
(* Statements that only read.                                              *)

LEMMA QuietKeeps ==
    ASSUME IInv, NEW s \in Persons, pc[s] \in {"begin", "read", "insert", "sum"},
           NEW next \in {"read", "insert", "sum", "allocate"}, Continue(s, next),
           db' = db, draft' = draft,
           \/ writer' = writer
           \/ writer = None /\ writer' = s,
           next = "insert" => cmd[s].op = "propose",
           next \in {"sum", "allocate"} =>
               cmd[s].op = "confirm" /\ db.cases[cmd[s].case] # NoCase,
           IF next = "allocate" THEN left' = [left EXCEPT ![s] = DOMAIN cmd[s].submission]
                                ELSE left' = left
    PROVE  IInv'
<1> USE DEF IInv
<1>1. UNCHANGED <<dialect, cmd, told>> /\ pc' = [pc EXCEPT ![s] = next]
  BY DEF Continue
<1>2. \A r \in Persons : r # s => /\ pc'[r] = pc[r] /\ left'[r] = left[r]
                                  /\ writer' = r <=> writer = r
  BY <1>1, SubjectsAreNotNone DEF TypeOK
<1>3. pc'[s] = next
  BY <1>1 DEF TypeOK
<1>4. writer' = s => draft = db
  BY SubjectsAreNotNone DEF WriterOK
<1>5. next = "allocate" =>
        /\ cmd[s].submission \in Submissions /\ cmd[s].case \in CaseIds
        /\ left'[s] = DOMAIN cmd[s].submission
  BY CommandFields DEF TypeOK, CommandsOK
<1>6. TypeOK'
  <2>1. left' \in [Persons -> SUBSET Targets]
    BY <1>5, SubmissionTypes DEF TypeOK
  <2>2. writer' \in Persons \cup {None}
    BY DEF TypeOK
  <2>3. pc' \in [Persons -> {"idle", "begin", "read", "insert", "sum", "allocate", "commit", "tell"}]
    BY <1>1 DEF TypeOK
  <2>4. QED  BY <1>1, <2>1, <2>2, <2>3 DEF TypeOK
<1>7. CommandsOK'
  BY <1>1, <1>2, <1>3 DEF CommandsOK
<1>8. WriterOK'
  BY <1>2, <1>3, <1>4, SubjectsAreNotNone DEF WriterOK
<1>9. AllocatingOK'
  <2>1. CASE next = "allocate"
    <3>1. Inserted(s)' = NoRows
      BY <1>1, <1>5, <2>1 DEF Inserted, NoRows
    <3>2. Pending(db, cmd[s].case) => db.allocations[cmd[s].case] = NoRows
      BY <1>5, <2>1, StoredCase DEF WholeSubmissions, Whole, TypeOK
    <3>3. left'[s] = DOMAIN cmd[s].submission
      BY <1>5, <2>1
    <3>4. \A r \in Persons : r # s => Inserted(r)' = Inserted(r)
      BY <1>1, <1>2 DEF Inserted
    <3>5. QED  BY <1>1, <1>2, <1>3, <1>4, <3>1, <3>2, <3>3, <3>4 DEF AllocatingOK
  <2>2. CASE next # "allocate"
    <3>1. pc'[s] # "allocate"
      BY <1>3, <2>2
    <3>2. \A r \in Persons : r # s => Inserted(r)' = Inserted(r)
      BY <1>1, <1>2 DEF Inserted
    <3>3. QED  BY <1>1, <1>2, <3>1, <3>2 DEF AllocatingOK
  <2>3. QED  BY <2>1, <2>2
<1>10. CommitOK'
  BY <1>1, <1>2, <1>3 DEF CommitOK
<1>11. OneCasePerSubject' /\ WholeSubmissions' /\ AnswersTrue'
  BY <1>1 DEF OneCasePerSubject, WholeSubmissions, AnswersTrue
<1>12. QED  BY <1>6, <1>7, <1>8, <1>9, <1>10, <1>11

LEMMA BeginKeeps ==
    ASSUME IInv, NEW s \in Persons, Begin(s)
    PROVE  IInv'
  BY QuietKeeps DEF Begin

LEMMA ProposeNewKeeps ==
    ASSUME IInv, NEW s \in Persons, ProposeNew(s)
    PROVE  IInv'
  BY QuietKeeps DEF ProposeNew

LEMMA ConfirmPendingKeeps ==
    ASSUME IInv, NEW s \in Persons, ConfirmPending(s)
    PROVE  IInv'
<1>1. pc[s] = "read" /\ cmd[s].op = "confirm" /\ View(s) = db
  BY ReadsCommitted DEF ConfirmPending
<1>2. cmd[s].case \in CaseIds /\ db \in Tables
  BY <1>1, CommandFields DEF IInv, CommandsOK, TypeOK
<1>3. db.cases[cmd[s].case] # NoCase
  BY <1>1, <1>2, StoredCase DEF ConfirmPending
<1>4. QED  BY <1>1, <1>3, QuietKeeps DEF ConfirmPending

LEMMA CheckSumKeeps ==
    ASSUME IInv, NEW s \in Persons, CheckSum(s)
    PROVE  IInv'
<1>1. pc[s] = "sum" /\ cmd[s].op = "confirm" /\ db.cases[cmd[s].case] # NoCase
  BY DEF CheckSum, IInv, CommandsOK
<1>2. CASE Fits(View(s), SubjectOf(s), Total(cmd[s].submission))
  BY <1>1, <1>2, QuietKeeps DEF CheckSum
<1>3. CASE ~Fits(View(s), SubjectOf(s), Total(cmd[s].submission))
  <2>1. Answer(s, "rejected")
    BY <1>3 DEF CheckSum
  <2>2. QED  BY <1>1, <2>1, NothingClaimed, AnswerKeeps
<1>4. QED  BY <1>2, <1>3

LEMMA SubmitKeeps ==
    ASSUME IInv, NEW s \in Persons, NEW command \in Commands, Submit(s, command)
    PROVE  IInv'
<1> USE DEF IInv, Submit
<1>1. \A r \in Persons : r # s => pc'[r] = pc[r] /\ cmd'[r] = cmd[r] /\ told'[r] = told[r]
  BY DEF TypeOK
<1>2. pc'[s] = "begin" /\ cmd'[s] = command /\ told'[s] = None
  BY DEF TypeOK
<1>3. TypeOK'
  BY DEF TypeOK
<1>4. CommandsOK'
  BY <1>1, <1>2 DEF CommandsOK
<1>5. WriterOK'
  BY <1>1, <1>2 DEF WriterOK
<1>6. AllocatingOK'
  BY <1>1, <1>2 DEF AllocatingOK, Inserted
<1>7. CommitOK'
  BY <1>1, <1>2 DEF CommitOK
<1>8. AnswersTrue'
  BY <1>1, <1>2 DEF AnswersTrue
<1>9. OneCasePerSubject' /\ WholeSubmissions'
  BY DEF OneCasePerSubject, WholeSubmissions
<1>10. QED  BY <1>3, <1>4, <1>5, <1>6, <1>7, <1>8, <1>9

-----------------------------------------------------------------------------
(* Statements that write.                                                  *)

\* Nobody else writes, or is about to commit.
LEMMA OthersDoNotWrite ==
    ASSUME IInv, NEW s \in Persons, MayWrite(s), NEW r \in Persons, r # s
    PROVE  writer # r /\ pc[r] # "commit"
  BY SubjectsAreNotNone DEF MayWrite, IInv, WriterOK

LEMMA WriteKeeps ==
    ASSUME IInv, NEW s \in Persons, MayWrite(s), pc[s] \in {"insert", "allocate"},
           NEW next \in {"allocate", "commit"}, Continue(s, next),
           writer' = s, db' = db, draft' \in Tables,
           left' \in [Persons -> SUBSET Targets],
           \A r \in Persons : r # s => left'[r] = left[r],
           next = "allocate" =>
               /\ pc[s] = "allocate"
               /\ left'[s] \subseteq DOMAIN cmd[s].submission
               /\ draft'.cases = db.cases
               /\ \A c \in CaseIds :
                     c # cmd[s].case => draft'.allocations[c] = db.allocations[c]
               /\ draft'.allocations[cmd[s].case] = Inserted(s)',
           next = "commit" =>
               /\ OneCase(draft') /\ (\A c \in CaseIds : Whole(draft', c)) /\ Keeps(db, draft')
               /\ Answered(draft', cmd[s], "created")
    PROVE  IInv'
<1> USE DEF IInv
<1>1. UNCHANGED <<dialect, cmd, told>> /\ pc' = [pc EXCEPT ![s] = next]
  BY DEF Continue
<1>2. \A r \in Persons : r # s => /\ pc'[r] = pc[r] /\ left'[r] = left[r]
                                  /\ writer # r /\ pc[r] # "commit"
  BY <1>1, OthersDoNotWrite DEF TypeOK
<1>3. pc'[s] = next
  BY <1>1 DEF TypeOK
<1>4. TypeOK'
  BY <1>1 DEF TypeOK
<1>5. CommandsOK'
  BY <1>1, <1>2, <1>3 DEF CommandsOK
<1>6. WriterOK'
  BY <1>2, <1>3, SubjectsAreNotNone DEF WriterOK
<1>7. AllocatingOK'
  <2>1. ASSUME NEW r \in Persons, r # s, pc'[r] = "allocate"
        PROVE  left'[r] = DOMAIN cmd'[r].submission /\ writer' # r
    BY <1>1, <1>2, <2>1 DEF AllocatingOK
  <2>2. QED  BY <1>1, <1>3, <2>1 DEF AllocatingOK
<1>8. CommitOK'
  BY <1>1, <1>2, <1>3 DEF CommitOK
<1>9. OneCasePerSubject' /\ WholeSubmissions' /\ AnswersTrue'
  BY <1>1 DEF OneCasePerSubject, WholeSubmissions, AnswersTrue
<1>10. QED  BY <1>4, <1>5, <1>6, <1>7, <1>8, <1>9

LEMMA InsertCaseKeeps ==
    ASSUME IInv, NEW s \in Persons, InsertCase(s)
    PROVE  IInv'
<1> DEFINE j == cmd[s].subject
           new == NewCase(cmd[s].subject, cmd[s].candidates)
<1>1. pc[s] = "insert" /\ MayWrite(s) /\ Continue(s, "commit")
      /\ writer' = s /\ db' = db /\ left' = left /\ View(s) = db
  BY ReadsCommitted DEF InsertCase
<1>2. cmd[s].op = "propose" /\ cmd[s] \in Commands
  BY <1>1 DEF IInv, CommandsOK
<1>3. j \in Subjects /\ cmd[s].candidates \in SUBSET Targets
  BY <1>2, CommandFields, ProposalTypes
<1>4. new \in Cases /\ new.subject = j /\ new.candidates = cmd[s].candidates
      /\ new.status = "HUMAN_CONFIRMATION_REQUIRED"
  BY <1>3 DEF NewCase, Cases
<1>5. db \in Tables
  BY DEF IInv, TypeOK
<1>6. PICK c \in CaseIds : db.cases[c] = NoCase /\ draft' = [db EXCEPT !.cases[c] = new]
  BY <1>1 DEF InsertCase
<1>7. \A d \in CaseIds : db.cases[d].subject # j
  BY <1>1 DEF InsertCase, CasesOf
<1> HIDE DEF j, new
<1>8. draft' = [cases |-> [db.cases EXCEPT ![c] = new], allocations |-> db.allocations]
  BY <1>5, <1>6 DEF Tables
<1>9. draft'.allocations = db.allocations /\ draft'.cases[c] = new
      /\ \A d \in CaseIds : d # c => draft'.cases[d] = db.cases[d]
  BY <1>5, <1>6, <1>8, TableFields
<1>10. draft' \in Tables
  BY <1>4, <1>5, <1>8 DEF Tables
<1>11. OneCase(draft')
  BY <1>4, <1>7, <1>9 DEF OneCase, IInv, OneCasePerSubject
<1>12. \A d \in CaseIds : Whole(draft', d)
  <2>1. Whole(db, c) /\ ~IsResolved(db, c)
    BY <1>5, <1>6, StoredCase DEF IInv, WholeSubmissions
  <2>2. Whole(draft', c)
    BY <1>4, <1>9, <2>1 DEF Whole, IsResolved
  <2>3. ASSUME NEW d \in CaseIds, d # c
        PROVE  Whole(draft', d)
    BY <1>9, <2>3 DEF Whole, IsResolved, IInv, WholeSubmissions
  <2>4. QED  BY <2>2, <2>3
<1>13. Keeps(db, draft')
  <2>1. ~IsResolved(db, c)
    BY <1>5, <1>6, StoredCase
  <2>2. QED  BY <1>6, <1>9, <2>1 DEF Keeps, IsResolved
<1>14. Answered(draft', cmd[s], "created")
  <2>1. c \in CasesOf(draft', cmd[s].subject) /\ draft'.cases[c].candidates = cmd[s].candidates
    BY <1>4, <1>9 DEF CasesOf, j
  <2>2. QED  BY <1>2, <2>1 DEF Answered, ProposalAnswered
<1>15. left \in [Persons -> SUBSET Targets]
  BY DEF IInv, TypeOK
<1>16. QED  BY <1>1, <1>10, <1>11, <1>12, <1>13, <1>14, <1>15, WriteKeeps

\* What an allocating command sees.
LEMMA Allocating ==
    ASSUME IInv, NEW s \in Persons, pc[s] = "allocate", Pending(View(s), cmd[s].case)
    PROVE  /\ cmd[s].op = "confirm" /\ cmd[s] \in Commands
           /\ cmd[s].case \in CaseIds /\ cmd[s].submission \in Submissions
           /\ View(s) \in Tables /\ View(s).cases = db.cases
           /\ \A c \in CaseIds :
                 c # cmd[s].case => View(s).allocations[c] = db.allocations[c]
           /\ left[s] \subseteq DOMAIN cmd[s].submission
           /\ View(s).allocations[cmd[s].case] = Inserted(s)
<1>1. cmd[s].op = "confirm" /\ cmd[s] \in Commands
  BY DEF IInv, CommandsOK
<1>2. cmd[s].case \in CaseIds /\ cmd[s].submission \in Submissions
  BY <1>1, CommandFields
<1>3. View(s) \in Tables
  BY ViewIsTables DEF IInv
<1>4. CASE writer = s
  BY <1>1, <1>2, <1>3, <1>4 DEF IInv, AllocatingOK, View
<1>5. CASE writer # s
  <2>1. View(s) = db /\ left[s] = DOMAIN cmd[s].submission
    BY <1>5 DEF IInv, AllocatingOK, View
  <2>2. db.allocations[cmd[s].case] = NoRows
    BY <1>2, <1>3, <2>1, StoredCase DEF IInv, WholeSubmissions, Whole
  <2>3. Inserted(s) = NoRows
    BY <2>1 DEF Inserted, NoRows
  <2>4. QED  BY <1>1, <1>2, <1>3, <2>1, <2>2, <2>3
<1>6. QED  BY <1>4, <1>5

LEMMA AllocateRowKeeps ==
    ASSUME IInv, NEW s \in Persons, AllocateRow(s)
    PROVE  IInv'
<1> DEFINE T == View(s)
           k == cmd[s].case
           a == cmd[s].submission
<1>1. pc[s] = "allocate" /\ MayWrite(s) /\ Pending(T, k) /\ Continue(s, "allocate")
      /\ writer' = s /\ db' = db
  BY DEF AllocateRow
<1>2. PICK t \in left[s] : /\ draft' = [T EXCEPT !.allocations[k][t] = @ + a[t]]
                           /\ left' = [left EXCEPT ![s] = @ \ {t}]
  BY DEF AllocateRow
<1>3. /\ k \in CaseIds /\ a \in Submissions /\ T \in Tables /\ T.cases = db.cases
      /\ \A c \in CaseIds : c # k => T.allocations[c] = db.allocations[c]
      /\ left[s] \subseteq DOMAIN a /\ T.allocations[k] = Inserted(s)
  BY <1>1, Allocating
<1>4. t \in Targets /\ t \in DOMAIN a /\ a[t] \in Nat
  BY <1>3, SubmissionTypes
<1>5. left' \in [Persons -> SUBSET Targets] /\ left'[s] = left[s] \ {t}
      /\ \A r \in Persons : r # s => left'[r] = left[r]
  BY <1>2 DEF IInv, TypeOK
<1> DEFINE rows == [T.allocations[k] EXCEPT ![t] = @ + a[t]]
<1>6. cmd' = cmd
  BY <1>1 DEF Continue
<1>7. rows = Inserted(s)'
  <2>1. T.allocations[k][t] = 0
    BY <1>3, <1>4 DEF Inserted
  <2>2. rows = [u \in Targets |-> IF u = t THEN a[t] ELSE Inserted(s)[u]]
    BY <1>3, <1>4, <2>1 DEF Inserted
  <2>3. Inserted(s)' = [u \in Targets |-> IF u \in DOMAIN a \ (left[s] \ {t}) THEN a[u] ELSE 0]
    BY <1>5, <1>6 DEF Inserted
  <2>4. Inserted(s) = [u \in Targets |-> IF u \in DOMAIN a \ left[s] THEN a[u] ELSE 0]
    BY DEF Inserted
  <2>5. ASSUME NEW u \in Targets
        PROVE  (IF u = t THEN a[t] ELSE Inserted(s)[u])
                 = (IF u \in DOMAIN a \ (left[s] \ {t}) THEN a[u] ELSE 0)
    BY <1>4, <2>4
  <2>6. QED  BY <2>2, <2>3, <2>5
<1>8. rows \in [Targets -> Nat]
  BY <1>3, <1>4, TableFields
<1>9. draft' = [cases |-> T.cases, allocations |-> [T.allocations EXCEPT ![k] = rows]]
  BY <1>2, <1>3 DEF Tables
<1> HIDE DEF T, k, a, rows
<1>10. draft' \in Tables
  BY <1>3, <1>8, <1>9 DEF Tables
<1>11. draft'.cases = db.cases /\ draft'.allocations[k] = Inserted(s)'
       /\ \A c \in CaseIds : c # k => draft'.allocations[c] = db.allocations[c]
  BY <1>3, <1>7, <1>9, TableFields
<1>12. left'[s] \subseteq DOMAIN a
  BY <1>3, <1>5
<1>13. QED  BY <1>1, <1>5, <1>10, <1>11, <1>12, WriteKeeps DEF k, a

LEMMA ResolveKeeps ==
    ASSUME IInv, NEW s \in Persons, Resolve(s)
    PROVE  IInv'
<1> DEFINE T == View(s)
           k == cmd[s].case
           a == cmd[s].submission
<1>1. pc[s] = "allocate" /\ MayWrite(s) /\ left[s] = {} /\ Pending(T, k)
      /\ Continue(s, "commit") /\ writer' = s /\ db' = db /\ left' = left
      /\ draft' = [T EXCEPT !.cases[k].status = "RESOLVED"]
  BY DEF Resolve
<1>2. /\ cmd[s].op = "confirm"
      /\ k \in CaseIds /\ a \in Submissions /\ T \in Tables /\ T.cases = db.cases
      /\ \A c \in CaseIds : c # k => T.allocations[c] = db.allocations[c]
      /\ T.allocations[k] = Inserted(s)
  BY <1>1, Allocating
<1>3. T.allocations[k] = Rows(a)
  BY <1>1, <1>2 DEF Inserted, Rows
<1> DEFINE resolved == [T.cases[k] EXCEPT !.status = "RESOLVED"]
<1>4. draft' = [cases |-> [T.cases EXCEPT ![k] = resolved], allocations |-> T.allocations]
  BY <1>1, <1>2 DEF Tables
<1>5. T.cases[k] \in Cases /\ ~IsResolved(T, k)
  BY <1>1, <1>2, StoredCase
<1>6. resolved \in Cases /\ resolved.status = "RESOLVED" /\ resolved.subject = T.cases[k].subject
      /\ resolved.candidates = T.cases[k].candidates
  BY <1>5 DEF Cases
<1>7. db \in Tables
  BY DEF IInv, TypeOK
<1> HIDE DEF T, k, a, resolved
<1>8. draft' \in Tables
  BY <1>2, <1>4, <1>6 DEF Tables
<1>9. draft'.cases[k] = resolved /\ draft'.allocations = T.allocations
      /\ \A c \in CaseIds : c # k => draft'.cases[c] = db.cases[c]
  BY <1>2, <1>4, TableFields
<1>10. \A c \in CaseIds : draft'.cases[c].subject = db.cases[c].subject
                          /\ draft'.cases[c].candidates = db.cases[c].candidates
  BY <1>2, <1>6, <1>9
<1>11. db.cases[k] # NoCase /\ ~IsResolved(db, k)
  <2>1. NoCase.status # "HUMAN_CONFIRMATION_REQUIRED"
    BY DEF NoCase
  <2>2. QED  BY <1>1, <1>2, <1>5, <2>1 DEF Pending, IsResolved
<1>12. OneCase(draft')
  BY <1>9, <1>10, <1>11 DEF OneCase, IInv, OneCasePerSubject
<1>13. ASSUME NEW c \in CaseIds
       PROVE  Whole(draft', c)
  <2>1. CASE c = k
    BY <1>2, <1>3, <1>6, <1>9, <2>1 DEF Whole, IsResolved
  <2>2. CASE c # k
    BY <1>2, <1>9, <2>2 DEF Whole, IsResolved, IInv, WholeSubmissions
  <2>3. QED  BY <2>1, <2>2
<1>14. Keeps(db, draft')
  BY <1>2, <1>9, <1>10, <1>11 DEF Keeps, IsResolved
<1>15. Answered(draft', cmd[s], "created")
  BY <1>2, <1>3, <1>6, <1>9 DEF Answered, ConfirmationAnswered, IsResolved, k, a
<1>16. left \in [Persons -> SUBSET Targets]
  BY DEF IInv, TypeOK
<1>17. QED  BY <1>1, <1>8, <1>12, <1>13, <1>14, <1>15, <1>16, WriteKeeps

LEMMA CommitKeeps ==
    ASSUME IInv, NEW s \in Persons, Commit(s)
    PROVE  IInv' /\ Keeps(db, db')
<1> USE DEF IInv
<1>1. pc[s] = "commit" /\ writer = s /\ db' = draft /\ draft' = draft /\ writer' = None /\ left' = left
      /\ UNCHANGED <<dialect, cmd, told>> /\ pc' = [pc EXCEPT ![s] = "tell"]
  BY DEF Commit, Continue, WriterOK
<1>2. OneCase(draft) /\ (\A c \in CaseIds : Whole(draft, c)) /\ Keeps(db, draft)
      /\ Answered(draft, cmd[s], "created")
  BY <1>1 DEF CommitOK
<1>3. pc'[s] = "tell" /\ \A r \in Persons : r # s => pc'[r] = pc[r] /\ writer # r /\ pc[r] # "commit"
  BY <1>1 DEF TypeOK, WriterOK
<1>4. db \in Tables /\ draft \in Tables
  BY DEF TypeOK
<1>5. TypeOK'
  BY <1>1 DEF TypeOK
<1>6. CommandsOK'
  <2>1. ASSUME NEW r \in Persons, pc'[r] \in {"sum", "allocate"}
        PROVE  cmd'[r].op = "confirm" /\ db'.cases[cmd'[r].case] # NoCase
    <3>1. r # s /\ cmd'[r] = cmd[r] /\ pc[r] = pc'[r]
      BY <1>1, <1>3, <2>1
    <3>2. cmd[r].op = "confirm" /\ db.cases[cmd[r].case] # NoCase /\ cmd[r] \in Commands
      BY <2>1, <3>1 DEF CommandsOK
    <3>3. cmd[r].case \in CaseIds
      BY <3>2, CommandFields
    <3>4. db.cases[cmd[r].case].subject \in Subjects
      BY <1>4, <3>2, <3>3, StoredCase DEF Cases
    <3>5. draft.cases[cmd[r].case].subject \in Subjects
      BY <1>2, <3>2, <3>3, <3>4 DEF Keeps
    <3>6. QED  BY <1>1, <1>4, <3>1, <3>2, <3>3, <3>5, StoredCase
  <2>2. \A r \in Persons : /\ pc'[r] # "idle" => cmd'[r] \in Commands
                           /\ pc'[r] = "insert" => cmd'[r].op = "propose"
    BY <1>1, <1>3 DEF CommandsOK
  <2>3. QED  BY <2>1, <2>2 DEF CommandsOK
<1>7. WriterOK'
  BY <1>1, <1>3, SubjectsAreNotNone DEF WriterOK
<1>8. AllocatingOK'
  BY <1>1, <1>3, SubjectsAreNotNone DEF AllocatingOK
<1>9. CommitOK'
  <2>1. ASSUME NEW r \in Persons, pc'[r] = "tell"
        PROVE  Answered(db', cmd'[r], "created")
    <3>1. CASE r = s
      BY <1>1, <1>2, <3>1
    <3>2. CASE r # s
      <4>1. pc[r] = "tell" /\ cmd'[r] = cmd[r]
        BY <1>1, <1>3, <2>1, <3>2
      <4>2. cmd[r] \in Commands /\ Answered(db, cmd[r], "created")
        BY <4>1 DEF CommitOK, CommandsOK
      <4>3. QED  BY <1>1, <1>2, <1>4, <4>1, <4>2, KeepsAnswers
    <3>3. QED  BY <3>1, <3>2
  <2>2. \A r \in Persons : pc'[r] # "commit"
    BY <1>3
  <2>3. QED  BY <2>1, <2>2 DEF CommitOK
<1>10. OneCasePerSubject' /\ WholeSubmissions'
  BY <1>1, <1>2 DEF OneCasePerSubject, WholeSubmissions
<1>11. AnswersTrue'
  <2>1. ASSUME NEW r \in Persons, told'[r] # None
        PROVE  Answered(db', told'[r].command, told'[r].outcome)
    <3>1. told'[r] = told[r]
      BY <1>1
    <3>2. told[r].command \in Commands /\ Answered(db, told[r].command, told[r].outcome)
      BY <2>1, <3>1 DEF TypeOK, Answers, AnswersTrue
    <3>3. QED  BY <1>1, <1>2, <1>4, <3>1, <3>2, KeepsAnswers
  <2>2. QED  BY <2>1 DEF AnswersTrue
<1>12. QED  BY <1>1, <1>2, <1>5, <1>6, <1>7, <1>8, <1>9, <1>10, <1>11

-----------------------------------------------------------------------------
(* The theorems.                                                           *)

LEMMA InitIInv == Init => IInv
<1> SUFFICES ASSUME Init PROVE IInv
  OBVIOUS
<1> USE DEF Init
<1>1. \A c \in CaseIds : db.cases[c] = NoCase /\ db.allocations[c] = NoRows
  OBVIOUS
<1>2. NoRows \in [Targets -> Nat] /\ NoCase.status = "NONE"
  BY DEF NoRows, NoCase
<1>3. db \in Tables
  BY <1>2 DEF Tables
<1>4. TypeOK
  BY <1>3 DEF TypeOK
<1>5. CommandsOK /\ AllocatingOK /\ CommitOK /\ AnswersTrue
  BY DEF CommandsOK, AllocatingOK, CommitOK, AnswersTrue
<1>6. WriterOK
  BY SubjectsAreNotNone DEF WriterOK
<1>7. OneCasePerSubject /\ WholeSubmissions
  BY <1>1, <1>2 DEF OneCasePerSubject, OneCase, WholeSubmissions, Whole, IsResolved
<1>8. QED  BY <1>4, <1>5, <1>6, <1>7 DEF IInv

LEMMA StepKeeps ==
    ASSUME IInv, [Next]_vars
    PROVE  IInv' /\ Keeps(db, db')
<1>1. CASE UNCHANGED vars
  BY <1>1, KeepsItself
     DEF vars, IInv, TypeOK, CommandsOK, WriterOK, AllocatingOK, Inserted, CommitOK,
         OneCasePerSubject, WholeSubmissions, AnswersTrue
<1>2. CASE Next
  <2>1. ASSUME NEW s \in Persons, NEW command \in Commands, Submit(s, command)
        PROVE  IInv' /\ db' = db
    BY <2>1, SubmitKeeps DEF Submit
  <2>2. ASSUME NEW s \in Persons, Step(s) \/ Crash(s), ~Commit(s)
        PROVE  IInv' /\ db' = db
    <3>1. CASE Begin(s)
      BY <3>1, BeginKeeps DEF Begin
    <3>2. CASE Busy(s)
      BY <3>2, BusyKeeps DEF Busy, Answer, End
    <3>3. CASE ProposeExisting(s)
      BY <3>3, ProposeExistingKeeps DEF ProposeExisting, Answer, End
    <3>4. CASE ProposeNew(s)
      BY <3>4, ProposeNewKeeps DEF ProposeNew
    <3>5. CASE InsertCase(s)
      BY <3>5, InsertCaseKeeps DEF InsertCase
    <3>6. CASE ConfirmUnknown(s)
      BY <3>6, ConfirmUnknownKeeps DEF ConfirmUnknown, Answer, End
    <3>7. CASE ConfirmResolved(s)
      BY <3>7, ConfirmResolvedKeeps DEF ConfirmResolved, Answer, End
    <3>8. CASE ConfirmPending(s)
      BY <3>8, ConfirmPendingKeeps DEF ConfirmPending
    <3>9. CASE CheckSum(s)
      BY <3>9, CheckSumKeeps DEF CheckSum, Answer, End
    <3>10. CASE AllocateRow(s)
      BY <3>10, AllocateRowKeeps DEF AllocateRow
    <3>11. CASE NotAllocated(s)
      BY <3>11, NotAllocatedKeeps DEF NotAllocated, Answer, End
    <3>12. CASE Resolve(s)
      BY <3>12, ResolveKeeps DEF Resolve
    <3>13. CASE Tell(s)
      BY <3>13, TellKeeps DEF Tell, Answer, End
    <3>14. CASE Crash(s)
      BY <3>14, CrashKeeps DEF Crash, End
    <3>15. QED  BY <2>2, <3>1, <3>2, <3>3, <3>4, <3>5, <3>6, <3>7, <3>8, <3>9, <3>10, <3>11,
                   <3>12, <3>13, <3>14 DEF Step
  <2>3. ASSUME NEW s \in Persons, Commit(s)
        PROVE  IInv' /\ Keeps(db, db')
    BY <2>3, CommitKeeps
  <2>4. QED  BY <1>2, <2>1, <2>2, <2>3, KeepsItself DEF Next
<1>3. QED  BY <1>1, <1>2

-----------------------------------------------------------------------------
(* Nobody is allocated more than there is.                                 *)

\* It is so of what is committed and of what the writer is about to commit.
WithinInv == Within(db) /\ Within(draft)

LEMMA WithinFirst == Init => WithinInv
<1> SUFFICES ASSUME Init PROVE Within(db)
  BY DEF Init, WithinInv
<1>1. IInv
  BY InitIInv
<1>2. db \in Tables
  BY <1>1 DEF IInv, TypeOK
<1>3. ASSUME NEW j \in Subjects PROVE SumFor(db, j) <= Amount[j]
  <2>1. CasesOf(db, j) = {}
    BY <1>3, SubjectsAreNotNone DEF Init, CasesOf, NoCase
  <2>2. SumFor(db, j) = SumOver(Shares(db, j), {})
    BY <1>2, <2>1, SumForShares
  <2>3. SumFor(db, j) = 0
    BY <2>2, SumEmpty
  <2>4. QED  BY <2>3, AmountAssumption
<1>4. QED  BY <1>3 DEF Within

LEMMA InsertCaseWithin ==
    ASSUME IInv, WithinInv, NEW s \in Persons, InsertCase(s)
    PROVE  Within(draft')
<1>1. pc[s] = "insert" /\ View(s) = db
  BY ReadsCommitted DEF InsertCase
<1>2. db \in Tables /\ IInv'
  BY InsertCaseKeeps DEF IInv, TypeOK
<1> DEFINE new == NewCase(cmd[s].subject, cmd[s].candidates)
<1>3. PICK c \in CaseIds :
        /\ db.cases[c] = NoCase /\ draft' = [db EXCEPT !.cases[c] = new]
        /\ new.subject = cmd[s].subject
  BY <1>1 DEF InsertCase, NewCase
<1> HIDE DEF new
<1>4. draft' = [cases |-> [db.cases EXCEPT ![c] = new], allocations |-> db.allocations]
  BY <1>2, <1>3 DEF Tables
<1>5. draft'.allocations = db.allocations /\ draft'.cases[c] = new
      /\ \A d \in CaseIds : d # c => draft'.cases[d] = db.cases[d]
  BY <1>2, <1>4, TableFields
<1>6. draft' \in Tables
  BY <1>2 DEF IInv, TypeOK
<1>7. db.allocations[c] = NoRows
  BY <1>2, <1>3, StoredCase DEF IInv, WholeSubmissions, Whole
<1>8. ASSUME NEW j \in Subjects PROVE SumFor(draft', j) = SumFor(db, j)
  <2>1. c \notin CasesOf(db, j)
    BY <1>3, SubjectsAreNotNone DEF CasesOf, NoCase
  <2>2. CASE j = cmd[s].subject
    <3>1. CasesOf(draft', j) = CasesOf(db, j) \cup {c}
      BY <1>3, <1>5, <2>2 DEF CasesOf
    <3>2. QED  BY <1>2, <1>5, <1>6, <1>7, <2>1, <3>1, EmptyCaseAddsNothing
  <2>3. CASE j # cmd[s].subject
    <3>1. CasesOf(draft', j) = CasesOf(db, j)
      BY <1>3, <1>5, <2>1, <2>3 DEF CasesOf
    <3>2. QED  BY <1>5, <3>1, SameSum
  <2>4. QED  BY <2>2, <2>3
<1>9. QED  BY <1>8 DEF WithinInv, Within

LEMMA AllocateRowWithin ==
    ASSUME IInv, WithinInv, NEW s \in Persons, AllocateRow(s)
    PROVE  Within(draft')
<1> DEFINE T == View(s)
           k == cmd[s].case
<1>1. pc[s] = "allocate" /\ Pending(T, k)
  BY DEF AllocateRow
<1>2. PICK t \in left[s] : /\ Fits(T, SubjectOf(s), cmd[s].submission[t])
                           /\ draft' = [T EXCEPT !.allocations[k][t] = @ + cmd[s].submission[t]]
  BY DEF AllocateRow
<1>3. /\ k \in CaseIds /\ cmd[s].submission \in Submissions /\ T \in Tables
      /\ left[s] \subseteq DOMAIN cmd[s].submission
  BY <1>1, Allocating
<1>4. PICK n : n = cmd[s].submission[t]
  OBVIOUS
<1>5. t \in Targets /\ n \in Nat
  BY <1>3, <1>4, SubmissionTypes
<1>6. draft' = [cases |-> T.cases,
                allocations |-> [T.allocations EXCEPT ![k] = [T.allocations[k] EXCEPT ![t] = @ + n]]]
  BY <1>2, <1>3, <1>4 DEF Tables
<1>7. Within(T) /\ draft' \in Tables
  <2>1. Within(T)
    BY DEF WithinInv, View
  <2>2. IInv'
    BY AllocateRowKeeps
  <2>3. QED  BY <2>1, <2>2 DEF IInv, TypeOK
<1>8. SumFor(T, T.cases[k].subject) + n <= Amount[T.cases[k].subject]
  BY <1>2, <1>4 DEF Fits, SubjectOf
<1> HIDE DEF T, k
<1>9. PICK U : U = draft'
  OBVIOUS
<1>10. /\ U \in Tables /\ U.cases = T.cases
       /\ U.allocations = [T.allocations EXCEPT ![k] = [T.allocations[k] EXCEPT ![t] = @ + n]]
  BY <1>6, <1>7, <1>9
<1>11. T.allocations \in [CaseIds -> [Targets -> Nat]]
  BY <1>3, TableFields
<1>12. ASSUME NEW j \in Subjects PROVE SumFor(U, j) <= Amount[j]
  <2>1. CASE k \in CasesOf(T, j)
    <3>1. SumFor(U, j) = SumFor(T, j) + n
      BY <1>3, <1>5, <1>10, <2>1, RowAdds
    <3>2. T.cases[k].subject = j
      BY <2>1 DEF CasesOf
    <3>3. QED  BY <1>8, <3>1, <3>2
  <2>2. CASE k \notin CasesOf(T, j)
    <3>1. CasesOf(U, j) = CasesOf(T, j)
      BY <1>10 DEF CasesOf
    <3>2. \A c \in CasesOf(T, j) : U.allocations[c] = T.allocations[c]
      BY <1>10, <1>11, <2>2 DEF CasesOf
    <3>3. SumFor(U, j) = SumFor(T, j)
      BY <3>1, <3>2, SameSum
    <3>4. QED  BY <1>7, <3>3 DEF Within
  <2>3. QED  BY <2>1, <2>2
<1>13. QED  BY <1>9, <1>12 DEF Within

LEMMA ResolveWithin ==
    ASSUME IInv, WithinInv, NEW s \in Persons, Resolve(s)
    PROVE  Within(draft')
<1> DEFINE T == View(s)
           k == cmd[s].case
<1>1. pc[s] = "allocate" /\ Pending(T, k)
      /\ draft' = [T EXCEPT !.cases[k].status = "RESOLVED"]
  BY DEF Resolve
<1>2. k \in CaseIds /\ T \in Tables
  BY <1>1, Allocating
<1>3. Within(T)
  BY DEF WithinInv, View
<1> DEFINE resolved == [T.cases[k] EXCEPT !.status = "RESOLVED"]
<1>4. draft' = [cases |-> [T.cases EXCEPT ![k] = resolved], allocations |-> T.allocations]
  BY <1>1, <1>2 DEF Tables
<1>5. T.cases[k] \in Cases
  BY <1>1, <1>2, StoredCase
<1>6. resolved.subject = T.cases[k].subject
  BY <1>5 DEF Cases
<1> HIDE DEF T, k, resolved
<1>7. draft'.allocations = T.allocations
      /\ \A c \in CaseIds : draft'.cases[c].subject = T.cases[c].subject
  BY <1>2, <1>4, <1>6, TableFields
<1>8. ASSUME NEW j \in Subjects PROVE SumFor(draft', j) = SumFor(T, j)
  <2>1. CasesOf(draft', j) = CasesOf(T, j)
    BY <1>7 DEF CasesOf
  <2>2. QED  BY <1>7, <2>1, SameSum
<1>9. QED  BY <1>3, <1>8 DEF Within

LEMMA WithinStays ==
    ASSUME IInv, WithinInv, [Next]_vars
    PROVE  WithinInv'
<1>1. CASE UNCHANGED vars
  BY <1>1 DEF vars, WithinInv
<1>2. CASE Next
  <2>1. ASSUME NEW s \in Persons, NEW answer, End(s, answer) PROVE WithinInv'
    BY <2>1 DEF End, WithinInv
  <2>2. ASSUME NEW s \in Persons, UNCHANGED <<db, draft>> PROVE WithinInv'
    BY <2>2 DEF WithinInv
  <2>3. ASSUME NEW s \in Persons, NEW command \in Commands, Submit(s, command) PROVE WithinInv'
    BY <2>3, <2>2 DEF Submit
  <2>4. ASSUME NEW s \in Persons, Step(s) \/ Crash(s) PROVE WithinInv'
    <3>1. CASE Begin(s) \/ ProposeNew(s) \/ ConfirmPending(s)
      BY <3>1, <2>2 DEF Begin, ProposeNew, ConfirmPending
    <3>2. CASE Busy(s) \/ ProposeExisting(s) \/ ConfirmUnknown(s) \/ ConfirmResolved(s)
               \/ NotAllocated(s) \/ Tell(s) \/ Crash(s)
      BY <3>2, <2>1 DEF Busy, ProposeExisting, ConfirmUnknown, ConfirmResolved,
                        NotAllocated, Tell, Crash, Answer
    <3>3. CASE CheckSum(s)
      BY <3>3, <2>1, <2>2 DEF CheckSum, Answer
    <3>4. CASE InsertCase(s)
      BY <3>4, InsertCaseWithin DEF InsertCase, WithinInv
    <3>5. CASE AllocateRow(s)
      BY <3>5, AllocateRowWithin DEF AllocateRow, WithinInv
    <3>6. CASE Resolve(s)
      BY <3>6, ResolveWithin DEF Resolve, WithinInv
    <3>7. CASE Commit(s)
      BY <3>7 DEF Commit, WithinInv
    <3>8. QED  BY <2>4, <3>1, <3>2, <3>3, <3>4, <3>5, <3>6, <3>7 DEF Step
  <2>5. QED  BY <1>2, <2>3, <2>4 DEF Next
<1>3. QED  BY <1>1, <1>2

-----------------------------------------------------------------------------
(* What always holds.                                                      *)

\* The strengthened invariant of commands in progress holds, on both dialects.
THEOREM Invariant == Spec => []IInv
<1>1. IInv /\ [Next]_vars => IInv'
  BY StepKeeps
<1>2. QED  BY InitIInv, <1>1, PTL DEF Spec

\* Every variable keeps its type (a case is unused, pending or resolved).
THEOREM TypeCorrect == Spec => []TypeOK
<1>1. IInv => TypeOK
  BY DEF IInv
<1>2. QED  BY Invariant, <1>1, PTL

\* Whoever proposes at the same time, a subject gets one case
\* (add_if_no_case_for_subject).
THEOREM OneCaseEach == Spec => []OneCasePerSubject
<1>1. IInv => OneCasePerSubject
  BY DEF IInv
<1>2. QED  BY Invariant, <1>1, PTL

\* A case has either no allocation or exactly one person's submission
\* (the savepoint of confirm_sales_invoice_match).
THEOREM OneSubmission == Spec => []WholeSubmissions
<1>1. IInv => WholeSubmissions
  BY DEF IInv
<1>2. QED  BY Invariant, <1>1, PTL

\* What people were told of proposals and confirmations stays true.
THEOREM TrueAnswers == Spec => []AnswersTrue
<1>1. IInv => AnswersTrue
  BY DEF IInv
<1>2. QED  BY Invariant, <1>1, PTL

\* No step rewrites a stored candidate set or a resolved case.
THEOREM DecisionsFinal == Spec => Final
<1>1. IInv /\ [Next]_vars => [Keeps(db, db')]_vars
  BY StepKeeps
<1>2. QED  BY Invariant, <1>1, PTL DEF Spec, Final

\* Whatever people submit at the same time, on either dialect, a subject is
\* never allocated more than its amount: the INSERT's own capacity condition
\* is evaluated on what the writer has, and a lost race writes no row.
THEOREM WithinAmountHolds == Spec => []WithinAmount
<1>1. IInv /\ WithinInv /\ [Next]_vars => WithinInv'
  BY WithinStays
<1>2. WithinInv => WithinAmount
  BY DEF WithinInv, Within, WithinAmount
<1>3. QED  BY WithinFirst, Invariant, <1>1, <1>2, PTL DEF Spec

-----------------------------------------------------------------------------
(* The invoice preparation page: the invariant.                            *)

\* Tables from which nothing is taken away, and what a later state of the
\* ledger has of an earlier one.
Kept == {"sales_invoices", "invoices", "payments"}
Found(row, rows) ==
    /\ row.table \in Kept => row \in rows
    /\ row.table \in Revised => \E other \in rows : SameFact(row, other)
Succeeds(rows, later) == \A row \in rows : Found(row, later)

LedgerOK ==
    /\ ledger \subseteq AllRows /\ began \subseteq AllRows
    /\ Owned(ledger) /\ Owned(began)
    /\ Succeeds(began, ledger)
    /\ \E scenario \in Scenarios : todo \subseteq scenario
    /\ \A w \in todo : w.add \cap (ledger \cup began) = {}

\* What a statement returned lies between what there was when the page was begun
\* and what there is: nothing kept is missing, or is gone since; every fact is
\* there in some revision; a link that was there all the time is there.
Asked(ctx, q, row) == row.table = q.table /\ row.scope \in ScopesOf(ctx, q)
Covers(ctx, q, old, now) ==
    /\ \A row \in ctx[q] : Asked(ctx, q, row) /\ row \in AllRows /\ (row.table \in Kept => row \in now)
    /\ Listed(ctx, q) => \A row \in old : Asked(ctx, q, row) =>
          Found(row, ctx[q]) /\ (row.table = "links" /\ row \in now => row \in ctx[q])
Closed(done) == done \subseteq Statements /\ \A q \in done : Predecessors[q] \subseteq done
ContextOK ==
    /\ Closed(DOMAIN context)
    /\ \A q \in DOMAIN context : Covers(context, q, began, ledger)

\* The shipments of one contract and no others.
OfOneContract(against, old) ==
    \E c : /\ \A row \in AllRows : row.table = "shipments" /\ row.id \in against => row.scope = c
           /\ IdsOf(In(old, "shipments", c)) \subseteq against

\* What is compared was the only candidate: said of what was there (old), so
\* that it survives whatever commits later.
Judged == Compared \cup {"CURRENCY_MISMATCH"}
Chosen(k, old, now) ==
    /\ ~Several(k.against)
    /\ k.check \in {"sales amount", "sales quantity"} =>
          InvoicesOf(old, "sales_invoices", k.scope, "SALES") \subseteq k.against
    /\ k.check = "purchase amount" =>
          InvoicesOf(old, "invoices", k.scope, "PURCHASE") \subseteq k.against
    /\ k.check \in {"customs", "shipped quantity"} =>
          ~Several(LinkedBy(old \cap now, k.scope)) /\ OfOneContract(k.against, old)
AllChosen(checks, old, now) == \A k \in checks : k.outcome \in Judged => Chosen(k, old, now)
PageOK == page # Absent => AllChosen(page.checks, began, ledger)

PageInv == LedgerOK /\ ContextOK /\ PageOK /\ FollowUpTruthful /\ OneToOneOnly

-----------------------------------------------------------------------------
(* The statements and their order.                                         *)

LEMMA StatementIs ==
    ASSUME NEW q \in Statements
    PROVE  /\ q = Statement(q.table, q.scope)
           /\ q.table \in SalesTables => q.scope \in Range(SalesOrder)
           /\ q.table \in SupplierTables => q.scope \in Range(ContractOrder)
           /\ q.table \notin SalesTables \cup SupplierTables => q.scope = Absent
           /\ q.table \in SalesTables \cup SupplierTables \cup {"sales_contracts", "contracts", "rates"}
  BY DEF Statements, Statement, SalesTables, SupplierTables

LEMMA ListsAreStatements ==
    /\ Statement("sales_contracts", Absent) \in Statements
    /\ Statement("contracts", Absent) \in Statements
  BY DEF Statements

LEMMA ScopesAreStatements ==
    /\ \A table \in SalesTables : \A t \in Range(SalesOrder) : Statement(table, t) \in Statements
    /\ \A table \in SupplierTables : \A c \in Range(ContractOrder) : Statement(table, c) \in Statements
  BY DEF Statements

\* A list is read before what it lists, and items before their lines.
LEMMA ReadBefore ==
    ASSUME NEW q \in Statements
    PROVE  /\ q.table \in SalesTables => Statement("sales_contracts", Absent) \in Predecessors[q]
           /\ q.table \in SupplierTables => Statement("contracts", Absent) \in Predecessors[q]
           /\ q.table = "lines" => Statement("items", q.scope) \in Predecessors[q]
  <1>1. ASSUME q.table \in SalesTables PROVE Before(Statement("sales_contracts", Absent), q)
    BY <1>1 DEF Before, Phase, Statement, SalesTables
  <1>2. ASSUME q.table \in SupplierTables PROVE Before(Statement("contracts", Absent), q)
    BY <1>2 DEF Before, Phase, Statement, SupplierTables
  <1>3. ASSUME q.table = "lines"
        PROVE  Statement("items", q.scope) \in Statements /\ Before(Statement("items", q.scope), q)
    <2>1. Before(Statement("items", q.scope), q)
      BY <1>3 DEF Before, Phase, Turn, Statement
    <2>2. Statement("items", q.scope) \in Statements
      BY <1>3, StatementIs, ScopesAreStatements DEF SupplierTables
    <2> QED BY <2>1, <2>2
  <1> QED BY <1>1, <1>2, <1>3, ListsAreStatements DEF Predecessors

\* What a statement reads depends on the statements before it alone.
LEMMA DependsOnEarlier ==
    ASSUME NEW ctx, NEW new, NEW q \in Statements, Predecessors[q] \subseteq DOMAIN ctx,
           \A p \in DOMAIN ctx : new[p] = ctx[p]
    PROVE  Listed(new, q) = Listed(ctx, q) /\ ScopesOf(new, q) = ScopesOf(ctx, q)
  <1>1. q.table \in SalesTables => SalesContracts(new) = SalesContracts(ctx)
    BY ReadBefore DEF SalesContracts, Seen
  <1>2. q.table \in SupplierTables => Contracts(new) = Contracts(ctx)
    BY ReadBefore DEF Contracts, Seen
  <1>3. q.table = "lines" => Seen(new, "items", q.scope) = Seen(ctx, "items", q.scope)
    BY ReadBefore DEF Seen
  <1>4. Listed(new, q) = Listed(ctx, q)
    BY <1>1, <1>2 DEF Listed
  <1>5. ScopesOf(new, q) = ScopesOf(ctx, q)
    BY <1>3 DEF ScopesOf
  <1> QED BY <1>4, <1>5

-----------------------------------------------------------------------------
(* What commits keep.                                                      *)

LEMMA SucceedsItself == ASSUME NEW rows PROVE Succeeds(rows, rows)
  BY DEF Succeeds, Found, SameFact

LEMMA SucceedsTransitive ==
    ASSUME NEW rows, NEW later, NEW latest, Succeeds(rows, later), Succeeds(later, latest)
    PROVE  Succeeds(rows, latest)
  <1> SUFFICES ASSUME NEW row \in rows PROVE Found(row, latest)
    BY DEF Succeeds
  <1>1. row.table \in Kept => row \in latest
    BY DEF Succeeds, Found
  <1>2. ASSUME row.table \in Revised PROVE \E other \in latest : SameFact(row, other)
    <2>1. PICK other \in later : SameFact(row, other)
      BY <1>2 DEF Succeeds, Found
    <2>2. PICK another \in latest : SameFact(other, another)
      BY <1>2, <2>1 DEF Succeeds, Found, SameFact
    <2>3. SameFact(row, another)
      BY <2>1, <2>2 DEF SameFact
    <2> QED BY <2>3
  <1> QED BY <1>1, <1>2 DEF Found

LEMMA ChangeSucceeds ==
    ASSUME NEW rows, NEW w, \A row \in w.drop : row.table = "links" \/ Corrects(w, row)
    PROVE  Succeeds(rows, (rows \ w.drop) \cup w.add)
  <1> DEFINE later == (rows \ w.drop) \cup w.add
  <1> SUFFICES ASSUME NEW row \in rows PROVE Found(row, later)
    BY DEF Succeeds
  <1>1. CASE row \notin w.drop
    BY <1>1 DEF Found, SameFact
  <1>2. CASE row \in w.drop
    <2>1. row.table = "links" \/ Corrects(w, row)
      BY <1>2
    <2>2. row.table \notin Kept
      BY <2>1 DEF Corrects, Kept, Revised
    <2>3. row.table \in Revised => \E other \in w.add : SameFact(row, other)
      BY <2>1 DEF Corrects, Revised
    <2> QED BY <2>2, <2>3 DEF Found
  <1> QED BY <1>1, <1>2

LEMMA ChangeKeepsLedgerOK ==
    ASSUME LedgerOK, NEW w \in todo, Change(w)
    PROVE  LedgerOK' /\ Succeeds(ledger, ledger') /\ ledger' \cap began \subseteq ledger
  <1>1. PICK scenario \in Scenarios : todo \subseteq scenario
    BY DEF LedgerOK
  <1>2. w \in scenario /\ ledger' = (ledger \ w.drop) \cup w.add /\ todo' = todo \ {w} /\ began' = began
    BY <1>1 DEF Change
  <1>3. /\ \A v \in scenario : v # w => v.add \cap w.add = {}
        /\ \A row \in w.drop : row.table = "links" \/ Corrects(w, row)
    BY <1>2, CommitsAssumption
  <1>4. Succeeds(ledger, ledger')
    BY <1>2, <1>3, ChangeSucceeds
  <1>5. ledger' \cap began \subseteq ledger
    BY <1>2 DEF LedgerOK
  <1>6. ledger' \subseteq AllRows /\ began' \subseteq AllRows
    <2>1. w.add \subseteq AllRows
      BY <1>2 DEF AllRows
    <2> QED BY <2>1, <1>2 DEF LedgerOK
  <1>7. Owned(ledger') /\ Owned(began')
    BY <1>2 DEF Change, LedgerOK
  <1>8. Succeeds(began', ledger')
    BY <1>2, <1>4, SucceedsTransitive DEF LedgerOK
  <1>9. \E s \in Scenarios : todo' \subseteq s
    BY <1>1, <1>2
  <1>10. ASSUME NEW v \in todo' PROVE v.add \cap (ledger' \cup began') = {}
    <2>1. v \in todo /\ v # w /\ v \in scenario
      BY <1>1, <1>2
    <2>2. v.add \cap (ledger \cup began) = {} /\ v.add \cap w.add = {}
      BY <2>1, <1>3 DEF LedgerOK
    <2> QED BY <2>2, <1>2
  <1>11. LedgerOK'
    BY <1>6, <1>7, <1>8, <1>9, <1>10 DEF LedgerOK
  <1> QED BY <1>4, <1>5, <1>11

-----------------------------------------------------------------------------
(* What the statements return.                                             *)

LEMMA ContextBegins == ASSUME context = <<>> PROVE ContextOK
  BY DEF ContextOK, Closed

LEMMA CoversLater ==
    ASSUME NEW ctx, NEW q, NEW old, NEW now, NEW later, Covers(ctx, q, old, now),
           Succeeds(now, later), later \cap old \subseteq now
    PROVE  Covers(ctx, q, old, later)
  <1>1. ASSUME NEW row \in ctx[q]
        PROVE  Asked(ctx, q, row) /\ row \in AllRows /\ (row.table \in Kept => row \in later)
    BY DEF Covers, Succeeds, Found
  <1>2. ASSUME Listed(ctx, q), NEW row \in old, Asked(ctx, q, row)
        PROVE  Found(row, ctx[q]) /\ (row.table = "links" /\ row \in later => row \in ctx[q])
    BY <1>2 DEF Covers
  <1> QED BY <1>1, <1>2 DEF Covers

\* The statement just executed.
LEMMA CoversNow ==
    ASSUME NEW ctx, NEW new, NEW q, NEW old, new[q] = Result(ctx, q),
           Listed(new, q) = Listed(ctx, q), ScopesOf(new, q) = ScopesOf(ctx, q),
           q.table # "lines" => ScopesOf(ctx, q) = {q.scope},
           ledger \subseteq AllRows, Succeeds(old, ledger)
    PROVE  Covers(new, q, old, ledger)
  <1>1. ASSUME NEW row \in new[q]
        PROVE  Asked(new, q, row) /\ row \in AllRows /\ (row.table \in Kept => row \in ledger)
    BY DEF Result, Asked
  <1>2. ASSUME Listed(new, q), NEW row \in old, Asked(new, q, row)
        PROVE  Found(row, new[q]) /\ (row.table = "links" /\ row \in ledger => row \in new[q])
    <2>1. new[q] = {r \in ledger : Asked(new, q, r)}
      BY <1>2 DEF Result, Asked
    <2>2. Found(row, ledger)
      BY DEF Succeeds
    <2>3. \A other : SameFact(row, other) => Asked(new, q, other)
      BY <1>2 DEF SameFact, Asked
    <2> QED BY <1>2, <2>1, <2>2, <2>3 DEF Found
  <1> QED BY <1>1, <1>2 DEF Covers

\* What was covered is covered in a longer context.
LEMMA CoversExtended ==
    ASSUME NEW ctx, NEW new, NEW q, NEW old, NEW now, Covers(ctx, q, old, now), new[q] = ctx[q],
           Listed(new, q) = Listed(ctx, q), ScopesOf(new, q) = ScopesOf(ctx, q)
    PROVE  Covers(new, q, old, now)
  BY DEF Covers, Asked

LEMMA ReadKeepsContextOK ==
    ASSUME LedgerOK, ContextOK, NEW q \in Statements, Read(q)
    PROVE  ContextOK'
  <1> DEFINE done == DOMAIN context
  <1>1. PICK new : new = [p \in done \cup {q} |-> IF p = q THEN Result(context, q) ELSE context[p]]
    OBVIOUS
  <1>2. /\ context' = new /\ began' = began /\ ledger' = ledger
        /\ q \notin done /\ Predecessors[q] \subseteq done
    BY <1>1 DEF Read, Due
  <1>3. DOMAIN new = done \cup {q} /\ new[q] = Result(context, q) /\ \A p \in done : new[p] = context[p]
    BY <1>1, <1>2
  <1>4. Closed(done)
    BY DEF ContextOK
  <1> HIDE DEF done
  <1>5. Closed(DOMAIN new)
    BY <1>2, <1>3, <1>4 DEF Closed
  <1>6. ASSUME NEW p \in DOMAIN new PROVE Covers(new, p, began, ledger)
    <2>1. p \in Statements /\ Predecessors[p] \subseteq done
      BY <1>2, <1>3, <1>4 DEF Closed
    <2>2. Listed(new, p) = Listed(context, p) /\ ScopesOf(new, p) = ScopesOf(context, p)
      BY <2>1, <1>3, DependsOnEarlier DEF done
    <2>3. CASE p = q
      <3>1. ledger \subseteq AllRows /\ Succeeds(began, ledger)
        BY DEF LedgerOK
      <3>2. q.table # "lines" => ScopesOf(context, q) = {q.scope}
        BY DEF ScopesOf
      <3> QED BY <2>2, <2>3, <1>3, <3>1, <3>2, CoversNow
    <2>4. CASE p # q
      <3>1. p \in done /\ new[p] = context[p]
        BY <2>4, <1>3
      <3>2. Covers(context, p, began, ledger)
        BY <3>1 DEF ContextOK, done
      <3> QED BY <2>2, <3>1, <3>2, CoversExtended
    <2> QED BY <2>3, <2>4
  <1> QED BY <1>2, <1>5, <1>6 DEF ContextOK

LEMMA ChangeKeepsContextOK ==
    ASSUME LedgerOK, ContextOK, NEW w \in todo, Change(w)
    PROVE  ContextOK'
  <1>1. context' = context /\ began' = began
    BY DEF Change
  <1>2. Succeeds(ledger, ledger') /\ ledger' \cap began \subseteq ledger
    BY ChangeKeepsLedgerOK
  <1>3. ASSUME NEW q \in DOMAIN context PROVE Covers(context, q, began, ledger')
    <2>1. Covers(context, q, began, ledger)
      BY DEF ContextOK
    <2> QED BY <2>1, <1>2, CoversLater
  <1> QED BY <1>1, <1>3 DEF ContextOK

-----------------------------------------------------------------------------
(* What a complete context has of the ledger.                              *)

Complete(ctx, old, now) ==
    DOMAIN ctx = Statements /\ \A q \in Statements : Covers(ctx, q, old, now)

LEMMA ContractsSeen ==
    ASSUME NEW ctx, NEW old, NEW now, Complete(ctx, old, now)
    PROVE  /\ \A c \in Contracts(ctx) : c.id \in Range(ContractOrder)
           /\ \A row \in In(old, "contracts", Absent) : row.id \in IdsOf(Contracts(ctx))
  <1> DEFINE q == Statement("contracts", Absent)
  <1>1. Covers(ctx, q, old, now) /\ Contracts(ctx) = ctx[q]
    BY ListsAreStatements DEF Complete, Contracts, Seen
  <1>2. q.table = "contracts" /\ q.scope = Absent /\ Listed(ctx, q) /\ ScopesOf(ctx, q) = {Absent}
    BY DEF Statement, Listed, ScopesOf
  <1>3. ASSUME NEW c \in ctx[q] PROVE c.id \in Range(ContractOrder)
    <2>1. c \in AllRows /\ c.table = "contracts"
      BY <1>1, <1>2 DEF Covers, Asked
    <2> QED BY <2>1, OrdersAssumption
  <1>4. ASSUME NEW row \in In(old, "contracts", Absent) PROVE row.id \in IdsOf(ctx[q])
    <2>1. row \in old /\ row.table = "contracts" /\ Asked(ctx, q, row)
      BY <1>2 DEF In, Asked
    <2>2. Found(row, ctx[q])
      BY <1>1, <1>2, <2>1 DEF Covers
    <2>3. PICK other \in ctx[q] : SameFact(row, other)
      BY <2>1, <2>2 DEF Found, Revised
    <2> QED BY <2>3 DEF SameFact, IdsOf
  <1> QED BY <1>1, <1>3, <1>4

LEMMA SalesContractsSeen ==
    ASSUME NEW ctx, NEW old, NEW now, Complete(ctx, old, now), NEW t \in SalesContracts(ctx)
    PROVE  t.id \in Range(SalesOrder)
  <1> DEFINE q == Statement("sales_contracts", Absent)
  <1>1. Covers(ctx, q, old, now) /\ SalesContracts(ctx) = ctx[q] /\ q.table = "sales_contracts"
    BY ListsAreStatements DEF Complete, SalesContracts, Seen, Statement
  <1>2. t \in AllRows /\ t.table = "sales_contracts"
    BY <1>1 DEF Covers, Asked
  <1> QED BY <1>2, OrdersAssumption

\* Of a contract that is listed.
LEMMA SupplierSeen ==
    ASSUME NEW ctx, NEW old, NEW now, Complete(ctx, old, now), NEW c \in IdsOf(Contracts(ctx)),
           NEW table \in SupplierTables \ {"lines"}
    PROVE  /\ \A row \in Seen(ctx, table, c) :
                 row.table = table /\ row.scope = c /\ row \in AllRows /\ (table \in Kept => row \in now)
           /\ \A row \in In(old, table, c) : Found(row, Seen(ctx, table, c))
  <1> DEFINE q == Statement(table, c)
  <1>1. c \in Range(ContractOrder)
    BY ContractsSeen DEF IdsOf
  <1>2. Covers(ctx, q, old, now) /\ Seen(ctx, table, c) = ctx[q]
    BY <1>1, ScopesAreStatements DEF Complete, Seen
  <1>3. q.table = table /\ q.scope = c /\ Listed(ctx, q) /\ ScopesOf(ctx, q) = {c}
    BY DEF Statement, Listed, ScopesOf
  <1>4. ASSUME NEW row \in ctx[q]
        PROVE  row.table = table /\ row.scope = c /\ row \in AllRows /\ (table \in Kept => row \in now)
    BY <1>2, <1>3 DEF Covers, Asked
  <1>5. ASSUME NEW row \in In(old, table, c) PROVE Found(row, ctx[q])
    <2>1. row \in old /\ Asked(ctx, q, row)
      BY <1>3 DEF In, Asked
    <2> QED BY <2>1, <1>2, <1>3 DEF Covers
  <1> QED BY <1>2, <1>4, <1>5

\* Every fact that was there is there in some revision.
LEMMA RevisionSeen ==
    ASSUME NEW ctx, NEW old, NEW now, Complete(ctx, old, now), NEW c \in IdsOf(Contracts(ctx)),
           NEW table \in {"items", "shipments"}
    PROVE  IdsOf(In(old, table, c)) \subseteq IdsOf(Seen(ctx, table, c))
  <1> SUFFICES ASSUME NEW row \in In(old, table, c) PROVE row.id \in IdsOf(Seen(ctx, table, c))
    BY DEF IdsOf
  <1>1. Found(row, Seen(ctx, table, c))
    BY SupplierSeen DEF SupplierTables
  <1>2. row.table \in Revised
    BY DEF In, Revised
  <1>3. PICK other \in Seen(ctx, table, c) : SameFact(row, other)
    BY <1>1, <1>2 DEF Found
  <1> QED BY <1>3 DEF SameFact, IdsOf

LEMMA KeptSeen ==
    ASSUME NEW ctx, NEW old, NEW now, Complete(ctx, old, now), NEW c \in IdsOf(Contracts(ctx)),
           NEW table \in {"invoices", "payments"}
    PROVE  /\ In(old, table, c) \subseteq Seen(ctx, table, c)
           /\ Seen(ctx, table, c) \subseteq In(now, table, c)
  <1>1. table \in Kept /\ table \in SupplierTables \ {"lines"}
    BY DEF Kept, SupplierTables
  <1>2. ASSUME NEW row \in In(old, table, c) PROVE row \in Seen(ctx, table, c)
    <2>1. Found(row, Seen(ctx, table, c)) /\ row.table \in Kept
      BY <1>1, SupplierSeen DEF In
    <2> QED BY <2>1 DEF Found
  <1>3. ASSUME NEW row \in Seen(ctx, table, c) PROVE row \in In(now, table, c)
    BY <1>1, SupplierSeen DEF In
  <1> QED BY <1>2, <1>3

\* Allocations of lines are found by the items of the contract.
LEMMA LinesSeen ==
    ASSUME NEW ctx, NEW old, NEW now, Complete(ctx, old, now), NEW c \in IdsOf(Contracts(ctx))
    PROVE  /\ \A row \in Seen(ctx, "lines", c) : row.table = "lines" /\ row \in AllRows
           /\ \A row \in old : row.table = "lines" /\ row.scope \in IdsOf(Seen(ctx, "items", c)) =>
                 \E other \in Seen(ctx, "lines", c) : SameFact(row, other)
  <1> DEFINE q == Statement("lines", c)
  <1>1. c \in Range(ContractOrder)
    BY ContractsSeen DEF IdsOf
  <1>2. Covers(ctx, q, old, now) /\ Seen(ctx, "lines", c) = ctx[q]
    BY <1>1, ScopesAreStatements DEF Complete, Seen, SupplierTables
  <1>3. q.table = "lines" /\ Listed(ctx, q) /\ ScopesOf(ctx, q) = IdsOf(Seen(ctx, "items", c))
    BY DEF Statement, Listed, ScopesOf, SupplierTables
  <1>4. ASSUME NEW row \in ctx[q] PROVE row.table = "lines" /\ row \in AllRows
    BY <1>2, <1>3 DEF Covers, Asked
  <1>5. ASSUME NEW row \in old, row.table = "lines", row.scope \in IdsOf(Seen(ctx, "items", c))
        PROVE  \E other \in ctx[q] : SameFact(row, other)
    <2>1. Asked(ctx, q, row)
      BY <1>3, <1>5 DEF Asked
    <2>2. Found(row, ctx[q])
      BY <2>1, <1>2, <1>3 DEF Covers
    <2> QED BY <2>2, <1>5 DEF Found, Revised
  <1> QED BY <1>2, <1>4, <1>5

\* Of a sales contract that is listed.
LEMMA SalesSeen ==
    ASSUME NEW ctx, NEW old, NEW now, Complete(ctx, old, now), NEW t \in SalesContracts(ctx)
    PROVE  /\ In(old, "sales_invoices", t.id) \subseteq Seen(ctx, "sales_invoices", t.id)
           /\ In(old \cap now, "links", t.id) \subseteq Seen(ctx, "links", t.id)
  <1>1. t.id \in Range(SalesOrder)
    BY SalesContractsSeen
  <1>2. ASSUME NEW table \in SalesTables
        PROVE  LET q == Statement(table, t.id)
               IN  /\ Covers(ctx, q, old, now) /\ Seen(ctx, table, t.id) = ctx[q]
                   /\ Listed(ctx, q) /\ \A row \in In(old, table, t.id) : Asked(ctx, q, row)
    <2> DEFINE q == Statement(table, t.id)
    <2>1. Covers(ctx, q, old, now) /\ Seen(ctx, table, t.id) = ctx[q]
      BY <1>1, ScopesAreStatements DEF Complete, Seen
    <2>2. q.table = table /\ q.scope = t.id /\ Listed(ctx, q) /\ ScopesOf(ctx, q) = {t.id}
      BY DEF Statement, Listed, ScopesOf, IdsOf, SalesTables
    <2>3. \A row \in In(old, table, t.id) : Asked(ctx, q, row)
      BY <2>2 DEF In, Asked
    <2> QED BY <2>1, <2>2, <2>3
  <1>3. ASSUME NEW row \in In(old, "sales_invoices", t.id) PROVE row \in Seen(ctx, "sales_invoices", t.id)
    <2>1. Found(row, Seen(ctx, "sales_invoices", t.id))
      BY <1>2 DEF SalesTables, Covers, In
    <2> QED BY <2>1 DEF Found, Kept, In
  <1>4. ASSUME NEW row \in In(old \cap now, "links", t.id) PROVE row \in Seen(ctx, "links", t.id)
    <2>1. row \in In(old, "links", t.id) /\ row \in now /\ row.table = "links"
      BY DEF In
    <2> QED BY <2>1, <1>2 DEF SalesTables, Covers, In
  <1> QED BY <1>3, <1>4

-----------------------------------------------------------------------------
(* Recommendations.                                                        *)

FollowUp(c) == Finding("SUPPLIER_INVOICE_FOLLOW_UP_RECOMMENDED", c, {})
PaidFor(ctx, c) == \E row \in Seen(ctx, "payments", c) : row.payment.direction = "OUT"

LEMMA AdvisedWhen ==
    ASSUME NEW ctx, NEW asked, NEW id
    PROVE  FollowUp(id) \in Page(ctx, asked).findings <=>
               \E c \in Contracts(ctx) : c.id = id /\ PaidFor(ctx, id) /\ PurchaseInvoices(ctx, c) = {}
  <1>1. FollowUp(id) \in Page(ctx, asked).findings <=>
            \E c \in Contracts(ctx) :
                FollowUp(id) \in Blockers(c) \cup Cardinalities(ctx, c) \cup ItemRequirements(ctx, c)
                                 \cup AssociationRequirements(ctx, c)
    BY DEF Page
  <1>2. ASSUME NEW c \in Contracts(ctx)
        PROVE  FollowUp(id) \notin Blockers(c) \cup ItemRequirements(ctx, c) \cup AssociationRequirements(ctx, c)
    <2>1. FollowUp(id) \notin Blockers(c)
      BY DEF FollowUp, Blockers, Finding
    <2>2. FollowUp(id) \notin ItemRequirements(ctx, c)
      BY DEF FollowUp, ItemRequirements, Finding
    <2>3. FollowUp(id) \notin AssociationRequirements(ctx, c)
      BY DEF FollowUp, AssociationRequirements, Finding
    <2> QED BY <2>1, <2>2, <2>3
  <1>3. ASSUME NEW c \in Contracts(ctx)
        PROVE  FollowUp(id) \in Cardinalities(ctx, c) <=>
                   c.id = id /\ PaidFor(ctx, id) /\ PurchaseInvoices(ctx, c) = {}
    <2>1. FollowUp(id) \in Cardinalities(ctx, c) <=>
              \E x \in {x \in {c} : PaidFor(ctx, c.id) /\ PurchaseInvoices(ctx, c) = {}} :
                  FollowUp(id) = Finding("SUPPLIER_INVOICE_FOLLOW_UP_RECOMMENDED", c.id, {})
      BY DEF FollowUp, Cardinalities, Finding, PaidFor
    <2>2. FollowUp(id) = Finding("SUPPLIER_INVOICE_FOLLOW_UP_RECOMMENDED", c.id, {}) <=> c.id = id
      BY DEF FollowUp, Finding
    <2> QED BY <2>1, <2>2
  <1> QED BY <1>1, <1>2, <1>3

LEMMA FollowUpHolds ==
    ASSUME NEW ctx, NEW asked, NEW old, NEW now, Complete(ctx, old, now),
           NEW row \in In(old, "contracts", Absent)
    PROVE  /\ FollowUp(row.id) \in Page(ctx, asked).findings =>
                  ~Invoiced(old, row.id) /\ Paid(now, row.id)
           /\ Paid(old, row.id) /\ ~Invoiced(now, row.id) =>
                  FollowUp(row.id) \in Page(ctx, asked).findings
  <1> DEFINE id == row.id
  <1>1. id \in IdsOf(Contracts(ctx))
    BY ContractsSeen
  <1>2. /\ In(old, "invoices", id) \subseteq Seen(ctx, "invoices", id)
        /\ Seen(ctx, "invoices", id) \subseteq In(now, "invoices", id)
        /\ In(old, "payments", id) \subseteq Seen(ctx, "payments", id)
        /\ Seen(ctx, "payments", id) \subseteq In(now, "payments", id)
    BY <1>1, KeptSeen
  <1>3. (Invoiced(old, id) => \E r \in Seen(ctx, "invoices", id) : r.invoice.direction = "PURCHASE")
        /\ ((\E r \in Seen(ctx, "invoices", id) : r.invoice.direction = "PURCHASE") => Invoiced(now, id))
    BY <1>2 DEF Invoiced
  <1>4. (Paid(old, id) => PaidFor(ctx, id)) /\ (PaidFor(ctx, id) => Paid(now, id))
    BY <1>2 DEF Paid, PaidFor
  <1>5. ASSUME NEW c \in Contracts(ctx), c.id = id
        PROVE  PurchaseInvoices(ctx, c) # {} <=>
                   \E r \in Seen(ctx, "invoices", id) : r.invoice.direction = "PURCHASE"
    BY <1>5 DEF PurchaseInvoices
  <1>6. PICK c \in Contracts(ctx) : c.id = id
    BY <1>1 DEF IdsOf
  <1>7. FollowUp(id) \in Page(ctx, asked).findings <=>
            \E d \in Contracts(ctx) : d.id = id /\ PaidFor(ctx, id) /\ PurchaseInvoices(ctx, d) = {}
    BY AdvisedWhen
  <1>8. ASSUME FollowUp(id) \in Page(ctx, asked).findings PROVE ~Invoiced(old, id) /\ Paid(now, id)
    <2>1. PICK d \in Contracts(ctx) : d.id = id /\ PaidFor(ctx, id) /\ PurchaseInvoices(ctx, d) = {}
      BY <1>7, <1>8
    <2> QED BY <2>1, <1>3, <1>4, <1>5
  <1>9. ASSUME Paid(old, id), ~Invoiced(now, id) PROVE FollowUp(id) \in Page(ctx, asked).findings
    <2>1. PurchaseInvoices(ctx, c) = {}
      BY <1>3, <1>5, <1>6, <1>9
    <2> QED BY <2>1, <1>4, <1>6, <1>7, <1>9
  <1> QED BY <1>8, <1>9

-----------------------------------------------------------------------------
(* Split lines.                                                            *)

LEMMA CheckFields ==
    ASSUME NEW name, NEW scope, NEW against, NEW outcome
    PROVE  LET k == Check(name, scope, against, outcome)
           IN  k.check = name /\ k.scope = scope /\ k.against = against /\ k.outcome = outcome
  BY DEF Check

\* Every check of a page, by its name.
LEMMA ChecksAre ==
    ASSUME NEW ctx, NEW asked, NEW k \in Page(ctx, asked).checks
    PROVE  \/ \E t \in SalesContracts(ctx) : k \in SalesChecks(ctx, t, asked)
           \/ \E c \in Contracts(ctx) : k \in SupplierChecks(ctx, c)
  BY DEF Page

\* The four checks of a sales contract.
SalesInvoiceChecks(ctx, t, asked) ==
    {Check("sales amount", t.id, IdsOf(SalesInvoices(ctx, t)), AmountOutcome(t, SalesInvoices(ctx, t), asked)),
     Check("sales quantity", t.id, IdsOf(SalesInvoices(ctx, t)), InvoiceQuantityOutcome(t, SalesInvoices(ctx, t)))}
SalesShipmentChecks(ctx, t) ==
    {Check("customs", t.id, IdsOf(LinkedShipments(ctx, t)), CustomsOutcome(ctx, t, LinkedShipments(ctx, t))),
     Check("shipped quantity", t.id, IdsOf(LinkedShipments(ctx, t)),
           ShippedQuantityOutcome(ctx, t, LinkedShipments(ctx, t)))}

LEMMA SalesChecksAre ==
    ASSUME NEW ctx, NEW t, NEW asked
    PROVE  SalesChecks(ctx, t, asked) = SalesInvoiceChecks(ctx, t, asked) \cup SalesShipmentChecks(ctx, t)
  BY DEF SalesChecks, SalesInvoiceChecks, SalesShipmentChecks

LEMMA SalesCheckNames ==
    ASSUME NEW ctx, NEW t, NEW asked, NEW k \in SalesChecks(ctx, t, asked)
    PROVE  k.check \in {"sales amount", "sales quantity", "customs", "shipped quantity"}
  <1>1. \E name \in {"sales amount", "sales quantity", "customs", "shipped quantity"} :
            \E against, outcome : k = Check(name, t.id, against, outcome)
    BY SalesChecksAre DEF SalesInvoiceChecks, SalesShipmentChecks
  <1>2. PICK name : /\ name \in {"sales amount", "sales quantity", "customs", "shipped quantity"}
                    /\ \E against, outcome : k = Check(name, t.id, against, outcome)
    BY <1>1
  <1>3. PICK against, outcome : k = Check(name, t.id, against, outcome)
    BY <1>2
  <1>4. k.check = name
    BY <1>3, CheckFields
  <1> QED BY <1>2, <1>4

\* The amount of a purchase contract is compared with the only invoice.
LEMMA PurchaseAmountCheck ==
    ASSUME NEW ctx, NEW c, NEW k \in PurchaseAmountChecks(ctx, c)
    PROVE  /\ k.check = "purchase amount" /\ k.scope = c.id
           /\ k.outcome # "MISSING_FACT" =>
                 ~Several(PurchaseInvoices(ctx, c)) /\ k.against = IdsOf(PurchaseInvoices(ctx, c))
  <1> DEFINE confirmed == PurchaseInvoices(ctx, c)
             all       == {row.invoice : row \in Seen(ctx, "invoices", c.id)}
             one       == Check("purchase amount", c.id, IdsOf(confirmed), PurchaseAmountOutcome(c, Sole(confirmed)))
             other     == Check("purchase amount", c.id, IdsOf(all), "MISSING_FACT")
  <1>1. PurchaseAmountChecks(ctx, c) =
            IF confirmed # {} /\ ~Several(confirmed) THEN {one}
            ELSE IF confirmed = {} /\ all # {} /\ ~Several(all) THEN {other} ELSE {}
    BY DEF PurchaseAmountChecks
  <1> HIDE DEF all, confirmed
  <1>2. one.check = "purchase amount" /\ one.scope = c.id /\ one.against = IdsOf(confirmed)
    BY DEF Check
  <1>5. other.check = "purchase amount" /\ other.scope = c.id /\ other.outcome = "MISSING_FACT"
    BY DEF Check
  <1> HIDE DEF one, other
  <1> HIDE DEF all, confirmed
  <1>3. \/ k = one /\ ~Several(confirmed)
        \/ k = other
    BY <1>1
  <1>4. \/ k.check = "purchase amount" /\ k.scope = c.id /\ k.against = IdsOf(confirmed) /\ ~Several(confirmed)
        \/ k.check = "purchase amount" /\ k.scope = c.id /\ k.outcome = "MISSING_FACT"
    BY <1>2, <1>3, <1>5
  <1> QED BY <1>4 DEF confirmed

LEMMA SupplierCheckNames ==
    ASSUME NEW ctx, NEW c, NEW k
    PROVE  /\ k \in PurchaseAmountChecks(ctx, c) => k.check = "purchase amount"
           /\ k \in NameChecks(ctx, c) => k.check = "name"
           /\ k \in LineQuantityChecks(ctx, c) => k.check = "line quantity"
           /\ k \in ShipmentQuantityChecks(ctx, c) => k.check = "shipment quantity"
  <1>1. ASSUME k \in PurchaseAmountChecks(ctx, c) PROVE k.check = "purchase amount"
    BY <1>1, PurchaseAmountCheck
  <1>2. ASSUME k \in NameChecks(ctx, c) PROVE k.check = "name"
    <2>1. PICK row \in LinesOf(ctx, c) : k = Check("name", row.scope, {row.line.id}, NameOutcome(ctx, c, row))
      BY <1>2 DEF NameChecks
    <2> QED BY <2>1 DEF Check
  <1>3. ASSUME k \in LineQuantityChecks(ctx, c) PROVE k.check = "line quantity"
    <2>1. PICK item \in ItemsOf(ctx, c) :
            k = LET row == Sole(AllocationsOf(ctx, c, item))
                IN  Check("line quantity", item.id, {row.line.id}, LineQuantityOutcome(item, row))
      BY <1>3 DEF LineQuantityChecks
    <2> QED BY <2>1 DEF Check
  <1>4. ASSUME k \in ShipmentQuantityChecks(ctx, c) PROVE k.check = "shipment quantity"
    <2>1. PICK item \in ItemsOf(ctx, c) :
            k = LET shipment == Sole(ShipmentsOf(ctx, c, item))
                IN  Check("shipment quantity", item.id, {shipment.id}, ShipmentQuantityOutcome(item, shipment))
      BY <1>4 DEF ShipmentQuantityChecks
    <2> QED BY <2>1 DEF Check
  <1> QED BY <1>1, <1>2, <1>3, <1>4

LEMMA OnlyOne == ASSUME NEW S, ~Several(S), NEW x \in S PROVE Sole(S) = x /\ S = {x}
  BY DEF Several, Sole

\* A line's quantity is compared with an item's.
ComparedLine(ctx, k, c, item, row) ==
    /\ AllocationsOf(ctx, c, item) = {row} /\ ~Several(ItemsOfLine(ctx, row.line))
    /\ k.scope = item.id /\ row.scope = item.id /\ k.against = {row.line.id}
    /\ k.outcome = LineQuantityOutcome(item, row)

LEMMA LineQuantityCheck ==
    ASSUME NEW ctx, NEW asked, NEW k \in Page(ctx, asked).checks, k.check = "line quantity"
    PROVE  \E c \in Contracts(ctx) : \E item \in ItemsOf(ctx, c) : \E row \in LinesOf(ctx, c) :
               ComparedLine(ctx, k, c, item, row)
  <1>1. PICK c \in Contracts(ctx) : k \in LineQuantityChecks(ctx, c)
    <2>1. ASSUME NEW t, k \in SalesChecks(ctx, t, asked) PROVE FALSE
      BY <2>1, SalesCheckNames
    <2>2. PICK c \in Contracts(ctx) : k \in SupplierChecks(ctx, c)
      BY <2>1, ChecksAre
    <2>3. k \in LineQuantityChecks(ctx, c)
      BY <2>2, SupplierCheckNames DEF SupplierChecks
    <2> QED BY <2>3
  <1>2. PICK item \in ItemsOf(ctx, c) :
            /\ OneToOne(ctx, c, item)
            /\ k = LET row == Sole(AllocationsOf(ctx, c, item))
                   IN  Check("line quantity", item.id, {row.line.id}, LineQuantityOutcome(item, row))
    BY <1>1 DEF LineQuantityChecks
  <1>3. PICK row \in AllocationsOf(ctx, c, item) : TRUE
    BY <1>2 DEF OneToOne
  <1>4. ~Several(AllocationsOf(ctx, c, item)) /\ ~Several(ItemsOfLine(ctx, row.line))
    BY <1>2, <1>3 DEF OneToOne, ManyToMany
  <1>5. AllocationsOf(ctx, c, item) = {row} /\ Sole(AllocationsOf(ctx, c, item)) = row
    BY <1>3, <1>4, OnlyOne
  <1>6. row \in LinesOf(ctx, c) /\ row.scope = item.id
    BY <1>3 DEF AllocationsOf
  <1>7. k.scope = item.id /\ k.against = {row.line.id} /\ k.outcome = LineQuantityOutcome(item, row)
    BY <1>2, <1>5 DEF Check
  <1>8. ComparedLine(ctx, k, c, item, row)
    BY <1>4, <1>5, <1>6, <1>7 DEF ComparedLine
  <1> QED BY <1>6, <1>8

\* An allocation of a line that was there when the page was begun is among what
\* was read of some contract, with the item it is for.
LEMMA AllocationSeen ==
    ASSUME NEW ctx, NEW old, NEW now, Complete(ctx, old, now), Owned(old), old \subseteq AllRows,
           NEW row \in old, row.table = "lines"
    PROVE  \E c \in Contracts(ctx) :
               /\ row.scope \in IdsOf(ItemsOf(ctx, c))
               /\ \E other \in LinesOf(ctx, c) : other.scope = row.scope /\ other.line = row.line
                                              /\ (IsPurchase(row) => IsPurchase(other))
  <1>1. PICK item \in old : item.table = "items" /\ item.id = row.scope
    BY DEF Owned, Owner
  <1>2. PICK contract \in old : contract.table = "contracts" /\ contract.id = item.scope
    BY <1>1 DEF Owned, Owner
  <1>3. contract \in In(old, "contracts", Absent)
    BY <1>2, OrdersAssumption DEF In
  <1>4. PICK c \in Contracts(ctx) : c.id = item.scope
    BY <1>2, <1>3, ContractsSeen DEF IdsOf
  <1>5. c.id \in IdsOf(Contracts(ctx))
    BY DEF IdsOf
  <1>6. row.scope \in IdsOf(In(old, "items", c.id))
    BY <1>1, <1>4 DEF In, IdsOf
  <1>7. row.scope \in IdsOf(Seen(ctx, "items", c.id))
    BY <1>5, <1>6, RevisionSeen
  <1>8. PICK other \in Seen(ctx, "lines", c.id) : SameFact(row, other)
    BY <1>5, <1>7, LinesSeen
  <1>9. other \in AllRows /\ row \in AllRows
    BY <1>5, LinesSeen
  <1>10. other.line = row.line /\ other.invoice = row.invoice /\ other.scope = row.scope
    BY <1>8, <1>9, IdsAssumption DEF SameFact
  <1>11. IsPurchase(row) => IsPurchase(other)
    BY <1>10 DEF IsPurchase
  <1> QED BY <1>7, <1>10, <1>11 DEF LinesOf, ItemsOf

LEMMA AllItemsOfLine ==
    ASSUME NEW ctx, NEW old, NEW now, Complete(ctx, old, now), Owned(old), old \subseteq AllRows,
           NEW line, line \in AllRows, line.table = "lines"
    PROVE  ItemsWith(old, Line(line)) \subseteq ItemsOfLine(ctx, line.line)
  <1> SUFFICES ASSUME NEW row \in old, row.table = "lines", Line(row) = Line(line), IsPurchase(row)
               PROVE  row.scope \in ItemsOfLine(ctx, line.line)
    BY DEF ItemsWith
  <1>1. PICK c \in Contracts(ctx) :
            \E other \in LinesOf(ctx, c) : other.scope = row.scope /\ other.line = row.line
                                           /\ (IsPurchase(row) => IsPurchase(other))
    BY AllocationSeen
  <1>2. PICK other \in LinesOf(ctx, c) : /\ other.scope = row.scope /\ other.line = row.line
                                        /\ IsPurchase(other)
    BY <1>1
  <1>3. row.line = line.line
    BY IdsAssumption DEF Line
  <1>4. other \in UNION {LinesOf(ctx, d) : d \in Contracts(ctx)}
    OBVIOUS
  <1>5. other.scope \in ItemsOfLine(ctx, line.line)
    BY <1>2, <1>3, <1>4 DEF ItemsOfLine
  <1> QED BY <1>2, <1>5

LEMMA LinesOneToOne ==
    ASSUME NEW ctx, NEW asked, NEW old, NEW now, Complete(ctx, old, now), Owned(old), old \subseteq AllRows,
           NEW k \in Page(ctx, asked).checks, k.check = "line quantity", k.outcome \in Compared
    PROVE  /\ ~Several(IdsOf(In(old, "lines", k.scope)))
           /\ \A line \in k.against : ItemsWith(old, line) \subseteq {k.scope}
  <1> PICK c \in Contracts(ctx) : \E item \in ItemsOf(ctx, c) : \E row \in LinesOf(ctx, c) :
               ComparedLine(ctx, k, c, item, row)
    BY LineQuantityCheck
  <1> PICK item \in ItemsOf(ctx, c) : \E row \in LinesOf(ctx, c) : ComparedLine(ctx, k, c, item, row)
    OBVIOUS
  <1> PICK row \in LinesOf(ctx, c) : ComparedLine(ctx, k, c, item, row)
    OBVIOUS
  <1>1. /\ AllocationsOf(ctx, c, item) = {row} /\ ~Several(ItemsOfLine(ctx, row.line))
        /\ k.scope = item.id /\ row.scope = item.id /\ k.against = {row.line.id}
        /\ k.outcome = LineQuantityOutcome(item, row)
    BY DEF ComparedLine
  <1>2. c.id \in IdsOf(Contracts(ctx))
    BY DEF IdsOf
  <1>3. row \in AllRows /\ row.table = "lines"
    BY <1>2, LinesSeen DEF LinesOf
  <1>4. IsPurchase(row)
    BY <1>1 DEF LineQuantityOutcome, Compared
  <1>5. ASSUME NEW other \in In(old, "lines", item.id) PROVE other.id = row.id
    <2>1. item.id \in IdsOf(Seen(ctx, "items", c.id))
      BY DEF IdsOf, ItemsOf
    <2>2. PICK found \in LinesOf(ctx, c) : SameFact(other, found)
      BY <1>2, <2>1, LinesSeen DEF In, LinesOf
    <2>3. found \in AllocationsOf(ctx, c, item)
      BY <2>2 DEF SameFact, In, AllocationsOf
    <2>4. found = row
      BY <1>1, <2>3
    <2> QED BY <2>2, <2>4 DEF SameFact
  <1>6. item.id \in ItemsOfLine(ctx, row.line)
    <2>1. row \in UNION {LinesOf(ctx, d) : d \in Contracts(ctx)}
      OBVIOUS
    <2> QED BY <1>1, <1>4, <2>1 DEF ItemsOfLine
  <1>7. ItemsOfLine(ctx, row.line) = {item.id}
    <2>1. ~Several(ItemsOfLine(ctx, row.line))
      BY <1>1
    <2> QED BY <2>1, <1>6 DEF Several
  <1>8. ItemsWith(old, Line(row)) \subseteq {item.id}
    BY <1>3, <1>7, AllItemsOfLine
  <1>9. ~Several(IdsOf(In(old, "lines", item.id)))
    BY <1>5 DEF Several, IdsOf
  <1> QED BY <1>1, <1>8, <1>9 DEF Line

LEMMA SplitLinesTold ==
    ASSUME NEW ctx, NEW asked, NEW old, NEW now, Complete(ctx, old, now), Owned(old), old \subseteq AllRows,
           NEW row \in old, row.table = "lines", Several(ItemsWith(old, Line(row)))
    PROVE  \E f \in Page(ctx, asked).findings :
               /\ f.code = "MANY_TO_MANY_INVOICE_ITEM_ALLOCATION" /\ f.scope = row.scope
               /\ Line(row) \in f.about
  <1>1. PICK c \in Contracts(ctx) :
            /\ row.scope \in IdsOf(ItemsOf(ctx, c))
            /\ \E other \in LinesOf(ctx, c) : other.scope = row.scope /\ other.line = row.line
    BY AllocationSeen
  <1>2. PICK item \in ItemsOf(ctx, c) : item.id = row.scope
    BY <1>1 DEF IdsOf
  <1>3. PICK other \in AllocationsOf(ctx, c, item) : other.line = row.line
    BY <1>1, <1>2 DEF AllocationsOf
  <1>4. ItemsWith(old, Line(row)) \subseteq ItemsOfLine(ctx, row.line)
    BY AllItemsOfLine
  <1>5. Several(ItemsOfLine(ctx, row.line))
    BY <1>4 DEF Several
  <1>6. ManyToMany(ctx, c, item)
    BY <1>3, <1>5 DEF ManyToMany
  <1> DEFINE f == Finding("MANY_TO_MANY_INVOICE_ITEM_ALLOCATION", item.id,
                          {r.line.id : r \in AllocationsOf(ctx, c, item)})
  <1>7. f \in AssociationRequirements(ctx, c)
    BY <1>6 DEF AssociationRequirements
  <1>8. f \in Page(ctx, asked).findings
    BY <1>7 DEF Page
  <1>9. /\ f.code = "MANY_TO_MANY_INVOICE_ITEM_ALLOCATION" /\ f.scope = row.scope
        /\ Line(row) \in f.about
    BY <1>2, <1>3 DEF Finding, Line
  <1> HIDE DEF f
  <1> QED BY <1>8, <1>9

-----------------------------------------------------------------------------
(* What is chosen.                                                         *)

LEMMA OneId == ASSUME NEW S, ~Several(S) PROVE ~Several(IdsOf(S))
  BY DEF Several, IdsOf

LEMMA NotSeveral == ASSUME NEW x PROVE ~Several({x})
  BY DEF Several

LEMMA AmountJudged ==
    ASSUME NEW t, NEW invoices, NEW asked, AmountOutcome(t, invoices, asked) \in Judged
    PROVE  ~Several(invoices)
  <1>1. FxReason(asked) \in {"FX_MISSING", "FX_AMBIGUOUS", Absent}
    BY DEF FxReason
  <1>2. FxReason(asked) # Absent => FxReason(asked) \notin Judged
    BY <1>1 DEF Judged, Compared
  <1>3. "MISSING_FACT" \notin Judged /\ "AMBIGUOUS_SCOPE" \notin Judged
    BY DEF Judged, Compared
  <1> QED BY <1>2, <1>3 DEF AmountOutcome

LEMMA InvoiceQuantityJudged ==
    ASSUME NEW t, NEW invoices, InvoiceQuantityOutcome(t, invoices) \in Judged
    PROVE  ~Several(invoices)
  <1>1. "MISSING_FACT" \notin Judged /\ "AMBIGUOUS_SCOPE" \notin Judged
    BY DEF Judged, Compared
  <1> QED BY <1>1 DEF InvoiceQuantityOutcome

\* Only under a single link, and for a single shipment.
SoleShipment(ctx, t, shipments) ==
    ~Several(LinkedContracts(ctx, t)) /\ ~Several(shipments) /\ shipments # {}

LEMMA CustomsJudged ==
    ASSUME NEW ctx, NEW t, NEW shipments, CustomsOutcome(ctx, t, shipments) \in Judged
    PROVE  SoleShipment(ctx, t, shipments)
  <1>1. "MISSING_FACT" \notin Judged /\ "AMBIGUOUS_SCOPE" \notin Judged
    BY DEF Judged, Compared
  <1> QED BY <1>1 DEF CustomsOutcome, SoleShipment

LEMMA ShippedQuantityJudged ==
    ASSUME NEW ctx, NEW t, NEW shipments, ShippedQuantityOutcome(ctx, t, shipments) \in Judged
    PROVE  SoleShipment(ctx, t, shipments)
  <1>1. "MISSING_FACT" \notin Judged /\ "AMBIGUOUS_SCOPE" \notin Judged
    BY DEF Judged, Compared
  <1> QED BY <1>1 DEF ShippedQuantityOutcome, SoleShipment

LEMMA SalesInvoiceCheck ==
    ASSUME NEW ctx, NEW t, NEW asked, NEW k \in SalesInvoiceChecks(ctx, t, asked)
    PROVE  /\ k.check \in {"sales amount", "sales quantity"} /\ k.scope = t.id
           /\ k.against = IdsOf(SalesInvoices(ctx, t))
           /\ k.outcome \in Judged => ~Several(SalesInvoices(ctx, t))
  <1> DEFINE invoices == SalesInvoices(ctx, t)
             amount   == Check("sales amount", t.id, IdsOf(invoices), AmountOutcome(t, invoices, asked))
             quantity == Check("sales quantity", t.id, IdsOf(invoices), InvoiceQuantityOutcome(t, invoices))
  <1>1. k = amount \/ k = quantity
    BY DEF SalesInvoiceChecks
  <1>2. CASE k = amount
    <2>1. /\ k.check = "sales amount" /\ k.scope = t.id /\ k.against = IdsOf(invoices)
          /\ k.outcome = AmountOutcome(t, invoices, asked)
      BY <1>2 DEF Check
    <2> QED BY <2>1, AmountJudged
  <1>3. CASE k = quantity
    <2>1. /\ k.check = "sales quantity" /\ k.scope = t.id /\ k.against = IdsOf(invoices)
          /\ k.outcome = InvoiceQuantityOutcome(t, invoices)
      BY <1>3 DEF Check
    <2> QED BY <2>1, InvoiceQuantityJudged
  <1> QED BY <1>1, <1>2, <1>3

LEMMA SalesShipmentCheck ==
    ASSUME NEW ctx, NEW t, NEW k \in SalesShipmentChecks(ctx, t)
    PROVE  /\ k.check \in {"customs", "shipped quantity"} /\ k.scope = t.id
           /\ k.against = IdsOf(LinkedShipments(ctx, t))
           /\ k.outcome \in Judged => SoleShipment(ctx, t, LinkedShipments(ctx, t))
  <1> DEFINE shipments == LinkedShipments(ctx, t)
             customs == Check("customs", t.id, IdsOf(shipments), CustomsOutcome(ctx, t, shipments))
             shipped == Check("shipped quantity", t.id, IdsOf(shipments),
                              ShippedQuantityOutcome(ctx, t, shipments))
  <1>1. k = customs \/ k = shipped
    BY DEF SalesShipmentChecks
  <1>2. CASE k = customs
    <2>1. /\ k.check = "customs" /\ k.scope = t.id /\ k.against = IdsOf(shipments)
          /\ k.outcome = CustomsOutcome(ctx, t, shipments)
      BY <1>2 DEF Check
    <2> QED BY <2>1, CustomsJudged
  <1>3. CASE k = shipped
    <2>1. /\ k.check = "shipped quantity" /\ k.scope = t.id /\ k.against = IdsOf(shipments)
          /\ k.outcome = ShippedQuantityOutcome(ctx, t, shipments)
      BY <1>3 DEF Check
    <2> QED BY <2>1, ShippedQuantityJudged
  <1> QED BY <1>1, <1>2, <1>3

LEMMA SalesInvoiceChosen ==
    ASSUME NEW ctx, NEW asked, NEW old, NEW now, Complete(ctx, old, now), NEW t \in SalesContracts(ctx),
           NEW k \in SalesInvoiceChecks(ctx, t, asked), k.outcome \in Judged
    PROVE  Chosen(k, old, now)
  <1>1. /\ k.check \in {"sales amount", "sales quantity"} /\ k.scope = t.id
        /\ k.against = IdsOf(SalesInvoices(ctx, t)) /\ ~Several(SalesInvoices(ctx, t))
    BY SalesInvoiceCheck
  <1>2. ~Several(k.against)
    BY <1>1, OneId
  <1>3. InvoicesOf(old, "sales_invoices", t.id, "SALES") \subseteq IdsOf(SalesInvoices(ctx, t))
    <2>1. In(old, "sales_invoices", t.id) \subseteq Seen(ctx, "sales_invoices", t.id)
      BY SalesSeen
    <2> QED BY <2>1 DEF InvoicesOf, IdsOf, SalesInvoices
  <1> QED BY <1>1, <1>2, <1>3 DEF Chosen

LEMMA PurchaseAmountChosen ==
    ASSUME NEW ctx, NEW old, NEW now, Complete(ctx, old, now), NEW c \in Contracts(ctx),
           NEW k \in PurchaseAmountChecks(ctx, c), k.outcome \in Judged
    PROVE  Chosen(k, old, now)
  <1>1. k.outcome # "MISSING_FACT"
    BY DEF Judged, Compared
  <1>2. /\ k.check = "purchase amount" /\ k.scope = c.id
        /\ ~Several(PurchaseInvoices(ctx, c)) /\ k.against = IdsOf(PurchaseInvoices(ctx, c))
    BY <1>1, PurchaseAmountCheck
  <1>3. ~Several(k.against)
    BY <1>2, OneId
  <1>4. InvoicesOf(old, "invoices", c.id, "PURCHASE") \subseteq IdsOf(PurchaseInvoices(ctx, c))
    <2>1. c.id \in IdsOf(Contracts(ctx))
      BY DEF IdsOf
    <2>2. In(old, "invoices", c.id) \subseteq Seen(ctx, "invoices", c.id)
      BY <2>1, KeptSeen
    <2> QED BY <2>2 DEF InvoicesOf, IdsOf, PurchaseInvoices
  <1> QED BY <1>2, <1>3, <1>4 DEF Chosen

LEMMA SalesShipmentChosen ==
    ASSUME NEW ctx, NEW old, NEW now, Complete(ctx, old, now), NEW t \in SalesContracts(ctx),
           NEW k \in SalesShipmentChecks(ctx, t), k.outcome \in Judged
    PROVE  Chosen(k, old, now)
  <1> DEFINE shipments == LinkedShipments(ctx, t)
  <1>1. /\ k.check \in {"customs", "shipped quantity"} /\ k.scope = t.id /\ k.against = IdsOf(shipments)
        /\ ~Several(LinkedContracts(ctx, t)) /\ ~Several(shipments) /\ shipments # {}
    BY SalesShipmentCheck DEF SoleShipment
  <1>2. ~Several(k.against)
    BY <1>1, OneId
  <1>3. LinkedBy(old \cap now, t.id) \subseteq LinkedContracts(ctx, t)
    <2>1. In(old \cap now, "links", t.id) \subseteq Seen(ctx, "links", t.id)
      BY SalesSeen
    <2> QED BY <2>1 DEF LinkedBy, LinkedContracts
  <1>4. ~Several(LinkedBy(old \cap now, t.id))
    BY <1>1, <1>3 DEF Several
  <1>5. PICK c \in LinkedContracts(ctx, t) : ShipmentsOn(ctx, c) # {}
    BY <1>1 DEF LinkedShipments
  <1>6. c \in IdsOf(Contracts(ctx)) /\ ShipmentsOn(ctx, c) = Seen(ctx, "shipments", c)
    BY <1>5 DEF ShipmentsOn
  <1>7. Seen(ctx, "shipments", c) \subseteq shipments
    BY <1>5, <1>6 DEF LinkedShipments
  <1>8. PICK shipment \in Seen(ctx, "shipments", c) : TRUE
    BY <1>5, <1>6
  <1>9. shipment.table = "shipments" /\ shipment.scope = c /\ shipment \in AllRows
    BY <1>6, SupplierSeen DEF SupplierTables
  <1>10. shipments = {shipment}
    BY <1>1, <1>7, <1>8, OnlyOne
  <1> HIDE DEF shipments
  <1>11. k.against = {shipment.id}
    BY <1>1, <1>10 DEF IdsOf
  <1>12. ASSUME NEW row \in AllRows, row.table = "shipments", row.id \in k.against PROVE row.scope = c
    BY <1>9, <1>11, <1>12, IdsAssumption
  <1>13. IdsOf(In(old, "shipments", c)) \subseteq k.against
    <2>1. IdsOf(In(old, "shipments", c)) \subseteq IdsOf(Seen(ctx, "shipments", c))
      BY <1>6, RevisionSeen
    <2>2. IdsOf(Seen(ctx, "shipments", c)) \subseteq k.against
      BY <1>1, <1>7 DEF IdsOf
    <2> QED BY <2>1, <2>2
  <1>14. OfOneContract(k.against, old)
    BY <1>12, <1>13 DEF OfOneContract
  <1> QED BY <1>1, <1>2, <1>4, <1>14 DEF Chosen

\* The others are of one line or one shipment.
LEMMA OthersChosen ==
    ASSUME NEW ctx, NEW c, NEW old, NEW now,
           NEW k \in NameChecks(ctx, c) \cup LineQuantityChecks(ctx, c) \cup ShipmentQuantityChecks(ctx, c)
    PROVE  Chosen(k, old, now)
  <1>1. k.check \in {"name", "line quantity", "shipment quantity"}
    BY SupplierCheckNames
  <1>2. ASSUME k \in NameChecks(ctx, c) PROVE ~Several(k.against)
    <2>1. PICK row \in LinesOf(ctx, c) : k = Check("name", row.scope, {row.line.id}, NameOutcome(ctx, c, row))
      BY <1>2 DEF NameChecks
    <2>2. k.against = {row.line.id}
      BY <2>1 DEF Check
    <2> QED BY <2>2, NotSeveral
  <1>3. ASSUME k \in LineQuantityChecks(ctx, c) PROVE ~Several(k.against)
    <2>1. PICK item \in ItemsOf(ctx, c) :
            k = LET row == Sole(AllocationsOf(ctx, c, item))
                IN  Check("line quantity", item.id, {row.line.id}, LineQuantityOutcome(item, row))
      BY <1>3 DEF LineQuantityChecks
    <2>2. \E x : k.against = {x}
      BY <2>1 DEF Check
    <2> QED BY <2>2, NotSeveral
  <1>4. ASSUME k \in ShipmentQuantityChecks(ctx, c) PROVE ~Several(k.against)
    <2>1. PICK item \in ItemsOf(ctx, c) :
            k = LET shipment == Sole(ShipmentsOf(ctx, c, item))
                IN  Check("shipment quantity", item.id, {shipment.id}, ShipmentQuantityOutcome(item, shipment))
      BY <1>4 DEF ShipmentQuantityChecks
    <2>2. \E x : k.against = {x}
      BY <2>1 DEF Check
    <2> QED BY <2>2, NotSeveral
  <1>5. ~Several(k.against)
    BY <1>2, <1>3, <1>4
  <1>6. /\ k.check \notin {"sales amount", "sales quantity"} /\ k.check # "purchase amount"
        /\ k.check \notin {"customs", "shipped quantity"}
    BY <1>1
  <1> QED BY <1>5, <1>6 DEF Chosen

LEMMA ChoiceHolds ==
    ASSUME NEW ctx, NEW asked, NEW old, NEW now, Complete(ctx, old, now),
           NEW k \in Page(ctx, asked).checks, k.outcome \in Judged
    PROVE  Chosen(k, old, now)
  <1>1. ASSUME NEW t \in SalesContracts(ctx), k \in SalesChecks(ctx, t, asked) PROVE Chosen(k, old, now)
    <2>1. CASE k \in SalesInvoiceChecks(ctx, t, asked)
      BY <2>1, SalesInvoiceChosen
    <2>2. CASE k \in SalesShipmentChecks(ctx, t)
      BY <2>2, SalesShipmentChosen
    <2> QED BY <1>1, <2>1, <2>2, SalesChecksAre
  <1>2. ASSUME NEW c \in Contracts(ctx), k \in SupplierChecks(ctx, c) PROVE Chosen(k, old, now)
    <2>1. CASE k \in PurchaseAmountChecks(ctx, c)
      BY <2>1, PurchaseAmountChosen
    <2>2. CASE k \in NameChecks(ctx, c) \cup LineQuantityChecks(ctx, c) \cup ShipmentQuantityChecks(ctx, c)
      BY <2>2, OthersChosen
    <2> QED BY <1>2, <2>1, <2>2 DEF SupplierChecks
  <1> QED BY <1>1, <1>2, ChecksAre

-----------------------------------------------------------------------------
(* Every step keeps the invariant.                                         *)

LEMMA PageInitInv == ASSUME PageInit PROVE PageInv
  <1>1. LedgerOK
    <2>1. ledger = Base /\ began = Base /\ todo \in Scenarios
      BY DEF PageInit
    <2>2. Base \subseteq AllRows
      BY DEF AllRows
    <2>3. \A w \in todo : w.add \cap (ledger \cup began) = {}
      BY <2>1, CommitsAssumption
    <2> QED BY <2>1, <2>2, <2>3, BaseAssumption, SucceedsItself DEF LedgerOK
  <1>2. ContextOK
    BY ContextBegins DEF PageInit
  <1>3. page = Absent
    BY DEF PageInit
  <1> QED BY <1>1, <1>2, <1>3 DEF PageInv, PageOK, FollowUpTruthful, OneToOneOnly

LEMMA LedgerOKStays == ASSUME LedgerOK, UNCHANGED <<ledger, todo, began>> PROVE LedgerOK'
  BY DEF LedgerOK

LEMMA ContextOKStays == ASSUME ContextOK, UNCHANGED <<ledger, context, began>> PROVE ContextOK'
  BY DEF ContextOK

LEMMA PageStays ==
    ASSUME UNCHANGED <<ledger, began, page>>
    PROVE  /\ PageOK' <=> PageOK
           /\ FollowUpTruthful' <=> FollowUpTruthful
           /\ OneToOneOnly' <=> OneToOneOnly
  BY DEF PageOK, FollowUpTruthful, OneToOneOnly

LEMMA NoPage ==
    ASSUME page' = Absent PROVE PageOK' /\ FollowUpTruthful' /\ OneToOneOnly'
  BY DEF PageOK, FollowUpTruthful, OneToOneOnly

\* What a page says stays true when something commits.
LEMMA ChosenLater ==
    ASSUME NEW k, NEW old, NEW now, NEW later, Chosen(k, old, now), later \cap old \subseteq now
    PROVE  Chosen(k, old, later)
  <1>1. LinkedBy(old \cap later, k.scope) \subseteq LinkedBy(old \cap now, k.scope)
    BY DEF LinkedBy, In
  <1>2. ~Several(LinkedBy(old \cap now, k.scope)) => ~Several(LinkedBy(old \cap later, k.scope))
    BY <1>1 DEF Several
  <1> QED BY <1>2 DEF Chosen

LEMMA PaidLater == ASSUME NEW c, NEW now, NEW later, Succeeds(now, later), Paid(now, c) PROVE Paid(later, c)
  BY DEF Paid, In, Succeeds, Found, Kept

LEMMA InvoicedLater ==
    ASSUME NEW c, NEW now, NEW later, Succeeds(now, later), Invoiced(now, c) PROVE Invoiced(later, c)
  BY DEF Invoiced, In, Succeeds, Found, Kept

\* FollowUpTruthful of a page, of the ledger when it was begun, and of a later one.
FollowUps(findings, old, now) ==
    \A row \in In(old, "contracts", Absent) :
        /\ FollowUp(row.id) \in findings => ~Invoiced(old, row.id) /\ Paid(now, row.id)
        /\ Paid(old, row.id) /\ ~Invoiced(now, row.id) => FollowUp(row.id) \in findings

LEMMA FollowUpIs == FollowUpTruthful <=> (page # Absent => FollowUps(page.findings, began, ledger))
  BY DEF FollowUpTruthful, FollowUps, FollowUp

LEMMA FollowUpsLater ==
    ASSUME NEW findings, NEW old, NEW now, NEW later, FollowUps(findings, old, now), Succeeds(now, later)
    PROVE  FollowUps(findings, old, later)
  BY PaidLater, InvoicedLater DEF FollowUps

LEMMA ChangeInv == ASSUME PageInv, NEW w \in todo, Change(w) PROVE PageInv'
  <1>1. LedgerOK' /\ Succeeds(ledger, ledger') /\ ledger' \cap began \subseteq ledger
    BY ChangeKeepsLedgerOK DEF PageInv
  <1>2. ContextOK'
    BY ChangeKeepsContextOK DEF PageInv
  <1>3. page' = page /\ began' = began
    BY DEF Change
  <1>4. PageOK'
    <2> SUFFICES ASSUME page # Absent, NEW k \in page.checks, k.outcome \in Judged
                 PROVE  Chosen(k, began, ledger')
      BY <1>3 DEF PageOK, AllChosen
    <2>1. Chosen(k, began, ledger)
      BY DEF PageInv, PageOK, AllChosen
    <2> QED BY <2>1, <1>1, ChosenLater
  <1>5. FollowUpTruthful'
    <2>1. ASSUME page # Absent PROVE FollowUps(page.findings, began, ledger')
      <3>1. FollowUps(page.findings, began, ledger)
        BY <2>1, FollowUpIs DEF PageInv
      <3> QED BY <3>1, <1>1, FollowUpsLater
    <2> QED BY <2>1, <1>3 DEF FollowUpTruthful, FollowUps, FollowUp
  <1>6. OneToOneOnly'
    BY <1>3 DEF PageInv, OneToOneOnly
  <1> QED BY <1>1, <1>2, <1>4, <1>5, <1>6 DEF PageInv

LEMMA AskInv == ASSUME PageInv, NEW asked, Ask(asked) PROVE PageInv'
  <1>1. LedgerOK'
    <2>1. ledger' = ledger /\ todo' = todo /\ began' = ledger
      BY DEF Ask
    <2> QED BY <2>1, SucceedsItself DEF PageInv, LedgerOK
  <1>2. ContextOK'
    <2>1. context' = <<>>
      BY DEF Ask
    <2> QED BY <2>1 DEF ContextOK, Closed
  <1>3. page' = Absent
    BY DEF Ask
  <1> QED BY <1>1, <1>2, <1>3, NoPage DEF PageInv

LEMMA ReadInv == ASSUME PageInv, NEW q \in Statements, Read(q) PROVE PageInv'
  <1>1. UNCHANGED <<ledger, todo, request, began, page>>
    BY DEF Read
  <1>2. LedgerOK'
    BY <1>1, LedgerOKStays DEF PageInv
  <1>3. ContextOK'
    BY ReadKeepsContextOK DEF PageInv
  <1> QED BY <1>1, <1>2, <1>3, PageStays DEF PageInv

LEMMA RefuseInv == ASSUME PageInv, Refuse PROVE PageInv'
  <1>1. UNCHANGED <<ledger, todo, began, page>> /\ context' = <<>>
    BY DEF Refuse
  <1>2. LedgerOK'
    BY <1>1, LedgerOKStays DEF PageInv
  <1>3. ContextOK'
    BY <1>1 DEF ContextOK, Closed
  <1> QED BY <1>1, <1>2, <1>3, PageStays DEF PageInv

LEMMA ShowInv == ASSUME PageInv, Show PROVE PageInv'
  <1>1. /\ UNCHANGED <<ledger, todo, began>> /\ context' = <<>>
        /\ page' = Page(context, request) /\ DOMAIN context = Statements
    BY DEF Show
  <1>2. LedgerOK'
    BY <1>1, LedgerOKStays DEF PageInv
  <1>3. ContextOK'
    BY <1>1 DEF ContextOK, Closed
  <1>4. Complete(context, began, ledger) /\ Owned(began) /\ began \subseteq AllRows
    BY <1>1 DEF PageInv, ContextOK, LedgerOK, Complete
  <1>5. PICK shown : shown = Page(context, request) /\ page' = shown
    BY <1>1
  <1>6. PageOK'
    <2>1. AllChosen(shown.checks, began, ledger)
      BY <1>4, <1>5, ChoiceHolds DEF AllChosen
    <2> QED BY <2>1, <1>1, <1>5 DEF PageOK
  <1>7. FollowUpTruthful'
    <2>1. FollowUps(shown.findings, began, ledger)
      BY <1>4, <1>5, FollowUpHolds DEF FollowUps
    <2> QED BY <2>1, <1>1, <1>5 DEF FollowUpTruthful, FollowUps, FollowUp
  <1>8. OneToOneOnly'
    <2>1. ASSUME NEW k \in shown.checks, k.check = "line quantity", k.outcome \in Compared
          PROVE  /\ ~Several(IdsOf(In(began, "lines", k.scope)))
                 /\ \A line \in k.against : ItemsWith(began, line) \subseteq {k.scope}
      BY <2>1, <1>4, <1>5, LinesOneToOne
    <2>2. ASSUME NEW row \in began, row.table = "lines", Several(ItemsWith(began, Line(row)))
          PROVE  \E f \in shown.findings :
                     /\ f.code = "MANY_TO_MANY_INVOICE_ITEM_ALLOCATION" /\ f.scope = row.scope
                     /\ Line(row) \in f.about
      BY <2>2, <1>4, <1>5, SplitLinesTold
    <2> QED BY <2>1, <2>2, <1>1, <1>5 DEF OneToOneOnly
  <1> QED BY <1>2, <1>3, <1>6, <1>7, <1>8 DEF PageInv

\* The invariant of the invoice preparation page: what was read lies between the
\* ledger when the page was begun and the ledger now, and so does what a page
\* says, for any contracts, requests and commits.
THEOREM PageInvariant == PageSpec => []PageInv
  <1>1. ASSUME PageInv, [PageNext]_pageVars PROVE PageInv'
    <2>1. CASE \E w \in todo : Change(w)
      BY <1>1, <2>1, ChangeInv
    <2>2. CASE \E asked \in Requests : Ask(asked)
      BY <1>1, <2>2, AskInv
    <2>3. CASE \E q \in Statements : Read(q)
      BY <1>1, <2>3, ReadInv
    <2>4. CASE Refuse
      BY <1>1, <2>4, RefuseInv
    <2>5. CASE Show
      BY <1>1, <2>5, ShowInv
    <2>6. CASE UNCHANGED pageVars
      <3>1. UNCHANGED <<ledger, todo, context, began, page>>
        BY <2>6 DEF pageVars
      <3> QED BY <1>1, <3>1, LedgerOKStays, ContextOKStays, PageStays DEF PageInv
    <2> QED BY <1>1, <2>1, <2>2, <2>3, <2>4, <2>5, <2>6 DEF PageNext
  <1> QED BY <1>1, PageInitInv, PTL DEF PageSpec

\* A page recommends to chase an invoice only if none was associated and something
\* was paid, and does recommend it then, whatever commits between its statements.
THEOREM FollowUpsAreTrue == PageSpec => []FollowUpTruthful
  <1>1. PageInv => FollowUpTruthful
    BY DEF PageInv
  <1> QED BY <1>1, PageInvariant, PTL

\* A line that was split when the page was begun is never compared, whichever
\* contracts its items belong to, and every such item asks for a person.
THEOREM SplitLinesAreNotCompared == PageSpec => []OneToOneOnly
  <1>1. PageInv => OneToOneOnly
    BY DEF PageInv
  <1> QED BY <1>1, PageInvariant, PTL

\* What is compared with a contract was the only candidate.
THEOREM NothingIsChosen == PageSpec => []NoArbitraryChoice
  <1>1. ASSUME PageInv PROVE NoArbitraryChoice
    <2> SUFFICES ASSUME page # Absent, NEW k \in page.checks, k.outcome \in Judged
                 PROVE  /\ ~Several(k.against)
                        /\ k.check \in {"sales amount", "sales quantity"} =>
                              InvoicesOf(began, "sales_invoices", k.scope, "SALES") \subseteq k.against
                        /\ k.check = "purchase amount" =>
                              InvoicesOf(began, "invoices", k.scope, "PURCHASE") \subseteq k.against
                        /\ k.check \in {"customs", "shipped quantity"} =>
                              /\ ~Several(LinkedBy(began \cap ledger, k.scope))
                              /\ \A row \in {row \in ledger : row.table = "shipments" /\ row.id \in k.against} :
                                    IdsOf(In(began, "shipments", row.scope)) \subseteq k.against
      BY DEF NoArbitraryChoice, Judged
    <2>1. Chosen(k, began, ledger)
      BY <1>1 DEF PageInv, PageOK, AllChosen
    <2>2. ASSUME OfOneContract(k.against, began),
                 NEW row \in ledger, row.table = "shipments", row.id \in k.against
          PROVE  IdsOf(In(began, "shipments", row.scope)) \subseteq k.against
      <3>1. PICK c : /\ \A r \in AllRows : r.table = "shipments" /\ r.id \in k.against => r.scope = c
                     /\ IdsOf(In(began, "shipments", c)) \subseteq k.against
        BY <2>2 DEF OfOneContract
      <3>2. row \in AllRows
        BY <1>1 DEF PageInv, LedgerOK
      <3> QED BY <3>1, <3>2, <2>2
    <2> QED BY <2>1, <2>2 DEF Chosen
  <1> QED BY <1>1, PageInvariant, PTL

=============================================================================
