---------------------- MODULE ProcurementMatchingProofs ----------------------
(***************************************************************************)
(* Proofs about ProcurementMatching for any pools of contracts, subjects   *)
(* and runs, and any facts about them.                                     *)
(***************************************************************************)
EXTENDS ProcurementMatching, FiniteSetTheorems, TLAPS

-----------------------------------------------------------------------------
(* Types.                                                                  *)

LEMMA NoDraftTyped ==
    /\ NoDraft \in Drafts /\ NoDraft.cases = {} /\ NoDraft.allocations = {}
    /\ \A c \in ContractIds : NoDraft.taken[c] = 0
  BY DEF NoDraft, Drafts

LEMMA FactsTyped ==
    /\ \A f \in ContractRecords : f.gross \in Nat
    /\ \A f \in SubjectRecords : f.amount \in Nat /\ f.kind \in Kinds
  BY DEF ContractRecords, SubjectRecords

LEMMA NoneIsNew ==
    /\ None \notin Runs /\ None \notin ContractIds /\ None \notin SubjectIds
    /\ None \notin ContractRecords /\ None \notin SubjectRecords
  BY NoneAssumption, IdsAssumption

LEMMA InitTyped == Init => TypeOK
  BY NoDraftTyped DEF Init, TypeOK, Kinds

\* An import adds facts and changes nothing else.
LEMMA ImportAdds ==
    ASSUME TypeOK, ImportStep
    PROVE  /\ TypeOK'
           /\ \A c \in ContractIds : contracts[c] # None => contracts'[c] = contracts[c]
           /\ \A s \in SubjectIds : subjects[s] # None => subjects'[s] = subjects[s]
           /\ UNCHANGED <<cases, allocations, consumed, tasks, writeLock, local>>
  <1>1. PICK c, cf, s, sf :
            /\ Import(c, cf, s, sf)
            /\ c = None \/ (c \in ContractIds /\ cf \in ContractRecords)
            /\ s = None \/ (s \in SubjectIds /\ sf \in SubjectRecords)
    BY FactsAssumption DEF ImportStep
  <1>2. /\ contracts' \in [ContractIds -> ContractRecords \cup {None}]
        /\ \A d \in ContractIds : contracts[d] # None => contracts'[d] = contracts[d]
    <2>1. CASE c = None
      BY <1>1, <2>1, NoneIsNew DEF Import, TypeOK
    <2>2. CASE c \in ContractIds /\ cf \in ContractRecords
      <3>1. contracts[c] = None /\ contracts' = [contracts EXCEPT ![c] = cf]
        BY <1>1, <2>2, NoneIsNew DEF Import
      <3> QED BY <2>2, <3>1 DEF TypeOK
    <2> QED BY <1>1, <2>1, <2>2
  <1>3. /\ subjects' \in [SubjectIds -> SubjectRecords \cup {None}]
        /\ \A t \in SubjectIds : subjects[t] # None => subjects'[t] = subjects[t]
    <2>1. CASE s = None
      BY <1>1, <2>1, NoneIsNew DEF Import, TypeOK
    <2>2. CASE s \in SubjectIds /\ sf \in SubjectRecords
      <3>1. subjects[s] = None /\ subjects' = [subjects EXCEPT ![s] = sf]
        BY <1>1, <2>2, NoneIsNew DEF Import
      <3> QED BY <2>2, <3>1 DEF TypeOK
    <2> QED BY <1>1, <2>1, <2>2
  <1>4. UNCHANGED <<cases, allocations, consumed, tasks, writeLock, local>>
    BY <1>1 DEF Import
  <1>5. TypeOK'
    BY <1>2, <1>3, <1>4 DEF TypeOK, local
  <1> QED BY <1>2, <1>3, <1>4, <1>5

LEMMA EndRunTyped ==
    ASSUME TypeOK, NEW r \in Runs, NEW label \in {"idle", "done"}, EndRun(r, label),
           contracts' = contracts, subjects' = subjects, cases' \subseteq CaseRecords,
           allocations' \subseteq AllocationRecords, tasks' \subseteq CaseIds,
           consumed' \in [Kinds -> [ContractIds -> Nat]]
    PROVE  TypeOK'
  <1>1. /\ writeLock' \in Runs \cup {None} /\ pc' \in [Runs -> {"idle", "subjects", "allocate", "done"}]
        /\ kind' \in [Runs -> Kinds]
        /\ seen' \in [Runs -> [ContractIds -> ContractRecords \cup {None}]]
        /\ remaining' \in [Runs -> [ContractIds -> Int]]
    BY DEF TypeOK, EndRun
  <1>2. /\ todo' \in [Runs -> SUBSET SubjectIds] /\ blocked' \in [Runs -> SUBSET SubjectIds]
        /\ pairs' \in [Runs -> SUBSET (SubjectIds \X ContractIds)]
        /\ draft' \in [Runs -> Drafts]
    BY NoDraftTyped DEF TypeOK, EndRun
  <1> QED BY <1>1, <1>2 DEF TypeOK

LEMMA CommitTyped ==
    ASSUME TypeOK, NEW r \in Runs, CommitRun(r)
    PROVE  TypeOK'
  <1>1. draft[r] \in Drafts /\ kind[r] \in Kinds
    BY DEF TypeOK
  <1>2. /\ draft[r].cases \subseteq CaseRecords /\ draft[r].tasks \subseteq CaseIds
        /\ draft[r].allocations \subseteq AllocationRecords
        /\ draft[r].taken \in [ContractIds -> Nat]
    BY <1>1 DEF Drafts
  <1>3. [c \in ContractIds |-> consumed[kind[r]][c] + draft[r].taken[c]] \in [ContractIds -> Nat]
    BY <1>1, <1>2 DEF TypeOK
  <1>4. consumed' \in [Kinds -> [ContractIds -> Nat]]
    BY <1>3 DEF CommitRun, TypeOK
  <1>5. /\ cases' \subseteq CaseRecords /\ tasks' \subseteq CaseIds
        /\ allocations' \subseteq AllocationRecords
    BY <1>2 DEF CommitRun, TypeOK
  <1> QED BY <1>4, <1>5, EndRunTyped DEF CommitRun

LEMMA RollbackTyped ==
    ASSUME TypeOK, NEW r \in Runs, Rollback(r)
    PROVE  TypeOK'
  BY EndRunTyped DEF Rollback, db, TypeOK

LEMMA StartRunTyped ==
    ASSUME TypeOK, NEW r \in Runs, NEW k \in Kinds, StartRun(r, k)
    PROVE  TypeOK'
  BY DEF TypeOK, StartRun, db

LEMMA CapacityTyped ==
    ASSUME NEW k \in Kinds, consumed \in [Kinds -> [ContractIds -> Nat]],
           NEW cs \in [ContractIds -> ContractRecords \cup {None}]
    PROVE  Capacity(k, cs) \in [ContractIds -> Int]
  BY FactsTyped DEF Capacity

LEMMA ReadSubjectsTyped ==
    ASSUME TypeOK, NEW r \in Runs, ReadSubjects(r)
    PROVE  TypeOK'
  <1> DEFINE us == Unresolved(kind[r], seen[r])
             rem == Capacity(kind[r], seen[r])
  <1>1. us \in SUBSET SubjectIds
    BY DEF Unresolved
  <1>2. rem \in [ContractIds -> Int]
    BY CapacityTyped DEF TypeOK
  <1>3. Blocked(us, seen[r], rem) \in SUBSET SubjectIds
    BY <1>1 DEF Blocked
  <1>4. CanonicalPairs(us, seen[r], rem) \in SUBSET (SubjectIds \X ContractIds)
    BY <1>1 DEF CanonicalPairs
  <1> HIDE DEF us, rem
  <1>5. /\ todo' = [todo EXCEPT ![r] = us]
        /\ remaining' = [remaining EXCEPT ![r] = rem]
        /\ blocked' = [blocked EXCEPT ![r] = Blocked(us, seen[r], rem)]
        /\ pairs' = [pairs EXCEPT ![r] = CanonicalPairs(us, seen[r], rem)]
        /\ pc' = [pc EXCEPT ![r] = "allocate"]
        /\ UNCHANGED <<db, writeLock, kind, seen, draft>>
    BY DEF ReadSubjects, us, rem
  <1> QED BY <1>1, <1>2, <1>3, <1>4, <1>5 DEF TypeOK, db

-----------------------------------------------------------------------------
(* Pass 2: what one decision writes.                                       *)

\* Run r writes one case, for subject s, and nothing of any other run changes.
OneCaseWritten(r, s) ==
    /\ draft' \in [Runs -> Drafts] /\ remaining' \in [Runs -> [ContractIds -> Int]]
    /\ \A q \in Runs \ {r} : draft'[q] = draft[q] /\ remaining'[q] = remaining[q]
    /\ \E m \in CaseRecords : m.subject = s /\ draft'[r].cases = draft[r].cases \cup {m}

NothingTaken(r) ==
    draft'[r].taken = draft[r].taken /\ remaining'[r] = remaining[r]

Taken(r, s, c) ==
    /\ draft'[r].taken = [draft[r].taken EXCEPT ![c] = @ + subjects[s].amount]
    /\ remaining'[r] = [remaining[r] EXCEPT ![c] = @ - subjects[s].amount]

LEMMA WriteCaseEffect ==
    ASSUME TypeOK, NEW r \in Runs, NEW s \in SubjectIds,
           NEW status \in {"AUTO", "HCR", "RESOLVED", "UNMATCHED"},
           NEW cands \in SUBSET ContractIds, NEW task \in BOOLEAN,
           WriteCase(r, s, status, cands, task), UNCHANGED remaining
    PROVE  OneCaseWritten(r, s) /\ NothingTaken(r)
  <1> DEFINE m == [id |-> <<s, r>>, subject |-> s, status |-> status, candidates |-> cands]
             ts == IF task THEN draft[r].tasks \cup {<<s, r>>} ELSE draft[r].tasks
             d == [draft[r] EXCEPT !.cases = @ \cup {m}, !.tasks = ts]
  <1>1. draft[r] \in Drafts
    BY DEF TypeOK
  <1>2. m \in CaseRecords /\ m.subject = s
    BY DEF CaseRecords, CaseIds
  <1>3. ts \in SUBSET CaseIds
    BY <1>1 DEF Drafts, CaseIds
  <1>4. draft' = [draft EXCEPT ![r] = d]
    BY DEF WriteCase
  <1> HIDE DEF m, ts
  <1>5. d \in Drafts /\ d.cases = draft[r].cases \cup {m} /\ d.taken = draft[r].taken
    BY <1>1, <1>2, <1>3 DEF Drafts
  <1> HIDE DEF d
  <1>6. /\ draft' \in [Runs -> Drafts] /\ draft'[r] = d
        /\ \A q \in Runs \ {r} : draft'[q] = draft[q]
    BY <1>4, <1>5 DEF TypeOK
  <1> QED BY <1>2, <1>5, <1>6 DEF OneCaseWritten, NothingTaken, TypeOK

LEMMA AllocateEffect ==
    ASSUME TypeOK, NEW r \in Runs, NEW s \in SubjectIds, NEW c \in ContractIds,
           NEW method \in {"UNIQUE", "CHRONOLOGICAL", "CANONICAL"},
           subjects[s] # None, Allocate(r, s, c, method)
    PROVE  OneCaseWritten(r, s) /\ Taken(r, s, c)
  <1> DEFINE amount == subjects[s].amount
             m == [id |-> <<s, r>>, subject |-> s, status |-> "AUTO", candidates |-> {c}]
             a == [case |-> <<s, r>>, subject |-> s, contract |-> c, amount |-> amount,
                   method |-> method, by |-> "AUTO"]
             k == [draft[r].taken EXCEPT ![c] = @ + amount]
             d == [draft[r] EXCEPT !.cases = @ \cup {m}, !.allocations = @ \cup {a},
                                   !.taken = k]
  <1>1. draft[r] \in Drafts /\ amount \in Nat
    BY FactsTyped DEF TypeOK
  <1>2. m \in CaseRecords /\ m.subject = s
    BY DEF CaseRecords, CaseIds
  <1>3. a \in AllocationRecords
    BY <1>1 DEF AllocationRecords, CaseIds
  <1>4. k \in [ContractIds -> Nat]
    BY <1>1 DEF Drafts
  <1>5. draft' = [draft EXCEPT ![r] = d]
    BY DEF Allocate
  <1>6. remaining' = [remaining EXCEPT ![r] = [remaining[r] EXCEPT ![c] = @ - amount]]
    BY DEF Allocate, TypeOK
  <1>7. [remaining[r] EXCEPT ![c] = @ - amount] \in [ContractIds -> Int]
    BY <1>1 DEF TypeOK
  <1> HIDE DEF m, a, k, amount
  <1>8. d \in Drafts /\ d.cases = draft[r].cases \cup {m} /\ d.taken = k
    BY <1>1, <1>2, <1>3, <1>4 DEF Drafts
  <1> HIDE DEF d
  <1>9. /\ draft' \in [Runs -> Drafts] /\ draft'[r] = d
        /\ \A q \in Runs \ {r} : draft'[q] = draft[q]
    BY <1>5, <1>8 DEF TypeOK
  <1>10. /\ remaining' \in [Runs -> [ContractIds -> Int]]
         /\ remaining'[r] = [remaining[r] EXCEPT ![c] = @ - amount]
         /\ \A q \in Runs \ {r} : remaining'[q] = remaining[q]
    BY <1>6, <1>7 DEF TypeOK
  <1>11. OneCaseWritten(r, s)
    BY <1>2, <1>8, <1>9, <1>10 DEF OneCaseWritten
  <1>12. Taken(r, s, c)
    BY <1>8, <1>9, <1>10 DEF Taken, k, amount
  <1> QED BY <1>11, <1>12

\* A contract a decision may take: seen, with room, and in nobody else's pair.
MayTake(r, s, c) ==
    /\ seen[r][c] # None /\ subjects[s].amount <= remaining[r][c]
    /\ \A t \in todo[r] \ {s} : <<t, c>> \notin pairs[r]

LEMMA DecideEffect ==
    ASSUME IInv, NEW r \in Runs, NEW s \in todo[r], DecideSubject(r, s)
    PROVE  /\ OneCaseWritten(r, s)
           /\ \/ NothingTaken(r)
              \/ \E c \in ContractIds : MayTake(r, s, c) /\ Taken(r, s, c)
  <1> DEFINE cands == Candidates(seen[r], s)
             open == Viable(seen[r], remaining[r], s)
  <1>1. /\ TypeOK /\ s \in SubjectIds /\ subjects[s] # None /\ pc[r] = "allocate"
    BY DEF IInv, TypeOK, SubjectsExist, DecideSubject
  <1>2. cands \in SUBSET ContractIds
    BY DEF Candidates
  <1>3. Method(cands) \in {"UNIQUE", "CHRONOLOGICAL", "CANONICAL"}
    BY DEF Method
  <1>4. \A c \in open : c \in ContractIds /\ c \in cands
                         /\ seen[r][c] # None /\ subjects[s].amount <= remaining[r][c]
    BY DEF Viable, Candidates
  <1>5. \A c \in open : s \notin blocked[r] => MayTake(r, s, c)
    BY <1>1, <1>4 DEF MayTake, IInv, PairsKept, PairKept
  <1>6. \A c \in cands : <<s, c>> \in pairs[r] => MayTake(r, s, c)
    BY <1>1, <1>2 DEF MayTake, IInv, PairsKept, PairKept
  <1>7. Decide(r, s, cands, open)
    BY DEF DecideSubject
  <1> HIDE DEF cands, open
  <1>8. CASE WriteCase(r, s, "UNMATCHED", {}, FALSE) /\ UNCHANGED remaining
    BY <1>1, <1>8, WriteCaseEffect
  <1>9. ASSUME NEW task \in BOOLEAN, LeaveToPeople(r, s, cands, task)
        PROVE  OneCaseWritten(r, s) /\ NothingTaken(r)
    BY <1>1, <1>2, <1>9, WriteCaseEffect DEF LeaveToPeople
  <1>10. ASSUME NEW c \in cands, <<s, c>> \in pairs[r], Allocate(r, s, c, "CANONICAL")
         PROVE  OneCaseWritten(r, s) /\ MayTake(r, s, c) /\ Taken(r, s, c)
    BY <1>1, <1>2, <1>6, <1>10, AllocateEffect
  <1>11. ASSUME NEW c \in open, s \notin blocked[r], Allocate(r, s, c, Method(cands))
         PROVE  OneCaseWritten(r, s) /\ MayTake(r, s, c) /\ Taken(r, s, c)
    BY <1>1, <1>3, <1>4, <1>5, <1>11, AllocateEffect
  <1> QED BY <1>2, <1>4, <1>7, <1>8, <1>9, <1>10, <1>11 DEF Decide

LEMMA DecideTyped ==
    ASSUME TypeOK, NEW r \in Runs, NEW s \in todo[r], DecideSubject(r, s),
           OneCaseWritten(r, s)
    PROVE  TypeOK'
  BY DEF TypeOK, DecideSubject, OneCaseWritten, db

-----------------------------------------------------------------------------
(* People.                                                                 *)

LEMMA ConfirmTyped ==
    ASSUME TypeOK, SubjectsExist, NEW m \in cases, NEW c \in ContractIds, ConfirmMatch(m, c)
    PROVE  TypeOK'
  <1>1. /\ m \in CaseRecords /\ subjects[m.subject] \in SubjectRecords
    BY DEF TypeOK, SubjectsExist, CaseRecords
  <1> DEFINE f == subjects[m.subject]
  <1>2. f.amount \in Nat /\ f.kind \in Kinds
    BY <1>1, FactsTyped
  <1>3. ConfirmedRow(m, c) \in AllocationRecords
    BY <1>1, <1>2 DEF ConfirmedRow, AllocationRecords, CaseRecords
  <1>4. ResolvedCase(m) \in CaseRecords
    BY <1>1 DEF ResolvedCase, CaseRecords
  <1> HIDE DEF f
  <1>5. /\ consumed' = [consumed EXCEPT ![f.kind][c] = @ + f.amount]
        /\ allocations' = allocations \cup {ConfirmedRow(m, c)}
        /\ cases' = (cases \ {m}) \cup {ResolvedCase(m)}
        /\ UNCHANGED <<contracts, subjects, tasks, writeLock, local>>
    BY DEF ConfirmMatch, f
  <1>6. consumed' \in [Kinds -> [ContractIds -> Nat]]
    BY <1>2, <1>5 DEF TypeOK
  <1> QED BY <1>3, <1>4, <1>5, <1>6 DEF TypeOK, local

LEMMA ReviseTyped ==
    ASSUME TypeOK, NEW c \in ContractIds, NEW f \in ContractFacts, ReviseContract(c, f)
    PROVE  TypeOK'
  BY FactsAssumption DEF TypeOK, ReviseContract, local

-----------------------------------------------------------------------------
(* Steps outside pass 1 and pass 2 keep the invariant.                     *)

LEMMA OnlyReader ==
    ASSUME IInv, NEW r \in Runs, Reading(r)
    PROVE  /\ writeLock = r
           /\ \A q \in Runs \ {r} : ~Reading(q)
  BY DEF IInv, LockHeld

LEMMA NoReader ==
    ASSUME IInv, writeLock = None
    PROVE  \A r \in Runs : ~Reading(r) /\ draft[r] = NoDraft /\ todo[r] = {}
  BY NoneIsNew DEF IInv, LockHeld, NothingBeforePass2, Reading

LEMMA InitHolds == Init => IInv
  <1> SUFFICES ASSUME Init PROVE IInv
    OBVIOUS
  <1>1. TypeOK
    BY InitTyped
  <1>2. /\ \A r \in Runs : pc[r] = "idle" /\ draft[r] = NoDraft /\ todo[r] = {}
        /\ cases = {}
    BY DEF Init
  <1> QED
    BY <1>1, <1>2, NoDraftTyped
       DEF IInv, LockHeld, NothingBeforePass2, SnapshotCurrent, RemainingIsCapacity,
           DraftFits, PairsKept, PairKept, SubjectsExist, DecidedOnce, OneCasePerSubject, Reading

LEMMA ImportKeeps ==
    ASSUME IInv, ImportStep
    PROVE  IInv'
  <1>1. /\ TypeOK /\ TypeOK'
        /\ \A c \in ContractIds : contracts[c] # None => contracts'[c] = contracts[c]
        /\ \A s \in SubjectIds : subjects[s] # None => subjects'[s] = subjects[s]
        /\ UNCHANGED <<cases, allocations, consumed, tasks, writeLock, local>>
    BY ImportAdds DEF IInv
  <1>2. LockHeld' /\ NothingBeforePass2'
    BY <1>1 DEF IInv, LockHeld, NothingBeforePass2, Reading, local
  <1>3. SnapshotCurrent'
    BY <1>1 DEF IInv, SnapshotCurrent, Reading, local
  <1>4. RemainingIsCapacity' /\ DraftFits'
    BY <1>1 DEF IInv, RemainingIsCapacity, DraftFits, local
  <1>5. SubjectsExist'
    <2>1. /\ \A m \in cases : m.subject \in SubjectIds
          /\ \A r \in Runs : todo[r] \subseteq SubjectIds
          /\ \A r \in Runs : \A m \in draft[r].cases : m.subject \in SubjectIds
      BY <1>1 DEF TypeOK, CaseRecords, Drafts
    <2> QED BY <1>1, <2>1 DEF IInv, SubjectsExist, local
  <1>6. PairsKept'
    <2>1. \A r \in Runs : \A s \in todo[r] :
            subjects'[s] = subjects[s] /\ Candidates(seen[r], s)' = Candidates(seen[r], s)
      BY <1>1 DEF IInv, SubjectsExist, TypeOK, Candidates, local
    <2> QED BY <1>1, <2>1 DEF IInv, PairsKept, PairKept, local
  <1>7. DecidedOnce' /\ OneCasePerSubject'
    BY <1>1 DEF IInv, DecidedOnce, OneCasePerSubject, Resolved, local
  <1> QED BY <1>1, <1>2, <1>3, <1>4, <1>5, <1>6, <1>7 DEF IInv

\* With the lock free no run is under way, so only the cases matter.
LEMMA LockFreeStepKeeps ==
    ASSUME IInv, writeLock = None, TypeOK', UNCHANGED <<writeLock, local>>,
           \A m \in cases' : subjects'[m.subject] # None, OneCasePerSubject'
    PROVE  IInv'
  <1>1. /\ \A r \in Runs : ~Reading(r) /\ draft[r] = NoDraft /\ todo[r] = {}
        /\ \A r \in Runs : ~Reading(r)' /\ draft'[r] = NoDraft /\ todo'[r] = {}
                          /\ pc'[r] # "allocate"
    BY NoReader DEF local, Reading
  <1> QED
    BY <1>1, NoDraftTyped
       DEF IInv, LockHeld, NothingBeforePass2, SnapshotCurrent, RemainingIsCapacity,
           DraftFits, PairsKept, PairKept, SubjectsExist, DecidedOnce

LEMMA ConfirmKeeps ==
    ASSUME IInv, NEW m \in cases, NEW c \in ContractIds, ConfirmMatch(m, c)
    PROVE  IInv'
  <1>1. TypeOK'
    BY ConfirmTyped DEF IInv
  <1>2. ResolvedCase(m).subject = m.subject
    BY DEF ResolvedCase, IInv, TypeOK, CaseRecords
  <1>3. \A n \in cases' : subjects'[n.subject] # None
    BY <1>2 DEF ConfirmMatch, IInv, SubjectsExist
  <1>4. OneCasePerSubject'
    BY <1>2 DEF ConfirmMatch, IInv, OneCasePerSubject
  <1> QED BY <1>1, <1>3, <1>4, LockFreeStepKeeps DEF ConfirmMatch

LEMMA ReviseKeeps ==
    ASSUME IInv, NEW c \in ContractIds, NEW f \in ContractFacts, ReviseContract(c, f)
    PROVE  IInv'
  <1>1. TypeOK'
    BY ReviseTyped DEF IInv
  <1>2. /\ \A n \in cases' : subjects'[n.subject] # None
        /\ OneCasePerSubject'
    BY DEF ReviseContract, IInv, SubjectsExist, OneCasePerSubject
  <1> QED BY <1>1, <1>2, LockFreeStepKeeps DEF ReviseContract

LEMMA StartRunKeeps ==
    ASSUME IInv, NEW r \in Runs, NEW k \in Kinds, StartRun(r, k)
    PROVE  IInv'
  <1>1. TypeOK /\ TypeOK'
    BY StartRunTyped DEF IInv
  <1>2. \A q \in Runs : ~Reading(q) /\ draft[q] = NoDraft /\ todo[q] = {}
    BY NoReader DEF StartRun
  <1>3. /\ writeLock' = r /\ pc'[r] = "subjects" /\ seen'[r] = contracts
        /\ \A q \in Runs \ {r} : pc'[q] = pc[q]
        /\ UNCHANGED <<db, todo, draft>>
    BY <1>1 DEF StartRun, TypeOK
  <1>4. \A q \in Runs : pc'[q] # "allocate" /\ draft'[q] = NoDraft /\ todo'[q] = {}
    BY <1>2, <1>3 DEF Reading
  <1>5. LockHeld' /\ SnapshotCurrent'
    BY <1>2, <1>3 DEF LockHeld, SnapshotCurrent, Reading, db
  <1>6. SubjectsExist' /\ DecidedOnce' /\ OneCasePerSubject'
    BY <1>3, <1>4, NoDraftTyped
       DEF IInv, SubjectsExist, DecidedOnce, OneCasePerSubject, db
  <1> QED
    BY <1>1, <1>4, <1>5, <1>6
       DEF IInv, NothingBeforePass2, RemainingIsCapacity, DraftFits, PairsKept

\* A run that ends leaves no run under way.
LEMMA EndRunKeeps ==
    ASSUME IInv, NEW r \in Runs, Reading(r), NEW label \in {"idle", "done"}, EndRun(r, label),
           TypeOK', \A m \in cases' : subjects'[m.subject] # None, OneCasePerSubject'
    PROVE  IInv'
  <1>1. \A q \in Runs \ {r} : ~Reading(q) /\ draft[q] = NoDraft /\ todo[q] = {}
    BY OnlyReader DEF IInv, NothingBeforePass2, Reading
  <1>2. /\ pc'[r] = label /\ draft'[r] = NoDraft /\ todo'[r] = {}
        /\ \A q \in Runs \ {r} : pc'[q] = pc[q] /\ draft'[q] = draft[q] /\ todo'[q] = todo[q]
    BY DEF EndRun, IInv, TypeOK
  <1>3. \A q \in Runs : /\ ~Reading(q)' /\ pc'[q] # "allocate"
                        /\ draft'[q] = NoDraft /\ todo'[q] = {}
    BY <1>1, <1>2 DEF Reading
  <1> QED
    BY <1>3, NoDraftTyped
       DEF IInv, LockHeld, NothingBeforePass2, SnapshotCurrent, RemainingIsCapacity,
           DraftFits, PairsKept, PairKept, SubjectsExist, DecidedOnce

LEMMA RollbackKeeps ==
    ASSUME IInv, NEW r \in Runs, Rollback(r)
    PROVE  IInv'
  <1>1. TypeOK'
    BY RollbackTyped DEF IInv
  <1>2. /\ \A m \in cases' : subjects'[m.subject] # None
        /\ OneCasePerSubject'
    BY DEF Rollback, db, IInv, SubjectsExist, OneCasePerSubject
  <1> QED BY <1>1, <1>2, EndRunKeeps DEF Rollback, Reading

LEMMA CommitKeeps ==
    ASSUME IInv, NEW r \in Runs, CommitRun(r)
    PROVE  IInv'
  <1>1. TypeOK'
    BY CommitTyped DEF IInv
  <1>2. cases' = cases \cup draft[r].cases /\ UNCHANGED subjects
    BY DEF CommitRun
  <1>3. \A m \in cases' : subjects'[m.subject] # None
    BY <1>2 DEF IInv, SubjectsExist
  <1>4. OneCasePerSubject'
    BY <1>2 DEF IInv, OneCasePerSubject, DecidedOnce, Resolved
  <1> QED BY <1>1, <1>3, <1>4, EndRunKeeps DEF CommitRun, Reading

-----------------------------------------------------------------------------
(* Pass 1: the canonical pairs set aside exactly one contract each.        *)

\* In a finite set, elements with as many smaller ones have the same key.
LEMMA RankDeterminesKey ==
    ASSUME NEW G, IsFiniteSet(G), NEW key \in [G -> Nat], NEW s \in G, NEW t \in G,
           Cardinality({u \in G : key[u] < key[s]}) = Cardinality({u \in G : key[u] < key[t]})
    PROVE  key[s] = key[t]
  <1>1. ASSUME NEW x \in G, NEW y \in G, key[x] < key[y]
        PROVE  Cardinality({u \in G : key[u] < key[x]}) # Cardinality({u \in G : key[u] < key[y]})
    <2> DEFINE X == {u \in G : key[u] < key[x]}
               Y == {u \in G : key[u] < key[y]}
    <2>1. X \in SUBSET Y /\ x \in Y /\ x \notin X
      BY <1>1
    <2>2. IsFiniteSet(Y)
      BY FS_Subset
    <2> HIDE DEF X, Y
    <2>3. Cardinality(Y) = Cardinality(X) => Y = X
      BY <2>1, <2>2, FS_Subset
    <2> QED BY <2>1, <2>3 DEF X, Y
  <1> QED BY <1>1

LEMMA SameCohort ==
    ASSUME NEW us, NEW cs, NEW rem, NEW s \in us, NEW t \in us,
           subjects[s].party = subjects[t].party, subjects[s].amount = subjects[t].amount
    PROVE  /\ Cohort(us, s) = Cohort(us, t) /\ s \in Cohort(us, t) /\ t \in Cohort(us, t)
           /\ Candidates(cs, s) = Candidates(cs, t)
           /\ Viable(cs, rem, s) = Viable(cs, rem, t)
           /\ UndefinedOrder(us, cs, rem, s) <=> UndefinedOrder(us, cs, rem, t)
  <1>1. /\ Cohort(us, s) = Cohort(us, t) /\ s \in Cohort(us, t) /\ t \in Cohort(us, t)
        /\ Candidates(cs, s) = Candidates(cs, t)
    BY DEF Cohort, Candidates
  <1>2. Viable(cs, rem, s) = Viable(cs, rem, t)
    BY <1>1 DEF Viable
  <1> QED BY <1>1, <1>2 DEF UndefinedOrder

LEMMA PairsAreSafe ==
    ASSUME TypeOK, NEW us \in SUBSET SubjectIds, \A u \in us : subjects[u] # None,
           NEW cs, NEW rem \in [ContractIds -> Int],
           NEW s \in us, NEW c \in ContractIds, <<s, c>> \in CanonicalPairs(us, cs, rem)
    PROVE  /\ cs[c] # None /\ subjects[s].amount <= rem[c]
           /\ \A t \in us : /\ <<t, c>> \in CanonicalPairs(us, cs, rem) => t = s
                            /\ c \in Candidates(cs, t) => t \in Blocked(us, cs, rem)
  <1>1. /\ UndefinedOrder(us, cs, rem, s) /\ Interchangeable(us, cs, rem, s)
        /\ c \in Candidates(cs, s) /\ SameRank(us, cs, s, c)
    BY DEF CanonicalPairs
  <1>2. cs[c] # None /\ rem[c] = subjects[s].amount
    BY <1>1 DEF Interchangeable, Candidates
  <1>3. \A u \in us : subjects[u] \in SubjectRecords
    BY DEF TypeOK
  <1>4. ASSUME NEW t \in us, c \in Candidates(cs, t)
        PROVE  /\ subjects[s].party = subjects[t].party
               /\ subjects[s].amount = subjects[t].amount
    BY <1>1, <1>4 DEF Candidates
  <1>5. ASSUME NEW t \in us, c \in Candidates(cs, t)
        PROVE  t \in Blocked(us, cs, rem)
    BY <1>1, <1>4, <1>5, SameCohort DEF Blocked
  <1>6. ASSUME NEW t \in us, <<t, c>> \in CanonicalPairs(us, cs, rem)
        PROVE  t = s
    <2> DEFINE group == Cohort(us, s)
               key == [u \in group |-> subjects[u].key]
    <2>1. c \in Candidates(cs, t) /\ SameRank(us, cs, t, c)
      BY <1>6 DEF CanonicalPairs
    <2>2. /\ Cohort(us, t) = group /\ t \in group /\ s \in group
          /\ Candidates(cs, s) = Candidates(cs, t)
      <3>1. /\ subjects[s].party = subjects[t].party
            /\ subjects[s].amount = subjects[t].amount
        BY <1>4, <2>1
      <3> QED BY <3>1 DEF Cohort, Candidates
    <2>3. group \in SUBSET SubjectIds
      BY DEF Cohort
    <2>4. IsFiniteSet(group)
      BY <2>3, IdsAssumption, FS_Subset
    <2>5. key \in [group -> Nat]
      BY <1>3 DEF Cohort, SubjectRecords
    <2>6. Cardinality({u \in group : subjects[u].key < subjects[s].key})
            = Cardinality({u \in group : subjects[u].key < subjects[t].key})
      BY <1>1, <2>1, <2>2 DEF SameRank
    <2>7. /\ {u \in group : subjects[u].key < subjects[s].key} = {u \in group : key[u] < key[s]}
          /\ {u \in group : subjects[u].key < subjects[t].key} = {u \in group : key[u] < key[t]}
      BY <2>2
    <2> HIDE DEF key
    <2>8. key[s] = key[t]
      BY <2>2, <2>4, <2>5, <2>6, <2>7, RankDeterminesKey
    <2>9. subjects[s].key = subjects[t].key
      BY <2>2, <2>8 DEF key
    <2> QED BY <1>1, <2>2, <2>9 DEF Interchangeable
  <1> QED BY <1>2, <1>3, <1>5, <1>6 DEF SubjectRecords

LEMMA ReadSubjectsKeeps ==
    ASSUME IInv, NEW r \in Runs, ReadSubjects(r)
    PROVE  IInv'
  <1> DEFINE us == Unresolved(kind[r], seen[r])
             rem == Capacity(kind[r], seen[r])
  <1>1. TypeOK /\ TypeOK'
    BY ReadSubjectsTyped DEF IInv
  <1>2. /\ writeLock = r /\ pc[r] = "subjects" /\ draft[r] = NoDraft
        /\ \A q \in Runs \ {r} : ~Reading(q) /\ draft[q] = NoDraft /\ todo[q] = {}
    BY OnlyReader DEF ReadSubjects, IInv, NothingBeforePass2, Reading
  <1>3. /\ todo'[r] = us /\ remaining'[r] = rem /\ pc'[r] = "allocate"
        /\ blocked'[r] = Blocked(us, seen[r], rem)
        /\ pairs'[r] = CanonicalPairs(us, seen[r], rem)
        /\ \A q \in Runs \ {r} : todo'[q] = todo[q] /\ pc'[q] = pc[q]
        /\ UNCHANGED <<db, writeLock, kind, seen, draft>>
    BY <1>1 DEF ReadSubjects, TypeOK
  <1>4. \A q \in Runs : /\ draft'[q] = NoDraft
                        /\ q # r => ~Reading(q)' /\ pc'[q] # "allocate" /\ todo'[q] = {}
    BY <1>2, <1>3 DEF Reading
  <1>5. LockHeld' /\ NothingBeforePass2'
    BY <1>2, <1>3, <1>4 DEF LockHeld, NothingBeforePass2
  <1>6. SnapshotCurrent'
    BY <1>2, <1>3, <1>4 DEF IInv, SnapshotCurrent, Reading, db
  <1>7. RemainingIsCapacity'
    <2>1. \A c \in ContractIds : seen[r][c] # None =>
             seen[r][c].gross - consumed[kind[r]][c] = seen[r][c].gross - consumed[kind[r]][c] - 0
      BY <1>1, FactsTyped DEF TypeOK
    <2> QED BY <1>3, <1>4, <2>1, NoDraftTyped DEF RemainingIsCapacity, Capacity, db
  <1>8. DraftFits'
    BY <1>3, <1>4, NoDraftTyped DEF DraftFits
  <1>9. us \in SUBSET SubjectIds /\ \A u \in us : subjects[u] # None /\ ~Resolved(u)
    BY DEF Unresolved
  <1>10. PairsKept'
    <2>1. rem \in [ContractIds -> Int]
      BY <1>1, CapacityTyped DEF TypeOK
    <2> HIDE DEF us, rem
    <2>2. \A s \in us, c \in ContractIds :
            <<s, c>> \in CanonicalPairs(us, seen[r], rem) =>
              /\ seen[r][c] # None /\ subjects[s].amount <= rem[c]
              /\ \A t \in us : /\ <<t, c>> \in CanonicalPairs(us, seen[r], rem) => t = s
                               /\ c \in Candidates(seen[r], t) => t \in Blocked(us, seen[r], rem)
      BY <1>1, <1>9, <2>1, PairsAreSafe
    <2>3. \A t \in us : Candidates(seen[r], t)' = Candidates(seen[r], t)
      BY <1>3 DEF Candidates, db
    <2>4. /\ \A q \in Runs : pc'[q] = "allocate" => q = r
          /\ subjects' = subjects /\ seen' = seen
      BY <1>3, <1>4 DEF db
    <2>5. ASSUME NEW s \in todo'[r], NEW c \in ContractIds, <<s, c>> \in pairs'[r]
          PROVE  PairKept(r, s, c)'
      BY <1>3, <2>2, <2>3, <2>4, <2>5 DEF PairKept
    <2> QED BY <2>4, <2>5 DEF PairsKept
  <1>11. SubjectsExist'
    BY <1>3, <1>4, <1>9, NoDraftTyped DEF IInv, SubjectsExist, db
  <1>12. DecidedOnce' /\ OneCasePerSubject'
    BY <1>3, <1>4, <1>9, NoDraftTyped DEF IInv, DecidedOnce, OneCasePerSubject, Resolved, db
  <1> QED BY <1>1, <1>5, <1>6, <1>7, <1>8, <1>10, <1>11, <1>12 DEF IInv

LEMMA DecideKeeps ==
    ASSUME IInv, NEW r \in Runs, NEW s \in todo[r], DecideSubject(r, s)
    PROVE  IInv'
  <1>1. /\ OneCaseWritten(r, s)
        /\ \/ NothingTaken(r)
           \/ \E c \in ContractIds : MayTake(r, s, c) /\ Taken(r, s, c)
    BY DecideEffect
  <1>2. TypeOK /\ TypeOK'
    BY <1>1, DecideTyped DEF IInv
  <1>3. /\ pc[r] = "allocate" /\ todo'[r] = todo[r] \ {s}
        /\ \A q \in Runs \ {r} : todo'[q] = todo[q]
        /\ UNCHANGED <<db, writeLock, pc, kind, seen, blocked, pairs>>
    BY <1>2 DEF DecideSubject, TypeOK
  <1>4. \A q \in Runs \ {r} : /\ draft'[q] = draft[q] /\ pc'[q] # "allocate"
                              /\ draft[q] = NoDraft /\ todo[q] = {}
    BY <1>1, <1>3, OnlyReader DEF OneCaseWritten, Reading, IInv, NothingBeforePass2
  <1>5. LockHeld' /\ NothingBeforePass2' /\ SnapshotCurrent'
    BY <1>3, <1>4 DEF IInv, LockHeld, NothingBeforePass2, SnapshotCurrent, Reading, db
  <1>6. /\ s \in SubjectIds /\ subjects[s] # None /\ subjects[s].amount \in Nat
        /\ draft[r].taken \in [ContractIds -> Nat]
        /\ remaining[r] \in [ContractIds -> Int]
        /\ \A c \in ContractIds : seen[r][c] # None => seen[r][c].gross \in Nat
        /\ consumed[kind[r]] \in [ContractIds -> Nat]
    BY <1>2, FactsTyped DEF IInv, SubjectsExist, TypeOK, Drafts
  <1>7. RemainingIsCapacity'
    <2>1. CASE NothingTaken(r)
      BY <1>3, <1>4, <2>1 DEF NothingTaken, IInv, RemainingIsCapacity, db
    <2>2. ASSUME NEW c \in ContractIds, Taken(r, s, c)
          PROVE  RemainingIsCapacity'
      <3>1. \A d \in ContractIds : seen[r][d] # None =>
              remaining'[r][d] = seen[r][d].gross - consumed[kind[r]][d] - draft'[r].taken[d]
        BY <1>3, <1>6, <2>2 DEF Taken, IInv, RemainingIsCapacity
      <3> QED BY <1>3, <1>4, <3>1 DEF RemainingIsCapacity, db
    <2> QED BY <1>1, <2>1, <2>2
  <1>8. DraftFits'
    <2>1. CASE NothingTaken(r)
      BY <1>3, <1>4, <2>1 DEF NothingTaken, IInv, DraftFits
    <2>2. ASSUME NEW c \in ContractIds, MayTake(r, s, c), Taken(r, s, c)
          PROVE  DraftFits'
      <3>1. \A d \in ContractIds :
              draft'[r].taken[d] > 0 => seen[r][d] # None /\ remaining'[r][d] >= 0
        BY <1>3, <1>6, <2>2 DEF Taken, MayTake, IInv, DraftFits
      <3> QED BY <1>3, <1>4, <3>1 DEF DraftFits
    <2> QED BY <1>1, <2>1, <2>2
  <1>9. PairsKept'
    <2>1. ASSUME NEW u \in todo'[r], NEW c \in ContractIds, <<u, c>> \in pairs[r]
          PROVE  remaining'[r][c] = remaining[r][c]
      <3>1. CASE NothingTaken(r)
        BY <3>1 DEF NothingTaken
      <3>2. ASSUME NEW d \in ContractIds, MayTake(r, s, d), Taken(r, s, d)
            PROVE  remaining'[r][c] = remaining[r][c]
        <4>1. d # c
          BY <1>3, <2>1, <3>2 DEF MayTake
        <4> QED BY <1>6, <3>2, <4>1 DEF Taken
      <3> QED BY <1>1, <3>1, <3>2
    <2>2. \A t \in todo[r] : Candidates(seen[r], t)' = Candidates(seen[r], t)
      BY <1>3 DEF Candidates, db
    <2> QED BY <1>3, <1>4, <2>1, <2>2 DEF IInv, PairsKept, PairKept, db
  <1>10. PICK m \in CaseRecords : m.subject = s /\ draft'[r].cases = draft[r].cases \cup {m}
    BY <1>1 DEF OneCaseWritten
  <1>11. SubjectsExist'
    BY <1>3, <1>4, <1>6, <1>10, NoDraftTyped DEF IInv, SubjectsExist, db
  <1>12. DecidedOnce' /\ OneCasePerSubject'
    BY <1>3, <1>4, <1>10, NoDraftTyped DEF IInv, DecidedOnce, OneCasePerSubject, Resolved, db
  <1> QED BY <1>2, <1>5, <1>7, <1>8, <1>9, <1>11, <1>12 DEF IInv

-----------------------------------------------------------------------------
(* The invariant, capacity, and decisions that are final.                  *)

LEMMA NextKeeps == IInv /\ [Next]_vars => IInv'
  <1> SUFFICES ASSUME IInv, [Next]_vars PROVE IInv'
    OBVIOUS
  <1>1. CASE ImportStep
    BY <1>1, ImportKeeps
  <1>2. CASE PeopleStep
    BY <1>2, ConfirmKeeps, ReviseKeeps DEF PeopleStep
  <1>3. ASSUME NEW r \in Runs, RunStep(r) PROVE IInv'
    <2>1. ASSUME NEW k \in Kinds, StartRun(r, k) PROVE IInv'
      BY <2>1, StartRunKeeps
    <2>2. CASE ReadSubjects(r)
      BY <2>2, ReadSubjectsKeeps
    <2>3. ASSUME NEW s \in todo[r], DecideSubject(r, s) PROVE IInv'
      BY <2>3, DecideKeeps
    <2>4. CASE CommitRun(r)
      BY <2>4, CommitKeeps
    <2>5. CASE Rollback(r)
      BY <2>5, RollbackKeeps
    <2> QED BY <1>3, <2>1, <2>2, <2>3, <2>4, <2>5 DEF RunStep
  <1>4. CASE UNCHANGED vars
    BY <1>4 DEF vars, db, local, IInv, TypeOK, LockHeld, NothingBeforePass2, SnapshotCurrent,
                RemainingIsCapacity, DraftFits, PairsKept, PairKept, Candidates, SubjectsExist,
                DecidedOnce, Resolved, OneCasePerSubject, Reading
  <1> QED BY <1>1, <1>2, <1>3, <1>4 DEF Next

\* The inductive invariant holds in every reachable state.
THEOREM InvariantHolds == Spec => []IInv
  BY InitHolds, NextKeeps, PTL DEF Spec

\* The tables and the runs' local variables keep their types.
THEOREM TypesHold == Spec => []TypeOK
  <1>1. IInv => TypeOK
    BY DEF IInv
  <1> QED BY <1>1, InvariantHolds, PTL

\* No subject is ever put to two cases, whatever runs and imports interleave:
\* the check-then-insert of _run_match_pass is safe under the write lock.
THEOREM OneCaseHolds == Spec => []OneCasePerSubject
  <1>1. IInv => OneCasePerSubject
    BY DEF IInv
  <1> QED BY <1>1, InvariantHolds, PTL

LEMMA CommitFits ==
    ASSUME IInv, NEW r \in Runs, CommitRun(r), NEW k \in Kinds, NEW c \in ContractIds,
           consumed'[k][c] > consumed[k][c]
    PROVE  contracts'[c] # None /\ consumed'[k][c] <= contracts'[c].gross
  <1>1. /\ consumed \in [Kinds -> [ContractIds -> Nat]] /\ kind[r] \in Kinds
        /\ draft[r].taken \in [ContractIds -> Nat]
        /\ remaining[r] \in [ContractIds -> Int]
    BY DEF IInv, TypeOK, Drafts
  <1>2. /\ consumed'[kind[r]] = [d \in ContractIds |-> consumed[kind[r]][d] + draft[r].taken[d]]
        /\ \A j \in Kinds \ {kind[r]} : consumed'[j] = consumed[j]
        /\ contracts' = contracts /\ pc[r] = "allocate"
    BY <1>1 DEF CommitRun
  <1>3. k = kind[r] /\ consumed'[k][c] = consumed[k][c] + draft[r].taken[c]
    BY <1>1, <1>2
  <1>4. draft[r].taken[c] > 0
    BY <1>1, <1>3
  <1>5. seen[r][c] # None /\ remaining[r][c] >= 0
    BY <1>2, <1>4 DEF IInv, DraftFits
  <1>6. /\ seen[r][c] = contracts[c]
        /\ remaining[r][c] = contracts[c].gross - consumed[k][c] - draft[r].taken[c]
    BY <1>2, <1>3, <1>5 DEF IInv, SnapshotCurrent, RemainingIsCapacity, Reading
  <1>7. contracts[c].gross \in Nat
    BY <1>5, <1>6, FactsTyped DEF IInv, TypeOK
  <1> QED BY <1>1, <1>2, <1>3, <1>5, <1>6, <1>7

LEMMA ConfirmFits ==
    ASSUME IInv, NEW m \in cases, NEW d \in ContractIds, ConfirmMatch(m, d),
           NEW k \in Kinds, NEW c \in ContractIds, consumed'[k][c] > consumed[k][c]
    PROVE  contracts'[c] # None /\ consumed'[k][c] <= contracts'[c].gross
  <1> DEFINE f == subjects[m.subject]
  <1>1. consumed \in [Kinds -> [ContractIds -> Nat]] /\ f.kind \in Kinds /\ f.amount \in Nat
    BY FactsTyped DEF IInv, TypeOK, SubjectsExist, CaseRecords
  <1>2. /\ consumed' = [consumed EXCEPT ![f.kind][d] = @ + f.amount]
        /\ consumed[f.kind][d] + f.amount <= contracts[d].gross
        /\ contracts' = contracts /\ contracts[d] # None
    BY DEF ConfirmMatch
  <1> HIDE DEF f
  <1>3. k = f.kind /\ c = d
    BY <1>1, <1>2
  <1> QED BY <1>1, <1>2, <1>3

\* Nothing is ever allocated beyond the gross amount a contract has when the
\* allocation is committed, for any number of runs, people and imports.
THEOREM CapacityHolds == Spec => NeverOverAllocates
  <1> DEFINE Fits ==
        \A k \in Kinds, c \in ContractIds : consumed'[k][c] > consumed[k][c] =>
            contracts'[c] # None /\ consumed'[k][c] <= contracts'[c].gross
  <1>1. ASSUME IInv, [Next]_vars PROVE [Fits]_vars
    <2>1. CASE consumed' = consumed
      <3>1. \A k \in Kinds, c \in ContractIds : consumed[k][c] \in Nat
        BY <1>1 DEF IInv, TypeOK
      <3> QED BY <2>1, <3>1
    <2>2. ASSUME NEW r \in Runs, CommitRun(r) PROVE Fits
      BY <1>1, <2>2, CommitFits
    <2>3. ASSUME NEW m \in cases, NEW c \in ContractIds, ConfirmMatch(m, c) PROVE Fits
      BY <1>1, <2>3, ConfirmFits
    <2>4. \/ consumed' = consumed
          \/ \E r \in Runs : CommitRun(r)
          \/ \E m \in cases, c \in ContractIds : ConfirmMatch(m, c)
      BY <1>1 DEF Next, ImportStep, Import, RunStep, StartRun, ReadSubjects, DecideSubject,
                  Rollback, PeopleStep, ReviseContract, vars, db
    <2> QED BY <2>1, <2>2, <2>3, <2>4
  <1>2. Spec => [][Fits]_vars
    BY <1>1, InvariantHolds, PTL DEF Spec
  <1> QED BY <1>2 DEF NeverOverAllocates

\* Whatever a run or a person decided stays decided.
THEOREM FinalHolds == Spec => DecisionsAreFinal
  <1> DEFINE Final ==
        /\ allocations \subseteq allocations'
        /\ \A m \in cases :
             \/ m \in cases'
             \/ m.status = "HCR" /\ [m EXCEPT !.status = "RESOLVED"] \in cases'
  <1>1. ASSUME [Next]_vars PROVE [Final]_vars
    <2>1. CASE UNCHANGED <<cases, allocations>>
      BY <2>1
    <2>2. ASSUME NEW r \in Runs, CommitRun(r) PROVE Final
      BY <2>2 DEF CommitRun
    <2>3. ASSUME NEW m \in cases, NEW c \in ContractIds, ConfirmMatch(m, c) PROVE Final
      BY <2>3 DEF ConfirmMatch, AwaitsPerson, ResolvedCase
    <2>4. \/ UNCHANGED <<cases, allocations>>
          \/ \E r \in Runs : CommitRun(r)
          \/ \E m \in cases, c \in ContractIds : ConfirmMatch(m, c)
      BY <1>1 DEF Next, ImportStep, Import, RunStep, StartRun, ReadSubjects, DecideSubject,
                  Rollback, PeopleStep, ReviseContract, vars, db
    <2> QED BY <2>1, <2>2, <2>3, <2>4
  <1>2. Spec => [][Final]_vars
    BY <1>1, PTL DEF Spec
  <1> QED BY <1>2 DEF DecisionsAreFinal

-----------------------------------------------------------------------------
(* What one decision writes, in full.                                      *)

CaseWritten(r, s, status) ==
    \E m \in CaseRecords : /\ m.id = <<s, r>> /\ m.subject = s /\ m.status = status
                           /\ draft'[r].cases = draft[r].cases \cup {m}
LeftOpen(r, s, status, task) ==
    /\ CaseWritten(r, s, status)
    /\ draft'[r].allocations = draft[r].allocations /\ draft'[r].taken = draft[r].taken
    /\ draft'[r].tasks = IF task THEN draft[r].tasks \cup {<<s, r>>} ELSE draft[r].tasks
RowOf(r, s, c, method) ==
    [case |-> <<s, r>>, subject |-> s, contract |-> c, amount |-> subjects[s].amount,
     method |-> method, by |-> "AUTO"]
GivenTo(r, s, c, method) ==
    /\ CaseWritten(r, s, "AUTO")
    /\ draft'[r].allocations = draft[r].allocations \cup {RowOf(r, s, c, method)}
    /\ draft'[r].taken = [draft[r].taken EXCEPT ![c] = @ + subjects[s].amount]
    /\ draft'[r].tasks = draft[r].tasks

LEMMA WriteCaseWrites ==
    ASSUME TypeOK, NEW r \in Runs, NEW s \in SubjectIds,
           NEW status \in {"AUTO", "HCR", "RESOLVED", "UNMATCHED"},
           NEW cands \in SUBSET ContractIds, NEW task \in BOOLEAN,
           WriteCase(r, s, status, cands, task)
    PROVE  LeftOpen(r, s, status, task)
  <1> DEFINE m == [id |-> <<s, r>>, subject |-> s, status |-> status, candidates |-> cands]
             ts == IF task THEN draft[r].tasks \cup {<<s, r>>} ELSE draft[r].tasks
             d == [draft[r] EXCEPT !.cases = @ \cup {m}, !.tasks = ts]
  <1>1. draft[r] \in Drafts
    BY DEF TypeOK
  <1>2. m \in CaseRecords /\ m.subject = s /\ m.id = <<s, r>> /\ m.status = status
    BY DEF CaseRecords, CaseIds
  <1>3. draft' = [draft EXCEPT ![r] = d]
    BY DEF WriteCase
  <1> HIDE DEF m
  <1>4. /\ d.cases = draft[r].cases \cup {m} /\ d.taken = draft[r].taken
        /\ d.allocations = draft[r].allocations /\ d.tasks = ts
    BY <1>1 DEF Drafts
  <1> HIDE DEF d
  <1>5. draft'[r] = d
    BY <1>3 DEF TypeOK
  <1> QED BY <1>2, <1>4, <1>5 DEF LeftOpen, CaseWritten

LEMMA AllocateWrites ==
    ASSUME TypeOK, NEW r \in Runs, NEW s \in SubjectIds, NEW c \in ContractIds, NEW method,
           Allocate(r, s, c, method)
    PROVE  GivenTo(r, s, c, method)
  <1> DEFINE m == [id |-> <<s, r>>, subject |-> s, status |-> "AUTO", candidates |-> {c}]
             a == [case |-> <<s, r>>, subject |-> s, contract |-> c, amount |-> subjects[s].amount,
                   method |-> method, by |-> "AUTO"]
             k == [draft[r].taken EXCEPT ![c] = @ + subjects[s].amount]
             d == [draft[r] EXCEPT !.cases = @ \cup {m}, !.allocations = @ \cup {a},
                                   !.taken = k]
  <1>1. draft[r] \in Drafts
    BY DEF TypeOK
  <1>2. m \in CaseRecords /\ m.subject = s /\ m.id = <<s, r>> /\ m.status = "AUTO"
    BY DEF CaseRecords, CaseIds
  <1>3. draft' = [draft EXCEPT ![r] = d]
    BY DEF Allocate
  <1> HIDE DEF m, a, k
  <1>4. /\ d.cases = draft[r].cases \cup {m} /\ d.taken = k
        /\ d.allocations = draft[r].allocations \cup {a} /\ d.tasks = draft[r].tasks
    BY <1>1 DEF Drafts
  <1> HIDE DEF d
  <1>5. draft'[r] = d
    BY <1>3 DEF TypeOK
  <1> QED BY <1>2, <1>4, <1>5 DEF GivenTo, CaseWritten, RowOf, a, k

\* The three ways a decision ends.
Unanswered(r, s) ==
    \E status \in {"HCR", "UNMATCHED"}, task \in BOOLEAN :
        /\ LeftOpen(r, s, status, task)
        /\ s \notin blocked[r] \/ \A c \in Candidates(seen[r], s) : <<s, c>> \notin pairs[r]
        /\ task => Viable(seen[r], remaining[r], s) = {}
Paired(r, s) ==
    \E c \in Candidates(seen[r], s) : <<s, c>> \in pairs[r] /\ GivenTo(r, s, c, "CANONICAL")
Chosen(r, s) ==
    /\ s \notin blocked[r]
    /\ \E c \in Viable(seen[r], remaining[r], s), method \in {"UNIQUE", "CHRONOLOGICAL"} :
          /\ GivenTo(r, s, c, method)
          /\ \/ Viable(seen[r], remaining[r], s) = {c}
             \/ /\ ChronologyDefined(seen[r], Viable(seen[r], remaining[r], s), s)
                /\ \A d \in Viable(seen[r], remaining[r], s) \ {c} : Earlier(seen[r], c, d)

LEMMA DecideWrites ==
    ASSUME IInv, NEW r \in Runs, NEW s \in todo[r], DecideSubject(r, s)
    PROVE  Unanswered(r, s) \/ Paired(r, s) \/ Chosen(r, s)
  <1> DEFINE cands == Candidates(seen[r], s)
             open == Viable(seen[r], remaining[r], s)
  <1>1. TypeOK /\ s \in SubjectIds
    BY DEF IInv, TypeOK
  <1>2. cands \in SUBSET ContractIds /\ open \subseteq cands
    BY DEF Candidates, Viable
  <1>3. Method(cands) \in {"UNIQUE", "CHRONOLOGICAL"}
    BY DEF Method
  <1>4. Decide(r, s, cands, open)
    BY DEF DecideSubject
  <1> HIDE DEF cands, open
  <1>5. CASE cands = {} /\ WriteCase(r, s, "UNMATCHED", {}, FALSE)
    <2>1. LeftOpen(r, s, "UNMATCHED", FALSE)
      BY <1>1, <1>5, WriteCaseWrites
    <2> QED BY <1>5, <2>1 DEF Unanswered, cands
  <1>6. ASSUME NEW task \in BOOLEAN, LeaveToPeople(r, s, cands, task),
               s \notin blocked[r] \/ \A c \in cands : <<s, c>> \notin pairs[r],
               task => open = {}
        PROVE  Unanswered(r, s)
    <2>1. LeftOpen(r, s, "HCR", task)
      BY <1>1, <1>2, <1>6, WriteCaseWrites DEF LeaveToPeople
    <2> QED BY <1>6, <2>1 DEF Unanswered, cands, open
  <1>7. ASSUME NEW c \in cands, <<s, c>> \in pairs[r], Allocate(r, s, c, "CANONICAL")
        PROVE  Paired(r, s)
    BY <1>1, <1>2, <1>7, AllocateWrites DEF Paired, cands
  <1>8. ASSUME NEW c \in open, s \notin blocked[r], Allocate(r, s, c, Method(cands)),
               open = {c} \/ (ChronologyDefined(seen[r], open, s)
                              /\ \A d \in open \ {c} : Earlier(seen[r], c, d))
        PROVE  Chosen(r, s)
    <2>1. GivenTo(r, s, c, Method(cands))
      BY <1>1, <1>2, <1>8, AllocateWrites
    <2> QED BY <1>3, <1>8, <2>1 DEF Chosen, open
  <1> QED BY <1>4, <1>5, <1>6, <1>7, <1>8 DEF Decide

-----------------------------------------------------------------------------
(* Cases and their allocations.                                            *)

RowsOf(m, A) == {a \in A : a.case = m.id}
Decided(m) == m.status \in {"AUTO", "RESOLVED"}
\* The rows A answer the cases C: every decided case has one row, every other
\* case none, and every row is that of a case.
Answers(facts, C, A) ==
    /\ \A m \in C : /\ m.id[1] = m.subject
                    /\ Decided(m) => \E a \in A : RowsOf(m, A) = {a}
                    /\ ~Decided(m) => RowsOf(m, A) = {}
    /\ \A a \in A : \E m \in C :
          /\ m.id = a.case /\ m.subject = a.subject /\ a.amount = facts[a.subject].amount
          /\ m.status = IF a.by = "AUTO" THEN "AUTO" ELSE "RESOLVED"
CasesAnswered ==
    /\ Answers(subjects, cases, allocations)
    /\ \A r \in Runs : Answers(subjects, draft[r].cases, draft[r].allocations)

-----------------------------------------------------------------------------
(* A decided case has one row.                                             *)

\* Answers about different subjects can be put together.
LEMMA AnswersJoin ==
    ASSUME NEW facts, NEW C, NEW D, NEW A, NEW B,
           Answers(facts, C, A), Answers(facts, D, B),
           \A m \in C, n \in D : m.subject # n.subject
    PROVE  Answers(facts, C \cup D, A \cup B)
  <1>1. ASSUME NEW m \in C PROVE RowsOf(m, A \cup B) = RowsOf(m, A)
    <2>1. ASSUME NEW b \in B, b.case = m.id PROVE FALSE
      <3>1. PICK n \in D : n.id = b.case
        BY DEF Answers
      <3>2. n.id[1] = n.subject /\ m.id[1] = m.subject
        BY DEF Answers
      <3> QED BY <2>1, <3>1, <3>2
    <2> QED BY <2>1 DEF RowsOf
  <1>2. ASSUME NEW n \in D PROVE RowsOf(n, A \cup B) = RowsOf(n, B)
    <2>1. ASSUME NEW a \in A, a.case = n.id PROVE FALSE
      <3>1. PICK m \in C : m.id = a.case
        BY DEF Answers
      <3>2. n.id[1] = n.subject /\ m.id[1] = m.subject
        BY DEF Answers
      <3> QED BY <2>1, <3>1, <3>2
    <2> QED BY <2>1 DEF RowsOf
  <1>3. ASSUME NEW m \in C \cup D
        PROVE  /\ m.id[1] = m.subject
               /\ Decided(m) => \E a \in A \cup B : RowsOf(m, A \cup B) = {a}
               /\ ~Decided(m) => RowsOf(m, A \cup B) = {}
    <2>1. CASE m \in C
      <3>1. /\ m.id[1] = m.subject
            /\ Decided(m) => \E a \in A : RowsOf(m, A) = {a}
            /\ ~Decided(m) => RowsOf(m, A) = {}
        BY <2>1, Zenon DEF Answers
      <3> QED BY <1>1, <2>1, <3>1
    <2>2. CASE m \in D
      <3>1. /\ m.id[1] = m.subject
            /\ Decided(m) => \E b \in B : RowsOf(m, B) = {b}
            /\ ~Decided(m) => RowsOf(m, B) = {}
        BY <2>2, Zenon DEF Answers
      <3> QED BY <1>2, <2>2, <3>1
    <2> QED BY <2>1, <2>2
  <1>4. ASSUME NEW a \in A \cup B
        PROVE  \E m \in C \cup D :
                  /\ m.id = a.case /\ m.subject = a.subject
                  /\ a.amount = facts[a.subject].amount
                  /\ m.status = IF a.by = "AUTO" THEN "AUTO" ELSE "RESOLVED"
    <2>1. CASE a \in A
      BY <2>1 DEF Answers
    <2>2. CASE a \in B
      BY <2>2 DEF Answers
    <2> QED BY <2>1, <2>2
  <1>5. \A m \in C \cup D :
           /\ m.id[1] = m.subject
           /\ Decided(m) => \E a \in A \cup B : RowsOf(m, A \cup B) = {a}
           /\ ~Decided(m) => RowsOf(m, A \cup B) = {}
    BY <1>3
  <1>6. \A a \in A \cup B : \E m \in C \cup D :
           /\ m.id = a.case /\ m.subject = a.subject
           /\ a.amount = facts[a.subject].amount
           /\ m.status = IF a.by = "AUTO" THEN "AUTO" ELSE "RESOLVED"
    BY <1>4
  <1> QED BY ONLY <1>5, <1>6 DEF Answers

LEMMA AnswersOpen ==
    ASSUME NEW facts, NEW m, m.id[1] = m.subject, ~Decided(m)
    PROVE  Answers(facts, {m}, {})
  BY DEF Answers, RowsOf

LEMMA AnswersDecided ==
    ASSUME NEW facts, NEW m, NEW a, m.id[1] = m.subject, Decided(m),
           m.id = a.case, m.subject = a.subject, a.amount = facts[a.subject].amount,
           m.status = IF a.by = "AUTO" THEN "AUTO" ELSE "RESOLVED"
    PROVE  Answers(facts, {m}, {a})
  <1>1. RowsOf(m, {a}) = {a}
    BY DEF RowsOf
  <1> QED BY <1>1 DEF Answers

LEMMA NothingAnswered ==
    ASSUME NEW facts PROVE Answers(facts, {}, {})
  BY DEF Answers

\* Facts that subjects get later do not matter.
LEMMA AnswersLast ==
    ASSUME NEW facts, NEW later, NEW C, NEW A, Answers(facts, C, A),
           \A m \in C : later[m.subject] = facts[m.subject]
    PROVE  Answers(later, C, A)
  BY DEF Answers

LEMMA DecideAnswers ==
    ASSUME IInv, CasesAnswered, NEW r \in Runs, NEW s \in todo[r], DecideSubject(r, s)
    PROVE  Answers(subjects, draft'[r].cases, draft'[r].allocations)
  <1>1. Answers(subjects, draft[r].cases, draft[r].allocations)
    BY DEF CasesAnswered
  <1>2. \A m \in draft[r].cases : m.subject # s
    BY DEF IInv, DecidedOnce
  <1>3. ASSUME NEW status \in {"HCR", "UNMATCHED"}, NEW task, LeftOpen(r, s, status, task)
        PROVE  Answers(subjects, draft'[r].cases, draft'[r].allocations)
    <2>1. PICK m \in CaseRecords : /\ m.id = <<s, r>> /\ m.subject = s /\ m.status = status
                                   /\ draft'[r].cases = draft[r].cases \cup {m}
      BY <1>3 DEF LeftOpen, CaseWritten
    <2>2. m.id[1] = s
      BY <2>1
    <2>3. Answers(subjects, {m}, {})
      BY <2>1, <2>2, AnswersOpen DEF Decided
    <2>4. Answers(subjects, draft[r].cases \cup {m}, draft[r].allocations \cup {})
      BY <1>1, <1>2, <2>1, <2>3, AnswersJoin
    <2>5. draft'[r].allocations = draft[r].allocations \cup {}
      BY <1>3 DEF LeftOpen
    <2> QED BY <2>1, <2>4, <2>5
  <1>4. ASSUME NEW c, NEW method, GivenTo(r, s, c, method)
        PROVE  Answers(subjects, draft'[r].cases, draft'[r].allocations)
    <2> DEFINE a == RowOf(r, s, c, method)
    <2>1. PICK m \in CaseRecords : /\ m.id = <<s, r>> /\ m.subject = s /\ m.status = "AUTO"
                                   /\ draft'[r].cases = draft[r].cases \cup {m}
      BY <1>4 DEF GivenTo, CaseWritten
    <2>2. m.id[1] = s
      BY <2>1
    <2>3. a.case = <<s, r>> /\ a.subject = s /\ a.amount = subjects[s].amount /\ a.by = "AUTO"
      BY DEF RowOf
    <2>4. draft'[r].allocations = draft[r].allocations \cup {a}
      BY <1>4 DEF GivenTo
    <2> HIDE DEF a
    <2>5. Answers(subjects, {m}, {a})
      BY <2>1, <2>2, <2>3, AnswersDecided DEF Decided
    <2>6. Answers(subjects, draft[r].cases \cup {m}, draft[r].allocations \cup {a})
      BY <1>1, <1>2, <2>1, <2>5, AnswersJoin
    <2> QED BY <2>1, <2>4, <2>6
  <1> QED BY <1>3, <1>4, DecideWrites DEF Unanswered, Paired, Chosen

LEMMA ConfirmAnswers ==
    ASSUME IInv, CasesAnswered, NEW m \in cases, NEW c \in ContractIds, ConfirmMatch(m, c)
    PROVE  CasesAnswered'
  <1> DEFINE n == ResolvedCase(m)
             a == ConfirmedRow(m, c)
  <1>1. /\ m.status = "HCR" /\ allocations' = allocations \cup {a}
        /\ cases' = (cases \ {m}) \cup {n}
        /\ UNCHANGED <<subjects, draft>>
    BY DEF ConfirmMatch, AwaitsPerson, local
  <1>2. n.id = m.id /\ n.subject = m.subject /\ n.status = "RESOLVED"
    BY DEF ResolvedCase, IInv, TypeOK, CaseRecords
  <1>3. a.case = m.id /\ a.subject = m.subject /\ a.amount = subjects[m.subject].amount
        /\ a.by = "HUMAN"
    BY DEF ConfirmedRow
  <1> HIDE DEF n, a
  <1>4. Answers(subjects, cases, allocations) /\ m.id[1] = m.subject
    BY DEF CasesAnswered, Answers
  <1>5. Answers(subjects, cases \ {m}, allocations)
    BY <1>1, <1>4 DEF Answers
  <1>6. Answers(subjects, {n}, {a})
    BY <1>2, <1>3, <1>4, AnswersDecided DEF Decided
  <1>7. \A k \in cases \ {m}, l \in {n} : k.subject # l.subject
    BY <1>2 DEF IInv, OneCasePerSubject
  <1>8. Answers(subjects, (cases \ {m}) \cup {n}, allocations \cup {a})
    BY <1>5, <1>6, <1>7, AnswersJoin
  <1> QED BY <1>1, <1>8 DEF CasesAnswered

LEMMA CommitAnswers ==
    ASSUME IInv, CasesAnswered, NEW r \in Runs, CommitRun(r)
    PROVE  Answers(subjects, cases', allocations')
  <1>1. \A m \in cases, n \in draft[r].cases : m.subject # n.subject
    BY DEF IInv, DecidedOnce, Resolved
  <1>2. Answers(subjects, cases \cup draft[r].cases, allocations \cup draft[r].allocations)
    BY <1>1, AnswersJoin DEF CasesAnswered
  <1> QED BY <1>2 DEF CommitRun

LEMMA AnsweredStays ==
    ASSUME IInv, CasesAnswered, [Next]_vars
    PROVE  CasesAnswered'
  <1>1. TypeOK
    BY DEF IInv
  <1>2. ASSUME NEW r \in Runs, NEW label, EndRun(r, label), UNCHANGED subjects
        PROVE  \A q \in Runs : Answers(subjects', draft'[q].cases, draft'[q].allocations)
    <2>1. /\ draft'[r] = NoDraft
          /\ \A q \in Runs \ {r} : draft'[q] = draft[q]
      BY <1>1, <1>2 DEF EndRun, TypeOK
    <2> QED BY <1>2, <2>1, NoDraftTyped, NothingAnswered DEF CasesAnswered
  <1>3. CASE ImportStep
    <2>1. /\ \A s \in SubjectIds : subjects[s] # None => subjects'[s] = subjects[s]
          /\ UNCHANGED <<cases, allocations, draft>>
      BY <1>1, <1>3, ImportAdds DEF local
    <2>2. /\ \A m \in cases : subjects'[m.subject] = subjects[m.subject]
          /\ \A r \in Runs : \A m \in draft[r].cases : subjects'[m.subject] = subjects[m.subject]
      BY <1>1, <2>1 DEF IInv, SubjectsExist, TypeOK, CaseRecords, Drafts
    <2>3. Answers(subjects', cases, allocations)
      BY <2>2, AnswersLast DEF CasesAnswered
    <2>4. \A r \in Runs : Answers(subjects', draft[r].cases, draft[r].allocations)
      BY <2>2, AnswersLast DEF CasesAnswered
    <2> QED BY <2>1, <2>3, <2>4 DEF CasesAnswered
  <1>4. ASSUME NEW m \in cases, NEW c \in ContractIds, ConfirmMatch(m, c) PROVE CasesAnswered'
    BY <1>4, ConfirmAnswers
  <1>5. ASSUME NEW c \in ContractIds, NEW f \in ContractFacts, ReviseContract(c, f)
        PROVE  CasesAnswered'
    BY <1>5 DEF ReviseContract, local, CasesAnswered
  <1>6. ASSUME NEW r \in Runs, RunStep(r) PROVE CasesAnswered'
    <2>1. ASSUME NEW k \in Kinds, StartRun(r, k) PROVE CasesAnswered'
      BY <2>1 DEF StartRun, db, CasesAnswered
    <2>2. CASE ReadSubjects(r)
      BY <2>2 DEF ReadSubjects, db, CasesAnswered
    <2>3. ASSUME NEW s \in todo[r], DecideSubject(r, s) PROVE CasesAnswered'
      <3>1. UNCHANGED <<subjects, cases, allocations>>
        BY <2>3 DEF DecideSubject, db
      <3>2. \A q \in Runs \ {r} : draft'[q] = draft[q]
        BY <2>3, DecideEffect DEF OneCaseWritten
      <3>3. Answers(subjects, draft'[r].cases, draft'[r].allocations)
        BY <2>3, DecideAnswers
      <3> QED BY <3>1, <3>2, <3>3 DEF CasesAnswered
    <2>4. CASE CommitRun(r)
      <3>1. EndRun(r, "done") /\ UNCHANGED subjects
        BY <2>4 DEF CommitRun
      <3>2. Answers(subjects, cases', allocations')
        BY <2>4, CommitAnswers
      <3> QED BY <1>2, <3>1, <3>2 DEF CasesAnswered
    <2>5. CASE Rollback(r)
      <3>1. EndRun(r, "idle") /\ UNCHANGED <<subjects, cases, allocations>>
        BY <2>5 DEF Rollback, db
      <3> QED BY <1>2, <3>1 DEF CasesAnswered
    <2> QED BY <1>6, <2>1, <2>2, <2>3, <2>4, <2>5 DEF RunStep
  <1>7. CASE UNCHANGED vars
    BY <1>7 DEF vars, db, local, CasesAnswered
  <1> QED BY <1>3, <1>4, <1>5, <1>6, <1>7 DEF Next, PeopleStep

LEMMA AnsweredFirst == Init => CasesAnswered
  <1> SUFFICES ASSUME Init PROVE CasesAnswered
    OBVIOUS
  <1>1. /\ cases = {} /\ allocations = {}
        /\ \A r \in Runs : draft[r].cases = {} /\ draft[r].allocations = {}
    BY NoDraftTyped DEF Init
  <1> QED BY <1>1, NothingAnswered DEF CasesAnswered

LEMMA AnsweredMeans == CasesAnswered => CaseMatchesAllocation
  <1> SUFFICES ASSUME CasesAnswered PROVE CaseMatchesAllocation
    OBVIOUS
  <1>1. Answers(subjects, cases, allocations)
    BY DEF CasesAnswered
  <1>2. ASSUME NEW m \in cases
        PROVE  Cardinality({a \in allocations : a.case = m.id})
                 = IF m.status \in {"AUTO", "RESOLVED"} THEN 1 ELSE 0
    <2>1. CASE Decided(m)
      <3>1. PICK a \in allocations : RowsOf(m, allocations) = {a}
        BY <1>1, <2>1 DEF Answers
      <3>2. Cardinality(RowsOf(m, allocations)) = 1
        BY <3>1, FS_Singleton
      <3> QED BY <2>1, <3>2 DEF Decided, RowsOf
    <2>2. CASE ~Decided(m)
      <3>1. RowsOf(m, allocations) = {}
        BY <1>1, <2>2 DEF Answers
      <3>2. Cardinality(RowsOf(m, allocations)) = 0
        BY <3>1, FS_EmptySet
      <3> QED BY <2>2, <3>2 DEF Decided, RowsOf
    <2> QED BY <2>1, <2>2
  <1> QED BY <1>1, <1>2 DEF CaseMatchesAllocation, Answers

\* A decided case has one allocation, for its subject's whole amount and saying
\* who decided it, and any other case none: what _run_match_pass and
\* confirm_match write together stays together, whatever runs and people do.
THEOREM CaseMatchesHolds == Spec => []CaseMatchesAllocation
  <1>1. Init => CasesAnswered
    BY AnsweredFirst
  <1>2. IInv /\ CasesAnswered /\ [Next]_vars => CasesAnswered'
    BY AnsweredStays
  <1>3. CasesAnswered => CaseMatchesAllocation
    BY AnsweredMeans
  <1> QED BY <1>1, <1>2, <1>3, InvariantHolds, PTL DEF Spec

-----------------------------------------------------------------------------
(* Why a run's draft is what it should be.                                 *)

\* What pass 1 set aside, said of the subjects decided since too.
SetAside(r) ==
    /\ blocked[r] = Blocked(RunSubjects(r), seen[r], Capacity(kind[r], seen[r]))
    /\ pairs[r] = CanonicalPairs(RunSubjects(r), seen[r], Capacity(kind[r], seen[r]))

DecidedInOrder(r) == \A m \in draft[r].cases, t \in todo[r] : ProcessedBefore(m.subject, t)

\* A row goes to a candidate, to the pair when there is one, and is greedy
\* only outside the cohorts without an order.
RowSound(r, a) ==
    /\ \E m \in draft[r].cases : m.subject = a.subject
    /\ a.contract \in Candidates(seen[r], a.subject)
    /\ IF a.method = "CANONICAL" THEN <<a.subject, a.contract>> \in pairs[r]
                                 ELSE a.subject \notin blocked[r]
RowsSound(r) ==
    /\ \A a \in draft[r].allocations : RowSound(r, a)
    /\ \A a, b \in draft[r].allocations : a.subject = b.subject => a = b
    /\ \A c \in ContractIds : draft[r].taken[c] > 0 =>
          \E a \in draft[r].allocations : a.contract = c
    /\ \A m \in draft[r].cases, c \in ContractIds : <<m.subject, c>> \in pairs[r] =>
          \E a \in draft[r].allocations : a.subject = m.subject /\ a.method = "CANONICAL"

Unforced(r, a) ==
    \/ Rivals(r, a.subject) = {a.subject} /\ WasOpen(r, a.subject) = {a.contract}
    \/ /\ \A t \in Rivals(r, a.subject) : subjects[t].date # 0
       /\ \A c \in WasOpen(r, a.subject) : seen[r][c].date # 0
EarlierGone(r, a, d) ==
    \E b \in Greedy(r) : b.contract = d /\ subjects[b.subject].date <= subjects[a.subject].date
Chronological(r, a) ==
    \A d \in WasOpen(r, a.subject) :
        (d # a.contract /\ seen[r][d].date < seen[r][a.contract].date) => EarlierGone(r, a, d)
Full(r, id) ==
    /\ id[1] \in RunSubjects(r)
    /\ \A c \in Candidates(seen[r], id[1]) :
          consumed[kind[r]][c] + draft[r].taken[c] + subjects[id[1]].amount > seen[r][c].gross

Pass2(r) ==
    /\ SetAside(r) /\ DecidedInOrder(r) /\ RowsSound(r)
    /\ \A a \in Greedy(r) : Unforced(r, a) /\ Chronological(r, a)
    /\ \A id \in draft[r].tasks : Full(r, id)
Pass2Inv == \A r \in Runs : pc[r] = "allocate" => Pass2(r)

-----------------------------------------------------------------------------
(* Orders and ranks.                                                       *)

\* What a lexicographic comparison says of the first two components.
LEMMA BelowFirst ==
    ASSUME NEW a, NEW b, DOMAIN a \subseteq Nat \ {0},
           a[1] \in Nat, b[1] \in Nat, a[2] \in Nat, b[2] \in Nat, Below(a, b)
    PROVE  a[1] < b[1] \/ (a[1] = b[1] /\ a[2] <= b[2])
  <1>1. PICK i \in Nat \ {0} : a[i] < b[i] /\ \A j \in 1..(i - 1) : a[j] = b[j]
    BY DEF Below
  <1>2. CASE i = 1
    BY <1>1, <1>2
  <1>3. CASE i = 2
    BY <1>1, <1>3
  <1>4. CASE i > 2
    <2>1. 1 \in 1..(i - 1) /\ 2 \in 1..(i - 1)
      BY <1>4
    <2> QED BY <1>1, <2>1
  <1> QED BY <1>2, <1>3, <1>4

\* With a date each, an earlier processed subject is dated no later.
LEMMA ProcessedMeansDated ==
    ASSUME NEW s, NEW t, subjects[s] \in SubjectRecords, subjects[t] \in SubjectRecords,
           subjects[s].date # 0, subjects[t].date # 0, ProcessedBefore(s, t)
    PROVE  subjects[s].date <= subjects[t].date
  <1>1. subjects[s].date \in Nat /\ subjects[t].date \in Nat
    BY DEF SubjectRecords
  <1>2. CASE Below(InvoiceKey(s), InvoiceKey(t))
    <2>1. /\ DOMAIN InvoiceKey(s) \subseteq Nat \ {0}
          /\ InvoiceKey(s)[1] = 0 /\ InvoiceKey(s)[2] = subjects[s].date
          /\ InvoiceKey(t)[1] = 0 /\ InvoiceKey(t)[2] = subjects[t].date
      BY DEF InvoiceKey, Missing
    <2> QED BY <1>1, <1>2, <2>1, BelowFirst
  <1>3. CASE Below(PaymentKey(s), PaymentKey(t))
    <2>1. /\ DOMAIN PaymentKey(s) \subseteq Nat \ {0}
          /\ PaymentKey(s)[1] = 0 /\ PaymentKey(s)[2] = subjects[s].date
          /\ PaymentKey(t)[1] = 0 /\ PaymentKey(t)[2] = subjects[t].date
      BY DEF PaymentKey, Missing
    <2> QED BY <1>1, <1>3, <2>1, BelowFirst
  <1> QED BY <1>2, <1>3 DEF ProcessedBefore

LEMMA EarlierMeansDated ==
    ASSUME NEW cs, NEW c, NEW d, cs[c] \in ContractRecords, cs[d] \in ContractRecords,
           Earlier(cs, c, d)
    PROVE  cs[c].date <= cs[d].date
  <1>1. /\ cs[c].date \in Nat /\ cs[d].date \in Nat
        /\ cs[c].no \in Nat /\ cs[d].no \in Nat
    BY DEF ContractRecords
  <1>2. /\ DOMAIN ChronologicalKey(cs, c) \subseteq Nat \ {0}
        /\ ChronologicalKey(cs, c)[1] = cs[c].date /\ ChronologicalKey(cs, d)[1] = cs[d].date
        /\ ChronologicalKey(cs, c)[2] = cs[c].no /\ ChronologicalKey(cs, d)[2] = cs[d].no
    BY DEF ChronologicalKey
  <1> QED BY <1>1, <1>2, BelowFirst DEF Earlier

\* A set that holds two elements has at least two.
LEMMA TwoElements ==
    ASSUME NEW S, IsFiniteSet(S), NEW x \in S, NEW y \in S, x # y
    PROVE  Cardinality(S) >= 2
  <1>1. IsFiniteSet({x}) /\ Cardinality({x}) = 1
    BY FS_Singleton
  <1>2. Cardinality({x, y}) = 2
    <2>1. {x, y} = {x} \cup {y} /\ y \notin {x}
      OBVIOUS
    <2> QED BY <1>1, <2>1, FS_AddElement
  <1>3. {x, y} \in SUBSET S
    OBVIOUS
  <1> QED BY <1>2, <1>3, FS_Subset, FS_CardinalityType

\* In a finite set whose elements have different keys, every rank is taken.
LEMMA RankTaken ==
    ASSUME NEW G, IsFiniteSet(G), NEW key \in [G -> Nat],
           \A x, y \in G : key[x] = key[y] => x = y,
           NEW n \in Nat, n < Cardinality(G)
    PROVE  \E x \in G : Cardinality({u \in G : key[u] < key[x]}) = n
  <1> DEFINE N == Cardinality(G)
             below(x) == {u \in G : key[u] < key[x]}
             rank == [x \in G |-> Cardinality(below(x))]
  <1>1. N \in Nat /\ N > 0
    BY FS_CardinalityType
  <1>2. ASSUME NEW x \in G PROVE Cardinality(below(x)) \in 0..(N - 1)
    <2>1. below(x) \in SUBSET G /\ x \notin below(x)
      OBVIOUS
    <2> HIDE DEF below
    <2>2. IsFiniteSet(below(x)) /\ Cardinality(below(x)) <= N /\ Cardinality(below(x)) # N
      BY <2>1, FS_Subset
    <2> QED BY <1>1, <2>2, FS_CardinalityType
  <1>3. rank \in [G -> 0..(N - 1)]
    BY <1>2
  <1>4. ASSUME NEW x \in G, NEW y \in G, rank[x] = rank[y] PROVE x = y
    <2>1. key[x] = key[y]
      BY <1>4, RankDeterminesKey
    <2> QED BY <2>1
  <1> HIDE DEF rank
  <1>5. rank \in Injection(G, 0..(N - 1))
    BY <1>3, <1>4 DEF Injection, IsInjective
  <1>6. IsFiniteSet(0..(N - 1)) /\ Cardinality(0..(N - 1)) = N
    <2>1. 0 \in Int /\ N - 1 \in Int /\ ~(0 > N - 1) /\ (N - 1) - 0 + 1 = N
      BY <1>1
    <2> QED BY <2>1, FS_Interval
  <1>7. rank \in Surjection(G, 0..(N - 1))
    BY <1>5, <1>6, FS_Injection
  <1>8. n \in 0..(N - 1)
    BY <1>1
  <1>9. PICK x \in G : rank[x] = n
    BY <1>7, <1>8 DEF Surjection
  <1> QED BY <1>9 DEF rank

-----------------------------------------------------------------------------
(* What a choice among the open contracts rests on.                        *)

LEMMA RunSubjectsKnown ==
    ASSUME IInv, NEW r \in Runs
    PROVE  /\ RunSubjects(r) \in SUBSET SubjectIds
           /\ \A s \in RunSubjects(r) : subjects[s] \in SubjectRecords
           /\ \A s \in RunSubjects(r) : IsFiniteSet(Rivals(r, s))
           /\ \A c \in ContractIds : seen[r][c] # None => seen[r][c] \in ContractRecords
           /\ draft[r].taken \in [ContractIds -> Nat]
           /\ consumed[kind[r]] \in [ContractIds -> Nat]
           /\ remaining[r] \in [ContractIds -> Int]
           /\ draft[r].allocations \subseteq AllocationRecords
  <1>1. /\ todo[r] \in SUBSET SubjectIds /\ draft[r].cases \in SUBSET CaseRecords
        /\ draft[r].allocations \in SUBSET AllocationRecords
        /\ draft[r].taken \in [ContractIds -> Nat]
    BY DEF IInv, TypeOK, Drafts
  <1>2. RunSubjects(r) \in SUBSET SubjectIds
    BY <1>1 DEF RunSubjects, CaseRecords
  <1>3. ASSUME NEW s \in RunSubjects(r) PROVE subjects[s] \in SubjectRecords
    <2>1. subjects[s] # None
      BY DEF IInv, SubjectsExist, RunSubjects
    <2> QED BY <1>2, <2>1 DEF IInv, TypeOK
  <1>4. ASSUME NEW s \in RunSubjects(r) PROVE IsFiniteSet(Rivals(r, s))
    <2>1. Rivals(r, s) \in SUBSET SubjectIds
      BY <1>2 DEF Rivals, Cohort
    <2> QED BY <2>1, IdsAssumption, FS_Subset
  <1>5. \A c \in ContractIds : seen[r][c] # None => seen[r][c] \in ContractRecords
    BY DEF IInv, TypeOK
  <1>6. consumed[kind[r]] \in [ContractIds -> Nat] /\ remaining[r] \in [ContractIds -> Int]
    BY DEF IInv, TypeOK
  <1> QED BY <1>1, <1>2, <1>3, <1>4, <1>5, <1>6

\* What the draft has taken since the run read the ledger.
LEMMA LessIsOpen ==
    ASSUME IInv, NEW r \in Runs, pc[r] = "allocate", NEW s \in RunSubjects(r),
           NEW c \in Candidates(seen[r], s)
    PROVE  /\ remaining[r][c] + draft[r].taken[c] = Capacity(kind[r], seen[r])[c]
           /\ remaining[r][c] <= Capacity(kind[r], seen[r])[c]
           /\ subjects[s].amount \in Nat
  <1>1. c \in ContractIds /\ seen[r][c] # None
    BY DEF Candidates
  <1>2. /\ seen[r][c].gross \in Nat /\ consumed[kind[r]][c] \in Nat
        /\ draft[r].taken[c] \in Nat /\ subjects[s].amount \in Nat
    BY <1>1, RunSubjectsKnown, FactsTyped
  <1>3. remaining[r][c] = seen[r][c].gross - consumed[kind[r]][c] - draft[r].taken[c]
    BY <1>1 DEF IInv, RemainingIsCapacity
  <1>4. Capacity(kind[r], seen[r])[c] = seen[r][c].gross - consumed[kind[r]][c]
    BY <1>1 DEF Capacity
  <1> QED BY <1>2, <1>3, <1>4

\* Whoever took a contract competes with everyone who could have it.
LEMMA TakerIsRival ==
    ASSUME IInv, NEW r \in Runs, pc[r] = "allocate", Pass2(r), NEW s \in todo[r],
           NEW d \in WasOpen(r, s), d \notin Viable(seen[r], remaining[r], s)
    PROVE  \E b \in draft[r].allocations :
              /\ b.contract = d /\ b.subject # s /\ b.subject \in Rivals(r, s)
              /\ ProcessedBefore(b.subject, s)
              /\ Cohort(RunSubjects(r), b.subject) = Rivals(r, s)
              /\ b.method = "CANONICAL" =>
                    UndefinedOrder(RunSubjects(r), seen[r], Capacity(kind[r], seen[r]), s)
  <1> DEFINE us == RunSubjects(r)
             cap == Capacity(kind[r], seen[r])
  <1>1. s \in us /\ d \in ContractIds /\ d \in Candidates(seen[r], s)
    BY DEF RunSubjects, WasOpen, Viable, Candidates
  <1>2. subjects[s].amount <= cap[d] /\ ~(subjects[s].amount <= remaining[r][d])
    BY <1>1 DEF WasOpen, Viable
  <1>3. draft[r].taken[d] > 0
    <2>1. remaining[r][d] + draft[r].taken[d] = cap[d]
      BY <1>1, LessIsOpen
    <2>2. draft[r].taken[d] \in Nat /\ remaining[r][d] \in Int /\ subjects[s].amount \in Nat
      BY <1>1, RunSubjectsKnown, FactsTyped
    <2> HIDE DEF cap
    <2> QED BY <1>2, <2>1, <2>2
  <1>4. PICK b \in draft[r].allocations : b.contract = d
    BY <1>1, <1>3 DEF Pass2, RowsSound
  <1>5. RowSound(r, b)
    BY DEF Pass2, RowsSound
  <1>6. PICK m \in draft[r].cases : m.subject = b.subject
    BY <1>5 DEF RowSound
  <1>7. b.subject \in us /\ b.subject # s /\ ProcessedBefore(b.subject, s)
    BY <1>6 DEF RunSubjects, IInv, DecidedOnce, Pass2, DecidedInOrder
  <1>8. d \in Candidates(seen[r], b.subject)
    BY <1>4, <1>5 DEF RowSound
  <1>9. /\ subjects[b.subject].party = subjects[s].party
        /\ subjects[b.subject].amount = subjects[s].amount
    BY <1>1, <1>8 DEF Candidates
  <1> HIDE DEF us, cap
  <1>10. /\ Cohort(us, b.subject) = Cohort(us, s) /\ b.subject \in Cohort(us, s)
         /\ UndefinedOrder(us, seen[r], cap, b.subject) <=> UndefinedOrder(us, seen[r], cap, s)
    BY <1>1, <1>7, <1>9, SameCohort
  <1>11. b.method = "CANONICAL" => UndefinedOrder(us, seen[r], cap, b.subject)
    <2>1. b.method = "CANONICAL" => <<b.subject, b.contract>> \in CanonicalPairs(us, seen[r], cap)
      BY <1>5 DEF RowSound, Pass2, SetAside, us, cap
    <2> QED BY <2>1 DEF CanonicalPairs
  <1> QED BY <1>4, <1>7, <1>10, <1>11 DEF Rivals, us, cap

\* Before the run wrote anything the subject was alone, or there were dates.
LEMMA OrderDefined ==
    ASSUME IInv, NEW r \in Runs, pc[r] = "allocate", Pass2(r), NEW s \in todo[r],
           s \notin blocked[r], WasOpen(r, s) # {}
    PROVE  /\ ~UndefinedOrder(RunSubjects(r), seen[r], Capacity(kind[r], seen[r]), s)
           /\ \/ Rivals(r, s) = {s}
              \/ /\ \A t \in Rivals(r, s) : subjects[t].date # 0
                 /\ \A c \in WasOpen(r, s) : seen[r][c].date # 0
  <1>1. s \in RunSubjects(r) /\ s \in Rivals(r, s)
    BY DEF RunSubjects, Rivals, Cohort
  <1>2. ~UndefinedOrder(RunSubjects(r), seen[r], Capacity(kind[r], seen[r]), s)
    BY <1>1 DEF Pass2, SetAside, Blocked
  <1>3. Cardinality(Rivals(r, s)) >= 2 \/ Rivals(r, s) = {s}
    <2>1. IsFiniteSet(Rivals(r, s))
      BY <1>1, RunSubjectsKnown
    <2> QED BY <1>1, <2>1, TwoElements
  <1> QED BY <1>2, <1>3 DEF UndefinedOrder, Rivals, WasOpen

\* What pass 2 chooses by: one contract left, or the first by date.
FirstChoice(r, s, c) ==
    \/ Viable(seen[r], remaining[r], s) = {c}
    \/ /\ ChronologyDefined(seen[r], Viable(seen[r], remaining[r], s), s)
       /\ \A d \in Viable(seen[r], remaining[r], s) \ {c} : Earlier(seen[r], c, d)

LEMMA ChoiceUnforced ==
    ASSUME IInv, NEW r \in Runs, pc[r] = "allocate", Pass2(r), NEW s \in todo[r],
           s \notin blocked[r], NEW c \in Viable(seen[r], remaining[r], s), FirstChoice(r, s, c)
    PROVE  \/ Rivals(r, s) = {s} /\ WasOpen(r, s) = {c}
           \/ /\ \A t \in Rivals(r, s) : subjects[t].date # 0
              /\ \A d \in WasOpen(r, s) : seen[r][d].date # 0
  <1> DEFINE open == Viable(seen[r], remaining[r], s)
  <1>1. s \in RunSubjects(r)
    BY DEF RunSubjects
  <1>2. open \subseteq WasOpen(r, s)
    <2>1. ASSUME NEW d \in open PROVE d \in WasOpen(r, s)
      <3>1. d \in Candidates(seen[r], s) /\ d \in ContractIds /\ subjects[s].amount <= remaining[r][d]
        BY DEF Viable, Candidates
      <3>2. remaining[r][d] \in Int /\ draft[r].taken[d] \in Nat
        BY <3>1, RunSubjectsKnown
      <3>3. /\ remaining[r][d] + draft[r].taken[d] = Capacity(kind[r], seen[r])[d]
            /\ subjects[s].amount \in Nat
        BY <1>1, <3>1, LessIsOpen
      <3>4. subjects[s].amount <= Capacity(kind[r], seen[r])[d]
        BY <3>1, <3>2, <3>3
      <3> QED BY <3>1, <3>4 DEF WasOpen, Viable
    <2> QED BY <2>1
  <1>3. CASE Rivals(r, s) = {s}
    <2>1. WasOpen(r, s) \subseteq open
      BY <1>3, TakerIsRival
    <2> QED BY <1>2, <1>3, <2>1 DEF FirstChoice, ChronologyDefined
  <1> QED BY <1>2, <1>3, OrderDefined

LEMMA ChoiceChronological ==
    ASSUME IInv, NEW r \in Runs, pc[r] = "allocate", Pass2(r), NEW s \in todo[r],
           s \notin blocked[r], NEW c \in Viable(seen[r], remaining[r], s), FirstChoice(r, s, c),
           NEW d \in WasOpen(r, s), d # c, seen[r][d].date < seen[r][c].date
    PROVE  \E b \in Greedy(r) : b.contract = d /\ subjects[b.subject].date <= subjects[s].date
  <1>1. s \in RunSubjects(r) /\ \A x \in RunSubjects(r) : subjects[x] \in SubjectRecords
    BY RunSubjectsKnown DEF RunSubjects
  <1>2. seen[r][c] \in ContractRecords /\ seen[r][d] \in ContractRecords
    <2>1. /\ c \in ContractIds /\ seen[r][c] # None
          /\ d \in ContractIds /\ seen[r][d] # None
      BY DEF WasOpen, Viable, Candidates
    <2> QED BY <2>1, RunSubjectsKnown
  <1>3. d \notin Viable(seen[r], remaining[r], s)
    <2>1. SUFFICES ASSUME d \in Viable(seen[r], remaining[r], s) PROVE FALSE
      OBVIOUS
    <2>2. Earlier(seen[r], c, d)
      BY <2>1 DEF FirstChoice
    <2>3. seen[r][c].date <= seen[r][d].date
      BY <1>2, <2>2, EarlierMeansDated
    <2> QED BY <1>2, <2>3 DEF ContractRecords
  <1>4. PICK b \in draft[r].allocations :
              /\ b.contract = d /\ b.subject # s /\ b.subject \in Rivals(r, s)
              /\ ProcessedBefore(b.subject, s)
              /\ b.method = "CANONICAL" =>
                    UndefinedOrder(RunSubjects(r), seen[r], Capacity(kind[r], seen[r]), s)
    BY <1>3, TakerIsRival
  <1>5. b \in Greedy(r) /\ \A t \in Rivals(r, s) : subjects[t].date # 0
    BY <1>4, OrderDefined DEF Greedy
  <1>6. s \in Rivals(r, s) /\ b.subject \in RunSubjects(r)
    BY <1>1, <1>4 DEF Rivals, Cohort
  <1>7. subjects[b.subject].date <= subjects[s].date
    BY <1>1, <1>4, <1>5, <1>6, ProcessedMeansDated
  <1> QED BY <1>4, <1>5, <1>7

-----------------------------------------------------------------------------
(* Steps of pass 2 keep what was decided.                                  *)

\* Pass 1 sees the same when the facts of its subjects are the same.
LEMMA SameFactsSameSight ==
    ASSUME NEW us, NEW cs, NEW rem, \A s \in us : subjects'[s] = subjects[s]
    PROVE  /\ \A s \in us : /\ Cohort(us, s)' = Cohort(us, s)
                            /\ Candidates(cs, s)' = Candidates(cs, s)
                            /\ Viable(cs, rem, s)' = Viable(cs, rem, s)
           /\ \A s, t \in us : ProcessedBefore(s, t)' <=> ProcessedBefore(s, t)
           /\ Blocked(us, cs, rem)' = Blocked(us, cs, rem)
           /\ CanonicalPairs(us, cs, rem)' = CanonicalPairs(us, cs, rem)
  <1>1. ASSUME NEW s \in us
        PROVE  /\ Cohort(us, s)' = Cohort(us, s)
               /\ Candidates(cs, s)' = Candidates(cs, s)
    BY <1>1 DEF Cohort, Candidates
  <1>2. ASSUME NEW s \in us PROVE Viable(cs, rem, s)' = Viable(cs, rem, s)
    BY <1>1 DEF Viable
  <1>3. ASSUME NEW s \in us, NEW t \in us
        PROVE  ProcessedBefore(s, t)' <=> ProcessedBefore(s, t)
    <2>1. /\ InvoiceKey(s)' = InvoiceKey(s) /\ InvoiceKey(t)' = InvoiceKey(t)
          /\ PaymentKey(s)' = PaymentKey(s) /\ PaymentKey(t)' = PaymentKey(t)
      BY DEF InvoiceKey, PaymentKey
    <2> QED BY <2>1 DEF ProcessedBefore
  <1>4. ASSUME NEW s \in us
        PROVE  UndefinedOrder(us, cs, rem, s)' <=> UndefinedOrder(us, cs, rem, s)
    <2>1. \A t \in Cohort(us, s) : subjects'[t] = subjects[t]
      BY DEF Cohort
    <2> QED BY <1>1, <1>2, <2>1 DEF UndefinedOrder
  <1>5. ASSUME NEW s \in us
        PROVE  Interchangeable(us, cs, rem, s)' <=> Interchangeable(us, cs, rem, s)
    <2>1. \A t \in Cohort(us, s) : subjects'[t] = subjects[t]
      BY DEF Cohort
    <2> QED BY <1>1, <2>1 DEF Interchangeable
  <1>6. ASSUME NEW s \in us, NEW c
        PROVE  SameRank(us, cs, s, c)' <=> SameRank(us, cs, s, c)
    <2>1. \A t \in Cohort(us, s) : subjects'[t] = subjects[t]
      BY DEF Cohort
    <2>2. {t \in Cohort(us, s) : subjects'[t].key < subjects'[s].key}
            = {t \in Cohort(us, s) : subjects[t].key < subjects[s].key}
      BY <2>1
    <2> QED BY <1>1, <2>2 DEF SameRank
  <1>7. Blocked(us, cs, rem)' = Blocked(us, cs, rem)
    BY <1>4 DEF Blocked
  <1>8. CanonicalPairs(us, cs, rem)' = CanonicalPairs(us, cs, rem)
    BY <1>1, <1>4, <1>5, <1>6 DEF CanonicalPairs
  <1> QED BY <1>1, <1>2, <1>3, <1>7, <1>8

\* A step during which run r goes on seeing what it saw.
SightKept(r) ==
    /\ RunSubjects(r)' = RunSubjects(r)
    /\ kind'[r] = kind[r] /\ seen'[r] = seen[r] /\ consumed'[kind[r]] = consumed[kind[r]]
    /\ blocked'[r] = blocked[r] /\ pairs'[r] = pairs[r]
    /\ \A s \in RunSubjects(r) : subjects'[s] = subjects[s]

LEMMA SightSays ==
    ASSUME NEW r \in Runs, SightKept(r)
    PROVE  /\ SetAside(r) => SetAside(r)'
           /\ \A s \in RunSubjects(r) : /\ Rivals(r, s)' = Rivals(r, s)
                                        /\ WasOpen(r, s)' = WasOpen(r, s)
                                        /\ Candidates(seen[r], s)' = Candidates(seen[r], s)
           /\ \A s, t \in RunSubjects(r) : ProcessedBefore(s, t)' <=> ProcessedBefore(s, t)
  <1>1. PICK us, cs, rem : us = RunSubjects(r) /\ cs = seen[r] /\ rem = Capacity(kind[r], seen[r])
    OBVIOUS
  <1>2. /\ us = RunSubjects(r)' /\ cs = seen'[r] /\ rem = Capacity(kind[r], seen[r])'
        /\ \A s \in us : subjects'[s] = subjects[s]
    BY <1>1 DEF SightKept, Capacity
  <1>3. /\ \A s \in us : /\ Cohort(us, s)' = Cohort(us, s)
                         /\ Candidates(cs, s)' = Candidates(cs, s)
                         /\ Viable(cs, rem, s)' = Viable(cs, rem, s)
        /\ \A s, t \in us : ProcessedBefore(s, t)' <=> ProcessedBefore(s, t)
        /\ Blocked(us, cs, rem)' = Blocked(us, cs, rem)
        /\ CanonicalPairs(us, cs, rem)' = CanonicalPairs(us, cs, rem)
    BY <1>2, SameFactsSameSight
  <1>4. SetAside(r) => SetAside(r)'
    BY <1>1, <1>2, <1>3 DEF SetAside, SightKept
  <1>5. \A s \in us : Rivals(r, s)' = Rivals(r, s) /\ WasOpen(r, s)' = WasOpen(r, s)
                      /\ Candidates(seen[r], s)' = Candidates(seen[r], s)
    BY <1>1, <1>2, <1>3 DEF Rivals, WasOpen
  <1> QED BY <1>1, <1>3, <1>4, <1>5

\* A draft that has only grown.
Grown(r) ==
    /\ draft[r].cases \subseteq draft'[r].cases
    /\ draft[r].allocations \subseteq draft'[r].allocations
    /\ \A c \in ContractIds : draft[r].taken[c] <= draft'[r].taken[c]
    /\ draft'[r].taken \in [ContractIds -> Nat]

LEMMA DecisionsStand ==
    ASSUME IInv, NEW r \in Runs, Pass2(r), SightKept(r), Grown(r)
    PROVE  /\ SetAside(r)'
           /\ \A a \in draft[r].allocations : RowSound(r, a)'
           /\ \A a \in Greedy(r) : Unforced(r, a)' /\ Chronological(r, a)'
           /\ \A id \in draft[r].tasks : Full(r, id)'
  <1>1. SetAside(r)'
    BY SightSays DEF Pass2
  <1>2. ASSUME NEW a \in draft[r].allocations
        PROVE  RowSound(r, a) /\ a.subject \in RunSubjects(r)
    <2>1. RowSound(r, a)
      BY DEF Pass2, RowsSound
    <2> QED BY <2>1 DEF RowSound, RunSubjects
  <1>3. ASSUME NEW a \in draft[r].allocations PROVE RowSound(r, a)'
    <2>1. Candidates(seen[r], a.subject)' = Candidates(seen[r], a.subject)
      BY <1>2, SightSays
    <2> QED BY <1>2, <2>1 DEF RowSound, SightKept, Grown
  <1>4. ASSUME NEW a \in Greedy(r)
        PROVE  /\ Rivals(r, a.subject)' = Rivals(r, a.subject)
               /\ WasOpen(r, a.subject)' = WasOpen(r, a.subject)
               /\ a.subject \in RunSubjects(r)
    <2>1. a.subject \in RunSubjects(r)
      BY <1>2 DEF Greedy
    <2> QED BY <2>1, SightSays
  <1>5. ASSUME NEW a \in Greedy(r) PROVE Unforced(r, a)'
    <2>1. Unforced(r, a)
      BY DEF Pass2
    <2>2. \A t \in Rivals(r, a.subject) : subjects'[t] = subjects[t]
      BY DEF SightKept, Rivals, Cohort
    <2> QED BY <1>4, <2>1, <2>2 DEF Unforced, SightKept
  <1>6. ASSUME NEW a \in Greedy(r) PROVE Chronological(r, a)'
    <2>1. Chronological(r, a)
      BY DEF Pass2
    <2>2. ASSUME NEW d, EarlierGone(r, a, d) PROVE EarlierGone(r, a, d)'
      <3>1. PICK b \in Greedy(r) : b.contract = d
                                   /\ subjects[b.subject].date <= subjects[a.subject].date
        BY <2>2 DEF EarlierGone
      <3>2. /\ subjects'[b.subject] = subjects[b.subject]
            /\ subjects'[a.subject] = subjects[a.subject]
        BY <1>4 DEF SightKept
      <3>3. b \in Greedy(r)'
        BY DEF Greedy, Grown
      <3> QED BY <3>1, <3>2, <3>3 DEF EarlierGone
    <2> QED BY <1>4, <2>1, <2>2 DEF Chronological, SightKept
  <1>7. ASSUME NEW id \in draft[r].tasks PROVE Full(r, id)'
    <2>1. Full(r, id)
      BY DEF Pass2
    <2>2. id[1] \in RunSubjects(r)
      BY <2>1 DEF Full
    <2>3. /\ Candidates(seen[r], id[1])' = Candidates(seen[r], id[1])
          /\ subjects'[id[1]] = subjects[id[1]] /\ seen'[r] = seen[r]
          /\ id[1] \in RunSubjects(r)' /\ consumed'[kind'[r]] = consumed[kind[r]]
      BY <2>2, SightSays DEF SightKept
    <2>4. ASSUME NEW c \in Candidates(seen[r], id[1])
          PROVE  consumed[kind[r]][c] + draft'[r].taken[c] + subjects[id[1]].amount
                   > seen[r][c].gross
      <3>1. consumed[kind[r]][c] + draft[r].taken[c] + subjects[id[1]].amount > seen[r][c].gross
        BY <2>1 DEF Full
      <3>2. /\ c \in ContractIds /\ seen[r][c] # None
        BY DEF Candidates
      <3>3. /\ draft[r].taken[c] <= draft'[r].taken[c] /\ draft'[r].taken[c] \in Nat
        BY <3>2 DEF Grown
      <3>4. /\ consumed[kind[r]][c] \in Nat /\ draft[r].taken[c] \in Nat
            /\ subjects[id[1]].amount \in Nat /\ seen[r][c].gross \in Nat
        BY <2>2, <3>2, RunSubjectsKnown, FactsTyped
      <3> QED BY <3>1, <3>3, <3>4
    <2> QED BY <2>3, <2>4 DEF Full
  <1> QED BY <1>1, <1>3, <1>5, <1>6, <1>7

LEMMA DecideSees ==
    ASSUME IInv, NEW r \in Runs, NEW s \in todo[r], DecideSubject(r, s)
    PROVE  /\ SightKept(r) /\ todo'[r] = todo[r] \ {s} /\ pc[r] = "allocate"
           /\ UNCHANGED <<subjects, consumed, kind, seen, pairs, blocked>>
  <1>1. /\ todo'[r] = todo[r] \ {s} /\ pc[r] = "allocate"
        /\ UNCHANGED <<subjects, consumed, kind, seen, pairs, blocked>>
    BY DEF DecideSubject, IInv, TypeOK, db
  <1>2. PICK m \in CaseRecords : m.subject = s /\ draft'[r].cases = draft[r].cases \cup {m}
    BY DecideEffect DEF OneCaseWritten
  <1>3. RunSubjects(r)' = RunSubjects(r)
    BY <1>1, <1>2 DEF RunSubjects
  <1> QED BY <1>1, <1>3 DEF SightKept

\* The order of the subjects, whatever the decision.
LEMMA DecideKeepsOrder ==
    ASSUME IInv, NEW r \in Runs, NEW s \in todo[r], DecideSubject(r, s), Pass2(r)
    PROVE  DecidedInOrder(r)'
  <1>1. SightKept(r) /\ todo'[r] = todo[r] \ {s}
    BY DecideSees
  <1>2. PICK m \in CaseRecords : m.subject = s /\ draft'[r].cases = draft[r].cases \cup {m}
    BY DecideEffect DEF OneCaseWritten
  <1>3. \A t \in todo[r] \ {s} : ProcessedBefore(s, t)
    BY DEF DecideSubject, IsNext
  <1>4. ASSUME NEW n \in draft'[r].cases, NEW t \in todo[r] \ {s}
        PROVE  ProcessedBefore(n.subject, t)'
    <2>1. ProcessedBefore(n.subject, t)
      BY <1>2, <1>3 DEF Pass2, DecidedInOrder
    <2>2. n.subject \in RunSubjects(r) /\ t \in RunSubjects(r)
      BY <1>2 DEF RunSubjects
    <2> QED BY <1>1, <2>1, <2>2, SightSays
  <1> QED BY <1>1, <1>4 DEF DecidedInOrder

LEMMA UnansweredKeeps ==
    ASSUME IInv, NEW r \in Runs, NEW s \in todo[r], DecideSubject(r, s), Pass2(r),
           Unanswered(r, s)
    PROVE  Pass2(r)'
  <1>1. /\ SightKept(r) /\ DecidedInOrder(r)' /\ pc[r] = "allocate"
        /\ s \in RunSubjects(r) /\ RunSubjects(r)' = RunSubjects(r)
        /\ UNCHANGED <<subjects, consumed, kind, seen, pairs>>
    BY DecideSees, DecideKeepsOrder DEF RunSubjects, SightKept
  <1>2. PICK status \in {"HCR", "UNMATCHED"}, task \in BOOLEAN :
              /\ LeftOpen(r, s, status, task)
              /\ s \notin blocked[r] \/ \A c \in Candidates(seen[r], s) : <<s, c>> \notin pairs[r]
              /\ task => Viable(seen[r], remaining[r], s) = {}
    BY DEF Unanswered
  <1>3. PICK m \in CaseRecords : m.subject = s /\ draft'[r].cases = draft[r].cases \cup {m}
    BY <1>2 DEF LeftOpen, CaseWritten
  <1>4. /\ draft'[r].allocations = draft[r].allocations /\ draft'[r].taken = draft[r].taken
        /\ draft'[r].tasks \subseteq draft[r].tasks \cup IF task THEN {<<s, r>>} ELSE {}
    BY <1>2 DEF LeftOpen
  <1>5. Grown(r)
    BY <1>3, <1>4, RunSubjectsKnown DEF Grown
  <1>6. /\ SetAside(r)'
        /\ \A a \in draft[r].allocations : RowSound(r, a)'
        /\ \A a \in Greedy(r) : Unforced(r, a)' /\ Chronological(r, a)'
        /\ \A id \in draft[r].tasks : Full(r, id)'
    BY <1>1, <1>5, DecisionsStand
  <1>7. ASSUME NEW c \in ContractIds PROVE <<s, c>> \notin pairs[r]
    <2>1. ASSUME <<s, c>> \in pairs[r] PROVE FALSE
      <3>1. <<s, c>> \in CanonicalPairs(RunSubjects(r), seen[r], Capacity(kind[r], seen[r]))
        BY <2>1 DEF Pass2, SetAside
      <3>2. /\ c \in Candidates(seen[r], s)
            /\ UndefinedOrder(RunSubjects(r), seen[r], Capacity(kind[r], seen[r]), s)
        BY <3>1 DEF CanonicalPairs
      <3>3. s \in blocked[r]
        BY <1>1, <3>2 DEF Pass2, SetAside, Blocked
      <3> QED BY <1>2, <2>1, <3>2, <3>3
    <2> QED BY <2>1
  <1>8. RowsSound(r)'
    <2>1. RowsSound(r)
      BY DEF Pass2
    <2> QED BY <1>1, <1>3, <1>4, <1>6, <1>7, <2>1 DEF RowsSound
  <1>9. ASSUME task = TRUE PROVE Full(r, <<s, r>>)'
    <2>1. Viable(seen[r], remaining[r], s) = {}
      BY <1>2, <1>9
    <2>2. ASSUME NEW c \in Candidates(seen[r], s)
          PROVE  consumed[kind[r]][c] + draft[r].taken[c] + subjects[s].amount > seen[r][c].gross
      <3>1. c \in ContractIds /\ seen[r][c] # None /\ ~(subjects[s].amount <= remaining[r][c])
        BY <2>1 DEF Candidates, Viable
      <3>2. remaining[r][c] = seen[r][c].gross - consumed[kind[r]][c] - draft[r].taken[c]
        BY <1>1, <3>1 DEF IInv, RemainingIsCapacity
      <3>3. /\ consumed[kind[r]][c] \in Nat /\ draft[r].taken[c] \in Nat
            /\ subjects[s].amount \in Nat /\ seen[r][c].gross \in Nat
        BY <1>1, <3>1, RunSubjectsKnown, FactsTyped
      <3> QED BY <3>1, <3>2, <3>3
    <2>3. Candidates(seen[r], s)' = Candidates(seen[r], s)
      BY <1>1, SightSays
    <2>4. <<s, r>>[1] = s
      OBVIOUS
    <2> QED BY <1>1, <1>4, <2>2, <2>3, <2>4 DEF Full
  <1>10. \A id \in draft'[r].tasks : Full(r, id)'
    BY <1>4, <1>6, <1>9
  <1>11. Greedy(r)' = Greedy(r)
    BY <1>4 DEF Greedy
  <1> QED BY <1>1, <1>6, <1>8, <1>10, <1>11 DEF Pass2

\* What a row written for s adds to the draft.
LEMMA GivenGrows ==
    ASSUME IInv, NEW r \in Runs, NEW s \in todo[r], NEW c \in ContractIds, NEW method,
           GivenTo(r, s, c, method)
    PROVE  /\ Grown(r) /\ draft'[r].tasks = draft[r].tasks
           /\ draft'[r].allocations = draft[r].allocations \cup {RowOf(r, s, c, method)}
           /\ \E m \in CaseRecords : m.subject = s /\ draft'[r].cases = draft[r].cases \cup {m}
           /\ \A d \in ContractIds : d # c => draft'[r].taken[d] = draft[r].taken[d]
  <1>1. draft[r].taken \in [ContractIds -> Nat] /\ subjects[s].amount \in Nat
    <2>1. s \in RunSubjects(r)
      BY DEF RunSubjects
    <2> QED BY <2>1, RunSubjectsKnown, FactsTyped
  <1>2. draft'[r].taken = [draft[r].taken EXCEPT ![c] = @ + subjects[s].amount]
    BY DEF GivenTo
  <1>3. /\ draft'[r].taken \in [ContractIds -> Nat]
        /\ \A d \in ContractIds : /\ draft[r].taken[d] <= draft'[r].taken[d]
                                  /\ d # c => draft'[r].taken[d] = draft[r].taken[d]
    BY <1>1, <1>2
  <1>4. PICK m \in CaseRecords : m.subject = s /\ draft'[r].cases = draft[r].cases \cup {m}
    BY DEF GivenTo, CaseWritten
  <1> QED BY <1>3, <1>4 DEF Grown, GivenTo

\* A row for s that is as it should be leaves all rows as they should be.
LEMMA GivenKeepsRows ==
    ASSUME IInv, NEW r \in Runs, NEW s \in todo[r], DecideSubject(r, s), Pass2(r),
           NEW c \in Candidates(seen[r], s), NEW method, GivenTo(r, s, c, method),
           IF method = "CANONICAL" THEN <<s, c>> \in pairs[r]
                                   ELSE s \notin blocked[r]
    PROVE  RowsSound(r)'
  <1>0. PICK a : a = RowOf(r, s, c, method)
    OBVIOUS
  <1>1. c \in ContractIds
    BY DEF Candidates
  <1>2. /\ SightKept(r) /\ Grown(r) /\ s \in RunSubjects(r)
        /\ UNCHANGED <<seen, pairs, blocked>>
        /\ draft'[r].allocations = draft[r].allocations \cup {a}
        /\ \A d \in ContractIds : d # c => draft'[r].taken[d] = draft[r].taken[d]
    BY <1>0, <1>1, DecideSees, GivenGrows DEF RunSubjects
  <1>3. PICK m \in CaseRecords : m.subject = s /\ draft'[r].cases = draft[r].cases \cup {m}
    BY <1>1, GivenGrows
  <1>4. a.subject = s /\ a.contract = c /\ a.method = method
    BY <1>0 DEF RowOf
  <1>5. RowSound(r, a)'
    <2>1. Candidates(seen[r], s)' = Candidates(seen[r], s)
      BY <1>2, SightSays
    <2> QED BY <1>2, <1>3, <1>4, <2>1 DEF RowSound
  <1>6. RowsSound(r) /\ \A b \in draft[r].allocations : RowSound(r, b)' /\ b.subject # s
    <2>1. RowsSound(r)
      BY DEF Pass2
    <2>2. \A b \in draft[r].allocations : RowSound(r, b)'
      BY <1>2, DecisionsStand
    <2>3. \A n \in draft[r].cases : n.subject # s
      BY DEF IInv, DecidedOnce
    <2> QED BY <2>1, <2>2, <2>3 DEF RowsSound, RowSound
  <1>7. \A b \in draft'[r].allocations : RowSound(r, b)'
    BY <1>2, <1>5, <1>6
  <1>8. \A b, e \in draft'[r].allocations : b.subject = e.subject => b = e
    BY <1>2, <1>4, <1>6 DEF RowsSound
  <1>9. \A d \in ContractIds : draft'[r].taken[d] > 0 =>
           \E b \in draft'[r].allocations : b.contract = d
    BY <1>2, <1>4, <1>6 DEF RowsSound
  <1>10. ASSUME NEW d \in ContractIds, <<s, d>> \in pairs[r] PROVE method = "CANONICAL"
    <2>1. <<s, d>> \in CanonicalPairs(RunSubjects(r), seen[r], Capacity(kind[r], seen[r]))
      BY <1>10 DEF Pass2, SetAside
    <2>2. UndefinedOrder(RunSubjects(r), seen[r], Capacity(kind[r], seen[r]), s)
      BY <2>1 DEF CanonicalPairs
    <2>3. s \in blocked[r]
      BY <1>2, <2>2 DEF Pass2, SetAside, Blocked
    <2> QED BY <2>3
  <1>11. ASSUME NEW n \in draft'[r].cases, NEW d \in ContractIds, <<n.subject, d>> \in pairs'[r]
         PROVE  \E b \in draft'[r].allocations : b.subject = n.subject /\ b.method = "CANONICAL"
    <2>1. CASE n \in draft[r].cases
      <3>1. \E b \in draft[r].allocations : b.subject = n.subject /\ b.method = "CANONICAL"
        BY <1>2, <1>6, <1>11, <2>1 DEF RowsSound
      <3> QED BY <1>2, <3>1
    <2>2. CASE n = m
      BY <1>2, <1>3, <1>4, <1>10, <1>11, <2>2
    <2> QED BY <1>3, <2>1, <2>2
  <1> QED BY <1>7, <1>8, <1>9, <1>11 DEF RowsSound

LEMMA PairedKeeps ==
    ASSUME IInv, NEW r \in Runs, NEW s \in todo[r], DecideSubject(r, s), Pass2(r), Paired(r, s)
    PROVE  Pass2(r)'
  <1>1. PICK c \in Candidates(seen[r], s) :
           <<s, c>> \in pairs[r] /\ GivenTo(r, s, c, "CANONICAL")
    BY DEF Paired
  <1>2. c \in ContractIds
    BY DEF Candidates
  <1>3. /\ SightKept(r) /\ Grown(r) /\ draft'[r].tasks = draft[r].tasks
        /\ draft'[r].allocations = draft[r].allocations \cup {RowOf(r, s, c, "CANONICAL")}
    BY <1>1, <1>2, DecideSees, GivenGrows
  <1>4. /\ SetAside(r)'
        /\ \A a \in Greedy(r) : Unforced(r, a)' /\ Chronological(r, a)'
        /\ \A id \in draft[r].tasks : Full(r, id)'
    BY <1>3, DecisionsStand
  <1>5. DecidedInOrder(r)' /\ RowsSound(r)'
    BY <1>1, DecideKeepsOrder, GivenKeepsRows
  <1>6. Greedy(r)' = Greedy(r)
    <2>1. RowOf(r, s, c, "CANONICAL").method = "CANONICAL"
      BY DEF RowOf
    <2> QED BY <1>3, <2>1 DEF Greedy
  <1> QED BY <1>3, <1>4, <1>5, <1>6 DEF Pass2

LEMMA ChosenKeeps ==
    ASSUME IInv, NEW r \in Runs, NEW s \in todo[r], DecideSubject(r, s), Pass2(r), Chosen(r, s)
    PROVE  Pass2(r)'
  <1>1. PICK c \in Viable(seen[r], remaining[r], s), method \in {"UNIQUE", "CHRONOLOGICAL"} :
           s \notin blocked[r] /\ GivenTo(r, s, c, method) /\ FirstChoice(r, s, c)
    BY DEF Chosen, FirstChoice
  <1>0. PICK a : a = RowOf(r, s, c, method)
    OBVIOUS
  <1>2. c \in ContractIds /\ c \in Candidates(seen[r], s)
    BY DEF Viable, Candidates
  <1>3. /\ SightKept(r) /\ Grown(r) /\ draft'[r].tasks = draft[r].tasks /\ pc[r] = "allocate"
        /\ draft'[r].allocations = draft[r].allocations \cup {a}
        /\ UNCHANGED <<subjects, seen>> /\ s \in RunSubjects(r)
    BY <1>0, <1>1, <1>2, DecideSees, GivenGrows DEF RunSubjects
  <1>4. a.subject = s /\ a.contract = c /\ a.method = method
    BY <1>0 DEF RowOf
  <1>5. /\ SetAside(r)'
        /\ \A b \in Greedy(r) : Unforced(r, b)' /\ Chronological(r, b)'
        /\ \A id \in draft[r].tasks : Full(r, id)'
    BY <1>3, DecisionsStand
  <1>6. method # "CANONICAL"
    BY <1>1
  <1>7. DecidedInOrder(r)' /\ RowsSound(r)'
    BY <1>1, <1>2, <1>6, DecideKeepsOrder, GivenKeepsRows
  <1>8. Greedy(r)' = Greedy(r) \cup {a}
    BY <1>3, <1>4, <1>6 DEF Greedy
  <1>9. Rivals(r, s)' = Rivals(r, s) /\ WasOpen(r, s)' = WasOpen(r, s)
    BY <1>3, SightSays
  <1>10. Unforced(r, a)'
    <2>1. \/ Rivals(r, s) = {s} /\ WasOpen(r, s) = {c}
          \/ /\ \A t \in Rivals(r, s) : subjects[t].date # 0
             /\ \A d \in WasOpen(r, s) : seen[r][d].date # 0
      BY <1>1, <1>3, ChoiceUnforced
    <2> QED BY <1>3, <1>4, <1>9, <2>1 DEF Unforced
  <1>11. Chronological(r, a)'
    <2>1. ASSUME NEW d \in WasOpen(r, s), d # c, seen[r][d].date < seen[r][c].date
          PROVE  EarlierGone(r, a, d)'
      <3>1. \E b \in Greedy(r) : b.contract = d /\ subjects[b.subject].date <= subjects[s].date
        BY <1>1, <1>3, <2>1, ChoiceChronological
      <3> QED BY <1>3, <1>4, <1>8, <3>1 DEF EarlierGone
    <2> QED BY <1>3, <1>4, <1>9, <2>1 DEF Chronological
  <1> QED BY <1>3, <1>5, <1>7, <1>8, <1>10, <1>11 DEF Pass2

LEMMA ReadSubjectsStarts ==
    ASSUME IInv, NEW r \in Runs, ReadSubjects(r)
    PROVE  Pass2Inv'
  <1> DEFINE us == Unresolved(kind[r], seen[r])
             rem == Capacity(kind[r], seen[r])
  <1>1. /\ draft[r] = NoDraft
        /\ \A q \in Runs \ {r} : ~Reading(q)
    BY OnlyReader DEF ReadSubjects, IInv, NothingBeforePass2, Reading
  <1>2. /\ todo'[r] = us
        /\ blocked'[r] = Blocked(us, seen[r], rem)
        /\ pairs'[r] = CanonicalPairs(us, seen[r], rem)
        /\ \A q \in Runs \ {r} : pc'[q] = pc[q]
        /\ UNCHANGED <<subjects, consumed, kind, seen, draft>>
    BY DEF ReadSubjects, IInv, TypeOK, db
  <1>3. \A q \in Runs : pc'[q] = "allocate" => q = r
    BY <1>1, <1>2 DEF Reading
  <1>4. PICK vs, cap : vs = us /\ cap = rem
    OBVIOUS
  <1>5. draft'[r].cases = {} /\ draft'[r].allocations = {} /\ draft'[r].tasks = {}
        /\ \A c \in ContractIds : draft'[r].taken[c] = 0
    BY <1>1, <1>2 DEF NoDraft
  <1>6. RunSubjects(r)' = vs /\ Capacity(kind[r], seen[r])' = cap
    BY <1>2, <1>4, <1>5 DEF RunSubjects, Capacity
  <1>7. /\ Blocked(vs, seen[r], cap)' = Blocked(vs, seen[r], cap)
        /\ CanonicalPairs(vs, seen[r], cap)' = CanonicalPairs(vs, seen[r], cap)
    <2>1. PICK cs : cs = seen[r]
      OBVIOUS
    <2>2. cs = seen'[r] /\ \A s \in vs : subjects'[s] = subjects[s]
      BY <1>2, <2>1
    <2>3. /\ Blocked(vs, cs, cap)' = Blocked(vs, cs, cap)
          /\ CanonicalPairs(vs, cs, cap)' = CanonicalPairs(vs, cs, cap)
      BY <2>2, SameFactsSameSight
    <2> QED BY <2>1, <2>2, <2>3
  <1> HIDE DEF us, rem
  <1>8. SetAside(r)'
    BY <1>2, <1>4, <1>6, <1>7 DEF SetAside
  <1>9. DecidedInOrder(r)' /\ RowsSound(r)'
    BY <1>5 DEF DecidedInOrder, RowsSound
  <1>10. Greedy(r)' = {}
    BY <1>5 DEF Greedy
  <1>11. Pass2(r)'
    BY <1>5, <1>8, <1>9, <1>10 DEF Pass2
  <1> QED BY <1>3, <1>11 DEF Pass2Inv

\* A step that leaves the run alone leaves its draft as it should be.
LEMMA RunLeftAlone ==
    ASSUME IInv, NEW r \in Runs, Pass2(r),
           \A s \in RunSubjects(r) : subjects'[s] = subjects[s],
           UNCHANGED <<consumed, kind, seen, todo, blocked, pairs, draft>>
    PROVE  Pass2(r)'
  <1>1. RunSubjects(r)' = RunSubjects(r) /\ Greedy(r)' = Greedy(r)
    BY DEF RunSubjects, Greedy
  <1>2. SightKept(r)
    BY <1>1 DEF SightKept
  <1>3. Grown(r)
    <2>1. draft[r].taken \in [ContractIds -> Nat]
      BY RunSubjectsKnown
    <2> QED BY <2>1 DEF Grown
  <1>4. /\ SetAside(r)'
        /\ \A a \in draft[r].allocations : RowSound(r, a)'
        /\ \A a \in Greedy(r) : Unforced(r, a)' /\ Chronological(r, a)'
        /\ \A id \in draft[r].tasks : Full(r, id)'
    BY <1>2, <1>3, DecisionsStand
  <1>5. DecidedInOrder(r)'
    <2>1. ASSUME NEW m \in draft[r].cases, NEW t \in todo[r]
          PROVE  ProcessedBefore(m.subject, t)'
      <3>1. ProcessedBefore(m.subject, t)
        BY DEF Pass2, DecidedInOrder
      <3>2. m.subject \in RunSubjects(r) /\ t \in RunSubjects(r)
        BY DEF RunSubjects
      <3> QED BY <1>2, <3>1, <3>2, SightSays
    <2> QED BY <2>1 DEF DecidedInOrder
  <1>6. RowsSound(r)'
    <2>1. RowsSound(r)
      BY DEF Pass2
    <2> QED BY <1>4, <2>1 DEF RowsSound
  <1> QED BY <1>1, <1>4, <1>5, <1>6 DEF Pass2

LEMMA ImportKeepsPass2 ==
    ASSUME IInv, Pass2Inv, ImportStep
    PROVE  Pass2Inv'
  <1>1. /\ \A s \in SubjectIds : subjects[s] # None => subjects'[s] = subjects[s]
        /\ UNCHANGED <<consumed, pc, kind, seen, todo, blocked, pairs, draft>>
    BY ImportAdds DEF IInv, local
  <1>2. ASSUME NEW r \in Runs, pc[r] = "allocate" PROVE Pass2(r)'
    <2>1. Pass2(r)
      BY <1>2 DEF Pass2Inv
    <2>2. RunSubjects(r) \in SUBSET SubjectIds
          /\ \A s \in RunSubjects(r) : subjects[s] \in SubjectRecords
      BY RunSubjectsKnown
    <2>3. \A s \in RunSubjects(r) : subjects'[s] = subjects[s]
      BY <1>1, <2>2, NoneIsNew
    <2> QED BY <1>1, <2>1, <2>3, RunLeftAlone
  <1> QED BY <1>1, <1>2 DEF Pass2Inv

LEMMA Pass2Kept ==
    ASSUME IInv, Pass2Inv, [Next]_vars
    PROVE  Pass2Inv'
  <1>1. CASE ImportStep
    BY <1>1, ImportKeepsPass2
  <1>2. ASSUME writeLock = None, UNCHANGED pc PROVE Pass2Inv'
    BY <1>2, NoReader DEF Pass2Inv, Reading
  <1>3. ASSUME NEW r \in Runs, Reading(r), NEW label \in {"idle", "done"}, EndRun(r, label)
        PROVE  Pass2Inv'
    <2>1. \A q \in Runs \ {r} : ~Reading(q) /\ pc'[q] = pc[q]
      BY <1>3, OnlyReader DEF EndRun, IInv, TypeOK
    <2>2. pc'[r] = label
      BY <1>3 DEF EndRun, IInv, TypeOK
    <2> QED BY <2>1, <2>2 DEF Pass2Inv, Reading
  <1>4. CASE PeopleStep
    BY <1>2, <1>4 DEF PeopleStep, ConfirmMatch, ReviseContract, local
  <1>5. ASSUME NEW r \in Runs, RunStep(r) PROVE Pass2Inv'
    <2>1. ASSUME NEW k \in Kinds, StartRun(r, k) PROVE Pass2Inv'
      <3>1. \A q \in Runs : ~Reading(q)
        BY <2>1, NoReader DEF StartRun
      <3>2. pc'[r] = "subjects" /\ \A q \in Runs \ {r} : pc'[q] = pc[q]
        BY <2>1 DEF StartRun, IInv, TypeOK
      <3> QED BY <3>1, <3>2 DEF Pass2Inv, Reading
    <2>2. CASE ReadSubjects(r)
      BY <2>2, ReadSubjectsStarts
    <2>3. ASSUME NEW s \in todo[r], DecideSubject(r, s) PROVE Pass2Inv'
      <3>1. pc[r] = "allocate" /\ UNCHANGED pc
        BY <2>3 DEF DecideSubject
      <3>2. Pass2(r)
        BY <3>1 DEF Pass2Inv
      <3>3. Pass2(r)'
        BY <2>3, <3>2, DecideWrites, UnansweredKeeps, PairedKeeps, ChosenKeeps
      <3>4. \A q \in Runs \ {r} : pc'[q] # "allocate"
        BY <3>1, OnlyReader DEF Reading
      <3> QED BY <3>3, <3>4 DEF Pass2Inv
    <2>4. CASE CommitRun(r)
      BY <1>3, <2>4 DEF CommitRun, Reading
    <2>5. CASE Rollback(r)
      BY <1>3, <2>5 DEF Rollback, Reading
    <2> QED BY <1>5, <2>1, <2>2, <2>3, <2>4, <2>5 DEF RunStep
  <1>6. CASE UNCHANGED vars
    <2>1. UNCHANGED <<subjects, consumed, pc, kind, seen, todo, blocked, pairs, draft>>
      BY <1>6 DEF vars, db, local
    <2>2. ASSUME NEW r \in Runs, pc[r] = "allocate" PROVE Pass2(r)'
      <3>1. Pass2(r)
        BY <2>2 DEF Pass2Inv
      <3> QED BY <2>1, <3>1, RunLeftAlone
    <2> QED BY <2>1, <2>2 DEF Pass2Inv
  <1> QED BY <1>1, <1>4, <1>5, <1>6 DEF Next

\* What holds of the draft of any run, under way or not.
LEMMA DraftsSound ==
    ASSUME IInv, Pass2Inv, NEW r \in Runs
    PROVE  /\ \A a \in Greedy(r) : Unforced(r, a) /\ Chronological(r, a)
           /\ \A id \in draft[r].tasks : Full(r, id)
  <1>1. CASE pc[r] = "allocate"
    BY <1>1 DEF Pass2Inv, Pass2
  <1>2. CASE pc[r] # "allocate"
    <2>1. draft[r].allocations = {} /\ draft[r].tasks = {}
      BY <1>2 DEF IInv, NothingBeforePass2, NoDraft
    <2> QED BY <2>1 DEF Greedy
  <1> QED BY <1>1, <1>2

LEMMA Pass2Holds == Spec => [](IInv /\ Pass2Inv)
  <1>1. Init => Pass2Inv
    BY DEF Init, Pass2Inv
  <1>2. IInv /\ Pass2Inv /\ [Next]_vars => Pass2Inv'
    BY Pass2Kept
  <1> QED BY <1>1, <1>2, InvariantHolds, PTL DEF Spec

\* Uniqueness is never manufactured by the order of the run's own writes: an
\* allocation that is not canonical was the only choice of the only claimant
\* when the run began, or every rival and every open contract had a date.
THEOREM NoManufacturedHolds == Spec => []NoManufacturedUniqueness
  <1>1. IInv /\ Pass2Inv => NoManufacturedUniqueness
    BY DraftsSound DEF NoManufacturedUniqueness, Unforced
  <1> QED BY <1>1, Pass2Holds, PTL

\* Earlier subjects get earlier contracts: a contract that was open to the
\* subject and precedes the one it got went to a rival dated no later.
THEOREM ChronologyHolds == Spec => []ChronologyRespected
  <1>1. IInv /\ Pass2Inv => ChronologyRespected
    BY DraftsSound DEF ChronologyRespected, Chronological, EarlierGone
  <1> QED BY <1>1, Pass2Holds, PTL

\* A capacity task is raised only when every candidate is too full for the
\* subject, the ledger's rows and the run's own counted.
THEOREM CapacityTaskHolds == Spec => []CapacityTaskMeansFull
  <1>1. IInv /\ Pass2Inv => CapacityTaskMeansFull
    BY DraftsSound DEF CapacityTaskMeansFull, Full
  <1> QED BY <1>1, Pass2Holds, PTL

-----------------------------------------------------------------------------
(* A canonical cohort is paired with its candidates, one to one.           *)

Rank(G, key, x) == Cardinality({u \in G : key[u] < key[x]})

\* Two finite sets of the same size, each with distinct keys: to every member
\* of the one there is a member of the other of the same rank.
LEMMA RankShared ==
    ASSUME NEW G, IsFiniteSet(G), NEW H, IsFiniteSet(H), Cardinality(G) = Cardinality(H),
           NEW key \in [G -> Nat], NEW x \in G, NEW no \in [H -> Nat],
           \A y, z \in H : no[y] = no[z] => y = z
    PROVE  \E y \in H : Rank(H, no, y) = Rank(G, key, x)
  <1> DEFINE X == {u \in G : key[u] < key[x]}
             n == Cardinality(X)
  <1>1. X \in SUBSET G /\ x \notin X
    OBVIOUS
  <1> HIDE DEF X
  <1>2. n \in Nat /\ n < Cardinality(G)
    <2>1. IsFiniteSet(X) /\ n <= Cardinality(G) /\ n # Cardinality(G)
      BY <1>1, FS_Subset
    <2> QED BY <2>1, FS_CardinalityType
  <1> HIDE DEF n
  <1>3. \E y \in H : Cardinality({u \in H : no[u] < no[y]}) = n
    BY <1>2, RankTaken
  <1> QED BY <1>3 DEF Rank, n, X

\* Pass 1's pairs, for a cohort of interchangeable subjects.
LEMMA PairsComplete ==
    ASSUME NEW us \in SUBSET SubjectIds, \A u \in us : subjects[u] \in SubjectRecords,
           NEW cs, \A c \in ContractIds : cs[c] # None => cs[c] \in ContractRecords,
           NEW rem, NEW s \in us,
           UndefinedOrder(us, cs, rem, s), Interchangeable(us, cs, rem, s)
    PROVE  /\ \A t \in Cohort(us, s) : \E c \in Candidates(cs, s) :
                 <<t, c>> \in CanonicalPairs(us, cs, rem)
           /\ \A c \in Candidates(cs, s) : \E t \in Cohort(us, s) :
                 <<t, c>> \in CanonicalPairs(us, cs, rem)
           /\ \A t \in Cohort(us, s), c, d \in ContractIds :
                 (/\ <<t, c>> \in CanonicalPairs(us, cs, rem)
                  /\ <<t, d>> \in CanonicalPairs(us, cs, rem)) => c = d
  <1>1. PICK group, pool : group = Cohort(us, s) /\ pool = Candidates(cs, s)
    OBVIOUS
  <1>2. group \in SUBSET us /\ pool \in SUBSET ContractIds
    BY <1>1 DEF Cohort, Candidates
  <1>3. IsFiniteSet(group) /\ IsFiniteSet(pool)
    BY <1>2, IdsAssumption, FS_Subset
  <1>4. ASSUME NEW t \in group
        PROVE  /\ Cohort(us, t) = group /\ Candidates(cs, t) = pool
               /\ UndefinedOrder(us, cs, rem, t) /\ Interchangeable(us, cs, rem, t)
    <2>1. /\ t \in us /\ subjects[t].party = subjects[s].party
          /\ subjects[t].amount = subjects[s].amount
      BY <1>1 DEF Cohort
    <2>2. /\ Cohort(us, t) = group /\ Candidates(cs, t) = pool
          /\ UndefinedOrder(us, cs, rem, t)
      BY <1>1, <2>1, SameCohort
    <2> QED BY <1>1, <2>1, <2>2 DEF Interchangeable
  <1>5. PICK key, no : key = [t \in group |-> subjects[t].key] /\ no = [c \in pool |-> cs[c].no]
    OBVIOUS
  <1>6. key \in [group -> Nat] /\ no \in [pool -> Nat]
    <2>1. \A t \in group : subjects[t].key \in Nat
      BY <1>2 DEF SubjectRecords
    <2>2. \A c \in pool : cs[c].no \in Nat
      <3>1. ASSUME NEW c \in pool PROVE cs[c] \in ContractRecords
        BY <1>1, <1>2 DEF Candidates
      <3> QED BY <3>1 DEF ContractRecords
    <2> QED BY <1>5, <2>1, <2>2
  <1>7. /\ Cardinality(pool) = Cardinality(group)
        /\ \A c, d \in pool : c # d => cs[c].no # cs[d].no
        /\ \A t, u \in group : t # u => subjects[t].key # subjects[u].key
    BY <1>1 DEF Interchangeable
  <1>8. /\ \A x, y \in group : key[x] = key[y] => x = y
        /\ \A x, y \in pool : no[x] = no[y] => x = y
    BY <1>5, <1>7
  <1>9. ASSUME NEW t \in group, NEW c \in pool
        PROVE  <<t, c>> \in CanonicalPairs(us, cs, rem)
                 <=> Rank(group, key, t) = Rank(pool, no, c)
    <2>1. /\ {u \in group : subjects[u].key < subjects[t].key} = {u \in group : key[u] < key[t]}
          /\ {d \in pool : cs[d].no < cs[c].no} = {d \in pool : no[d] < no[c]}
      BY <1>5
    <2>2. SameRank(us, cs, t, c) <=> Rank(group, key, t) = Rank(pool, no, c)
      BY <1>4, <2>1 DEF SameRank, Rank
    <2>3. <<t, c>> \in us \X ContractIds /\ <<t, c>>[1] = t /\ <<t, c>>[2] = c
      BY <1>2
    <2>4. <<t, c>> \in CanonicalPairs(us, cs, rem) <=>
            /\ UndefinedOrder(us, cs, rem, t) /\ Interchangeable(us, cs, rem, t)
            /\ c \in Candidates(cs, t) /\ SameRank(us, cs, t, c)
      BY <2>3, Zenon DEF CanonicalPairs
    <2> QED BY <1>4, <2>2, <2>4
  <1>10. ASSUME NEW t \in group PROVE \E c \in pool : <<t, c>> \in CanonicalPairs(us, cs, rem)
    <2>1. \E c \in pool : Rank(pool, no, c) = Rank(group, key, t)
      BY <1>3, <1>6, <1>7, <1>8, RankShared
    <2> QED BY <1>9, <2>1
  <1>11. ASSUME NEW c \in pool PROVE \E t \in group : <<t, c>> \in CanonicalPairs(us, cs, rem)
    <2>1. \E t \in group : Rank(group, key, t) = Rank(pool, no, c)
      BY <1>3, <1>6, <1>7, <1>8, RankShared
    <2> QED BY <1>9, <2>1
  <1>12. ASSUME NEW t \in group, NEW c \in ContractIds, NEW d \in ContractIds,
                <<t, c>> \in CanonicalPairs(us, cs, rem), <<t, d>> \in CanonicalPairs(us, cs, rem)
         PROVE  c = d
    <2>1. c \in pool /\ d \in pool
      BY <1>4, <1>12 DEF CanonicalPairs
    <2>2. Rank(pool, no, c) = Rank(pool, no, d)
      BY <1>9, <1>12, <2>1
    <2>3. no[c] = no[d]
      BY <1>3, <1>6, <2>1, <2>2, RankDeterminesKey DEF Rank
    <2> QED BY <1>8, <2>1, <2>3
  <1> QED BY <1>1, <1>10, <1>11, <1>12

LEMMA CanonicalComplete ==
    ASSUME IInv, Pass2Inv, NEW r \in Runs, pc[r] = "allocate", todo[r] = {},
           NEW a \in draft[r].allocations, a.method = "CANONICAL"
    PROVE  LET cohort == Rivals(r, a.subject)
               rows == {b \in draft[r].allocations : b.subject \in cohort}
           IN  /\ {b.subject : b \in rows} = cohort
               /\ {b.contract : b \in rows} = Candidates(seen[r], a.subject)
               /\ Cardinality(rows) = Cardinality(cohort)
  <1>1. PICK us, cs, rem, s, A :
           /\ us = RunSubjects(r) /\ cs = seen[r] /\ rem = Capacity(kind[r], seen[r])
           /\ s = a.subject /\ A = draft[r].allocations
    OBVIOUS
  <1>2. PICK cohort, rows :
           cohort = Cohort(us, s) /\ rows = {b \in A : b.subject \in cohort}
    OBVIOUS
  <1>3. cohort = Rivals(r, s)
    BY <1>1, <1>2 DEF Rivals
  <1>4. /\ us \in SUBSET SubjectIds /\ \A u \in us : subjects[u] \in SubjectRecords
        /\ \A c \in ContractIds : cs[c] # None => cs[c] \in ContractRecords
        /\ A \subseteq AllocationRecords
    BY <1>1, RunSubjectsKnown
  <1>5. SetAside(r) /\ RowsSound(r) /\ \A b \in A : RowSound(r, b)
    BY <1>1 DEF Pass2Inv, Pass2, RowsSound
  <1>6. \A b \in A : b.subject \in us /\ b.contract \in ContractIds
    BY <1>1, <1>4, <1>5 DEF RowSound, RunSubjects, AllocationRecords
  <1>7. pairs[r] = CanonicalPairs(us, cs, rem) /\ blocked[r] = Blocked(us, cs, rem)
    BY <1>1, <1>5 DEF SetAside
  <1>8. UndefinedOrder(us, cs, rem, s) /\ Interchangeable(us, cs, rem, s)
    <2>1. <<s, a.contract>> \in CanonicalPairs(us, cs, rem)
      BY <1>1, <1>5, <1>7 DEF RowSound
    <2> QED BY <2>1 DEF CanonicalPairs
  <1>9. s \in us
    BY <1>1, <1>6
  <1>10. /\ \A t \in cohort : \E c \in Candidates(cs, s) :
                <<t, c>> \in CanonicalPairs(us, cs, rem)
         /\ \A c \in Candidates(cs, s) : \E t \in cohort :
                <<t, c>> \in CanonicalPairs(us, cs, rem)
         /\ \A t \in cohort, c, d \in ContractIds :
               (/\ <<t, c>> \in CanonicalPairs(us, cs, rem)
                /\ <<t, d>> \in CanonicalPairs(us, cs, rem)) => c = d
    <2>1. /\ \A t \in Cohort(us, s) : \E c \in Candidates(cs, s) :
                 <<t, c>> \in CanonicalPairs(us, cs, rem)
          /\ \A c \in Candidates(cs, s) : \E t \in Cohort(us, s) :
                 <<t, c>> \in CanonicalPairs(us, cs, rem)
          /\ \A t \in Cohort(us, s), c, d \in ContractIds :
                 (/\ <<t, c>> \in CanonicalPairs(us, cs, rem)
                  /\ <<t, d>> \in CanonicalPairs(us, cs, rem)) => c = d
      BY <1>4, <1>8, <1>9, PairsComplete, ZenonT(60)
    <2> QED BY <1>2, <2>1
  <1>11. ASSUME NEW t \in cohort, NEW c \in ContractIds, <<t, c>> \in CanonicalPairs(us, cs, rem)
         PROVE  \E b \in rows : b.subject = t /\ b.contract = c
    <2>1. PICK m \in draft[r].cases : m.subject = t
      <3>1. t \in us
        BY <1>2 DEF Cohort
      <3> QED BY <1>1, <3>1 DEF RunSubjects
    <2>2. PICK b \in A : b.subject = t /\ b.method = "CANONICAL"
      BY <1>1, <1>5, <1>7, <1>11, <2>1 DEF RowsSound
    <2>3. <<t, b.contract>> \in CanonicalPairs(us, cs, rem)
      BY <1>5, <1>7, <2>2 DEF RowSound
    <2>4. b.contract = c
      BY <1>6, <1>10, <1>11, <2>2, <2>3
    <2> QED BY <1>2, <2>2, <2>4
  <1>12. \A c \in Candidates(cs, s) : c \in ContractIds
    BY DEF Candidates
  <1>13. ASSUME NEW b \in rows PROVE b.contract \in Candidates(cs, s)
    <2>1. b \in A /\ b.subject \in us /\ b.subject \in cohort
      BY <1>2, <1>6
    <2>2. /\ subjects[s].party = subjects[b.subject].party
          /\ subjects[s].amount = subjects[b.subject].amount
      BY <1>2, <2>1 DEF Cohort
    <2>3. Candidates(cs, b.subject) = Candidates(cs, s)
      BY <2>2 DEF Candidates
    <2> QED BY <1>1, <1>5, <2>1, <2>3 DEF RowSound
  <1>14. {b.subject : b \in rows} = cohort
    <2>1. \A b \in rows : b.subject \in cohort
      BY <1>2
    <2>2. ASSUME NEW t \in cohort PROVE \E b \in rows : b.subject = t
      BY <1>10, <1>11, <1>12
    <2> QED BY <2>1, <2>2
  <1>15. {b.contract : b \in rows} = Candidates(cs, s)
    <2>1. ASSUME NEW c \in Candidates(cs, s) PROVE \E b \in rows : b.contract = c
      BY <1>10, <1>11, <1>12
    <2> QED BY <1>13, <2>1
  <1>16. Cardinality(rows) = Cardinality(cohort)
    <2>1. PICK f : f = [b \in rows |-> b.subject]
      OBVIOUS
    <2>2. f \in [rows -> cohort]
      BY <1>2, <2>1
    <2>3. \A b, e \in rows : f[b] = f[e] => b = e
      BY <1>1, <1>2, <1>5, <2>1 DEF RowsSound
    <2>4. \A t \in cohort : \E b \in rows : f[b] = t
      BY <1>14, <2>1
    <2>5. f \in Injection(rows, cohort)
      BY <2>2, <2>3 DEF Injection, IsInjective
    <2>6. f \in Surjection(rows, cohort)
      BY <2>2, <2>4 DEF Surjection
    <2>7. IsFiniteSet(cohort)
      BY <1>1, <1>3, <1>9, RunSubjectsKnown
    <2> QED BY <2>5, <2>6, <2>7, FS_Injection
  <1> QED BY <1>1, <1>2, <1>3, <1>14, <1>15, <1>16

\* The canonical representation is complete: it pairs a whole cohort with the
\* whole pool of its candidates, one to one, or nobody.
THEOREM OneToOneHolds == Spec => []CanonicalIsOneToOne
  <1>1. IInv /\ Pass2Inv => CanonicalIsOneToOne
    BY CanonicalComplete DEF CanonicalIsOneToOne
  <1> QED BY <1>1, Pass2Holds, PTL

=============================================================================
