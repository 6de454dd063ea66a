--------------------- MODULE ProcurementSalesLinkProofs ---------------------
(***************************************************************************)
(* Proofs about ProcurementSalesLink for any number of keys, sessions,     *)
(* ledger files and rows.                                                  *)
(***************************************************************************)
EXTENDS ProcurementSalesLink, TLAPS

-----------------------------------------------------------------------------
(* Types and the session facts.                                            *)

LEMMA CommandsAreTyped ==
    /\ Commands \subseteq Command
    /\ \A c \in Commands : /\ c.op = "CORRECT" => c.link \in LinkIds
                           /\ c.op # "CORRECT" => c.key \in Keys
  BY DEF Commands, Command, AddCommand, CorrectCommand, ReestablishCommand,
         AddFragment, CorrectFragment, ReestablishFragment, Fragment

LEMMA RowCommandsAreTyped ==
    ASSUME NEW b \in Backfills, NEW i \in 1..Len(FileKeys[b])
    PROVE  /\ RowCommand(b, i) \in Command
           /\ RowCommand(b, i).op = "ADD"
           /\ RowCommand(b, i).key \in Keys
  <1>1. FileKeys[b][i] \in Keys /\ i \in Nat
    BY FileKeysAssumption
  <1> QED
    BY <1>1 DEF RowCommand, RowFragment, Command, Fragment

LEMMA NoDraftTyped == NoDraft \in Draft /\ NoDraft.corrections = {} /\ NoDraft.links = {}
  BY DEF NoDraft, Draft

LEMMA LinkTyped ==
    ASSUME NEW id \in LinkIds, NEW c \in Command, c.key \in Keys
    PROVE  Link(id, c) \in LinkRow /\ Link(id, c).key = c.key
  BY DEF Link, LinkRow, Command

LEMMA CorrectionTyped ==
    ASSUME NEW c \in Command, c.link \in LinkIds, NEW r \in LinkIds \cup {None}
    PROVE  Correction(c, r) \in CorrectionRow /\ Correction(c, r).superseded = c.link
  BY DEF Correction, CorrectionRow, Command

\* Ending a transaction keeps types and session facts, whatever it leaves in
\* the tables, as long as the tables keep their types.
LEMMA EndKeepsTypes ==
    ASSUME TypeOK, SessionOK, NEW s \in Sessions, EndTransaction(s),
           links' \subseteq LinkRow, corrections' \subseteq CorrectionRow,
           tasks' \subseteq Task, imported' \subseteq Backfills
    PROVE  TypeOK' /\ SessionOK'
  <1>1. TypeOK'
    BY NoDraftTyped DEF TypeOK, EndTransaction, Labels
  <1>2. SessionOK'
    BY NoDraftTyped, SessionsAssumption, NoneAssumption
       DEF TypeOK, SessionOK, EndTransaction, Sessions
  <1> QED BY <1>1, <1>2

LEMMA InitTypes == Init => TypeOK /\ SessionOK
  BY NoDraftTyped DEF Init, TypeOK, SessionOK, Labels, Sessions

-----------------------------------------------------------------------------
(* Steps that end a transaction, and all the others.                       *)

LEMMA CommitKeepsTypes ==
    ASSUME TypeOK, SessionOK, NEW s \in Sessions, Commit(s)
    PROVE  TypeOK' /\ SessionOK'
  <1>1. /\ links' \subseteq LinkRow /\ corrections' \subseteq CorrectionRow
        /\ tasks' \subseteq Task /\ imported' \subseteq Backfills
    BY DEF Commit, TypeOK, Draft
  <1> QED BY <1>1, EndKeepsTypes DEF Commit

LEMMA RollbackKeepsTypes ==
    ASSUME TypeOK, SessionOK, NEW s \in Sessions, Rollback(s)
    PROVE  TypeOK' /\ SessionOK'
  BY EndKeepsTypes DEF Rollback, db, TypeOK

LEMMA SubmitKeepsTypes ==
    ASSUME TypeOK, SessionOK, NEW s \in Humans, NEW c \in Commands, Submit(s, c)
    PROVE  TypeOK' /\ SessionOK'
  <1>1. c \in Command /\ (c.op = "CORRECT" => c.link \in LinkIds)
                      /\ (c.op # "CORRECT" => c.key \in Keys)
    BY CommandsAreTyped
  <1>2. TypeOK'
    BY <1>1 DEF TypeOK, Submit, Goto, db, Sessions, Labels
  <1>3. SessionOK'
    BY <1>1, SessionsAssumption DEF TypeOK, SessionOK, Submit, Goto, db, Sessions
  <1> QED BY <1>2, <1>3

LEMMA StartKeepsTypes ==
    ASSUME TypeOK, SessionOK, NEW b \in Backfills, StartBackfill(b) \/ NextRow(b)
    PROVE  TypeOK' /\ SessionOK'
  <1>1. PICK i \in 1..Len(FileKeys[b]) :
            /\ row' = [row EXCEPT ![b] = i]
            /\ cmd' = [cmd EXCEPT ![b] = RowCommand(b, i)]
    <2>1. Len(FileKeys[b]) \in Nat
      BY FileKeysAssumption
    <2>2. row[b] \in Nat
      BY DEF TypeOK, Sessions
    <2>3. CASE StartBackfill(b)
      <3>1. 1 \in 1..Len(FileKeys[b])
        BY <2>1, <2>3 DEF StartBackfill
      <3>2. row' = [row EXCEPT ![b] = 1] /\ cmd' = [cmd EXCEPT ![b] = RowCommand(b, 1)]
        BY <2>3 DEF StartBackfill
      <3> QED BY <3>1, <3>2
    <2>4. CASE NextRow(b)
      <3>1. row[b] + 1 \in 1..Len(FileKeys[b])
        BY <2>1, <2>2, <2>4 DEF NextRow
      <3>2. /\ row' = [row EXCEPT ![b] = row[b] + 1]
            /\ cmd' = [cmd EXCEPT ![b] = RowCommand(b, row[b] + 1)]
        BY <2>4 DEF NextRow
      <3> QED BY <3>1, <3>2
    <2> QED BY <2>3, <2>4
  <1>2. RowCommand(b, i) \in Command /\ RowCommand(b, i).op = "ADD"
                                    /\ RowCommand(b, i).key \in Keys
    BY RowCommandsAreTyped
  <1>3. /\ pc' = [pc EXCEPT ![b] = "read_current"]
        /\ UNCHANGED <<links, corrections, tasks, imported, writeLock, keyLock, repl, draft>>
    BY DEF StartBackfill, NextRow, Goto, db
  <1>4. i \in Nat
    BY FileKeysAssumption
  <1>5. TypeOK'
    BY <1>1, <1>2, <1>3, <1>4 DEF TypeOK, Sessions, Labels
  <1>6. SessionOK'
    BY <1>1, <1>2, <1>3, SessionsAssumption DEF TypeOK, SessionOK, Sessions
  <1> QED BY <1>5, <1>6

\* A statement of a running transaction: the session moves on, and changes
\* nothing but its own draft, key locks and replacement.
LEMMA MoveKeepsTypes ==
    ASSUME TypeOK, SessionOK, NEW s \in Sessions, pc[s] \notin {"idle", "lock"},
           NEW label \in Labels \ {"idle", "lock"},
           pc' = [pc EXCEPT ![s] = label],
           label \notin {"read_target", "write_correction", "done"} => cmd[s].key \in Keys,
           label \in {"read_target", "read_replacement", "write_correction"} =>
                cmd[s].op = "CORRECT",
           UNCHANGED <<db, writeLock, cmd, row>>,
           NEW d \in Draft, draft' = [draft EXCEPT ![s] = d],
           s \in Backfills => d.corrections = {},
           NEW ks \in SUBSET Keys, keyLock' = [keyLock EXCEPT ![s] = ks],
           repl' \in [Sessions -> LinkIds \cup {None}]
    PROVE  TypeOK' /\ SessionOK'
  <1>1. TypeOK'
    BY DEF TypeOK, db
  <1>2. SessionOK'
    BY DEF TypeOK, SessionOK, db, Labels
  <1> QED BY <1>1, <1>2

LEMMA SeenTyped ==
    ASSUME TypeOK, NEW s \in Sessions
    PROVE  SeenLinks(s) \subseteq LinkRow /\ SeenCorrections(s) \subseteq CorrectionRow
  BY DEF SeenLinks, SeenCorrections, TypeOK, Draft

LEMMA CurrentIsSeen ==
    ASSUME TypeOK, NEW s \in Sessions, NEW r \in SeenCurrent(s)
    PROVE  r \in SeenLinks(s) /\ r.id \in LinkIds /\ r.key = cmd[s].key
  BY SeenTyped DEF SeenCurrent, CurrentOf, Episodes, LinkRow

\* Statements that only read, and choose the next statement.
ReadStatement(s) ==
    \/ AddReadCurrent(s) \/ CorrectReadReplacement(s) \/ ReestablishReadHistory(s)
    \/ InsertStatement(s) \/ LostRace(s)

LEMMA ReadStatementEffect ==
    ASSUME TypeOK, SessionOK, NEW s \in Sessions, ReadStatement(s)
    PROVE  /\ UNCHANGED <<db, writeLock, keyLock, cmd, row, draft>>
           /\ pc[s] \notin {"idle", "lock"}
           /\ repl' \in [Sessions -> LinkIds \cup {None}]
           /\ \E label \in {"done", "read_episodes", "insert", "trigger", "lost",
                            "write_correction"} :
                /\ pc' = [pc EXCEPT ![s] = label]
                /\ label \notin {"write_correction", "done"} => cmd[s].key \in Keys
                /\ label = "write_correction" => cmd[s].op = "CORRECT"
  <1>1. CASE AddReadCurrent(s)
    BY <1>1 DEF AddReadCurrent, Goto, TypeOK, SessionOK, db
  <1>2. CASE CorrectReadReplacement(s)
    <2>1. repl' \in [Sessions -> LinkIds \cup {None}]
      BY <1>2, CurrentIsSeen DEF CorrectReadReplacement, TypeOK
    <2>2. cmd[s].key \in Keys /\ cmd[s].op = "CORRECT"
      BY <1>2 DEF CorrectReadReplacement, SessionOK
    <2>3. CASE SeenCurrent(s) = {}
      BY <1>2, <2>1, <2>2, <2>3 DEF CorrectReadReplacement, Goto
    <2>4. CASE SeenCurrent(s) # {}
      <3>1. pc' = [pc EXCEPT ![s] = "write_correction"]
        BY <1>2, <2>4 DEF CorrectReadReplacement, Goto
      <3> QED BY <1>2, <2>1, <2>2, <3>1 DEF CorrectReadReplacement
    <2> QED BY <2>3, <2>4
  <1>3. CASE ReestablishReadHistory(s)
    BY <1>3 DEF ReestablishReadHistory, Goto, TypeOK, SessionOK, db
  <1>4. CASE InsertStatement(s)
    BY <1>4 DEF InsertStatement, Goto, TypeOK, SessionOK, db
  <1>5. CASE LostRace(s)
    <2>1. repl' \in [Sessions -> LinkIds \cup {None}]
      BY <1>5, CurrentIsSeen DEF LostRace, TypeOK
    <2>2. CASE Goto(s, "done")
      BY <1>5, <2>1, <2>2 DEF LostRace, Goto
    <2>3. CASE cmd[s].op = "CORRECT" /\ Goto(s, "write_correction")
      BY <1>5, <2>1, <2>3 DEF LostRace, Goto
    <2> QED BY <1>5, <2>2, <2>3 DEF LostRace
  <1> QED BY <1>1, <1>2, <1>3, <1>4, <1>5 DEF ReadStatement

LEMMA ReadKeepsTypes ==
    ASSUME TypeOK, SessionOK, NEW s \in Sessions, ReadStatement(s)
    PROVE  TypeOK' /\ SessionOK'
  <1>1. PICK label \in {"done", "read_episodes", "insert", "trigger", "lost",
                       "write_correction"} :
            /\ pc' = [pc EXCEPT ![s] = label]
            /\ label \notin {"write_correction", "done"} => cmd[s].key \in Keys
            /\ label = "write_correction" => cmd[s].op = "CORRECT"
    BY ReadStatementEffect
  <1>2. TypeOK'
    BY <1>1, ReadStatementEffect DEF TypeOK, Labels, db
  <1>3. SessionOK'
    BY <1>1, ReadStatementEffect DEF TypeOK, SessionOK, db
  <1> QED BY <1>2, <1>3

LEMMA AcquireKeepsTypes ==
    ASSUME TypeOK, SessionOK, NEW s \in Sessions, AcquireWriteLock(s)
    PROVE  TypeOK' /\ SessionOK'
  <1>1. s \in Humans
    BY DEF AcquireWriteLock, SessionOK, Sessions
  <1>2. /\ FirstStatement[cmd[s].op] \in {"read_current", "read_target", "read_history"}
        /\ FirstStatement[cmd[s].op] = "read_target" => cmd[s].op = "CORRECT"
        /\ FirstStatement[cmd[s].op] # "read_target" => cmd[s].key \in Keys
    BY DEF FirstStatement, AcquireWriteLock, SessionOK, Command
  <1>3. TypeOK'
    BY <1>1, <1>2 DEF AcquireWriteLock, TypeOK, Goto, db, Labels
  <1>4. SessionOK'
    BY <1>1, <1>2, NoneAssumption, SessionsAssumption
       DEF AcquireWriteLock, TypeOK, SessionOK, Goto, db, Sessions
  <1> QED BY <1>3, <1>4

-----------------------------------------------------------------------------
(* Statements that write into the session's draft.                         *)

\* A draft that only gains tasks.
LEMMA TaskKeepsTypes ==
    ASSUME TypeOK, SessionOK, NEW s \in Sessions, pc[s] \notin {"idle", "lock"},
           NEW label \in {"done", "insert", "write_correction", "read_replacement"},
           pc' = [pc EXCEPT ![s] = label],
           label \in {"insert", "read_replacement"} => cmd[s].key \in Keys,
           label \in {"read_replacement", "write_correction"} => cmd[s].op = "CORRECT",
           UNCHANGED <<db, writeLock, keyLock, cmd, row, repl>>,
           (\E t \in Task : AddTask(s, t)) \/ UNCHANGED draft
    PROVE  TypeOK' /\ SessionOK'
  <1>1. PICK d \in Draft : /\ draft' = [draft EXCEPT ![s] = d]
                           /\ d.corrections = draft[s].corrections
    <2>1. CASE UNCHANGED draft
      BY <2>1 DEF TypeOK
    <2>2. CASE \E t \in Task : AddTask(s, t)
      <3>1. PICK t \in Task : AddTask(s, t)
        BY <2>2
      <3>2. [draft[s] EXCEPT !.tasks = @ \cup {t}] \in Draft
        BY DEF TypeOK, Draft
      <3>3. [draft[s] EXCEPT !.tasks = @ \cup {t}].corrections = draft[s].corrections
        BY DEF TypeOK, Draft
      <3> QED BY <3>1, <3>2, <3>3 DEF AddTask
    <2> QED BY <2>1, <2>2
  <1>2. keyLock[s] \in SUBSET Keys /\ keyLock' = [keyLock EXCEPT ![s] = keyLock[s]]
    BY DEF TypeOK
  <1>3. s \in Backfills => d.corrections = {}
    BY <1>1 DEF SessionOK
  <1>4. label \in Labels \ {"idle", "lock"} /\ repl' \in [Sessions -> LinkIds \cup {None}]
    BY DEF Labels, TypeOK
  <1> QED BY <1>1, <1>2, <1>3, <1>4, MoveKeepsTypes

LEMMA KeyTasksAreTyped ==
    ASSUME NEW k \in Keys, NEW i \in {1, 2}, NEW kind \in {"MULTIPLE_SCOPES", "BACKFILL_CONFLICT"}
    PROVE  <<kind, k[i]>> \in Task
  BY DEF Task

LEMMA TaskStatementsKeepTypes ==
    ASSUME TypeOK, SessionOK, NEW s \in Sessions,
           AddReadEpisodes(s) \/ FlagMultipleScopes(s) \/ CorrectReadTarget(s)
    PROVE  TypeOK' /\ SessionOK'
  <1>1. CASE AddReadEpisodes(s)
    <2>1. cmd[s].key \in Keys
      BY <1>1 DEF AddReadEpisodes, SessionOK
    <2>2. (\E t \in Task : AddTask(s, t)) \/ UNCHANGED draft
      BY <1>1, <2>1, KeyTasksAreTyped DEF AddReadEpisodes
    <2>3. CASE Goto(s, "insert")
      BY <1>1, <2>1, <2>2, <2>3, TaskKeepsTypes DEF AddReadEpisodes, Goto
    <2>4. CASE Goto(s, "done")
      BY <1>1, <2>1, <2>2, <2>4, TaskKeepsTypes DEF AddReadEpisodes, Goto
    <2> QED BY <1>1, <2>3, <2>4 DEF AddReadEpisodes
  <1>2. CASE FlagMultipleScopes(s)
    <2>1. cmd[s].key \in Keys
      BY <1>2 DEF FlagMultipleScopes, SessionOK
    <2>2. (\E t \in Task : AddTask(s, t)) \/ UNCHANGED draft
      BY <1>2, <2>1, KeyTasksAreTyped DEF FlagMultipleScopes, MultipleScopesTask
    <2> QED BY <1>2, <2>2, TaskKeepsTypes DEF FlagMultipleScopes, Goto
  <1>3. CASE CorrectReadTarget(s)
    <2>1. cmd[s] \in Command /\ cmd[s].op = "CORRECT" /\ cmd[s].link \in LinkIds
      BY <1>3 DEF CorrectReadTarget, SessionOK
    <2>2. ConflictTask(cmd[s]) \in Task
      BY <2>1 DEF ConflictTask, Task, Command
    <2>3. (\E t \in Task : AddTask(s, t)) \/ UNCHANGED draft
      BY <1>3, <2>2 DEF CorrectReadTarget
    <2>4. CASE Goto(s, "done")
      BY <1>3, <2>3, <2>4, TaskKeepsTypes DEF CorrectReadTarget, Goto
    <2>5. CASE Goto(s, "write_correction")
      BY <1>3, <2>1, <2>3, <2>5, TaskKeepsTypes DEF CorrectReadTarget, Goto
    <2>6. CASE cmd[s].key # None /\ Goto(s, "read_replacement")
      <3>1. cmd[s].key \in Keys
        BY <2>1, <2>6 DEF Command
      <3> QED BY <1>3, <2>1, <2>3, <2>6, <3>1, TaskKeepsTypes DEF CorrectReadTarget, Goto
    <2> QED BY <1>3, <2>4, <2>5, <2>6 DEF CorrectReadTarget
  <1> QED BY <1>1, <1>2, <1>3

\* What the statement that writes an episode changes.
LEMMA WriteEpisodeEffect ==
    ASSUME TypeOK, SessionOK, NEW s \in Sessions, OneCurrentTrigger(s)
    PROVE  \E id \in LinkIds \ UsedIds, d \in Draft, label \in {"write_correction", "flag"} :
              /\ d.links = draft[s].links \cup {Link(id, cmd[s])}
              /\ d.corrections = draft[s].corrections
              /\ draft' = [draft EXCEPT ![s] = d]
              /\ keyLock' = [keyLock EXCEPT ![s] = @ \cup {cmd[s].key}]
              /\ repl' = [repl EXCEPT ![s] = id]
              /\ pc' = [pc EXCEPT ![s] = label]
              /\ label = "write_correction" => cmd[s].op = "CORRECT"
              /\ UNCHANGED <<db, writeLock, cmd, row>>
              /\ Link(id, cmd[s]) \in LinkRow /\ Link(id, cmd[s]).key = cmd[s].key
              /\ cmd[s].key \in Keys
  <1>1. PICK id \in LinkIds \ UsedIds : WriteEpisode(s, id)
    BY DEF OneCurrentTrigger
  <1>2. cmd[s] \in Command /\ cmd[s].key \in Keys
    BY DEF OneCurrentTrigger, SessionOK
  <1>3. Link(id, cmd[s]) \in LinkRow /\ Link(id, cmd[s]).key = cmd[s].key
    BY <1>2, LinkTyped
  <1> DEFINE d     == [draft[s] EXCEPT !.links = @ \cup {Link(id, cmd[s])}]
             label == IF cmd[s].op = "CORRECT" THEN "write_correction" ELSE "flag"
  <1>4. /\ d \in Draft /\ d.links = draft[s].links \cup {Link(id, cmd[s])}
        /\ d.corrections = draft[s].corrections
    BY <1>3 DEF TypeOK, Draft
  <1>5. draft' = [draft EXCEPT ![s] = d]
    BY <1>1 DEF WriteEpisode
  <1>6. label \in {"write_correction", "flag"} /\ pc' = [pc EXCEPT ![s] = label]
    BY <1>1 DEF WriteEpisode, Goto
  <1>7. label = "write_correction" => cmd[s].op = "CORRECT"
    OBVIOUS
  <1>8. /\ keyLock' = [keyLock EXCEPT ![s] = @ \cup {cmd[s].key}]
        /\ repl' = [repl EXCEPT ![s] = id]
        /\ UNCHANGED <<db, writeLock, cmd, row>>
    BY <1>1 DEF WriteEpisode
  <1> HIDE DEF d, label
  <1> QED BY <1>2, <1>3, <1>4, <1>5, <1>6, <1>7, <1>8

LEMMA WriteEpisodeKeepsTypes ==
    ASSUME TypeOK, SessionOK, NEW s \in Sessions, OneCurrentTrigger(s)
    PROVE  TypeOK' /\ SessionOK'
  <1>1. PICK id \in LinkIds \ UsedIds, d \in Draft, label \in {"write_correction", "flag"} :
              /\ d.corrections = draft[s].corrections
              /\ draft' = [draft EXCEPT ![s] = d]
              /\ keyLock' = [keyLock EXCEPT ![s] = @ \cup {cmd[s].key}]
              /\ repl' = [repl EXCEPT ![s] = id]
              /\ pc' = [pc EXCEPT ![s] = label]
              /\ label = "write_correction" => cmd[s].op = "CORRECT"
              /\ UNCHANGED <<db, writeLock, cmd, row>>
              /\ cmd[s].key \in Keys
    BY WriteEpisodeEffect
  <1>2. keyLock[s] \cup {cmd[s].key} \in SUBSET Keys
    BY <1>1 DEF TypeOK
  <1>3. keyLock' = [keyLock EXCEPT ![s] = keyLock[s] \cup {cmd[s].key}]
    BY <1>1
  <1>4. repl' \in [Sessions -> LinkIds \cup {None}]
    BY <1>1 DEF TypeOK
  <1>5. s \in Backfills => d.corrections = {}
    BY <1>1 DEF SessionOK
  <1>6. pc[s] \notin {"idle", "lock"} /\ label \in Labels \ {"idle", "lock"}
    BY DEF OneCurrentTrigger, Labels
  <1> QED BY <1>1, <1>2, <1>3, <1>4, <1>5, <1>6, MoveKeepsTypes

\* What WriteCorrection changes: it adds the correction, or takes the new
\* episode back.
LEMMA WriteCorrectionEffect ==
    ASSUME TypeOK, SessionOK, NEW s \in Sessions, WriteCorrection(s)
    PROVE  /\ s \in Humans /\ writeLock = s
           /\ UNCHANGED <<db, writeLock, keyLock, cmd, row, repl>>
           /\ pc' = [pc EXCEPT ![s] = "done"]
           /\ \E d \in Draft :
                 /\ draft' = [draft EXCEPT ![s] = d]
                 /\ \/ d.links = {} /\ d.corrections = draft[s].corrections
                    \/ \E r \in CorrectionRow :
                          /\ \A c \in SeenCorrections(s) : c.superseded # r.superseded
                          /\ d.links = draft[s].links
                          /\ d.corrections = draft[s].corrections \cup {r}
  <1>1. cmd[s] \in Command /\ cmd[s].op = "CORRECT" /\ cmd[s].link \in LinkIds
    BY DEF WriteCorrection, SessionOK
  <1>2. s \in Humans /\ writeLock = s
    BY <1>1 DEF WriteCorrection, SessionOK, Sessions
  <1>3. ConflictTask(cmd[s]) \in Task
    BY <1>1 DEF ConflictTask, Task, Command
  <1>4. repl[s] \in LinkIds \cup {None}
    BY DEF TypeOK
  <1> DEFINE r == Correction(cmd[s], repl[s])
  <1>5. r \in CorrectionRow /\ r.superseded = cmd[s].link
    BY <1>1, <1>4, CorrectionTyped
  <1>6. CASE \E c \in SeenCorrections(s) : c.superseded = cmd[s].link
    <2> DEFINE d == [draft[s] EXCEPT !.links = {}, !.tasks = @ \cup {ConflictTask(cmd[s])}]
    <2>1. d \in Draft /\ d.links = {} /\ d.corrections = draft[s].corrections
      BY <1>3 DEF TypeOK, Draft
    <2>2. draft' = [draft EXCEPT ![s] = d]
      BY <1>6 DEF WriteCorrection, TypeOK
    <2> QED BY <1>2, <2>1, <2>2 DEF WriteCorrection, Goto
  <1>7. CASE ~ \E c \in SeenCorrections(s) : c.superseded = cmd[s].link
    <2> DEFINE d == [draft[s] EXCEPT !.corrections = @ \cup {r}]
    <2>1. /\ d \in Draft /\ d.links = draft[s].links
          /\ d.corrections = draft[s].corrections \cup {r}
      BY <1>5 DEF TypeOK, Draft
    <2>2. draft' = [draft EXCEPT ![s] = d]
      BY <1>7 DEF WriteCorrection
    <2> QED BY <1>2, <1>5, <1>7, <2>1, <2>2 DEF WriteCorrection, Goto
  <1> QED BY <1>6, <1>7

LEMMA WriteCorrectionKeepsTypes ==
    ASSUME TypeOK, SessionOK, NEW s \in Sessions, WriteCorrection(s)
    PROVE  TypeOK' /\ SessionOK'
  <1>1. PICK d \in Draft : draft' = [draft EXCEPT ![s] = d]
    BY WriteCorrectionEffect
  <1>2. keyLock[s] \in SUBSET Keys /\ keyLock' = [keyLock EXCEPT ![s] = keyLock[s]]
    BY WriteCorrectionEffect DEF TypeOK
  <1>3. s \notin Backfills /\ repl' \in [Sessions -> LinkIds \cup {None}]
    BY WriteCorrectionEffect, SessionsAssumption DEF TypeOK
  <1>4. pc[s] \notin {"idle", "lock"} /\ "done" \in Labels \ {"idle", "lock"}
    BY DEF WriteCorrection, Labels
  <1> QED BY <1>1, <1>2, <1>3, <1>4, WriteCorrectionEffect, MoveKeepsTypes

-----------------------------------------------------------------------------
(* Locks and views.                                                        *)

Protected == KeyLocksExclusive /\ DraftsLocked /\ ViewsOK
             /\ OneCurrentPerKey /\ LineageNeverForks

\* Fewer links and more corrections leave no more current links.
LEMMA CurrentShrinks ==
    ASSUME NEW ls, NEW cs, NEW ls2 \in SUBSET ls, NEW cs2, cs \subseteq cs2,
           AtMostOneCurrent(ls, cs)
    PROVE  AtMostOneCurrent(ls2, cs2)
  BY DEF AtMostOneCurrent, CurrentLinks, Retired

LEMMA NoForkShrinks ==
    ASSUME NEW cs, NEW cs2 \in SUBSET cs, NoFork(cs)
    PROVE  NoFork(cs2)
  BY DEF NoFork

\* A session that is not past the lock has no draft; so only the holder of the
\* write lock has unwritten corrections.
LEMMA OneCorrector ==
    ASSUME TypeOK, SessionOK, NEW s \in Sessions, NEW t \in Sessions, s # t
    PROVE  draft[s].corrections = {} \/ draft[t].corrections = {}
  <1>1. ASSUME NEW u \in Sessions, draft[u].corrections # {}
        PROVE  writeLock = u
    <2>1. u \in Humans
      BY <1>1 DEF SessionOK, Sessions
    <2>2. pc[u] \notin {"idle", "lock"}
      BY <1>1, NoDraftTyped DEF TypeOK
    <2> QED BY <2>1, <2>2 DEF SessionOK
  <1> QED BY <1>1

LEMMA QuietKeepsProtected ==
    ASSUME Protected, UNCHANGED <<links, corrections, keyLock>>,
           \A s \in Sessions : /\ draft'[s].links = draft[s].links
                                /\ draft'[s].corrections = draft[s].corrections
    PROVE  Protected'
  BY DEF Protected, KeyLocksExclusive, DraftsLocked, ViewsOK, OneCurrentPerKey,
         LineageNeverForks, SeenLinks, SeenCorrections, AtMostOneCurrent, NoFork,
         CurrentLinks, Retired

LEMMA RollbackKeepsProtected ==
    ASSUME TypeOK, Protected, NEW s \in Sessions, Rollback(s)
    PROVE  Protected'
  <1>1. UNCHANGED <<links, corrections>>
    BY DEF Rollback, db
  <1>2. /\ keyLock'[s] = {} /\ draft'[s].links = {} /\ draft'[s].corrections = {}
        /\ \A t \in Sessions \ {s} : keyLock'[t] = keyLock[t] /\ draft'[t] = draft[t]
    BY NoDraftTyped DEF Rollback, EndTransaction, TypeOK
  <1>3. KeyLocksExclusive' /\ DraftsLocked'
    BY <1>2 DEF Protected, KeyLocksExclusive, DraftsLocked
  <1>4. OneCurrentPerKey' /\ LineageNeverForks'
    BY <1>1 DEF Protected, OneCurrentPerKey, LineageNeverForks, AtMostOneCurrent,
                NoFork, CurrentLinks, Retired
  <1>5. ASSUME NEW t \in Sessions
        PROVE  AtMostOneCurrent(SeenLinks(t)', SeenCorrections(t)') /\ NoFork(SeenCorrections(t)')
    <2>1. CASE t = s
      BY <1>1, <1>2, <2>1 DEF SeenLinks, SeenCorrections, Protected, OneCurrentPerKey,
                              LineageNeverForks
    <2>2. CASE t # s
      BY <1>1, <1>2, <2>2 DEF SeenLinks, SeenCorrections, Protected, ViewsOK
    <2> QED BY <2>1, <2>2
  <1>6. ViewsOK'
    BY <1>5 DEF ViewsOK, AtMostOneCurrent, NoFork, CurrentLinks, Retired
  <1> QED BY <1>3, <1>4, <1>6 DEF Protected

\* The trigger: the key is free, and nothing current is seen under its lock.
LEMMA WriteEpisodeKeepsProtected ==
    ASSUME TypeOK, SessionOK, Protected, NEW s \in Sessions, OneCurrentTrigger(s)
    PROVE  Protected'
  <1>1. PICK id \in LinkIds, d \in Draft :
              /\ d.links = draft[s].links \cup {Link(id, cmd[s])}
              /\ d.corrections = draft[s].corrections
              /\ draft' = [draft EXCEPT ![s] = d]
              /\ keyLock' = [keyLock EXCEPT ![s] = @ \cup {cmd[s].key}]
              /\ UNCHANGED db
              /\ Link(id, cmd[s]).key = cmd[s].key
    BY WriteEpisodeEffect
  <1> DEFINE new == Link(id, cmd[s])
  <1>2. UNCHANGED <<links, corrections>>
    BY <1>1 DEF db
  <1>3. /\ keyLock'[s] = keyLock[s] \cup {cmd[s].key} /\ draft'[s] = d
        /\ \A t \in Sessions \ {s} : keyLock'[t] = keyLock[t] /\ draft'[t] = draft[t]
    BY <1>1 DEF TypeOK
  <1>4. KeyLocksExclusive'
    BY <1>3 DEF Protected, KeyLocksExclusive, OneCurrentTrigger, KeyIsFree
  <1>5. DraftsLocked'
    BY <1>1, <1>3 DEF Protected, DraftsLocked
  <1>6. OneCurrentPerKey' /\ LineageNeverForks'
    BY <1>2 DEF Protected, OneCurrentPerKey, LineageNeverForks, AtMostOneCurrent,
                NoFork, CurrentLinks, Retired
  <1>7. AtMostOneCurrent(SeenLinks(s) \cup {new}, SeenCorrections(s))
    <2>1. \A l \in CurrentLinks(SeenLinks(s), SeenCorrections(s)) : l.key # cmd[s].key
      BY DEF OneCurrentTrigger, SeenCurrent, CurrentOf, Episodes, CurrentLinks
    <2>2. AtMostOneCurrent(SeenLinks(s), SeenCorrections(s))
      BY DEF Protected, ViewsOK
    <2> QED BY <1>1, <2>1, <2>2 DEF AtMostOneCurrent, CurrentLinks
  <1>8. ASSUME NEW t \in Sessions
        PROVE  AtMostOneCurrent(SeenLinks(t)', SeenCorrections(t)') /\ NoFork(SeenCorrections(t)')
    <2>1. CASE t = s
      <3>1. SeenLinks(t)' = SeenLinks(s) \cup {new} /\ SeenCorrections(t)' = SeenCorrections(s)
        BY <1>1, <1>2, <1>3, <2>1 DEF SeenLinks, SeenCorrections
      <3> QED BY <1>7, <3>1 DEF Protected, ViewsOK
    <2>2. CASE t # s
      BY <1>2, <1>3, <2>2 DEF SeenLinks, SeenCorrections, Protected, ViewsOK
    <2> QED BY <2>1, <2>2
  <1>9. ViewsOK'
    BY <1>8 DEF ViewsOK, AtMostOneCurrent, NoFork, CurrentLinks, Retired
  <1> QED BY <1>4, <1>5, <1>6, <1>9 DEF Protected

LEMMA WriteCorrectionKeepsProtected ==
    ASSUME TypeOK, SessionOK, Protected, NEW s \in Sessions, WriteCorrection(s)
    PROVE  Protected'
  <1>1. PICK d \in Draft :
            /\ draft' = [draft EXCEPT ![s] = d]
            /\ \/ d.links = {} /\ d.corrections = draft[s].corrections
               \/ \E r \in CorrectionRow :
                     /\ \A c \in SeenCorrections(s) : c.superseded # r.superseded
                     /\ d.links = draft[s].links
                     /\ d.corrections = draft[s].corrections \cup {r}
    BY WriteCorrectionEffect
  <1>2. UNCHANGED <<links, corrections, keyLock>>
    BY WriteCorrectionEffect DEF db
  <1>3. /\ draft'[s] = d
        /\ \A t \in Sessions \ {s} : draft'[t] = draft[t]
    BY <1>1 DEF TypeOK
  <1>4. d.links \subseteq draft[s].links /\ draft[s].corrections \subseteq d.corrections
    BY <1>1
  <1>5. KeyLocksExclusive' /\ DraftsLocked'
    BY <1>2, <1>3, <1>4 DEF Protected, KeyLocksExclusive, DraftsLocked
  <1>6. OneCurrentPerKey' /\ LineageNeverForks'
    BY <1>2 DEF Protected, OneCurrentPerKey, LineageNeverForks, AtMostOneCurrent,
                NoFork, CurrentLinks, Retired
  <1>7. ASSUME NEW t \in Sessions
        PROVE  AtMostOneCurrent(SeenLinks(t)', SeenCorrections(t)') /\ NoFork(SeenCorrections(t)')
    <2>1. CASE t = s
      <3>1. /\ SeenLinks(t)' = links \cup d.links
            /\ SeenCorrections(t)' = corrections \cup d.corrections
        BY <1>2, <1>3, <2>1 DEF SeenLinks, SeenCorrections
      <3>2. /\ links \cup d.links \subseteq SeenLinks(s)
            /\ SeenCorrections(s) \subseteq corrections \cup d.corrections
        BY <1>4 DEF SeenLinks, SeenCorrections
      <3>3. AtMostOneCurrent(SeenLinks(s), SeenCorrections(s)) /\ NoFork(SeenCorrections(s))
        BY DEF Protected, ViewsOK
      <3>4. AtMostOneCurrent(links \cup d.links, corrections \cup d.corrections)
        BY <3>2, <3>3, CurrentShrinks
      <3>5. NoFork(corrections \cup d.corrections)
        <4>1. CASE d.corrections = draft[s].corrections
          BY <3>3, <4>1 DEF SeenCorrections
        <4>2. CASE \E r : /\ \A c \in SeenCorrections(s) : c.superseded # r.superseded
                          /\ d.corrections = draft[s].corrections \cup {r}
          BY <3>3, <4>2 DEF SeenCorrections, NoFork
        <4> QED BY <1>1, <4>1, <4>2
      <3> QED BY <3>1, <3>4, <3>5
    <2>2. CASE t # s
      BY <1>2, <1>3, <2>2 DEF SeenLinks, SeenCorrections, Protected, ViewsOK
    <2> QED BY <2>1, <2>2
  <1>8. ViewsOK'
    BY <1>7 DEF ViewsOK, AtMostOneCurrent, NoFork, CurrentLinks, Retired
  <1> QED BY <1>5, <1>6, <1>8 DEF Protected

\* A commit publishes the session's view.  Another session's view then holds
\* the drafts of both, and their episodes are of different keys.
LEMMA CommitKeepsProtected ==
    ASSUME TypeOK, SessionOK, Protected, NEW s \in Sessions, Commit(s)
    PROVE  Protected'
  <1>1. links' = SeenLinks(s) /\ corrections' = SeenCorrections(s)
    BY DEF Commit, SeenLinks, SeenCorrections
  <1>2. /\ keyLock'[s] = {} /\ draft'[s].links = {} /\ draft'[s].corrections = {}
        /\ \A t \in Sessions \ {s} : keyLock'[t] = keyLock[t] /\ draft'[t] = draft[t]
    BY NoDraftTyped DEF Commit, EndTransaction, TypeOK
  <1>3. KeyLocksExclusive' /\ DraftsLocked'
    BY <1>2 DEF Protected, KeyLocksExclusive, DraftsLocked
  <1>4. AtMostOneCurrent(links', corrections') /\ NoFork(corrections')
    BY <1>1 DEF Protected, ViewsOK
  <1>5. OneCurrentPerKey' /\ LineageNeverForks'
    BY <1>4 DEF OneCurrentPerKey, LineageNeverForks, AtMostOneCurrent, NoFork,
                CurrentLinks, Retired
  <1>6. ASSUME NEW t \in Sessions
        PROVE  AtMostOneCurrent(SeenLinks(t)', SeenCorrections(t)') /\ NoFork(SeenCorrections(t)')
    <2>1. CASE t = s
      BY <1>2, <1>4, <2>1 DEF SeenLinks, SeenCorrections
    <2>2. CASE t # s
      <3> DEFINE ls == SeenLinks(s) \cup SeenLinks(t)
                 cs == SeenCorrections(s) \cup SeenCorrections(t)
      <3>1. SeenLinks(t)' = ls /\ SeenCorrections(t)' = cs
        BY <1>1, <1>2, <2>2 DEF SeenLinks, SeenCorrections
      <3>2. ASSUME NEW u \in {s, t}
            PROVE  AtMostOneCurrent(SeenLinks(u), SeenCorrections(u)) /\ NoFork(SeenCorrections(u))
        BY <3>2 DEF Protected, ViewsOK
      <3>3. NoFork(cs)
        <4>1. draft[s].corrections = {} \/ draft[t].corrections = {}
          BY <2>2, OneCorrector
        <4>2. cs = SeenCorrections(s) \/ cs = SeenCorrections(t)
          BY <4>1 DEF SeenCorrections
        <4> QED BY <3>2, <4>2
      <3>4. ASSUME NEW l1 \in CurrentLinks(ls, cs), NEW l2 \in CurrentLinks(ls, cs),
                   l1.key = l2.key
            PROVE  l1 = l2
        <4>1. \A u \in {s, t} : l1 \in SeenLinks(u) /\ l2 \in SeenLinks(u) => l1 = l2
          BY <3>2, <3>4 DEF AtMostOneCurrent, CurrentLinks, Retired
        <4>2. ~(l1 \in draft[s].links /\ l2 \in draft[t].links)
          BY <2>2, <3>4 DEF Protected, DraftsLocked, KeyLocksExclusive
        <4>3. ~(l2 \in draft[s].links /\ l1 \in draft[t].links)
          BY <2>2, <3>4 DEF Protected, DraftsLocked, KeyLocksExclusive
        <4>4. l1 \in ls /\ l2 \in ls
          BY DEF CurrentLinks
        <4> QED BY <4>1, <4>2, <4>3, <4>4 DEF SeenLinks
      <3>5. AtMostOneCurrent(ls, cs)
        BY <3>4 DEF AtMostOneCurrent
      <3> QED BY <3>1, <3>3, <3>5
    <2> QED BY <2>1, <2>2
  <1>7. ViewsOK'
    BY <1>6 DEF ViewsOK, AtMostOneCurrent, NoFork, CurrentLinks, Retired
  <1> QED BY <1>3, <1>5, <1>7 DEF Protected

-----------------------------------------------------------------------------
(* The inductive invariant.                                                *)

LEMMA IInvParts ==
    /\ IInv <=> TypeOK /\ SessionOK /\ Protected
    /\ IInv' <=> TypeOK' /\ SessionOK' /\ Protected'
  BY DEF IInv, Protected

LEMMA InitIInv == Init => IInv
  <1> SUFFICES ASSUME Init PROVE IInv
    OBVIOUS
  <1>1. TypeOK /\ SessionOK
    BY InitTypes
  <1>2. \A s \in Sessions : /\ keyLock[s] = {} /\ SeenLinks(s) = {}
                            /\ SeenCorrections(s) = {} /\ draft[s].links = {}
    BY NoDraftTyped DEF Init, SeenLinks, SeenCorrections
  <1>3. Protected
    BY <1>2 DEF Init, Protected, KeyLocksExclusive, DraftsLocked, ViewsOK, OneCurrentPerKey,
                LineageNeverForks, AtMostOneCurrent, NoFork, CurrentLinks
  <1> QED BY <1>1, <1>3, IInvParts

\* A statement that gains no link, correction or key lock.
LEMMA TaskStatementsAreQuiet ==
    ASSUME TypeOK, NEW s \in Sessions,
           AddReadEpisodes(s) \/ FlagMultipleScopes(s) \/ CorrectReadTarget(s)
    PROVE  /\ UNCHANGED <<links, corrections, keyLock>>
           /\ \A t \in Sessions : /\ draft'[t].links = draft[t].links
                                  /\ draft'[t].corrections = draft[t].corrections
  <1>1. UNCHANGED <<links, corrections, keyLock>>
    BY DEF AddReadEpisodes, FlagMultipleScopes, CorrectReadTarget, db
  <1>2. (\E x : AddTask(s, x)) \/ UNCHANGED draft
    BY DEF AddReadEpisodes, FlagMultipleScopes, CorrectReadTarget
  <1>3. ASSUME NEW x, AddTask(s, x)
        PROVE  \A t \in Sessions : /\ draft'[t].links = draft[t].links
                                  /\ draft'[t].corrections = draft[t].corrections
    BY <1>3 DEF AddTask, TypeOK, Draft
  <1> QED BY <1>1, <1>2, <1>3

LEMMA StepKeepsIInv ==
    ASSUME IInv, NEW s \in Sessions, Step(s)
    PROVE  IInv'
  <1> USE IInvParts
  <1>1. CASE AcquireWriteLock(s)
    <2>1. UNCHANGED <<links, corrections, keyLock, draft>>
      BY <1>1 DEF AcquireWriteLock, db
    <2> QED BY <1>1, <2>1, AcquireKeepsTypes, QuietKeepsProtected
  <1>2. CASE ReadStatement(s)
    <2>1. UNCHANGED <<links, corrections, keyLock, draft>>
      BY <1>2, ReadStatementEffect DEF db
    <2> QED BY <1>2, <2>1, ReadKeepsTypes, QuietKeepsProtected
  <1>3. CASE AddReadEpisodes(s) \/ FlagMultipleScopes(s) \/ CorrectReadTarget(s)
    BY <1>3, TaskStatementsKeepTypes, TaskStatementsAreQuiet, QuietKeepsProtected
  <1>4. CASE WriteCorrection(s)
    BY <1>4, WriteCorrectionKeepsTypes, WriteCorrectionKeepsProtected
  <1>5. CASE OneCurrentTrigger(s)
    BY <1>5, WriteEpisodeKeepsTypes, WriteEpisodeKeepsProtected
  <1>6. CASE TriggerRaises(s) \/ WinnerRetired(s)
    BY <1>6, RollbackKeepsTypes, RollbackKeepsProtected DEF TriggerRaises, WinnerRetired
  <1>7. CASE NextRow(s)
    <2>1. s \in Backfills /\ UNCHANGED <<links, corrections, keyLock, draft>>
      BY <1>7 DEF NextRow, db
    <2> QED BY <1>7, <2>1, StartKeepsTypes, QuietKeepsProtected
  <1>8. CASE Commit(s)
    BY <1>8, CommitKeepsTypes, CommitKeepsProtected
  <1> QED BY <1>1, <1>2, <1>3, <1>4, <1>5, <1>6, <1>7, <1>8 DEF Step, ReadStatement

LEMMA NextKeepsIInv == IInv /\ [Next]_vars => IInv'
  <1> SUFFICES ASSUME IInv, [Next]_vars PROVE IInv'
    OBVIOUS
  <1> USE IInvParts
  <1>1. ASSUME NEW s \in Humans, NEW c \in Commands, Submit(s, c)
        PROVE  IInv'
    <2>1. UNCHANGED <<links, corrections, keyLock, draft>>
      BY <1>1 DEF Submit, db
    <2> QED BY <1>1, <2>1, SubmitKeepsTypes, QuietKeepsProtected
  <1>2. ASSUME NEW b \in Backfills, StartBackfill(b)
        PROVE  IInv'
    <2>1. UNCHANGED <<links, corrections, keyLock, draft>>
      BY <1>2 DEF StartBackfill, db
    <2> QED BY <1>2, <2>1, StartKeepsTypes, QuietKeepsProtected
  <1>3. ASSUME NEW s \in Sessions, Rollback(s)
        PROVE  IInv'
    BY <1>3, RollbackKeepsTypes, RollbackKeepsProtected
  <1>4. CASE UNCHANGED vars
    <2>1. UNCHANGED <<links, corrections, keyLock, draft>>
      BY <1>4 DEF vars
    <2>2. TypeOK' /\ SessionOK'
      BY <1>4 DEF vars, TypeOK, SessionOK
    <2> QED BY <2>1, <2>2, QuietKeepsProtected
  <1>5. ASSUME NEW b \in Backfills, DeadlockAbort(b)
        PROVE  b \in Sessions /\ Rollback(b)
    BY <1>5 DEF DeadlockAbort, Sessions
  <1>6. ASSUME NEW s \in Sessions, LockTimeout(s) \/ Crash(s)
        PROVE  Rollback(s)
    BY <1>6 DEF LockTimeout, Crash
  <1> QED BY <1>1, <1>2, <1>3, <1>4, <1>5, <1>6, StepKeepsIInv DEF Next

\* The stored tables, and the tables any open transaction would store, always
\* satisfy the inductive invariant.
THEOREM InvariantHolds == Spec => []IInv
  <1>1. Init => IInv
    BY InitIInv
  <1>2. IInv /\ [Next]_vars => IInv'
    BY NextKeepsIInv
  <1> QED BY <1>1, <1>2, PTL DEF Spec

\* Every variable keeps its type, and no session holds a lock or a draft
\* outside its transaction.
THEOREM TypesHold == Spec => []TypeOK
  <1>1. IInv => TypeOK
    BY DEF IInv
  <1> QED BY <1>1, InvariantHolds, PTL

\* However many people and backfills write at once, a relationship business
\* key has at most one current episode.
THEOREM OneCurrentPerKeyHolds == Spec => []OneCurrentPerKey
  <1>1. IInv => OneCurrentPerKey
    BY DEF IInv
  <1> QED BY <1>1, InvariantHolds, PTL

\* No episode is superseded by two corrections.
THEOREM LineageNeverForksHolds == Spec => []LineageNeverForks
  <1>1. IInv => LineageNeverForks
    BY DEF IInv
  <1> QED BY <1>1, InvariantHolds, PTL

-----------------------------------------------------------------------------
(* What the rows say about the Evidence that made them, and what a session *)
(* relies on between a read and its commit: a second invariant, inductive  *)
(* together with IInv.                                                     *)

\* A person's commands, and the ledger row a backfill is at.
PersonAt(s) ==
    pc[s] # "idle" =>
        /\ cmd[s] \in Commands
        /\ pc[s] \in {"read_current", "read_episodes"} => cmd[s].op = "ADD"
        /\ pc[s] = "read_history" => cmd[s].op = "REESTABLISH"
RowAt(b) ==
    pc[b] # "idle" => row[b] \in 1..Len(FileKeys[b]) /\ cmd[b] = RowCommand(b, row[b])
CommandsKnown == (\A s \in Humans : PersonAt(s)) /\ (\A b \in Backfills : RowAt(b))

\* Ids name one episode, written or not.
AllLinks  == links \cup UNION {draft[s].links : s \in Sessions}
IdsUnique == \A l, m \in AllLinks : l.id = m.id => l = m

\* An episode with the Evidence of a correction replaces another relationship's.
ReplacesOther(l) ==
    l.fragment[1] = "correct" =>
        l.fragment[3] = l.key /\ \E m \in links : m.id = l.fragment[2] /\ m.key # l.key

\* What is stored: a row's episode with its file, a correction with the
\* Evidence that names its target, Evidence used once.
CorrectionsRefer ==
    \A c \in corrections :
        /\ c.fragment[1] = "correct" /\ c.fragment[2] = c.superseded
        /\ \E m \in links : m.id = c.superseded
StoredOK ==
    /\ CorrectionsRefer /\ ReplacementNeverOrphaned
    /\ \A l \in links : /\ l.fragment[1] = "row" => l.fragment[2] \in imported
                        /\ ReplacesOther(l)
    /\ \A l, m \in links : l.key = m.key /\ l.fragment = m.fragment => l = m

\* What a backfill has not committed: at most one episode per row it has read.
BackfillOK(b) ==
    /\ b \in imported => pc[b] = "idle"
    /\ \A l \in draft[b].links :
          \E i \in 1..row[b] : l.fragment = RowFragment(b, i)
                               /\ (i = row[b] => pc[b] \in {"flag", "done"})
    /\ \A l, m \in draft[b].links : l.fragment = m.fragment => l = m

\* What a person has not committed: one episode of the command, and the
\* correction it replaces one by.
DraftOK(s) ==
    /\ pc[s] \notin {"write_correction", "flag", "done"} => draft[s].links = {}
    /\ pc[s] = "flag" => cmd[s].op # "CORRECT"
    /\ \A l \in draft[s].links : l.fragment = cmd[s].fragment /\ l.key = cmd[s].key
    /\ \A l, m \in draft[s].links : l = m
    /\ draft[s].corrections # {} => pc[s] = "done"
    /\ \A c \in draft[s].corrections :
          cmd[s].op = "CORRECT" /\ c.superseded = cmd[s].link /\ c.fragment = cmd[s].fragment
    /\ pc[s] = "write_correction" => \A l \in draft[s].links : l.id = repl[s]
    /\ pc[s] = "done" /\ cmd[s].op = "CORRECT" =>
          \A l \in draft[s].links : \E c \in draft[s].corrections : c.replacement = l.id

\* What a person has read and still relies on.  Inserting is the time from the
\* last read to the trigger; a written episode is protected by its key lock.
Inserting(s) == pc[s] \in {"insert", "trigger", "lost"}
Written(s)   == draft[s].links # {}
History(s)   == Episodes(cmd[s].key, links)
FreshEvidence(s) ==
    pc[s] = "read_replacement" \/ Inserting(s) \/ Written(s) =>
        \A l \in History(s) : l.fragment # cmd[s].fragment
AddReliesOn(s) ==
    /\ Inserting(s) => \A l \in History(s) : ~Retired(l, corrections)
    /\ Written(s)   => History(s) = {}
ReestablishReliesOn(s) ==
    /\ Inserting(s) \/ Written(s) => History(s) # {}
    /\ Written(s) => CurrentOf(cmd[s].key, links, corrections) = {}
CorrectReliesOn(s) ==
    /\ pc[s] \in {"read_replacement", "insert", "trigger", "lost", "write_correction"} =>
          /\ \E m \in links : m.id = cmd[s].link
          /\ \A c \in corrections : c.superseded # cmd[s].link
    /\ Inserting(s) \/ Written(s) => \E m \in links : m.id = cmd[s].link /\ m.key # cmd[s].key
    /\ draft[s].corrections # {} => \E m \in links : m.id = cmd[s].link
ReliesOn(s) ==
    /\ FreshEvidence(s)
    /\ cmd[s].op = "ADD" => AddReliesOn(s)
    /\ cmd[s].op = "REESTABLISH" => ReestablishReliesOn(s)
    /\ cmd[s].op = "CORRECT" => CorrectReliesOn(s)

PersonOK(s) == pc[s] # "idle" => DraftOK(s) /\ ReliesOn(s)

\* The inductive strengthening of ReplacementNeverOrphaned, ReplaySafe and
\* HumanIntentHolds, on top of IInv.
EvidenceInv ==
    /\ CommandsKnown /\ IdsUnique /\ StoredOK
    /\ \A b \in Backfills : BackfillOK(b)
    /\ \A s \in Humans : PersonOK(s)

LEMMA CommandShape ==
    ASSUME NEW c \in Commands
    PROVE  /\ c.op \in {"ADD", "CORRECT", "REESTABLISH"}
           /\ c.op = "ADD" => c.fragment = <<"add", None, c.key>>
           /\ c.op = "REESTABLISH" => c.fragment = <<"reestablish", None, c.key>>
           /\ c.op = "CORRECT" => c.fragment = <<"correct", c.link, c.key>>
  BY DEF Commands, AddCommand, CorrectCommand, ReestablishCommand, AddFragment,
         CorrectFragment, ReestablishFragment

LEMMA RowShape ==
    ASSUME CommandsKnown, NEW b \in Backfills, pc[b] # "idle"
    PROVE  cmd[b].op = "ADD" /\ cmd[b].fragment = RowFragment(b, row[b])
  <1>1. cmd[b] = RowCommand(b, row[b])
    BY DEF CommandsKnown, RowAt
  <1>2. RowCommand(b, row[b]).op = "ADD" /\ RowCommand(b, row[b]).fragment = RowFragment(b, row[b])
    BY DEF RowCommand
  <1> QED BY <1>1, <1>2

LEMMA InitEvidence == Init => EvidenceInv
  <1> SUFFICES ASSUME Init PROVE EvidenceInv
    OBVIOUS
  <1>1. \A s \in Sessions : pc[s] = "idle" /\ draft[s].links = {} /\ draft[s].corrections = {}
    BY NoDraftTyped DEF Init
  <1>2. AllLinks = {} /\ links = {} /\ corrections = {} /\ imported = {}
    BY <1>1 DEF AllLinks, Init
  <1>3. CommandsKnown /\ \A b \in Backfills : BackfillOK(b)
    BY <1>1, <1>2 DEF CommandsKnown, PersonAt, RowAt, BackfillOK, Sessions
  <1>4. IdsUnique /\ StoredOK
    BY <1>2 DEF IdsUnique, StoredOK, CorrectionsRefer, ReplacementNeverOrphaned
  <1>5. \A s \in Humans : PersonOK(s)
    BY <1>1 DEF PersonOK, Sessions
  <1> QED BY <1>3, <1>4, <1>5 DEF EvidenceInv

-----------------------------------------------------------------------------
(* Steps that leave what is stored alone.                                  *)

\* Session t is not concerned.
Still(t) ==
    /\ pc'[t] = pc[t] /\ cmd'[t] = cmd[t] /\ row'[t] = row[t] /\ repl'[t] = repl[t]
    /\ draft'[t].links = draft[t].links /\ draft'[t].corrections = draft[t].corrections

LEMMA StillKeepsOK ==
    ASSUME UNCHANGED <<links, corrections, imported>>, NEW t \in Sessions, Still(t)
    PROVE  /\ BackfillOK(t) => BackfillOK(t)'
           /\ PersonOK(t) => PersonOK(t)'
  <1>1. BackfillOK(t) => BackfillOK(t)'
    BY DEF BackfillOK, Still
  <1>2. DraftOK(t) => DraftOK(t)'
    BY DEF DraftOK, Still
  <1>3. FreshEvidence(t) => FreshEvidence(t)'
    BY DEF FreshEvidence, Inserting, Written, History, Episodes, Still
  <1>4. AddReliesOn(t) => AddReliesOn(t)'
    BY DEF AddReliesOn, Inserting, Written, History, Episodes, Retired, Still
  <1>5. ReestablishReliesOn(t) => ReestablishReliesOn(t)'
    BY DEF ReestablishReliesOn, Inserting, Written, History, Episodes, CurrentOf, Retired, Still
  <1>6. CorrectReliesOn(t) => CorrectReliesOn(t)'
    BY DEF CorrectReliesOn, Inserting, Written, Still
  <1>7. cmd'[t] = cmd[t] /\ pc'[t] = pc[t]
    BY DEF Still
  <1> QED BY <1>1, <1>2, <1>3, <1>4, <1>5, <1>6, <1>7 DEF PersonOK, ReliesOn

\* A step of session s that writes nothing into the tables.
LEMMA LocalKeepsEvidence ==
    ASSUME EvidenceInv, UNCHANGED <<links, corrections, imported>>, NEW s \in Sessions,
           \A t \in Sessions \ {s} : Still(t),
           IdsUnique',
           s \in Humans => PersonAt(s)' /\ PersonOK(s)',
           s \in Backfills => RowAt(s)' /\ BackfillOK(s)'
    PROVE  EvidenceInv'
  <1>1. CommandsKnown'
    BY SessionsAssumption DEF EvidenceInv, CommandsKnown, PersonAt, RowAt, Still, Sessions
  <1>2. StoredOK'
    BY DEF EvidenceInv, StoredOK, CorrectionsRefer, ReplacementNeverOrphaned, ReplacesOther
  <1>3. \A b \in Backfills : BackfillOK(b)'
    BY StillKeepsOK DEF EvidenceInv, Sessions
  <1>4. \A t \in Humans : PersonOK(t)'
    BY StillKeepsOK DEF EvidenceInv, Sessions
  <1> QED BY <1>1, <1>2, <1>3, <1>4 DEF EvidenceInv

\* Ids stay unique when no session writes an episode.
LEMMA FewerLinksKeepIds ==
    ASSUME IdsUnique, links' = links,
           \A t \in Sessions : draft'[t].links \subseteq draft[t].links
    PROVE  IdsUnique'
  <1>1. AllLinks' \subseteq AllLinks
    BY DEF AllLinks
  <1> QED BY <1>1 DEF IdsUnique

LEMMA RollbackKeepsEvidence ==
    ASSUME TypeOK, EvidenceInv, NEW s \in Sessions, Rollback(s)
    PROVE  EvidenceInv'
  <1>1. UNCHANGED <<links, corrections, imported>>
    BY DEF Rollback, db
  <1>2. /\ pc'[s] = "idle" /\ draft'[s].links = {} /\ draft'[s].corrections = {}
        /\ \A t \in Sessions \ {s} : Still(t)
    BY NoDraftTyped DEF Rollback, EndTransaction, TypeOK, Still
  <1>3. IdsUnique'
    BY <1>1, <1>2, FewerLinksKeepIds DEF EvidenceInv, Still
  <1>4. PersonAt(s)' /\ PersonOK(s)'
    BY <1>2 DEF PersonAt, PersonOK
  <1>5. RowAt(s)' /\ BackfillOK(s)'
    BY <1>2 DEF RowAt, BackfillOK
  <1> QED BY <1>1, <1>2, <1>3, <1>4, <1>5, LocalKeepsEvidence

LEMMA SubmitKeepsEvidence ==
    ASSUME TypeOK, EvidenceInv, NEW s \in Humans, NEW c \in Commands, Submit(s, c)
    PROVE  EvidenceInv'
  <1>1. /\ UNCHANGED <<links, corrections, imported, draft>>
        /\ pc'[s] = "lock" /\ cmd'[s] = c /\ s \in Sessions
        /\ \A t \in Sessions \ {s} : Still(t)
    BY DEF Submit, db, Goto, TypeOK, Still, Sessions
  <1>2. draft[s] = NoDraft
    BY DEF Submit, TypeOK, Sessions
  <1>3. PersonAt(s)' /\ PersonOK(s)'
    BY <1>1, <1>2, NoDraftTyped DEF PersonAt, PersonOK, DraftOK, ReliesOn, FreshEvidence, AddReliesOn,
       ReestablishReliesOn, CorrectReliesOn, Inserting, Written
  <1>4. IdsUnique'
    BY <1>1, FewerLinksKeepIds DEF EvidenceInv
  <1> QED BY <1>1, <1>3, <1>4, SessionsAssumption, LocalKeepsEvidence

LEMMA RowsKeepEvidence ==
    ASSUME TypeOK, EvidenceInv, NEW b \in Backfills, StartBackfill(b) \/ NextRow(b)
    PROVE  EvidenceInv'
  <1>1. /\ UNCHANGED <<links, corrections, imported, draft>>
        /\ pc'[b] = "read_current" /\ b \in Sessions
        /\ \A t \in Sessions \ {b} : Still(t)
    BY DEF StartBackfill, NextRow, db, Goto, TypeOK, Still, Sessions
  <1>2. row[b] \in Nat /\ Len(FileKeys[b]) \in Nat
    BY FileKeysAssumption DEF TypeOK, Sessions
  <1>3. /\ row'[b] \in 1..Len(FileKeys[b]) /\ cmd'[b] = RowCommand(b, row'[b])
        /\ b \notin imported
        /\ \A l \in draft[b].links : \E i \in 1..(row'[b] - 1) : l.fragment = RowFragment(b, i)
    <2>1. CASE StartBackfill(b)
      <3>1. draft[b].links = {}
        BY <2>1, NoDraftTyped DEF StartBackfill, TypeOK, Sessions
      <3> QED BY <1>2, <2>1, <3>1 DEF StartBackfill, TypeOK, Sessions
    <2>2. CASE NextRow(b)
      <3>1. row'[b] = row[b] + 1 /\ cmd'[b] = RowCommand(b, row'[b]) /\ pc[b] = "done"
        BY <2>2 DEF NextRow, TypeOK, Sessions
      <3>2. BackfillOK(b)
        BY DEF EvidenceInv
      <3> QED BY <1>2, <2>2, <3>1, <3>2 DEF BackfillOK, NextRow
    <2> QED BY <2>1, <2>2
  <1>4. RowAt(b)' /\ BackfillOK(b)'
    BY <1>1, <1>2, <1>3 DEF RowAt, EvidenceInv, BackfillOK, RowFragment
  <1>5. IdsUnique'
    BY <1>1, FewerLinksKeepIds DEF EvidenceInv
  <1> QED BY <1>1, <1>3, <1>4, <1>5, SessionsAssumption, LocalKeepsEvidence

-----------------------------------------------------------------------------
(* What the statements read.                                               *)

\* A person past the lock is the only one; before writing, what they see is
\* what is stored.
LEMMA PersonSees ==
    ASSUME TypeOK, EvidenceInv, NEW s \in Humans, pc[s] # "idle",
           pc[s] \notin {"write_correction", "flag", "done"}
    PROVE  /\ SeenLinks(s) = links /\ SeenCorrections(s) = corrections
           /\ draft[s].links = {} /\ draft[s].corrections = {}
  <1>1. DraftOK(s)
    BY DEF EvidenceInv, PersonOK
  <1> QED BY <1>1 DEF DraftOK, SeenLinks, SeenCorrections

LEMMA AcquireKeepsEvidence ==
    ASSUME TypeOK, SessionOK, EvidenceInv, NEW s \in Sessions, AcquireWriteLock(s)
    PROVE  EvidenceInv'
  <1>1. /\ UNCHANGED <<links, corrections, imported, draft, cmd>>
        /\ pc'[s] = FirstStatement[cmd[s].op]
        /\ \A t \in Sessions \ {s} : Still(t)
    BY DEF AcquireWriteLock, db, Goto, TypeOK, Still
  <1>2. s \in Humans /\ pc[s] = "lock"
    BY DEF AcquireWriteLock, SessionOK, Sessions
  <1>3. draft[s].links = {} /\ draft[s].corrections = {} /\ cmd[s] \in Commands
    BY <1>2, PersonSees DEF EvidenceInv, CommandsKnown, PersonAt
  <1>6. /\ pc'[s] \in {"read_current", "read_target", "read_history"}
        /\ PersonAt(s)'
    BY <1>1, <1>3, CommandShape DEF FirstStatement, PersonAt
  <1>4. PersonOK(s)'
    BY <1>1, <1>3, <1>6 DEF PersonOK, DraftOK, ReliesOn, FreshEvidence, AddReliesOn,
       ReestablishReliesOn, CorrectReliesOn, Inserting, Written
  <1>5. IdsUnique'
    BY <1>1, FewerLinksKeepIds DEF EvidenceInv
  <1> QED BY <1>1, <1>2, <1>4, <1>5, <1>6, SessionsAssumption, LocalKeepsEvidence

\* A backfill only reads on.
LEMMA BackfillReadsOn ==
    ASSUME TypeOK, SessionOK, EvidenceInv, NEW b \in Backfills, b \in Sessions,
           pc[b] \notin {"idle", "flag", "done"}, pc'[b] # "idle",
           UNCHANGED <<links, corrections, imported, cmd, row>>,
           \A t \in Sessions : draft'[t].links = draft[t].links,
           \A t \in Sessions \ {b} : Still(t)
    PROVE  EvidenceInv'
  <1>1. BackfillOK(b)' /\ RowAt(b)'
    BY DEF EvidenceInv, CommandsKnown, BackfillOK, RowAt
  <1>2. IdsUnique'
    BY FewerLinksKeepIds DEF EvidenceInv
  <1>3. b \notin Humans
    BY SessionsAssumption
  <1> QED BY <1>1, <1>2, <1>3, LocalKeepsEvidence

\* A person reads on, and relies on what was read.
LEMMA PersonReadsOn ==
    ASSUME TypeOK, EvidenceInv, NEW s \in Humans, s \in Sessions,
           pc[s] \notin {"idle", "write_correction", "flag", "done"},
           pc'[s] \notin {"idle", "flag"}, PersonAt(s)',
           UNCHANGED <<links, corrections, imported, cmd>>,
           \A t \in Sessions : /\ draft'[t].links = draft[t].links
                                /\ draft'[t].corrections = draft[t].corrections,
           \A t \in Sessions \ {s} : Still(t),
           pc'[s] \in {"read_replacement", "insert", "trigger", "lost"} =>
               \A l \in History(s) : l.fragment # cmd[s].fragment,
           pc'[s] \in {"insert", "trigger", "lost"} =>
               /\ cmd[s].op = "ADD" => \A l \in History(s) : ~Retired(l, corrections)
               /\ cmd[s].op = "REESTABLISH" => History(s) # {}
               /\ cmd[s].op = "CORRECT" => \E m \in links : m.id = cmd[s].link /\ m.key # cmd[s].key,
           (/\ pc'[s] \in {"read_replacement", "insert", "trigger", "lost", "write_correction"}
            /\ cmd[s].op = "CORRECT") =>
               /\ \E m \in links : m.id = cmd[s].link
               /\ \A c \in corrections : c.superseded # cmd[s].link
    PROVE  EvidenceInv'
  <1>1. draft[s].links = {} /\ draft[s].corrections = {} /\ cmd[s] \in Commands
    BY PersonSees DEF EvidenceInv, CommandsKnown, PersonAt
  <1>2. draft'[s].links = {} /\ draft'[s].corrections = {} /\ cmd'[s] = cmd[s]
    BY <1>1
  <1>3. History(s)' = History(s)
    BY DEF History, Episodes
  <1>4. DraftOK(s)'
    BY <1>2 DEF DraftOK
  <1>5. FreshEvidence(s)'
    BY <1>2, <1>3 DEF FreshEvidence, Inserting, Written
  <1>6. cmd[s].op = "ADD" => AddReliesOn(s)'
    BY <1>2, <1>3 DEF AddReliesOn, Inserting, Written, Retired
  <1>7. cmd[s].op = "REESTABLISH" => ReestablishReliesOn(s)'
    BY <1>2, <1>3 DEF ReestablishReliesOn, Inserting, Written
  <1>8. cmd[s].op = "CORRECT" => CorrectReliesOn(s)'
    BY <1>2 DEF CorrectReliesOn, Inserting, Written
  <1>9. PersonOK(s)'
    BY <1>2, <1>4, <1>5, <1>6, <1>7, <1>8 DEF PersonOK, ReliesOn
  <1>10. IdsUnique'
    BY FewerLinksKeepIds DEF EvidenceInv
  <1> QED BY <1>1, <1>2, <1>9, <1>10, SessionsAssumption, LocalKeepsEvidence

ReadsOn(s) == ReadStatement(s) \/ AddReadEpisodes(s) \/ CorrectReadTarget(s)

LEMMA ReadsOnEffect ==
    ASSUME TypeOK, SessionOK, NEW s \in Sessions, ReadsOn(s)
    PROVE  /\ UNCHANGED <<links, corrections, imported, cmd, row>>
           /\ pc[s] \notin {"idle", "lock", "write_correction", "flag", "done"}
           /\ pc'[s] \notin {"idle", "lock", "flag"}
           /\ \A t \in Sessions : /\ draft'[t].links = draft[t].links
                                  /\ draft'[t].corrections = draft[t].corrections
           /\ \A t \in Sessions \ {s} : Still(t)
  <1>1. UNCHANGED <<links, corrections, imported, cmd, row>>
    BY DEF ReadsOn, ReadStatement, AddReadCurrent, CorrectReadReplacement, ReestablishReadHistory,
           InsertStatement, LostRace, AddReadEpisodes, CorrectReadTarget, db
  <1>2. pc[s] \notin {"idle", "lock", "write_correction", "flag", "done"}
    BY DEF ReadsOn, ReadStatement, AddReadCurrent, CorrectReadReplacement, ReestablishReadHistory,
           InsertStatement, LostRace, AddReadEpisodes, CorrectReadTarget
  <1>3. \E label \in Labels \ {"idle", "lock", "flag"} : pc' = [pc EXCEPT ![s] = label]
    <2>1. CASE ReadStatement(s)
      BY <2>1, ReadStatementEffect DEF Labels
    <2>2. CASE AddReadEpisodes(s)
      BY <2>2 DEF AddReadEpisodes, Goto, Labels
    <2>3. CASE CorrectReadTarget(s)
      BY <2>3 DEF CorrectReadTarget, Goto, Labels
    <2> QED BY <2>1, <2>2, <2>3 DEF ReadsOn
  <1>4. \A t \in Sessions : /\ draft'[t].links = draft[t].links
                            /\ draft'[t].corrections = draft[t].corrections
    BY TaskStatementsAreQuiet, ReadStatementEffect DEF ReadsOn
  <1>5. \A t \in Sessions \ {s} : repl'[t] = repl[t]
    BY DEF ReadsOn, ReadStatement, AddReadCurrent, CorrectReadReplacement, ReestablishReadHistory,
           InsertStatement, LostRace, AddReadEpisodes, CorrectReadTarget, TypeOK
  <1>6. \A t \in Sessions \ {s} : Still(t)
    BY <1>1, <1>3, <1>4, <1>5 DEF Still, TypeOK
  <1>7. pc'[s] \notin {"idle", "lock", "flag"}
    BY <1>3 DEF TypeOK
  <1> QED BY <1>1, <1>2, <1>4, <1>6, <1>7

\* What a person relies on after each of these statements.
LEMMA PersonReads ==
    ASSUME TypeOK, SessionOK, EvidenceInv, NEW s \in Humans, s \in Sessions, ReadsOn(s)
    PROVE  EvidenceInv'
  <1>1. /\ pc[s] \notin {"idle", "lock", "write_correction", "flag", "done"}
        /\ pc'[s] \notin {"idle", "flag"}
        /\ UNCHANGED <<links, corrections, imported, cmd>>
    BY ReadsOnEffect
  <1>2. /\ SeenLinks(s) = links /\ SeenCorrections(s) = corrections
        /\ cmd[s] \in Commands /\ ReliesOn(s)
    BY <1>1, PersonSees DEF EvidenceInv, CommandsKnown, PersonAt, PersonOK
  <1>3. SeenEpisodes(s) = History(s)
    BY <1>2 DEF SeenEpisodes, History
  <1>4. SeenCurrent(s) = {l \in History(s) : ~Retired(l, corrections)}
    BY <1>2 DEF SeenCurrent, CurrentOf, History
  <1> DEFINE
        Fresh == pc'[s] \in {"read_replacement", "insert", "trigger", "lost"} =>
                     \A l \in History(s) : l.fragment # cmd[s].fragment
        Base  == pc'[s] \in {"insert", "trigger", "lost"} =>
                     /\ cmd[s].op = "ADD" => \A l \in History(s) : ~Retired(l, corrections)
                     /\ cmd[s].op = "REESTABLISH" => History(s) # {}
                     /\ cmd[s].op = "CORRECT" => \E m \in links : m.id = cmd[s].link /\ m.key # cmd[s].key
        Target == (/\ pc'[s] \in {"read_replacement", "insert", "trigger", "lost", "write_correction"}
                   /\ cmd[s].op = "CORRECT") =>
                      /\ \E m \in links : m.id = cmd[s].link
                      /\ \A c \in corrections : c.superseded # cmd[s].link
  <1>5. SUFFICES PersonAt(s)' /\ Fresh /\ Base /\ Target
    BY <1>1, ReadsOnEffect, PersonReadsOn
  <1>12. PersonAt(s)
    BY DEF EvidenceInv, CommandsKnown
  <1>13. pc'[s] \in {"insert", "trigger", "lost", "done", "write_correction", "read_replacement"} =>
            PersonAt(s)'
    BY <1>1, <1>2 DEF PersonAt
  <1>6. CASE AddReadCurrent(s)
    BY <1>1, <1>6, <1>12, <1>13 DEF AddReadCurrent, Goto, TypeOK, PersonAt
  <1>7. CASE AddReadEpisodes(s)
    <2>1. cmd[s].op = "ADD" /\ pc'[s] \in {"insert", "done"} /\ (pc'[s] = "insert" => History(s) = {})
      BY <1>3, <1>7, <1>12 DEF AddReadEpisodes, Goto, TypeOK, PersonAt
    <2> QED BY <1>13, <2>1
  <1>8. CASE CorrectReadTarget(s)
    <2>1. /\ pc'[s] \in {"done", "write_correction", "read_replacement"}
          /\ pc'[s] # "done" => /\ \E m \in links : m.id = cmd[s].link
                                /\ \A c \in corrections : c.superseded # cmd[s].link
      <3> DEFINE target   == {l \in SeenLinks(s) : l.id = cmd[s].link}
                 existing == {c \in SeenCorrections(s) : c.superseded = cmd[s].link}
      <3>1. pc'[s] = IF target = {} \/ existing # {} THEN "done"
                     ELSE IF cmd[s].key = None THEN "write_correction"
                     ELSE "read_replacement"
        BY <1>8 DEF CorrectReadTarget, Goto, TypeOK
      <3> QED BY <1>2, <3>1
    <2>2. cmd[s].op = "CORRECT" /\ cmd[s].fragment = <<"correct", cmd[s].link, cmd[s].key>>
      BY <1>2, <1>8, CommandShape DEF CorrectReadTarget, SessionOK
    <2>3. ASSUME NEW l \in links, l.fragment = cmd[s].fragment, pc'[s] # "done"
          PROVE  FALSE
      <3>1. l.fragment[1] = "correct" /\ l.fragment[2] = cmd[s].link
        BY <2>2, <2>3
      <3>2. \E c \in corrections : c.fragment = l.fragment /\ c.fragment[2] = c.superseded
        BY <3>1 DEF EvidenceInv, StoredOK, ReplacementNeverOrphaned, CorrectionsRefer
      <3> QED BY <2>1, <2>3, <3>1, <3>2
    <2> QED BY <1>13, <2>1, <2>3 DEF History, Episodes
  <1>9. CASE CorrectReadReplacement(s)
    <2>1. cmd[s].op = "CORRECT" /\ pc[s] = "read_replacement"
      BY <1>9 DEF CorrectReadReplacement, SessionOK
    <2>2. pc'[s] \in {"insert", "write_correction"} /\ (pc'[s] = "insert" => SeenCurrent(s) = {})
      BY <1>9 DEF CorrectReadReplacement, Goto, TypeOK
    <2>3. PICK m \in links : m.id = cmd[s].link
      BY <1>2, <2>1 DEF ReliesOn, CorrectReliesOn
    <2>4. \A c \in corrections : c.superseded # cmd[s].link
      BY <1>2, <2>1 DEF ReliesOn, CorrectReliesOn
    <2>5. m.key = cmd[s].key => m \in SeenCurrent(s)
      BY <1>4, <2>3, <2>4 DEF History, Episodes, Retired
    <2> QED BY <1>2, <1>13, <2>1, <2>2, <2>3, <2>4, <2>5 DEF ReliesOn, FreshEvidence
  <1>10. CASE ReestablishReadHistory(s)
    <2>1. /\ pc'[s] \in {"insert", "done"}
          /\ pc'[s] = "insert" =>
                /\ SeenEpisodes(s) # {}
                /\ cmd[s].fragment \notin HistoricalFragments(cmd[s].key, SeenLinks(s), SeenCorrections(s))
      BY <1>10 DEF ReestablishReadHistory, Goto, TypeOK
    <2>2. \A l \in History(s) : l.fragment \in HistoricalFragments(cmd[s].key, SeenLinks(s), SeenCorrections(s))
      BY <1>2 DEF History, HistoricalFragments
    <2>3. cmd[s].op = "REESTABLISH"
      BY <1>10, <1>12 DEF ReestablishReadHistory, PersonAt
    <2> QED BY <1>3, <1>13, <2>1, <2>2, <2>3
  <1>11. CASE InsertStatement(s) \/ LostRace(s)
    <2>1. pc'[s] \in {"trigger", "lost", "done", "write_correction"} /\ Inserting(s)
      BY <1>11 DEF InsertStatement, LostRace, Goto, TypeOK, Inserting
    <2>2. cmd[s].op \in {"ADD", "CORRECT", "REESTABLISH"}
      BY <1>2, CommandShape
    <2> QED BY <1>2, <1>13, <2>1, <2>2 DEF ReliesOn, FreshEvidence, AddReliesOn, ReestablishReliesOn,
               CorrectReliesOn, Inserting
  <1> QED BY <1>6, <1>7, <1>8, <1>9, <1>10, <1>11 DEF ReadsOn, ReadStatement

LEMMA ReadsOnKeepsEvidence ==
    ASSUME TypeOK, SessionOK, EvidenceInv, NEW s \in Sessions, ReadsOn(s)
    PROVE  EvidenceInv'
  <1>1. CASE s \in Humans
    BY <1>1, PersonReads
  <1>2. CASE s \in Backfills
    BY <1>2, ReadsOnEffect, BackfillReadsOn
  <1> QED BY <1>1, <1>2 DEF Sessions

-----------------------------------------------------------------------------
(* What the statements write.                                              *)

LEMMA FlagKeepsEvidence ==
    ASSUME TypeOK, SessionOK, EvidenceInv, NEW s \in Sessions, FlagMultipleScopes(s)
    PROVE  EvidenceInv'
  <1>1. /\ UNCHANGED <<links, corrections, imported, cmd, row, repl>>
        /\ pc[s] = "flag" /\ pc'[s] = "done"
        /\ \A t \in Sessions : /\ draft'[t].links = draft[t].links
                               /\ draft'[t].corrections = draft[t].corrections
        /\ \A t \in Sessions \ {s} : Still(t)
    BY TaskStatementsAreQuiet DEF FlagMultipleScopes, Goto, db, TypeOK, Still
  <1>2. ASSUME s \in Humans
        PROVE  PersonAt(s)' /\ PersonOK(s)'
    <2>1. PersonAt(s) /\ DraftOK(s) /\ ReliesOn(s)
      BY <1>1, <1>2 DEF EvidenceInv, CommandsKnown, PersonOK
    <2>2. PersonAt(s)'
      BY <1>1, <2>1 DEF PersonAt
    <2>3. cmd[s].op # "CORRECT" /\ DraftOK(s)'
      BY <1>1, <2>1 DEF DraftOK
    <2>4. FreshEvidence(s)'
      BY <1>1, <2>1 DEF ReliesOn, FreshEvidence, Inserting, Written, History, Episodes
    <2>5. cmd[s].op = "ADD" => AddReliesOn(s)'
      BY <1>1, <2>1 DEF ReliesOn, AddReliesOn, Inserting, Written, History, Episodes
    <2>6. cmd[s].op = "REESTABLISH" => ReestablishReliesOn(s)'
      BY <1>1, <2>1 DEF ReliesOn, ReestablishReliesOn, Inserting, Written, History, Episodes,
                        CurrentOf, Retired
    <2> QED BY <1>1, <2>2, <2>3, <2>4, <2>5, <2>6 DEF PersonOK, ReliesOn
  <1>3. ASSUME s \in Backfills
        PROVE  RowAt(s)' /\ BackfillOK(s)'
    BY <1>1, <1>3 DEF EvidenceInv, CommandsKnown, RowAt, BackfillOK
  <1>4. IdsUnique'
    BY <1>1, FewerLinksKeepIds DEF EvidenceInv
  <1> QED BY <1>1, <1>2, <1>3, <1>4, LocalKeepsEvidence

\* The correction is written, or the replacement episode is taken back.
LEMMA WriteCorrectionKeepsEvidence ==
    ASSUME TypeOK, SessionOK, EvidenceInv, NEW s \in Sessions, WriteCorrection(s)
    PROVE  EvidenceInv'
  <1>1. /\ s \in Humans /\ pc[s] = "write_correction" /\ cmd[s].op = "CORRECT"
        /\ UNCHANGED <<links, corrections, imported, cmd, row, repl>>
        /\ pc'[s] = "done" /\ \A t \in Sessions \ {s} : pc'[t] = pc[t]
    <2>1. pc[s] = "write_correction"
      BY DEF WriteCorrection
    <2>2. cmd[s].op = "CORRECT"
      BY <2>1 DEF SessionOK
    <2>3. pc' = [pc EXCEPT ![s] = "done"]
      BY WriteCorrectionEffect
    <2>4. pc'[s] = "done" /\ \A t \in Sessions \ {s} : pc'[t] = pc[t]
      BY <2>3 DEF TypeOK
    <2> QED BY <2>1, <2>2, <2>4, WriteCorrectionEffect DEF db
  <1>2. PersonAt(s) /\ DraftOK(s) /\ ReliesOn(s) /\ draft[s].corrections = {}
    BY <1>1 DEF EvidenceInv, CommandsKnown, PersonOK, DraftOK
  <1> DEFINE r == Correction(cmd[s], repl[s])
  <1>3. /\ \A t \in Sessions \ {s} : draft'[t] = draft[t]
        /\ \/ draft'[s].links = {} /\ draft'[s].corrections = {}
           \/ draft'[s].links = draft[s].links /\ draft'[s].corrections = {r}
    <2>1. CASE \E c \in SeenCorrections(s) : c.superseded = cmd[s].link
      BY <1>2, <2>1 DEF WriteCorrection, TypeOK, Draft
    <2>2. CASE ~ \E c \in SeenCorrections(s) : c.superseded = cmd[s].link
      BY <1>2, <2>2 DEF WriteCorrection, TypeOK, Draft
    <2> QED BY <2>1, <2>2
  <1>4. r.superseded = cmd[s].link /\ r.fragment = cmd[s].fragment /\ r.replacement = repl[s]
    BY DEF Correction
  <1>5. \A t \in Sessions \ {s} : Still(t)
    BY <1>1, <1>3 DEF Still
  <1>6. PersonAt(s)'
    BY <1>1, <1>2 DEF PersonAt
  <1> HIDE DEF r
  <1>7. DraftOK(s)'
    BY <1>1, <1>2, <1>3, <1>4 DEF DraftOK
  <1>8. FreshEvidence(s)'
    BY <1>1, <1>2, <1>3 DEF ReliesOn, FreshEvidence, Inserting, Written, History, Episodes
  <1>9. CorrectReliesOn(s)'
    BY <1>1, <1>2, <1>3 DEF ReliesOn, CorrectReliesOn, Inserting, Written
  <1>10. IdsUnique'
    <2>1. \A t \in Sessions : draft'[t].links \subseteq draft[t].links
      BY <1>3
    <2> QED BY <1>1, <2>1, FewerLinksKeepIds DEF EvidenceInv
  <1>11. PersonOK(s)'
    BY <1>1, <1>7, <1>8, <1>9 DEF PersonOK, ReliesOn
  <1> QED BY <1>1, <1>5, <1>6, <1>10, <1>11, SessionsAssumption, LocalKeepsEvidence

\* The episode has an id of its own.
LEMMA NewIdKeepsIds ==
    ASSUME IdsUnique, links' = links, NEW s \in Sessions, NEW new, new.id \notin UsedIds,
           draft'[s].links = draft[s].links \cup {new},
           \A t \in Sessions \ {s} : draft'[t].links = draft[t].links
    PROVE  IdsUnique'
  <1>1. AllLinks' \subseteq AllLinks \cup {new}
    BY DEF AllLinks
  <1>2. \A l \in AllLinks : l.id \in UsedIds
    BY DEF AllLinks, UsedIds
  <1> QED BY <1>1, <1>2 DEF IdsUnique

LEMMA WriteEpisodeKeepsEvidence ==
    ASSUME TypeOK, SessionOK, EvidenceInv, NEW s \in Sessions, OneCurrentTrigger(s)
    PROVE  EvidenceInv'
  <1>1. PICK id \in LinkIds \ UsedIds : WriteEpisode(s, id)
    BY DEF OneCurrentTrigger
  <1> DEFINE new == Link(id, cmd[s])
  <1>2. new.id = id /\ new.fragment = cmd[s].fragment /\ new.key = cmd[s].key
    BY DEF Link
  <1> HIDE DEF new
  <1>3. /\ draft'[s].links = draft[s].links \cup {new}
        /\ draft'[s].corrections = draft[s].corrections
        /\ \A t \in Sessions \ {s} : draft'[t] = draft[t]
    BY <1>1 DEF WriteEpisode, TypeOK, Draft, new
  <1>4. /\ UNCHANGED <<links, corrections, imported, cmd, row>>
        /\ pc[s] = "trigger"
        /\ pc'[s] = IF cmd[s].op = "CORRECT" THEN "write_correction" ELSE "flag"
        /\ repl'[s] = id
        /\ \A t \in Sessions \ {s} : pc'[t] = pc[t] /\ repl'[t] = repl[t]
    BY <1>1 DEF OneCurrentTrigger, WriteEpisode, Goto, db, TypeOK
  <1>5. \A t \in Sessions \ {s} : Still(t)
    BY <1>3, <1>4 DEF Still
  <1>6. IdsUnique'
    <2>1. new.id \notin UsedIds
      BY <1>2
    <2> QED BY <1>3, <1>4, <2>1, NewIdKeepsIds DEF EvidenceInv
  <1>7. ASSUME s \in Humans
        PROVE  PersonAt(s)' /\ PersonOK(s)'
    <2>1. PersonAt(s) /\ DraftOK(s) /\ ReliesOn(s) /\ Inserting(s)
      BY <1>4, <1>7 DEF EvidenceInv, CommandsKnown, PersonOK, Inserting
    <2>2. PersonAt(s)'
      BY <1>4, <2>1 DEF PersonAt
    <2>3. /\ draft[s].links = {} /\ draft[s].corrections = {} /\ SeenCurrent(s) = {}
          /\ SeenLinks(s) = links /\ SeenCorrections(s) = corrections
      BY <1>4, <1>7, PersonSees DEF OneCurrentTrigger
    <2>4. DraftOK(s)'
      BY <1>2, <1>3, <1>4, <2>3 DEF DraftOK
    <2>5. CurrentOf(cmd[s].key, links, corrections) = {}
      BY <2>3 DEF SeenCurrent
    <2>6. FreshEvidence(s)'
      BY <1>4, <2>1 DEF ReliesOn, FreshEvidence, History, Episodes
    <2>7. cmd[s].op = "ADD" => AddReliesOn(s)'
      <3>1. cmd[s].op = "ADD" => History(s) = {}
        BY <2>1, <2>5 DEF ReliesOn, AddReliesOn, CurrentOf, History
      <3> QED BY <1>4, <3>1 DEF AddReliesOn, Inserting, History, Episodes
    <2>8. cmd[s].op = "REESTABLISH" => ReestablishReliesOn(s)'
      BY <1>4, <2>1, <2>5 DEF ReliesOn, ReestablishReliesOn, History, Episodes, CurrentOf, Retired
    <2>9. cmd[s].op = "CORRECT" => CorrectReliesOn(s)'
      BY <1>3, <1>4, <2>1, <2>3 DEF ReliesOn, CorrectReliesOn, Inserting
    <2> QED BY <1>4, <2>2, <2>4, <2>6, <2>7, <2>8, <2>9 DEF PersonOK, ReliesOn
  <1>8. ASSUME s \in Backfills
        PROVE  RowAt(s)' /\ BackfillOK(s)'
    <2>1. RowAt(s) /\ BackfillOK(s) /\ cmd[s].op = "ADD"
      BY <1>4, <1>8, RowShape DEF EvidenceInv, CommandsKnown
    <2>2. RowAt(s)' /\ row[s] \in 1..row[s]
      BY <1>4, <2>1, FileKeysAssumption, <1>8 DEF RowAt
    <2>3. new.fragment = RowFragment(s, row[s])
      BY <1>2, <1>4, <1>8, RowShape DEF EvidenceInv
    <2>4. \A l \in draft[s].links : l.fragment # new.fragment
      BY <1>4, <2>1, <2>3 DEF BackfillOK, RowFragment
    <2> QED BY <1>3, <1>4, <2>1, <2>2, <2>3, <2>4 DEF BackfillOK
  <1> QED BY <1>4, <1>5, <1>6, <1>7, <1>8, LocalKeepsEvidence

-----------------------------------------------------------------------------
(* What a commit publishes.                                                *)

\* The episodes of a person's transaction, and those of a backfill.
LEMMA PersonPublishes ==
    ASSUME EvidenceInv, NEW s \in Humans, pc[s] = "done", NEW l \in draft[s].links
    PROVE  /\ cmd[s] \in Commands /\ DraftOK(s) /\ ReliesOn(s) /\ Written(s)
           /\ l.fragment = cmd[s].fragment /\ l.key = cmd[s].key
           /\ l.fragment[1] # "row"
           /\ l.fragment[1] = "add" => cmd[s].op = "ADD"
           /\ l.fragment[1] = "reestablish" => cmd[s].op = "REESTABLISH"
           /\ l.fragment[1] = "correct" => cmd[s].op = "CORRECT"
  <1>1. cmd[s] \in Commands /\ DraftOK(s) /\ ReliesOn(s)
    BY DEF EvidenceInv, CommandsKnown, PersonAt, PersonOK
  <1>2. Written(s) /\ l.fragment = cmd[s].fragment /\ l.key = cmd[s].key
    BY <1>1 DEF DraftOK, Written
  <1> QED BY <1>1, <1>2, CommandShape

LEMMA BackfillPublishes ==
    ASSUME EvidenceInv, NEW b \in Backfills, NEW l \in draft[b].links
    PROVE  l.fragment[1] = "row" /\ l.fragment[2] = b
  BY DEF EvidenceInv, BackfillOK, RowFragment

LEMMA CommitEffect ==
    ASSUME TypeOK, SessionOK, NEW s \in Sessions, Commit(s)
    PROVE  /\ links' = links \cup draft[s].links
           /\ corrections' = corrections \cup draft[s].corrections
           /\ imported' = imported \cup ({s} \cap Backfills)
           /\ pc[s] = "done" /\ pc'[s] = "idle"
           /\ draft'[s].links = {} /\ draft'[s].corrections = {}
           /\ \A t \in Sessions \ {s} : Still(t)
  BY NoDraftTyped DEF Commit, EndTransaction, TypeOK, Still

LEMMA CommitStoresOK ==
    ASSUME TypeOK, SessionOK, EvidenceInv, NEW s \in Sessions, Commit(s)
    PROVE  StoredOK'
  <1> USE CommitEffect
  <1>1. StoredOK
    BY DEF EvidenceInv
  <1>2. CorrectionsRefer'
    <2>1. ASSUME NEW c \in draft[s].corrections
          PROVE  /\ c.fragment[1] = "correct" /\ c.fragment[2] = c.superseded
                 /\ \E m \in links : m.id = c.superseded
      <3>1. s \in Humans
        BY <2>1 DEF SessionOK, Sessions
      <3>2. /\ cmd[s] \in Commands /\ cmd[s].op = "CORRECT" /\ c.superseded = cmd[s].link
            /\ c.fragment = cmd[s].fragment /\ \E m \in links : m.id = cmd[s].link
        BY <2>1, <3>1 DEF EvidenceInv, CommandsKnown, PersonAt, PersonOK, DraftOK, ReliesOn, CorrectReliesOn
      <3> QED BY <3>2, CommandShape
    <2> QED BY <1>1, <2>1 DEF StoredOK, CorrectionsRefer
  <1>3. ReplacementNeverOrphaned'
    <2>1. ASSUME NEW l \in draft[s].links, l.fragment[1] = "correct"
          PROVE  \E c \in draft[s].corrections : c.fragment = l.fragment /\ c.replacement = l.id
      <3>1. s \in Humans
        BY <2>1, BackfillPublishes DEF Sessions
      <3>2. cmd[s].op = "CORRECT" /\ l.fragment = cmd[s].fragment /\ DraftOK(s)
        BY <2>1, <3>1, PersonPublishes
      <3> QED BY <3>2 DEF DraftOK
    <2> QED BY <1>1, <2>1 DEF StoredOK, ReplacementNeverOrphaned
  <1>4. ASSUME NEW l \in draft[s].links
        PROVE  (l.fragment[1] = "row" => l.fragment[2] \in imported') /\ ReplacesOther(l)
    <2>1. CASE s \in Backfills
      BY <2>1, BackfillPublishes DEF ReplacesOther
    <2>2. CASE s \in Humans
      <3>1. /\ l.fragment = cmd[s].fragment /\ l.key = cmd[s].key /\ l.fragment[1] # "row"
            /\ cmd[s] \in Commands /\ Written(s) /\ ReliesOn(s)
            /\ l.fragment[1] = "correct" => cmd[s].op = "CORRECT"
        BY <2>2, PersonPublishes
      <3>2. cmd[s].op = "CORRECT" => \E m \in links : m.id = cmd[s].link /\ m.key # cmd[s].key
        BY <3>1 DEF ReliesOn, CorrectReliesOn
      <3> QED BY <3>1, <3>2, CommandShape DEF ReplacesOther
    <2> QED BY <2>1, <2>2 DEF Sessions
  <1>5. \A l \in links : (l.fragment[1] = "row" => l.fragment[2] \in imported) /\ ReplacesOther(l)
    BY <1>1 DEF StoredOK
  <1>6. \A l : ReplacesOther(l) => ReplacesOther(l)'
    BY DEF ReplacesOther
  <1>7. ASSUME NEW l \in draft[s].links, NEW m \in links', l.key = m.key, l.fragment = m.fragment
        PROVE  l = m
    <2>1. CASE s \in Backfills
      <3>1. l.fragment[1] = "row" /\ l.fragment[2] = s
        BY <2>1, BackfillPublishes
      <3>2. s \notin imported
        BY <2>1 DEF EvidenceInv, BackfillOK
      <3>3. m \notin links
        BY <1>5, <1>7, <3>1, <3>2
      <3> QED BY <1>7, <2>1, <3>3 DEF EvidenceInv, BackfillOK
    <2>2. CASE s \in Humans
      <3>1. l.fragment = cmd[s].fragment /\ l.key = cmd[s].key /\ Written(s) /\ ReliesOn(s) /\ DraftOK(s)
        BY <2>2, PersonPublishes
      <3>2. m \notin links
        BY <1>7, <3>1 DEF ReliesOn, FreshEvidence, History, Episodes
      <3> QED BY <1>7, <3>1, <3>2 DEF DraftOK
    <2> QED BY <2>1, <2>2 DEF Sessions
  <1>8. \A l, m \in links' : l.key = m.key /\ l.fragment = m.fragment => l = m
    BY <1>1, <1>7 DEF StoredOK
  <1>9. \A l \in links' : (l.fragment[1] = "row" => l.fragment[2] \in imported') /\ ReplacesOther(l)'
    BY <1>4, <1>5, <1>6
  <1> QED BY <1>2, <1>3, <1>8, <1>9 DEF StoredOK

\* What another session commits while a person is past the lock: a backfill's
\* episodes, of keys this person has not written, none of them retired.
LEMMA OthersPublish ==
    ASSUME IInv, EvidenceInv, NEW s \in Sessions, Commit(s), NEW t \in Humans, t # s,
           pc[t] \notin {"idle", "lock"}
    PROVE  /\ corrections' = corrections
           /\ \A l \in draft[s].links : /\ l.fragment # cmd[t].fragment
                                        /\ Written(t) => l.key # cmd[t].key
                                        /\ l \in links \/ ~Retired(l, corrections)
  <1>1. TypeOK /\ SessionOK /\ t \in Sessions
    BY DEF IInv, Sessions
  <1>2. s \in Backfills
    BY <1>1, CommitEffect DEF SessionOK, Sessions
  <1>3. corrections' = corrections
    <2>1. draft[s].corrections = {}
      BY <1>1, <1>2 DEF SessionOK
    <2> QED BY <1>1, <2>1, CommitEffect
  <1>4. cmd[t] \in Commands /\ DraftOK(t)
    BY <1>1 DEF EvidenceInv, CommandsKnown, PersonAt, PersonOK
  <1>5. ASSUME NEW l \in draft[s].links
        PROVE  /\ l.fragment # cmd[t].fragment
               /\ Written(t) => l.key # cmd[t].key
               /\ l \in links \/ ~Retired(l, corrections)
    <2>1. l.fragment # cmd[t].fragment
      BY <1>2, <1>4, BackfillPublishes, CommandShape
    <2>2. Written(t) => cmd[t].key \in keyLock[t]
      BY <1>1, <1>4 DEF IInv, DraftsLocked, DraftOK, Written
    <2>3. l.key \in keyLock[s] /\ keyLock[s] \cap keyLock[t] = {}
      BY <1>1 DEF IInv, DraftsLocked, KeyLocksExclusive
    <2>4. ASSUME Retired(l, corrections)
          PROVE  l \in links
      <3>1. PICK m \in links : m.id = l.id
        BY <2>4 DEF Retired, EvidenceInv, StoredOK, CorrectionsRefer
      <3>2. m \in AllLinks /\ l \in AllLinks
        BY DEF AllLinks
      <3> QED BY <3>1, <3>2 DEF EvidenceInv, IdsUnique
    <2> QED BY <2>1, <2>2, <2>3, <2>4
  <1> QED BY <1>3, <1>5

LEMMA CommitKeepsPersonOK ==
    ASSUME IInv, EvidenceInv, NEW s \in Sessions, Commit(s), NEW t \in Humans
    PROVE  PersonOK(t)'
  <1>1. TypeOK /\ SessionOK /\ t \in Sessions /\ PersonOK(t)
    BY DEF IInv, Sessions, EvidenceInv
  <1>2. CASE t = s \/ pc[t] = "idle"
    BY <1>1, <1>2, CommitEffect DEF PersonOK, Still
  <1>3. CASE t # s /\ pc[t] = "lock"
    <2>1. draft[t].links = {} /\ draft[t].corrections = {}
      BY <1>1, <1>3, NoDraftTyped DEF TypeOK
    <2>2. pc'[t] = "lock" /\ draft'[t].links = {} /\ draft'[t].corrections = {}
      BY <1>1, <1>3, <2>1, CommitEffect DEF Still
    <2> QED BY <2>2 DEF PersonOK, DraftOK, ReliesOn, FreshEvidence, AddReliesOn,
               ReestablishReliesOn, CorrectReliesOn, Inserting, Written
  <1>4. CASE t # s /\ pc[t] \notin {"idle", "lock"}
    <2>1. /\ corrections' = corrections /\ links' = links \cup draft[s].links
          /\ pc'[t] = pc[t] /\ cmd'[t] = cmd[t] /\ repl'[t] = repl[t]
          /\ draft'[t].links = draft[t].links /\ draft'[t].corrections = draft[t].corrections
      BY <1>1, <1>4, CommitEffect, OthersPublish DEF Still
    <2>2. /\ Inserting(t)' = Inserting(t) /\ Written(t)' = Written(t)
      BY <2>1 DEF Inserting, Written
    <2>3. /\ History(t) \subseteq History(t)'
          /\ \A l \in History(t)' : l \in History(t)
                \/ (l.fragment # cmd[t].fragment /\ ~Retired(l, corrections))
          /\ Written(t) => History(t)' = History(t)
      <3>1. \A l \in draft[s].links : /\ l.fragment # cmd[t].fragment
                                      /\ Written(t) => l.key # cmd[t].key
                                      /\ l \in links \/ ~Retired(l, corrections)
        BY <1>4, OthersPublish
      <3> QED BY <2>1, <3>1 DEF History, Episodes
    <2>4. DraftOK(t) /\ ReliesOn(t)
      BY <1>1, <1>4 DEF PersonOK
    <2>5. DraftOK(t)'
      BY <2>1, <2>4 DEF DraftOK
    <2>6. FreshEvidence(t)'
      BY <2>1, <2>2, <2>3, <2>4 DEF ReliesOn, FreshEvidence
    <2>7. cmd[t].op = "ADD" => AddReliesOn(t)'
      <3>1. \A l : Retired(l, corrections') <=> Retired(l, corrections)
        BY <2>1
      <3> QED BY <2>1, <2>2, <2>3, <2>4, <3>1 DEF ReliesOn, AddReliesOn, Retired
    <2>8. cmd[t].op = "REESTABLISH" => ReestablishReliesOn(t)'
      <3>1. Written(t) => CurrentOf(cmd[t].key, links, corrections)' = CurrentOf(cmd[t].key, links, corrections)
        BY <2>1, <2>3 DEF CurrentOf, History, Retired
      <3> QED BY <2>1, <2>2, <2>3, <2>4, <3>1 DEF ReliesOn, ReestablishReliesOn
    <2>9. cmd[t].op = "CORRECT" => CorrectReliesOn(t)'
      BY <2>1, <2>2, <2>4 DEF ReliesOn, CorrectReliesOn
    <2> QED BY <2>1, <2>5, <2>6, <2>7, <2>8, <2>9 DEF PersonOK, ReliesOn
  <1> QED BY <1>2, <1>3, <1>4

LEMMA CommitKeepsEvidence ==
    ASSUME IInv, EvidenceInv, NEW s \in Sessions, Commit(s)
    PROVE  EvidenceInv'
  <1>1. TypeOK /\ SessionOK
    BY DEF IInv
  <1>2. CommandsKnown'
    BY <1>1, CommitEffect DEF EvidenceInv, CommandsKnown, PersonAt, RowAt, Still, Sessions
  <1>3. IdsUnique'
    <2>1. AllLinks' \subseteq AllLinks
      BY <1>1, CommitEffect DEF AllLinks, Still
    <2> QED BY <2>1 DEF EvidenceInv, IdsUnique
  <1>4. StoredOK'
    BY <1>1, CommitStoresOK
  <1>5. ASSUME NEW b \in Backfills
        PROVE  BackfillOK(b)'
    BY <1>1, CommitEffect DEF EvidenceInv, BackfillOK, Still, Sessions
  <1>6. \A t \in Humans : PersonOK(t)'
    BY CommitKeepsPersonOK
  <1> QED BY <1>2, <1>3, <1>4, <1>5, <1>6 DEF EvidenceInv

-----------------------------------------------------------------------------
(* The whole next-state relation.                                          *)

LEMMA StepKeepsEvidence ==
    ASSUME IInv, EvidenceInv, NEW s \in Sessions, Step(s)
    PROVE  EvidenceInv'
  <1>1. TypeOK /\ SessionOK
    BY DEF IInv
  <1>2. CASE ReadsOn(s)
    BY <1>1, <1>2, ReadsOnKeepsEvidence
  <1>3. CASE AcquireWriteLock(s) \/ FlagMultipleScopes(s)
    BY <1>1, <1>3, AcquireKeepsEvidence, FlagKeepsEvidence
  <1>4. CASE WriteCorrection(s) \/ OneCurrentTrigger(s)
    BY <1>1, <1>4, WriteCorrectionKeepsEvidence, WriteEpisodeKeepsEvidence
  <1>5. CASE TriggerRaises(s) \/ WinnerRetired(s)
    BY <1>1, <1>5, RollbackKeepsEvidence DEF TriggerRaises, WinnerRetired
  <1>6. CASE NextRow(s)
    BY <1>1, <1>6, RowsKeepEvidence DEF NextRow
  <1>7. CASE Commit(s)
    BY <1>7, CommitKeepsEvidence
  <1> QED BY <1>2, <1>3, <1>4, <1>5, <1>6, <1>7 DEF Step, ReadsOn, ReadStatement

LEMMA NextKeepsEvidence == IInv /\ EvidenceInv /\ [Next]_vars => EvidenceInv'
  <1> SUFFICES ASSUME IInv, EvidenceInv, [Next]_vars PROVE EvidenceInv'
    OBVIOUS
  <1>1. TypeOK
    BY DEF IInv
  <1>2. ASSUME NEW s \in Humans, NEW c \in Commands, Submit(s, c)
        PROVE  EvidenceInv'
    BY <1>1, <1>2, SubmitKeepsEvidence
  <1>3. ASSUME NEW b \in Backfills, StartBackfill(b) \/ DeadlockAbort(b)
        PROVE  EvidenceInv'
    BY <1>1, <1>3, RowsKeepEvidence, RollbackKeepsEvidence DEF DeadlockAbort, Sessions
  <1>4. ASSUME NEW s \in Sessions, LockTimeout(s) \/ Crash(s)
        PROVE  EvidenceInv'
    BY <1>1, <1>4, RollbackKeepsEvidence DEF LockTimeout, Crash
  <1>5. CASE UNCHANGED vars
    <2>1. \A t \in Sessions : Still(t)
      BY <1>5 DEF vars, Still
    <2>2. CommandsKnown'
      BY <1>5 DEF vars, EvidenceInv, CommandsKnown, PersonAt, RowAt
    <2>3. IdsUnique'
      BY <1>5 DEF vars, EvidenceInv, IdsUnique, AllLinks
    <2>4. StoredOK'
      BY <1>5 DEF vars, EvidenceInv, StoredOK, CorrectionsRefer, ReplacementNeverOrphaned, ReplacesOther
    <2> QED BY <1>5, <2>1, <2>2, <2>3, <2>4, StillKeepsOK DEF vars, EvidenceInv, Sessions
  <1> QED BY <1>2, <1>3, <1>4, <1>5, StepKeepsEvidence DEF Next

\* Only a commit changes what is stored.
LEMMA OnlyCommitsStore == [Next]_vars => links' = links \/ \E s \in Sessions : Commit(s)
  <1> SUFFICES ASSUME [Next]_vars PROVE links' = links \/ \E s \in Sessions : Commit(s)
    OBVIOUS
  <1>1. ASSUME NEW s, Rollback(s)
        PROVE  links' = links
    BY <1>1 DEF Rollback, db
  <1>2. ASSUME NEW s \in Sessions, Step(s)
        PROVE  links' = links \/ Commit(s)
    BY <1>1, <1>2 DEF Step, AcquireWriteLock, AddReadCurrent, AddReadEpisodes, CorrectReadTarget,
       CorrectReadReplacement, WriteCorrection, ReestablishReadHistory, InsertStatement,
       OneCurrentTrigger, WriteEpisode, TriggerRaises, LostRace, WinnerRetired,
       FlagMultipleScopes, NextRow, db
  <1>3. ASSUME NEW s, NEW c, Submit(s, c)
        PROVE  links' = links
    BY <1>3 DEF Submit, db
  <1>4. ASSUME NEW b, StartBackfill(b) \/ DeadlockAbort(b)
        PROVE  links' = links
    BY <1>1, <1>4 DEF StartBackfill, DeadlockAbort, db
  <1> QED BY <1>1, <1>2, <1>3, <1>4 DEF Next, LockTimeout, Crash, vars

\* Every statement, whoever runs it, keeps what the sessions rely on and what
\* the tables say about the Evidence of their rows.
THEOREM EvidenceHolds == Spec => [](IInv /\ EvidenceInv)
  <1>1. Init => EvidenceInv
    BY InitEvidence
  <1>2. Init => IInv
    BY InitIInv
  <1>3. IInv /\ [Next]_vars => IInv'
    BY NextKeepsIInv
  <1>4. IInv /\ EvidenceInv /\ [Next]_vars => EvidenceInv'
    BY NextKeepsEvidence
  <1> QED BY <1>1, <1>2, <1>3, <1>4, PTL DEF Spec

\* No lost race, timeout or crash leaves a replacement episode without the
\* correction that it replaces an episode by.
THEOREM ReplacementNeverOrphanedHolds == Spec => []ReplacementNeverOrphaned
  <1>1. EvidenceInv => ReplacementNeverOrphaned
    BY DEF EvidenceInv, StoredOK
  <1> QED BY <1>1, EvidenceHolds, PTL

\* Evidence asserts a relationship at most once, and never the relationship it
\* retired, however often commands and imports are replayed.
THEOREM ReplaySafeHolds == Spec => []ReplaySafe
  <1>1. ASSUME EvidenceInv
        PROVE  ReplaySafe
    <2>1. StoredOK /\ IdsUnique
      BY <1>1 DEF EvidenceInv
    <2>2. ASSUME NEW l \in links, NEW c \in corrections, c.fragment = l.fragment,
                 NEW m \in links, m.id = c.superseded
          PROVE  m.key # l.key
      <3>1. l.fragment[1] = "correct" /\ l.fragment[2] = m.id
        BY <2>1, <2>2 DEF StoredOK, CorrectionsRefer
      <3>2. PICK n \in links : n.id = m.id /\ n.key # l.key
        BY <2>1, <3>1 DEF StoredOK, ReplacesOther
      <3>3. n = m
        BY <2>1, <3>2 DEF IdsUnique, AllLinks
      <3> QED BY <3>2, <3>3
    <2>3. ASSUME NEW l \in links, NEW m \in links, m.key = l.key, m.fragment = l.fragment
          PROVE  m = l
      BY <2>1, <2>3 DEF StoredOK
    <2> QED BY <2>2, <2>3 DEF ReplaySafe
  <1> QED BY <1>1, EvidenceHolds, PTL

\* When a person's episode becomes visible, what the command read still holds,
\* although backfills commit without the write lock in between.
THEOREM HumanIntentTheorem == Spec => HumanIntentHolds
  <1> DEFINE Intent(l) == /\ l.fragment[1] = "add" => Episodes(l.key, links) = {}
                          /\ l.fragment[1] = "reestablish" =>
                                /\ Episodes(l.key, links) # {}
                                /\ CurrentOf(l.key, links, corrections) = {}
  <1>1. ASSUME IInv, EvidenceInv, [Next]_vars
        PROVE  \A l \in NewLinks : Intent(l)
    <2>1. CASE links' = links
      BY <2>1 DEF NewLinks
    <2>2. ASSUME NEW s \in Sessions, Commit(s), NEW l \in NewLinks
          PROVE  Intent(l)
      <3>1. l \in draft[s].links /\ pc[s] = "done"
        BY <1>1, <2>2, CommitEffect DEF IInv, NewLinks
      <3>2. CASE s \in Backfills
        BY <1>1, <3>1, <3>2, BackfillPublishes
      <3>3. CASE s \in Humans
        <4>1. /\ ReliesOn(s) /\ Written(s) /\ l.key = cmd[s].key
              /\ l.fragment[1] = "add" => cmd[s].op = "ADD"
              /\ l.fragment[1] = "reestablish" => cmd[s].op = "REESTABLISH"
          BY <1>1, <3>1, <3>3, PersonPublishes
        <4> QED BY <4>1 DEF ReliesOn, AddReliesOn, ReestablishReliesOn, History
      <3> QED BY <3>2, <3>3 DEF Sessions
    <2> QED BY <1>1, <2>1, <2>2, OnlyCommitsStore
  <1>2. IInv /\ EvidenceInv /\ [Next]_vars =>
            [\A l \in NewLinks :
                /\ l.fragment[1] = "add" => Episodes(l.key, links) = {}
                /\ l.fragment[1] = "reestablish" =>
                      /\ Episodes(l.key, links) # {}
                      /\ CurrentOf(l.key, links, corrections) = {}]_vars
    BY <1>1
  <1> QED BY <1>2, EvidenceHolds, PTL DEF Spec, HumanIntentHolds

=============================================================================
