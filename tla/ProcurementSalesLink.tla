------------------------ MODULE ProcurementSalesLink ------------------------
(***************************************************************************)
(* The procurement/sales bridge: assertion episodes (links) and the        *)
(* append-only corrections that retire them, written by two kinds of       *)
(* database session.                                                       *)
(*                                                                         *)
(*   Humans     run execute_add / execute_correct / execute_reestablish:   *)
(*              one serialized_write_transaction per command, so they hold *)
(*              the global advisory write lock from first to last          *)
(*              statement.                                                 *)
(*   Backfills  run the cutover plan: one long transaction that calls      *)
(*              add_procurement_sales_link for every ledger row and never  *)
(*              takes the write lock.                                      *)
(*                                                                         *)
(* PostgreSQL runs at READ COMMITTED: every statement sees what is         *)
(* committed when the statement starts plus the session's own writes.  An  *)
(* action is one SQL statement (or several whose answers no concurrent     *)
(* writer can change in between), so a decision taken on one statement is  *)
(* used in a later one.                                                    *)
(***************************************************************************)
EXTENDS Naturals, Sequences, FiniteSets, FiniteSetsExt

CONSTANTS
    Keys,       \* relationship business keys <<procurement contract, sales contract>>
    LinkIds,    \* the pool of uuids (a bound: no transaction starts without room)
    Humans,     \* sessions of people using the CLI
    Backfills,  \* ledger files, each imported by one backfill session
    FileKeys,   \* FileKeys[b]: the business keys named by the rows of file b, in order
    None

Sessions == Humans \cup Backfills

ASSUME SessionsAssumption == Humans \cap Backfills = {}
ASSUME FileKeysAssumption == FileKeys \in [Backfills -> Seq(Keys)]
ASSUME NoneAssumption == None \notin Keys \cup LinkIds \cup Sessions

VARIABLES
    links,        \* committed rows of procurement_sales_links
    corrections,  \* committed rows of procurement_sales_link_corrections
    tasks,        \* committed OPEN tasks (no command ever resolves one)
    imported,     \* ledger files whose document row is committed
    writeLock,    \* holder of the advisory write lock
    keyLock,      \* keyLock[s]: business keys whose trigger lock s holds
    pc,           \* pc[s]: the next statement of session s
    cmd,          \* cmd[s]: the command (or ledger row) being executed
    row,          \* row[s]: index of the ledger row a backfill is at
    repl,         \* repl[s]: replacement link id resolved by CORRECT
    draft         \* draft[s]: rows written by s and not committed

vars == <<links, corrections, tasks, imported, writeLock, keyLock,
          pc, cmd, row, repl, draft>>
db == <<links, corrections, tasks, imported>>

-----------------------------------------------------------------------------
(* Rows.  A manual fragment is the sha256 of the command's arguments, so   *)
(* the same command always yields the same fragment; a ledger row yields   *)
(* the fragment of that row of that document.                              *)

AddFragment(k)         == <<"add", None, k>>
CorrectFragment(l, k)  == <<"correct", l, k>>
ReestablishFragment(k) == <<"reestablish", None, k>>
RowFragment(b, i)      == <<"row", b, i>>

Link(id, c) == [id |-> id, key |-> c.key, fragment |-> c.fragment,
                confirmation |-> c.confirmation]

Correction(c, r) == [superseded |-> c.link, replacement |-> r,
                     fragment |-> c.fragment]

AddCommand(k) ==
    [op |-> "ADD", link |-> None, key |-> k,
     fragment |-> AddFragment(k), confirmation |-> "HUMAN"]
CorrectCommand(l, k) ==
    [op |-> "CORRECT", link |-> l, key |-> k,
     fragment |-> CorrectFragment(l, k), confirmation |-> "HUMAN"]
ReestablishCommand(k) ==
    [op |-> "REESTABLISH", link |-> None, key |-> k,
     fragment |-> ReestablishFragment(k), confirmation |-> "HUMAN"]
RowCommand(b, i) ==
    [op |-> "ADD", link |-> None, key |-> FileKeys[b][i],
     fragment |-> RowFragment(b, i), confirmation |-> "AUTO"]

Commands == {AddCommand(k) : k \in Keys}
            \cup {CorrectCommand(l, k) : l \in LinkIds, k \in Keys \cup {None}}
            \cup {ReestablishCommand(k) : k \in Keys}

NoDraft == [links |-> {}, corrections |-> {}, tasks |-> {}]

-----------------------------------------------------------------------------
(* Predicates of the repository, over a set of links and of corrections.   *)

Retired(l, cs)       == \E c \in cs : c.superseded = l.id
CurrentLinks(ls, cs) == {l \in ls : ~Retired(l, cs)}
Episodes(k, ls)      == {l \in ls : l.key = k}
CurrentOf(k, ls, cs) == {l \in Episodes(k, ls) : ~Retired(l, cs)}

\* What a statement of session s sees.
SeenLinks(s)       == links \cup draft[s].links
SeenCorrections(s) == corrections \cup draft[s].corrections
SeenCurrent(s)     == CurrentOf(cmd[s].key, SeenLinks(s), SeenCorrections(s))
SeenEpisodes(s)    == Episodes(cmd[s].key, SeenLinks(s))

UsedIds == {l.id : l \in links \cup UNION {draft[s].links : s \in Sessions}}

\* Episodes that sessions may write in their transactions.  Backfills by
\* themselves write at most one for each relationship they name: nobody retires it.
Demand(s) == IF s \in Backfills THEN Len(FileKeys[s]) ELSE 1
Need(busy) ==
    IF busy \subseteq Backfills
    THEN Cardinality(UNION {{FileKeys[b][i] : i \in DOMAIN FileKeys[b]} : b \in busy})
    ELSE MapThenSumSet(Demand, busy)
Open(s)   == pc[s] # "idle"
HasRoom(s) ==
    Cardinality(links) + Need({t \in Sessions : Open(t)} \cup {s}) <= Cardinality(LinkIds)

-----------------------------------------------------------------------------
Init ==
    /\ links = {} /\ corrections = {} /\ tasks = {} /\ imported = {}
    /\ writeLock = None
    /\ keyLock = [s \in Sessions |-> {}]
    /\ pc = [s \in Sessions |-> "idle"]
    /\ cmd = [s \in Sessions |-> None]
    /\ row = [s \in Sessions |-> 0]
    /\ repl = [s \in Sessions |-> None]
    /\ draft = [s \in Sessions |-> NoDraft]

Goto(s, label) == pc' = [pc EXCEPT ![s] = label]

\* A trigger lock that outlives its transaction (session-scoped).
EndTransaction_KeepsKeyLock(s) ==
    /\ writeLock' = IF writeLock = s THEN None ELSE writeLock
    /\ pc' = [pc EXCEPT ![s] = "idle"]
    /\ cmd' = [cmd EXCEPT ![s] = None]
    /\ row' = [row EXCEPT ![s] = 0]
    /\ repl' = [repl EXCEPT ![s] = None]
    /\ draft' = [draft EXCEPT ![s] = NoDraft]
    /\ UNCHANGED keyLock

\* Locks, drafts and local state vanish with the transaction.
EndTransaction(s) ==
    /\ writeLock' = IF writeLock = s THEN None ELSE writeLock
    /\ keyLock' = [keyLock EXCEPT ![s] = {}]
    /\ pc' = [pc EXCEPT ![s] = "idle"]
    /\ cmd' = [cmd EXCEPT ![s] = None]
    /\ row' = [row EXCEPT ![s] = 0]
    /\ repl' = [repl EXCEPT ![s] = None]
    /\ draft' = [draft EXCEPT ![s] = NoDraft]

Rollback(s) == EndTransaction(s) /\ UNCHANGED db

AddTask(s, t) == draft' = [draft EXCEPT ![s].tasks = @ \cup {t}]

-----------------------------------------------------------------------------
(* Entering and leaving a transaction.                                     *)

\* A person starts a command; its first statement asks for the write lock.
Submit(s, c) ==
    /\ s \in Humans /\ pc[s] = "idle" /\ HasRoom(s)
    /\ cmd' = [cmd EXCEPT ![s] = c]
    /\ Goto(s, "lock")
    /\ UNCHANGED <<db, writeLock, keyLock, row, repl, draft>>

FirstStatement == [ADD |-> "read_current", CORRECT |-> "read_target",
                   REESTABLISH |-> "read_history"]

\* serialized_write_transaction without the lock: the race it exists to stop.
AcquireWriteLock_NoLock(s) ==
    /\ pc[s] = "lock"
    /\ Goto(s, FirstStatement[cmd[s].op])
    /\ UNCHANGED <<db, writeLock, keyLock, cmd, row, repl, draft>>

AcquireWriteLock(s) ==
    /\ pc[s] = "lock" /\ writeLock = None
    /\ writeLock' = s
    /\ Goto(s, FirstStatement[cmd[s].op])
    /\ UNCHANGED <<db, keyLock, cmd, row, repl, draft>>

\* lock_timeout expires: a controlled busy error, nothing written.
LockTimeout(s) ==
    /\ \/ pc[s] = "lock" /\ writeLock # None
       \/ /\ pc[s] = "trigger" /\ s \in Humans
          /\ \E t \in Sessions \ {s} : cmd[s].key \in keyLock[t]
    /\ Rollback(s)

\* run_backfill_plan: a file whose document is already stored is a no-op.
StartBackfill(b) ==
    /\ b \in Backfills /\ pc[b] = "idle"
    /\ b \notin imported /\ Len(FileKeys[b]) > 0 /\ HasRoom(b)
    /\ row' = [row EXCEPT ![b] = 1]
    /\ cmd' = [cmd EXCEPT ![b] = RowCommand(b, 1)]
    /\ Goto(b, "read_current")
    /\ UNCHANGED <<db, writeLock, keyLock, repl, draft>>

NextRow(b) ==
    /\ b \in Backfills /\ pc[b] = "done" /\ row[b] < Len(FileKeys[b])
    /\ row' = [row EXCEPT ![b] = @ + 1]
    /\ cmd' = [cmd EXCEPT ![b] = RowCommand(b, row[b] + 1)]
    /\ Goto(b, "read_current")
    /\ UNCHANGED <<db, writeLock, keyLock, repl, draft>>

Commit(s) ==
    /\ pc[s] = "done"
    /\ s \in Backfills => row[s] = Len(FileKeys[s])
    /\ links' = links \cup draft[s].links
    /\ corrections' = corrections \cup draft[s].corrections
    /\ tasks' = tasks \cup draft[s].tasks
    /\ imported' = imported \cup ({s} \cap Backfills)
    /\ EndTransaction(s)

\* The process dies, or the connection is lost, before the commit.
Crash(s) == Open(s) /\ Rollback(s)

\* A cycle of sessions, each waiting for a key another one holds: PostgreSQL
\* aborts one of them.
DeadlockAbort(b) ==
    /\ \E cycle \in SUBSET Sessions :
          /\ b \in cycle
          /\ \A s \in cycle :
                /\ pc[s] = "trigger"
                /\ \E t \in cycle \ {s} : cmd[s].key \in keyLock[t]
    /\ Rollback(b)

-----------------------------------------------------------------------------
(* insert_episode_if_no_current.  INSERT ... WHERE NOT EXISTS (current)    *)
(* looks at the statement's snapshot; the BEFORE INSERT trigger then takes *)
(* the advisory lock of the business key and looks again.                  *)

InsertStatement(s) ==
    /\ pc[s] = "insert"
    /\ Goto(s, IF SeenCurrent(s) = {} THEN "trigger" ELSE "lost")
    /\ UNCHANGED <<db, writeLock, keyLock, cmd, row, repl, draft>>

KeyIsFree(s) == \A t \in Sessions \ {s} : cmd[s].key \notin keyLock[t]

WriteEpisode(s, id) ==
    /\ draft' = [draft EXCEPT ![s].links = @ \cup {Link(id, cmd[s])}]
    /\ keyLock' = [keyLock EXCEPT ![s] = @ \cup {cmd[s].key}]
    /\ repl' = [repl EXCEPT ![s] = id]
    /\ Goto(s, IF cmd[s].op = "CORRECT" THEN "write_correction" ELSE "flag")
    /\ UNCHANGED <<db, writeLock, cmd, row>>

\* A trigger that takes its lock but does not look again.
OneCurrentTrigger_NoRecheck(s) ==
    /\ pc[s] = "trigger" /\ KeyIsFree(s)
    /\ \E id \in LinkIds \ UsedIds : WriteEpisode(s, id)

\* A replacement episode committed on its own, outside the transaction.
OneCurrentTrigger_AutoCommit(s) ==
    /\ pc[s] = "trigger" /\ KeyIsFree(s) /\ SeenCurrent(s) = {}
    /\ \E id \in LinkIds \ UsedIds :
          /\ links' = links \cup {Link(id, cmd[s])}
          /\ repl' = [repl EXCEPT ![s] = id]
          /\ Goto(s, IF cmd[s].op = "CORRECT" THEN "write_correction" ELSE "flag")
          /\ UNCHANGED <<corrections, tasks, imported, writeLock, keyLock,
                         cmd, row, draft>>

OneCurrentTrigger(s) ==
    /\ pc[s] = "trigger" /\ KeyIsFree(s) /\ SeenCurrent(s) = {}
    /\ \E id \in LinkIds \ UsedIds : WriteEpisode(s, id)

\* RAISE EXCEPTION: somebody committed a current episode since the statement
\* began, and the whole transaction fails.
TriggerRaises(s) ==
    /\ pc[s] = "trigger" /\ KeyIsFree(s) /\ SeenCurrent(s) # {}
    /\ Rollback(s)

\* The INSERT wrote nothing: ask who won.  ADD and CORRECT adopt the winner,
\* REESTABLISH gives up.
LostRace(s) ==
    /\ pc[s] = "lost"
    /\ \/ /\ cmd[s].op = "REESTABLISH" \/ (cmd[s].op = "ADD" /\ SeenCurrent(s) # {})
          /\ Goto(s, "done")
          /\ UNCHANGED repl
       \/ /\ cmd[s].op = "CORRECT"
          /\ \E w \in SeenCurrent(s) : repl' = [repl EXCEPT ![s] = w.id]
          /\ Goto(s, "write_correction")
    /\ UNCHANGED <<db, writeLock, keyLock, cmd, row, draft>>

\* assert winner is not None: the winner was retired in the meantime.
WinnerRetired(s) ==
    /\ pc[s] = "lost" /\ cmd[s].op # "REESTABLISH" /\ SeenCurrent(s) = {}
    /\ Rollback(s)

\* One open ambiguity task per procurement contract with several current links.
MultipleScopesTask(k) == <<"MULTIPLE_SCOPES", k[1]>>
ScopesOf(p, ls, cs)   == {l \in CurrentLinks(ls, cs) : l.key[1] = p}

FlagMultipleScopes(s) ==
    /\ pc[s] = "flag"
    /\ IF Cardinality(ScopesOf(cmd[s].key[1], SeenLinks(s), SeenCorrections(s))) > 1
       THEN AddTask(s, MultipleScopesTask(cmd[s].key))
       ELSE UNCHANGED draft
    /\ Goto(s, "done")
    /\ UNCHANGED <<db, writeLock, keyLock, cmd, row, repl>>

-----------------------------------------------------------------------------
(* ADD: add_procurement_sales_link.                                        *)

\* get_current_link: an existing relationship is a replay or corroboration.
AddReadCurrent(s) ==
    /\ pc[s] = "read_current"
    /\ Goto(s, IF SeenCurrent(s) # {} THEN "done" ELSE "read_episodes")
    /\ UNCHANGED <<db, writeLock, keyLock, cmd, row, repl, draft>>

\* ADD that only looks for a current episode and never at the history.
AddReadEpisodes_SkipHistory(s) ==
    /\ pc[s] = "read_episodes"
    /\ Goto(s, "insert")
    /\ UNCHANGED <<db, writeLock, keyLock, cmd, row, repl, draft>>

\* list_episodes: retired history rejects ADD.  The person gets an error; the
\* backfill records a task and goes on with the next row.
AddReadEpisodes(s) ==
    /\ pc[s] = "read_episodes"
    /\ IF SeenEpisodes(s) = {}
       THEN Goto(s, "insert") /\ UNCHANGED draft
       ELSE /\ Goto(s, "done")
            /\ IF s \in Backfills
               THEN AddTask(s, <<"BACKFILL_CONFLICT", cmd[s].key[2]>>)
               ELSE UNCHANGED draft
    /\ UNCHANGED <<db, writeLock, keyLock, cmd, row, repl>>

-----------------------------------------------------------------------------
(* CORRECT / INVALIDATE: correct_procurement_sales_link.                   *)

ConflictTask(c) == <<"CORRECTION_CONFLICT", c.link, c.fragment>>

\* Corrections change only under the write lock, which this session holds, so
\* reading the target, its correction and is_current is one step.
CorrectReadTarget(s) ==
    LET target   == {l \in SeenLinks(s) : l.id = cmd[s].link}
        existing == {c \in SeenCorrections(s) : c.superseded = cmd[s].link}
        replay   == \E c \in existing : c.fragment = cmd[s].fragment
    IN  /\ pc[s] = "read_target"
        /\ Goto(s, IF target = {} \/ existing # {} THEN "done"
                   ELSE IF cmd[s].key = None THEN "write_correction"
                   ELSE "read_replacement")
        /\ IF existing # {} /\ ~replay
           THEN AddTask(s, ConflictTask(cmd[s]))
           ELSE UNCHANGED draft
        /\ UNCHANGED <<db, writeLock, keyLock, cmd, row, repl>>

\* Inside the savepoint: a current episode of the replacement key is adopted,
\* otherwise one is inserted.
CorrectReadReplacement(s) ==
    /\ pc[s] = "read_replacement"
    /\ IF SeenCurrent(s) = {}
       THEN Goto(s, "insert") /\ UNCHANGED repl
       ELSE /\ \E r \in SeenCurrent(s) : repl' = [repl EXCEPT ![s] = r.id]
            /\ Goto(s, "write_correction")
    /\ UNCHANGED <<db, writeLock, keyLock, cmd, row, draft>>

\* add_correction_if_uncorrected; on a lost race the savepoint takes the new
\* replacement episode back and a conflict task stays.  The UNIQUE index on
\* superseded_link_id is left out: the properties hold without it.
WriteCorrection(s) ==
    /\ pc[s] = "write_correction"
    /\ IF \E c \in SeenCorrections(s) : c.superseded = cmd[s].link
       THEN draft' = [draft EXCEPT ![s].links = {},
                                   ![s].tasks = @ \cup {ConflictTask(cmd[s])}]
       ELSE draft' = [draft EXCEPT ![s].corrections =
                                       @ \cup {Correction(cmd[s], repl[s])}]
    /\ Goto(s, "done")
    /\ UNCHANGED <<db, writeLock, keyLock, cmd, row, repl>>

-----------------------------------------------------------------------------
(* REESTABLISH: reestablish_procurement_sales_link.                        *)

HistoricalFragments(k, ls, cs) ==
    {l.fragment : l \in Episodes(k, ls)}
    \cup {c.fragment : c \in {d \in cs : \E l \in Episodes(k, ls) : d.superseded = l.id}}

\* REESTABLISH that accepts Evidence already used for the relationship.
ReestablishReadHistory_AnyEvidence(s) ==
    /\ pc[s] = "read_history"
    /\ Goto(s, IF SeenEpisodes(s) # {} /\ SeenCurrent(s) = {} THEN "insert" ELSE "done")
    /\ UNCHANGED <<db, writeLock, keyLock, cmd, row, repl, draft>>

\* A concurrent backfill can only add an episode made from a ledger row, never
\* one made from this command's fragment, so the reads form one step.
ReestablishReadHistory(s) ==
    /\ pc[s] = "read_history"
    /\ Goto(s, IF /\ SeenEpisodes(s) # {}
                  /\ SeenCurrent(s) = {}
                  /\ cmd[s].fragment \notin
                        HistoricalFragments(cmd[s].key, SeenLinks(s), SeenCorrections(s))
               THEN "insert" ELSE "done")
    /\ UNCHANGED <<db, writeLock, keyLock, cmd, row, repl, draft>>

-----------------------------------------------------------------------------
Step(s) ==
    \/ AcquireWriteLock(s)
    \/ AddReadCurrent(s) \/ AddReadEpisodes(s)
    \/ CorrectReadTarget(s) \/ CorrectReadReplacement(s) \/ WriteCorrection(s)
    \/ ReestablishReadHistory(s)
    \/ InsertStatement(s) \/ OneCurrentTrigger(s) \/ TriggerRaises(s)
    \/ LostRace(s) \/ WinnerRetired(s)
    \/ FlagMultipleScopes(s)
    \/ NextRow(s) \/ Commit(s)

Next ==
    \/ \E s \in Humans, c \in Commands : Submit(s, c)
    \/ \E b \in Backfills : StartBackfill(b) \/ DeadlockAbort(b)
    \/ \E s \in Sessions : Step(s) \/ LockTimeout(s) \/ Crash(s)

Spec == Init /\ [][Next]_vars

(* Every statement of a live session is eventually executed.  Advisory     *)
(* locks are granted in FIFO order, hence strong fairness for the two      *)
(* waits; the deadlock detector always runs.                               *)
Fairness ==
    /\ \A s \in Sessions : /\ WF_vars(Step(s))
                            /\ SF_vars(OneCurrentTrigger(s) \/ TriggerRaises(s))
    /\ \A s \in Humans : SF_vars(AcquireWriteLock(s) \/ LockTimeout(s))
    /\ \A b \in Backfills : WF_vars(DeadlockAbort(b))

FairSpec == Spec /\ Fairness

-----------------------------------------------------------------------------
(* Properties.                                                             *)

Labels == {"idle", "lock", "read_current", "read_episodes", "insert", "trigger",
           "lost", "flag", "read_target", "read_replacement", "write_correction",
           "read_history", "done"}

Fragment == ({"add", "reestablish"} \X {None} \X Keys)
            \cup ({"correct"} \X LinkIds \X (Keys \cup {None}))
            \cup ({"row"} \X Backfills \X Nat)
LinkRow == [id : LinkIds, key : Keys, fragment : Fragment,
            confirmation : {"AUTO", "HUMAN"}]
CorrectionRow == [superseded : LinkIds, replacement : LinkIds \cup {None},
                  fragment : Fragment]
Task == ({"MULTIPLE_SCOPES", "BACKFILL_CONFLICT"} \X UNION {{k[1], k[2]} : k \in Keys})
        \cup ({"CORRECTION_CONFLICT"} \X LinkIds \X Fragment)
Draft == [links : SUBSET LinkRow, corrections : SUBSET CorrectionRow,
          tasks : SUBSET Task]
Command == [op : {"ADD", "CORRECT", "REESTABLISH"}, link : LinkIds \cup {None},
            key : Keys \cup {None}, fragment : Fragment,
            confirmation : {"AUTO", "HUMAN"}]

\* Every variable has its type, and a session holds locks and unwritten rows
\* only while its transaction is open.
TypeOK ==
    /\ links \subseteq LinkRow /\ corrections \subseteq CorrectionRow
    /\ tasks \subseteq Task /\ imported \subseteq Backfills
    /\ writeLock \in Humans \cup {None}
    /\ keyLock \in [Sessions -> SUBSET Keys]
    /\ pc \in [Sessions -> Labels]
    /\ cmd \in [Sessions -> Command \cup {None}]
    /\ row \in [Sessions -> Nat]
    /\ repl \in [Sessions -> LinkIds \cup {None}]
    /\ draft \in [Sessions -> Draft]
    /\ \A s \in Sessions : pc[s] \in {"idle", "lock"} => keyLock[s] = {} /\ draft[s] = NoDraft

AtMostOneCurrent(ls, cs) ==
    \A l1, l2 \in CurrentLinks(ls, cs) : l1.key = l2.key => l1 = l2
NoFork(cs) == \A c1, c2 \in cs : c1.superseded = c2.superseded => c1 = c2

\* At most one current episode per relationship business key, whatever
\* backfills and commands interleave (get_current_link relies on it: it would
\* otherwise pick one silently or raise).
OneCurrentPerKey == AtMostOneCurrent(links, corrections)

\* An episode is superseded at most once: correction lineage never forks.
LineageNeverForks == NoFork(corrections)

\* An episode written as the replacement of a correction exists only together
\* with that correction: a lost race or a crash never leaves it behind.
ReplacementNeverOrphaned ==
    \A l \in links : l.fragment[1] = "correct" =>
        \E c \in corrections : c.fragment = l.fragment /\ c.replacement = l.id

\* Replay safety: one piece of Evidence asserts a relationship at most once,
\* and Evidence that retired an episode never asserts that relationship.
ReplaySafe ==
    \A l \in links :
        /\ \A m \in links : (m.key = l.key /\ m.fragment = l.fragment) => m = l
        /\ \A c \in corrections : c.fragment = l.fragment =>
              \A m \in links : m.id = c.superseded => m.key # l.key

-----------------------------------------------------------------------------
(* The inductive strengthening of OneCurrentPerKey and LineageNeverForks.  *)

\* What each statement may rely on: a person past the lock holds it, a backfill
\* only adds, and only a person corrects.
SessionOK ==
    \A s \in Sessions :
        /\ pc[s] # "idle" => cmd[s] \in Command
        /\ s \in Humans /\ pc[s] \notin {"idle", "lock"} => writeLock = s
        /\ s \in Backfills => /\ pc[s] # "lock"
                              /\ pc[s] # "idle" => cmd[s].op = "ADD"
                              /\ draft[s].corrections = {}
        /\ pc[s] # "idle" /\ cmd[s].op = "CORRECT" => cmd[s].link \in LinkIds
        /\ pc[s] # "idle" /\ cmd[s].op # "CORRECT" => cmd[s].key \in Keys
        /\ pc[s] \notin {"idle", "lock", "read_target", "write_correction", "done"} =>
                cmd[s].key \in Keys
        /\ pc[s] \in {"read_target", "read_replacement", "write_correction"} =>
                cmd[s].op = "CORRECT"

\* No two sessions hold the trigger lock of the same business key.
KeyLocksExclusive ==
    \A s, t \in Sessions : s # t => keyLock[s] \cap keyLock[t] = {}

\* An unwritten episode is protected by the lock of its key.
DraftsLocked ==
    \A s \in Sessions : \A l \in draft[s].links : l.key \in keyLock[s]

\* What a session would see after its own commit is as good as what is stored.
ViewsOK ==
    \A s \in Sessions : /\ AtMostOneCurrent(SeenLinks(s), SeenCorrections(s))
                        /\ NoFork(SeenCorrections(s))

\* The inductive invariant: what is stored, and what every open transaction
\* would store, has one current episode per key and no forked lineage, because
\* key locks are exclusive and corrections are written under the write lock.
IInv ==
    /\ TypeOK /\ SessionOK /\ KeyLocksExclusive /\ DraftsLocked /\ ViewsOK
    /\ OneCurrentPerKey /\ LineageNeverForks

-----------------------------------------------------------------------------
NewLinks == links' \ links

\* The preconditions of the two human creation commands still hold when their
\* episode becomes visible: ADD starts a relationship that never existed, and
\* REESTABLISH follows a history with nothing current.
HumanIntentHolds ==
    [][\A l \in NewLinks :
          /\ l.fragment[1] = "add" => Episodes(l.key, links) = {}
          /\ l.fragment[1] = "reestablish" =>
                /\ Episodes(l.key, links) # {}
                /\ CurrentOf(l.key, links, corrections) = {}]_vars

\* Every command and every import ends: committed, rejected, timed out or
\* aborted.  No set of sessions waits on each other for ever.
CommandsEnd == \A s \in Sessions : Open(s) ~> ~Open(s)

-----------------------------------------------------------------------------
(* Statements of the repository's documents that the code does not keep.   *)

\* "There is no automatic path" to a further episode of a retired
\* relationship: a backfill never asserts a relationship that has history.
NoAutomaticRevival ==
    [][\A l \in NewLinks : l.confirmation = "AUTO" => Episodes(l.key, links) = {}]_vars

=============================================================================
