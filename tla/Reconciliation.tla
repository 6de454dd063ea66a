---------------------------- MODULE Reconciliation ----------------------------
(***************************************************************************)
(* The comparison of a prepared ledger with a Cutover Baseline             *)
(* (cutover_reconciliation.py): every observed fact under its business     *)
(* key, every key adjudicated exactly once, anything else UNRESOLVED.      *)
(*                                                                         *)
(* A view is what the Contract Business Ledger and the task list showed:   *)
(*   contracts, subjects   imported rows [id, content, party, at, ..]      *)
(*   allocations           <<subject, contract>> pairs of those rows       *)
(*   links                 [contract, sales] of those contracts            *)
(*   packed                items, shipments and accruals [key, contract..] *)
(*   tasks                 OPEN backfill tasks                             *)
(***************************************************************************)
EXTENDS Naturals, Sequences, FiniteSets

CONSTANT None

\* of tells two occurrences of one key apart: the rows a ledger line is about.
Observation(key, value, of) == [key |-> key, value |-> value, of |-> of]

Allocated(v) == {a \in v.allocations : a[1] \in v.subjects /\ a[2] \in v.contracts}

\* Facts of a contract: an item allocation's subject is its invoice.
FactsOf(v) == {k \in v.packed : k.subject = None}

\* An allocation whose invoice or payment has no business identity, and an
\* item, shipment or accrual without one; and every open task.
Incomplete(v) ==
    {<<"unresolved", a>> : a \in {a \in Allocated(v) : a[1].id = None}}
    \cup {<<"unresolved fact", k>> : k \in {k \in FactsOf(v) : k.key = None}}
    \cup {<<"unresolved task", t>> : t \in v.tasks}

Observed(v) ==
    {Observation(<<"contract", c.id>>, c.content, c) : c \in v.contracts}
    \cup {Observation(<<"fact", k.contract, k.key>>, None, k) :
             k \in {k \in FactsOf(v) : k.key # None}}
    \cup {Observation(<<a[1].kind, a[2].id, a[1].id>>, a[1].content, a) :
             a \in {a \in Allocated(v) : a[1].id # None}}
    \cup UNION {{Observation(<<"sales", cl[2].sales>>, None, cl),
                 Observation(<<"link", cl[1].id, cl[2].sales>>, None, cl)} :
             cl \in {cl \in v.contracts \X v.links : cl[2].contract = cl[1].at}}

Under(E, key) == {e \in E : e.key = key}

\* A sales scope is shown once per linked contract: equal content is one fact.
Repeated(E) ==
    {key \in {e.key : e \in E} :
        /\ Cardinality(Under(E, key)) > 1
        /\ ~(key[1] = "sales" /\ Cardinality({e.value : e \in Under(E, key)}) = 1)}

Recordable == {"MATCH", "BEL_CORRECTED_LEGACY"}

KeysOf(baseline) == {baseline[i].key : i \in DOMAIN baseline}
RepeatedKeys(baseline) ==
    {key \in KeysOf(baseline) : Cardinality({i \in DOMAIN baseline : baseline[i].key = key}) > 1}

Finding(key, reason) == [key |-> key, reason |-> reason]

\* What the comparison says of one baseline entry; nothing when they agree.
Adjudicate(b, E) ==
    LET shown == Under(E, b.key) IN
    IF b.key[1] = "unresolved"          THEN {Finding(b.key, "UNADJUDICATABLE_KEY")}
    ELSE IF b.outcome \notin Recordable THEN {Finding(b.key, "UNADJUDICATED_OUTCOME")}
    ELSE IF shown = {}                  THEN {Finding(b.key, "MISSING_ACTUAL")}
    ELSE IF \E e \in shown : e.value # b.expected THEN {Finding(b.key, "VALUE_MISMATCH")}
    ELSE {}

Findings(v, baseline) ==
    LET all    == Observed(v)
        twice  == Repeated(all)
        actual == {e \in all : e.key \notin twice}
        unsure == RepeatedKeys(baseline)
    IN  {Finding(key, "DUPLICATE_BASELINE_KEY") : key \in unsure}
        \cup {Finding(u, "UNRESOLVED_SOURCE") : u \in Incomplete(v) \cup twice}
        \cup (UNION {Adjudicate(baseline[i], actual) :
                        i \in {i \in DOMAIN baseline : baseline[i].key \notin unsure}})
        \cup {Finding(key, "MISSING_BASELINE_ENTRY") :
                 key \in {e.key : e \in actual} \ KeysOf(baseline)}

Passed(v, baseline) == Findings(v, baseline) = {}

=============================================================================
