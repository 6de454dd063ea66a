------------------------- MODULE PeriodCloseProofs -------------------------
(***************************************************************************)
(* Supersession of close facts, line capacity, the preview's conclusions   *)
(* and exact clearing, for every value of the constants.                   *)
(***************************************************************************)
EXTENDS PeriodClose, SumTheorems

-----------------------------------------------------------------------------
(* The invariant.                                                          *)

Typed ==
    /\ facts \in [FactIds -> Rows \cup {None}]
    /\ DOMAIN draft = Documents
    /\ \A d \in Documents : DOMAIN draft[d] = {"facts", "accruals", "reversals"} /\ draft[d].facts \subseteq FactIds
    /\ plan \in [Superseders -> Plans \cup {None}]
    /\ confirmed \subseteq Invoices \X Contracts

\* What is not committed is there, is nobody else's, and has not been superseded.
DraftsApart ==
    /\ \A d \in Documents : \A f \in draft[d].facts : Exists(f) /\ facts[f].next = None
    /\ \A d, e \in Documents : draft[d].facts \cap draft[e].facts # {} => d = e

\* A link goes from a committed fact to a committed fact of the same business.
Linked(old, fact) ==
    fact.type = facts[old].type /\ fact.scope = facts[old].scope /\ fact.fragment # facts[old].fragment
Lineage ==
    /\ \A f \in FactIds : Exists(f) /\ facts[f].next # None =>
         Committed(facts[f].next) /\ Linked(f, facts[facts[f].next])
    /\ \A g, h \in FactIds : Exists(g) /\ Exists(h) /\ facts[g].next # None /\ facts[g].next = facts[h].next => g = h

\* The fragments of supersessions are on replacements only.
Preceded ==
    \A f \in FactIds : Exists(f) /\ facts[f].fragment \in Fragments =>
        \E g \in FactIds : Exists(g) /\ facts[g].next = f

\* A plan was checked against a committed fact, which cannot change its business.
PlansChecked ==
    \A s \in Superseders : plan[s] # None =>
        /\ Committed(plan[s].old) /\ Linked(plan[s].old, plan[s].fact)
        /\ plan[s].fact.fragment \in Fragments /\ plan[s].fact.next = None

\* Constraint A outlives the check: a confirmed allocation is never withdrawn.
Scoped(fact) ==
    fact.type = "ALLOCATION" => <<InvoiceOf[fact.scope[1]], ContractOf[fact.scope[2]]>> \in confirmed
AllConfirmed ==
    /\ \A f \in FactIds : Exists(f) => Scoped(facts[f])
    /\ \A s \in Superseders : plan[s] # None => Scoped(plan[s].fact)

IInv == Typed /\ DraftsApart /\ Lineage /\ Preceded /\ PlansChecked /\ AllConfirmed

-----------------------------------------------------------------------------
(* What the steps do to the facts.                                         *)

DraftsTyped ==
    /\ DOMAIN draft = Documents
    /\ \A d \in Documents : DOMAIN draft[d] = {"facts", "accruals", "reversals"} /\ draft[d].facts \subseteq FactIds

\* Facts, drafts of facts and plans stay; what is confirmed may grow.
Keeps ==
    /\ facts' = facts /\ plan' = plan
    /\ DraftsTyped' /\ \A d \in Documents : draft'[d].facts = draft[d].facts
    /\ confirmed \subseteq confirmed' /\ confirmed' \subseteq Invoices \X Contracts

LEMMA KeepsInv ==
    ASSUME IInv, Keeps
    PROVE  IInv'
<1> USE DEF IInv, Keeps, Exists, Committed
<1>1. Typed'
  BY DEF Typed, DraftsTyped
<1>2. DraftsApart'
  BY DEF DraftsApart
<1>3. \A f \in FactIds : Committed(f) => Committed(f)'
  OBVIOUS
<1>4. Lineage'
  BY <1>3 DEF Lineage, Linked, Typed
<1>5. Preceded'
  BY DEF Preceded
<1>6. PlansChecked'
  BY <1>3 DEF PlansChecked, Linked, Typed, Plans
<1>7. AllConfirmed'
  BY DEF AllConfirmed, Scoped
<1> QED BY <1>1, <1>2, <1>4, <1>5, <1>6, <1>7

\* A document adds a row of its own fragment to its draft.
Drafts(d, f, fact) ==
    /\ ~Exists(f) /\ f \in FactIds
    /\ fact \in Rows /\ fact.next = None /\ fact.fragment \in OwnFragments /\ Scoped(fact)
    /\ facts' = [facts EXCEPT ![f] = fact]
    /\ DraftsTyped'
    /\ draft'[d].facts = draft[d].facts \cup {f}
    /\ \A e \in Documents \ {d} : draft'[e].facts = draft[e].facts
    /\ UNCHANGED <<plan, confirmed>>

LEMMA DraftsInv ==
    ASSUME IInv, NEW d \in Documents, NEW f \in FactIds, NEW fact, Drafts(d, f, fact)
    PROVE  IInv'
<1> USE NoneAssumption DEF IInv, Drafts, Exists
<1>0. /\ \A g \in FactIds : g # f => facts'[g] = facts[g]
      /\ facts'[f] = fact /\ fact # None /\ facts[f] = None
  BY DEF Typed
<1>1. Typed'
  BY DEF Typed, DraftsTyped
<1>2. \A e \in Documents : f \notin draft[e].facts
  BY DEF DraftsApart
<1>3. DraftsApart'
  BY <1>0, <1>2 DEF DraftsApart, Typed
<1>4. \A g \in FactIds : Committed(g) => g # f /\ Committed(g)'
  BY <1>0 DEF Committed
<1>5. Lineage'
  <2>1. ASSUME NEW g \in FactIds, Exists(g)', facts'[g].next # None
        PROVE  g # f /\ facts'[g] = facts[g] /\ facts[g].next \in FactIds
    BY <1>0, <2>1 DEF Typed, Rows
  <2> QED BY <1>0, <1>4, <2>1 DEF Lineage, Linked
<1>6. Preceded'
  BY <1>0, FragmentAssumption DEF Preceded
<1>7. PlansChecked'
  BY <1>0, <1>4 DEF PlansChecked, Linked, Typed, Plans
<1>8. AllConfirmed'
  BY <1>0 DEF AllConfirmed, Scoped
<1> QED BY <1>1, <1>3, <1>5, <1>6, <1>7, <1>8

\* A draft is committed.
Publishes(d) ==
    /\ DraftsTyped' /\ draft'[d].facts = {}
    /\ \A e \in Documents \ {d} : draft'[e].facts = draft[e].facts
    /\ UNCHANGED <<facts, plan, confirmed>>

LEMMA PublishesInv ==
    ASSUME IInv, NEW d \in Documents, Publishes(d)
    PROVE  IInv'
<1> USE DEF IInv, Publishes, Exists
<1>1. Typed'
  BY DEF Typed, DraftsTyped
<1>2. DraftsApart'
  BY DEF DraftsApart
<1>3. \A f \in FactIds : Committed(f) => Committed(f)'
  BY DEF Committed
<1>4. Lineage'
  <2>1. \A g \in FactIds : Exists(g) /\ facts[g].next # None => facts[g].next \in FactIds
    BY DEF Typed, Rows
  <2> QED BY <1>3, <2>1 DEF Lineage, Linked
<1>5. Preceded'
  BY DEF Preceded
<1>6. PlansChecked'
  BY <1>3 DEF PlansChecked, Linked, Typed, Plans
<1>7. AllConfirmed'
  BY DEF AllConfirmed, Scoped
<1> QED BY <1>1, <1>2, <1>4, <1>5, <1>6, <1>7

\* A draft is rolled back.
Drops(d) ==
    /\ facts' = [f \in FactIds |-> IF f \in draft[d].facts THEN None ELSE facts[f]]
    /\ DraftsTyped' /\ draft'[d].facts = {}
    /\ \A e \in Documents \ {d} : draft'[e].facts = draft[e].facts
    /\ UNCHANGED <<plan, confirmed>>

LEMMA DropsInv ==
    ASSUME IInv, NEW d \in Documents, Drops(d)
    PROVE  IInv'
<1> USE DEF IInv, Drops, Exists
<1>0. \A g \in FactIds : facts'[g] # None => facts'[g] = facts[g] /\ g \notin draft[d].facts
  BY DEF Typed
<1>1. Typed'
  BY DEF Typed, DraftsTyped
<1>2. DraftsApart'
  BY DEF DraftsApart, Typed
<1>3. \A f \in FactIds : Committed(f) => Committed(f)' /\ facts'[f] = facts[f]
  BY DEF Committed
<1>4. Lineage'
  <2>1. \A g \in FactIds : Exists(g) /\ facts[g].next # None => facts[g].next \in FactIds
    BY DEF Typed, Rows
  <2> QED BY <1>0, <1>3, <2>1 DEF Lineage, Linked
<1>5. Preceded'
  <2>1. \A g \in FactIds : Exists(g) /\ facts[g].next # None => facts'[g] = facts[g]
    BY DEF DraftsApart
  <2> QED BY <1>0, <2>1, NoneAssumption DEF Preceded
<1>6. PlansChecked'
  BY <1>3 DEF PlansChecked, Linked, Typed, Plans
<1>7. AllConfirmed'
  BY <1>0 DEF AllConfirmed, Scoped
<1> QED BY <1>1, <1>2, <1>4, <1>5, <1>6, <1>7

\* The checks of a supersession.
Checks(s, old, new) ==
    /\ Committed(old) /\ IsCurrent(old)
    /\ new.type = facts[old].type /\ new.fragment # facts[old].fragment
    /\ new.type = "ALLOCATION" =>
         <<InvoiceOf[facts[old].scope[1]], ContractOf[facts[old].scope[2]]>> \in confirmed
    /\ plan' = [plan EXCEPT ![s] =
            [old |-> old, fact |-> Fact(new.type, facts[old].scope, new.content, new.fragment)]]
    /\ UNCHANGED <<facts, draft, confirmed>>

LEMMA PlansInv ==
    ASSUME IInv, NEW s \in Superseders, NEW old \in FactIds, NEW new \in Replacements, Checks(s, old, new)
    PROVE  IInv'
<1> DEFINE fact == Fact(new.type, facts[old].scope, new.content, new.fragment)
<1>0. /\ fact.type = new.type /\ fact.scope = facts[old].scope /\ fact.content = new.content
      /\ fact.fragment = new.fragment /\ fact.next = None
      /\ fact \in Rows
      /\ [old |-> old, fact |-> fact] \in Plans
  <2>1. facts[old] \in Rows
    BY DEF IInv, Typed, Checks, IsCurrent, Exists
  <2>2. facts[old].scope \in {e.scope : e \in Asserted}
    BY <2>1 DEF Rows
  <2>3. fact \in Rows
    BY <2>2 DEF Rows, Fact, Fragments
  <2> QED BY <2>3 DEF Fact, Plans
<1> HIDE DEF fact
<1>1. plan' = [plan EXCEPT ![s] = [old |-> old, fact |-> fact]]
  BY DEF Checks, fact
<1>2. \A t \in Superseders : plan'[t] = IF t = s THEN [old |-> old, fact |-> fact] ELSE plan[t]
  BY <1>1 DEF IInv, Typed
<1> USE DEF IInv, Exists
<1>3. Typed'
  BY <1>0, <1>1 DEF Typed, Checks
<1>4. DraftsApart' /\ Lineage' /\ Preceded'
  BY DEF DraftsApart, Lineage, Preceded, Checks, Committed, Linked
<1>5. Linked(old, fact) /\ fact.fragment \in Fragments
  BY <1>0 DEF Linked, Fragments, Checks
<1>6. PlansChecked'
  BY <1>0, <1>2, <1>5 DEF PlansChecked, Checks, Committed, Linked
<1>7. Scoped(fact)
  BY <1>0 DEF Scoped, Checks
<1>8. AllConfirmed'
  BY <1>2, <1>7 DEF AllConfirmed, Checks, Scoped
<1> QED BY <1>3, <1>4, <1>6, <1>8

\* A plan is abandoned.
Forgets(s) ==
    /\ plan' = [plan EXCEPT ![s] = None]
    /\ UNCHANGED <<facts, draft, confirmed>>

LEMMA ForgetsInv ==
    ASSUME IInv, NEW s \in Superseders, Forgets(s)
    PROVE  IInv'
<1> USE DEF IInv, Forgets, Exists
<1>1. \A t \in Superseders : plan'[t] = IF t = s THEN None ELSE plan[t]
  BY DEF Typed
<1>2. Typed'
  BY DEF Typed
<1>3. DraftsApart' /\ Lineage' /\ Preceded'
  BY DEF DraftsApart, Lineage, Preceded, Committed, Linked
<1>4. PlansChecked' /\ AllConfirmed'
  BY <1>1 DEF PlansChecked, AllConfirmed, Committed, Linked, Scoped
<1> QED BY <1>2, <1>3, <1>4

\* The insert, the compare-and-set, the commit.
LEMMA MarkInv ==
    ASSUME IInv, NEW s \in Superseders, InsertAndMark(s)
    PROVE  IInv'
<1>a. plan[s] \in Plans /\ Room(s)
  BY DEF IInv, Typed, InsertAndMark
<1>b. PICK old \in FactIds : old = plan[s].old
  BY <1>a DEF Plans
<1>c. PICK fact \in Rows : fact = plan[s].fact
  BY <1>a DEF Plans
<1>0. /\ Committed(old) /\ Linked(old, fact) /\ facts[old] \in Rows
      /\ fact.fragment \in Fragments /\ fact.next = None /\ facts[old].next = None /\ Scoped(fact)
  BY <1>b, <1>c DEF IInv, Typed, PlansChecked, AllConfirmed, InsertAndMark, Committed, Exists
<1>d. PICK new \in FactIds : new = New(s) /\ facts[new] = None
  <2>1. fact.fragment \in DOMAIN Pool
    BY <1>0, PoolAssumption
  <2>2. New(s) \in Free(fact.fragment)
    BY <1>a, <1>c DEF Room, New, Fresh
  <2> QED BY <2>1, <2>2 DEF Free, FactIds, Exists
<1>1. facts[new] = None
  BY <1>d
<1>2. /\ facts' = [facts EXCEPT ![new] = fact, ![old].next = new]
      /\ plan' = [plan EXCEPT ![s] = None]
      /\ UNCHANGED <<draft, confirmed>>
  BY <1>b, <1>c, <1>d DEF InsertAndMark, Mark, EndSupersession
<1>e. PICK marked : marked = [facts[old] EXCEPT !.next = new]
  OBVIOUS
<1>3. new # old /\ fact # None /\ marked \in Rows /\ marked # None
  BY <1>0, <1>1, <1>e, NoneAssumption DEF Rows, Committed, Exists
<1>4. /\ marked.type = facts[old].type /\ marked.scope = facts[old].scope
      /\ marked.fragment = facts[old].fragment /\ marked.next = new
  BY <1>0, <1>e DEF Rows
<1>5. \A g \in FactIds : facts'[g] = IF g = old THEN marked ELSE IF g = new THEN fact ELSE facts[g]
  BY <1>0, <1>1, <1>2, <1>3, <1>e DEF IInv, Typed
<1>6. \A d \in Documents : new \notin draft[d].facts /\ old \notin draft[d].facts
  BY <1>0, <1>1 DEF IInv, DraftsApart, Exists, Committed
<1>7. Typed'
  BY <1>0, <1>1, <1>2, <1>3, <1>5 DEF IInv, Typed
<1>8. DraftsApart'
  BY <1>2, <1>3, <1>5, <1>6 DEF IInv, DraftsApart, Exists, Typed
<1>9. \A g \in FactIds : Committed(g) => Committed(g)' /\ g # new
  BY <1>1, <1>2, <1>3, <1>5 DEF Committed, Exists
<1>10. Committed(new)'
  BY <1>1, <1>2, <1>3, <1>5, <1>6 DEF Committed, Exists
<1>12. Linked(old, facts[new])'
  <2>1. facts'[new] = fact /\ facts'[old] = marked
    BY <1>3, <1>5
  <2> QED BY <1>0, <1>4, <2>1 DEF Linked
<1>13. \A g \in FactIds : Exists(g)' /\ facts'[g].next # None =>
          \/ g = old /\ facts'[g].next = new
          \/ /\ g # old /\ g # new /\ facts'[g].next = facts[g].next /\ Exists(g) /\ Committed(g)
             /\ facts[g].next \in FactIds /\ Committed(facts[g].next) /\ facts[g].next # new
  <2> SUFFICES ASSUME NEW g \in FactIds, Exists(g)', facts'[g].next # None, g # old
               PROVE  /\ g # new /\ facts'[g].next = facts[g].next /\ Exists(g) /\ Committed(g)
                      /\ facts[g].next \in FactIds /\ Committed(facts[g].next) /\ facts[g].next # new
    BY <1>4, <1>5
  <2>1. g # new /\ facts'[g] = facts[g] /\ Exists(g) /\ facts[g].next # None
    BY <1>0, <1>5 DEF Exists
  <2>2. Committed(g) /\ facts[g].next \in FactIds
    BY <2>1 DEF IInv, DraftsApart, Committed, Exists, Typed, Rows
  <2>3. Committed(facts[g].next)
    BY <2>1 DEF IInv, Lineage
  <2> QED BY <1>9, <2>1, <2>2, <2>3
<1>14. Lineage'
  <2>1. ASSUME NEW f \in FactIds, Exists(f)', facts'[f].next # None
        PROVE  Committed(facts[f].next)' /\ Linked(f, facts[facts[f].next])'
    <3>1. CASE f = old
      BY <1>4, <1>5, <1>10, <1>12, <3>1
    <3>2. CASE f # old
      <4>1. /\ facts'[f].next = facts[f].next /\ Exists(f) /\ Committed(f)
            /\ facts[f].next \in FactIds /\ Committed(facts[f].next) /\ facts[f].next # None
        BY <1>13, <2>1, <3>2
      <4>2. Linked(f, facts[facts[f].next])
        BY <4>1 DEF IInv, Lineage
      <4>3. Committed(facts[f].next)'
        BY <1>9, <4>1 DEF Committed, Exists
      <4>4. facts'[facts'[f].next].type = facts[facts[f].next].type
            /\ facts'[facts'[f].next].scope = facts[facts[f].next].scope
            /\ facts'[facts'[f].next].fragment = facts[facts[f].next].fragment
        BY <1>4, <1>5, <1>9, <4>1
      <4>5. facts'[f].type = facts[f].type /\ facts'[f].scope = facts[f].scope
            /\ facts'[f].fragment = facts[f].fragment
        BY <1>4, <1>5, <1>9, <4>1
      <4> QED BY <4>1, <4>2, <4>3, <4>4, <4>5, <1>9 DEF Linked, Committed, Exists
    <3> QED BY <3>1, <3>2
  <2>2. ASSUME NEW g \in FactIds, NEW h \in FactIds, Exists(g)', Exists(h)', facts'[g].next # None,
               facts'[g].next = facts'[h].next
        PROVE  g = h
    BY <1>13, <2>2 DEF IInv, Lineage
  <2> QED BY <2>1, <2>2 DEF Lineage
<1>15. Preceded'
  <2> SUFFICES ASSUME NEW f \in FactIds, Exists(f)', facts'[f].fragment \in Fragments
               PROVE  \E g \in FactIds : Exists(g)' /\ facts'[g].next = f
    BY DEF Preceded
  <2>1. CASE f = new
    BY <1>0, <1>3, <1>4, <1>5, <2>1 DEF Exists
  <2>2. CASE f # new
    <3>1. Exists(f) /\ facts[f].fragment \in Fragments
      BY <1>0, <1>4, <1>5, <2>2 DEF Exists, Committed
    <3>2. PICK g \in FactIds : Exists(g) /\ facts[g].next = f
      BY <3>1 DEF IInv, Preceded
    <3>3. g # old /\ g # new
      BY <1>0, <1>1, <3>2, NoneAssumption DEF Exists
    <3> QED BY <1>5, <3>2, <3>3 DEF Exists
  <2> QED BY <2>1, <2>2
<1>16. PlansChecked'
  <2> SUFFICES ASSUME NEW t \in Superseders, plan'[t] # None
               PROVE  /\ Committed(plan[t].old)' /\ Linked(plan[t].old, plan[t].fact)'
                      /\ plan'[t].fact.fragment \in Fragments /\ plan'[t].fact.next = None
    BY DEF PlansChecked
  <2>1. plan'[t] = plan[t] /\ plan[t] # None /\ plan[t].old \in FactIds
    BY <1>2 DEF IInv, Typed, Plans
  <2>2. /\ Committed(plan[t].old) /\ Linked(plan[t].old, plan[t].fact)
        /\ plan[t].fact.fragment \in Fragments /\ plan[t].fact.next = None
    BY <2>1 DEF IInv, PlansChecked
  <2>3. Committed(plan[t].old)'
    BY <1>9, <2>1, <2>2 DEF Committed, Exists
  <2>4. Linked(plan[t].old, plan[t].fact)'
    BY <1>4, <1>5, <1>9, <2>1, <2>2 DEF Linked
  <2> QED BY <2>1, <2>2, <2>3, <2>4
<1>17. AllConfirmed'
  <2>1. Scoped(marked)
    BY <1>0, <1>4 DEF IInv, AllConfirmed, Scoped, Committed
  <2>2. \A g \in FactIds : Exists(g)' => Scoped(facts'[g])
    BY <1>0, <1>5, <2>1 DEF IInv, AllConfirmed, Exists
  <2>3. \A t \in Superseders : plan'[t] # None => Scoped(plan'[t].fact)
    BY <1>2 DEF IInv, AllConfirmed, Typed
  <2> QED BY <1>2, <2>2, <2>3 DEF AllConfirmed, Scoped
<1> QED BY <1>7, <1>8, <1>14, <1>15, <1>16, <1>17 DEF IInv

-----------------------------------------------------------------------------
(* Every step is one of these.                                             *)

LEMMA OwnRow ==
    ASSUME NEW d \in Documents, row[d] \in DOMAIN Entries[d],
           NEW type \in {"ALLOCATION", "COST", "BASIS", "HISTORICAL"}
    PROVE  LET fact == Fact(type, Entry(d).scope, Entry(d).content, Fragment(d))
           IN  /\ fact \in Rows /\ fact.next = None /\ fact.fragment \in OwnFragments
               /\ fact.type = type /\ fact.scope = Entry(d).scope
BY DEF Fact, Entry, Fragment, Rows, Asserted, OwnFragments

LEMMA FreshId ==
    ASSUME NEW d \in Documents, Free(d) # {}
    PROVE  Fresh(d) \in FactIds /\ ~Exists(Fresh(d))
<1>1. Fresh(d) \in Free(d)
  BY DEF Fresh
<1> QED BY <1>1, PoolAssumption DEF Free, FactIds

LEMMA SkipKeeps ==
    ASSUME IInv, NEW d \in Documents, Skip(d)
    PROVE  Keeps
BY DEF Skip, Keeps, IInv, Typed, DraftsTyped

LEMMA ImportFactInv ==
    ASSUME IInv, NEW d \in Documents, ImportFact(d)
    PROVE  IInv'
<1>1. CASE Skip(d)
  BY <1>1, SkipKeeps, KeepsInv
<1>2. CASE ~Skip(d)
  <2>1. PICK type \in {"COST", "BASIS", "HISTORICAL"} : Processing(d, type)
    BY DEF ImportFact, FactOnly
  <2> DEFINE fact == Fact(type, Entry(d).scope, Entry(d).content, Fragment(d))
  <2>2. /\ facts' = [facts EXCEPT ![Fresh(d)] = fact] /\ Free(d) # {} /\ UNCHANGED <<plan, confirmed>>
        /\ draft' = [draft EXCEPT ![d].facts = @ \cup {Fresh(d)}]
    BY <1>2, <2>1 DEF ImportFact, AddFact, Write, Processing
  <2>3. fact \in Rows /\ fact.next = None /\ fact.fragment \in OwnFragments /\ Scoped(fact)
    BY <2>1, OwnRow DEF Processing, Scoped
  <2>4. PICK f \in FactIds : f = Fresh(d) /\ ~Exists(f)
    BY <2>2, FreshId
  <2>5. DraftsTyped' /\ draft'[d].facts = draft[d].facts \cup {f}
        /\ \A e \in Documents \ {d} : draft'[e].facts = draft[e].facts
    BY <2>2, <2>4 DEF IInv, Typed, DraftsTyped
  <2> QED BY <2>2, <2>3, <2>4, <2>5, DraftsInv DEF Drafts
<1> QED BY <1>1, <1>2

LEMMA ImportAccrualInv ==
    ASSUME IInv, NEW d \in Documents, ImportAccrual(d)
    PROVE  IInv'
<1>0. Processing(d, "HISTORICAL")
  BY DEF ImportAccrual
<1>1. CASE Skip(d)
  BY <1>1, SkipKeeps, KeepsInv
<1>2. CASE Write(d, "accruals", {Entry(d).scope}) /\ UNCHANGED <<facts, confirmed, plan>>
  <2>1. draft' = [draft EXCEPT ![d].accruals = @ \cup {Entry(d).scope}]
    BY <1>2 DEF Write
  <2> QED BY <1>2, <2>1, KeepsInv DEF Keeps, IInv, Typed, DraftsTyped
<1>3. CASE /\ AddFact(d, Fact("HISTORICAL", Entry(d).scope, Entry(d).content, Fragment(d)))
           /\ draft' = [draft EXCEPT ![d].facts = @ \cup {Fresh(d)}, ![d].accruals = @ \cup {Entry(d).scope}]
  <2> DEFINE fact == Fact("HISTORICAL", Entry(d).scope, Entry(d).content, Fragment(d))
  <2>1. facts' = [facts EXCEPT ![Fresh(d)] = fact] /\ Free(d) # {} /\ UNCHANGED <<plan, confirmed>>
    BY <1>3 DEF AddFact
  <2>2. fact \in Rows /\ fact.next = None /\ fact.fragment \in OwnFragments /\ Scoped(fact)
    BY <1>0, OwnRow DEF Processing, Scoped
  <2>3. PICK f \in FactIds : f = Fresh(d) /\ ~Exists(f)
    BY <2>1, FreshId
  <2>4. DraftsTyped' /\ draft'[d].facts = draft[d].facts \cup {f}
        /\ \A e \in Documents \ {d} : draft'[e].facts = draft[e].facts
    BY <1>3, <2>3 DEF IInv, Typed, DraftsTyped
  <2> QED BY <2>1, <2>2, <2>3, <2>4, DraftsInv DEF Drafts
<1> QED BY <1>1, <1>2, <1>3 DEF ImportAccrual

LEMMA AddAllocationInv ==
    ASSUME IInv, NEW d \in Documents, AddAllocation(d)
    PROVE  IInv'
<1> DEFINE fact == Fact("ALLOCATION", Entry(d).scope, Entry(d).content, Fragment(d))
<1>1. /\ facts' = [facts EXCEPT ![Fresh(d)] = fact] /\ Free(d) # {} /\ UNCHANGED <<plan, confirmed>>
      /\ draft' = [draft EXCEPT ![d].facts = @ \cup {Fresh(d)}]
      /\ row[d] \in DOMAIN Entries[d]
  BY DEF AddAllocation, AddFact, Write, Processing
<1>2. fact \in Rows /\ fact.next = None /\ fact.fragment \in OwnFragments /\ fact.scope = Entry(d).scope
  BY <1>1, OwnRow
<1>3. Scoped(fact)
  BY <1>2 DEF Scoped, AddAllocation, ValidAllocation
<1>4. PICK f \in FactIds : f = Fresh(d) /\ ~Exists(f)
  BY <1>1, FreshId
<1>5. DraftsTyped' /\ draft'[d].facts = draft[d].facts \cup {f}
      /\ \A e \in Documents \ {d} : draft'[e].facts = draft[e].facts
  BY <1>1, <1>4 DEF IInv, Typed, DraftsTyped
<1> HIDE DEF fact
<1> QED BY <1>1, <1>2, <1>3, <1>4, <1>5, DraftsInv DEF Drafts

LEMMA ImportReversalInv ==
    ASSUME IInv, NEW d \in Documents, ImportReversal(d)
    PROVE  IInv'
<1>1. CASE Skip(d)
  BY <1>1, SkipKeeps, KeepsInv
<1>2. CASE ~Skip(d)
  <2>1. PICK R : draft' = [draft EXCEPT ![d].reversals = @ \cup R]
    BY <1>2 DEF ImportReversal, Write
  <2>2. UNCHANGED <<facts, plan, confirmed>>
    BY <1>2 DEF ImportReversal
  <2> QED BY <2>1, <2>2, KeepsInv DEF Keeps, IInv, Typed, DraftsTyped
<1> QED BY <1>1, <1>2

LEMMA ReleasePublishes ==
    ASSUME IInv, NEW d \in Documents, draft' = [draft EXCEPT ![d] = Nothing]
    PROVE  /\ DraftsTyped' /\ draft'[d].facts = {}
           /\ \A e \in Documents \ {d} : draft'[e].facts = draft[e].facts
BY DEF IInv, Typed, DraftsTyped, Nothing

LEMMA DocumentInv ==
    ASSUME IInv, NEW d \in Documents,
           \/ Start(d) \/ ImportFact(d) \/ ImportAccrual(d) \/ KeepAllocation(d) \/ AddAllocation(d)
           \/ ImportReversal(d) \/ Checkpoint(d) \/ Commit(d) \/ Rollback(d)
    PROVE  IInv'
<1>1. CASE Start(d)
  BY <1>1, KeepsInv DEF Start, Keeps, IInv, Typed, DraftsTyped
<1>2. CASE KeepAllocation(d)
  BY <1>2, SkipKeeps, KeepsInv DEF KeepAllocation
<1>3. CASE Checkpoint(d)
  BY <1>3, ReleasePublishes, PublishesInv DEF Checkpoint, Publishes
<1>4. CASE Commit(d)
  BY <1>4, ReleasePublishes, PublishesInv DEF Commit, Release, Publishes
<1>5. CASE Rollback(d)
  BY <1>5, ReleasePublishes, DropsInv DEF Rollback, Release, Drops
<1> QED BY <1>1, <1>2, <1>3, <1>4, <1>5, ImportFactInv, ImportAccrualInv, AddAllocationInv, ImportReversalInv

LEMMA SupersederInv ==
    ASSUME IInv, NEW s \in Superseders,
           \/ \E old \in FactIds, new \in Replacements : Supersede(s, old, new)
           \/ InsertAndMark(s) \/ Lose(s) \/ Crash(s)
    PROVE  IInv'
<1>1. CASE \E old \in FactIds, new \in Replacements : Supersede(s, old, new)
  <2>1. PICK old \in FactIds, new \in Replacements : Supersede(s, old, new)
    BY <1>1
  <2>2. Checks(s, old, new)
    BY <2>1 DEF Supersede, Checks, ValidAllocation
  <2> QED BY <2>2, PlansInv
<1>2. CASE Lose(s) \/ Crash(s)
  BY <1>2, ForgetsInv DEF Lose, Crash, EndSupersession, Forgets
<1> QED BY <1>1, <1>2, MarkInv

LEMMA StepInv ==
    ASSUME IInv, [CloseNext]_vars
    PROVE  IInv'
<1>1. ASSUME NEW i \in Invoices, NEW c \in Contracts, Confirm(i, c)
      PROVE  IInv'
  BY <1>1, KeepsInv DEF Confirm, Keeps, session, IInv, Typed, DraftsTyped
<1>2. ASSUME NEW p \in Periods, NEW r \in Reversals(p), Book(r)
      PROVE  IInv'
  BY <1>2, KeepsInv DEF Book, Keeps, session, IInv, Typed, DraftsTyped
<1>3. CASE UNCHANGED vars
  BY <1>3, KeepsInv DEF vars, Keeps, IInv, Typed, DraftsTyped
<1> QED BY <1>1, <1>2, <1>3, DocumentInv, SupersederInv DEF CloseNext, Next

LEMMA InitInv == Init => IInv
<1> SUFFICES ASSUME Init PROVE IInv
  OBVIOUS
<1> USE DEF Init, Exists
<1>1. Typed
  BY DEF Typed, Nothing
<1>2. DraftsApart
  BY DEF DraftsApart, Nothing
<1> QED BY <1>1, <1>2 DEF IInv, Lineage, Preceded, PlansChecked, AllConfirmed

-----------------------------------------------------------------------------
(* What it gives.                                                          *)

\* A fact is superseded at most once, by a fact about the same business, and
\* the loser of a race leaves nothing behind (whole_fact_supersession.py).
THEOREM SupersessionIsOnce == CloseSpec => []SupersededOnce
<1>1. IInv => SupersededOnce
  <2> SUFFICES ASSUME IInv PROVE SupersededOnce
    OBVIOUS
  <2> SUFFICES ASSUME NEW f \in FactIds, Exists(f)
               PROVE  /\ \A g, h \in FactIds : Replaces(f, g) /\ Replaces(f, h) => g = h
                      /\ (\E new \in Replacements : new.fragment = facts[f].fragment)
                            => \E g \in FactIds : Replaces(f, g)
                      /\ facts[f].next # None =>
                           /\ Exists(facts[f].next)
                           /\ facts[facts[f].next].type = facts[f].type
                           /\ facts[facts[f].next].scope = facts[f].scope
                           /\ facts[facts[f].next].fragment # facts[f].fragment
    BY DEF SupersededOnce
  <2>1. \A g, h \in FactIds : Replaces(f, g) /\ Replaces(f, h) => g = h
    BY NoneAssumption DEF IInv, Lineage, Replaces
  <2>2. (\E new \in Replacements : new.fragment = facts[f].fragment) => \E g \in FactIds : Replaces(f, g)
    BY DEF IInv, Preceded, Replaces, Fragments
  <2>3. ASSUME facts[f].next # None
        PROVE  /\ Exists(facts[f].next)
               /\ facts[facts[f].next].type = facts[f].type
               /\ facts[facts[f].next].scope = facts[f].scope
               /\ facts[facts[f].next].fragment # facts[f].fragment
    BY <2>3 DEF IInv, Lineage, Linked, Committed
  <2> QED BY <2>1, <2>2, <2>3
<1>2. CloseSpec => []IInv
  BY InitInv, StepInv, PTL DEF CloseSpec
<1> QED BY <1>1, <1>2, PTL

\* Whatever facts the writers leave, the preview never requires an accrual for
\* a contract one of whose items it wants reversed or resolved (period_close.py).
THEOREM ConclusionsAgree == CloseSpec => []NoOppositeConclusions
<1>1. IInv => NoOppositeConclusions
  <2> SUFFICES ASSUME IInv, NEW p \in Periods, NEW c \in Contracts, Required(c, p) # {},
                      NEW item \in ItemsOf(c)
               PROVE  ~Answered(item, p)
    BY DEF NoOppositeConclusions
  <2>1. ~Invoiced(c, p) /\ ContractOf[item] = c
    BY DEF Required, Considered, ItemsOf
  <2>2. Qualifying(item, p) = {}
    <3> SUFFICES ASSUME NEW f \in Qualifying(item, p) PROVE FALSE
      OBVIOUS
    <3>1. /\ f \in FactIds /\ Exists(f) /\ facts[f].type = "ALLOCATION" /\ facts[f].scope[2] = item
          /\ InPeriod(InvoiceOf[facts[f].scope[1]], p)
      BY DEF Qualifying, Current, IsCurrent
    <3>2. <<InvoiceOf[facts[f].scope[1]], c>> \in confirmed
      BY <2>1, <3>1 DEF IInv, AllConfirmed, Scoped
    <3> QED BY <2>1, <3>1, <3>2 DEF Invoiced, IInv, Typed
  <2>3. ~Claimable(item, p)
    BY <2>2 DEF Claimable
  <2> QED BY <2>1, <2>3 DEF Answered, ItemMatchRequired, Contested, Ambiguous, ReversalsOf
<1>2. CloseSpec => []IInv
  BY InitInv, StepInv, PTL DEF CloseSpec
<1> QED BY <1>1, <1>2, PTL

-----------------------------------------------------------------------------
(* Sums of quantities.  F stands for the facts, before or after a step.    *)

SumIn(F, S) == SumFunction([f \in S |-> F[f].content.quantity])

\* The allocations of a line that nobody has superseded, committed or not.
Allocating(F, l) ==
    {f \in FactIds : F[f] # None /\ F[f].next = None /\ F[f].type = "ALLOCATION" /\ F[f].scope[1] = l}

Countable(F, S) == IsFiniteSet(S) /\ \A f \in S : F[f].content.quantity \in Nat

LEMMA SumInOver ==
    ASSUME NEW F, NEW S, NEW T \in SUBSET S, IsFiniteSet(S)
    PROVE  SumIn(F, T) = SumOver([f \in S |-> F[f].content.quantity], T)
<1>1. SumIn(F, T) = SumOver([f \in T |-> F[f].content.quantity], T)
  BY SumOfFunction DEF SumIn
<1>2. IsFiniteSet(T)
  BY FS_Subset
<1>3. \A f \in T : [g \in T |-> F[g].content.quantity][f] = [g \in S |-> F[g].content.quantity][f]
  OBVIOUS
<1> QED BY <1>1, <1>2, <1>3, SumAgree

LEMMA SumInNatural ==
    ASSUME NEW F, NEW S, Countable(F, S)
    PROVE  SumIn(F, S) \in Nat
<1> DEFINE q == [f \in S |-> F[f].content.quantity]
<1>1. SumIn(F, S) = SumOver(q, S)
  BY SumInOver DEF Countable
<1>2. \A f \in S : q[f] \in Nat
  BY DEF Countable
<1> HIDE DEF q
<1> QED BY <1>1, <1>2, SumNatural DEF Countable

LEMMA SumInFewer ==
    ASSUME NEW F, NEW S, Countable(F, S), NEW T \in SUBSET S
    PROVE  SumIn(F, T) <= SumIn(F, S) /\ Countable(F, T)
<1> DEFINE q == [f \in S |-> F[f].content.quantity]
<1>1. SumIn(F, S) = SumOver(q, S) /\ SumIn(F, T) = SumOver(q, T)
  BY SumInOver DEF Countable
<1>2. \A f \in S : q[f] \in Nat
  BY DEF Countable
<1>3. Countable(F, T)
  BY FS_Subset DEF Countable
<1> HIDE DEF q
<1> QED BY <1>1, <1>2, <1>3, SumFewer DEF Countable

LEMMA SumInWith ==
    ASSUME NEW F, NEW S, Countable(F, S), NEW x, x \notin S, F[x].content.quantity \in Nat
    PROVE  SumIn(F, S \cup {x}) = F[x].content.quantity + SumIn(F, S) /\ Countable(F, S \cup {x})
<1> DEFINE T == S \cup {x}
           q == [f \in T |-> F[f].content.quantity]
<1>1. IsFiniteSet(T)
  BY FS_AddElement DEF Countable
<1>2. SumIn(F, T) = SumOver(q, T) /\ SumIn(F, S) = SumOver(q, S)
  BY <1>1, SumInOver
<1>3. \A f \in T : q[f] \in Nat
  BY DEF Countable
<1>4. q[x] = F[x].content.quantity
  OBVIOUS
<1>5. Countable(F, T)
  BY <1>1 DEF Countable
<1> HIDE DEF q
<1>6. q[x] \in Int /\ \A f \in S : q[f] \in Int
  BY <1>3
<1>7. SumOver(q, T) = q[x] + SumOver(q, S)
  BY <1>6, SumWith DEF Countable
<1> QED BY <1>2, <1>4, <1>5, <1>7

LEMMA SumInSame ==
    ASSUME NEW F, NEW G, NEW S, \A f \in S : F[f].content = G[f].content
    PROVE  SumIn(F, S) = SumIn(G, S)
<1>1. [f \in S |-> F[f].content.quantity] = [f \in S |-> G[f].content.quantity]
  OBVIOUS
<1> QED BY <1>1 DEF SumIn

-----------------------------------------------------------------------------
(* Capacity: who may be writing, and what is allocated counting what is    *)
(* not committed.                                                          *)

\* Whoever is not a cutover pack writes under the lock.
Locks ==
    /\ row \in [Documents -> Nat]
    /\ \A d \in Documents : row[d] = 0 => draft[d].facts = {}
    /\ \A d \in Documents \ Cutovers : row[d] # 0 => writeLock = d
    /\ callersLock => \A s \in Superseders : plan[s] # None => writeLock = s

\* There are finitely many facts, and allocations and plans of them have quantities.
Stored == {f \in FactIds : Exists(f)}
Quantified(fact) == fact.type = "ALLOCATION" => fact.content.quantity \in Nat
Quantities ==
    /\ IsFiniteSet(Stored)
    /\ \A f \in FactIds : Exists(f) => Quantified(facts[f])
    /\ \A s \in Superseders : plan[s] # None => Quantified(plan[s].fact)

\* What a cutover pack has not committed is on its own lines.
OwnLines ==
    \A d \in Documents \cap Cutovers : \A f \in draft[d].facts :
        facts[f].type = "ALLOCATION" => CutoverAllocates(facts[f].scope[1])

\* A line that no cutover pack allocates is not exceeded, by what is there nor
\* by what a checked supersession is about to put in place of it.
PlannedFor(s, l) == plan[s] # None /\ plan[s].fact.type = "ALLOCATION" /\ plan[s].fact.scope[1] = l
Fits ==
    callersLock => \A l \in Lines : CutoverAllocates(l) \/
        /\ SumIn(facts, Allocating(facts, l)) <= Capacity(l)
        /\ \A s \in Superseders : PlannedFor(s, l) =>
             SumIn(facts, Allocating(facts, l) \ {plan[s].old}) + plan[s].fact.content.quantity <= Capacity(l)

CapacityInv == Locks /\ Quantities /\ OwnLines /\ Fits

-----------------------------------------------------------------------------
(* What the steps do to it.                                                *)

\* What a document may do to the facts: nothing but add and remove rows of its draft.
Adds(d, f, fact) ==
    /\ ~Exists(f) /\ facts' = [facts EXCEPT ![f] = fact]
    /\ draft'[d].facts = draft[d].facts \cup {f}
    /\ \A e \in Documents \ {d} : draft'[e].facts = draft[e].facts
    /\ Processing(d, fact.type) /\ fact.next = None
    /\ fact.scope = Entry(d).scope /\ fact.content = Entry(d).content
    /\ fact.type = "ALLOCATION" => AddAllocation(d)
Leaves(d) ==
    /\ facts' = facts
    /\ \A e \in Documents : draft'[e].facts \in {draft[e].facts, {}}
Removes(d) ==
    /\ facts' = [f \in FactIds |-> IF f \in draft[d].facts THEN None ELSE facts[f]]
    /\ draft'[d].facts = {}
    /\ \A e \in Documents : draft'[e].facts \in {draft[e].facts, {}}
Works(d) ==
    /\ UNCHANGED <<plan, callersLock>>
    /\ \/ Leaves(d) \/ Removes(d)
       \/ \E f \in FactIds, fact \in Rows : Adds(d, f, fact)

LEMMA SkipWorks ==
    ASSUME IInv, NEW d \in Documents, Skip(d)
    PROVE  Works(d)
BY DEF Skip, Works, Leaves

LEMMA ImportFactWorks ==
    ASSUME IInv, NEW d \in Documents, ImportFact(d)
    PROVE  Works(d)
<1>1. CASE Skip(d)
  BY <1>1, SkipWorks
<1>2. CASE ~Skip(d)
  <2>1. PICK type \in {"COST", "BASIS", "HISTORICAL"} : Processing(d, type)
    BY DEF ImportFact, FactOnly
  <2>2. PICK fact : fact = Fact(type, Entry(d).scope, Entry(d).content, Fragment(d))
    OBVIOUS
  <2>3. PICK f : f = Fresh(d)
    OBVIOUS
  <2>4. /\ facts' = [facts EXCEPT ![f] = fact] /\ Free(d) # {} /\ UNCHANGED <<plan, callersLock>>
        /\ draft' = [draft EXCEPT ![d].facts = @ \cup {f}]
    BY <1>2, <2>1, <2>2, <2>3 DEF ImportFact, AddFact, Write, Processing
  <2>5. fact \in Rows /\ fact.next = None /\ fact.type = type
        /\ fact.scope = Entry(d).scope /\ fact.content = Entry(d).content
    <3>1. fact \in Rows
      BY <2>1, <2>2, OwnRow DEF Processing
    <3> QED BY <2>2, <3>1 DEF Fact
  <2>6. f \in FactIds /\ ~Exists(f)
    BY <2>3, <2>4, FreshId
  <2>7. /\ draft'[d].facts = draft[d].facts \cup {f}
        /\ \A e \in Documents \ {d} : draft'[e].facts = draft[e].facts
    BY <2>4 DEF IInv, Typed
  <2>8. Adds(d, f, fact)
    BY <2>1, <2>4, <2>5, <2>6, <2>7 DEF Adds
  <2> QED BY <2>4, <2>5, <2>6, <2>8 DEF Works
<1> QED BY <1>1, <1>2

LEMMA ImportAccrualWorks ==
    ASSUME IInv, NEW d \in Documents, ImportAccrual(d)
    PROVE  Works(d)
<1>0. Processing(d, "HISTORICAL")
  BY DEF ImportAccrual
<1>1. CASE Skip(d)
  BY <1>1, SkipWorks
<1>2. CASE Write(d, "accruals", {Entry(d).scope}) /\ UNCHANGED <<facts, callersLock, plan>>
  <2>1. draft' = [draft EXCEPT ![d].accruals = @ \cup {Entry(d).scope}]
    BY <1>2 DEF Write
  <2> QED BY <1>2, <2>1 DEF Works, Leaves, IInv, Typed
<1>3. CASE /\ AddFact(d, Fact("HISTORICAL", Entry(d).scope, Entry(d).content, Fragment(d)))
           /\ draft' = [draft EXCEPT ![d].facts = @ \cup {Fresh(d)}, ![d].accruals = @ \cup {Entry(d).scope}]
  <2>1. PICK fact : fact = Fact("HISTORICAL", Entry(d).scope, Entry(d).content, Fragment(d))
    OBVIOUS
  <2>2. PICK f : f = Fresh(d)
    OBVIOUS
  <2>3. facts' = [facts EXCEPT ![f] = fact] /\ Free(d) # {} /\ UNCHANGED <<plan, callersLock>>
    BY <1>3, <2>1, <2>2 DEF AddFact
  <2>4. fact \in Rows /\ fact.next = None /\ fact.type = "HISTORICAL"
        /\ fact.scope = Entry(d).scope /\ fact.content = Entry(d).content
    <3>1. fact \in Rows
      BY <1>0, <2>1, OwnRow DEF Processing
    <3> QED BY <2>1, <3>1 DEF Fact
  <2>5. f \in FactIds /\ ~Exists(f)
    BY <2>2, <2>3, FreshId
  <2>6. /\ draft'[d].facts = draft[d].facts \cup {f}
        /\ \A e \in Documents \ {d} : draft'[e].facts = draft[e].facts
    BY <1>3, <2>2 DEF IInv, Typed
  <2>7. Adds(d, f, fact)
    BY <1>0, <2>3, <2>4, <2>5, <2>6 DEF Adds
  <2> QED BY <2>3, <2>4, <2>5, <2>7 DEF Works
<1> QED BY <1>1, <1>2, <1>3 DEF ImportAccrual

LEMMA AddAllocationWorks ==
    ASSUME IInv, NEW d \in Documents, AddAllocation(d)
    PROVE  Works(d)
<1>1. PICK fact : fact = Fact("ALLOCATION", Entry(d).scope, Entry(d).content, Fragment(d))
  OBVIOUS
<1>2. PICK f : f = Fresh(d)
  OBVIOUS
<1>3. /\ facts' = [facts EXCEPT ![f] = fact] /\ Free(d) # {} /\ UNCHANGED <<plan, callersLock>>
      /\ draft' = [draft EXCEPT ![d].facts = @ \cup {f}]
      /\ Processing(d, "ALLOCATION")
  BY <1>1, <1>2 DEF AddAllocation, AddFact, Write
<1>4. fact \in Rows /\ fact.next = None /\ fact.type = "ALLOCATION"
      /\ fact.scope = Entry(d).scope /\ fact.content = Entry(d).content
  <2>1. fact \in Rows
    BY <1>1, <1>3, OwnRow DEF Processing
  <2> QED BY <1>1, <2>1 DEF Fact
<1>5. f \in FactIds /\ ~Exists(f)
  BY <1>2, <1>3, FreshId
<1>6. /\ draft'[d].facts = draft[d].facts \cup {f}
      /\ \A e \in Documents \ {d} : draft'[e].facts = draft[e].facts
  BY <1>3 DEF IInv, Typed
<1>7. Adds(d, f, fact)
  BY <1>3, <1>4, <1>5, <1>6 DEF Adds
<1> QED BY <1>3, <1>4, <1>5, <1>7 DEF Works

LEMMA ImportReversalWorks ==
    ASSUME IInv, NEW d \in Documents, ImportReversal(d)
    PROVE  Works(d)
<1>1. CASE Skip(d)
  BY <1>1, SkipWorks
<1>2. CASE ~Skip(d)
  <2>1. PICK R : draft' = [draft EXCEPT ![d].reversals = @ \cup R]
    BY <1>2 DEF ImportReversal, Write
  <2>2. UNCHANGED <<facts, plan, callersLock>>
    BY <1>2 DEF ImportReversal
  <2> QED BY <2>1, <2>2 DEF Works, Leaves, IInv, Typed
<1> QED BY <1>1, <1>2

LEMMA DocumentWorks ==
    ASSUME IInv, NEW d \in Documents,
           \/ Start(d) \/ ImportFact(d) \/ ImportAccrual(d) \/ KeepAllocation(d) \/ AddAllocation(d)
           \/ ImportReversal(d) \/ Checkpoint(d) \/ Commit(d) \/ Rollback(d)
    PROVE  Works(d)
<1>0. \A e \in Documents : [draft EXCEPT ![d] = Nothing][e].facts \in {draft[e].facts, {}}
  BY DEF IInv, Typed, Nothing
<1>1. CASE Start(d)
  BY <1>1 DEF Start, Works, Leaves
<1>2. CASE KeepAllocation(d)
  BY <1>2, SkipWorks DEF KeepAllocation
<1>3. CASE Checkpoint(d)
  BY <1>0, <1>3 DEF Checkpoint, Works, Leaves
<1>4. CASE Commit(d)
  BY <1>0, <1>4 DEF Commit, Release, Works, Leaves
<1>5. CASE Rollback(d)
  BY <1>0, <1>5, ReleasePublishes DEF Rollback, Release, Works, Removes
<1> QED BY <1>1, <1>2, <1>3, <1>4, <1>5, ImportFactWorks, ImportAccrualWorks, AddAllocationWorks, ImportReversalWorks

LEMMA Positions ==
    ASSUME NEW d \in Documents
    PROVE  DOMAIN Entries[d] = 1 .. Len(Entries[d]) /\ Len(Entries[d]) \in Nat
BY EntriesAssumption

\* Moving on in a document.
LEMMA AdvanceLocks ==
    ASSUME IInv, Locks, NEW d \in Documents, row[d] \in DOMAIN Entries[d], Advance(d), UNCHANGED <<writeLock, plan, callersLock>>,
           \A e \in Documents \ {d} : draft'[e].facts = draft[e].facts
    PROVE  Locks'
<1>1. row[d] \in Nat /\ row[d] # 0 /\ row[d] + 1 \in Nat /\ row[d] + 1 # 0
  BY Positions
<1>2. row' \in [Documents -> Nat] /\ row'[d] # 0 /\ \A e \in Documents \ {d} : row'[e] = row[e]
  BY <1>1 DEF Locks, Advance
<1> QED BY <1>1, <1>2 DEF Locks

LEMMA ReleaseLocks ==
    ASSUME IInv, Locks, NEW d \in Documents, row[d] # 0, Release(d), UNCHANGED <<plan, callersLock>>
    PROVE  Locks'
<1>1. /\ row' \in [Documents -> Nat] /\ row'[d] = 0 /\ \A e \in Documents \ {d} : row'[e] = row[e]
      /\ draft'[d].facts = {} /\ \A e \in Documents \ {d} : draft'[e] = draft[e]
  BY DEF Locks, Release, Nothing, IInv, Typed
<1>2. CASE d \in Cutovers
  BY <1>1, <1>2 DEF Locks, Release
<1>3. CASE d \notin Cutovers
  <2>1. writeLock = d
    BY <1>3 DEF Locks
  <2>2. \A e \in Documents \ Cutovers : row'[e] = 0
    BY <1>1, <2>1 DEF Locks
  <2>3. callersLock => \A s \in Superseders : plan[s] = None
    BY <2>1, SessionsAssumption DEF Locks
  <2> QED BY <1>1, <2>2, <2>3 DEF Locks
<1> QED BY <1>2, <1>3

LEMMA DocumentLocks ==
    ASSUME IInv, Locks, NEW d \in Documents,
           \/ Start(d) \/ ImportFact(d) \/ ImportAccrual(d) \/ KeepAllocation(d) \/ AddAllocation(d)
           \/ ImportReversal(d) \/ Checkpoint(d) \/ Commit(d) \/ Rollback(d)
    PROVE  Locks'
<1>0. Works(d)
  BY DocumentWorks
<1>1. CASE Start(d)
  <2>1. row[d] = 0 /\ row' = [row EXCEPT ![d] = 1] /\ UNCHANGED <<draft, plan, callersLock>>
    BY <1>1 DEF Start
  <2>2. row' \in [Documents -> Nat] /\ row'[d] = 1 /\ \A e \in Documents \ {d} : row'[e] = row[e]
    BY <2>1 DEF Locks
  <2>3. CASE d \in Cutovers
    BY <1>1, <2>1, <2>2, <2>3 DEF Locks, Start
  <2>4. CASE d \notin Cutovers
    <3>1. writeLock = None /\ writeLock' = d
      BY <1>1, <2>4 DEF Start
    <3>2. \A e \in Documents \ Cutovers : row[e] = 0
      BY <3>1, SessionsAssumption DEF Locks
    <3>3. callersLock => \A s \in Superseders : plan[s] = None
      BY <3>1, SessionsAssumption DEF Locks
    <3> QED BY <2>1, <2>2, <3>1, <3>2, <3>3 DEF Locks
  <2> QED BY <2>3, <2>4
<1>2. CASE Commit(d)
  <2>1. row[d] # 0
    BY <1>2, Positions DEF Commit
  <2> QED BY <1>2, <2>1, ReleaseLocks DEF Commit
<1>3. CASE Rollback(d)
  BY <1>3, ReleaseLocks DEF Rollback
<1>4. CASE Checkpoint(d)
  <2>1. \A e \in Documents : draft'[e].facts \in {draft[e].facts, {}}
    BY <1>4 DEF Checkpoint, IInv, Typed, Nothing
  <2> QED BY <1>4, <2>1 DEF Locks, Checkpoint
<1>5. CASE ImportFact(d) \/ ImportAccrual(d) \/ KeepAllocation(d) \/ AddAllocation(d) \/ ImportReversal(d)
  <2>1. row[d] \in DOMAIN Entries[d]
    BY <1>5 DEF ImportFact, ImportAccrual, KeepAllocation, AddAllocation, ImportReversal, Processing
  <2>2. Advance(d) /\ UNCHANGED <<writeLock, plan, callersLock>>
    BY <1>5 DEF ImportFact, ImportAccrual, KeepAllocation, AddAllocation, ImportReversal, Skip, AddFact
  <2>3. \A e \in Documents \ {d} : draft'[e].facts = draft[e].facts
    <3>1. CASE draft' = draft
      BY <3>1
    <3>2. CASE \E x : draft' = [draft EXCEPT ![d] = x]
      BY <3>2 DEF IInv, Typed
    <3>3. draft' = draft \/ \E x : draft' = [draft EXCEPT ![d] = x]
      BY <1>5 DEF ImportFact, ImportAccrual, KeepAllocation, AddAllocation, ImportReversal, Skip, Write
    <3> QED BY <3>1, <3>2, <3>3
  <2> QED BY <2>1, <2>2, <2>3, AdvanceLocks
<1> QED BY <1>1, <1>2, <1>3, <1>4, <1>5

LEMMA SupersederLocks ==
    ASSUME IInv, Locks, NEW s \in Superseders,
           \/ \E old \in FactIds, new \in Replacements : Supersede(s, old, new)
           \/ InsertAndMark(s) \/ Lose(s) \/ Crash(s)
    PROVE  Locks'
<1>0. plan \in [Superseders -> Plans \cup {None}] /\ s \notin Documents /\ s # None
  BY SessionsAssumption DEF IInv, Typed
<1>1. CASE \E old \in FactIds, new \in Replacements : Supersede(s, old, new)
  <2>1. PICK old \in FactIds, new \in Replacements : Supersede(s, old, new)
    BY <1>1
  <2>2. /\ \A t \in Superseders \ {s} : plan'[t] = plan[t]
        /\ UNCHANGED <<row, draft, callersLock>>
        /\ callersLock => writeLock = None /\ writeLock' = s
        /\ ~callersLock => writeLock' = writeLock
    BY <1>0, <2>1 DEF Supersede
  <2>3. CASE callersLock
    <3>1. \A d \in Documents \ Cutovers : row[d] = 0
      BY <2>2, <2>3, SessionsAssumption DEF Locks
    <3>2. \A t \in Superseders : plan[t] = None
      BY <2>2, <2>3, SessionsAssumption DEF Locks
    <3> QED BY <2>2, <2>3, <3>1, <3>2 DEF Locks
  <2>4. CASE ~callersLock
    BY <2>2, <2>4 DEF Locks
  <2> QED BY <2>3, <2>4
<1>2. CASE EndSupersession(s) /\ plan[s] # None
  <2>1. /\ plan'[s] = None /\ \A t \in Superseders \ {s} : plan'[t] = plan[t]
        /\ UNCHANGED <<row, draft, callersLock>>
        /\ writeLock' = IF writeLock = s THEN None ELSE writeLock
    BY <1>0, <1>2 DEF EndSupersession
  <2>2. writeLock = s => \A d \in Documents \ Cutovers : row[d] = 0
    BY <1>0 DEF Locks
  <2>3. callersLock => \A t \in Superseders \ {s} : plan[t] = None
    BY <1>2 DEF Locks
  <2>4. \A d \in Documents \ Cutovers : row'[d] # 0 => writeLock' = d
    BY <2>1, <2>2 DEF Locks
  <2>5. callersLock' => \A t \in Superseders : plan'[t] # None => writeLock' = t
    BY <2>1, <2>3
  <2> QED BY <2>1, <2>4, <2>5 DEF Locks
<1> QED BY <1>1, <1>2 DEF InsertAndMark, Lose, Crash

LEMMA EntryQuantity ==
    ASSUME NEW d \in Documents, AddAllocation(d)
    PROVE  /\ Entry(d).content.quantity \in Nat
           /\ d \in Cutovers => CutoverAllocates(Entry(d).scope[1])
<1>1. row[d] \in DOMAIN Entries[d] /\ Entries[d][row[d]].type = "ALLOCATION" /\ Entry(d) = Entries[d][row[d]]
  BY DEF AddAllocation, Processing, Entry
<1>2. Entry(d) \in Asserted
  BY <1>1 DEF Asserted
<1>3. Entry(d).content.quantity \in Int
  BY <1>1, <1>2, QuantitiesAssumption
<1>4. Entry(d).content.quantity > 0
  BY DEF AddAllocation, ValidAllocation
<1> QED BY <1>1, <1>3, <1>4 DEF CutoverAllocates

LEMMA DocumentQuantities ==
    ASSUME IInv, Quantities, NEW d \in Documents, Works(d)
    PROVE  Quantities'
<1>0. UNCHANGED plan
  BY DEF Works
<1>1. CASE Leaves(d)
  <2>1. Stored' = Stored
    BY <1>1 DEF Leaves, Stored, Exists
  <2> QED BY <1>0, <1>1, <2>1 DEF Leaves, Quantities, Exists, Quantified
<1>2. CASE Removes(d)
  <2>1. \A f \in FactIds : facts'[f] # None => facts'[f] = facts[f]
    BY <1>2 DEF Removes
  <2>2. Stored' \subseteq Stored
    BY <2>1 DEF Stored, Exists
  <2>3. IsFiniteSet(Stored')
    BY <2>2, FS_Subset DEF Quantities
  <2> QED BY <1>0, <2>1, <2>3 DEF Quantities, Exists, Quantified
<1>3. ASSUME NEW f \in FactIds, NEW fact \in Rows, Adds(d, f, fact) PROVE Quantities'
  <2>1. facts'[f] = fact /\ \A g \in FactIds \ {f} : facts'[g] = facts[g]
    BY <1>3 DEF Adds, IInv, Typed
  <2>2. Stored' = Stored \cup {f}
    BY <2>1, NoneAssumption DEF Stored, Exists
  <2>3. IsFiniteSet(Stored')
    BY <2>2, FS_AddElement DEF Quantities
  <2>4. Quantified(fact)
    BY <1>3, EntryQuantity DEF Adds, Quantified
  <2> QED BY <1>0, <2>1, <2>3, <2>4 DEF Quantities, Exists, Quantified
<1> QED BY <1>1, <1>2, <1>3 DEF Works

LEMMA DocumentOwnLines ==
    ASSUME IInv, OwnLines, NEW d \in Documents, Works(d)
    PROVE  OwnLines'
<1> SUFFICES ASSUME NEW e \in Documents \cap Cutovers, NEW g \in draft'[e].facts, facts'[g].type = "ALLOCATION"
             PROVE  CutoverAllocates(facts'[g].scope[1])
  BY DEF OwnLines, CutoverAllocates
<1>1. CASE Leaves(d)
  BY <1>1 DEF Leaves, OwnLines
<1>2. CASE Removes(d)
  <2>1. g \in draft[e].facts /\ e # d
    BY <1>2 DEF Removes
  <2>2. g \notin draft[d].facts /\ g \in FactIds
    BY <2>1 DEF IInv, DraftsApart, Typed
  <2>3. facts'[g] = facts[g]
    BY <1>2, <2>2 DEF Removes
  <2> QED BY <2>1, <2>3 DEF OwnLines
<1>3. ASSUME NEW f \in FactIds, NEW fact \in Rows, Adds(d, f, fact)
      PROVE  CutoverAllocates(facts'[g].scope[1])
  <2>1. facts'[f] = fact /\ \A h \in FactIds \ {f} : facts'[h] = facts[h]
    BY <1>3 DEF Adds, IInv, Typed
  <2>2. \A h \in draft[e].facts : h \in FactIds /\ Exists(h)
    BY DEF IInv, Typed, DraftsApart
  <2>3. CASE g = f
    <3>1. e = d
      <4>1. g \notin draft[e].facts
        BY <1>3, <2>2, <2>3 DEF Adds
      <4> QED BY <1>3, <4>1 DEF Adds
    <3> QED BY <1>3, <2>1, <2>3, <3>1, EntryQuantity DEF Adds
  <2>4. CASE g # f
    <3>1. g \in draft[e].facts
      BY <1>3, <2>4 DEF Adds
    <3> QED BY <2>1, <2>2, <2>4, <3>1 DEF OwnLines
  <2> QED BY <2>3, <2>4
<1> QED BY <1>1, <1>2, <1>3 DEF Works

LEMMA Counted ==
    ASSUME Quantities, NEW l
    PROVE  Countable(facts, Allocating(facts, l))
<1>1. Allocating(facts, l) \subseteq Stored
  BY DEF Allocating, Stored, Exists
<1>2. IsFiniteSet(Allocating(facts, l))
  BY <1>1, FS_Subset DEF Quantities
<1>3. \A f \in Allocating(facts, l) : facts[f].content.quantity \in Nat
  BY DEF Allocating, Quantities, Quantified, Exists
<1> QED BY <1>2, <1>3 DEF Countable

LEMMA CapacityIsNatural == ASSUME NEW l \in Lines PROVE Capacity(l) \in Nat
BY QuantitiesAssumption DEF Capacity

\* Where no line gets an allocation nothing is exceeded.
LEMMA FitsFewer ==
    ASSUME IInv, Quantities, Fits, UNCHANGED callersLock, \A s \in Superseders : plan'[s] \in {plan[s], None},
           \A l \in Lines : ~CutoverAllocates(l) =>
             /\ Allocating(facts', l) \subseteq Allocating(facts, l)
             /\ \A f \in Allocating(facts', l) : facts'[f].content = facts[f].content
    PROVE  Fits'
<1> SUFFICES ASSUME callersLock, NEW l \in Lines, ~CutoverAllocates(l)
             PROVE  /\ SumIn(facts', Allocating(facts', l)) <= Capacity(l)
                    /\ \A s \in Superseders : PlannedFor(s, l)' =>
                         SumIn(facts', Allocating(facts', l) \ {plan'[s].old}) + plan'[s].fact.content.quantity <= Capacity(l)
  BY DEF Fits, CutoverAllocates, Capacity
<1> DEFINE A == Allocating(facts, l)
           B == Allocating(facts', l)
<1>1. Countable(facts, A) /\ B \subseteq A /\ \A f \in B : facts'[f].content = facts[f].content
  BY Counted
<1>2. Capacity(l) \in Int
  BY CapacityIsNatural
<1>3. SumIn(facts, A) \in Nat
  BY <1>1, SumInNatural
<1>4. \A S \in SUBSET B : SumIn(facts', S) = SumIn(facts, S)
  BY <1>1, SumInSame
<1>5. SumIn(facts, A) <= Capacity(l)
  BY DEF Fits
<1>6. \A S \in SUBSET A : SumIn(facts, S) \in Nat /\ Countable(facts, S)
  BY <1>1, SumInFewer, SumInNatural
<1>7. SumIn(facts', B) <= Capacity(l)
  <2>1. SumIn(facts', B) = SumIn(facts, B) /\ SumIn(facts, B) \in Nat
    BY <1>1, <1>4, <1>6
  <2>2. SumIn(facts, B) <= SumIn(facts, A)
    BY <1>1, SumInFewer
  <2> QED BY <1>2, <1>3, <1>5, <2>1, <2>2
<1>8. ASSUME NEW s \in Superseders, PlannedFor(s, l)'
      PROVE  SumIn(facts', B \ {plan'[s].old}) + plan'[s].fact.content.quantity <= Capacity(l)
  <2>1. plan'[s] = plan[s] /\ PlannedFor(s, l)
    BY <1>8 DEF PlannedFor
  <2>2. PICK old : old = plan[s].old
    OBVIOUS
  <2>3. PICK q : q = plan[s].fact.content.quantity
    OBVIOUS
  <2>4. q \in Nat
    BY <2>1, <2>3 DEF Quantities, Quantified, PlannedFor
  <2>5. SumIn(facts, A \ {old}) + q <= Capacity(l)
    BY <2>1, <2>2, <2>3 DEF Fits
  <2>6. A \ {old} \in SUBSET A /\ B \ {old} \in SUBSET (A \ {old}) /\ B \ {old} \in SUBSET B
    BY <1>1
  <2>7. SumIn(facts, A \ {old}) \in Nat /\ SumIn(facts, B \ {old}) \in Nat /\ Countable(facts, A \ {old})
    BY <1>1, <1>6, <2>6
  <2>8. SumIn(facts, B \ {old}) <= SumIn(facts, A \ {old})
    BY <2>6, <2>7, SumInFewer
  <2>9. SumIn(facts', B \ {old}) = SumIn(facts, B \ {old})
    BY <1>4, <2>6
  <2>10. SumIn(facts', B \ {old}) + q <= Capacity(l)
    BY <1>2, <2>4, <2>5, <2>7, <2>8, <2>9
  <2> QED BY <2>1, <2>2, <2>3, <2>10
<1> QED BY <1>7, <1>8

\* What the writer of an allocation sees on the line is what is there.
LEMMA SeesAll ==
    ASSUME IInv, Locks, OwnLines, NEW d \in Documents \ Cutovers, row[d] # 0,
           NEW l, ~CutoverAllocates(l)
    PROVE  {g \in Own(d, "ALLOCATION") : facts[g].scope[1] = l} = Allocating(facts, l)
<1>1. ASSUME NEW f \in Allocating(facts, l) PROVE Sees(d, f)
  <2> SUFFICES ASSUME NEW e \in Documents, e # d, f \in draft[e].facts PROVE FALSE
    BY <1>1 DEF Sees, Committed, Allocating, Exists
  <2>1. CASE e \in Cutovers
    BY <1>1, <2>1 DEF OwnLines, Allocating
  <2>2. CASE e \notin Cutovers
    BY <2>2 DEF Locks
  <2> QED BY <2>1, <2>2
<1> QED BY <1>1 DEF Own, IsCurrent, Exists, Allocating

LEMMA AddAllocationFits ==
    ASSUME IInv, CapacityInv, NEW d \in Documents, NEW f \in FactIds, NEW fact \in Rows,
           Adds(d, f, fact), AddAllocation(d), fact.type = "ALLOCATION"
    PROVE  Fits'
<1>1. /\ facts'[f] = fact /\ facts[f] = None /\ \A g \in FactIds \ {f} : facts'[g] = facts[g]
      /\ UNCHANGED <<plan, callersLock>>
  BY DEF Adds, IInv, Typed, Exists, AddAllocation, AddFact
<1>2. row[d] # 0
  BY Positions DEF AddAllocation, Processing
<1>3. CASE d \in Cutovers
  <2>1. CutoverAllocates(fact.scope[1])
    BY <1>3, EntryQuantity DEF Adds
  <2>2. ASSUME NEW l \in Lines, ~CutoverAllocates(l)
        PROVE  /\ Allocating(facts', l) \subseteq Allocating(facts, l)
               /\ \A g \in Allocating(facts', l) : facts'[g].content = facts[g].content
    BY <1>1, <2>1, <2>2 DEF Allocating
  <2> QED BY <1>1, <2>2, FitsFewer DEF CapacityInv
<1>4. CASE d \notin Cutovers
  <2> SUFFICES ASSUME callersLock, NEW l \in Lines, ~CutoverAllocates(l)
               PROVE  /\ SumIn(facts', Allocating(facts', l)) <= Capacity(l)
                      /\ \A s \in Superseders : ~PlannedFor(s, l)'
    BY <1>1 DEF Fits, CutoverAllocates, Capacity
  <2>1. \A s \in Superseders : plan[s] = None
    BY <1>2, <1>4, SessionsAssumption DEF CapacityInv, Locks
  <2>2. \A s \in Superseders : ~PlannedFor(s, l)'
    BY <1>1, <2>1 DEF PlannedFor
  <2> DEFINE A == Allocating(facts, l)
             B == Allocating(facts', l)
  <2>3. Countable(facts, A) /\ Capacity(l) \in Int /\ SumIn(facts, A) <= Capacity(l)
    BY Counted, CapacityIsNatural DEF CapacityInv, Fits
  <2>4. f \notin A
    BY <1>1 DEF Allocating
  <2>5. SumIn(facts', A) = SumIn(facts, A) /\ Countable(facts', A)
    <3>1. \A g \in A : facts'[g] = facts[g]
      BY <1>1, <2>4 DEF Allocating
    <3>2. SumIn(facts', A) = SumIn(facts, A)
      BY <3>1, SumInSame
    <3> QED BY <2>3, <3>1, <3>2 DEF Countable
  <2>6. CASE fact.scope[1] # l
    <3>1. B = A
      BY <1>1, <2>4, <2>6 DEF Allocating
    <3> QED BY <2>2, <2>3, <2>5, <3>1
  <2>7. CASE fact.scope[1] = l
    <3>1. B = A \cup {f}
      BY <1>1, <2>4, <2>7, NoneAssumption DEF Allocating, Adds
    <3>2. PICK q \in Nat : q = fact.content.quantity /\ q = Entry(d).content.quantity
      BY EntryQuantity DEF Adds
    <3>3. SumIn(facts', A \cup {f}) = q + SumIn(facts', A)
      <4>1. facts'[f].content.quantity = q
        BY <1>1, <3>2
      <4> HIDE DEF A
      <4> QED BY <2>4, <2>5, <3>2, <4>1, SumInWith
    <3>4. Entry(d).scope[1] = l /\ LineQuantity[l] # None
          /\ Sum(Own(d, "ALLOCATION"), l) + q <= LineQuantity[l]
      BY <2>7, <3>2 DEF AddAllocation, ValidAllocation, Adds
    <3>5. Sum(Own(d, "ALLOCATION"), l) = SumIn(facts, A)
      BY <1>2, <1>4, SeesAll DEF CapacityInv, Sum, SumIn
    <3>6. SumIn(facts, A) \in Nat
      BY <2>3, SumInNatural
    <3>7. SumIn(facts, A) + q <= Capacity(l)
      BY <3>2, <3>4, <3>5, <3>6, QuantitiesAssumption DEF Capacity
    <3>8. SumIn(facts', B) <= Capacity(l)
      BY <2>3, <2>5, <3>1, <3>3, <3>6, <3>7
    <3> QED BY <2>2, <3>8
  <2> QED BY <2>6, <2>7
<1> QED BY <1>3, <1>4

LEMMA DocumentFits ==
    ASSUME IInv, CapacityInv, NEW d \in Documents, Works(d)
    PROVE  Fits'
<1>0. UNCHANGED <<plan, callersLock>>
  BY DEF Works
<1>1. CASE Leaves(d)
  <2>1. facts' = facts
    BY <1>1 DEF Leaves
  <2> QED BY <1>0, <2>1, FitsFewer DEF CapacityInv
<1>2. CASE Removes(d)
  <2>1. \A g \in FactIds : facts'[g] # None => facts'[g] = facts[g]
    BY <1>2 DEF Removes
  <2>2. \A l \in Lines : /\ Allocating(facts', l) \subseteq Allocating(facts, l)
                         /\ \A g \in Allocating(facts', l) : facts'[g].content = facts[g].content
    BY <2>1 DEF Allocating
  <2> QED BY <1>0, <2>2, FitsFewer DEF CapacityInv
<1>3. ASSUME NEW f \in FactIds, NEW fact \in Rows, Adds(d, f, fact) PROVE Fits'
  <2>1. CASE fact.type = "ALLOCATION"
    BY <1>3, <2>1, AddAllocationFits DEF Adds
  <2>2. CASE fact.type # "ALLOCATION"
    <3>1. facts'[f] = fact /\ \A g \in FactIds \ {f} : facts'[g] = facts[g]
      BY <1>3 DEF Adds, IInv, Typed
    <3>2. \A l \in Lines : /\ Allocating(facts', l) \subseteq Allocating(facts, l)
                           /\ \A g \in Allocating(facts', l) : facts'[g].content = facts[g].content
      BY <2>2, <3>1 DEF Allocating
    <3> QED BY <1>0, <3>2, FitsFewer DEF CapacityInv
  <2> QED BY <2>1, <2>2
<1> QED BY <1>1, <1>2, <1>3 DEF Works

LEMMA DocumentCapacity ==
    ASSUME IInv, CapacityInv, NEW d \in Documents,
           \/ Start(d) \/ ImportFact(d) \/ ImportAccrual(d) \/ KeepAllocation(d) \/ AddAllocation(d)
           \/ ImportReversal(d) \/ Checkpoint(d) \/ Commit(d) \/ Rollback(d)
    PROVE  CapacityInv'
<1>1. Works(d)
  BY DocumentWorks
<1> QED BY <1>1, DocumentLocks, DocumentQuantities, DocumentOwnLines, DocumentFits DEF CapacityInv

\* While nobody writes under the lock, what a reader sees on the line is what
\* is there.
LEMMA ReadsAll ==
    ASSUME IInv, Locks, OwnLines, writeLock \notin Documents \ Cutovers,
           NEW l, ~CutoverAllocates(l), NEW old
    PROVE  {g \in Current("ALLOCATION") \ {old} : facts[g].scope[1] = l} = Allocating(facts, l) \ {old}
<1>1. ASSUME NEW f \in Allocating(facts, l) PROVE Committed(f)
  <2> SUFFICES ASSUME NEW e \in Documents, f \in draft[e].facts PROVE FALSE
    BY <1>1 DEF Committed, Allocating, Exists
  <2>1. CASE e \in Cutovers
    BY <1>1, <2>1 DEF OwnLines, Allocating
  <2>2. CASE e \notin Cutovers
    BY <2>2 DEF Locks
  <2> QED BY <2>1, <2>2
<1> QED BY <1>1 DEF Current, Committed, IsCurrent, Exists, Allocating

LEMMA SupersedeCapacity ==
    ASSUME IInv, CapacityInv, NEW s \in Superseders, NEW old \in FactIds, NEW new \in Replacements,
           Supersede(s, old, new)
    PROVE  CapacityInv'
<1>1. PICK fact : fact = Fact(new.type, facts[old].scope, new.content, new.fragment)
  OBVIOUS
<1>2. /\ fact.type = new.type /\ fact.scope = facts[old].scope /\ fact.content = new.content
      /\ plan' = [plan EXCEPT ![s] = [old |-> old, fact |-> fact]]
      /\ UNCHANGED <<facts, draft, callersLock>>
  BY <1>1 DEF Supersede, Fact
<1>3. plan'[s].old = old /\ plan'[s].fact = fact /\ \A t \in Superseders \ {s} : plan'[t] = plan[t]
  BY <1>2 DEF IInv, Typed
<1>4. new.type = "ALLOCATION" =>
        new.content.quantity \in Nat /\ ValidAllocation(facts[old].scope, new.content, Current("ALLOCATION") \ {old})
  <2> SUFFICES ASSUME new.type = "ALLOCATION"
               PROVE  new.content.quantity \in Nat
                      /\ ValidAllocation(facts[old].scope, new.content, Current("ALLOCATION") \ {old})
    OBVIOUS
  <2>1. ValidAllocation(facts[old].scope, new.content, Current("ALLOCATION") \ {old})
    BY DEF Supersede
  <2>2. new.content.quantity \in Int
    BY QuantitiesAssumption
  <2> QED BY <2>1, <2>2 DEF ValidAllocation
<1>5. Locks'
  BY SupersederLocks DEF CapacityInv
<1>6. Quantities'
  <2>1. Quantified(fact)
    BY <1>2, <1>4 DEF Quantified
  <2> QED BY <1>2, <1>3, <2>1 DEF CapacityInv, Quantities, Stored, Exists, Quantified
<1>7. OwnLines'
  BY <1>2 DEF CapacityInv, OwnLines, CutoverAllocates
<1>8. Fits'
  <2> SUFFICES ASSUME callersLock, NEW l \in Lines, ~CutoverAllocates(l)
               PROVE  /\ SumIn(facts', Allocating(facts', l)) <= Capacity(l)
                      /\ \A t \in Superseders : PlannedFor(t, l)' =>
                           SumIn(facts', Allocating(facts', l) \ {plan'[t].old}) + plan'[t].fact.content.quantity <= Capacity(l)
    BY <1>2 DEF Fits, CutoverAllocates, Capacity
  <2>1. facts' = facts /\ SumIn(facts, Allocating(facts, l)) <= Capacity(l)
    BY <1>2 DEF CapacityInv, Fits
  <2>2. ASSUME NEW t \in Superseders, PlannedFor(t, l)'
        PROVE  SumIn(facts, Allocating(facts, l) \ {plan'[t].old}) + plan'[t].fact.content.quantity <= Capacity(l)
    <3>1. CASE t # s
      <4>1. plan'[t] = plan[t] /\ PlannedFor(t, l)
        BY <1>3, <2>2, <3>1 DEF PlannedFor
      <4> QED BY <4>1 DEF CapacityInv, Fits
    <3>2. CASE t = s
      <4>1. new.type = "ALLOCATION" /\ facts[old].scope[1] = l
        BY <1>2, <1>3, <2>2, <3>2 DEF PlannedFor
      <4>2. writeLock \notin Documents \ Cutovers
        BY SessionsAssumption DEF Supersede
      <4>3. Sum(Current("ALLOCATION") \ {old}, l) = SumIn(facts, Allocating(facts, l) \ {old})
        BY <4>2, ReadsAll DEF Sum, SumIn, CapacityInv
      <4>4. LineQuantity[l] # None /\ Sum(Current("ALLOCATION") \ {old}, l) + new.content.quantity <= LineQuantity[l]
        BY <1>4, <4>1 DEF ValidAllocation
      <4>5. SumIn(facts, Allocating(facts, l) \ {old}) + new.content.quantity <= Capacity(l)
        <5>1. Allocating(facts, l) \ {old} \in SUBSET Allocating(facts, l)
          OBVIOUS
        <5>2. Countable(facts, Allocating(facts, l))
          BY Counted DEF CapacityInv
        <5>3. SumIn(facts, Allocating(facts, l) \ {old}) \in Nat
          BY <5>1, <5>2, SumInFewer, SumInNatural
        <5> QED BY <1>4, <4>1, <4>3, <4>4, <5>3, QuantitiesAssumption DEF Capacity
      <4> QED BY <1>2, <1>3, <3>2, <4>5
    <3> QED BY <3>1, <3>2
  <2> QED BY <2>1, <2>2
<1> QED BY <1>5, <1>6, <1>7, <1>8 DEF CapacityInv

LEMMA ForgetsCapacity ==
    ASSUME IInv, CapacityInv, NEW s \in Superseders, Lose(s) \/ Crash(s)
    PROVE  CapacityInv'
<1>1. UNCHANGED <<facts, draft, callersLock>> /\ plan' = [plan EXCEPT ![s] = None]
  BY DEF Lose, Crash, EndSupersession
<1>2. \A t \in Superseders : plan'[t] \in {plan[t], None}
  BY <1>1 DEF IInv, Typed
<1>3. Locks'
  BY SupersederLocks DEF CapacityInv
<1>4. Quantities'
  BY <1>1, <1>2 DEF CapacityInv, Quantities, Stored, Exists, Quantified
<1>5. OwnLines'
  BY <1>1 DEF CapacityInv, OwnLines, CutoverAllocates
<1>6. Fits'
  BY <1>1, <1>2, FitsFewer DEF CapacityInv
<1> QED BY <1>3, <1>4, <1>5, <1>6 DEF CapacityInv

\* What the compare-and-set leaves.
Marks(s, old, new, fact, marked) ==
    /\ plan[s] # None /\ old = plan[s].old /\ fact = plan[s].fact /\ fact # None /\ fact.next = None
    /\ fact.type = facts[old].type /\ fact.scope = facts[old].scope
    /\ facts[old] # None /\ facts[old].next = None /\ facts[new] = None /\ new # old
    /\ \A d \in Documents : new \notin draft[d].facts /\ old \notin draft[d].facts
    /\ marked # None /\ marked.next = new /\ marked.type = facts[old].type /\ marked.content = facts[old].content
    /\ \A g \in FactIds : facts'[g] = IF g = old THEN marked ELSE IF g = new THEN fact ELSE facts[g]
    /\ plan'[s] = None /\ \A t \in Superseders \ {s} : plan'[t] = plan[t]
    /\ UNCHANGED <<draft, callersLock>>

LEMMA MarkStep ==
    ASSUME IInv, NEW s \in Superseders, InsertAndMark(s)
    PROVE  \E old, new \in FactIds : \E fact, marked \in Rows : Marks(s, old, new, fact, marked)
<1>a. plan[s] \in Plans /\ plan[s] # None /\ Room(s)
  BY DEF IInv, Typed, InsertAndMark
<1>b. PICK old \in FactIds : old = plan[s].old
  BY <1>a DEF Plans
<1>c. PICK fact \in Rows : fact = plan[s].fact
  BY <1>a DEF Plans
<1>0. /\ Committed(old) /\ Linked(old, fact) /\ facts[old] \in Rows
      /\ fact.fragment \in Fragments /\ fact.next = None /\ facts[old].next = None
  BY <1>a, <1>b, <1>c DEF IInv, Typed, PlansChecked, InsertAndMark, Committed, Exists
<1>d. PICK new \in FactIds : new = New(s) /\ facts[new] = None
  <2>1. fact.fragment \in DOMAIN Pool
    BY <1>0, PoolAssumption
  <2>2. New(s) \in Free(fact.fragment)
    BY <1>a, <1>c DEF Room, New, Fresh
  <2> QED BY <2>1, <2>2 DEF Free, FactIds, Exists
<1>1. facts[new] = None
  BY <1>d
<1>2. /\ facts' = [facts EXCEPT ![new] = fact, ![old].next = new]
      /\ plan' = [plan EXCEPT ![s] = None]
      /\ UNCHANGED <<draft, callersLock>>
  BY <1>b, <1>c, <1>d DEF InsertAndMark, Mark, EndSupersession
<1>e. PICK marked : marked = [facts[old] EXCEPT !.next = new]
  OBVIOUS
<1>3. new # old /\ fact # None /\ marked \in Rows /\ marked # None
  BY <1>0, <1>1, <1>e, NoneAssumption DEF Rows, Committed, Exists
<1>4. marked.type = facts[old].type /\ marked.content = facts[old].content /\ marked.next = new
  BY <1>0, <1>e DEF Rows
<1>5. \A g \in FactIds : facts'[g] = IF g = old THEN marked ELSE IF g = new THEN fact ELSE facts[g]
  BY <1>0, <1>1, <1>2, <1>3, <1>e DEF IInv, Typed
<1>6. \A d \in Documents : new \notin draft[d].facts /\ old \notin draft[d].facts
  BY <1>0, <1>1 DEF IInv, DraftsApart, Exists, Committed
<1>7. plan'[s] = None /\ \A t \in Superseders \ {s} : plan'[t] = plan[t]
  BY <1>2 DEF IInv, Typed
<1>8. facts[old] # None /\ fact.type = facts[old].type /\ fact.scope = facts[old].scope
  BY <1>0 DEF Committed, Exists, Linked
<1>9. Marks(s, old, new, fact, marked)
  BY <1>a, <1>b, <1>c, <1>0, <1>1, <1>2, <1>3, <1>4, <1>5, <1>6, <1>7, <1>8 DEF Marks
<1> QED BY <1>3, <1>9

LEMMA MarkCapacity ==
    ASSUME IInv, CapacityInv, NEW s \in Superseders, InsertAndMark(s)
    PROVE  CapacityInv'
<1>1. PICK old \in FactIds, new \in FactIds : \E fact, marked \in Rows : Marks(s, old, new, fact, marked)
  BY MarkStep
<1>2. PICK fact \in Rows, marked \in Rows : Marks(s, old, new, fact, marked)
  BY <1>1
<1>3. Quantified(fact) /\ Quantified(marked)
  BY <1>2 DEF Marks, CapacityInv, Quantities, Quantified, Exists
<1>4. \A g \in FactIds : facts'[g] = IF g = old THEN marked ELSE IF g = new THEN fact ELSE facts[g]
  BY <1>2 DEF Marks
<1>5. Locks'
  BY SupersederLocks DEF CapacityInv
<1>6. Quantities'
  <2>1. Stored' = Stored \cup {new}
    BY <1>2, <1>4 DEF Stored, Exists, Marks
  <2>2. IsFiniteSet(Stored')
    BY <2>1, FS_AddElement DEF CapacityInv, Quantities
  <2>3. \A f \in FactIds : Exists(f)' => Quantified(facts'[f])
    BY <1>3, <1>4 DEF CapacityInv, Quantities, Exists
  <2>4. \A t \in Superseders : plan'[t] # None => Quantified(plan'[t].fact)
    BY <1>2 DEF Marks, CapacityInv, Quantities
  <2> QED BY <2>2, <2>3, <2>4 DEF Quantities, Quantified
<1>7. OwnLines'
  <2>1. draft' = draft /\ \A d \in Documents : \A g \in draft[d].facts : facts'[g] = facts[g]
    BY <1>2, <1>4 DEF Marks, IInv, Typed
  <2> QED BY <2>1 DEF CapacityInv, OwnLines, CutoverAllocates
<1>8. Fits'
  <2> SUFFICES ASSUME callersLock, NEW l \in Lines, ~CutoverAllocates(l)
               PROVE  /\ SumIn(facts', Allocating(facts', l)) <= Capacity(l)
                      /\ \A t \in Superseders : ~PlannedFor(t, l)'
    BY <1>2 DEF Fits, CutoverAllocates, Capacity, Marks
  <2>1. \A t \in Superseders : plan'[t] = None
    BY <1>2 DEF Marks, CapacityInv, Locks
  <2>2. \A t \in Superseders : ~PlannedFor(t, l)'
    BY <2>1 DEF PlannedFor
  <2> DEFINE A == Allocating(facts, l)
             B == Allocating(facts', l)
  <2>3. Countable(facts, A) /\ Capacity(l) \in Int /\ SumIn(facts, A) <= Capacity(l)
    BY Counted, CapacityIsNatural DEF CapacityInv, Fits
  <2>4. new \notin A
    BY <1>2 DEF Allocating, Marks
  <2>5. \A g \in A \ {old} : facts'[g] = facts[g]
    BY <1>4, <2>4 DEF Allocating
  <2>6. A \ {old} \in SUBSET A
    OBVIOUS
  <2>7. Countable(facts, A \ {old})
    BY <2>3, <2>6, SumInFewer
  <2>8. SumIn(facts', A \ {old}) = SumIn(facts, A \ {old}) /\ Countable(facts', A \ {old})
    <3>1. SumIn(facts', A \ {old}) = SumIn(facts, A \ {old})
      BY <2>5, SumInSame
    <3> QED BY <2>5, <2>7, <3>1 DEF Countable
  <2>9. CASE fact.type = "ALLOCATION" /\ fact.scope[1] = l
    <3>1. B = (A \ {old}) \cup {new}
      BY <1>2, <1>4, <2>9, NoneAssumption DEF Allocating, Marks
    <3>2. PICK q \in Nat : q = fact.content.quantity
      BY <1>3, <2>9 DEF Quantified
    <3>3. facts'[new].content.quantity = q
      BY <1>2, <1>4, <3>2 DEF Marks
    <3>4. new \notin A \ {old}
      BY <2>4
    <3>5. SumIn(facts, A \ {old}) + q <= Capacity(l)
      BY <1>2, <2>9, <3>2 DEF Marks, CapacityInv, Fits, PlannedFor
    <3>6. SumIn(facts, A \ {old}) \in Nat
      BY <2>7, SumInNatural
    <3> HIDE DEF A
    <3>7. SumIn(facts', (A \ {old}) \cup {new}) = q + SumIn(facts', A \ {old})
      BY <2>8, <3>2, <3>3, <3>4, SumInWith
    <3>8. SumIn(facts', B) <= Capacity(l)
      BY <2>3, <2>8, <3>1, <3>5, <3>6, <3>7
    <3> QED BY <2>2, <3>8
  <2>10. CASE ~(fact.type = "ALLOCATION" /\ fact.scope[1] = l)
    <3>1. B = A /\ old \notin A
      BY <1>2, <1>4, <2>10, NoneAssumption DEF Allocating, Marks
    <3>2. A \ {old} = A
      BY <3>1
    <3> QED BY <2>2, <2>3, <2>8, <3>1, <3>2
  <2> QED BY <2>9, <2>10
<1> QED BY <1>5, <1>6, <1>7, <1>8 DEF CapacityInv

LEMMA StepCapacity ==
    ASSUME IInv, CapacityInv, [CloseNext]_vars
    PROVE  CapacityInv'
<1>1. CASE UNCHANGED <<facts, row, draft, writeLock, plan, callersLock>>
  <2>1. Locks' /\ Quantities' /\ OwnLines'
    BY <1>1 DEF CapacityInv, Locks, Quantities, OwnLines, Stored, Exists, Quantified, CutoverAllocates
  <2>2. Fits'
    BY <1>1, FitsFewer DEF CapacityInv
  <2> QED BY <2>1, <2>2 DEF CapacityInv
<1>2. ASSUME NEW i \in Invoices, NEW c \in Contracts, Confirm(i, c)
      PROVE  CapacityInv'
  BY <1>1, <1>2 DEF Confirm, session
<1>3. ASSUME NEW p \in Periods, NEW r \in Reversals(p), Book(r)
      PROVE  CapacityInv'
  BY <1>1, <1>3 DEF Book, session
<1>4. CASE UNCHANGED vars
  BY <1>1, <1>4 DEF vars
<1> QED BY <1>2, <1>3, <1>4, DocumentCapacity, SupersedeCapacity, ForgetsCapacity, MarkCapacity DEF CloseNext, Next

LEMMA InitCapacity == Init => CapacityInv
<1> SUFFICES ASSUME Init PROVE CapacityInv
  OBVIOUS
<1>1. Stored = {} /\ \A l : Allocating(facts, l) = {}
  BY DEF Init, Stored, Exists, Allocating
<1>2. \A s \in Superseders : plan[s] = None
  BY DEF Init
<1>3. Locks /\ OwnLines
  BY <1>2 DEF Init, Locks, OwnLines, Nothing
<1>4. Quantities
  BY <1>1, <1>2, FS_EmptySet DEF Quantities, Stored
<1>5. SumIn(facts, {}) = 0
  <2>1. SumIn(facts, {}) = SumOver([f \in {} |-> facts[f].content.quantity], {})
    BY SumOfFunction DEF SumIn
  <2> QED BY <2>1, SumEmpty
<1>6. \A l \in Lines : 0 <= Capacity(l)
  BY CapacityIsNatural
<1> QED BY <1>1, <1>2, <1>3, <1>4, <1>5, <1>6 DEF CapacityInv, Fits, PlannedFor

LEMMA CapacityIsKept == CloseSpec => [](IInv /\ CapacityInv)
<1>1. Init => IInv /\ CapacityInv
  BY InitInv, InitCapacity
<1>2. IInv /\ CapacityInv /\ [CloseNext]_vars => (IInv /\ CapacityInv)'
  BY StepInv, StepCapacity
<1> QED BY <1>1, <1>2, PTL DEF CloseSpec

\* Packs, manual commands and supersessions never allocate a line beyond its
\* quantity, whatever their number and order, if the callers of supersessions
\* take the write lock (item_allocation.py, whole_fact_supersession.py).
THEOREM CapacityKeptHolds == CloseSpec => []CapacityKept
<1>1. IInv /\ CapacityInv => CapacityKept
  <2> SUFFICES ASSUME IInv, CapacityInv, callersLock, NEW l \in Lines, ~CutoverAllocates(l)
               PROVE  WithinLine(l)
    BY DEF CapacityKept
  <2> DEFINE A == Allocating(facts, l)
             C == {g \in Current("ALLOCATION") : facts[g].scope[1] = l}
  <2>1. Countable(facts, A) /\ SumIn(facts, A) \in Nat /\ SumIn(facts, A) <= Capacity(l)
    BY Counted, SumInNatural DEF CapacityInv, Fits
  <2>2. C \in SUBSET A
    BY DEF Current, IsCurrent, Exists, Allocating
  <2>3. SumIn(facts, C) <= SumIn(facts, A) /\ SumIn(facts, C) \in Nat
    BY <2>1, <2>2, SumInFewer, SumInNatural
  <2>4. Sum(Current("ALLOCATION"), l) = SumIn(facts, C)
    BY DEF Sum, SumIn
  <2> QED BY <2>1, <2>3, <2>4, CapacityIsNatural DEF WithinLine
<1> QED BY <1>1, CapacityIsKept, PTL

-----------------------------------------------------------------------------
(* The books: what the preview computes with are finitely many numbers.    *)

Accrued == {a \in Accruals : accruals[a] # None}
AccrualFields == {"quantity", "cost", "fact", "status"}
Books ==
    /\ DOMAIN accruals = Accruals
    /\ IsFiniteSet(Accrued) /\ \A a \in Accrued : DOMAIN accruals[a] = AccrualFields /\ accruals[a].quantity \in Int
    /\ IsFiniteSet(reversals) /\ \A r \in reversals : r.quantity \in Int

\* A running import reverses accruals that are there; a cutover pack accrues
\* and reverses nothing.
Pending ==
    /\ \A d \in Documents : d \in Cutovers \/ row[d] = 0 => draft[d].reversals = {}
    /\ \A d \in Documents \cap Cutovers : draft[d].accruals = {}
    /\ \A d \in Documents : \A r \in draft[d].reversals : r.accrual \in Accruals => r.accrual \in Accrued

BooksInv == Books /\ Pending

\* Nobody else's import runs beside a document under the lock.
LEMMA OthersRest ==
    ASSUME Locks, Pending, NEW d \in Documents \ Cutovers, row[d] # 0
    PROVE  \A e \in Documents \ {d} : draft[e].reversals = {}
BY DEF Locks, Pending

LEMMA TotalIsInt ==
    ASSUME Books, NEW S \in SUBSET reversals
    PROVE  Total("quantity", S) \in Int
<1> DEFINE q == [r \in S |-> r["quantity"]]
<1>1. Total("quantity", S) = SumOver(q, S)
  BY SumOfFunction DEF Total
<1>2. IsFiniteSet(S) /\ \A r \in S : q[r] \in Int
  BY FS_Subset DEF Books
<1> HIDE DEF q
<1> QED BY <1>1, <1>2, SumTyped

LEMMA RemainingIsInt ==
    ASSUME Books, NEW a \in Accrued, NEW S \in SUBSET reversals
    PROVE  RemainingQuantity(a, S) \in Int
<1>1. RowsOf(a, S) \in SUBSET reversals
  BY DEF RowsOf
<1>2. Total("quantity", RowsOf(a, S)) \in Int
  BY <1>1, TotalIsInt
<1> QED BY <1>2 DEF RemainingQuantity, Books

LEMMA UnclaimedIsInt ==
    ASSUME Books, Quantities, NEW f \in FactIds, Exists(f), facts[f].type = "ALLOCATION"
    PROVE  Unclaimed(f) \in Int
<1>1. {r \in Booked : r.allocation = f} \in SUBSET reversals
  BY DEF Booked
<1>2. Consumed(f) \in Int
  BY <1>1, TotalIsInt DEF Consumed
<1>3. facts[f].content.quantity \in Nat
  BY DEF Quantities, Quantified
<1> QED BY <1>2, <1>3 DEF Unclaimed

\* The cached status is not what the preview computes with.
LEMMA RefreshKeeps ==
    ASSUME Books, NEW touched, NEW rows, touched \cap Accruals \subseteq Accrued, accruals' = Refreshed(touched, rows)
    PROVE  /\ DOMAIN accruals' = Accruals /\ Accrued' \subseteq Accrued
           /\ \A a \in Accrued : DOMAIN accruals'[a] = AccrualFields /\ accruals'[a].quantity \in Int
           /\ IsFiniteSet(Accrued')
           /\ \A a \in Accruals : a \notin touched => accruals'[a] = accruals[a]
<1>1. DOMAIN accruals' = Accruals /\ \A a \in Accruals : a \notin touched => accruals'[a] = accruals[a]
  BY DEF Refreshed
<1>2. Accrued' \subseteq Accrued
  BY <1>1 DEF Accrued
<1>3. ASSUME NEW a \in Accrued PROVE DOMAIN accruals'[a] = AccrualFields /\ accruals'[a].quantity \in Int
  <2>1. a \in Accruals /\ DOMAIN accruals[a] = AccrualFields /\ accruals[a].quantity \in Int
    BY DEF Books, Accrued
  <2>2. PICK st : a \notin touched \/ accruals'[a] = [accruals[a] EXCEPT !.status = st]
    BY <2>1 DEF Refreshed
  <2> QED BY <1>1, <2>1, <2>2 DEF AccrualFields
<1>4. IsFiniteSet(Accrued')
  BY <1>2, FS_Subset DEF Books
<1> QED BY <1>1, <1>2, <1>3, <1>4

\* Where the books stay.
LEMMA BooksStay ==
    ASSUME IInv, Locks, BooksInv, UNCHANGED <<accruals, reversals>>,
           \A d \in Documents : /\ draft'[d].reversals = draft[d].reversals /\ draft'[d].accruals = draft[d].accruals
                                /\ row'[d] = 0 => row[d] = 0
    PROVE  BooksInv'
<1>1. Books'
  BY DEF BooksInv, Books, Accrued
<1>2. Pending'
  BY DEF BooksInv, Pending, Accrued
<1> QED BY <1>1, <1>2 DEF BooksInv

LEMMA AdvanceMoves ==
    ASSUME Locks, NEW d \in Documents, row[d] \in DOMAIN Entries[d], Advance(d)
    PROVE  row[d] # 0 /\ row'[d] # 0 /\ \A e \in Documents \ {d} : row'[e] = row[e]
<1>1. row[d] \in Nat /\ row[d] # 0 /\ row[d] + 1 # 0
  BY Positions
<1> QED BY <1>1 DEF Locks, Advance

LEMMA FactBooks ==
    ASSUME IInv, Locks, BooksInv, NEW d \in Documents, ImportFact(d) \/ KeepAllocation(d) \/ AddAllocation(d)
    PROVE  BooksInv'
<1>1. row[d] \in DOMAIN Entries[d] /\ Advance(d) /\ UNCHANGED <<accruals, reversals>>
  BY DEF ImportFact, KeepAllocation, AddAllocation, Processing, Skip, AddFact
<1>2. draft' = draft \/ \E F : draft' = [draft EXCEPT ![d].facts = @ \cup F]
  BY DEF ImportFact, KeepAllocation, AddAllocation, Skip, Write
<1>3. \A e \in Documents : draft'[e].reversals = draft[e].reversals /\ draft'[e].accruals = draft[e].accruals
  BY <1>2 DEF IInv, Typed
<1>4. \A e \in Documents : row'[e] = 0 => row[e] = 0
  BY <1>1, AdvanceMoves
<1> QED BY <1>1, <1>3, <1>4, BooksStay

LEMMA AccrualBooks ==
    ASSUME IInv, Locks, BooksInv, NEW d \in Documents, ImportAccrual(d)
    PROVE  BooksInv'
<1>1. row[d] \in DOMAIN Entries[d] /\ Entries[d][row[d]].type = "HISTORICAL" /\ Entry(d) = Entries[d][row[d]]
      /\ d \notin Cutovers
  BY DEF ImportAccrual, Processing, Entry
<1>2. row[d] # 0 /\ row'[d] # 0 /\ \A e \in Documents \ {d} : row'[e] = row[e]
  <2>1. Advance(d)
    BY DEF ImportAccrual, Skip, AddFact
  <2> QED BY <1>1, <2>1, AdvanceMoves
<1>3. CASE Skip(d)
  BY <1>2, <1>3, BooksStay DEF Skip
<1>4. ASSUME accruals[Entry(d).scope] = None, NEW fact, Accrue(d, fact), reversals' = reversals,
             \A e \in Documents : draft'[e].reversals = draft[e].reversals,
             \A e \in Documents \ {d} : draft'[e].accruals = draft[e].accruals
      PROVE  BooksInv'
  <2>1. PICK scope : scope = Entry(d).scope
    OBVIOUS
  <2>2. PICK new : new = [quantity |-> Entry(d).content.quantity, cost |-> Entry(d).content.cost,
                          fact |-> fact, status |-> "ACTIVE"]
    OBVIOUS
  <2>3. accruals' = [accruals EXCEPT ![scope] = new]
    BY <1>4, <2>1, <2>2 DEF Accrue
  <2>4. DOMAIN new = AccrualFields /\ new.quantity \in Int
    <3>1. Entry(d) \in Asserted
      BY <1>1 DEF Asserted
    <3>2. Entry(d).content.quantity \in Int
      BY <1>1, <3>1, QuantitiesAssumption
    <3> QED BY <2>2, <3>2 DEF AccrualFields
  <2>5. DOMAIN accruals' = Accruals /\ \A a \in Accruals : accruals'[a] = IF a = scope THEN new ELSE accruals[a]
    BY <2>3 DEF BooksInv, Books
  <2>6. Accrued' \subseteq Accrued \cup {scope}
    BY <2>5 DEF Accrued
  <2>7. IsFiniteSet(Accrued')
    <3>1. IsFiniteSet(Accrued \cup {scope})
      BY FS_AddElement DEF BooksInv, Books
    <3> QED BY <2>6, <3>1, FS_Subset
  <2>8. \A a \in Accrued : a # scope /\ accruals'[a] = accruals[a]
    BY <1>4, <2>1, <2>5 DEF Accrued
  <2>9. \A a \in Accrued' : DOMAIN accruals'[a] = AccrualFields /\ accruals'[a].quantity \in Int
    <3> SUFFICES ASSUME NEW a \in Accrued' PROVE DOMAIN accruals'[a] = AccrualFields /\ accruals'[a].quantity \in Int
      OBVIOUS
    <3>1. CASE a \in Accrued
      BY <2>8, <3>1 DEF BooksInv, Books
    <3>2. CASE a \notin Accrued
      BY <2>4, <2>5, <2>6, <3>2 DEF Accrued
    <3> QED BY <3>1, <3>2
  <2>10. Books'
    BY <1>4, <2>5, <2>7, <2>9 DEF BooksInv, Books
  <2>11. Accrued \subseteq Accrued'
    BY <2>8 DEF Accrued
  <2>12. Pending'
    BY <1>1, <1>2, <1>4, <2>11 DEF BooksInv, Pending
  <2> QED BY <2>10, <2>12 DEF BooksInv
<1>5. CASE ~Skip(d)
  <2>1. accruals[Entry(d).scope] = None /\ reversals' = reversals
    BY <1>5 DEF ImportAccrual, AddFact
  <2>2. PICK fact : Accrue(d, fact)
    BY <1>5 DEF ImportAccrual
  <2>3. \/ \E x : draft' = [draft EXCEPT ![d].accruals = @ \cup x]
        \/ \E x, y : draft' = [draft EXCEPT ![d].facts = @ \cup x, ![d].accruals = @ \cup y]
    BY <1>5 DEF ImportAccrual, Write
  <2>4. /\ \A e \in Documents : draft'[e].reversals = draft[e].reversals
        /\ \A e \in Documents \ {d} : draft'[e].accruals = draft[e].accruals
    <3>1. /\ DOMAIN draft = Documents
          /\ \A e \in Documents : DOMAIN draft[e] = {"facts", "accruals", "reversals"}
      BY DEF IInv, Typed
    <3>2. ASSUME NEW x, draft' = [draft EXCEPT ![d].accruals = @ \cup x]
          PROVE  /\ \A e \in Documents : draft'[e].reversals = draft[e].reversals
                 /\ \A e \in Documents \ {d} : draft'[e].accruals = draft[e].accruals
      BY <3>1, <3>2
    <3>3. ASSUME NEW x, NEW y, draft' = [draft EXCEPT ![d].facts = @ \cup x, ![d].accruals = @ \cup y]
          PROVE  /\ \A e \in Documents : draft'[e].reversals = draft[e].reversals
                 /\ \A e \in Documents \ {d} : draft'[e].accruals = draft[e].accruals
      BY <3>1, <3>3
    <3> QED BY <2>3, <3>2, <3>3
  <2> QED BY <1>4, <2>1, <2>2, <2>4
<1> QED BY <1>3, <1>5

LEMMA ReversalBooks ==
    ASSUME IInv, Locks, BooksInv, NEW d \in Documents, ImportReversal(d)
    PROVE  BooksInv'
<1>1. row[d] \in DOMAIN Entries[d] /\ Entries[d][row[d]].type = "REVERSAL" /\ Entry(d) = Entries[d][row[d]]
      /\ d \notin Cutovers
  BY DEF ImportReversal, Processing, Entry
<1>2. row[d] # 0 /\ row'[d] # 0 /\ \A e \in Documents \ {d} : row'[e] = row[e]
  <2>1. Advance(d)
    BY DEF ImportReversal, Skip
  <2> QED BY <1>1, <2>1, AdvanceMoves
<1>3. CASE Skip(d)
  BY <1>2, <1>3, BooksStay DEF Skip, ImportReversal
<1>4. CASE ~Skip(d)
  <2>1. PICK r : /\ r.accrual = Entry(d).accrual /\ r.quantity = Entry(d).content.quantity
                 /\ reversals' = reversals \cup {r} /\ draft' = [draft EXCEPT ![d].reversals = @ \cup {r}]
                 /\ accruals' = accruals /\ accruals[r.accrual] # None
    <3> DEFINE r == [accrual |-> Entry(d).accrual, allocation |-> noted[Entry(d).scope],
                     quantity |-> Entry(d).content.quantity, cost |-> Entry(d).content.cost, document |-> Fragment(d)]
    <3>1. r.accrual = Entry(d).accrual /\ r.quantity = Entry(d).content.quantity
      OBVIOUS
    <3>2. /\ reversals' = reversals \cup {r} /\ draft' = [draft EXCEPT ![d].reversals = @ \cup {r}]
          /\ accruals' = accruals /\ accruals[r.accrual] # None
      BY <1>4 DEF ImportReversal, Write
    <3> QED BY <3>1, <3>2
  <2>2. r.quantity \in Int
    <3>1. Entry(d) \in Asserted
      BY <1>1 DEF Asserted
    <3> QED BY <1>1, <2>1, <3>1, QuantitiesAssumption
  <2>3. IsFiniteSet(reversals')
    BY <2>1, FS_AddElement DEF BooksInv, Books
  <2>4. Books'
    BY <2>1, <2>2, <2>3 DEF BooksInv, Books, Accrued
  <2>5. /\ \A e \in Documents \ {d} : draft'[e].reversals = draft[e].reversals
        /\ draft'[d].reversals = draft[d].reversals \cup {r}
        /\ \A e \in Documents : draft'[e].accruals = draft[e].accruals
    BY <2>1 DEF IInv, Typed
  <2>6. Pending'
    BY <1>1, <1>2, <2>1, <2>5 DEF BooksInv, Pending, Accrued
  <2> QED BY <2>4, <2>6 DEF BooksInv
<1> QED BY <1>3, <1>4

LEMMA ReleaseDrafts ==
    ASSUME IInv, Locks, NEW d \in Documents, Release(d)
    PROVE  /\ draft'[d].reversals = {} /\ draft'[d].accruals = {}
           /\ \A e \in Documents \ {d} : draft'[e] = draft[e] /\ row'[e] = row[e]
BY DEF Release, Nothing, IInv, Typed, Locks

LEMMA CommitBooks ==
    ASSUME IInv, Locks, BooksInv, NEW d \in Documents, Commit(d)
    PROVE  BooksInv'
<1>0. Release(d) /\ reversals' = reversals
  BY DEF Commit
<1>1. /\ draft'[d].reversals = {} /\ draft'[d].accruals = {}
      /\ \A e \in Documents \ {d} : draft'[e] = draft[e] /\ row'[e] = row[e]
  BY <1>0, ReleaseDrafts
<1>2. row[d] # 0
  BY Positions DEF Commit
<1> DEFINE touched == {r.accrual : r \in draft[d].reversals}
<1>3. touched \cap Accruals \subseteq Accrued
  BY DEF BooksInv, Pending
<1>4. accruals' = Refreshed(touched, reversals)
  BY DEF Commit
<1> HIDE DEF touched
<1>5. /\ DOMAIN accruals' = Accruals /\ Accrued' \subseteq Accrued /\ IsFiniteSet(Accrued')
      /\ \A a \in Accrued : DOMAIN accruals'[a] = AccrualFields /\ accruals'[a].quantity \in Int
      /\ \A a \in Accruals : a \notin touched => accruals'[a] = accruals[a]
  BY <1>3, <1>4, RefreshKeeps DEF BooksInv
<1>6. Books'
  BY <1>0, <1>5 DEF BooksInv, Books
<1>7. \A e \in Documents : draft'[e].reversals # {} => Accrued \subseteq Accrued'
  <2> SUFFICES ASSUME NEW e \in Documents \ {d}, draft[e].reversals # {} PROVE Accrued \subseteq Accrued'
    BY <1>1
  <2>1. d \in Cutovers
    BY <1>2, OthersRest DEF BooksInv
  <2>2. touched = {}
    BY <2>1 DEF BooksInv, Pending, touched
  <2> QED BY <1>5, <2>2 DEF Accrued
<1>8. Pending'
  BY <1>1, <1>7 DEF BooksInv, Pending
<1> QED BY <1>6, <1>8 DEF BooksInv

LEMMA RollbackBooks ==
    ASSUME IInv, Locks, BooksInv, NEW d \in Documents, Rollback(d)
    PROVE  BooksInv'
<1>0. /\ Release(d) /\ row[d] # 0 /\ reversals' = reversals \ draft[d].reversals
      /\ accruals' = [a \in Accruals |-> IF a \in draft[d].accruals THEN None ELSE accruals[a]]
  BY DEF Rollback
<1>1. /\ draft'[d].reversals = {} /\ draft'[d].accruals = {}
      /\ \A e \in Documents \ {d} : draft'[e] = draft[e] /\ row'[e] = row[e]
  BY <1>0, ReleaseDrafts
<1>2. Accrued' \subseteq Accrued /\ \A a \in Accrued' : accruals'[a] = accruals[a]
  BY <1>0 DEF Accrued
<1>3. IsFiniteSet(Accrued') /\ IsFiniteSet(reversals')
  BY <1>0, <1>2, FS_Subset DEF BooksInv, Books
<1>4. Books'
  BY <1>0, <1>2, <1>3 DEF BooksInv, Books
<1>5. \A e \in Documents : draft'[e].reversals # {} => Accrued \subseteq Accrued'
  <2> SUFFICES ASSUME NEW e \in Documents \ {d}, draft[e].reversals # {} PROVE Accrued \subseteq Accrued'
    BY <1>1
  <2>1. d \in Cutovers
    BY <1>0, OthersRest DEF BooksInv
  <2>2. draft[d].accruals = {}
    BY <2>1 DEF BooksInv, Pending
  <2> QED BY <1>0, <2>2 DEF Accrued
<1>6. Pending'
  BY <1>1, <1>5 DEF BooksInv, Pending
<1> QED BY <1>4, <1>6 DEF BooksInv

LEMMA CheckpointBooks ==
    ASSUME IInv, Locks, BooksInv, NEW d \in Documents, Checkpoint(d)
    PROVE  BooksInv'
<1>1. UNCHANGED <<accruals, reversals, row>> /\ d \in Cutovers
  BY DEF Checkpoint
<1>2. /\ draft'[d].reversals = {} /\ draft'[d].accruals = {}
      /\ \A e \in Documents \ {d} : draft'[e] = draft[e]
  BY DEF Checkpoint, Nothing, IInv, Typed
<1>3. draft[d].reversals = {} /\ draft[d].accruals = {}
  BY <1>1 DEF BooksInv, Pending
<1> QED BY <1>1, <1>2, <1>3, BooksStay

\* What the preview proposes is about an accrual that is there, in numbers.
LEMMA ProposalsAreInts ==
    ASSUME IInv, CapacityInv, BooksInv, NEW p \in Periods, NEW r \in Reversals(p)
    PROVE  r.accrual \in Accrued /\ r.quantity \in Int
<1>1. PICK item \in Items : r \in ReversalsOf(item, p)
  BY DEF Reversals
<1>2. PICK a \in OpenAccruals(item), f \in Sources(item, p) : r = ReversalOf(a, f)
  BY <1>1 DEF ReversalsOf
<1>3. a \in Accrued
  BY DEF OpenAccruals, IsOpen, Known, Accrued
<1>4. f \in FactIds /\ Exists(f) /\ facts[f].type = "ALLOCATION"
  BY DEF Sources, Qualifying, Current, IsCurrent
<1>5. RemainingQuantity(a, Booked) \in Int
  <2>1. Booked \in SUBSET reversals
    BY DEF Booked
  <2> QED BY <1>3, <2>1, RemainingIsInt DEF BooksInv
<1>6. Unclaimed(f) \in Int
  BY <1>4, UnclaimedIsInt DEF BooksInv, CapacityInv
<1>7. r.accrual = a /\ r.quantity \in {Unclaimed(f), RemainingQuantity(a, Booked)}
  BY <1>2 DEF ReversalOf
<1> QED BY <1>3, <1>5, <1>6, <1>7

LEMMA BookBooks ==
    ASSUME IInv, CapacityInv, BooksInv, NEW p \in Periods, NEW r \in Reversals(p), Book(r)
    PROVE  BooksInv'
<1>1. r.accrual \in Accrued /\ r.quantity \in Int
  BY ProposalsAreInts
<1>2. UNCHANGED <<row, draft>> /\ writeLock = None
  BY DEF Book, session
<1>3. PICK q : reversals' = reversals \cup {q} /\ q.quantity = r.quantity
  <2>1. PICK q : q = [accrual |-> r.accrual, allocation |-> r.allocation, quantity |-> r.quantity,
                      cost |-> r.cost, document |-> None]
    OBVIOUS
  <2>2. reversals' = reversals \cup {q}
    BY <2>1 DEF Book
  <2> QED BY <2>1, <2>2
<1>4. /\ DOMAIN accruals' = Accruals /\ Accrued' \subseteq Accrued /\ IsFiniteSet(Accrued')
      /\ \A a \in Accrued : DOMAIN accruals'[a] = AccrualFields /\ accruals'[a].quantity \in Int
  <2>1. accruals' = Refreshed({r.accrual}, reversals') /\ {r.accrual} \cap Accruals \subseteq Accrued
    BY <1>1 DEF Book
  <2>2. PICK rows : rows = reversals'
    OBVIOUS
  <2> QED BY <2>1, <2>2, RefreshKeeps DEF BooksInv
<1>5. Books'
  <2>1. IsFiniteSet(reversals')
    BY <1>3, FS_AddElement DEF BooksInv, Books
  <2> QED BY <1>1, <1>3, <1>4, <2>1 DEF BooksInv, Books
<1>6. \A d \in Documents : draft[d].reversals = {}
  BY <1>2, SessionsAssumption DEF CapacityInv, Locks, BooksInv, Pending
<1>7. Pending'
  BY <1>2, <1>6 DEF BooksInv, Pending
<1> QED BY <1>5, <1>7 DEF BooksInv

LEMMA StepBooks ==
    ASSUME IInv, CapacityInv, BooksInv, [CloseNext]_vars
    PROVE  BooksInv'
<1>0. Locks
  BY DEF CapacityInv
<1>1. CASE UNCHANGED <<accruals, reversals, draft, row>>
  BY <1>0, <1>1, BooksStay
<1>2. ASSUME NEW i \in Invoices, NEW c \in Contracts, Confirm(i, c)
      PROVE  BooksInv'
  BY <1>1, <1>2 DEF Confirm, session
<1>3. ASSUME NEW d \in Documents, Start(d)
      PROVE  BooksInv'
  <2>1. UNCHANGED <<accruals, reversals, draft>> /\ row' = [row EXCEPT ![d] = 1]
    BY <1>3 DEF Start
  <2>2. \A e \in Documents : row'[e] = 0 => row[e] = 0
    BY <1>0, <2>1 DEF Locks
  <2> QED BY <1>0, <2>1, <2>2, BooksStay
<1>4. ASSUME NEW s \in Superseders,
             \/ \E old \in FactIds, new \in Replacements : Supersede(s, old, new)
             \/ InsertAndMark(s) \/ Lose(s) \/ Crash(s)
      PROVE  BooksInv'
  BY <1>1, <1>4 DEF Supersede, InsertAndMark, Lose, Crash, EndSupersession
<1>5. CASE UNCHANGED vars
  BY <1>1, <1>5 DEF vars, session
<1> QED BY <1>0, <1>2, <1>3, <1>4, <1>5, FactBooks, AccrualBooks, ReversalBooks, CommitBooks, RollbackBooks,
           CheckpointBooks, BookBooks DEF CloseNext, Next

LEMMA InitBooks == Init => BooksInv
<1> SUFFICES ASSUME Init PROVE BooksInv
  OBVIOUS
<1>1. Accrued = {} /\ reversals = {} /\ DOMAIN accruals = Accruals
  BY DEF Init, Accrued
<1>2. Books
  BY <1>1, FS_EmptySet DEF Books
<1>3. Pending
  BY DEF Init, Nothing, Pending
<1> QED BY <1>2, <1>3 DEF BooksInv

LEMMA BooksAreKept == CloseSpec => [](IInv /\ CapacityInv /\ BooksInv)
<1>1. Init => IInv /\ CapacityInv /\ BooksInv
  BY InitInv, InitCapacity, InitBooks
<1>2. IInv /\ CapacityInv /\ BooksInv /\ [CloseNext]_vars => (IInv /\ CapacityInv /\ BooksInv)'
  BY StepInv, StepCapacity, StepBooks
<1> QED BY <1>1, <1>2, PTL DEF CloseSpec

\* An allocation with something unclaimed, and none overclaimed: something is available.
LEMMA SomethingAvailable ==
    ASSUME CapacityInv, BooksInv, \A f \in Current("ALLOCATION") : Unclaimed(f) >= 0,
           NEW item, NEW p, NEW f \in Qualifying(item, p), Unclaimed(f) > 0
    PROVE  Available(item, p) > 0
<1> DEFINE Q == Qualifying(item, p)
           u == [g \in Q |-> Unclaimed(g)]
<1>1. ASSUME NEW g \in Q PROVE u[g] \in Nat /\ g \in Stored
  <2>1. g \in Current("ALLOCATION") /\ g \in FactIds /\ Exists(g) /\ facts[g].type = "ALLOCATION"
    BY DEF Qualifying, Current, IsCurrent
  <2>2. Unclaimed(g) \in Int /\ Unclaimed(g) >= 0
    BY <2>1, UnclaimedIsInt DEF CapacityInv, BooksInv
  <2> QED BY <2>1, <2>2 DEF Stored
<1>2. IsFiniteSet(Q)
  <2>1. Q \subseteq Stored
    BY <1>1
  <2> QED BY <2>1, FS_Subset DEF CapacityInv, Quantities
<1>3. Available(item, p) = SumOver(u, Q)
  BY SumOfFunction DEF Available
<1>4. u[f] > 0 /\ f \in Q
  OBVIOUS
<1>5. \A g \in Q : u[g] \in Nat
  BY <1>1
<1> HIDE DEF u, Q
<1>6. \A g \in Q : u[g] \in Int
  BY <1>5
<1>7. SumOver(u, Q) = u[f] + SumOver(u, Q \ {f})
  BY <1>2, <1>4, <1>6, SumWithout
<1>8. SumOver(u, Q \ {f}) \in Nat
  <2>1. IsFiniteSet(Q \ {f})
    BY <1>2, FS_Subset
  <2>2. \A g \in Q \ {f} : u[g] \in Nat
    BY <1>5
  <2> QED BY <2>1, <2>2, SumNatural
<1> QED BY <1>3, <1>4, <1>5, <1>7, <1>8

\* Whatever facts and however many: an open accrual whose purchase is invoiced
\* is reversed, or the preview says what blocks it, unless what was allocated
\* is used up (period_close.py, R001).
THEOREM OpenAccrualsAnswered == CloseSpec => []EveryOpenAccrualAnswered
<1>1. IInv /\ CapacityInv /\ BooksInv => EveryOpenAccrualAnswered
  <2> SUFFICES ASSUME IInv, CapacityInv, BooksInv, \A f \in Current("ALLOCATION") : Unclaimed(f) >= 0,
                      NEW p \in Periods, NEW item \in Items,
                      OpenAccruals(item) # {}, Invoiced(ContractOf[item], p),
                      Qualifying(item, p) = {} \/ \E f \in Qualifying(item, p) : Unclaimed(f) > 0
               PROVE  Answered(item, p)
    BY DEF EveryOpenAccrualAnswered
  <2>1. CASE Qualifying(item, p) = {}
    BY <2>1 DEF Answered, ItemMatchRequired
  <2>2. CASE \E f \in Qualifying(item, p) : Unclaimed(f) > 0
    <3>1. Claimable(item, p)
      BY <2>2, SomethingAvailable DEF Claimable
    <3>2. Sources(item, p) # {}
      BY <2>2 DEF Sources
    <3>3. Cardinality(OpenAccruals(item)) \in Nat /\ Cardinality(OpenAccruals(item)) # 0
      <4>1. OpenAccruals(item) \subseteq Accrued
        BY DEF OpenAccruals, IsOpen, Known, Accrued
      <4>2. IsFiniteSet(OpenAccruals(item))
        BY <4>1, FS_Subset DEF BooksInv, Books
      <4> QED BY <4>2, FS_EmptySet, FS_CardinalityType
    <3>4. CASE Cardinality(OpenAccruals(item)) > 1
      BY <3>1, <3>4 DEF Answered, Contested
    <3>5. CASE Cardinality(OpenAccruals(item)) = 1 /\ Cardinality(Sources(item, p)) # 1
      BY <3>1, <3>5 DEF Answered, Ambiguous
    <3>6. CASE Cardinality(OpenAccruals(item)) = 1 /\ Cardinality(Sources(item, p)) = 1
      <4>1. PICK a \in OpenAccruals(item) : TRUE
        OBVIOUS
      <4>2. PICK f \in Sources(item, p) : TRUE
        BY <3>2
      <4>3. ReversalOf(a, f) \in ReversalsOf(item, p)
        BY <3>1, <3>6 DEF ReversalsOf
      <4> QED BY <4>3 DEF Answered
    <3> QED BY <3>3, <3>4, <3>5, <3>6
  <2> QED BY <2>1, <2>2
<1> QED BY <1>1, BooksAreKept, PTL

-----------------------------------------------------------------------------
(* Exact clearing: what a portion costs.                                   *)

\* Of a rounded quotient.
LEMMA Rounded ==
    ASSUME NEW n \in Nat, NEW d \in Nat \ {0}
    PROVE  RoundHalfUp(n, d) \in Nat /\ 2 * d * RoundHalfUp(n, d) <= 2 * n + d
<1>1. PICK m \in Nat, k \in Nat : m = 2 * n + d /\ k = 2 * d /\ k > 0
  OBVIOUS
<1>2. m \div k \in Nat /\ k * (m \div k) <= m
  BY <1>1
<1>3. RoundHalfUp(n, d) = m \div k
  BY <1>1 DEF RoundHalfUp
<1> QED BY <1>1, <1>2, <1>3

\* Half a cent, and what the unit cost was rounded for each unit.
LEMMA CostIsFair ==
    ASSUME NEW cost \in Nat, NEW Q \in Nat \ {0}, NEW q \in Nat \ {0}
    PROVE  /\ Cost(cost, Q, q) \in Nat
           /\ 2 * Scale * Q * Cost(cost, Q, q) <= q * (2 * Scale * cost + Q * (Scale + 1))
<1> DEFINE X == RoundHalfUp(cost * Scale, Q)
           Y == RoundHalfUp(X * q, Scale)
<1>0. Scale \in Nat \ {0}
  BY ScaleAssumption
<1>1. X \in Nat /\ 2 * Q * X <= 2 * (cost * Scale) + Q
  BY <1>0, Rounded
<1> HIDE DEF X
<1>2. Y \in Nat /\ 2 * Scale * Y <= 2 * (X * q) + Scale
  BY <1>0, <1>1, Rounded
<1>3. Cost(cost, Q, q) = Y
  BY DEF Cost, X, Y
<1> HIDE DEF Y
<1>4. q * (2 * Q * X) <= q * (2 * (cost * Scale) + Q)
  BY <1>0, <1>1
<1>5. Q * (2 * Scale * Y) <= Q * (2 * (X * q) + Scale)
  BY <1>0, <1>1, <1>2
<1>6. Q * Scale <= q * (Q * Scale)
  BY <1>0
<1>7. Q * (2 * (X * q) + Scale) = q * (2 * Q * X) + Q * Scale
  BY <1>0, <1>1
<1>8. q * (2 * (cost * Scale) + Q) + q * (Q * Scale) = q * (2 * Scale * cost + Q * (Scale + 1))
  BY <1>0
<1>9. 2 * Scale * Q * Y = Q * (2 * Scale * Y)
  BY <1>0, <1>2
<1>10. PICK t1 \in Int, t2 \in Int, t3 \in Int, t4 \in Int :
          /\ t1 = Q * (2 * Scale * Y) /\ t2 = q * (2 * Q * X) /\ t3 = Q * Scale /\ t4 = q * (Q * Scale)
  BY <1>0, <1>1, <1>2
<1>11. PICK u \in Int : u = q * (2 * (cost * Scale) + Q)
  BY <1>0
<1>12. t1 <= t2 + t3 /\ t2 <= u /\ t3 <= t4
  BY <1>4, <1>5, <1>6, <1>7, <1>10, <1>11
<1>13. t1 <= u + t4
  BY <1>10, <1>11, <1>12
<1> QED BY <1>2, <1>3, <1>8, <1>9, <1>10, <1>11, <1>13

\* What is fair of each is fair of all.
LEMMA SumsCompare ==
    ASSUME NEW S, IsFiniteSet(S), NEW f, NEW g, NEW A \in Int, NEW B \in Int,
           \A x \in S : f[x] \in Int /\ g[x] \in Int /\ A * f[x] <= B * g[x]
    PROVE  A * SumOver(f, S) <= B * SumOver(g, S)
<1> DEFINE G == {s \in SUBSET S : A * SumOver(f, s) <= B * SumOver(g, s)}
<1>1. {} \in G
  <2>1. SumOver(f, {}) = 0 /\ SumOver(g, {}) = 0
    BY SumEmpty
  <2> QED BY <2>1
<1>2. ASSUME NEW s \in SUBSET S, s # {}, s \ {FirstOf(s)} \in G PROVE s \in G
  <2>1. PICK x : x = FirstOf(s)
    OBVIOUS
  <2>2. /\ x \in s /\ SumOver(f, s) = f[x] + SumOver(f, s \ {x})
        /\ SumOver(g, s) = g[x] + SumOver(g, s \ {x})
    BY <1>2, <2>1, FS_Subset, SumFirst
  <2>3. PICK F, H : F = SumOver(f, s \ {x}) /\ H = SumOver(g, s \ {x})
    OBVIOUS
  <2>4. F \in Int /\ H \in Int
    <3>1. IsFiniteSet(s \ {x}) /\ \A y \in s \ {x} : f[y] \in Int /\ g[y] \in Int
      BY FS_Subset
    <3> QED BY <2>3, <3>1, SumTyped
  <2>5. A * F <= B * H
    BY <1>2, <2>1, <2>3
  <2>6. f[x] \in Int /\ g[x] \in Int /\ A * f[x] <= B * g[x]
    BY <2>2
  <2>7. A * (f[x] + F) = A * f[x] + A * F /\ B * (g[x] + H) = B * g[x] + B * H
    BY <2>4, <2>6
  <2>8. A * (f[x] + F) <= B * (g[x] + H)
    <3>1. PICK m1 \in Int, m2 \in Int, m3 \in Int, m4 \in Int :
             m1 = A * f[x] /\ m2 = A * F /\ m3 = B * g[x] /\ m4 = B * H
      BY <2>4, <2>6
    <3>2. m1 + m2 <= m3 + m4
      BY <2>5, <2>6, <3>1
    <3> QED BY <2>7, <3>1, <3>2
  <2>9. SumOver(f, s) = f[x] + F /\ SumOver(g, s) = g[x] + H
    BY <2>2, <2>3
  <2> QED BY <2>8, <2>9
<1> HIDE DEF G
<1>3. SUBSET S \subseteq G
  BY <1>1, <1>2, SubsetsExhausted
<1> QED BY <1>3 DEF G

\* While a unit is left, so is a cent.
LEMMA CentLeft ==
    ASSUME NEW c \in Nat, NEW Q \in Nat \ {0}, NEW tq \in Nat, NEW tc \in Int, tq < Q,
           Q * (Q - 1) * (Scale + 1) < 2 * Scale * c,
           2 * Scale * Q * tc <= (2 * Scale * c + Q * (Scale + 1)) * tq
    PROVE  tc < c
<1>0. Scale \in Nat \ {0}
  BY ScaleAssumption
<1>1. PICK A \in Nat, K \in Nat : A = 2 * Scale * Q /\ A > 0 /\ K = 2 * Scale * c + Q * (Scale + 1)
  BY <1>0
<1>2. A * tc <= K * tq
  BY <1>1
<1>3. K * tq <= K * (Q - 1)
  BY <1>1
<1>4. K * (Q - 1) = 2 * Scale * c * Q - 2 * Scale * c + Q * (Q - 1) * (Scale + 1)
  BY <1>0, <1>1
<1>5. PICK m \in Int : m = Q * (Q - 1) * (Scale + 1)
  BY <1>0
<1>6. PICK n \in Int : n = 2 * Scale * c
  BY <1>0
<1>7. m < n
  BY <1>5, <1>6
<1>8. n * Q = A * c
  BY <1>0, <1>1, <1>6
<1>9. K * (Q - 1) = n * Q - n + m
  BY <1>0, <1>4, <1>5, <1>6
<1>10. PICK p \in Int, x \in Int, y \in Int : p = A * c /\ x = A * tc /\ y = K * (Q - 1)
  BY <1>1
<1>11. K * tq \in Int
  BY <1>1
<1>12. x <= y
  BY <1>1, <1>2, <1>3, <1>10, <1>11
<1>13. y = p - n + m
  BY <1>8, <1>9, <1>10
<1>14. x < p
  BY <1>7, <1>10, <1>12, <1>13
<1>15. A * tc < A * c
  BY <1>10, <1>14
<1> QED BY <1>1, <1>15

-----------------------------------------------------------------------------
(* Exact clearing: the invariant.                                          *)

TotalOf(field, a) == Total(field, RowsOf(a, reversals))
\* What has been reversed of an accrual is fair while something is left, and
\* everything when nothing is.
Portioned(a) ==
    /\ Outlasts(accruals[a])
    /\ \A r \in RowsOf(a, reversals) : r.quantity \in Nat \ {0} /\ r.cost \in Nat
    /\ TotalOf("quantity", a) <= accruals[a].quantity
    /\ TotalOf("quantity", a) < accruals[a].quantity =>
          \A r \in RowsOf(a, reversals) : Fair(accruals[a], r)
    /\ TotalOf("quantity", a) = accruals[a].quantity => TotalOf("cost", a) = accruals[a].cost

\* An accrual is as a document says that brought it, and is committed or not with it.
BroughtBy(a, d) ==
    /\ \E n \in Accruing(d, a) : /\ accruals[a].quantity = Entries[d][n].content.quantity
                                 /\ accruals[a].cost = Entries[d][n].content.cost
    /\ d \in documents \/ a \in draft[d].accruals

\* The portions a document has come to.
PortionSum(d, S) == SumFunction([n \in S |-> Entries[d][n].content.quantity])
PortionsBefore(d, a, here) == {n \in Portions(d, a) : n < here}

\* Portions of an uncommitted accrual are of the document that brings it.
Drafted(d, a) ==
    /\ row[d] # 0 /\ d \notin Cutovers /\ Accruing(d, a) # {}
    /\ RowsOf(a, reversals) \subseteq draft[d].reversals
    /\ TotalOf("quantity", a) <= PortionSum(d, PortionsBefore(d, a, row[d]))

Clearing ==
    /\ \A a \in Accrued : Portioned(a) /\ \E d \in Documents \ Cutovers : BroughtBy(a, d)
    /\ \A a \in Accrued : accruals[a].fact \in FactIds
    /\ \A d \in Documents : \A a \in draft[d].accruals \cap Accrued : Drafted(d, a)
    /\ \A r \in reversals : r.accrual \in Accruals => r.accrual \in Accrued
    /\ \A d \in Documents : \A r \in draft[d].reversals :
          r.accrual \in Accruals => r.accrual \in draft[d].accruals
    /\ \A d \in Documents : row[d] = 0 => draft[d].accruals = {}
    /\ \A d \in Documents \ Cutovers : row[d] # 0 => d \notin documents

-----------------------------------------------------------------------------
(* Exact clearing: sums.                                                   *)

LEMMA TotalIs ==
    ASSUME NEW field, NEW S
    PROVE  \E f : /\ Total(field, S) = SumOver(f, S)
                  /\ \A r \in S : f[r] = r[field]
<1> DEFINE f == [r \in S |-> r[field]]
<1>1. Total(field, S) = SumOver(f, S)
  BY SumOfFunction DEF Total
<1>2. \A r \in S : f[r] = r[field]
  OBVIOUS
<1> HIDE DEF f
<1> QED BY <1>1, <1>2

\* One row more.
LEMMA TotalWith ==
    ASSUME NEW field, NEW S, IsFiniteSet(S), NEW x, x \notin S, x[field] \in Int,
           \A r \in S : r[field] \in Int
    PROVE  /\ Total(field, S \cup {x}) = x[field] + Total(field, S)
           /\ Total(field, S) \in Int
<1>1. PICK f : Total(field, S) = SumOver(f, S) /\ \A r \in S : f[r] = r[field]
  BY TotalIs
<1>2. PICK T : T = S \cup {x}
  OBVIOUS
<1>3. PICK g : Total(field, T) = SumOver(g, T) /\ \A r \in T : g[r] = r[field]
  BY TotalIs
<1>4. SumOver(g, S) = SumOver(f, S)
  BY <1>1, <1>2, <1>3, SumAgree
<1>5. g[x] = x[field] /\ \A r \in S : g[r] \in Int
  BY <1>2, <1>3
<1>6. SumOver(g, S \cup {x}) = g[x] + SumOver(g, S)
  BY <1>5, SumWith
<1>7. SumOver(g, S) \in Int
  BY <1>5, SumTyped
<1> QED BY <1>1, <1>2, <1>3, <1>4, <1>5, <1>6, <1>7

LEMMA TotalNothing == ASSUME NEW field PROVE Total(field, {}) = 0
<1>1. PICK f : Total(field, {}) = SumOver(f, {})
  BY TotalIs
<1> QED BY <1>1, SumEmpty

\* The rows of an accrual.
LEMMA RowsAreFinite ==
    ASSUME Books, NEW a \in Accrued, Portioned(a)
    PROVE  /\ IsFiniteSet(RowsOf(a, reversals))
           /\ TotalOf("quantity", a) \in Nat /\ TotalOf("cost", a) \in Nat
           /\ accruals[a].quantity \in Nat \ {0} /\ accruals[a].cost \in Nat
<1> DEFINE R == RowsOf(a, reversals)
<1>1. IsFiniteSet(R)
  <2>1. R \subseteq reversals
    BY DEF RowsOf
  <2> QED BY <2>1, FS_Subset DEF Books
<1>2. \A r \in R : r["quantity"] \in Nat /\ r["cost"] \in Nat
  BY DEF Portioned
<1>3. PICK f : Total("quantity", R) = SumOver(f, R) /\ \A r \in R : f[r] = r["quantity"]
  BY TotalIs
<1>4. PICK g : Total("cost", R) = SumOver(g, R) /\ \A r \in R : g[r] = r["cost"]
  BY TotalIs
<1> HIDE DEF R
<1>5. SumOver(f, R) \in Nat /\ SumOver(g, R) \in Nat
  BY <1>1, <1>2, <1>3, <1>4, SumNatural
<1> QED BY <1>1, <1>3, <1>4, <1>5 DEF R, TotalOf, Portioned, Outlasts

\* While a unit is left, so is a cent.
LEMMA CostLeft ==
    ASSUME Books, NEW a \in Accrued, Portioned(a), TotalOf("quantity", a) < accruals[a].quantity
    PROVE  TotalOf("cost", a) < accruals[a].cost
<1> DEFINE R == RowsOf(a, reversals)
<1>0. Scale \in Nat \ {0}
  BY ScaleAssumption
<1>1. PICK Q \in Nat \ {0}, c \in Nat : Q = accruals[a].quantity /\ c = accruals[a].cost
  BY RowsAreFinite
<1>2. PICK A \in Int, B \in Int : A = 2 * Scale * Q /\ B = 2 * Scale * c + Q * (Scale + 1)
  BY <1>0
<1>3. PICK f : Total("quantity", R) = SumOver(f, R) /\ \A r \in R : f[r] = r["quantity"]
  BY TotalIs
<1>4. PICK g : Total("cost", R) = SumOver(g, R) /\ \A r \in R : g[r] = r["cost"]
  BY TotalIs
<1>5. \A r \in R : f[r] \in Int /\ g[r] \in Int /\ A * g[r] <= B * f[r]
  <2> SUFFICES ASSUME NEW r \in R PROVE f[r] \in Int /\ g[r] \in Int /\ A * g[r] <= B * f[r]
    OBVIOUS
  <2>1. r.quantity \in Nat /\ r.cost \in Nat
    BY DEF Portioned
  <2>2. 2 * Scale * Q * r.cost <= r.quantity * B
    BY <1>1, <1>2 DEF Portioned, Fair
  <2>3. r.quantity * B = B * r.quantity
    BY <1>2, <2>1
  <2> QED BY <1>2, <1>3, <1>4, <2>1, <2>2, <2>3
<1>6. IsFiniteSet(R) /\ TotalOf("quantity", a) \in Nat /\ TotalOf("cost", a) \in Nat
  BY RowsAreFinite
<1>7. TotalOf("quantity", a) = SumOver(f, R) /\ TotalOf("cost", a) = SumOver(g, R)
  BY <1>3, <1>4 DEF TotalOf
<1> HIDE DEF R
<1>8. A * SumOver(g, R) <= B * SumOver(f, R)
  BY <1>5, <1>6, SumsCompare
<1>9. PICK tq \in Nat, tc \in Int : tq = TotalOf("quantity", a) /\ tc = TotalOf("cost", a)
  BY <1>6
<1>10. 2 * Scale * Q * tc <= (2 * Scale * c + Q * (Scale + 1)) * tq
  BY <1>2, <1>7, <1>8, <1>9
<1>11. Q * (Q - 1) * (Scale + 1) < 2 * Scale * c
  BY <1>1 DEF Portioned, Outlasts
<1>12. tq < Q
  BY <1>1, <1>9
<1> QED BY <1>1, <1>9, <1>10, <1>11, <1>12, CentLeft

-----------------------------------------------------------------------------
(* Exact clearing: what a step leaves as it was.                           *)

\* The portions of a document that brings the accrual.
LEMMA PortionsAdd ==
    ASSUME PortionsFit, NEW d \in Documents \ Cutovers, NEW a \in Accruals, Accruing(d, a) # {}
    PROVE  /\ \A T \in SUBSET Portions(d, a) : \A S \in SUBSET T :
                 PortionSum(d, S) \in Nat /\ PortionSum(d, T) \in Nat /\ PortionSum(d, S) <= PortionSum(d, T)
           /\ \A S \in SUBSET Portions(d, a) : \A m \in Portions(d, a) \ S :
                 PortionSum(d, S \cup {m}) = Entries[d][m].content.quantity + PortionSum(d, S)
           /\ \A m \in Portions(d, a) : Entries[d][m].content.quantity \in Nat \ {0}
<1> DEFINE P == Portions(d, a)
           q == [m \in P |-> Entries[d][m].content.quantity]
<1>1. \A m \in P : q[m] \in Nat \ {0}
  <2>1. PICK n \in Accruing(d, a) : TRUE
    OBVIOUS
  <2> QED BY <2>1 DEF PortionsFit
<1>2. IsFiniteSet(P)
  <2>1. P \subseteq 1 .. Len(Entries[d]) /\ Len(Entries[d]) \in Nat
    BY Positions DEF Portions
  <2>2. IsFiniteSet(1 .. Len(Entries[d]))
    BY <2>1, FS_Interval
  <2> QED BY <2>1, <2>2, FS_Subset
<1>3. \A S \in SUBSET P : PortionSum(d, S) = SumOver(q, S)
  <2> SUFFICES ASSUME NEW S \in SUBSET P PROVE PortionSum(d, S) = SumOver(q, S)
    OBVIOUS
  <2> DEFINE h == [n \in S |-> Entries[d][n].content.quantity]
  <2>1. PortionSum(d, S) = SumOver(h, S)
    BY SumOfFunction DEF PortionSum
  <2>2. \A n \in S : h[n] = q[n]
    OBVIOUS
  <2>3. IsFiniteSet(S)
    BY <1>2, FS_Subset
  <2> HIDE DEF h, q
  <2> QED BY <2>1, <2>2, <2>3, SumAgree
<1>4. \A S \in SUBSET P : IsFiniteSet(S)
  BY <1>2, FS_Subset
<1>5. \A m \in P : q[m] = Entries[d][m].content.quantity
  OBVIOUS
<1> HIDE DEF q, P
<1>6. ASSUME NEW T \in SUBSET P, NEW S \in SUBSET T
      PROVE  PortionSum(d, S) \in Nat /\ PortionSum(d, T) \in Nat /\ PortionSum(d, S) <= PortionSum(d, T)
  <2>1. IsFiniteSet(S) /\ IsFiniteSet(T) /\ (\A m \in T : q[m] \in Nat) /\ (\A m \in S : q[m] \in Nat)
    BY <1>1, <1>4
  <2>2. SumOver(q, S) \in Nat /\ SumOver(q, T) \in Nat /\ SumOver(q, S) <= SumOver(q, T)
    BY <2>1, SumNatural, SumFewer
  <2> QED BY <1>3, <2>2
<1>7. ASSUME NEW S \in SUBSET P, NEW m \in P \ S
      PROVE  PortionSum(d, S \cup {m}) = Entries[d][m].content.quantity + PortionSum(d, S)
  <2>1. IsFiniteSet(S) /\ m \notin S /\ (\A n \in S : q[n] \in Int) /\ q[m] \in Int
    BY <1>1, <1>4
  <2>2. SumOver(q, S \cup {m}) = q[m] + SumOver(q, S)
    BY <2>1, SumWith
  <2>3. S \cup {m} \in SUBSET P
    OBVIOUS
  <2> QED BY <1>3, <1>5, <2>2, <2>3
<1> QED BY <1>1, <1>5, <1>6, <1>7 DEF P

\* An accrual that no row was added to or taken from; its status may differ.
LEMMA PortionedStays ==
    ASSUME NEW a, Portioned(a), RowsOf(a, reversals)' = RowsOf(a, reversals),
           accruals'[a].quantity = accruals[a].quantity, accruals'[a].cost = accruals[a].cost
    PROVE  Portioned(a)'
BY DEF Portioned, Outlasts, Fair, TotalOf

LEMMA BroughtStays ==
    ASSUME NEW a, NEW d, BroughtBy(a, d), documents \subseteq documents',
           a \in draft[d].accruals => a \in draft'[d].accruals \/ d \in documents',
           accruals'[a].quantity = accruals[a].quantity, accruals'[a].cost = accruals[a].cost
    PROVE  BroughtBy(a, d)'
BY DEF BroughtBy

LEMMA DraftedStays ==
    ASSUME PortionsFit, Locks, NEW d \in Documents, NEW a \in Accruals, Drafted(d, a),
           RowsOf(a, reversals)' = RowsOf(a, reversals),
           draft[d].reversals \subseteq draft'[d].reversals, row'[d] \in {row[d], row[d] + 1},
           TotalOf("quantity", a) \in Int
    PROVE  Drafted(d, a)'
<1>1. row[d] \in Nat /\ row[d] # 0
  BY DEF Locks, Drafted
<1>2. PortionsBefore(d, a, row[d]) \subseteq PortionsBefore(d, a, row'[d])
  <2>1. \A n \in Portions(d, a) : n \in Nat
    BY Positions DEF Portions
  <2> QED BY <1>1, <2>1 DEF PortionsBefore
<1>3. PortionsBefore(d, a, row'[d]) \in SUBSET Portions(d, a)
  BY DEF PortionsBefore
<1>4. d \in Documents \ Cutovers /\ Accruing(d, a) # {}
  BY DEF Drafted
<1>5. /\ PortionSum(d, PortionsBefore(d, a, row[d])) \in Nat
      /\ PortionSum(d, PortionsBefore(d, a, row'[d])) \in Nat
      /\ PortionSum(d, PortionsBefore(d, a, row[d])) <= PortionSum(d, PortionsBefore(d, a, row'[d]))
  BY <1>2, <1>3, <1>4, PortionsAdd
<1>6. TotalOf("quantity", a)' = TotalOf("quantity", a)
  BY DEF TotalOf
<1>7. TotalOf("quantity", a) <= PortionSum(d, PortionsBefore(d, a, row'[d]))
  BY <1>5 DEF Drafted
<1> QED BY <1>1, <1>6, <1>7 DEF Drafted

\* Steps that change neither accruals nor reversals.
LEMMA ClearingStays ==
    ASSUME PortionsFit, IInv, Locks, BooksInv, Clearing, UNCHANGED <<accruals, reversals>>,
           documents \subseteq documents', documents' \subseteq documents \cup Cutovers,
           \A d \in Documents : /\ draft'[d].reversals = draft[d].reversals /\ draft'[d].accruals = draft[d].accruals
                                /\ row'[d] \in {row[d], row[d] + 1}
                                /\ row[d] = 0 /\ row'[d] # 0 /\ d \notin Cutovers => d \notin documents
    PROVE  Clearing'
<1>1. Accrued' = Accrued /\ \A a : RowsOf(a, reversals)' = RowsOf(a, reversals)
  BY DEF Accrued, RowsOf
<1>2. ASSUME NEW a \in Accrued PROVE Portioned(a)' /\ \E d \in Documents \ Cutovers : BroughtBy(a, d)'
  <2>1. Portioned(a)'
    BY <1>1, PortionedStays DEF Clearing
  <2>2. PICK d \in Documents \ Cutovers : BroughtBy(a, d)
    BY DEF Clearing
  <2>3. BroughtBy(a, d)'
    BY <2>2, BroughtStays
  <2> QED BY <2>1, <2>3
<1>3. ASSUME NEW d \in Documents, NEW a \in draft[d].accruals \cap Accrued PROVE Drafted(d, a)'
  <2>1. Drafted(d, a) /\ a \in Accruals
    BY DEF Clearing, Accrued
  <2>2. TotalOf("quantity", a) \in Int
    BY <2>1, RowsAreFinite DEF Clearing, BooksInv
  <2> QED BY <1>1, <2>1, <2>2, DraftedStays
<1>4. \A d \in Documents \ Cutovers : row'[d] # 0 => d \notin documents'
  BY DEF Clearing
<1>5. \A d \in Documents : row'[d] = 0 => row[d] = 0
  <2> SUFFICES ASSUME NEW d \in Documents, row'[d] = 0 PROVE row[d] = 0
    OBVIOUS
  <2> QED BY DEF Locks
<1>6. \A d \in Documents : row'[d] = 0 => draft'[d].accruals = {}
  BY <1>5 DEF Clearing
<1>7. \A a \in Accrued : accruals'[a].fact \in FactIds
  BY DEF Clearing
<1> QED BY <1>1, <1>2, <1>3, <1>4, <1>6, <1>7 DEF Clearing

-----------------------------------------------------------------------------
(* Exact clearing: the steps.                                              *)

LEMMA AdvanceRows ==
    ASSUME Locks, NEW d \in Documents, row[d] \in DOMAIN Entries[d], Advance(d)
    PROVE  /\ row[d] \in Nat \ {0} /\ row'[d] = row[d] + 1
           /\ \A e \in Documents : row'[e] \in {row[e], row[e] + 1} /\ (row[e] = 0 => row'[e] = 0)
<1>1. row[d] \in Nat \ {0}
  BY Positions
<1> QED BY <1>1 DEF Locks, Advance

LEMMA FactClearing ==
    ASSUME PortionsFit, IInv, Locks, BooksInv, Clearing, NEW d \in Documents,
           ImportFact(d) \/ KeepAllocation(d) \/ AddAllocation(d)
    PROVE  Clearing'
<1>1. row[d] \in DOMAIN Entries[d] /\ Advance(d) /\ UNCHANGED <<accruals, reversals, documents>>
  BY DEF ImportFact, KeepAllocation, AddAllocation, Processing, Skip, AddFact
<1>2. draft' = draft \/ \E F : draft' = [draft EXCEPT ![d].facts = @ \cup F]
  BY DEF ImportFact, KeepAllocation, AddAllocation, Skip, Write
<1>3. \A e \in Documents : draft'[e].reversals = draft[e].reversals /\ draft'[e].accruals = draft[e].accruals
  BY <1>2 DEF IInv, Typed
<1>4. \A e \in Documents : row'[e] \in {row[e], row[e] + 1} /\ (row[e] = 0 => row'[e] = 0)
  BY <1>1, AdvanceRows
<1> QED BY <1>1, <1>3, <1>4, ClearingStays

LEMMA SkipClearing ==
    ASSUME PortionsFit, IInv, Locks, BooksInv, Clearing, NEW d \in Documents, row[d] \in DOMAIN Entries[d], Skip(d)
    PROVE  Clearing'
<1>1. Advance(d) /\ UNCHANGED <<accruals, reversals, documents, draft>>
  BY DEF Skip
<1>2. \A e \in Documents : row'[e] \in {row[e], row[e] + 1} /\ (row[e] = 0 => row'[e] = 0)
  BY <1>1, AdvanceRows
<1> QED BY <1>1, <1>2, ClearingStays

LEMMA CheckpointClearing ==
    ASSUME PortionsFit, IInv, Locks, BooksInv, Clearing, NEW d \in Documents, Checkpoint(d)
    PROVE  Clearing'
<1>1. UNCHANGED <<accruals, reversals, row>> /\ d \in Cutovers /\ documents' = documents \cup {d}
  BY DEF Checkpoint
<1>2. /\ draft'[d].reversals = {} /\ draft'[d].accruals = {}
      /\ \A e \in Documents \ {d} : draft'[e] = draft[e]
  BY DEF Checkpoint, Nothing, IInv, Typed
<1>3. draft[d].reversals = {} /\ draft[d].accruals = {}
  BY <1>1 DEF BooksInv, Pending
<1> QED BY <1>1, <1>2, <1>3, ClearingStays

\* A new accrual has no portions.
LEMMA AccrualClearing ==
    ASSUME PortionsFit, IInv, Locks, BooksInv, Clearing, NEW d \in Documents, ImportAccrual(d)
    PROVE  Clearing'
<1>1. row[d] \in DOMAIN Entries[d] /\ Entries[d][row[d]].type = "HISTORICAL" /\ Entry(d) = Entries[d][row[d]]
      /\ d \notin Cutovers
  BY DEF ImportAccrual, Processing, Entry
<1>2. CASE Skip(d)
  BY <1>1, <1>2, SkipClearing
<1>3. CASE ~Skip(d)
  <2>1. PICK a : a = Entry(d).scope
    OBVIOUS
  <2>2. accruals[a] = None /\ reversals' = reversals /\ documents' = documents /\ Advance(d)
    BY <1>3, <2>1 DEF ImportAccrual, AddFact
  <2>3. /\ row[d] \in Nat \ {0} /\ row'[d] = row[d] + 1
        /\ \A e \in Documents : row'[e] \in {row[e], row[e] + 1} /\ (row[e] = 0 => row'[e] = 0)
    BY <1>1, <2>2, AdvanceRows
  <2>4. PICK fact \in FactIds : Accrue(d, fact)
    <3>1. CASE \E f \in Duplicates(d) : Accrue(d, f)
      BY <3>1 DEF Duplicates
    <3>2. CASE Free(d) # {} /\ Accrue(d, Fresh(d))
      BY <3>2, FreshId
    <3>3. \/ \E f \in Duplicates(d) : Accrue(d, f)
          \/ Free(d) # {} /\ Accrue(d, Fresh(d))
      BY <1>3 DEF ImportAccrual, AddFact
    <3> QED BY <3>1, <3>2, <3>3
  <2>5. PICK new : new = [quantity |-> Entry(d).content.quantity, cost |-> Entry(d).content.cost,
                          fact |-> fact, status |-> "ACTIVE"]
    OBVIOUS
  <2>6. /\ DOMAIN accruals' = Accruals
        /\ \A b \in Accruals : accruals'[b] = IF b = a THEN new ELSE accruals[b]
    BY <2>1, <2>4, <2>5 DEF Accrue, BooksInv, Books
  <2>7. /\ \A e \in Documents : draft'[e].reversals = draft[e].reversals
        /\ \A e \in Documents \ {d} : draft'[e].accruals = draft[e].accruals
        /\ draft'[d].accruals = draft[d].accruals \cup {a}
    <3>1. /\ DOMAIN draft = Documents
          /\ \A e \in Documents : DOMAIN draft[e] = {"facts", "accruals", "reversals"}
      BY DEF IInv, Typed
    <3>2. CASE draft' = [draft EXCEPT ![d].accruals = @ \cup {a}]
      BY <3>1, <3>2
    <3>3. CASE \E y : draft' = [draft EXCEPT ![d].facts = @ \cup y, ![d].accruals = @ \cup {a}]
      <4>1. PICK y : draft' = [draft EXCEPT ![d].facts = @ \cup y, ![d].accruals = @ \cup {a}]
        BY <3>3
      <4> QED BY <3>1, <4>1
    <3>4. \/ draft' = [draft EXCEPT ![d].accruals = @ \cup {a}]
          \/ \E y : draft' = [draft EXCEPT ![d].facts = @ \cup y, ![d].accruals = @ \cup {a}]
      BY <1>3, <2>1 DEF ImportAccrual, Write
    <3> QED BY <3>2, <3>3, <3>4
  <2>8. \A b : RowsOf(b, reversals)' = RowsOf(b, reversals)
    BY <2>2 DEF RowsOf
  <2>9. /\ \A b \in Accrued : b # a /\ b \in Accrued' /\ accruals'[b] = accruals[b]
        /\ Accrued' \subseteq Accrued \cup {a}
    BY <2>2, <2>6 DEF Accrued
  <2>10. ASSUME NEW b \in Accrued
         PROVE  Portioned(b)' /\ \E e \in Documents \ Cutovers : BroughtBy(b, e)'
    <3>1. accruals'[b] = accruals[b]
      BY <2>9
    <3>2. Portioned(b)'
      BY <2>8, <3>1, PortionedStays DEF Clearing
    <3>3. PICK e \in Documents \ Cutovers : BroughtBy(b, e)
      BY DEF Clearing
    <3>4. b \in draft[e].accruals => b \in draft'[e].accruals
      BY <2>7
    <3>5. BroughtBy(b, e)'
      BY <2>2, <3>1, <3>3, <3>4, BroughtStays
    <3> QED BY <3>2, <3>5
  <2>11. ASSUME a \in Accruals
         PROVE  Portioned(a)' /\ BroughtBy(a, d)' /\ Drafted(d, a)'
    <3>1. RowsOf(a, reversals)' = {}
      BY <2>2, <2>11 DEF Clearing, Accrued, RowsOf
    <3>2. row[d] \in Accruing(d, a)
      BY <1>1, <2>1 DEF Accruing
    <3>3. accruals'[a].quantity = Entry(d).content.quantity /\ accruals'[a].cost = Entry(d).content.cost
      BY <2>5, <2>6, <2>11
    <3>4. Outlasts(Entry(d).content)
      BY <1>1, <2>11, <3>2 DEF PortionsFit
    <3>5. Outlasts(accruals'[a]) /\ accruals'[a].quantity \in Nat \ {0}
      BY <3>3, <3>4 DEF Outlasts
    <3>6. TotalOf("quantity", a)' = 0 /\ TotalOf("cost", a)' = 0
      BY <3>1, TotalNothing DEF TotalOf
    <3>7. Portioned(a)'
      BY <3>1, <3>5, <3>6 DEF Portioned, Outlasts
    <3>8. BroughtBy(a, d)'
      BY <1>1, <2>7, <3>2, <3>3 DEF BroughtBy
    <3>9. PortionSum(d, PortionsBefore(d, a, row'[d])) \in Nat
      <4>1. PortionsBefore(d, a, row'[d]) \in SUBSET Portions(d, a)
        BY DEF PortionsBefore
      <4> QED BY <1>1, <2>11, <3>2, <4>1, PortionsAdd
    <3>10. Drafted(d, a)'
      BY <1>1, <2>3, <3>1, <3>2, <3>6, <3>9 DEF Drafted
    <3> QED BY <3>7, <3>8, <3>10
  <2>12. ASSUME NEW e \in Documents, NEW b \in draft[e].accruals \cap Accrued
         PROVE  Drafted(e, b)'
    <3>1. Drafted(e, b) /\ b \in Accruals
      BY DEF Clearing, Accrued
    <3>2. TotalOf("quantity", b) \in Int
      BY <3>1, RowsAreFinite DEF Clearing, BooksInv
    <3> QED BY <2>3, <2>7, <2>8, <2>9, <3>1, <3>2, DraftedStays
  <2>13. \A e \in Documents \ {d} : a \notin draft[e].accruals
    <3> SUFFICES ASSUME NEW e \in Documents \ {d} PROVE draft[e].accruals = {}
      OBVIOUS
    <3>1. CASE e \in Cutovers
      BY <3>1 DEF BooksInv, Pending
    <3>2. CASE e \notin Cutovers
      <4>1. row[e] = 0
        BY <1>1, <2>3, <3>2 DEF Locks
      <4> QED BY <4>1 DEF Clearing
    <3> QED BY <3>1, <3>2
  <2>14. \A e \in Documents : \A b \in draft'[e].accruals \cap Accrued' : Drafted(e, b)'
    <3> SUFFICES ASSUME NEW e \in Documents, NEW b \in draft'[e].accruals \cap Accrued' PROVE Drafted(e, b)'
      OBVIOUS
    <3>1. CASE b = a
      <4>1. e = d
        BY <2>7, <2>13, <3>1
      <4>2. a \in Accruals
        BY <3>1 DEF Accrued
      <4> QED BY <2>11, <3>1, <4>1, <4>2
    <3>2. CASE b # a
      <4>1. b \in draft[e].accruals \cap Accrued
        BY <2>7, <2>9, <3>2
      <4> QED BY <2>12, <4>1
    <3> QED BY <3>1, <3>2
  <2>15. \A b \in Accrued' : Portioned(b)' /\ \E e \in Documents \ Cutovers : BroughtBy(b, e)'
    <3> SUFFICES ASSUME NEW b \in Accrued'
                 PROVE  Portioned(b)' /\ \E e \in Documents \ Cutovers : BroughtBy(b, e)'
      OBVIOUS
    <3>1. CASE b = a
      <4>1. a \in Accruals
        BY <3>1 DEF Accrued
      <4> QED BY <1>1, <2>11, <3>1, <4>1
    <3>2. CASE b # a
      BY <2>9, <2>10, <3>2
    <3> QED BY <3>1, <3>2
  <2>16. \A r \in reversals' : r.accrual \in Accruals => r.accrual \in Accrued'
    BY <2>2, <2>9 DEF Clearing
  <2>17. \A e \in Documents : \A r \in draft'[e].reversals : r.accrual \in Accruals => r.accrual \in draft'[e].accruals
    BY <2>7 DEF Clearing
  <2>18. \A e \in Documents : row'[e] = 0 => draft'[e].accruals = {}
    <3>1. row'[d] # 0 /\ \A e \in Documents \ {d} : row'[e] = row[e]
      BY <1>1, <2>2, AdvanceMoves
    <3> QED BY <2>7, <3>1 DEF Clearing
  <2>19. \A e \in Documents \ Cutovers : row'[e] # 0 => e \notin documents'
    BY <2>2, <2>3 DEF Clearing
  <2>20. \A b \in Accrued' : accruals'[b].fact \in FactIds
    BY <2>5, <2>6, <2>9 DEF Clearing, Accrued
  <2> QED BY <2>14, <2>15, <2>16, <2>17, <2>18, <2>19, <2>20 DEF Clearing
<1> QED BY <1>2, <1>3

\* A pack's portion is of the accrual the pack brings, and leaves something of it.
LEMMA PortionClearing ==
    ASSUME PortionsFit, IInv, Locks, BooksInv, Clearing, NEW d \in Documents \ Cutovers, row[d] \in DOMAIN Entries[d],
           Entry(d).type = "REVERSAL", NEW a \in Accrued, a = Entry(d).accrual
    PROVE  /\ a \in draft[d].accruals /\ Drafted(d, a)
           /\ Entry(d).content.quantity \in Nat \ {0} /\ Entry(d).content.cost \in Nat
           /\ Fair(accruals[a], Entry(d).content)
           /\ LET before == PortionSum(d, PortionsBefore(d, a, row[d]))
                  after  == PortionSum(d, PortionsBefore(d, a, row[d] + 1))
              IN  before \in Nat /\ after = Entry(d).content.quantity + before /\ after < accruals[a].quantity
<1>0. a \in Accruals /\ Entry(d) = Entries[d][row[d]] /\ row[d] \in Portions(d, a) /\ row[d] \in Nat \ {0}
  BY Positions DEF Accrued, Entry, Portions
<1>1. PICK e \in Documents \ Cutovers : BroughtBy(a, e)
  BY DEF Clearing
<1>2. PICK n \in Accruing(e, a) : /\ accruals[a].quantity = Entries[e][n].content.quantity
                                  /\ accruals[a].cost = Entries[e][n].content.cost
  BY <1>1 DEF BroughtBy
<1> DEFINE whole == Entries[e][n].content
<1>w. /\ \A x \in Documents : Portions(x, a) # {} => x = e
      /\ \A m \in Portions(e, a) :
            /\ Entries[e][m].content.quantity \in Nat \ {0} /\ Entries[e][m].content.cost \in Nat
            /\ Fair(whole, Entries[e][m].content)
      /\ SumFunction([m \in Portions(e, a) |-> Entries[e][m].content.quantity]) < whole.quantity
  BY <1>0, Zenon DEF PortionsFit
<1> HIDE DEF whole
<1>3. e = d
  BY <1>0, <1>w
<1>4. a \in draft[d].accruals /\ Drafted(d, a)
  BY <1>0, <1>1, <1>3 DEF BroughtBy, Clearing
<1>5. /\ Entry(d).content.quantity \in Nat \ {0} /\ Entry(d).content.cost \in Nat
      /\ Fair(whole, Entry(d).content)
      /\ PortionSum(d, Portions(d, a)) < accruals[a].quantity
  BY <1>0, <1>2, <1>3, <1>w DEF PortionSum, whole
<1>6. Fair(accruals[a], Entry(d).content)
  BY <1>2, <1>5 DEF Fair, whole
<1> DEFINE B == PortionsBefore(d, a, row[d])
           A == PortionsBefore(d, a, row[d] + 1)
<1>7. /\ A = B \cup {row[d]} /\ row[d] \in Portions(d, a) \ B
      /\ B \in SUBSET Portions(d, a) /\ A \in SUBSET Portions(d, a)
  <2>1. \A m \in Portions(d, a) : m \in Nat
    BY Positions DEF Portions
  <2> QED BY <1>0, <2>1 DEF PortionsBefore
<1> HIDE DEF A, B
<1>8. PortionSum(d, A) = Entry(d).content.quantity + PortionSum(d, B)
  BY <1>0, <1>2, <1>3, <1>7, PortionsAdd
<1>9. PortionSum(d, B) \in Nat /\ PortionSum(d, A) \in Nat /\ PortionSum(d, Portions(d, a)) \in Nat
      /\ PortionSum(d, A) <= PortionSum(d, Portions(d, a))
  BY <1>0, <1>2, <1>3, <1>7, PortionsAdd
<1>10. accruals[a].quantity \in Nat
  BY <1>0, RowsAreFinite DEF Clearing, BooksInv
<1>11. PortionSum(d, A) < accruals[a].quantity
  BY <1>5, <1>9, <1>10
<1> QED BY <1>4, <1>5, <1>6, <1>8, <1>9, <1>11 DEF A, B

\* One row more of an accrual: all its rows are fair, or it clears it.
LEMMA PortionedWith ==
    ASSUME Books, NEW a \in Accrued, Portioned(a), NEW r, r.accrual = a, r \notin reversals, r.quantity \in Nat \ {0},
           r.cost \in Nat, reversals' = reversals \cup {r},
           accruals'[a].quantity = accruals[a].quantity, accruals'[a].cost = accruals[a].cost,
           TotalOf("quantity", a) + r.quantity <= accruals[a].quantity,
           \/ TotalOf("quantity", a) + r.quantity < accruals[a].quantity /\ Fair(accruals[a], r)
           \/ /\ TotalOf("quantity", a) + r.quantity = accruals[a].quantity
              /\ TotalOf("cost", a) + r.cost = accruals[a].cost
    PROVE  Portioned(a)' /\ TotalOf("quantity", a)' = TotalOf("quantity", a) + r.quantity
<1>1. RowsOf(a, reversals)' = RowsOf(a, reversals) \cup {r} /\ r \notin RowsOf(a, reversals)
  BY DEF RowsOf
<1>2. IsFiniteSet(RowsOf(a, reversals)) /\ TotalOf("quantity", a) \in Nat /\ TotalOf("cost", a) \in Nat
      /\ accruals[a].quantity \in Nat \ {0} /\ accruals[a].cost \in Nat
  BY RowsAreFinite
<1>3. \A q \in RowsOf(a, reversals) : q["quantity"] \in Nat \ {0} /\ q["cost"] \in Nat
  BY DEF Portioned
<1>4. TotalOf("quantity", a)' = r.quantity + TotalOf("quantity", a)
  <2>1. Total("quantity", RowsOf(a, reversals) \cup {r}) = r["quantity"] + Total("quantity", RowsOf(a, reversals))
    BY <1>1, <1>2, <1>3, TotalWith
  <2> QED BY <1>1, <2>1 DEF TotalOf, Total
<1>5. TotalOf("cost", a)' = r.cost + TotalOf("cost", a)
  <2>1. Total("cost", RowsOf(a, reversals) \cup {r}) = r["cost"] + Total("cost", RowsOf(a, reversals))
    BY <1>1, <1>2, <1>3, TotalWith
  <2> QED BY <1>1, <2>1 DEF TotalOf, Total
<1>6. Outlasts(accruals[a])' /\ \A q : Fair(accruals[a], q)' <=> Fair(accruals[a], q)
  BY DEF Portioned, Outlasts, Fair
<1>7. \A q \in RowsOf(a, reversals)' : q.quantity \in Nat \ {0} /\ q.cost \in Nat
  BY <1>1, <1>3
<1>8. TotalOf("quantity", a)' < accruals'[a].quantity => \A q \in RowsOf(a, reversals)' : Fair(accruals[a], q)'
  BY <1>1, <1>2, <1>4, <1>6 DEF Portioned
<1>9. TotalOf("quantity", a)' = accruals'[a].quantity => TotalOf("cost", a)' = accruals'[a].cost
  BY <1>2, <1>4, <1>5
<1>10. TotalOf("quantity", a)' <= accruals'[a].quantity
  BY <1>2, <1>4
<1>11. Portioned(a)'
  BY <1>6, <1>7, <1>8, <1>9, <1>10 DEF Portioned
<1> QED BY <1>2, <1>4, <1>11

\* The cached status is all that a refresh changes.
SameButStatus(a) ==
    /\ accruals'[a].quantity = accruals[a].quantity /\ accruals'[a].cost = accruals[a].cost
    /\ accruals'[a].fact = accruals[a].fact

LEMMA RefreshedStays ==
    ASSUME BooksInv, Clearing, NEW touched, NEW rows, touched \cap Accruals \subseteq Accrued,
           accruals' = Refreshed(touched, rows)
    PROVE  Accrued' = Accrued /\ \A a \in Accrued : SameButStatus(a)
<1>1. DOMAIN accruals' = Accruals /\ \A a \in Accruals : a \notin touched => accruals'[a] = accruals[a]
  BY DEF Refreshed
<1>2. ASSUME NEW a \in Accrued PROVE accruals'[a] # None /\ SameButStatus(a)
  <2>1. /\ a \in Accruals /\ DOMAIN accruals[a] = AccrualFields
        /\ accruals[a].quantity \in Int /\ accruals[a].cost \in Int /\ accruals[a].fact \in FactIds
    BY RowsAreFinite DEF Accrued, BooksInv, Books, Clearing
  <2>2. CASE a \notin touched
    BY <1>1, <2>1, <2>2 DEF Accrued, SameButStatus
  <2>3. CASE a \in touched
    <3>1. PICK st \in {"ACTIVE", "PARTIALLY_REVERSED", "REVERSED"} : accruals'[a] = [accruals[a] EXCEPT !.status = st]
      BY <2>1, <2>3 DEF Refreshed, ProjectedStatus
    <3>2. accruals'[a] = [quantity |-> accruals[a].quantity, cost |-> accruals[a].cost,
                          fact |-> accruals[a].fact, status |-> st]
      BY <2>1, <3>1 DEF AccrualFields
    <3>3. accruals'[a] \in AccrualRows
      BY <2>1, <3>2 DEF AccrualRows
    <3> QED BY <3>2, <3>3, AccrualsAssumption DEF SameButStatus
  <2> QED BY <2>2, <2>3
<1>3. Accrued' \subseteq Accrued
  BY <1>1 DEF Accrued
<1> QED BY <1>2, <1>3 DEF Accrued

LEMMA ReversalClearing ==
    ASSUME PortionsFit, IInv, Locks, BooksInv, Clearing, NEW d \in Documents, ImportReversal(d)
    PROVE  Clearing'
<1>1. row[d] \in DOMAIN Entries[d] /\ Entry(d).type = "REVERSAL" /\ d \in Documents \ Cutovers
  BY DEF ImportReversal, Processing, Entry
<1>2. CASE Skip(d)
  BY <1>1, <1>2, SkipClearing
<1>3. CASE ~Skip(d)
  <2>1. PICK r : /\ r.accrual = Entry(d).accrual /\ r.quantity = Entry(d).content.quantity
                 /\ r.cost = Entry(d).content.cost
                 /\ r \notin reversals /\ reversals' = reversals \cup {r}
                 /\ draft' = [draft EXCEPT ![d].reversals = @ \cup {r}]
                 /\ accruals[r.accrual] # None
    <3> DEFINE r == [accrual |-> Entry(d).accrual, allocation |-> noted[Entry(d).scope],
                     quantity |-> Entry(d).content.quantity, cost |-> Entry(d).content.cost, document |-> Fragment(d)]
    <3>1. r.accrual = Entry(d).accrual /\ r.quantity = Entry(d).content.quantity /\ r.cost = Entry(d).content.cost
      OBVIOUS
    <3>2. /\ reversals' = reversals \cup {r} /\ draft' = [draft EXCEPT ![d].reversals = @ \cup {r}]
          /\ accruals[r.accrual] # None /\ \A q \in RowsOf(r.accrual, reversals) : q.allocation # r.allocation
      BY <1>3 DEF ImportReversal, Write
    <3> HIDE DEF r
    <3>3. r \notin reversals
      BY <3>2 DEF RowsOf
    <3> QED BY <3>1, <3>2, <3>3
  <2>2. UNCHANGED <<accruals, documents>> /\ Advance(d)
    BY <1>3 DEF ImportReversal
  <2>3. /\ \A e \in Documents \ {d} : draft'[e].reversals = draft[e].reversals
        /\ draft'[d].reversals = draft[d].reversals \cup {r}
        /\ \A e \in Documents : draft'[e].accruals = draft[e].accruals
    BY <2>1 DEF IInv, Typed
  <2>4. Accrued' = Accrued
    BY <2>2 DEF Accrued
  <2>5. /\ row[d] \in Nat \ {0} /\ row'[d] = row[d] + 1
        /\ \A e \in Documents : row'[e] \in {row[e], row[e] + 1} /\ (row[e] = 0 => row'[e] = 0)
    BY <1>1, <2>2, AdvanceRows
  <2>6. row'[d] # 0 /\ \A e \in Documents \ {d} : row'[e] = row[e]
    BY <1>1, <2>2, AdvanceMoves
  <2>7. ASSUME NEW a \in Accrued, a = r.accrual
        PROVE  Portioned(a)' /\ Drafted(d, a)' /\ a \in draft[d].accruals
    <3>1. PICK before \in Nat, after \in Nat :
              /\ before = PortionSum(d, PortionsBefore(d, a, row[d]))
              /\ after = PortionSum(d, PortionsBefore(d, a, row[d] + 1))
              /\ after = r.quantity + before /\ after < accruals[a].quantity
              /\ a \in draft[d].accruals /\ Drafted(d, a)
              /\ r.quantity \in Nat \ {0} /\ r.cost \in Nat /\ Fair(accruals[a], Entry(d).content)
      BY <1>1, <2>1, <2>7, PortionClearing
    <3>2. Fair(accruals[a], r)
      BY <2>1, <3>1 DEF Fair
    <3>3. TotalOf("quantity", a) <= before
      BY <3>1 DEF Drafted
    <3>4. TotalOf("quantity", a) \in Nat /\ accruals[a].quantity \in Nat
      BY RowsAreFinite DEF Clearing, BooksInv
    <3>5. TotalOf("quantity", a) + r.quantity < accruals[a].quantity
      BY <3>1, <3>3, <3>4
    <3>6. Portioned(a)' /\ TotalOf("quantity", a)' = TotalOf("quantity", a) + r.quantity
      BY <2>1, <2>2, <2>7, <3>1, <3>2, <3>4, <3>5, PortionedWith DEF Clearing, BooksInv
    <3>7. TotalOf("quantity", a)' <= PortionSum(d, PortionsBefore(d, a, row'[d]))
      BY <2>5, <3>1, <3>3, <3>4, <3>6
    <3>8. RowsOf(a, reversals)' \subseteq draft'[d].reversals
      BY <2>1, <2>3, <3>1 DEF RowsOf, Drafted
    <3>9. Drafted(d, a)'
      BY <2>6, <3>1, <3>7, <3>8 DEF Drafted
    <3> QED BY <3>1, <3>6, <3>9
  <2>8. ASSUME NEW a \in Accrued, a # r.accrual
        PROVE  RowsOf(a, reversals)' = RowsOf(a, reversals)
    BY <2>1, <2>8 DEF RowsOf
  <2>9. ASSUME NEW a \in Accrued
        PROVE  Portioned(a)' /\ \E e \in Documents \ Cutovers : BroughtBy(a, e)'
    <3>1. PICK e \in Documents \ Cutovers : BroughtBy(a, e)
      BY DEF Clearing
    <3>2. BroughtBy(a, e)'
      BY <2>2, <2>3, <3>1, BroughtStays
    <3>3. Portioned(a)'
      <4>1. CASE a = r.accrual
        BY <2>7, <4>1
      <4>2. CASE a # r.accrual
        BY <2>2, <2>8, <4>2, PortionedStays DEF Clearing
      <4> QED BY <4>1, <4>2
    <3> QED BY <3>2, <3>3
  <2>10. ASSUME NEW e \in Documents, NEW a \in draft[e].accruals \cap Accrued
         PROVE  Drafted(e, a)'
    <3>1. Drafted(e, a) /\ a \in Accruals
      BY DEF Clearing, Accrued
    <3>2. CASE a = r.accrual
      <4>1. row[e] # 0 /\ e \notin Cutovers
        BY <3>1 DEF Drafted
      <4>2. e = d
        BY <1>1, <2>5, <4>1 DEF Locks
      <4> QED BY <2>7, <3>2, <4>2
    <3>3. CASE a # r.accrual
      <4>1. TotalOf("quantity", a) \in Int
        BY RowsAreFinite DEF Clearing, BooksInv
      <4>2. draft[e].reversals \subseteq draft'[e].reversals
        BY <2>3
      <4> QED BY <2>5, <2>8, <3>1, <3>3, <4>1, <4>2, DraftedStays
    <3> QED BY <3>2, <3>3
  <2>11. \A q \in reversals' : q.accrual \in Accruals => q.accrual \in Accrued'
    BY <2>1, <2>4 DEF Clearing, Accrued
  <2>12. r.accrual \in Accruals => r.accrual \in draft[d].accruals
    BY <2>1, <2>7 DEF Accrued
  <2>13. \A e \in Documents : \A q \in draft'[e].reversals : q.accrual \in Accruals => q.accrual \in draft'[e].accruals
    BY <2>3, <2>12 DEF Clearing
  <2>14. \A e \in Documents : row'[e] = 0 => draft'[e].accruals = {}
    BY <2>3, <2>6 DEF Clearing
  <2>15. \A e \in Documents \ Cutovers : row'[e] # 0 => e \notin documents'
    BY <2>2, <2>5 DEF Clearing
  <2>16. \A a \in Accrued : accruals'[a].fact \in FactIds
    BY <2>2 DEF Clearing
  <2> QED BY <2>3, <2>4, <2>9, <2>10, <2>11, <2>13, <2>14, <2>15, <2>16 DEF Clearing
<1> QED BY <1>2, <1>3

\* A committed document's accruals are its own; their status is recomputed.
LEMMA CommitClearing ==
    ASSUME PortionsFit, IInv, Locks, BooksInv, Clearing, NEW d \in Documents, Commit(d)
    PROVE  Clearing'
<1> DEFINE touched == {r.accrual : r \in draft[d].reversals}
<1>1. Release(d) /\ reversals' = reversals /\ documents' = documents \cup {d} /\ accruals' = Refreshed(touched, reversals)
  BY DEF Commit
<1>2. /\ draft'[d].reversals = {} /\ draft'[d].accruals = {} /\ row'[d] = 0
      /\ \A e \in Documents \ {d} : draft'[e] = draft[e] /\ row'[e] = row[e]
  BY <1>1, ReleaseDrafts DEF Release, Locks
<1>3. \A a : RowsOf(a, reversals)' = RowsOf(a, reversals)
  BY <1>1 DEF RowsOf
<1>4. touched \cap Accruals \subseteq Accrued
  BY DEF BooksInv, Pending
<1> HIDE DEF touched
<1>5. Accrued' = Accrued /\ \A a \in Accrued : SameButStatus(a)
  BY <1>1, <1>4, RefreshedStays
<1>6. ASSUME NEW a \in Accrued
      PROVE  Portioned(a)' /\ \E e \in Documents \ Cutovers : BroughtBy(a, e)'
  <2>1. PICK e \in Documents \ Cutovers : BroughtBy(a, e)
    BY DEF Clearing
  <2>2. BroughtBy(a, e)'
    <3>1. a \in draft[e].accruals => a \in draft'[e].accruals \/ e \in documents'
      BY <1>1, <1>2
    <3> QED BY <1>1, <1>5, <2>1, <3>1, BroughtStays DEF SameButStatus
  <2>3. Portioned(a)'
    BY <1>3, <1>5, PortionedStays DEF Clearing, SameButStatus
  <2> QED BY <2>2, <2>3
<1>7. ASSUME NEW e \in Documents, NEW a \in draft'[e].accruals \cap Accrued
      PROVE  Drafted(e, a)'
  <2>1. e # d /\ a \in draft[e].accruals /\ draft'[e] = draft[e] /\ row'[e] = row[e]
    BY <1>2
  <2>2. Drafted(e, a) /\ a \in Accruals
    BY <2>1 DEF Clearing, Accrued
  <2>3. TotalOf("quantity", a) \in Int
    BY RowsAreFinite DEF Clearing, BooksInv
  <2> QED BY <1>3, <2>1, <2>2, <2>3, DraftedStays
<1>8. \A r \in reversals' : r.accrual \in Accruals => r.accrual \in Accrued'
  BY <1>1, <1>5 DEF Clearing
<1>9. \A e \in Documents : \A r \in draft'[e].reversals : r.accrual \in Accruals => r.accrual \in draft'[e].accruals
  BY <1>2 DEF Clearing
<1>10. \A e \in Documents : row'[e] = 0 => draft'[e].accruals = {}
  BY <1>2 DEF Clearing
<1>11. \A e \in Documents \ Cutovers : row'[e] # 0 => e \notin documents'
  BY <1>1, <1>2 DEF Clearing
<1>12. \A a \in Accrued : accruals'[a].fact \in FactIds
  BY <1>5 DEF Clearing, SameButStatus
<1> QED BY <1>5, <1>6, <1>7, <1>8, <1>9, <1>10, <1>11, <1>12 DEF Clearing

\* What is rolled back is the accruals and their portions together.
LEMMA RollbackClearing ==
    ASSUME PortionsFit, IInv, Locks, BooksInv, Clearing, NEW d \in Documents, Rollback(d)
    PROVE  Clearing'
<1>1. /\ Release(d) /\ documents' = documents /\ reversals' = reversals \ draft[d].reversals
      /\ accruals' = [a \in Accruals |-> IF a \in draft[d].accruals THEN None ELSE accruals[a]]
  BY DEF Rollback
<1>2. /\ draft'[d].reversals = {} /\ draft'[d].accruals = {} /\ row'[d] = 0
      /\ \A e \in Documents \ {d} : draft'[e] = draft[e] /\ row'[e] = row[e]
  BY <1>1, ReleaseDrafts DEF Release, Locks
<1>3. /\ \A a \in Accrued' : a \in Accrued /\ a \notin draft[d].accruals /\ accruals'[a] = accruals[a]
      /\ \A a \in Accrued : a \notin draft[d].accruals => a \in Accrued'
  BY <1>1 DEF Accrued
<1>4. \A a \in Accrued' : RowsOf(a, reversals)' = RowsOf(a, reversals)
  <2> SUFFICES ASSUME NEW a \in Accrued' PROVE RowsOf(a, reversals)' = RowsOf(a, reversals)
    OBVIOUS
  <2>1. a \in Accruals /\ a \notin draft[d].accruals
    BY <1>3 DEF Accrued
  <2>2. \A r \in draft[d].reversals : r.accrual # a
    BY <2>1 DEF Clearing
  <2> QED BY <1>1, <2>2 DEF RowsOf
<1>5. ASSUME NEW a \in Accrued'
      PROVE  Portioned(a)' /\ \E e \in Documents \ Cutovers : BroughtBy(a, e)'
  <2>1. a \in Accrued /\ a \notin draft[d].accruals /\ accruals'[a] = accruals[a]
    BY <1>3
  <2>2. Portioned(a)'
    BY <1>4, <2>1, PortionedStays DEF Clearing
  <2>3. PICK e \in Documents \ Cutovers : BroughtBy(a, e)
    BY <2>1 DEF Clearing
  <2>4. a \in draft[e].accruals => a \in draft'[e].accruals
    BY <1>2, <2>1
  <2>5. BroughtBy(a, e)'
    BY <1>1, <2>1, <2>3, <2>4, BroughtStays
  <2> QED BY <2>2, <2>5
<1>6. ASSUME NEW e \in Documents, NEW a \in draft'[e].accruals \cap Accrued'
      PROVE  Drafted(e, a)'
  <2>1. e # d /\ a \in draft[e].accruals \cap Accrued /\ draft'[e] = draft[e] /\ row'[e] = row[e]
    BY <1>2, <1>3
  <2>2. Drafted(e, a) /\ a \in Accruals
    BY <2>1 DEF Clearing, Accrued
  <2>3. TotalOf("quantity", a) \in Int
    BY <2>1, RowsAreFinite DEF Clearing, BooksInv
  <2> QED BY <1>4, <2>1, <2>2, <2>3, DraftedStays
<1>7. \A r \in reversals' : r.accrual \in Accruals => r.accrual \in Accrued'
  <2> SUFFICES ASSUME NEW r \in reversals, r \notin draft[d].reversals, r.accrual \in Accruals
               PROVE  r.accrual \in Accrued'
    BY <1>1
  <2>1. r.accrual \in Accrued /\ r \in RowsOf(r.accrual, reversals)
    BY DEF Clearing, RowsOf
  <2>2. r.accrual \notin draft[d].accruals
    BY <2>1 DEF Clearing, Drafted
  <2> QED BY <1>3, <2>1, <2>2
<1>8. \A e \in Documents : \A r \in draft'[e].reversals : r.accrual \in Accruals => r.accrual \in draft'[e].accruals
  BY <1>2 DEF Clearing
<1>9. \A e \in Documents : row'[e] = 0 => draft'[e].accruals = {}
  BY <1>2 DEF Clearing
<1>10. \A e \in Documents \ Cutovers : row'[e] # 0 => e \notin documents'
  BY <1>1, <1>2 DEF Clearing
<1>11. \A a \in Accrued' : accruals'[a].fact \in FactIds
  BY <1>3 DEF Clearing
<1> QED BY <1>5, <1>6, <1>7, <1>8, <1>9, <1>10, <1>11 DEF Clearing

\* What a reader sees of an accrual is all that was reversed of it.
LEMMA KnownRows ==
    ASSUME BooksInv, Clearing, NEW a \in Known
    PROVE  /\ a \in Accrued
           /\ RemainingQuantity(a, Booked) = accruals[a].quantity - TotalOf("quantity", a)
           /\ RemainingCost(a, Booked) = accruals[a].cost - TotalOf("cost", a)
<1>1. a \in Accrued /\ a \in Accruals /\ \A d \in Documents : a \notin draft[d].accruals
  BY DEF Known, Accrued
<1>2. RowsOf(a, Booked) = RowsOf(a, reversals)
  BY <1>1 DEF RowsOf, Booked, Clearing
<1> QED BY <1>1, <1>2 DEF RemainingQuantity, RemainingCost, TotalOf

\* What the preview proposes is fair, or the rest.
LEMMA ProposalsClear ==
    ASSUME IInv, CapacityInv, BooksInv, Clearing, NEW p \in Periods, NEW r \in Reversals(p)
    PROVE  LET a == r.accrual IN
           /\ a \in Accrued /\ r.quantity \in Nat \ {0} /\ r.cost \in Nat
           /\ TotalOf("quantity", a) + r.quantity <= accruals[a].quantity
           /\ \/ TotalOf("quantity", a) + r.quantity < accruals[a].quantity /\ Fair(accruals[a], r)
              \/ /\ TotalOf("quantity", a) + r.quantity = accruals[a].quantity
                 /\ TotalOf("cost", a) + r.cost = accruals[a].cost
<1>1. PICK item \in Items : r \in ReversalsOf(item, p)
  BY DEF Reversals
<1>2. PICK a \in OpenAccruals(item), f \in Sources(item, p) : r = ReversalOf(a, f)
  BY <1>1 DEF ReversalsOf
<1>3. a \in Known /\ RemainingQuantity(a, Booked) > 0 /\ RemainingCost(a, Booked) > 0
  BY DEF OpenAccruals, IsOpen
<1>4. f \in FactIds /\ Exists(f) /\ facts[f].type = "ALLOCATION" /\ Unclaimed(f) > 0
  BY DEF Sources, Qualifying, Current, IsCurrent
<1>5. Unclaimed(f) \in Int
  BY <1>4, UnclaimedIsInt DEF BooksInv, CapacityInv
<1>6. PICK tq \in Nat, tc \in Nat, Q \in Nat \ {0}, c \in Nat :
         /\ a \in Accrued /\ tq = TotalOf("quantity", a) /\ tc = TotalOf("cost", a)
         /\ Q = accruals[a].quantity /\ c = accruals[a].cost
         /\ RemainingQuantity(a, Booked) = Q - tq /\ RemainingCost(a, Booked) = c - tc
  BY <1>3, KnownRows, RowsAreFinite DEF BooksInv, Clearing
<1>7. PICK q : q = IF Unclaimed(f) < RemainingQuantity(a, Booked) THEN Unclaimed(f) ELSE RemainingQuantity(a, Booked)
  OBVIOUS
<1>8. q \in Nat \ {0} /\ q <= Q - tq
  BY <1>3, <1>4, <1>5, <1>6, <1>7
<1>9. r.accrual = a /\ r.quantity = q /\ r.cost = ReversalCost(a, q)
  BY <1>2, <1>7 DEF ReversalOf
<1>10. CASE q = Q - tq
  <2>1. r.cost = c - tc
    BY <1>6, <1>9, <1>10 DEF ReversalCost
  <2> QED BY <1>3, <1>6, <1>8, <1>9, <1>10, <2>1
<1>11. CASE q # Q - tq
  <2>1. r.cost = Cost(c, Q, q)
    BY <1>6, <1>9, <1>11 DEF ReversalCost
  <2>2. r.cost \in Nat /\ 2 * Scale * Q * r.cost <= q * (2 * Scale * c + Q * (Scale + 1))
    BY <1>8, <2>1, CostIsFair
  <2>3. Fair(accruals[a], r)
    BY <1>6, <1>9, <2>2 DEF Fair
  <2>4. tq + q < Q
    BY <1>6, <1>8, <1>11
  <2> QED BY <1>6, <1>8, <1>9, <2>2, <2>3, <2>4
<1> QED BY <1>10, <1>11

LEMMA BookClearing ==
    ASSUME IInv, CapacityInv, BooksInv, Clearing, NEW p \in Periods, NEW r \in Reversals(p), Book(r)
    PROVE  Clearing'
<1>1. PICK a : /\ a = r.accrual /\ a \in Accrued /\ r.quantity \in Nat \ {0} /\ r.cost \in Nat
               /\ TotalOf("quantity", a) + r.quantity <= accruals[a].quantity
               /\ \/ TotalOf("quantity", a) + r.quantity < accruals[a].quantity /\ Fair(accruals[a], r)
                  \/ /\ TotalOf("quantity", a) + r.quantity = accruals[a].quantity
                     /\ TotalOf("cost", a) + r.cost = accruals[a].cost
  BY ProposalsClear
<1>2. UNCHANGED <<row, draft, documents>> /\ writeLock = None /\ accruals' = Refreshed({a}, reversals')
  BY <1>1 DEF Book, session
<1>3. PICK q : /\ q.accrual = a /\ q.quantity = r.quantity /\ q.cost = r.cost
               /\ q \notin reversals /\ reversals' = reversals \cup {q}
  <2>1. PICK q : q = [accrual |-> r.accrual, allocation |-> r.allocation, quantity |-> r.quantity,
                      cost |-> r.cost, document |-> None]
    OBVIOUS
  <2>2. reversals' = reversals \cup {q} /\ \A x \in RowsOf(r.accrual, reversals) : x.allocation # r.allocation
    BY <2>1 DEF Book
  <2>3. q \notin reversals
    BY <2>1, <2>2 DEF RowsOf
  <2> QED BY <1>1, <2>1, <2>2, <2>3
<1>4. Accrued' = Accrued /\ \A b \in Accrued : SameButStatus(b)
  <2>1. PICK rows : rows = reversals'
    OBVIOUS
  <2>2. {a} \cap Accruals \subseteq Accrued /\ accruals' = Refreshed({a}, rows)
    BY <1>1, <1>2, <2>1
  <2> QED BY <2>2, RefreshedStays
<1>5. Portioned(a)'
  <2>1. Fair(accruals[a], r) <=> Fair(accruals[a], q)
    BY <1>3 DEF Fair
  <2>2. accruals'[a].quantity = accruals[a].quantity /\ accruals'[a].cost = accruals[a].cost
    BY <1>1, <1>4 DEF SameButStatus
  <2>3. Books /\ Portioned(a)
    BY <1>1 DEF BooksInv, Clearing
  <2> QED BY <1>1, <1>3, <2>1, <2>2, <2>3, PortionedWith
<1>6. ASSUME NEW b \in Accrued
      PROVE  Portioned(b)' /\ \E e \in Documents \ Cutovers : BroughtBy(b, e)'
  <2>1. PICK e \in Documents \ Cutovers : BroughtBy(b, e)
    BY DEF Clearing
  <2>2. BroughtBy(b, e)'
    BY <1>2, <1>4, <2>1, BroughtStays DEF SameButStatus
  <2>3. CASE b = a
    BY <1>5, <2>2, <2>3
  <2>4. CASE b # a
    <3>1. RowsOf(b, reversals)' = RowsOf(b, reversals)
      BY <1>3, <2>4 DEF RowsOf
    <3>2. Portioned(b)'
      BY <1>4, <3>1, PortionedStays DEF Clearing, SameButStatus
    <3> QED BY <2>2, <3>2
  <2> QED BY <2>3, <2>4
<1>7. \A d \in Documents : draft'[d].accruals \cap Accrued' = {}
  <2>1. \A d \in Documents \ Cutovers : row[d] = 0
    BY <1>2, SessionsAssumption DEF CapacityInv, Locks
  <2> QED BY <1>2, <1>4, <2>1 DEF Clearing, Drafted
<1>8. \A x \in reversals' : x.accrual \in Accruals => x.accrual \in Accrued'
  BY <1>1, <1>3, <1>4 DEF Clearing
<1>9. \A d \in Documents : \A x \in draft'[d].reversals : x.accrual \in Accruals => x.accrual \in draft'[d].accruals
  BY <1>2 DEF Clearing
<1>10. \A d \in Documents : row'[d] = 0 => draft'[d].accruals = {}
  BY <1>2 DEF Clearing
<1>11. \A d \in Documents \ Cutovers : row'[d] # 0 => d \notin documents'
  BY <1>2 DEF Clearing
<1>12. \A b \in Accrued : accruals'[b].fact \in FactIds
  BY <1>4 DEF Clearing, SameButStatus
<1> QED BY <1>4, <1>6, <1>7, <1>8, <1>9, <1>10, <1>11, <1>12 DEF Clearing

LEMMA StepClearing ==
    ASSUME PortionsFit, IInv, CapacityInv, BooksInv, Clearing, [CloseNext]_vars
    PROVE  Clearing'
<1>0. Locks
  BY DEF CapacityInv
<1>1. CASE UNCHANGED <<accruals, reversals, draft, row, documents>>
  BY <1>0, <1>1, ClearingStays
<1>2. ASSUME NEW i \in Invoices, NEW c \in Contracts, Confirm(i, c)
      PROVE  Clearing'
  BY <1>1, <1>2 DEF Confirm, session
<1>3. ASSUME NEW d \in Documents, Start(d)
      PROVE  Clearing'
  <2>1. UNCHANGED <<accruals, reversals, draft, documents>> /\ row' = [row EXCEPT ![d] = 1] /\ row[d] = 0
    BY <1>3 DEF Start
  <2>2. \A e \in Documents : row'[e] = IF e = d THEN 1 ELSE row[e]
    BY <1>0, <2>1 DEF Locks
  <2>3. d \notin Cutovers => d \notin documents
    BY <1>3 DEF Start
  <2>4. \A e \in Documents : /\ row'[e] \in {row[e], row[e] + 1}
                             /\ row[e] = 0 /\ row'[e] # 0 /\ e \notin Cutovers => e \notin documents
    BY <2>1, <2>2, <2>3
  <2> QED BY <1>0, <2>1, <2>4, ClearingStays
<1>4. ASSUME NEW s \in Superseders,
             \/ \E old \in FactIds, new \in Replacements : Supersede(s, old, new)
             \/ InsertAndMark(s) \/ Lose(s) \/ Crash(s)
      PROVE  Clearing'
  BY <1>1, <1>4 DEF Supersede, InsertAndMark, Lose, Crash, EndSupersession
<1>5. CASE UNCHANGED vars
  BY <1>1, <1>5 DEF vars, session
<1> QED BY <1>0, <1>2, <1>3, <1>4, <1>5, FactClearing, AccrualClearing, ReversalClearing, CommitClearing,
           RollbackClearing, CheckpointClearing, BookClearing DEF CloseNext, Next

LEMMA InitClearing == Init => Clearing
<1> SUFFICES ASSUME Init PROVE Clearing
  OBVIOUS
<1>1. Accrued = {} /\ reversals = {} /\ documents = {} /\ \A d \in Documents : draft[d] = Nothing
  BY DEF Init, Accrued
<1> QED BY <1>1 DEF Clearing, Nothing

\* Reversing what the previews proposed, in whatever portions the invoices
\* arrive and whatever else is written in between: an accrual's cost is used up
\* exactly when its quantity is, and neither is overdrawn, where a unit is worth
\* more than the earlier portions can round away (period_close.py, R006).
THEOREM PortionsClear == ASSUME PortionsFit PROVE CloseSpec => []ClearedExactly
<1>1. Init => Clearing
  BY InitClearing
<1>2. IInv /\ CapacityInv /\ BooksInv /\ Clearing /\ [CloseNext]_vars => Clearing'
  BY StepClearing
<1>3. IInv /\ CapacityInv /\ BooksInv /\ Clearing => ClearedExactly
  <2> SUFFICES ASSUME IInv, CapacityInv, BooksInv, Clearing, NEW a \in Known
               PROVE  /\ RemainingQuantity(a, Booked) >= 0 /\ RemainingCost(a, Booked) >= 0
                      /\ RemainingQuantity(a, Booked) = 0 <=> RemainingCost(a, Booked) = 0
    BY DEF ClearedExactly
  <2>1. PICK tq \in Nat, tc \in Nat, Q \in Nat \ {0}, c \in Nat :
           /\ a \in Accrued /\ tq = TotalOf("quantity", a) /\ tc = TotalOf("cost", a)
           /\ Q = accruals[a].quantity /\ c = accruals[a].cost
           /\ RemainingQuantity(a, Booked) = Q - tq /\ RemainingCost(a, Booked) = c - tc
    BY KnownRows, RowsAreFinite DEF BooksInv, Clearing
  <2>2. tq <= Q /\ (tq = Q => tc = c)
    BY <2>1 DEF Clearing, Portioned
  <2>3. tq < Q => tc < c
    BY <2>1, CostLeft DEF BooksInv, Clearing
  <2> QED BY <2>1, <2>2, <2>3
<1> QED BY <1>1, <1>2, <1>3, BooksAreKept, PTL DEF CloseSpec
=============================================================================
