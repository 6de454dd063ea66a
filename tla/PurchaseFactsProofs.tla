------------------------ MODULE PurchaseFactsProofs ------------------------
(***************************************************************************)
(* Proofs about PurchaseFacts for any fields, values, files, submissions,  *)
(* amendments, sessions and any supply of revision ids.                    *)
(***************************************************************************)
EXTENDS PurchaseFacts, TLAPS, FiniteSetTheorems

-----------------------------------------------------------------------------
(* The inductive invariant.                                                *)

InChain(r, a)   == Exists(r) /\ revs[r].anchor = a
Asserts(kind, as) == \E D \in SUBSET Fields[kind] : as \in [D -> KnownValues]
Unnamed(id)     == id.kind = "SHIPMENT" /\ id.key[1] = None

\* The fragments a session creates facts from are its own: a person's is made of
\* what is asserted, and a file's shipments without a reference name its rows.
Owns(s, id, as, fragment) ==
    /\ s \in People => fragment = ManualFragment(id, as)
    /\ s \in Imports => /\ fragment[1] = "row"
                        /\ Unnamed(id) => fragment[2] \in Unreferenced(s)
OwnClaim(s, k) ==
    /\ k.id \in Identities /\ Asserts(k.id.kind, k.asserted) /\ k.fragment \in Fragments
    /\ Owns(s, k.id, k.asserted, k.fragment)

Typed ==
    /\ anchors \in [RevIds -> Identities \cup {None}]
    /\ revs \in [RevIds -> Revisions \cup {None}]
    /\ pc \in [Sessions -> {"idle", "read", "insert"}]
    /\ row \in [Sessions -> Nat] /\ work \in [Sessions -> Seq(AllEntries)]
    /\ claim = [s \in Sessions |-> claim[s]]
    /\ draft = [s \in Sessions |-> [anchors |-> draft[s].anchors, tasks |-> draft[s].tasks,
                                    claims |-> draft[s].claims]]

\* Who is doing what: a person holds the lock, an import is at its own file.
Working ==
    /\ \A s \in People : pc[s] # "idle" => writeLock = s
    /\ \A s \in Imports : pc[s] # "idle" => work[s] = Files[s]
    /\ \A s \in Sessions : pc[s] = "read" => row[s] # 0
    /\ \A s \in Sessions : pc[s] = "idle" => draft[s] = NoDraft
    /\ \A s \in Sessions : \A a \in draft[s].anchors :
          /\ a \in Pool[s] /\ anchors[a] # None
          /\ Owns(s, anchors[a], AssertedBy(a), revs[a].fragment)

\* What is about to be written is not there: whoever could write the same
\* shipment without a reference is waiting for the lock or reads another file.
AboutToInsert ==
    \A s \in Sessions : pc[s] = "insert" =>
        /\ OwnClaim(s, claim[s])
        /\ Unnamed(claim[s].id) =>
              \A a \in RevIds : anchors[a] = claim[s].id => revs[a].fragment # claim[s].fragment

\* Every row belongs to an anchor, whose first row it is or which it revises.
Written(r) ==
    LET a == revs[r].anchor
    IN  /\ InChain(a, a) /\ anchors[a] # None
        /\ revs[r].values \in [Fields[anchors[a].kind] -> KnownValues \cup {None}]
        /\ revs[r].names \subseteq Fields[anchors[a].kind]
        /\ revs[r].next # None => InChain(revs[r].next, a)
        /\ r = a => \E s \in Sessions : Owns(s, anchors[a], AssertedBy(a), revs[a].fragment)
        /\ r # a => r \in Spare /\ Committed(a) /\ revs[r].fragment \in ReviseFragments
Rows ==
    /\ \A a \in RevIds : anchors[a] # None => InChain(a, a)
    /\ \A r \in RevIds : Exists(r) => Written(r)

\* Two anchors with one identity are contracts, or shipments without a
\* reference from different Evidence.
MayRepeat(a, b) ==
    \/ anchors[a].kind = "CONTRACT"
    \/ Unnamed(anchors[a]) /\ revs[a].fragment # revs[b].fragment
Apart ==
    \A a, b \in RevIds : (anchors[a] # None /\ anchors[a] = anchors[b] /\ a # b) => MayRepeat(a, b)

\* Every anchor has one current revision.
OneCurrent(a) ==
    /\ \E r \in RevisionsOf(a) : IsCurrent(r)
    /\ \A q, r \in RevisionsOf(a) : IsCurrent(q) /\ IsCurrent(r) => q = r
Chains == \A a \in RevIds : anchors[a] # None => OneCurrent(a)

Core == Typed /\ Working /\ AboutToInsert /\ Rows /\ Apart /\ Chains

\* A dependent names an item or a shipment its session sees, and a revision of it.
Dependencies ==
    \A d \in dependents :
        /\ d \in [fact : {e.fact : e \in dependents}, anchor : RevIds, since : RevIds,
                  by : Sessions \cup {None}]
        /\ InChain(d.since, d.anchor) /\ anchors[d.anchor] # None
        /\ anchors[d.anchor].kind \in {"ITEM", "SHIPMENT"}
        /\ IF d.by = None THEN Committed(d.anchor) ELSE Sees(d.by, d.anchor)

\* What a transaction claims is stated by an anchor it sees, told by a task, or
\* refused for an item it sees.
StatedTo(s, k) == \E a \in RevIds : Sees(s, a) /\ anchors[a] = k.id /\ AssertedBy(a) = k.asserted
ItemsTo(s, key) ==
    {i \in RevIds : Sees(s, i) /\ anchors[i] # None /\ anchors[i].kind = "ITEM" /\ anchors[i].key = key}
MeantTo(s, k) ==
    /\ \A f \in DOMAIN k.said \ {"item"} : f \in DOMAIN k.asserted /\ k.asserted[f] = k.said[f]
    /\ "item" \in DOMAIN k.said =>
          IF "item" \in DOMAIN k.asserted THEN k.asserted["item"] \in ItemsTo(s, k.said["item"])
          ELSE k.fragment[1] = "row"
RefusedTo(s, k) ==
    /\ k.fragment[1] = "create" /\ k.id.kind = "SHIPMENT"
    /\ \/ k.id.of = None
       \/ /\ "item" \in DOMAIN k.asserted
          /\ \E i \in ItemsTo(s, k.said["item"]) : k.asserted["item"] = i /\ anchors[i].of # k.id.of
TellsOf(t, k) ==
    \/ /\ t.kind \in {"IDENTITY_INCOMPLETE", "IDENTITY_AMBIGUOUS", "CONFLICT"}
       /\ t.fact = k.id.kind /\ t.number = k.number
       /\ t.key = TaskKey(t.kind, k.id.kind, k.id.key, k.at)
    \/ /\ t.kind \in {"SHIPMENT_IDENTITY_INCOMPLETE", "SHIPMENT_IDENTITY_CONFLICT"}
       /\ t.fragment = k.fragment /\ k.fragment[1] = "create"
Accounts(s, k) ==
    \/ StatedTo(s, k) /\ MeantTo(s, k)
    \/ \E t \in tasks \cup draft[s].tasks : TellsOf(t, k)
    \/ RefusedTo(s, k)
Accounted(k) == (Stated(k) /\ Meant(k)) \/ Reported(k) \/ Refused(k)
DraftsAccountedFor == \A s \in Sessions : \A k \in draft[s].claims : Accounts(s, k)
\* What is about to be inserted is what was said.
ClaimsMeant == \A s \in Sessions : pc[s] = "insert" => MeantTo(s, claim[s])
-----------------------------------------------------------------------------
(* Assertions, entries and claims.                                         *)

LEMMA IdsAreNotNone ==
    /\ None \notin RevIds /\ None \notin Sessions /\ None \notin Values
    /\ None \notin Identities /\ None \notin Revisions
  BY NoneAssumption

LEMMA PoolsAreIds ==
    ASSUME NEW s \in Sessions
    PROVE  /\ Pool[s] \subseteq RevIds /\ Pool[s] \cap Spare = {}
           /\ \A t \in Sessions : s # t => Pool[s] \cap Pool[t] = {}
  BY SessionsAssumption DEF RevIds

LEMMA PeopleDoNotImport == People \cap Imports = {} /\ Sessions = People \cup Imports
  BY SessionsAssumption DEF Imports, Sessions

LEMMA FieldsAreFields ==
    ASSUME NEW kind \in Kinds
    PROVE  Fields[kind] \subseteq AllFields
  BY InputsAssumption DEF AllFields, Range

LEMMA AssertsIsTyped ==
    ASSUME NEW kind \in Kinds, NEW as, Asserts(kind, as)
    PROVE  /\ as \in Assertions /\ DOMAIN as \subseteq Fields[kind]
           /\ as = [f \in DOMAIN as |-> as[f]]
           /\ \A f \in DOMAIN as : as[f] \in KnownValues
  <1>1. PICK D \in SUBSET Fields[kind] : as \in [D -> KnownValues]
    BY DEF Asserts
  <1>2. D \in SUBSET AllFields
    BY <1>1, FieldsAreFields
  <1> QED BY <1>1, <1>2 DEF Assertions

LEMMA ProjectionIsTyped ==
    ASSUME NEW kind \in Kinds, NEW as, Asserts(kind, as)
    PROVE  /\ Projection(kind, as) \in [Fields[kind] -> KnownValues \cup {None}]
           /\ Restrict(Projection(kind, as), DOMAIN as) = as
  <1>1. /\ DOMAIN as \subseteq Fields[kind] /\ as = [f \in DOMAIN as |-> as[f]]
        /\ \A f \in DOMAIN as : as[f] \in KnownValues
    BY AssertsIsTyped
  <1>2. Projection(kind, as) \in [Fields[kind] -> KnownValues \cup {None}]
    BY <1>1 DEF Projection
  <1>3. \A f \in DOMAIN as : Projection(kind, as)[f] = as[f]
    BY <1>1 DEF Projection
  <1>4. Restrict(Projection(kind, as), DOMAIN as) = [f \in DOMAIN as |-> Projection(kind, as)[f]]
    BY DEF Restrict
  <1> QED BY <1>1, <1>2, <1>3, <1>4

LEMMA MergeIsTyped ==
    ASSUME NEW kind \in Kinds, NEW as, Asserts(kind, as),
           NEW v \in [Fields[kind] -> KnownValues \cup {None}]
    PROVE  Merge(kind, v, as) \in [Fields[kind] -> KnownValues \cup {None}]
  BY AssertsIsTyped DEF Merge

LEMMA RevisionIsTyped ==
    ASSUME NEW kind \in Kinds, NEW as, Asserts(kind, as), NEW a \in RevIds,
           NEW type \in {"INITIAL", "SUPPLEMENT", "CORRECTION"},
           NEW v \in [Fields[kind] -> KnownValues \cup {None}], NEW fragment \in Fragments
    PROVE  /\ Revision(a, type, v, as, fragment) \in Revisions
           /\ Revision(a, type, v, as, fragment) # None
  <1>1. DOMAIN as \subseteq AllFields
    BY AssertsIsTyped, FieldsAreFields
  <1>2. v \in UNION {[Fields[k] -> KnownValues \cup {None}] : k \in Kinds}
    OBVIOUS
  <1>3. Revision(a, type, v, as, fragment) \in Revisions
    BY <1>1, <1>2 DEF Revision, Revisions
  <1> QED BY <1>3, IdsAreNotNone

\* What is asserted once an item key is an item, or is left out.
LEMMA AssertionsResolve ==
    ASSUME NEW kind \in Kinds, NEW as, IsAssertion(kind, as)
    PROVE  /\ "item" \notin DOMAIN as => Asserts(kind, as)
           /\ \A i \in RevIds : "item" \in DOMAIN as => Asserts(kind, [as EXCEPT !["item"] = i])
           /\ Asserts(kind, Restrict(as, DOMAIN as \ {"item"}))
  <1>1. /\ DOMAIN as \in SUBSET Fields[kind] /\ as = [f \in DOMAIN as |-> as[f]]
        /\ \A f \in DOMAIN as \ {"item"} : as[f] \in Values
    BY DEF IsAssertion
  <1>2. "item" \notin DOMAIN as => as \in [DOMAIN as -> KnownValues]
    BY <1>1 DEF KnownValues
  <1>3. ASSUME NEW i \in RevIds
        PROVE  [as EXCEPT !["item"] = i] \in [DOMAIN as -> KnownValues]
    BY <1>1 DEF KnownValues
  <1>4. Restrict(as, DOMAIN as \ {"item"}) \in [DOMAIN as \ {"item"} -> KnownValues]
    BY <1>1 DEF KnownValues, Restrict
  <1> QED BY <1>1, <1>2, <1>3, <1>4 DEF Asserts

LEMMA NowIsAnEntry ==
    ASSUME Typed, Working, NEW s \in Sessions, Processing(s)
    PROVE  Now(s) \in AllEntries /\ (s \in Imports => Now(s) \in Range(Files[s]))
  <1>1. work[s] \in Seq(AllEntries) /\ row[s] \in 1..Len(work[s])
    BY DEF Typed, Working, Processing
  <1>2. Now(s) \in AllEntries
    BY <1>1 DEF Now
  <1>3. CASE s \in Imports
    <2>1. work[s] = Files[s] /\ Files[s] \in Seq(Range(Files[s]))
      BY <1>3, FilesAssumption DEF Working, Processing
    <2> QED BY <1>1, <1>2, <2>1 DEF Now
  <1> QED BY <1>2, <1>3

LEMMA ScopesAreIds ==
    ASSUME NEW s
    PROVE  \A c \in Scopes(s) : IF Now(s).kind = "CONTRACT" THEN c = None ELSE c \in RevIds
  BY DEF Scopes, ContractsOf, Anchored

LEMMA ResolvedIsTyped ==
    ASSUME NEW s, NEW c, NEW as \in Resolved(s, c), Now(s).kind \in Kinds,
           IsAssertion(Now(s).kind, Now(s).asserted)
    PROVE  Asserts(Now(s).kind, as)
  <1> DEFINE said == Now(s).asserted
  <1>1. CASE "item" \notin DOMAIN said
    BY <1>1, AssertionsResolve DEF Resolved
  <1>2. CASE "item" \in DOMAIN said
    <2>1. \A i \in RevIds : Asserts(Now(s).kind, [said EXCEPT !["item"] = i])
      BY <1>2, AssertionsResolve
    <2>2. Asserts(Now(s).kind, Restrict(said, DOMAIN said \ {"item"}))
      BY AssertionsResolve
    <2>3. ItemsOf(s, c, said["item"]) \subseteq RevIds
      BY DEF ItemsOf, Anchored
    <2> QED BY <1>2, <2>1, <2>2, <2>3 DEF Resolved
  <1> QED BY <1>1, <1>2

LEMMA ClaimsAreOwn ==
    ASSUME Typed, Working, NEW s \in Sessions, Resolvable(s), NEW k \in Claims(s)
    PROVE  /\ OwnClaim(s, k)
           /\ k.id.kind = Now(s).kind /\ k.id.key = Now(s).key /\ k.number = Now(s).number
           /\ k.at = row[s] /\ k.fragment[1] = IF s \in People THEN "create" ELSE "row"
  <1>1. PICK c \in Scopes(s), as \in UNION {Resolved(s, d) : d \in Scopes(s)} : k = Claim(s, c, as)
    BY DEF Claims
  <1>2. Now(s) \in AllEntries /\ (s \in Imports => Now(s) \in Range(Files[s]))
        /\ Now(s).kind \in Kinds /\ IsAssertion(Now(s).kind, Now(s).asserted)
    BY NowIsAnEntry, InputsAssumption DEF Resolvable
  <1>3. Asserts(Now(s).kind, as)
    BY <1>1, <1>2, ResolvedIsTyped
  <1> DEFINE of == IF Now(s).kind = "CONTRACT" THEN Now(s).number ELSE c
             id == Identity(Now(s).kind, of, Now(s).key)
  <1>4. of \in {e.number : e \in AllEntries} \cup RevIds
    BY <1>1, <1>2, ScopesAreIds
  <1>5. /\ k.id = id /\ k.asserted = as /\ k.number = Now(s).number
        /\ k.fragment = (IF s \in People THEN ManualFragment(id, as) ELSE RowFragment(Now(s)))
        /\ k.at = row[s]
    BY <1>1 DEF Claim
  <1> HIDE DEF of
  <1>6. id \in Identities /\ id.kind = Now(s).kind /\ id.key = Now(s).key
    BY <1>2, <1>4 DEF Identity, Identities
  <1>7. as \in Assertions
    BY <1>2, <1>3, AssertsIsTyped
  <1>8. k.fragment \in Fragments
    <2>1. ManualFragment(id, as) \in Fragments
      BY <1>6, <1>7 DEF Fragments, ManualFragment
    <2>2. RowFragment(Now(s)) \in Fragments
      BY <1>2 DEF Fragments, RowFragment
    <2> QED BY <1>5, <2>1, <2>2
  <1>9. Owns(s, k.id, k.asserted, k.fragment)
    <2>1. s \in People => k.fragment = ManualFragment(k.id, k.asserted)
      BY <1>5
    <2>2. ASSUME s \in Imports
          PROVE  k.fragment[1] = "row" /\ k.fragment[2] = Now(s).fragment
      <3>1. s \notin People
        BY <2>2, PeopleDoNotImport
      <3> QED BY <1>5, <3>1 DEF RowFragment
    <2>3. ASSUME s \in Imports, Unnamed(k.id)
          PROVE  Now(s).fragment \in Unreferenced(s)
      BY <1>2, <1>5, <1>6, <2>3 DEF Unnamed, Unreferenced
    <2> QED BY <2>1, <2>2, <2>3 DEF Owns
  <1>10. k.fragment[1] = IF s \in People THEN "create" ELSE "row"
    BY <1>5 DEF ManualFragment, RowFragment
  <1> QED BY <1>3, <1>5, <1>6, <1>8, <1>9, <1>10 DEF OwnClaim

\* A claim asserts what was said, its item being one the session sees.
LEMMA ClaimsAreMeant ==
    ASSUME Typed, Working, NEW s \in Sessions, Resolvable(s), NEW k \in Claims(s)
    PROVE  MeantTo(s, k) /\ ("item" \in DOMAIN k.asserted => "item" \in DOMAIN k.said)
  <1>1. PICK c, d, as : /\ c \in Scopes(s) /\ d \in Scopes(s)
                        /\ as \in Resolved(s, d) /\ k = Claim(s, c, as)
    BY DEF Claims
  <1>2. PICK said : said = Now(s).asserted
    OBVIOUS
  <1>3. k.said = said /\ k.asserted = as
    BY <1>1, <1>2 DEF Claim
  <1>4. k.fragment[1] = IF s \in People THEN "create" ELSE "row"
    BY ClaimsAreOwn
  <1>5. said = [f \in DOMAIN said |-> said[f]]
    BY <1>2, NowIsAnEntry, InputsAssumption DEF Resolvable, IsAssertion
  <1>6. CASE "item" \notin DOMAIN said
    <2>1. as = said
      BY <1>1, <1>2, <1>6 DEF Resolved
    <2> QED BY <1>3, <1>6, <2>1 DEF MeantTo
  <1>7. CASE "item" \in DOMAIN said
    <2>1. \A a \in RevIds : Sees(s, a) /\ anchors[a].kind = "ITEM" /\ anchors[a].key = said["item"]
             => a \in ItemsTo(s, said["item"])
      <3>1. \A a \in RevIds : Committed(a) \/ a \in draft[s].anchors => anchors[a] # None
        BY DEF Committed, Working
      <3> QED BY <3>1 DEF ItemsTo, Sees
    <2>2. CASE \E i \in ItemsTo(s, said["item"]) : as = [said EXCEPT !["item"] = i]
      <3>1. PICK i \in ItemsTo(s, said["item"]) : as = [said EXCEPT !["item"] = i]
        BY <2>2
      <3>2. DOMAIN as = DOMAIN said /\ as["item"] = i
            /\ \A f \in DOMAIN said \ {"item"} : as[f] = said[f]
        BY <1>5, <1>7, <3>1
      <3> QED BY <1>3, <1>7, <3>1, <3>2 DEF MeantTo
    <2>3. CASE s \notin People /\ as = Restrict(said, DOMAIN said \ {"item"})
      <3>1. DOMAIN as = DOMAIN said \ {"item"} /\ \A f \in DOMAIN said \ {"item"} : as[f] = said[f]
        BY <2>3 DEF Restrict
      <3> QED BY <1>3, <1>4, <1>7, <2>3, <3>1 DEF MeantTo
    <2>4. CASE s \in People
      <3>1. PICK i \in RevIds : /\ Sees(s, i) /\ anchors[i].kind = "ITEM" /\ anchors[i].key = said["item"]
                                /\ as = [said EXCEPT !["item"] = i]
        BY <1>1, <1>2, <1>7, <2>4 DEF Resolved
      <3> QED BY <2>1, <2>2, <3>1
    <2>5. CASE s \notin People
      <3>1. CASE ItemsOf(s, d, said["item"]) = {}
        BY <1>1, <1>2, <1>7, <2>3, <2>5, <3>1 DEF Resolved
      <3>2. CASE ItemsOf(s, d, said["item"]) # {}
        <4>1. PICK i \in ItemsOf(s, d, said["item"]) : as = [said EXCEPT !["item"] = i]
          BY <1>1, <1>2, <1>7, <2>5, <3>2 DEF Resolved
        <4>2. i \in RevIds /\ Sees(s, i) /\ anchors[i] = Identity("ITEM", d, said["item"])
          BY <4>1 DEF ItemsOf, Anchored
        <4>3. anchors[i].kind = "ITEM" /\ anchors[i].key = said["item"]
          BY <4>2 DEF Identity
        <4> QED BY <2>1, <2>2, <4>1, <4>2, <4>3
      <3> QED BY <3>1, <3>2
    <2> QED BY <2>4, <2>5
  <1> QED BY <1>6, <1>7
-----------------------------------------------------------------------------
(* Steps that write no row and publish none.                               *)

SameAnchors == UNCHANGED <<anchors, revs>> /\ \A t \in Sessions : draft'[t].anchors = draft[t].anchors

LEMMA SameAnchorsKeepRows ==
    ASSUME SameAnchors
    PROVE  /\ \A a : Committed(a)' <=> Committed(a)
           /\ \A s \in Sessions, a \in RevIds : Sees(s, a)' <=> Sees(s, a)
           /\ Rows => Rows'
           /\ Apart => Apart'
           /\ Chains => Chains'
  <1>1. \A a : Committed(a)' <=> Committed(a)
    BY DEF SameAnchors, Committed
  <1>2. \A s \in Sessions, a \in RevIds : Sees(s, a)' <=> Sees(s, a)
    BY <1>1 DEF Sees, SameAnchors
  <1>3. anchors' = anchors /\ revs' = revs
    BY DEF SameAnchors
  <1>4. Rows => Rows'
    BY <1>1, <1>3 DEF Rows, Written, InChain, Exists, AssertedBy
  <1>5. Apart => Apart'
    BY <1>3 DEF Apart, MayRepeat
  <1>6. Chains => Chains'
    BY <1>3 DEF Chains, OneCurrent, RevisionsOf, IsCurrent, Exists
  <1> QED BY <1>1, <1>2, <1>4, <1>5, <1>6

LEMMA BeginKeepsCore ==
    ASSUME Core, NEW s \in Sessions, NEW entries \in Seq(AllEntries), Begin(s, entries),
           s \in People => writeLock = None /\ writeLock' = s,
           s \in Imports => entries = Files[s] /\ writeLock' = writeLock
    PROVE  Core' /\ SameAnchors
  <1>1. /\ anchors' = anchors /\ revs' = revs /\ draft' = draft /\ claim' = claim
        /\ pc[s] = "idle" /\ pc' = [pc EXCEPT ![s] = "read"]
        /\ row' = [row EXCEPT ![s] = 1] /\ work' = [work EXCEPT ![s] = entries]
    BY DEF Begin, store, tables
  <1>2. Typed'
    BY <1>1 DEF Core, Typed
  <1>3. \A t \in Sessions : t # s => pc'[t] = pc[t] /\ row'[t] = row[t] /\ work'[t] = work[t]
    BY <1>1 DEF Core, Typed
  <1>4. pc'[s] = "read" /\ row'[s] = 1 /\ work'[s] = entries
    BY <1>1 DEF Core, Typed
  <1>5. ASSUME NEW t \in People, pc'[t] # "idle" PROVE writeLock' = t
    <2>1. t \in Sessions /\ t \notin Imports
      BY PeopleDoNotImport
    <2>2. CASE s \in People
      BY <1>3, <1>5, <2>1, <2>2, IdsAreNotNone DEF Core, Working
    <2>3. CASE s \in Imports
      <3>1. t # s
        BY <2>1, <2>3
      <3> QED BY <1>3, <1>5, <2>1, <2>3, <3>1 DEF Core, Working
    <2> QED BY <2>2, <2>3, PeopleDoNotImport
  <1>6. \A t \in Imports : pc'[t] # "idle" => work'[t] = Files[t]
    BY <1>3, <1>4, PeopleDoNotImport DEF Core, Working
  <1>7. Working'
    BY <1>1, <1>3, <1>4, <1>5, <1>6 DEF Core, Working, AssertedBy
  <1>8. AboutToInsert'
    BY <1>1, <1>3, <1>4 DEF Core, AboutToInsert, OwnClaim, Owns, Asserts
  <1>9. SameAnchors
    BY <1>1 DEF SameAnchors
  <1> QED BY <1>2, <1>7, <1>8, <1>9, SameAnchorsKeepRows DEF Core

LEMMA StartsKeepCore ==
    ASSUME Core
    PROVE  /\ \A p \in People, e \in Submissions : Submit(p, e) => Core' /\ SameAnchors
           /\ \A m \in Imports : StartImport(m) => Core' /\ SameAnchors
  <1>1. ASSUME NEW p \in People, NEW e \in Submissions, Submit(p, e) PROVE Core' /\ SameAnchors
    <2>1. <<e>> \in Seq(AllEntries)
      BY DEF AllEntries
    <2> QED BY <1>1, <2>1, PeopleDoNotImport, BeginKeepsCore DEF Submit
  <1>2. ASSUME NEW m \in Imports, StartImport(m) PROVE Core' /\ SameAnchors
    <2>1. Files[m] \in Seq(AllEntries)
      <3>1. Files[m] \in Seq(Range(Files[m])) /\ Range(Files[m]) \subseteq AllEntries
        BY FilesAssumption DEF AllEntries
      <3> QED BY <3>1
    <2> QED BY <1>2, <2>1, PeopleDoNotImport, BeginKeepsCore DEF StartImport
  <1> QED BY <1>1, <1>2

LEMMA ProceedsFrom ==
    ASSUME Typed, NEW s \in Sessions, NEW raised, NEW claims, Proceed(s, raised, claims)
    PROVE  /\ pc'[s] = "read" /\ row'[s] = row[s] + 1
           /\ draft'[s] = [anchors |-> draft[s].anchors, tasks |-> draft[s].tasks \cup raised,
                           claims |-> draft[s].claims \cup claims]
           /\ \A t \in Sessions : t # s => /\ pc'[t] = pc[t] /\ row'[t] = row[t]
                                           /\ draft'[t] = draft[t] /\ claim'[t] = claim[t]
           /\ \A t \in Sessions : draft'[t].anchors = draft[t].anchors
           /\ Typed' <=> anchors' \in [RevIds -> Identities \cup {None}]
                         /\ revs' \in [RevIds -> Revisions \cup {None}]
           /\ UNCHANGED <<tasks, evidence, writeLock, work>>
  <1>1. draft[s] = [anchors |-> draft[s].anchors, tasks |-> draft[s].tasks,
                    claims |-> draft[s].claims]
    BY DEF Typed
  <1>2. DOMAIN draft = Sessions /\ DOMAIN claim = Sessions /\ DOMAIN draft' = Sessions
    BY DEF Typed, Proceed
  <1>3. draft'[s] = [anchors |-> draft[s].anchors, tasks |-> draft[s].tasks \cup raised,
                     claims |-> draft[s].claims \cup claims]
    <2>1. draft'[s] = [draft[s] EXCEPT !.tasks = @ \cup raised, !.claims = @ \cup claims]
      BY <1>2 DEF Proceed
    <2> QED BY <1>1, <2>1
  <1>4. \A t \in Sessions : t # s => draft'[t] = draft[t]
    BY <1>2 DEF Proceed
  <1>5. \A t \in Sessions : draft'[t].anchors = draft[t].anchors
    BY <1>3, <1>4
  <1>6. draft' = [t \in Sessions |-> [anchors |-> draft'[t].anchors, tasks |-> draft'[t].tasks,
                                      claims |-> draft'[t].claims]]
    <2>1. \A t \in Sessions : draft'[t] = [anchors |-> draft'[t].anchors, tasks |-> draft'[t].tasks,
                                           claims |-> draft'[t].claims]
      BY <1>3, <1>4 DEF Typed
    <2>2. draft' = [t \in Sessions |-> draft'[t]]
      BY <1>2 DEF Proceed
    <2> QED BY <2>1, <2>2
  <1>7. /\ pc' \in [Sessions -> {"idle", "read", "insert"}]
        /\ row' \in [Sessions -> Nat] /\ work' \in [Sessions -> Seq(AllEntries)]
        /\ claim' = [t \in Sessions |-> claim'[t]]
    <2>1. claim' = [t \in Sessions |-> claim'[t]]
      BY <1>2 DEF Proceed
    <2>2. /\ pc' \in [Sessions -> {"idle", "read", "insert"}]
          /\ row' \in [Sessions -> Nat] /\ work' \in [Sessions -> Seq(AllEntries)]
      BY DEF Proceed, Typed
    <2> QED BY <2>1, <2>2
  <1>8. /\ pc'[s] = "read" /\ row'[s] = row[s] + 1
        /\ \A t \in Sessions : t # s => pc'[t] = pc[t] /\ row'[t] = row[t] /\ claim'[t] = claim[t]
        /\ UNCHANGED <<tasks, evidence, writeLock, work>>
    BY <1>2 DEF Proceed, Typed
  <1>9. Typed' <=> anchors' \in [RevIds -> Identities \cup {None}]
                   /\ revs' \in [RevIds -> Revisions \cup {None}]
    BY <1>6, <1>7 DEF Typed
  <1> QED BY <1>3, <1>4, <1>5, <1>8, <1>9

LEMMA ProceedKeepsCore ==
    ASSUME Core, NEW s \in Sessions, NEW raised, NEW claims, Proceed(s, raised, claims),
           pc[s] = "read", UNCHANGED <<anchors, revs>>
    PROVE  Core' /\ SameAnchors
  <1>1. /\ pc'[s] = "read" /\ row'[s] = row[s] + 1 /\ row[s] \in Nat
        /\ \A t \in Sessions : t # s => /\ pc'[t] = pc[t] /\ row'[t] = row[t]
                                        /\ draft'[t] = draft[t] /\ claim'[t] = claim[t]
        /\ \A t \in Sessions : draft'[t].anchors = draft[t].anchors
        /\ Typed' /\ UNCHANGED <<tasks, evidence, writeLock, work>>
    BY ProceedsFrom DEF Core, Typed
  <1>2. Working'
    <2>1. \A p \in People : pc'[p] # "idle" => writeLock' = p
      BY <1>1, PeopleDoNotImport DEF Core, Working
    <2>2. \A m \in Imports : pc'[m] # "idle" => work'[m] = Files[m]
      BY <1>1, PeopleDoNotImport DEF Core, Working
    <2>3. \A t \in Sessions : pc'[t] = "read" => row'[t] # 0
      BY <1>1 DEF Core, Working
    <2>4. \A t \in Sessions : pc'[t] = "idle" => draft'[t] = NoDraft
      BY <1>1 DEF Core, Working
    <2>5. \A t \in Sessions : \A a \in draft'[t].anchors :
             /\ a \in Pool[t] /\ anchors'[a] # None
             /\ Owns(t, anchors'[a], AssertedBy(a)', revs'[a].fragment)
      BY <1>1 DEF Core, Working, AssertedBy
    <2> QED BY <2>1, <2>2, <2>3, <2>4, <2>5 DEF Working
  <1>3. AboutToInsert'
    <2>1. ASSUME NEW t \in Sessions, pc'[t] = "insert"
          PROVE  /\ OwnClaim(t, claim'[t])
                 /\ Unnamed(claim'[t].id) =>
                       \A a \in RevIds : anchors'[a] = claim'[t].id =>
                                           revs'[a].fragment # claim'[t].fragment
      <3>1. t # s /\ pc[t] = "insert" /\ claim'[t] = claim[t]
        BY <1>1, <2>1
      <3> QED BY <3>1 DEF Core, AboutToInsert
    <2> QED BY <2>1 DEF AboutToInsert, OwnClaim, Owns, Asserts
  <1>4. SameAnchors
    BY <1>1 DEF SameAnchors
  <1> QED BY <1>1, <1>2, <1>3, <1>4, SameAnchorsKeepRows DEF Core

\* The steps of a creation that only proceed to the next entry.
LEMMA ProceedingSteps ==
    ASSUME NEW s,
           \/ IdentityUnresolved(s) \/ ScopeRefused(s) \/ ShipmentUnconfirmed(s)
           \/ Agrees(s) \/ Conflicts(s) \/ Depend(s)
    PROVE  /\ pc[s] = "read" /\ UNCHANGED <<anchors, revs>>
           /\ \E raised, claims : Proceed(s, raised, claims)
  <1>1. CASE IdentityUnresolved(s)
    BY <1>1 DEF IdentityUnresolved, tables, Processing
  <1>2. CASE ScopeRefused(s)
    BY <1>2 DEF ScopeRefused, Resolvable, tables, Processing
  <1>3. CASE ShipmentUnconfirmed(s)
    BY <1>3 DEF ShipmentUnconfirmed, Resolvable, tables, Processing
  <1>4. CASE Agrees(s)
    BY <1>4 DEF Agrees, Resolvable, tables, Processing
  <1>5. CASE Conflicts(s)
    BY <1>5 DEF Conflicts, Resolvable, tables, Processing
  <1>6. CASE Depend(s)
    BY <1>6 DEF Depend, Processing
  <1> QED BY <1>1, <1>2, <1>3, <1>4, <1>5, <1>6

LEMMA RecordKeepsCore ==
    ASSUME Core, NEW a, NEW fact, Record(a, fact)
    PROVE  Core' /\ SameAnchors
  <1>1. UNCHANGED <<anchors, revs, writeLock, pc, row, work, claim, draft>>
    BY DEF Record
  <1>2. SameAnchors
    BY <1>1 DEF SameAnchors
  <1>3. Typed' /\ Working' /\ AboutToInsert'
    BY <1>1 DEF Core, Typed, Working, AboutToInsert, OwnClaim, Owns, Asserts, AssertedBy
  <1> QED BY <1>2, <1>3, SameAnchorsKeepRows DEF Core
-----------------------------------------------------------------------------
(* An entry is looked up, and its anchor inserted.                         *)

\* Two sessions at work never hold the same Evidence of a shipment without a
\* reference.
LEMMA EvidenceIsExclusive ==
    ASSUME Working, NEW s \in Sessions, NEW t \in Sessions, s # t,
           pc[s] # "idle", pc[t] # "idle",
           NEW id, NEW as, NEW bs, NEW fragment, Unnamed(id),
           Owns(s, id, as, fragment), Owns(t, id, bs, fragment)
    PROVE  FALSE
  <1>1. ASSUME s \in People, t \in People PROVE FALSE
    BY <1>1 DEF Working
  <1>2. ASSUME NEW p \in People, NEW m \in Imports, NEW cs,
               Owns(p, id, cs, fragment), fragment[1] = "row"
        PROVE  FALSE
    BY <1>2 DEF Owns, ManualFragment
  <1>3. ASSUME s \in Imports, t \in Imports PROVE FALSE
    <2>1. fragment[2] \in Unreferenced(s) \cap Unreferenced(t)
      BY <1>3 DEF Owns
    <2> QED BY <1>3, <2>1, FilesAssumption
  <1>4. \A m \in Imports : \A cs : Owns(m, id, cs, fragment) => fragment[1] = "row"
    BY DEF Owns
  <1> QED BY <1>1, <1>2, <1>3, <1>4, PeopleDoNotImport

\* One statement of session s: everything of the others stays.
LEMMA NotFoundKeepsCore ==
    ASSUME Core, NEW s \in Sessions, NotFound(s)
    PROVE  Core' /\ SameAnchors /\ UNCHANGED <<tables, tasks, evidence, draft>>
  <1>1. PICK k \in Claims(s) :
           /\ s \in Ledgers \/ Met(s, k) = {}
           /\ claim' = [claim EXCEPT ![s] = k]
    BY DEF NotFound
  <1>2. /\ Resolvable(s) /\ Processing(s) /\ pc[s] = "read"
        /\ pc' = [pc EXCEPT ![s] = "insert"]
        /\ UNCHANGED <<anchors, revs, dependents, tasks, evidence, writeLock, row, work, draft>>
    BY DEF NotFound, Resolvable, Processing, store, tables
  <1>3. /\ pc'[s] = "insert" /\ claim'[s] = k /\ claim' = [t \in Sessions |-> claim'[t]]
        /\ \A t \in Sessions : t # s => pc'[t] = pc[t] /\ claim'[t] = claim[t]
    <2>1. DOMAIN claim = Sessions
      BY DEF Core, Typed
    <2>2. claim' = [t \in Sessions |-> claim'[t]]
      BY <1>1, <2>1
    <2> QED BY <1>1, <1>2, <2>1, <2>2 DEF Core, Typed
  <1>4. OwnClaim(s, k) /\ k.id.kind = Now(s).kind
    BY <1>2, ClaimsAreOwn DEF Core
  <1>5. ASSUME Unnamed(k.id), NEW a \in RevIds, anchors[a] = k.id, revs[a].fragment = k.fragment
        PROVE  FALSE
    <2>1. s \notin Ledgers
      <3>1. ASSUME s \in Ledgers PROVE FALSE
        <4>1. s \in Imports
          BY <3>1 DEF Imports
        <4>2. Now(s) \in Range(Files[s])
          BY <1>2, <4>1, NowIsAnEntry DEF Core
        <4>3. Now(s).kind = "CONTRACT"
          BY <3>1, <4>2, FilesAssumption
        <4> QED BY <1>4, <1>5, <4>3 DEF Unnamed
      <3> QED BY <3>1
    <2>2. anchors[a] # None /\ InChain(a, a)
      BY <1>4, <1>5, IdsAreNotNone DEF Core, Rows, OwnClaim
    <2>3. ~Sees(s, a)
      <3>1. NoReference(k)
        BY <1>5 DEF Unnamed, NoReference
      <3> QED BY <1>1, <1>5, <2>1, <2>2, <3>1 DEF Met, InChain
    <2>4. PICK t \in Sessions : a \in draft[t].anchors
      BY <2>2, <2>3 DEF Sees, Committed
    <2>5. t # s
      BY <2>3, <2>4 DEF Sees
    <2>6. pc[t] # "idle"
      BY <2>4 DEF Core, Working, NoDraft
    <2>7. Owns(t, k.id, AssertedBy(a), k.fragment)
      BY <1>5, <2>4 DEF Core, Working
    <2>8. Owns(s, k.id, k.asserted, k.fragment)
      BY <1>4 DEF OwnClaim
    <2> QED BY <1>2, <1>5, <2>5, <2>6, <2>7, <2>8, EvidenceIsExclusive DEF Core
  <1>6. Typed'
    <2>1. pc' \in [Sessions -> {"idle", "read", "insert"}]
      BY <1>2 DEF Core, Typed
    <2> QED BY <1>2, <1>3, <2>1 DEF Core, Typed
  <1>7. Working'
    <2>1. \A t \in Sessions : /\ pc'[t] # "idle" => pc[t] # "idle"
                              /\ pc'[t] = "idle" => pc[t] = "idle"
                              /\ pc'[t] = "read" => pc[t] = "read"
      BY <1>2, <1>3
    <2> QED BY <1>2, <2>1, PeopleDoNotImport DEF Core, Working, AssertedBy
  <1>8. AboutToInsert'
    <2>1. ASSUME NEW t \in Sessions, pc'[t] = "insert"
          PROVE  /\ OwnClaim(t, claim'[t])
                 /\ Unnamed(claim'[t].id) =>
                       \A a \in RevIds : anchors[a] = claim'[t].id =>
                                         revs[a].fragment # claim'[t].fragment
      <3>1. CASE t = s
        BY <1>3, <1>4, <1>5, <3>1
      <3>2. CASE t # s
        BY <1>3, <2>1, <3>2 DEF Core, AboutToInsert
      <3> QED BY <3>1, <3>2
    <2> QED BY <1>2, <2>1 DEF AboutToInsert, OwnClaim, Owns, Asserts
  <1>9. SameAnchors
    BY <1>2 DEF SameAnchors
  <1> QED BY <1>2, <1>6, <1>7, <1>8, <1>9, SameAnchorsKeepRows DEF Core, tables

\* Session s writes anchor a and its INITIAL revision.
Inserted(s, a) ==
    LET k == claim[s]
    IN  /\ pc[s] = "insert" /\ a \in Pool[s] /\ ~Exists(a)
        /\ UniqueIndexAdmits(k.id)
        /\ anchors' = [anchors EXCEPT ![a] = k.id]
        /\ revs' = [revs EXCEPT ![a] = Revision(a, "INITIAL", Projection(k.id.kind, k.asserted),
                                                k.asserted, k.fragment)]
        /\ draft' = [draft EXCEPT ![s].anchors = @ \cup {a}, ![s].claims = @ \cup {k}]
        /\ pc' = [pc EXCEPT ![s] = "read"] /\ row' = [row EXCEPT ![s] = @ + 1]
        /\ claim' = [claim EXCEPT ![s] = None]
        /\ UNCHANGED <<dependents, tasks, evidence, writeLock, work>>

LEMMA InsertIsInserted ==
    ASSUME NEW s, InsertAnchor(s)
    PROVE  \E a : Inserted(s, a)
  <1>1. Fresh(Pool[s]) \in Pool[s] /\ ~Exists(Fresh(Pool[s]))
    BY DEF InsertAnchor, HasFresh, Fresh
  <1> QED BY <1>1 DEF InsertAnchor, Inserted

\* What of the store the insert changes.
InsertedRow(s, a) ==
    LET k == claim[s]
    IN  /\ a \in RevIds /\ a \in Pool[s] /\ a \notin Spare /\ ~Exists(a) /\ anchors[a] = None
        /\ OwnClaim(s, k) /\ k.id.kind \in Kinds /\ k.id # None
        /\ anchors' \in [RevIds -> Identities \cup {None}]
        /\ revs' \in [RevIds -> Revisions \cup {None}]
        /\ anchors'[a] = k.id /\ revs'[a] # None /\ revs'[a].anchor = a
        /\ revs'[a].type = "INITIAL" /\ revs'[a].fragment = k.fragment /\ revs'[a].next = None
        /\ revs'[a].values = Projection(k.id.kind, k.asserted)
        /\ revs'[a].names = DOMAIN k.asserted /\ AssertedBy(a)' = k.asserted
        /\ \A b \in RevIds : b # a => anchors'[b] = anchors[b] /\ revs'[b] = revs[b]
        /\ \A t \in Sessions : draft'[t].anchors = IF t = s THEN draft[s].anchors \cup {a}
                                                   ELSE draft[t].anchors
        /\ draft'[s].claims = draft[s].claims \cup {k} /\ draft'[s].tasks = draft[s].tasks
        /\ \A t \in Sessions : t # s => /\ pc'[t] = pc[t] /\ row'[t] = row[t]
                                        /\ draft'[t] = draft[t] /\ claim'[t] = claim[t]
        /\ pc'[s] = "read" /\ row'[s] = row[s] + 1
        /\ \A b \in RevIds : Committed(b)' <=> Committed(b)

LEMMA InsertedRows ==
    ASSUME Core, NEW s \in Sessions, NEW a, Inserted(s, a)
    PROVE  InsertedRow(s, a) /\ Typed'
  <1> DEFINE k == claim[s]
             r == Revision(a, "INITIAL", Projection(k.id.kind, k.asserted), k.asserted, k.fragment)
  <1>1. a \in RevIds /\ a \in Pool[s] /\ a \notin Spare /\ ~Exists(a) /\ anchors[a] = None
    BY PoolsAreIds DEF Inserted, Core, Rows, InChain
  <1>2. OwnClaim(s, k) /\ k.id.kind \in Kinds /\ k.id # None /\ k.id \in Identities
    <2>1. OwnClaim(s, k)
      BY DEF Inserted, Core, AboutToInsert
    <2> QED BY <2>1, IdsAreNotNone DEF OwnClaim, Identities
  <1>3. /\ Projection(k.id.kind, k.asserted) \in [Fields[k.id.kind] -> KnownValues \cup {None}]
        /\ Restrict(Projection(k.id.kind, k.asserted), DOMAIN k.asserted) = k.asserted
    BY <1>2, ProjectionIsTyped DEF OwnClaim
  <1>4. r \in Revisions /\ r # None
    BY <1>1, <1>2, <1>3, RevisionIsTyped DEF OwnClaim
  <1>5. /\ r.anchor = a /\ r.type = "INITIAL" /\ r.fragment = k.fragment /\ r.next = None
        /\ r.values = Projection(k.id.kind, k.asserted) /\ r.names = DOMAIN k.asserted
    BY DEF Revision
  <1>6. anchors' = [anchors EXCEPT ![a] = k.id] /\ revs' = [revs EXCEPT ![a] = r]
    BY DEF Inserted
  <1> HIDE DEF r, k
  <1>7. /\ anchors' \in [RevIds -> Identities \cup {None}]
        /\ revs' \in [RevIds -> Revisions \cup {None}]
        /\ anchors'[a] = k.id /\ revs'[a] = r
        /\ \A b \in RevIds : b # a => anchors'[b] = anchors[b] /\ revs'[b] = revs[b]
    BY <1>1, <1>2, <1>4, <1>6 DEF Core, Typed
  <1>8. AssertedBy(a)' = k.asserted
    BY <1>3, <1>5, <1>7 DEF AssertedBy
  <1>9. DOMAIN draft = Sessions /\ DOMAIN claim = Sessions
    BY DEF Core, Typed
  <1>10. draft'[s] = [anchors |-> draft[s].anchors \cup {a}, tasks |-> draft[s].tasks,
                      claims |-> draft[s].claims \cup {k}]
    <2>1. draft'[s] = [draft[s] EXCEPT !.anchors = @ \cup {a}, !.claims = @ \cup {k}]
      BY <1>9 DEF Inserted, k
    <2>2. draft[s] = [anchors |-> draft[s].anchors, tasks |-> draft[s].tasks,
                      claims |-> draft[s].claims]
      BY DEF Core, Typed
    <2> QED BY <2>1, <2>2
  <1>11. \A t \in Sessions : t # s => draft'[t] = draft[t] /\ claim'[t] = claim[t]
    BY <1>9 DEF Inserted
  <1>12. \A t \in Sessions : draft'[t].anchors = IF t = s THEN draft[s].anchors \cup {a}
                                                 ELSE draft[t].anchors
    <2>1. draft'[s].anchors = draft[s].anchors \cup {a}
      BY <1>10
    <2> QED BY <1>11, <2>1
  <1>13. /\ pc'[s] = "read" /\ row'[s] = row[s] + 1
         /\ \A t \in Sessions : t # s => pc'[t] = pc[t] /\ row'[t] = row[t]
    BY DEF Inserted, Core, Typed
  <1>14. \A b \in RevIds : Committed(b)' <=> Committed(b)
    BY <1>1, <1>7, <1>12 DEF Committed
  <1>15. Typed'
    <2>1. draft' = [t \in Sessions |-> draft'[t]] /\ claim' = [t \in Sessions |-> claim'[t]]
      BY <1>9 DEF Inserted
    <2>2. \A t \in Sessions : draft'[t] = [anchors |-> draft'[t].anchors, tasks |-> draft'[t].tasks,
                                           claims |-> draft'[t].claims]
      BY <1>10, <1>11 DEF Core, Typed
    <2>3. draft' = [t \in Sessions |-> [anchors |-> draft'[t].anchors, tasks |-> draft'[t].tasks,
                                        claims |-> draft'[t].claims]]
      BY <2>1, <2>2
    <2>4. /\ pc' \in [Sessions -> {"idle", "read", "insert"}]
          /\ row' \in [Sessions -> Nat] /\ work' \in [Sessions -> Seq(AllEntries)]
      BY DEF Inserted, Core, Typed
    <2> QED BY <1>7, <2>1, <2>3, <2>4 DEF Typed
  <1>16. /\ revs'[a] # None /\ revs'[a].anchor = a
         /\ revs'[a].type = "INITIAL" /\ revs'[a].fragment = k.fragment /\ revs'[a].next = None
         /\ revs'[a].values = Projection(k.id.kind, k.asserted) /\ revs'[a].names = DOMAIN k.asserted
    BY <1>4, <1>5, <1>7
  <1>17. draft'[s].claims = draft[s].claims \cup {k} /\ draft'[s].tasks = draft[s].tasks
    BY <1>10
  <1>18. k = claim[s]
    BY DEF k
  <1> HIDE DEF Inserted
  <1> QED BY <1>1, <1>2, <1>7, <1>8, <1>11, <1>12, <1>13, <1>14, <1>15, <1>16, <1>17, <1>18
          DEF InsertedRow

\* An anchor whose rows a step leaves alone.
SameChain(b) == /\ RevisionsOf(b)' = RevisionsOf(b)
                /\ \A r \in RevisionsOf(b) : revs'[r] = revs[r]

LEMMA SameChainIsCurrent ==
    ASSUME NEW b, SameChain(b), OneCurrent(b)
    PROVE  OneCurrent(b)'
  <1>1. \A r \in RevisionsOf(b) : r \in RevIds /\ Exists(r)
    BY DEF RevisionsOf
  <1>2. \A r \in RevisionsOf(b) : IsCurrent(r)' <=> IsCurrent(r)
    BY <1>1 DEF SameChain, IsCurrent, Exists
  <1>3. RevisionsOf(b)' = RevisionsOf(b)
    BY DEF SameChain
  <1>4. \E r \in RevisionsOf(b)' : IsCurrent(r)'
    BY <1>2, <1>3 DEF OneCurrent
  <1>5. \A q, r \in RevisionsOf(b)' : IsCurrent(q)' /\ IsCurrent(r)' => q = r
    BY <1>2, <1>3 DEF OneCurrent
  <1> QED BY <1>4, <1>5 DEF OneCurrent

LEMMA InsertKeepsChains ==
    ASSUME Core, NEW s \in Sessions, NEW a, InsertedRow(s, a)
    PROVE  /\ \A b \in RevIds : anchors[b] # None => b # a /\ SameChain(b)
           /\ RevisionsOf(a)' = {a}
  <1>1. \A r \in RevIds : Exists(r) => r # a /\ revs[r].anchor # a
    BY DEF InsertedRow, Core, Rows, Written
  <1>2. \A r \in RevIds : Exists(r)' <=> Exists(r) \/ r = a
    BY DEF InsertedRow, Exists
  <1>3. ASSUME NEW b \in RevIds, anchors[b] # None PROVE b # a /\ SameChain(b)
    <2>1. b # a
      BY <1>3 DEF InsertedRow
    <2>2. \A r \in RevIds : (Exists(r)' /\ revs'[r].anchor = b) <=> (Exists(r) /\ revs[r].anchor = b)
      BY <1>1, <1>2, <2>1 DEF InsertedRow
    <2>3. RevisionsOf(b)' = RevisionsOf(b)
      BY <2>2 DEF RevisionsOf
    <2>4. \A r \in RevisionsOf(b) : revs'[r] = revs[r]
      BY <1>1 DEF RevisionsOf, InsertedRow
    <2> QED BY <2>1, <2>3, <2>4 DEF SameChain
  <1>4. \A r \in RevIds : (Exists(r)' /\ revs'[r].anchor = a) <=> r = a
    BY <1>1, <1>2 DEF InsertedRow
  <1>5. RevisionsOf(a)' = {a}
    BY <1>4 DEF RevisionsOf, InsertedRow
  <1> QED BY <1>3, <1>5

LEMMA InsertKeepsRows ==
    ASSUME Core, NEW s \in Sessions, NEW a, InsertedRow(s, a)
    PROVE  Rows'
  <1>1. \A r, b \in RevIds : InChain(r, b) => r # a /\ InChain(r, b)'
    BY DEF InsertedRow, InChain, Exists
  <1>2. InChain(a, a)'
    BY DEF InsertedRow, InChain, Exists
  <1>3. ASSUME NEW b \in RevIds, anchors'[b] # None PROVE InChain(b, b)'
    <2>1. CASE b = a
      BY <1>2, <2>1
    <2>2. CASE b # a
      BY <1>1, <1>3, <2>2 DEF InsertedRow, Core, Rows
    <2> QED BY <2>1, <2>2
  <1>4. Written(a)'
    <2>1. /\ revs'[a].anchor = a /\ anchors'[a] # None
          /\ revs'[a].next = None /\ a \in RevIds
      BY DEF InsertedRow
    <2>2. /\ revs'[a].values \in [Fields[anchors'[a].kind] -> KnownValues \cup {None}]
          /\ revs'[a].names \subseteq Fields[anchors'[a].kind]
      BY AssertsIsTyped, ProjectionIsTyped DEF InsertedRow, OwnClaim
    <2>3. Owns(s, anchors'[a], AssertedBy(a)', revs'[a].fragment)
      BY DEF InsertedRow, OwnClaim
    <2> QED BY <1>2, <2>1, <2>2, <2>3 DEF Written, Owns, Core
  <1>5. ASSUME NEW r \in RevIds, r # a, Exists(r)' PROVE Written(r)'
    <2>1. Exists(r) /\ Written(r) /\ revs'[r] = revs[r]
      BY <1>5 DEF InsertedRow, Exists, Core, Rows
    <2>6. PICK b : b = revs[r].anchor
      OBVIOUS
    <2>2. /\ b \in RevIds /\ b # a /\ anchors[b] # None /\ anchors'[b] = anchors[b]
          /\ revs'[b] = revs[b] /\ InChain(b, b) /\ InChain(b, b)'
      BY <1>1, <2>1, <2>6 DEF Written, InsertedRow, Core, Typed, Revisions, Exists
    <2>3. revs[r].next # None => InChain(revs[r].next, b)'
      <3>1. revs[r].next # None => revs[r].next \in RevIds
        BY <2>1 DEF Core, Typed, Revisions, Exists
      <3> QED BY <1>1, <2>1, <2>2, <2>6, <3>1 DEF Written
    <2>4. AssertedBy(b)' = AssertedBy(b)
      BY <2>2 DEF AssertedBy
    <2>5. Committed(b)' <=> Committed(b)
      BY <2>2 DEF InsertedRow
    <2> QED BY <2>1, <2>2, <2>3, <2>4, <2>5, <2>6 DEF Written, Owns
  <1> QED BY <1>3, <1>4, <1>5 DEF Rows

LEMMA InsertKeepsApart ==
    ASSUME Core, NEW s \in Sessions, NEW a, InsertedRow(s, a), UniqueIndexAdmits(claim[s].id),
           pc[s] = "insert"
    PROVE  Apart'
  <1> DEFINE k == claim[s]
  <1>1. ASSUME NEW b \in RevIds, b # a, anchors[b] = k.id
        PROVE  \/ k.id.kind = "CONTRACT"
               \/ Unnamed(k.id) /\ revs[b].fragment # k.fragment
    <2>1. k.id.kind = "CONTRACT" \/ Unnamed(k.id)
      BY <1>1 DEF UniqueIndexAdmits, Unnamed
    <2>2. Unnamed(k.id) => revs[b].fragment # k.fragment
      BY <1>1 DEF Core, AboutToInsert
    <2> QED BY <2>1, <2>2
  <1>2. anchors'[a] = k.id /\ revs'[a].fragment = k.fragment
    BY DEF InsertedRow
  <1>3. \A b \in RevIds : b # a => anchors'[b] = anchors[b] /\ revs'[b] = revs[b]
    BY DEF InsertedRow
  <1> HIDE DEF k
  <1>4. ASSUME NEW b \in RevIds, NEW c \in RevIds, anchors'[b] # None, anchors'[b] = anchors'[c], b # c
        PROVE  MayRepeat(b, c)'
    <2>1. CASE b = a
      BY <1>1, <1>2, <1>3, <1>4, <2>1 DEF MayRepeat, Unnamed
    <2>2. CASE c = a
      BY <1>1, <1>2, <1>3, <1>4, <2>2 DEF MayRepeat, Unnamed
    <2>3. CASE b # a /\ c # a
      BY <1>3, <1>4, <2>3 DEF Core, Apart, MayRepeat, Unnamed
    <2> QED BY <2>1, <2>2, <2>3
  <1> QED BY <1>4 DEF Apart

LEMMA InsertKeepsCore ==
    ASSUME Core, NEW s \in Sessions, NEW a, Inserted(s, a)
    PROVE  Core' /\ InsertedRow(s, a)
  <1>1. InsertedRow(s, a) /\ Typed' /\ pc[s] = "insert" /\ UniqueIndexAdmits(claim[s].id)
        /\ writeLock' = writeLock /\ work' = work
    BY InsertedRows DEF Inserted
  <1> HIDE DEF Inserted
  <1>2. Working'
    <2>1. \A p \in People : pc'[p] # "idle" => writeLock' = p
      BY <1>1, PeopleDoNotImport DEF Core, Working, InsertedRow
    <2>2. \A m \in Imports : pc'[m] # "idle" => work'[m] = Files[m]
      BY <1>1, PeopleDoNotImport DEF Core, Working, InsertedRow
    <2>3. \A t \in Sessions : pc'[t] = "read" => row'[t] # 0
      <3>1. row[s] \in Nat
        BY DEF Core, Typed
      <3> QED BY <1>1, <3>1 DEF Core, Working, InsertedRow
    <2>4. \A t \in Sessions : pc'[t] = "idle" => draft'[t] = NoDraft
      BY <1>1 DEF Core, Working, InsertedRow
    <2>5. ASSUME NEW t \in Sessions, NEW b \in draft'[t].anchors
          PROVE  /\ b \in Pool[t] /\ anchors'[b] # None
                 /\ Owns(t, anchors'[b], AssertedBy(b)', revs'[b].fragment)
      <3>1. CASE b = a
        <4>1. t = s
          BY <1>1, <2>5, <3>1 DEF InsertedRow, Core, Working
        <4> QED BY <1>1, <3>1, <4>1 DEF InsertedRow, OwnClaim
      <3>2. CASE b # a
        <4>1. b \in draft[t].anchors
          BY <1>1, <2>5, <3>2 DEF InsertedRow
        <4>2. b \in Pool[t] /\ b \in RevIds
          BY <4>1, PoolsAreIds DEF Core, Working
        <4>3. anchors'[b] = anchors[b] /\ revs'[b] = revs[b]
          BY <1>1, <3>2, <4>2 DEF InsertedRow
        <4> QED BY <4>1, <4>2, <4>3 DEF Core, Working, AssertedBy
      <3> QED BY <3>1, <3>2
    <2>6. \A t \in Sessions : \A b \in draft'[t].anchors :
             /\ b \in Pool[t] /\ anchors'[b] # None
             /\ Owns(t, anchors'[b], AssertedBy(b)', revs'[b].fragment)
      BY <2>5
    <2> QED BY <2>1, <2>2, <2>3, <2>4, <2>6 DEF Working, Owns
  <1>3. AboutToInsert'
    <2>1. ASSUME NEW t \in Sessions, pc'[t] = "insert"
          PROVE  /\ OwnClaim(t, claim'[t])
                 /\ Unnamed(claim'[t].id) =>
                       \A b \in RevIds : anchors'[b] = claim'[t].id =>
                                         revs'[b].fragment # claim'[t].fragment
      <3>1. t # s /\ pc[t] = "insert" /\ claim'[t] = claim[t]
        BY <1>1, <2>1 DEF InsertedRow
      <3>2. OwnClaim(t, claim[t])
        BY <3>1 DEF Core, AboutToInsert
      <3>3. ASSUME Unnamed(claim[t].id), NEW b \in RevIds, anchors'[b] = claim[t].id,
                   revs'[b].fragment = claim[t].fragment
            PROVE  FALSE
        <4>1. CASE b = a
          <5>1. claim[s].id = claim[t].id /\ claim[s].fragment = claim[t].fragment
                /\ OwnClaim(s, claim[s])
            BY <1>1, <3>3, <4>1 DEF InsertedRow
          <5>2. Owns(s, claim[t].id, claim[s].asserted, claim[t].fragment)
            BY <5>1 DEF OwnClaim
          <5>3. Owns(t, claim[t].id, claim[t].asserted, claim[t].fragment)
            BY <3>2 DEF OwnClaim
          <5> QED BY <1>1, <3>1, <3>3, <5>2, <5>3, EvidenceIsExclusive DEF Core
        <4>2. CASE b # a
          BY <1>1, <3>1, <3>3, <4>2 DEF InsertedRow, Core, AboutToInsert
        <4> QED BY <4>1, <4>2
      <3> QED BY <3>1, <3>2, <3>3
    <2> QED BY <2>1 DEF AboutToInsert, OwnClaim, Owns, Asserts
  <1>4. Chains'
    <2>1. ASSUME NEW b \in RevIds, anchors'[b] # None PROVE OneCurrent(b)'
      <3>1. CASE b = a
        <4>1. RevisionsOf(b)' = {b} /\ IsCurrent(b)'
          BY <1>1, <3>1, InsertKeepsChains DEF InsertedRow, IsCurrent, Exists
        <4> QED BY <4>1 DEF OneCurrent
      <3>2. CASE b # a
        <4>1. anchors[b] # None
          BY <1>1, <2>1, <3>2 DEF InsertedRow
        <4> QED BY <1>1, <4>1, InsertKeepsChains, SameChainIsCurrent DEF Core, Chains
      <3> QED BY <3>1, <3>2
    <2> QED BY <2>1 DEF Chains
  <1> QED BY <1>1, <1>2, <1>3, <1>4, InsertKeepsRows, InsertKeepsApart DEF Core
-----------------------------------------------------------------------------
(* A transaction ends.                                                     *)

EndedState(s) ==
    /\ pc'[s] = "idle" /\ draft'[s] = NoDraft
    /\ \A t \in Sessions : t # s => /\ pc'[t] = pc[t] /\ row'[t] = row[t] /\ work'[t] = work[t]
                                    /\ draft'[t] = draft[t] /\ claim'[t] = claim[t]
    /\ writeLock' = IF writeLock = s THEN None ELSE writeLock

LEMMA EndedSession ==
    ASSUME Typed, NEW s \in Sessions, EndTransaction(s)
    PROVE  /\ EndedState(s)
           /\ Typed' <=> anchors' \in [RevIds -> Identities \cup {None}]
                         /\ revs' \in [RevIds -> Revisions \cup {None}]
  <1>1. DOMAIN draft = Sessions /\ DOMAIN claim = Sessions
    BY DEF Typed
  <1>2. EndedState(s)
    BY <1>1 DEF EndTransaction, EndedState, Typed
  <1>3. \A t \in Sessions : draft'[t] = [anchors |-> draft'[t].anchors, tasks |-> draft'[t].tasks,
                                         claims |-> draft'[t].claims]
    BY <1>2 DEF EndedState, NoDraft, Typed
  <1>4. draft' = [t \in Sessions |-> draft'[t]] /\ claim' = [t \in Sessions |-> claim'[t]]
    BY <1>1 DEF EndTransaction
  <1>5. draft' = [t \in Sessions |-> [anchors |-> draft'[t].anchors, tasks |-> draft'[t].tasks,
                                      claims |-> draft'[t].claims]]
    BY <1>3, <1>4
  <1>6. /\ pc' \in [Sessions -> {"idle", "read", "insert"}]
        /\ row' \in [Sessions -> Nat] /\ work' \in [Sessions -> Seq(AllEntries)]
    BY DEF EndTransaction, Typed
  <1> QED BY <1>2, <1>4, <1>5, <1>6 DEF Typed

LEMMA EndedWorking ==
    ASSUME Core, NEW s \in Sessions, EndedState(s),
           \A t \in Sessions : t # s =>
               \A a \in draft[t].anchors : anchors'[a] = anchors[a] /\ revs'[a] = revs[a]
    PROVE  Working'
  <1>1. \A p \in People : pc'[p] # "idle" => writeLock' = p
    BY PeopleDoNotImport DEF EndedState, Core, Working
  <1>2. \A m \in Imports : pc'[m] # "idle" => work'[m] = Files[m]
    BY PeopleDoNotImport DEF EndedState, Core, Working
  <1>3. \A t \in Sessions : pc'[t] = "read" => row'[t] # 0
    BY DEF EndedState, Core, Working
  <1>4. \A t \in Sessions : pc'[t] = "idle" => draft'[t] = NoDraft
    BY DEF EndedState, Core, Working
  <1>5. ASSUME NEW t \in Sessions, NEW a \in draft'[t].anchors
        PROVE  /\ a \in Pool[t] /\ anchors'[a] # None
               /\ Owns(t, anchors'[a], AssertedBy(a)', revs'[a].fragment)
    <2>1. t # s /\ a \in draft[t].anchors
      BY <1>5 DEF EndedState, NoDraft
    <2> QED BY <2>1 DEF Core, Working, AssertedBy
  <1>6. \A t \in Sessions : \A a \in draft'[t].anchors :
           /\ a \in Pool[t] /\ anchors'[a] # None
           /\ Owns(t, anchors'[a], AssertedBy(a)', revs'[a].fragment)
    BY <1>5
  <1> QED BY <1>1, <1>2, <1>3, <1>4, <1>6 DEF Working, Owns

LEMMA EndedAboutToInsert ==
    ASSUME Core, NEW s \in Sessions, EndedState(s),
           \A a \in RevIds : anchors'[a] # None => anchors'[a] = anchors[a] /\ revs'[a] = revs[a]
    PROVE  AboutToInsert'
  <1>1. ASSUME NEW t \in Sessions, pc'[t] = "insert"
        PROVE  /\ OwnClaim(t, claim'[t])
               /\ Unnamed(claim'[t].id) =>
                     \A a \in RevIds : anchors'[a] = claim'[t].id =>
                                       revs'[a].fragment # claim'[t].fragment
    <2>1. t # s /\ pc[t] = "insert" /\ claim'[t] = claim[t]
      BY <1>1 DEF EndedState
    <2>2. OwnClaim(t, claim[t]) /\ claim[t].id # None
      BY <2>1, IdsAreNotNone DEF Core, AboutToInsert, OwnClaim
    <2> QED BY <2>1, <2>2 DEF Core, AboutToInsert
  <1> QED BY <1>1 DEF AboutToInsert, OwnClaim, Owns, Asserts

LEMMA CommitPublishes ==
    ASSUME Core, NEW s \in Sessions, EndedState(s), anchors' = anchors
    PROVE  \A a \in RevIds : /\ Committed(a)' <=> Sees(s, a)
                             /\ \A t \in Sessions : t # s => (Sees(t, a)' <=> Sees(s, a) \/ Sees(t, a))
  <1> SUFFICES ASSUME NEW a \in RevIds
               PROVE  /\ Committed(a)' <=> Sees(s, a)
                      /\ \A t \in Sessions : t # s => (Sees(t, a)' <=> Sees(s, a) \/ Sees(t, a))
    OBVIOUS
  <1>1. a \in draft[s].anchors =>
           /\ anchors[a] # None
           /\ \A t \in Sessions : t # s => a \notin draft[t].anchors
    BY PoolsAreIds DEF Core, Working
  <1>2. \A t \in Sessions : a \in draft'[t].anchors <=> t # s /\ a \in draft[t].anchors
    BY DEF EndedState, NoDraft
  <1>3. Committed(a)' <=> Sees(s, a)
    BY <1>1, <1>2 DEF Committed, Sees
  <1> QED BY <1>2, <1>3 DEF Sees

LEMMA CommitKeepsCore ==
    ASSUME Core, NEW s \in Sessions, Commit(s)
    PROVE  /\ Core' /\ EndedState(s) /\ UNCHANGED <<anchors, revs>>
           /\ \A a \in RevIds : Committed(a) => Committed(a)'
  <1>1. /\ anchors' = anchors /\ revs' = revs /\ EndedState(s) /\ Typed'
    BY EndedSession DEF Commit, Core, Typed
  <1>2. \A a \in RevIds : Committed(a) => Committed(a)'
    BY <1>1, CommitPublishes DEF Sees
  <1>3. Working' /\ AboutToInsert'
    BY <1>1, EndedWorking, EndedAboutToInsert
  <1>4. Rows'
    <2>1. ASSUME NEW r \in RevIds, Exists(r) PROVE revs[r].anchor \in RevIds
      BY <2>1 DEF Core, Typed, Exists, Revisions
    <2> QED BY <1>1, <1>2, <2>1 DEF Core, Rows, Written, InChain, Exists, AssertedBy
  <1>5. Apart' /\ Chains'
    BY <1>1 DEF Core, Apart, MayRepeat, Chains, OneCurrent, RevisionsOf, IsCurrent, Exists
  <1> QED BY <1>1, <1>2, <1>3, <1>4, <1>5 DEF Core

\* What of the store the roll-back leaves.
FailedRow(s) ==
    /\ anchors' \in [RevIds -> Identities \cup {None}]
    /\ revs' \in [RevIds -> Revisions \cup {None}]
    /\ \A a \in draft[s].anchors : a \in RevIds /\ anchors[a] # None /\ anchors'[a] = None /\ ~Exists(a)'
                                   /\ ~Committed(a)
    /\ \A a \in RevIds : a \notin draft[s].anchors => anchors'[a] = anchors[a] /\ revs'[a] = revs[a]
    /\ \A r \in RevIds : Exists(r)' => Exists(r) /\ r \notin draft[s].anchors
                                       /\ revs'[r] = revs[r] /\ revs[r].anchor \notin draft[s].anchors
    /\ \A a \in RevIds : Committed(a)' <=> Committed(a)
    /\ \A t \in Sessions, a \in RevIds : t # s => (Sees(t, a)' <=> Sees(t, a))
    /\ \A a \in RevIds : anchors'[a] # None =>
          a \notin draft[s].anchors /\ anchors[a] # None /\ SameChain(a)

LEMMA FailedRows ==
    ASSUME Core, NEW s \in Sessions, EndedState(s),
           anchors' = [a \in RevIds |-> IF a \in draft[s].anchors THEN None ELSE anchors[a]],
           revs' = [r \in RevIds |-> IF r \in draft[s].anchors THEN None ELSE revs[r]]
    PROVE  FailedRow(s)
  <1>1. /\ anchors' \in [RevIds -> Identities \cup {None}]
        /\ revs' \in [RevIds -> Revisions \cup {None}]
    BY DEF Core, Typed
  <1>2. \A a \in draft[s].anchors : a \in RevIds /\ anchors[a] # None /\ anchors'[a] = None
                                    /\ ~Exists(a)' /\ ~Committed(a)
    BY PoolsAreIds DEF Core, Working, Committed, Exists
  <1>3. \A a \in RevIds : a \notin draft[s].anchors => anchors'[a] = anchors[a] /\ revs'[a] = revs[a]
    OBVIOUS
  <1>4. ASSUME NEW r \in RevIds, Exists(r)'
        PROVE  Exists(r) /\ r \notin draft[s].anchors /\ revs'[r] = revs[r]
               /\ revs[r].anchor \notin draft[s].anchors
    <2>1. Exists(r) /\ r \notin draft[s].anchors /\ revs'[r] = revs[r]
      BY <1>2, <1>3, <1>4 DEF Exists
    <2>2. revs[r].anchor # r => Committed(revs[r].anchor)
      BY <2>1 DEF Core, Rows, Written
    <2> QED BY <1>2, <2>1, <2>2
  <1>5. \A t \in Sessions : draft'[t].anchors = IF t = s THEN {} ELSE draft[t].anchors
    <2>1. NoDraft.anchors = {}
      BY DEF NoDraft
    <2> QED BY <2>1 DEF EndedState
  <1>6. ASSUME NEW a \in RevIds PROVE Committed(a)' <=> Committed(a)
    <2>1. CASE a \in draft[s].anchors
      BY <1>2, <2>1 DEF Committed
    <2>2. CASE a \notin draft[s].anchors
      BY <1>3, <1>5, <2>2 DEF Committed
    <2> QED BY <2>1, <2>2
  <1>7. \A t \in Sessions, a \in RevIds : t # s => (Sees(t, a)' <=> Sees(t, a))
    BY <1>5, <1>6 DEF Sees
  <1>8. ASSUME NEW a \in RevIds, anchors'[a] # None
        PROVE  a \notin draft[s].anchors /\ anchors[a] # None /\ SameChain(a)
    <2>1. a \notin draft[s].anchors /\ anchors[a] # None
      BY <1>2, <1>3, <1>8
    <2>2. \A r \in RevIds : Exists(r) /\ revs[r].anchor = a =>
             r \notin draft[s].anchors /\ Exists(r)' /\ revs'[r] = revs[r]
      <3>1. ASSUME NEW r \in RevIds, Exists(r), revs[r].anchor = a, r \in draft[s].anchors
            PROVE  FALSE
        <4>1. InChain(r, r)
          BY <1>2, <3>1 DEF Core, Rows
        <4> QED BY <2>1, <3>1, <4>1 DEF InChain
      <3> QED BY <1>3, <3>1 DEF Exists
    <2>3. \A r \in RevIds : (Exists(r)' /\ revs'[r].anchor = a) <=> (Exists(r) /\ revs[r].anchor = a)
      BY <1>4, <2>2
    <2>4. RevisionsOf(a)' = RevisionsOf(a)
      BY <2>3 DEF RevisionsOf
    <2>5. \A r \in RevisionsOf(a) : revs'[r] = revs[r]
      BY <2>2 DEF RevisionsOf
    <2> QED BY <2>1, <2>4, <2>5 DEF SameChain
  <1> QED BY <1>1, <1>2, <1>3, <1>4, <1>6, <1>7, <1>8 DEF FailedRow

LEMMA FailKeepsCore ==
    ASSUME Core, NEW s \in Sessions, Fail(s)
    PROVE  Core' /\ EndedState(s) /\ FailedRow(s)
  <1>1. EndedState(s)
    BY EndedSession DEF Fail, Core
  <1>2. FailedRow(s)
    BY <1>1, FailedRows DEF Fail
  <1>3. Typed'
    BY <1>2, EndedSession DEF Fail, Core, FailedRow
  <1>4. Working'
    <2>1. ASSUME NEW t \in Sessions, t # s, NEW a \in draft[t].anchors
          PROVE  anchors'[a] = anchors[a] /\ revs'[a] = revs[a]
      <3>1. a \in RevIds /\ a \notin draft[s].anchors
        BY <2>1, PoolsAreIds DEF Core, Working
      <3> QED BY <1>2, <3>1 DEF FailedRow
    <2> QED BY <1>1, <2>1, EndedWorking
  <1>5. AboutToInsert'
    <2>1. \A a \in RevIds : anchors'[a] # None => anchors'[a] = anchors[a] /\ revs'[a] = revs[a]
      BY <1>2 DEF FailedRow
    <2> QED BY <1>1, <2>1, EndedAboutToInsert
  <1>6. \A r, b \in RevIds : InChain(r, b) /\ anchors'[b] # None => InChain(r, b)'
    <2>1. ASSUME NEW r \in RevIds, NEW b \in RevIds, InChain(r, b), anchors'[b] # None
          PROVE  InChain(r, b)'
      <3>1. r \in RevisionsOf(b) /\ SameChain(b)
        BY <1>2, <2>1 DEF InChain, RevisionsOf, FailedRow
      <3> QED BY <2>1, <3>1 DEF SameChain, InChain, Exists
    <2> QED BY <2>1
  <1>7. Rows'
    <2>1. \A b \in RevIds : anchors'[b] # None => InChain(b, b)'
      BY <1>2, <1>6 DEF FailedRow, Core, Rows
    <2>2. ASSUME NEW r \in RevIds, Exists(r)' PROVE Written(r)'
      <3>1. /\ Exists(r) /\ Written(r) /\ revs'[r] = revs[r]
            /\ revs[r].anchor \notin draft[s].anchors /\ revs[r] \in Revisions
        BY <1>2, <2>2 DEF FailedRow, Core, Rows, Typed, Exists
      <3>2. PICK b : b = revs[r].anchor
        OBVIOUS
      <3>3. /\ b \in RevIds /\ anchors[b] # None /\ anchors'[b] = anchors[b]
            /\ revs'[b] = revs[b] /\ (Committed(b)' <=> Committed(b))
        BY <1>2, <3>1, <3>2 DEF FailedRow, Written, Revisions
      <3>4. InChain(b, b)'
        BY <2>1, <3>3
      <3>5. revs[r].next # None => InChain(revs[r].next, b)'
        <4>1. revs[r].next # None => revs[r].next \in RevIds /\ InChain(revs[r].next, b)
          BY <3>1, <3>2 DEF Revisions, Written
        <4> QED BY <1>6, <3>1, <3>3, <4>1
      <3>6. AssertedBy(b)' = AssertedBy(b)
        BY <3>3 DEF AssertedBy
      <3> QED BY <3>1, <3>2, <3>3, <3>4, <3>5, <3>6 DEF Written, Owns
    <2> QED BY <2>1, <2>2 DEF Rows
  <1>8. Apart'
    <2>1. \A a \in RevIds : anchors'[a] # None => anchors'[a] = anchors[a] /\ revs'[a] = revs[a]
      BY <1>2 DEF FailedRow
    <2> QED BY <2>1 DEF Core, Apart, MayRepeat, Unnamed
  <1>9. Chains'
    BY <1>2, SameChainIsCurrent DEF FailedRow, Core, Chains
  <1> QED BY <1>1, <1>2, <1>3, <1>4, <1>5, <1>7, <1>8, <1>9 DEF Core
-----------------------------------------------------------------------------
(* A supplement or a correction appends a row.                             *)

NewRow(op, a, base, as) ==
    Revision(a, op, Merge(anchors[a].kind, revs[base].values, as), as,
             ReviseFragment(op, a, base, as))
Revised(op, a, base, as, new) ==
    /\ a \in RevIds /\ base \in RevIds /\ new \in Spare /\ ~Exists(new)
    /\ IsCurrent(base) /\ revs[base].anchor = a /\ Committed(a)
    /\ Asserts(anchors[a].kind, as)
    /\ \/ op = "SUPPLEMENT" /\ Supplementable(revs[base].values, as)
       \/ op = "CORRECTION" /\ Correctable(revs[base].values, as)
    /\ revs' = [revs EXCEPT ![base].next = new, ![new] = NewRow(op, a, base, as)]
    /\ UNCHANGED <<anchors, dependents, evidence, writeLock, pc, row, work, claim, draft>>
    /\ tasks \subseteq tasks'
    /\ (op = "CORRECTION" /\ anchors[a].kind # "CONTRACT" /\ Dependents(a, base) # {})
          => FactSuperseded(a, base, new, Dependents(a, base)) \in tasks'

LEMMA AmendmentsAssert ==
    ASSUME NEW m \in Amendments, NEW as \in Amended(m[2])
    PROVE  Asserts(m[1], as)
  <1>1. m[1] \in Kinds /\ IsAssertion(m[1], m[2])
    BY InputsAssumption
  <1>2. CASE "item" \notin DOMAIN m[2]
    BY <1>1, <1>2, AssertionsResolve DEF Amended
  <1>3. CASE "item" \in DOMAIN m[2]
    <2>1. PICK i \in RevIds : as = [m[2] EXCEPT !["item"] = i]
      BY <1>3 DEF Amended, Items
    <2> QED BY <1>1, <1>3, <2>1, AssertionsResolve
  <1> QED BY <1>2, <1>3

LEMMA ReviseIsRevised ==
    ASSUME NEW a \in RevIds, NEW base \in RevIds, NEW as, Asserts(anchors[a].kind, as),
           Supplement(a, base, as) \/ Correct(a, base, as)
    PROVE  \E op, new : Revised(op, a, base, as, new)
  <1> DEFINE new == Fresh(Spare)
  <1>1. ASSUME HasFresh(Spare) PROVE new \in Spare /\ ~Exists(new)
    BY <1>1 DEF HasFresh, Fresh
  <1>2. CASE Supplement(a, base, as)
    <2>1. Revised("SUPPLEMENT", a, base, as, new)
      BY <1>1, <1>2 DEF Supplement, Revise, AppendAgainstCurrent, Revised, Based, IsCurrent, NewRow
    <2> QED BY <2>1
  <1>3. CASE Correct(a, base, as)
    <2>1. /\ new \in Spare /\ ~Exists(new) /\ IsCurrent(base) /\ revs[base].anchor = a /\ Committed(a)
          /\ Correctable(revs[base].values, as)
          /\ revs' = [revs EXCEPT ![base].next = new, ![new] = NewRow("CORRECTION", a, base, as)]
          /\ UNCHANGED <<anchors, dependents, evidence, writeLock, pc, row, work, claim, draft>>
      BY <1>1, <1>3 DEF Correct, Revise, AppendAgainstCurrent, Based, IsCurrent, NewRow
    <2>2. /\ tasks \subseteq tasks'
          /\ (anchors[a].kind # "CONTRACT" /\ Dependents(a, base) # {})
                => FactSuperseded(a, base, new, Dependents(a, base)) \in tasks'
      BY <1>3 DEF Correct
    <2> HIDE DEF new
    <2>3. Revised("CORRECTION", a, base, as, new)
      BY <2>1, <2>2 DEF Revised
    <2> QED BY <2>3
  <1> QED BY <1>2, <1>3

LEMMA NextIsTyped ==
    ASSUME NEW r \in Revisions, NEW next \in RevIds \cup {None}
    PROVE  [r EXCEPT !.next = next] \in Revisions
  <1>1. PICK V : V = UNION {[Fields[kind] -> KnownValues \cup {None}] : kind \in Kinds}
    OBVIOUS
  <1>2. Revisions = [anchor : RevIds, type : {"INITIAL", "SUPPLEMENT", "CORRECTION"}, values : V,
                     names : SUBSET AllFields, fragment : Fragments, next : RevIds \cup {None}]
    BY <1>1 DEF Revisions
  <1> QED BY <1>2

\* Rows are appended; of the old ones, only base changes, and only its next.
Appended(op, a, base, as, new) ==
    /\ base # new /\ new \in RevIds /\ a # new /\ anchors[a] # None /\ anchors[a].kind \in Kinds
    /\ revs' \in [RevIds -> Revisions \cup {None}]
    /\ revs[base].values \in [Fields[anchors[a].kind] -> KnownValues \cup {None}]
    /\ revs'[new].anchor = a /\ revs'[new].type = op /\ revs'[new].next = None
    /\ revs'[new].values = Merge(anchors[a].kind, revs[base].values, as)
    /\ revs'[new].names = DOMAIN as /\ revs'[new].fragment \in ReviseFragments
    /\ \A r \in RevIds : Exists(r)' <=> Exists(r) \/ r = new
    /\ revs'[base].next = new
    /\ \A r \in RevIds : Exists(r) =>
          /\ revs'[r].anchor = revs[r].anchor /\ revs'[r].type = revs[r].type
          /\ revs'[r].values = revs[r].values /\ revs'[r].names = revs[r].names
          /\ revs'[r].fragment = revs[r].fragment
          /\ r # base => revs'[r] = revs[r]
    /\ \A r \in RevIds : Exists(r) => AssertedBy(r)' = AssertedBy(r)
    /\ \A b \in RevIds : Committed(b)' <=> Committed(b)

LEMMA RevisedRows ==
    ASSUME Core, NEW op, NEW a, NEW base, NEW as, NEW new, Revised(op, a, base, as, new)
    PROVE  Appended(op, a, base, as, new)
  <1>1. /\ new \in RevIds /\ a \in RevIds /\ base \in RevIds /\ Exists(base) /\ ~Exists(new)
        /\ revs[base].anchor = a /\ op \in {"SUPPLEMENT", "CORRECTION"}
        /\ Asserts(anchors[a].kind, as)
    BY DEF Revised, RevIds, IsCurrent
  <1>2. /\ anchors[a] # None /\ Exists(a) /\ anchors[a].kind \in Kinds
        /\ revs[base].values \in [Fields[anchors[a].kind] -> KnownValues \cup {None}]
    BY <1>1 DEF Core, Typed, Rows, Written, InChain, Identities
  <1>3. as \in Assertions
    BY <1>1, <1>2, AssertsIsTyped
  <1>4. ReviseFragment(op, a, base, as) \in ReviseFragments
    BY <1>1, <1>3 DEF ReviseFragment, ReviseFragments
  <1>5. Merge(anchors[a].kind, revs[base].values, as)
           \in [Fields[anchors[a].kind] -> KnownValues \cup {None}]
    BY <1>1, <1>2, MergeIsTyped
  <1> DEFINE r0 == NewRow(op, a, base, as)
  <1>6. r0 \in Revisions /\ r0 # None
    <2> DEFINE fragment == ReviseFragment(op, a, base, as)
               v == Merge(anchors[a].kind, revs[base].values, as)
               kind == anchors[a].kind
    <2>1. /\ fragment \in Fragments /\ v \in [Fields[kind] -> KnownValues \cup {None}]
          /\ kind \in Kinds /\ Asserts(kind, as)
      BY <1>1, <1>2, <1>4, <1>5 DEF Fragments
    <2>2. r0 = Revision(a, op, v, as, fragment)
      BY DEF NewRow
    <2> HIDE DEF fragment, v, kind, r0
    <2> QED BY <1>1, <2>1, <2>2, RevisionIsTyped
  <1>7. /\ r0.anchor = a /\ r0.type = op /\ r0.next = None
        /\ r0.values = Merge(anchors[a].kind, revs[base].values, as)
        /\ r0.names = DOMAIN as /\ r0.fragment \in ReviseFragments
    BY <1>4 DEF NewRow, Revision
  <1>8. revs' = [revs EXCEPT ![base].next = new, ![new] = r0]
        /\ UNCHANGED <<anchors, draft>>
    BY DEF Revised
  <1> HIDE DEF r0
  <1>9. base # new /\ a # new
    BY <1>1, <1>2
  <1>10. revs[base] \in Revisions /\ [revs[base] EXCEPT !.next = new] \in Revisions
    <2>1. revs[base] \in Revisions
      BY <1>1 DEF Core, Typed, Exists
    <2> QED BY <1>1, <2>1, NextIsTyped
  <1>11. /\ revs'[new] = r0 /\ revs'[base] = [revs[base] EXCEPT !.next = new]
         /\ \A r \in RevIds : r # base /\ r # new => revs'[r] = revs[r]
         /\ revs' \in [RevIds -> Revisions \cup {None}]
    BY <1>1, <1>6, <1>8, <1>9, <1>10 DEF Core, Typed
  <1>12. /\ revs'[base].next = new /\ revs'[base] # None
         /\ revs'[base].anchor = revs[base].anchor /\ revs'[base].type = revs[base].type
         /\ revs'[base].values = revs[base].values /\ revs'[base].names = revs[base].names
         /\ revs'[base].fragment = revs[base].fragment
    <2>1. [revs[base] EXCEPT !.next = new] # None
      BY <1>10, IdsAreNotNone
    <2> QED BY <1>10, <1>11, <2>1 DEF Revisions
  <1>13. \A r \in RevIds : Exists(r)' <=> Exists(r) \/ r = new
    BY <1>1, <1>6, <1>11, <1>12 DEF Exists
  <1>14. \A r \in RevIds : Exists(r) =>
           /\ revs'[r].anchor = revs[r].anchor /\ revs'[r].type = revs[r].type
           /\ revs'[r].values = revs[r].values /\ revs'[r].names = revs[r].names
           /\ revs'[r].fragment = revs[r].fragment
           /\ r # base => revs'[r] = revs[r]
    BY <1>1, <1>11, <1>12
  <1>15. \A r \in RevIds : Exists(r) => AssertedBy(r)' = AssertedBy(r)
    BY <1>14 DEF AssertedBy
  <1>16. \A b \in RevIds : Committed(b)' <=> Committed(b)
    BY <1>8 DEF Committed
  <1>17. /\ revs'[new].anchor = a /\ revs'[new].type = op /\ revs'[new].next = None
         /\ revs'[new].values = Merge(anchors[a].kind, revs[base].values, as)
         /\ revs'[new].names = DOMAIN as /\ revs'[new].fragment \in ReviseFragments
    BY <1>7, <1>11
  <1> QED BY <1>1, <1>2, <1>9, <1>11, <1>12, <1>13, <1>14, <1>15, <1>16, <1>17 DEF Appended

LEMMA ReviseKeepsChains ==
    ASSUME Core, NEW op, NEW a, NEW base, NEW as, NEW new, Revised(op, a, base, as, new),
           Appended(op, a, base, as, new)
    PROVE  /\ \A b \in RevIds : b # a => SameChain(b)
           /\ RevisionsOf(a)' = RevisionsOf(a) \cup {new}
           /\ \A r \in RevisionsOf(a)' : IsCurrent(r)' <=> r = new
  <1>1. \A r, b \in RevIds : InChain(r, b)' <=> InChain(r, b) \/ (r = new /\ b = a)
    <2>1. ~Exists(new) /\ revs'[new].anchor = a
      BY DEF Appended, Revised
    <2>2. \A r \in RevIds : /\ Exists(r)' <=> Exists(r) \/ r = new
                            /\ Exists(r) => revs'[r].anchor = revs[r].anchor
      BY DEF Appended
    <2> QED BY <2>1, <2>2 DEF InChain
  <1>2. \A b \in RevIds : RevisionsOf(b)' = IF b = a THEN RevisionsOf(b) \cup {new} ELSE RevisionsOf(b)
    <2>1. \A b \in RevIds : RevisionsOf(b) \subseteq RevIds /\ RevisionsOf(b)' \subseteq RevIds
      BY DEF RevisionsOf
    <2>2. \A b, r \in RevIds : /\ r \in RevisionsOf(b) <=> InChain(r, b)
                               /\ r \in RevisionsOf(b)' <=> InChain(r, b)'
      BY DEF RevisionsOf, InChain
    <2>3. new \in RevIds
      BY DEF Appended
    <2> QED BY <1>1, <2>1, <2>2, <2>3
  <1>3. ASSUME NEW b \in RevIds, b # a PROVE SameChain(b)
    <2>1. \A r \in RevisionsOf(b) : r \in RevIds /\ Exists(r) /\ r # base
      BY <1>3 DEF RevisionsOf, Revised
    <2> QED BY <1>2, <1>3, <2>1 DEF SameChain, Appended
  <1>4. a \in RevIds /\ anchors[a] # None /\ base \in RevisionsOf(a) /\ IsCurrent(base)
    BY DEF Revised, Appended, RevisionsOf, IsCurrent
  <1>5. ASSUME NEW r \in RevisionsOf(a)' PROVE IsCurrent(r)' <=> r = new
    <2>1. CASE r = new
      BY <2>1 DEF Appended, IsCurrent
    <2>2. CASE r = base
      <3>1. new # None
        BY IdsAreNotNone DEF Appended
      <3> QED BY <2>2, <3>1 DEF Appended, IsCurrent
    <2>3. CASE r # new /\ r # base
      <3>1. r \in RevisionsOf(a) /\ r \in RevIds /\ Exists(r)
        BY <1>2, <1>4, <2>3 DEF RevisionsOf
      <3>2. ~IsCurrent(r)
        BY <1>4, <2>3, <3>1 DEF Core, Chains, OneCurrent
      <3> QED BY <2>3, <3>1, <3>2 DEF Appended, IsCurrent, Exists
    <2> QED BY <2>1, <2>2, <2>3
  <1> QED BY <1>2, <1>3, <1>4, <1>5

LEMMA ReviseKeepsCore ==
    ASSUME Core, NEW op, NEW a, NEW base, NEW as, NEW new, Revised(op, a, base, as, new)
    PROVE  Core' /\ Appended(op, a, base, as, new)
  <1>1. Appended(op, a, base, as, new)
    BY RevisedRows
  <1>2. /\ UNCHANGED <<anchors, dependents, evidence, writeLock, pc, row, work, claim, draft>>
        /\ a \in RevIds /\ new \in Spare /\ Committed(a) /\ Asserts(anchors[a].kind, as)
        /\ base \in RevIds /\ Exists(base) /\ revs[base].anchor = a
    BY DEF Revised, IsCurrent
  <1>3. \A b \in RevIds : anchors[b] # None =>
           Exists(b) /\ revs'[b].fragment = revs[b].fragment /\ AssertedBy(b)' = AssertedBy(b)
    BY <1>1 DEF Appended, Core, Rows, InChain
  <1>4. Typed'
    BY <1>1, <1>2 DEF Core, Typed, Appended
  <1>5. Working'
    <2>1. ASSUME NEW t \in Sessions, NEW b \in draft[t].anchors
          PROVE  /\ b \in Pool[t] /\ anchors[b] # None
                 /\ Owns(t, anchors[b], AssertedBy(b)', revs'[b].fragment)
      <3>1. b \in RevIds /\ anchors[b] # None
        BY <2>1, PoolsAreIds DEF Core, Working
      <3> QED BY <1>3, <2>1, <3>1 DEF Core, Working
    <2> QED BY <1>2, <2>1 DEF Core, Working, Owns
  <1>6. AboutToInsert'
    <2>1. ASSUME NEW t \in Sessions, pc[t] = "insert"
          PROVE  /\ OwnClaim(t, claim[t])
                 /\ Unnamed(claim[t].id) =>
                       \A b \in RevIds : anchors[b] = claim[t].id =>
                                         revs'[b].fragment # claim[t].fragment
      <3>1. OwnClaim(t, claim[t]) /\ claim[t].id # None
        BY <2>1, IdsAreNotNone DEF Core, AboutToInsert, OwnClaim
      <3> QED BY <1>3, <2>1, <3>1 DEF Core, AboutToInsert
    <2> QED BY <1>2, <2>1 DEF AboutToInsert, OwnClaim, Owns, Asserts
  <1>7. \A r, b \in RevIds : InChain(r, b) => InChain(r, b)'
    BY <1>1 DEF Appended, InChain
  <1>8. ASSUME NEW r \in RevIds, Exists(r)' PROVE Written(r)'
    <2>1. CASE r = new
      <3>1. revs'[r].anchor = a /\ a # r /\ InChain(a, a)'
        BY <1>1, <1>2, <1>7, <2>1 DEF Appended, Core, Rows
      <3>2. /\ revs'[r].values \in [Fields[anchors[a].kind] -> KnownValues \cup {None}]
            /\ revs'[r].names \subseteq Fields[anchors[a].kind]
            /\ revs'[r].next = None /\ revs'[r].fragment \in ReviseFragments /\ anchors[a] # None
        <4>1. anchors[a].kind \in Kinds /\ anchors[a] # None
          BY <1>1 DEF Appended
        <4>2. DOMAIN as \subseteq Fields[anchors[a].kind]
          BY <1>2, <4>1, AssertsIsTyped
        <4>3. revs[base].values \in [Fields[anchors[a].kind] -> KnownValues \cup {None}]
          BY <1>1 DEF Appended
        <4>4. Merge(anchors[a].kind, revs[base].values, as)
                 \in [Fields[anchors[a].kind] -> KnownValues \cup {None}]
          BY <1>2, <4>1, <4>3, MergeIsTyped
        <4> QED BY <1>1, <2>1, <4>1, <4>2, <4>4 DEF Appended
      <3>3. Committed(a)'
        BY <1>1, <1>2 DEF Appended
      <3> QED BY <1>2, <2>1, <3>1, <3>2, <3>3 DEF Written
    <2>2. CASE r # new
      <3>1. Exists(r) /\ Written(r) /\ revs[r] \in Revisions
        BY <1>1, <1>8, <2>2 DEF Appended, Core, Rows, Typed, Exists
      <3>2. PICK b : b = revs[r].anchor
        OBVIOUS
      <3>3. /\ b \in RevIds /\ anchors[b] # None /\ Exists(b) /\ InChain(b, b)'
            /\ (Committed(b)' <=> Committed(b))
        BY <1>1, <1>3, <1>7, <3>1, <3>2 DEF Written, Revisions, Appended
      <3>4. /\ revs'[r].anchor = b /\ revs'[r].values = revs[r].values
            /\ revs'[r].names = revs[r].names /\ revs'[r].fragment = revs[r].fragment
            /\ revs'[b].fragment = revs[b].fragment /\ AssertedBy(b)' = AssertedBy(b)
        BY <1>1, <3>1, <3>2, <3>3 DEF Appended
      <3>5. revs'[r].next # None => InChain(revs[r].next, b)'
        <4>1. CASE r = base
          BY <1>1, <1>2, <3>2, <4>1 DEF Appended, InChain
        <4>2. CASE r # base
          <5>1. PICK n : n = revs[r].next
            OBVIOUS
          <5>2. revs'[r] = revs[r] /\ (n # None => InChain(n, b) /\ n \in RevIds)
            BY <1>1, <3>1, <3>2, <4>2, <5>1 DEF Appended, Written, Revisions
          <5>3. n # None => InChain(n, b)'
            BY <1>7, <3>3, <5>2
          <5> QED BY <5>1, <5>2, <5>3
        <4> QED BY <4>1, <4>2
      <3> QED BY <1>2, <3>1, <3>2, <3>3, <3>4, <3>5 DEF Written, Owns
    <2> QED BY <2>1, <2>2
  <1>9. Rows'
    BY <1>2, <1>7, <1>8 DEF Core, Rows
  <1>10. Apart'
    BY <1>2, <1>3 DEF Core, Apart, MayRepeat
  <1>11. Chains'
    <2>1. ASSUME NEW b \in RevIds, anchors[b] # None PROVE OneCurrent(b)'
      <3>1. CASE b = a
        <4>1. /\ RevisionsOf(b)' = RevisionsOf(b) \cup {new}
              /\ \A r \in RevisionsOf(b)' : IsCurrent(r)' <=> r = new
          BY <1>1, <3>1, ReviseKeepsChains
        <4> QED BY <4>1 DEF OneCurrent
      <3>2. CASE b # a
        BY <1>1, <2>1, <3>2, ReviseKeepsChains, SameChainIsCurrent DEF Core, Chains
      <3> QED BY <3>1, <3>2
    <2> QED BY <1>2, <2>1 DEF Chains
  <1> QED BY <1>1, <1>4, <1>5, <1>6, <1>9, <1>10, <1>11 DEF Core
-----------------------------------------------------------------------------
(* The invariant of the rows, and one anchor per key.                      *)

Proceeding(s) == \/ IdentityUnresolved(s) \/ ScopeRefused(s) \/ ShipmentUnconfirmed(s)
                 \/ Agrees(s) \/ Conflicts(s) \/ Depend(s)

LEMMA NextCases ==
    ASSUME [Next]_vars
    PROVE  \/ UNCHANGED vars
           \/ \E p \in People, e \in Submissions : Submit(p, e)
           \/ \E m \in Imports : StartImport(m)
           \/ \E s \in Sessions : Proceeding(s)
           \/ \E s \in Sessions : NotFound(s)
           \/ \E s \in Sessions : \E a : Inserted(s, a)
           \/ \E s \in Sessions : Commit(s)
           \/ \E s \in Sessions : Fail(s)
           \/ \E op, a, base, as, new : Revised(op, a, base, as, new)
           \/ \E a \in RevIds : Record(a, "desk")
  <1>1. ASSUME NEW s \in Sessions, Create(s)
        PROVE  Proceeding(s) \/ NotFound(s) \/ \E a : Inserted(s, a)
    BY <1>1, InsertIsInserted DEF Create, Proceeding
  <1>2. ASSUME NEW a \in RevIds, NEW base \in RevIds, NEW m \in Amendments, anchors[a].kind = m[1],
               NEW as \in Amended(m[2]), Supplement(a, base, as) \/ Correct(a, base, as)
        PROVE  \E op, new : Revised(op, a, base, as, new)
    BY <1>2, AmendmentsAssert, ReviseIsRevised
  <1> QED BY <1>1, <1>2 DEF Next

LEMMA UnchangedKeepsCore == Core /\ UNCHANGED vars => Core' /\ SameAnchors
  <1> SUFFICES ASSUME Core, UNCHANGED vars PROVE Core' /\ SameAnchors
    OBVIOUS
  <1>1. UNCHANGED <<anchors, revs, writeLock, pc, row, work, claim, draft>>
    BY DEF vars
  <1>2. SameAnchors
    BY <1>1 DEF SameAnchors
  <1>3. Typed' /\ Working' /\ AboutToInsert'
    BY <1>1 DEF Core, Typed, Working, AboutToInsert, OwnClaim, Owns, Asserts, AssertedBy
  <1> QED BY <1>2, <1>3, SameAnchorsKeepRows DEF Core

LEMMA ProceedingKeepsCore ==
    ASSUME Core, NEW s \in Sessions, Proceeding(s)
    PROVE  Core' /\ SameAnchors
  BY ProceedingSteps, ProceedKeepsCore DEF Proceeding

LEMMA InitIsCore == Init => Core
  <1> SUFFICES ASSUME Init PROVE Core
    OBVIOUS
  <1> USE DEF Init
  <1>1. Typed
    <2>1. work \in [Sessions -> Seq(AllEntries)]
      OBVIOUS
    <2>2. \A s \in Sessions : draft[s] = NoDraft
      OBVIOUS
    <2>3. draft = [s \in Sessions |-> [anchors |-> draft[s].anchors, tasks |-> draft[s].tasks,
                                       claims |-> draft[s].claims]]
      BY DEF NoDraft
    <2> QED BY <2>1, <2>3 DEF Typed
  <1>2. Working
    BY PeopleDoNotImport DEF Working, NoDraft
  <1>3. \A r \in RevIds : ~Exists(r) /\ anchors[r] = None
    BY DEF Exists
  <1>4. Rows /\ Apart /\ Chains
    BY <1>3 DEF Rows, Apart, Chains
  <1>5. AboutToInsert
    BY DEF AboutToInsert
  <1> QED BY <1>1, <1>2, <1>4, <1>5 DEF Core

LEMMA NextKeepsCore == Core /\ [Next]_vars => Core'
  <1> SUFFICES ASSUME Core, [Next]_vars PROVE Core'
    OBVIOUS
  <1>1. CASE UNCHANGED vars
    BY <1>1, UnchangedKeepsCore
  <1>2. CASE \E p \in People, e \in Submissions : Submit(p, e)
    BY <1>2, StartsKeepCore
  <1>3. CASE \E m \in Imports : StartImport(m)
    BY <1>3, StartsKeepCore
  <1>4. CASE \E s \in Sessions : Proceeding(s)
    BY <1>4, ProceedingKeepsCore
  <1>5. CASE \E s \in Sessions : NotFound(s)
    BY <1>5, NotFoundKeepsCore
  <1>6. CASE \E s \in Sessions : \E a : Inserted(s, a)
    BY <1>6, InsertKeepsCore
  <1>7. CASE \E s \in Sessions : Commit(s)
    BY <1>7, CommitKeepsCore
  <1>8. CASE \E s \in Sessions : Fail(s)
    BY <1>8, FailKeepsCore
  <1>9. CASE \E op, a, base, as, new : Revised(op, a, base, as, new)
    BY <1>9, ReviseKeepsCore
  <1>10. CASE \E a \in RevIds : Record(a, "desk")
    BY <1>10, RecordKeepsCore
  <1> QED BY <1>1, <1>2, <1>3, <1>4, <1>5, <1>6, <1>7, <1>8, <1>9, <1>10, NextCases

\* Rows, drafts and claims are what the statements make of them, every row is
\* in the chain of its anchor, and every chain has one end.
THEOREM CoreInvariant == Spec => []Core
  <1>1. Core /\ UNCHANGED vars => Core'
    BY UnchangedKeepsCore
  <1> QED BY InitIsCore, NextKeepsCore, PTL DEF Spec

\* Whatever unlocked imports race, items and shipments with a reference have
\* one anchor per business key (the unique indexes of contract_items and
\* shipments); and the Evidence of a confirmed shipment without a reference
\* makes one anchor, which no index enforces: people wait for the write lock,
\* and a file's rows are its own.
THEOREM OneAnchorPerKeyHolds == Spec => []OneAnchorPerKey
  <1>1. Core => OneAnchorPerKey
    BY DEF Core, Apart, MayRepeat, Unnamed, OneAnchorPerKey, Committed
  <1> QED BY <1>1, CoreInvariant, PTL
-----------------------------------------------------------------------------
(* No committed Evidence is dropped.                                       *)

\* A step after which session s sees what it saw, asserting what it did.
Remembers(s) ==
    \A a \in RevIds : Sees(s, a) /\ anchors[a] # None =>
        Sees(s, a)' /\ anchors'[a] = anchors[a] /\ AssertedBy(a)' = AssertedBy(a)

LEMMA RemembersStated ==
    ASSUME Core, NEW s \in Sessions, Remembers(s), NEW k, StatedTo(s, k)
    PROVE  StatedTo(s, k)'
  <1>1. PICK a \in RevIds : Sees(s, a) /\ anchors[a] = k.id /\ AssertedBy(a) = k.asserted
    BY DEF StatedTo
  <1>2. anchors[a] # None
    BY <1>1 DEF Sees, Committed, Core, Working
  <1> QED BY <1>1, <1>2 DEF Remembers, StatedTo

\* What is committed stays committed.
StaysStated ==
    \A a \in RevIds : Committed(a) =>
        Committed(a)' /\ anchors'[a] = anchors[a] /\ AssertedBy(a)' = AssertedBy(a)

LEMMA RemembersItems ==
    ASSUME NEW s, Remembers(s), NEW key
    PROVE  \A i \in ItemsTo(s, key) : i \in ItemsTo(s, key)' /\ anchors'[i] = anchors[i]
  BY DEF ItemsTo, Remembers

LEMMA RemembersMeant ==
    ASSUME NEW s, Remembers(s), NEW k
    PROVE  (MeantTo(s, k) => MeantTo(s, k)') /\ (RefusedTo(s, k) => RefusedTo(s, k)')
  <1>1. MeantTo(s, k) => MeantTo(s, k)'
    BY RemembersItems DEF MeantTo
  <1>2. RefusedTo(s, k) => RefusedTo(s, k)'
    BY RemembersItems DEF RefusedTo
  <1> QED BY <1>1, <1>2

LEMMA StaysAccounted ==
    ASSUME Core, NEW s \in Sessions, Remembers(s), tasks \cup draft[s].tasks \subseteq tasks' \cup draft'[s].tasks,
           NEW k, Accounts(s, k)
    PROVE  Accounts(s, k)'
  <1>1. CASE StatedTo(s, k) /\ MeantTo(s, k)
    BY <1>1, RemembersStated, RemembersMeant DEF Accounts
  <1>2. CASE \E t \in tasks \cup draft[s].tasks : TellsOf(t, k)
    BY <1>2 DEF Accounts, TellsOf
  <1>3. CASE RefusedTo(s, k)
    BY <1>3, RemembersMeant DEF Accounts
  <1> QED BY <1>1, <1>2, <1>3 DEF Accounts

LEMMA StaysAccountedFor ==
    ASSUME EvidenceAccountedFor, StaysStated, tasks \subseteq tasks', NEW k \in evidence
    PROVE  Accounted(k)'
  <1>1. \A key : \A i \in Items(key) : i \in Items(key)' /\ anchors'[i] = anchors[i]
    BY DEF Items, StaysStated
  <1>2. Meant(k) => Meant(k)'
    BY <1>1 DEF Meant
  <1>3. Stated(k) => Stated(k)'
    BY DEF StaysStated, Stated
  <1>4. Reported(k) => Reported(k)'
    BY DEF Reported
  <1>5. Refused(k) => Refused(k)'
    BY <1>1 DEF Refused
  <1> QED BY <1>2, <1>3, <1>4, <1>5 DEF EvidenceAccountedFor, Accounted

LEMMA SameAnchorsRemember ==
    ASSUME SameAnchors
    PROVE  StaysStated /\ \A s \in Sessions : Remembers(s)
  <1>1. UNCHANGED <<anchors, revs>>
    BY DEF SameAnchors
  <1> QED BY <1>1, SameAnchorsKeepRows DEF StaysStated, Remembers, AssertedBy

LEMMA SameIsStated ==
    ASSUME Core, NEW s \in Sessions, NEW k, AgreesWith(s, k)
    PROVE  StatedTo(s, k)
  <1>1. {a \in Met(s, k) : Same(k, a)} # {}
    BY FS_EmptySet DEF AgreesWith
  <1>2. PICK a \in Met(s, k) : Same(k, a)
    BY <1>1
  <1>3. a \in RevIds /\ Sees(s, a)
    <2>1. CASE NoReference(k)
      <3>1. PICK r \in RevIds : Exists(r) /\ Sees(s, revs[r].anchor) /\ a = revs[r].anchor
        BY <1>2, <2>1 DEF Met
      <3> QED BY <3>1 DEF Core, Typed, Revisions, Exists
    <2>2. CASE ~NoReference(k)
      BY <1>2, <2>2 DEF Met, Anchored
    <2> QED BY <2>1, <2>2
  <1> QED BY <1>2, <1>3 DEF Same, StatedTo

\* A person's Evidence that meets a shipment it does not agree with comes from
\* other Evidence than that shipment, so that a task tells of it.
LEMMA PersonsConflictIsTold ==
    ASSUME Core, NEW s \in People, NEW k, OwnClaim(s, k), k.id.kind = "SHIPMENT",
           Met(s, k) # {}, ~AgreesWith(s, k)
    PROVE  ~NoReference(k) /\ \E a \in Met(s, k) : revs[a].fragment # k.fragment
  <1>1. k.fragment = ManualFragment(k.id, k.asserted)
    BY DEF OwnClaim, Owns
  <1>2. ASSUME NEW a \in RevIds, anchors[a] # None, revs[a].fragment = k.fragment
        PROVE  Same(k, a)
    <2>1. InChain(a, a) /\ Written(a)
      BY <1>2 DEF Core, Rows, InChain
    <2>2. PICK t \in Sessions : Owns(t, anchors[a], AssertedBy(a), revs[a].fragment)
      BY <2>1 DEF Written, InChain
    <2>3. revs[a].fragment[1] = "create"
      BY <1>1, <1>2 DEF ManualFragment
    <2>4. revs[a].fragment = ManualFragment(anchors[a], AssertedBy(a))
      BY <2>2, <2>3, PeopleDoNotImport DEF Owns
    <2>5. anchors[a] = k.id /\ AssertedBy(a) = k.asserted
      BY <1>1, <1>2, <2>4 DEF ManualFragment
    <2> QED BY <1>2, <2>5 DEF Same
  <1>3. ASSUME NEW a \in RevIds, anchors[a] # None, revs[a].fragment = k.fragment, a \in Met(s, k)
        PROVE  AgreesWith(s, k)
    <2>1. Same(k, a)
      BY <1>2, <1>3
    <2>2. ASSUME NEW b \in Met(s, k), Same(k, b) PROVE b = a
      <3>1. b \in RevIds
        <4>1. CASE NoReference(k)
          <5>1. PICK r \in RevIds : Exists(r) /\ b = revs[r].anchor
            BY <2>2, <4>1 DEF Met
          <5> QED BY <5>1 DEF Core, Typed, Revisions, Exists
        <4>2. CASE ~NoReference(k)
          BY <2>2, <4>2 DEF Met, Anchored
        <4> QED BY <4>1, <4>2
      <3>2. anchors[b] = anchors[a] /\ anchors[a].kind = "SHIPMENT"
        BY <2>1, <2>2 DEF Same
      <3>3. Unnamed(anchors[a]) => revs[a].fragment = revs[b].fragment
        BY <1>3, <2>1, <2>2 DEF Same, Unnamed, NoReference
      <3> QED BY <1>3, <3>1, <3>2, <3>3 DEF Core, Apart, MayRepeat
    <2>3. {b \in Met(s, k) : Same(k, b)} = {a}
      BY <1>3, <2>1, <2>2
    <2> QED BY <2>3, FS_Singleton DEF AgreesWith
  <1>4. ~NoReference(k)
    <2>1. ASSUME NoReference(k) PROVE FALSE
      <3>1. PICK r \in RevIds : /\ Exists(r) /\ revs[r].fragment = k.fragment
                                /\ Sees(s, revs[r].anchor)
        BY <2>1 DEF Met
      <3>2. Written(r) /\ revs[r].anchor \in RevIds
        BY <3>1 DEF Core, Rows, Typed, Revisions, Exists
      <3>3. revs[r].fragment \notin ReviseFragments
        BY <1>1, <3>1 DEF ManualFragment, ReviseFragments
      <3>4. r = revs[r].anchor /\ anchors[r] # None
        BY <3>2, <3>3 DEF Written
      <3>5. r \in Met(s, k)
        BY <2>1, <3>1, <3>4 DEF Met
      <3> QED BY <1>3, <3>1, <3>4, <3>5
    <2> QED BY <2>1
  <1>5. PICK a \in Met(s, k) : a \in RevIds /\ anchors[a] # None
    <2>1. Met(s, k) = Anchored(s, k.id) /\ k.id # None
      BY <1>4, IdsAreNotNone DEF Met, OwnClaim
    <2> QED BY <2>1 DEF Anchored
  <1> QED BY <1>3, <1>4, <1>5

LEMMA ProceedingAccounts ==
    ASSUME Core, NEW s \in Sessions, Proceeding(s)
    PROVE  \E raised, claims :
              /\ Proceed(s, raised, claims)
              /\ \A k \in claims : \/ StatedTo(s, k) /\ MeantTo(s, k)
                                   \/ \E t \in raised : TellsOf(t, k)
                                   \/ RefusedTo(s, k)
  <1>1. CASE IdentityUnresolved(s)
    <2>1. PICK reason \in {"IDENTITY_INCOMPLETE", "IDENTITY_AMBIGUOUS"} :
             Proceed(s, {BackfillTask(reason, Now(s), row[s])}, {Unresolvable(s)})
      BY <1>1 DEF IdentityUnresolved
    <2>2. TellsOf(BackfillTask(reason, Now(s), row[s]), Unresolvable(s))
      BY DEF TellsOf, BackfillTask, Unresolvable, Identity
    <2> QED BY <2>1, <2>2
  <1>2. CASE ScopeRefused(s)
    <2>1. CASE Claims(s) = {} /\ Proceed(s, {}, {Unresolvable(s)})
      <3>1. RefusedTo(s, Unresolvable(s))
        BY <1>2 DEF RefusedTo, Unresolvable, Identity, ManualFragment, ScopeRefused
      <3> QED BY <2>1, <3>1
    <2>2. CASE \E k \in Claims(s) : ~ItemBelongs(k.id.of, k.asserted) /\ Proceed(s, {}, {k})
      <3>1. PICK k \in Claims(s) : ~ItemBelongs(k.id.of, k.asserted) /\ Proceed(s, {}, {k})
        BY <2>2
      <3>2. Resolvable(s) /\ s \in People /\ Now(s).kind = "SHIPMENT"
        BY <1>2 DEF ScopeRefused
      <3>3. k.id.kind = "SHIPMENT" /\ k.fragment[1] = "create"
        BY <3>1, <3>2, ClaimsAreOwn DEF Core
      <3>4. "item" \in DOMAIN k.asserted /\ anchors[k.asserted["item"]].of # k.id.of
        BY <3>1 DEF ItemBelongs
      <3>5. k.asserted["item"] \in ItemsTo(s, k.said["item"])
        BY <3>1, <3>2, <3>4, ClaimsAreMeant DEF Core, MeantTo
      <3>6. RefusedTo(s, k)
        BY <3>3, <3>4, <3>5 DEF RefusedTo
      <3> QED BY <3>1, <3>6
    <2> QED BY <1>2, <2>1, <2>2 DEF ScopeRefused
  <1>3. CASE ShipmentUnconfirmed(s)
    <2>1. PICK k \in Claims(s) :
             /\ NoReference(k)
             /\ Proceed(s, {ShipmentIncomplete(k.fragment)}
                           \cup (IF s \in Backfills THEN {BackfillTask("CONFLICT", Now(s), row[s])} ELSE {}), {k})
      BY <1>3 DEF ShipmentUnconfirmed
    <2>2. /\ k.id.kind = Now(s).kind /\ k.id.key = Now(s).key /\ k.number = Now(s).number
          /\ k.at = row[s] /\ k.fragment[1] = (IF s \in People THEN "create" ELSE "row")
          /\ Now(s).kind = "SHIPMENT" /\ Processing(s)
      BY <1>3, <2>1, ClaimsAreOwn DEF ShipmentUnconfirmed, Core, NoReference, Resolvable
    <2>3. CASE s \in People
      <3>1. TellsOf(ShipmentIncomplete(k.fragment), k)
        BY <2>2, <2>3 DEF TellsOf, ShipmentIncomplete
      <3> QED BY <2>1, <3>1
    <2>4. CASE s \in Backfills
      <3>1. TellsOf(BackfillTask("CONFLICT", Now(s), row[s]), k)
        BY <2>2 DEF TellsOf, BackfillTask
      <3> QED BY <2>1, <2>4, <3>1
    <2>5. CASE s \in Ledgers \cup Packs
      <3>1. Now(s) \in Range(Files[s])
        BY <2>2, <2>5, NowIsAnEntry DEF Core, Imports
      <3> QED BY <2>2, <2>5, <3>1, FilesAssumption
    <2> QED BY <2>3, <2>4, <2>5 DEF Sessions, Imports
  <1>4. CASE Agrees(s)
    <2>1. PICK k \in Claims(s) : AgreesWith(s, k) /\ Proceed(s, {}, {k})
      BY <1>4 DEF Agrees
    <2>2. Resolvable(s)
      BY <1>4 DEF Agrees
    <2>3. MeantTo(s, k)
      BY <2>1, <2>2, ClaimsAreMeant DEF Core
    <2> QED BY <2>1, <2>3, SameIsStated
  <1>5. CASE Conflicts(s)
    <2>1. PICK k \in Claims(s) :
             /\ Met(s, k) # {} /\ ~AgreesWith(s, k)
             /\ Proceed(s, ConflictTasks(s, k, Met(s, k)), {k})
      BY <1>5 DEF Conflicts
    <2>2. /\ (Resolvable(s) /\ s \in Backfills) \/ (s \in People /\ Now(s).kind = "SHIPMENT")
          /\ OwnClaim(s, k) /\ k.id.kind = Now(s).kind
          /\ k.id.key = Now(s).key /\ k.number = Now(s).number
          /\ k.at = row[s] /\ k.fragment[1] = (IF s \in People THEN "create" ELSE "row")
      BY <1>5, ClaimsAreOwn DEF Conflicts, Core
    <2>3. CASE s \in Backfills
      <3>1. PICK reason \in {"IDENTITY_AMBIGUOUS", "CONFLICT"} :
               /\ BackfillTask(reason, Now(s), row[s]) \in ConflictTasks(s, k, Met(s, k))
        BY <2>3 DEF ConflictTasks
      <3>2. TellsOf(BackfillTask(reason, Now(s), row[s]), k)
        BY <2>2 DEF TellsOf, BackfillTask
      <3> QED BY <2>1, <3>1, <3>2
    <2>4. CASE s \in People /\ Now(s).kind = "SHIPMENT"
      <3>1. ~NoReference(k) /\ k.id.kind = "SHIPMENT"
            /\ \E a \in Met(s, k) : revs[a].fragment # k.fragment
        BY <2>1, <2>2, <2>4, PersonsConflictIsTold
      <3>2. PICK a \in Met(s, k) : revs[a].fragment # k.fragment
        BY <3>1
      <3>3. ShipmentConflict(a, k.fragment) \in ConflictTasks(s, k, Met(s, k))
        BY <3>1, <3>2 DEF ConflictTasks
      <3>4. TellsOf(ShipmentConflict(a, k.fragment), k)
        BY <2>2, <2>4 DEF TellsOf, ShipmentConflict
      <3> QED BY <2>1, <3>3, <3>4
    <2> QED BY <2>2, <2>3, <2>4
  <1>6. CASE Depend(s)
    BY <1>6 DEF Depend
  <1> QED BY <1>1, <1>2, <1>3, <1>4, <1>5, <1>6 DEF Proceeding

AccountedFor == EvidenceAccountedFor /\ DraftsAccountedFor /\ ClaimsMeant

\* A step after which no other claim is about to be inserted.
LEMMA QuietKeepsClaims ==
    ASSUME ClaimsMeant,
           \A t \in Sessions : pc'[t] = "insert" =>
               pc[t] = "insert" /\ claim'[t] = claim[t] /\ Remembers(t)
    PROVE  ClaimsMeant'
  <1>1. ASSUME NEW t \in Sessions, pc'[t] = "insert" PROVE MeantTo(t, claim[t])'
    <2>1. pc[t] = "insert" /\ claim'[t] = claim[t] /\ Remembers(t)
      BY <1>1
    <2>2. PICK k : k = claim[t]
      OBVIOUS
    <2>3. MeantTo(t, k)
      BY <2>1, <2>2 DEF ClaimsMeant
    <2>4. MeantTo(t, k)'
      BY <2>1, <2>3, RemembersMeant
    <2> QED BY <2>1, <2>2, <2>4
  <1> QED BY <1>1 DEF ClaimsMeant

\* Drafts and Evidence a step adds nothing to.
LEMMA QuietKeepsAccounts ==
    ASSUME Core, AccountedFor, StaysStated, tasks \subseteq tasks', evidence' = evidence,
           NEW S \in SUBSET Sessions,
           \A s \in S : Remembers(s) /\ draft'[s].claims = draft[s].claims
                        /\ draft[s].tasks \subseteq draft'[s].tasks
    PROVE  EvidenceAccountedFor' /\ \A s \in S : \A k \in draft'[s].claims : Accounts(s, k)'
  <1>1. EvidenceAccountedFor'
    BY StaysAccountedFor DEF AccountedFor, EvidenceAccountedFor, Accounted
  <1>2. ASSUME NEW s \in S, NEW k \in draft[s].claims PROVE Accounts(s, k)'
    <2>1. Accounts(s, k)
      BY <1>2 DEF AccountedFor, DraftsAccountedFor
    <2>2. tasks \cup draft[s].tasks \subseteq tasks' \cup draft'[s].tasks
      BY <1>2
    <2> QED BY <2>1, <2>2, StaysAccounted
  <1> QED BY <1>1, <1>2

LEMMA SameDraftsKeepAccounts ==
    ASSUME Core, AccountedFor, SameAnchors, tasks \subseteq tasks', evidence' = evidence, draft' = draft
    PROVE  EvidenceAccountedFor' /\ DraftsAccountedFor'
  <1>1. Sessions \in SUBSET Sessions
    OBVIOUS
  <1> QED BY <1>1, QuietKeepsAccounts, SameAnchorsRemember DEF DraftsAccountedFor

LEMMA ProceedingKeepsAccounts ==
    ASSUME Core, AccountedFor, NEW s \in Sessions, Proceeding(s)
    PROVE  AccountedFor'
  <1>1. SameAnchors
    BY ProceedingKeepsCore
  <1>2. PICK raised, claims :
           /\ Proceed(s, raised, claims)
           /\ \A k \in claims : \/ StatedTo(s, k) /\ MeantTo(s, k)
                                \/ \E t \in raised : TellsOf(t, k)
                                \/ RefusedTo(s, k)
    BY ProceedingAccounts
  <1>3. /\ draft'[s].tasks = draft[s].tasks \cup raised
        /\ draft'[s].claims = draft[s].claims \cup claims
        /\ \A t \in Sessions : t # s => draft'[t] = draft[t]
        /\ \A t \in Sessions : t # s => pc'[t] = pc[t] /\ claim'[t] = claim[t]
        /\ pc'[s] = "read" /\ UNCHANGED <<tasks, evidence>>
    <2>1. /\ draft'[s] = [anchors |-> draft[s].anchors, tasks |-> draft[s].tasks \cup raised,
                          claims |-> draft[s].claims \cup claims]
          /\ \A t \in Sessions : t # s => /\ draft'[t] = draft[t]
                                          /\ pc'[t] = pc[t] /\ claim'[t] = claim[t]
          /\ pc'[s] = "read" /\ UNCHANGED <<tasks, evidence>>
      BY <1>2, ProceedsFrom DEF Core
    <2> QED BY <2>1
  <1>4. StaysStated /\ \A t \in Sessions : Remembers(t)
    BY <1>1, SameAnchorsRemember
  <1>5. EvidenceAccountedFor'
        /\ \A t \in Sessions \ {s} : \A k \in draft'[t].claims : Accounts(t, k)'
    BY <1>3, <1>4, QuietKeepsAccounts
  <1>6. ASSUME NEW k \in draft'[s].claims PROVE Accounts(s, k)'
    <2>1. CASE k \in draft[s].claims
      <3>1. Accounts(s, k)
        BY <2>1 DEF AccountedFor, DraftsAccountedFor
      <3>2. tasks \cup draft[s].tasks \subseteq tasks' \cup draft'[s].tasks
        BY <1>3
      <3> QED BY <1>4, <3>1, <3>2, StaysAccounted
    <2>2. CASE k \in claims
      <3>1. CASE StatedTo(s, k) /\ MeantTo(s, k)
        BY <1>4, <3>1, RemembersStated, RemembersMeant DEF Accounts
      <3>2. CASE \E t \in raised : TellsOf(t, k)
        BY <1>3, <3>2 DEF Accounts, TellsOf
      <3>3. CASE RefusedTo(s, k)
        BY <1>4, <3>3, RemembersMeant DEF Accounts
      <3> QED BY <1>2, <2>2, <3>1, <3>2, <3>3
    <2> QED BY <1>3, <1>6, <2>1, <2>2
  <1>7. ClaimsMeant'
    BY <1>3, <1>4, QuietKeepsClaims DEF AccountedFor
  <1> QED BY <1>5, <1>6, <1>7 DEF AccountedFor, DraftsAccountedFor

LEMMA InsertKeepsAccounts ==
    ASSUME Core, AccountedFor, NEW s \in Sessions, NEW a, Inserted(s, a)
    PROVE  AccountedFor'
  <1>1. InsertedRow(s, a) /\ UNCHANGED <<tasks, evidence>>
    BY InsertKeepsCore DEF Inserted
  <1>2. \A b \in RevIds : anchors[b] # None =>
           anchors'[b] = anchors[b] /\ AssertedBy(b)' = AssertedBy(b)
    BY <1>1 DEF InsertedRow, AssertedBy
  <1>3. StaysStated
    BY <1>1, <1>2 DEF StaysStated, InsertedRow, Committed
  <1>4. \A t \in Sessions : Remembers(t)
    BY <1>1, <1>2 DEF Remembers, Sees, InsertedRow
  <1>5. EvidenceAccountedFor'
        /\ \A t \in Sessions \ {s} : \A k \in draft'[t].claims : Accounts(t, k)'
    BY <1>1, <1>3, <1>4, QuietKeepsAccounts DEF InsertedRow
  <1>6. ASSUME NEW k \in draft'[s].claims PROVE Accounts(s, k)'
    <2>1. CASE k \in draft[s].claims
      <3>1. Accounts(s, k)
        BY <2>1 DEF AccountedFor, DraftsAccountedFor
      <3>2. tasks \cup draft[s].tasks \subseteq tasks' \cup draft'[s].tasks
        BY <1>1 DEF InsertedRow
      <3> QED BY <1>4, <3>1, <3>2, StaysAccounted
    <2>2. CASE k = claim[s]
      <3>1. a \in RevIds /\ a \in draft'[s].anchors /\ anchors'[a] = k.id
            /\ AssertedBy(a)' = k.asserted
        BY <1>1, <2>2 DEF InsertedRow
      <3>2. StatedTo(s, k)'
        BY <3>1 DEF StatedTo, Sees
      <3>3. MeantTo(s, k)
        BY <2>2 DEF AccountedFor, ClaimsMeant, Inserted
      <3> QED BY <1>4, <3>2, <3>3, RemembersMeant DEF Accounts
    <2> QED BY <1>1, <1>6, <2>1, <2>2 DEF InsertedRow
  <1>7. \A t \in Sessions : pc'[t] = "insert" => pc[t] = "insert" /\ claim'[t] = claim[t]
    BY DEF Inserted, Core, Typed
  <1>8. ClaimsMeant'
    BY <1>4, <1>7, QuietKeepsClaims DEF AccountedFor
  <1> QED BY <1>5, <1>6, <1>8 DEF AccountedFor, DraftsAccountedFor

LEMMA CommitKeepsAccounts ==
    ASSUME Core, AccountedFor, NEW s \in Sessions, Commit(s)
    PROVE  AccountedFor'
  <1>1. /\ EndedState(s) /\ anchors' = anchors /\ revs' = revs
        /\ \A a \in RevIds : Committed(a) => Committed(a)'
    BY CommitKeepsCore
  <1>2. /\ tasks \cup draft[s].tasks \subseteq tasks'
        /\ evidence' = evidence \cup draft[s].claims
    BY DEF Commit
  <1>3. StaysStated
    BY <1>1 DEF StaysStated, AssertedBy
  <1>4. \A t \in Sessions : t # s => Remembers(t)
    BY <1>1, CommitPublishes DEF Remembers, AssertedBy
  <1>5. \A key : \A i \in ItemsTo(s, key) : i \in Items(key)' /\ anchors'[i] = anchors[i]
    BY <1>1, CommitPublishes DEF ItemsTo, Items
  <1>6. ASSUME NEW k \in evidence' PROVE Accounted(k)'
    <2>1. CASE k \in evidence
      BY <1>2, <1>3, <2>1, StaysAccountedFor DEF AccountedFor
    <2>2. CASE k \in draft[s].claims
      <3>1. Accounts(s, k)
        BY <2>2 DEF AccountedFor, DraftsAccountedFor
      <3>2. CASE StatedTo(s, k) /\ MeantTo(s, k)
        <4>1. PICK a \in RevIds : Sees(s, a) /\ anchors[a] = k.id /\ AssertedBy(a) = k.asserted
          BY <3>2 DEF StatedTo
        <4>2. Committed(a)' /\ AssertedBy(a)' = AssertedBy(a)
          BY <1>1, <4>1, CommitPublishes DEF AssertedBy
        <4>3. Stated(k)'
          BY <1>1, <4>1, <4>2 DEF Stated
        <4>4. Meant(k)'
          BY <1>5, <3>2 DEF Meant, MeantTo
        <4> QED BY <4>3, <4>4 DEF Accounted
      <3>3. CASE \E t \in tasks \cup draft[s].tasks : TellsOf(t, k)
        BY <1>2, <3>3 DEF TellsOf, Reported, Accounted
      <3>4. CASE RefusedTo(s, k)
        BY <1>5, <3>4 DEF RefusedTo, Refused, Accounted
      <3> QED BY <3>1, <3>2, <3>3, <3>4 DEF Accounts
    <2> QED BY <1>2, <1>6, <2>1, <2>2
  <1>7. ASSUME NEW t \in Sessions, NEW k \in draft'[t].claims PROVE Accounts(t, k)'
    <2>1. t # s /\ draft'[t] = draft[t]
      BY <1>1, <1>7 DEF EndedState, NoDraft
    <2>2. Accounts(t, k)
      BY <1>7, <2>1 DEF AccountedFor, DraftsAccountedFor
    <2> QED BY <1>2, <1>4, <2>1, <2>2, StaysAccounted
  <1>8. ClaimsMeant'
    BY <1>1, <1>4, QuietKeepsClaims DEF AccountedFor, EndedState
  <1> QED BY <1>6, <1>7, <1>8 DEF AccountedFor, EvidenceAccountedFor, DraftsAccountedFor, Accounted

LEMMA FailKeepsAccounts ==
    ASSUME Core, AccountedFor, NEW s \in Sessions, Fail(s)
    PROVE  AccountedFor'
  <1>1. EndedState(s) /\ FailedRow(s) /\ UNCHANGED <<tasks, evidence>>
    BY FailKeepsCore DEF Fail
  <1>2. \A a \in RevIds : a \notin draft[s].anchors =>
           anchors'[a] = anchors[a] /\ AssertedBy(a)' = AssertedBy(a)
    BY <1>1 DEF FailedRow, AssertedBy
  <1>3. StaysStated
    BY <1>1, <1>2 DEF StaysStated, FailedRow
  <1>4. ASSUME NEW t \in Sessions, t # s PROVE Remembers(t)
    <2>1. \A a \in RevIds : Sees(t, a) => a \notin draft[s].anchors
      BY <1>1, <1>4, PoolsAreIds DEF Sees, FailedRow, Core, Working
    <2> QED BY <1>1, <1>2, <1>4, <2>1 DEF Remembers, FailedRow
  <1>5. \A t \in Sessions : t # s => draft'[t] = draft[t]
    BY <1>1 DEF EndedState
  <1>6. draft'[s].claims = {}
    BY <1>1 DEF EndedState, NoDraft
  <1>7. EvidenceAccountedFor'
        /\ \A t \in Sessions \ {s} : \A k \in draft'[t].claims : Accounts(t, k)'
    <2>1. \A t \in Sessions \ {s} : Remembers(t) /\ draft'[t].claims = draft[t].claims
                                    /\ draft[t].tasks \subseteq draft'[t].tasks
      BY <1>4, <1>5
    <2>2. Sessions \ {s} \in SUBSET Sessions /\ tasks \subseteq tasks' /\ evidence' = evidence
      BY <1>1
    <2> QED BY <1>3, <2>1, <2>2, QuietKeepsAccounts
  <1>8. ClaimsMeant'
    BY <1>1, <1>4, QuietKeepsClaims DEF AccountedFor, EndedState
  <1> QED BY <1>6, <1>7, <1>8 DEF AccountedFor, DraftsAccountedFor

LEMMA ReviseKeepsAccounts ==
    ASSUME Core, AccountedFor, NEW op, NEW a, NEW base, NEW as, NEW new,
           Revised(op, a, base, as, new)
    PROVE  AccountedFor'
  <1>1. Appended(op, a, base, as, new) /\ UNCHANGED <<anchors, evidence, draft>> /\ tasks \subseteq tasks'
    BY ReviseKeepsCore DEF Revised
  <1>2. \A b \in RevIds : anchors[b] # None => AssertedBy(b)' = AssertedBy(b)
    BY <1>1 DEF Appended, Core, Rows, InChain
  <1>3. StaysStated
    BY <1>1, <1>2 DEF StaysStated, Appended, Committed
  <1>4. \A t \in Sessions : Remembers(t)
    BY <1>1, <1>2 DEF Remembers, Sees, Appended
  <1>5. EvidenceAccountedFor' /\ DraftsAccountedFor'
    <2>1. Sessions \in SUBSET Sessions
      OBVIOUS
    <2> QED BY <1>1, <1>3, <1>4, <2>1, QuietKeepsAccounts DEF DraftsAccountedFor
  <1>6. ClaimsMeant'
    BY <1>4, QuietKeepsClaims DEF AccountedFor, Revised
  <1> QED BY <1>5, <1>6 DEF AccountedFor

\* What is looked up is what was said.
LEMMA NotFoundKeepsAccounts ==
    ASSUME Core, AccountedFor, NEW s \in Sessions, NotFound(s)
    PROVE  AccountedFor'
  <1>1. SameAnchors /\ UNCHANGED <<tables, tasks, evidence, draft>>
    BY NotFoundKeepsCore
  <1>2. PICK k \in Claims(s) : claim' = [claim EXCEPT ![s] = k]
    BY DEF NotFound
  <1>3. /\ Resolvable(s) /\ pc' = [pc EXCEPT ![s] = "insert"]
        /\ DOMAIN claim = Sessions /\ DOMAIN pc = Sessions
    BY DEF NotFound, Core, Typed
  <1>4. \A t \in Sessions : Remembers(t)
    BY <1>1, SameAnchorsRemember
  <1>5. MeantTo(s, k)'
    BY <1>3, <1>4, ClaimsAreMeant, RemembersMeant DEF Core
  <1>6. ASSUME NEW t \in Sessions, pc'[t] = "insert" PROVE MeantTo(t, claim[t])'
    <2>1. CASE t = s
      <3>1. claim'[t] = k
        BY <1>2, <1>3, <2>1
      <3> QED BY <1>5, <2>1, <3>1
    <2>2. CASE t # s
      <3>1. pc[t] = "insert" /\ claim'[t] = claim[t]
        BY <1>2, <1>3, <1>6, <2>2
      <3>2. PICK c : c = claim[t]
        OBVIOUS
      <3>3. MeantTo(t, c)'
        BY <1>4, <3>1, <3>2, RemembersMeant DEF AccountedFor, ClaimsMeant
      <3> QED BY <3>1, <3>2, <3>3
    <2> QED BY <2>1, <2>2
  <1>7. EvidenceAccountedFor' /\ DraftsAccountedFor'
    BY <1>1, SameDraftsKeepAccounts
  <1> QED BY <1>6, <1>7 DEF AccountedFor, ClaimsMeant

\* Steps that insert nothing and leave the drafts alone.
LEMMA IdleKeepsAccounts ==
    ASSUME Core, AccountedFor, SameAnchors, tasks \subseteq tasks', evidence' = evidence, draft' = draft,
           \A t \in Sessions : pc'[t] = "insert" => pc[t] = "insert" /\ claim'[t] = claim[t]
    PROVE  AccountedFor'
  BY SameDraftsKeepAccounts, SameAnchorsRemember, QuietKeepsClaims DEF AccountedFor

LEMMA BeginInsertsNothing ==
    ASSUME Core, NEW s \in Sessions, NEW entries, Begin(s, entries)
    PROVE  /\ UNCHANGED <<tasks, evidence, draft>>
           /\ \A t \in Sessions : pc'[t] = "insert" => pc[t] = "insert" /\ claim'[t] = claim[t]
  BY DEF Begin, store, Core, Typed

LEMMA NextKeepsAccounts == Core /\ AccountedFor /\ [Next]_vars => AccountedFor'
  <1> SUFFICES ASSUME Core, AccountedFor, [Next]_vars PROVE AccountedFor'
    OBVIOUS
  <1>1. CASE UNCHANGED vars
    BY <1>1, UnchangedKeepsCore, IdleKeepsAccounts DEF vars
  <1>2. CASE \E p \in People, e \in Submissions : Submit(p, e)
    <2>1. PICK p \in People, e \in Submissions : Submit(p, e)
      BY <1>2
    <2>2. p \in Sessions /\ Begin(p, <<e>>) /\ SameAnchors
      BY <2>1, StartsKeepCore, PeopleDoNotImport DEF Submit
    <2> QED BY <2>2, BeginInsertsNothing, IdleKeepsAccounts
  <1>3. CASE \E m \in Imports : StartImport(m)
    <2>1. PICK m \in Imports : StartImport(m)
      BY <1>3
    <2>2. m \in Sessions /\ Begin(m, Files[m]) /\ SameAnchors
      BY <2>1, StartsKeepCore, PeopleDoNotImport DEF StartImport
    <2> QED BY <2>2, BeginInsertsNothing, IdleKeepsAccounts
  <1>4. CASE \E s \in Sessions : Proceeding(s)
    BY <1>4, ProceedingKeepsAccounts
  <1>5. CASE \E s \in Sessions : NotFound(s)
    BY <1>5, NotFoundKeepsAccounts
  <1>6. CASE \E s \in Sessions : \E a : Inserted(s, a)
    BY <1>6, InsertKeepsAccounts
  <1>7. CASE \E s \in Sessions : Commit(s)
    BY <1>7, CommitKeepsAccounts
  <1>8. CASE \E s \in Sessions : Fail(s)
    BY <1>8, FailKeepsAccounts
  <1>9. CASE \E op, a, base, as, new : Revised(op, a, base, as, new)
    BY <1>9, ReviseKeepsAccounts
  <1>10. CASE \E a \in RevIds : Record(a, "desk")
    BY <1>10, RecordKeepsCore, IdleKeepsAccounts DEF Record
  <1> QED BY <1>1, <1>2, <1>3, <1>4, <1>5, <1>6, <1>7, <1>8, <1>9, <1>10, NextCases

\* Every committed Evidence of a creation, a refused shipment's among them, is
\* asserted by the INITIAL revision of an anchor with all that was said, told to
\* a person by an open task under its identity key, or one of the two named
\* exceptions: imports go on after a conflict, a person's shipment is rejected
\* with its task (create_shipment_fact), and one refused for its contract or its
\* item leaves its Evidence with no task (execute_create_shipment_fact).
THEOREM EvidenceAccountedForHolds == Spec => []EvidenceAccountedFor
  <1>1. Init => AccountedFor
    BY DEF Init, AccountedFor, EvidenceAccountedFor, DraftsAccountedFor, ClaimsMeant, NoDraft
  <1>2. AccountedFor => EvidenceAccountedFor
    BY DEF AccountedFor
  <1> QED BY <1>1, <1>2, NextKeepsAccounts, CoreInvariant, PTL DEF Spec
-----------------------------------------------------------------------------
(* Corrections are told to whoever relied on what they correct.            *)

DependentOf(d) ==
    /\ d \in [fact : {e.fact : e \in dependents}, anchor : RevIds, since : RevIds,
              by : Sessions \cup {None}]
    /\ InChain(d.since, d.anchor) /\ anchors[d.anchor] # None
    /\ anchors[d.anchor].kind \in {"ITEM", "SHIPMENT"}
    /\ IF d.by = None THEN Committed(d.anchor) ELSE Sees(d.by, d.anchor)
Tells(t, d, r) == t.kind = "FACT_SUPERSEDED" /\ t.new = r /\ d.fact \in t.facts
Told(d) ==
    \A r \in RevisionsOf(d.anchor) :
        (revs[r].type = "CORRECTION" /\ Later(r, d.since)) => \E t \in tasks : Tells(t, d, r)

LEMMA PartsOfDependencies ==
    /\ Dependencies <=> \A d \in dependents : DependentOf(d)
    /\ Dependencies' <=> \A d \in dependents' : DependentOf(d)'
    /\ DependentsTold <=> \A d \in dependents : d.by = None => Told(d)
    /\ DependentsTold' <=> \A d \in dependents' : d.by = None => Told(d)'
  BY DEF Dependencies, DependentOf, DependentsTold, Told, Tells

LEMMA SeenExists ==
    ASSUME Core, NEW s \in Sessions, NEW a \in RevIds, Sees(s, a)
    PROVE  anchors[a] # None
  BY DEF Sees, Committed, Core, Working

LEMMA CurrentIsCurrent ==
    ASSUME Core, NEW a \in RevIds, anchors[a] # None
    PROVE  /\ Current(a) \in RevisionsOf(a) /\ Current(a) \in RevIds /\ IsCurrent(Current(a))
           /\ InChain(Current(a), a)
           /\ \A r \in RevisionsOf(a) : IsCurrent(r) => r = Current(a)
  <1>1. OneCurrent(a)
    BY DEF Core, Chains
  <1>2. Current(a) \in RevisionsOf(a) /\ IsCurrent(Current(a))
    BY <1>1 DEF OneCurrent, Current
  <1> QED BY <1>1, <1>2 DEF OneCurrent, RevisionsOf, InChain

LEMMA NothingIsLaterThanCurrent ==
    ASSUME NEW base \in RevIds, IsCurrent(base), NEW r
    PROVE  ~Later(r, base)
  <1>1. {base} \in SUBSET RevisionsOf(revs[base].anchor)
    BY DEF RevisionsOf, IsCurrent
  <1>2. \A q \in {base} : revs[q].next \in {base} \cup {None}
    BY DEF IsCurrent
  <1> QED BY <1>1, <1>2 DEF Later

LEMMA CurrentIsTold ==
    ASSUME NEW d, d.since \in RevIds, IsCurrent(d.since)
    PROVE  Told(d)
  BY NothingIsLaterThanCurrent DEF Told

\* A record of an anchor whose rows a step leaves alone.
LEMMA SameChainIsTold ==
    ASSUME NEW d, d.since \in RevIds, InChain(d.since, d.anchor), SameChain(d.anchor),
           tasks \subseteq tasks', Told(d)
    PROVE  Told(d)'
  <1>1. PICK a, base : a = d.anchor /\ base = d.since
    OBVIOUS
  <1>2. /\ RevisionsOf(a)' = RevisionsOf(a) /\ \A r \in RevisionsOf(a) : revs'[r] = revs[r]
        /\ base \in RevisionsOf(a) /\ revs[base].anchor = a /\ revs'[base].anchor = a
    BY <1>1 DEF SameChain, InChain, RevisionsOf
  <1>3. ASSUME NEW r, Later(r, base)' PROVE Later(r, base)
    <2>1. r # base /\ \A S \in SUBSET RevisionsOf(a) :
             (base \in S /\ \A q \in S : revs'[q].next \in S \cup {None}) => r \in S
      BY <1>2, <1>3 DEF Later
    <2>2. \A S \in SUBSET RevisionsOf(a) :
             (base \in S /\ \A q \in S : revs[q].next \in S \cup {None}) => r \in S
      BY <1>2, <2>1
    <2> QED BY <1>2, <2>1, <2>2 DEF Later
  <1>4. ASSUME NEW r \in RevisionsOf(a), revs'[r].type = "CORRECTION", Later(r, base)'
        PROVE  \E t \in tasks' : Tells(t, d, r)
    <2>1. revs[r].type = "CORRECTION" /\ Later(r, base)
      BY <1>2, <1>3, <1>4
    <2> QED BY <1>1, <1>4, <2>1 DEF Told
  <1> QED BY <1>1, <1>2, <1>4 DEF Told, Tells

\* A correction lists whoever relied on the anchor; what was later stays told.
LEMMA AppendedIsTold ==
    ASSUME Core, NEW op, NEW a, NEW base, NEW as, NEW new, Revised(op, a, base, as, new),
           Appended(op, a, base, as, new),
           NEW d \in dependents, d.anchor = a, d.by = None, d.since \in RevIds,
           InChain(d.since, a), anchors[a].kind # "CONTRACT", Told(d)
    PROVE  Told(d)'
  <1>1. PICK since : since = d.since
    OBVIOUS
  <1>2. /\ RevisionsOf(a)' = RevisionsOf(a) \cup {new} /\ new \in RevIds
        /\ revs'[new].next = None /\ since \in RevisionsOf(a) /\ revs[since].anchor = a
        /\ revs'[since].anchor = a /\ ~Exists(new) /\ revs'[base].next = new
        /\ \A r \in RevisionsOf(a) : r # new /\ r # base => revs'[r] = revs[r]
        /\ \A r \in RevisionsOf(a) : r # new /\ revs'[r].type = revs[r].type
    <2>1. RevisionsOf(a)' = RevisionsOf(a) \cup {new}
      BY ReviseKeepsChains
    <2>2. \A r \in RevisionsOf(a) : r \in RevIds /\ Exists(r) /\ revs[r].anchor = a
      BY DEF RevisionsOf
    <2>3. since \in RevisionsOf(a)
      BY <1>1 DEF InChain, RevisionsOf
    <2>4. /\ new \in RevIds /\ revs'[new].next = None /\ ~Exists(new) /\ revs'[base].next = new
          /\ \A r \in RevIds : Exists(r) =>
                /\ revs'[r].anchor = revs[r].anchor /\ revs'[r].type = revs[r].type
                /\ r # base => revs'[r] = revs[r]
      BY DEF Appended, Revised
    <2> QED BY <2>1, <2>2, <2>3, <2>4
  <1>3. ASSUME NEW r \in RevisionsOf(a), Later(r, since)' PROVE Later(r, since)
    <2>1. r # since /\ \A S \in SUBSET (RevisionsOf(a) \cup {new}) :
             (since \in S /\ \A q \in S : revs'[q].next \in S \cup {None}) => r \in S
      BY <1>2, <1>3 DEF Later
    <2>2. ASSUME NEW S \in SUBSET RevisionsOf(a), since \in S,
                 \A q \in S : revs[q].next \in S \cup {None}
          PROVE  r \in S
      <3>1. \A q \in S \cup {new} : revs'[q].next \in S \cup {new} \cup {None}
        BY <1>2, <2>2
      <3>2. r \in S \cup {new}
        BY <2>1, <2>2, <3>1
      <3> QED BY <1>2, <1>3, <3>2
    <2> QED BY <1>2, <2>1, <2>2 DEF Later
  <1>4. ASSUME NEW r \in RevisionsOf(a) \cup {new}, revs'[r].type = "CORRECTION", Later(r, since)'
        PROVE  \E t \in tasks' : Tells(t, d, r)
    <2>1. CASE r = new
      <3>1. op = "CORRECTION" /\ d.fact \in Dependents(a, base)
        BY <1>4, <2>1 DEF Appended, Dependents
      <3>2. FactSuperseded(a, base, new, Dependents(a, base)) \in tasks'
        BY <3>1 DEF Revised
      <3> QED BY <2>1, <3>1, <3>2 DEF Tells, FactSuperseded
    <2>2. CASE r \in RevisionsOf(a)
      <3>1. revs[r].type = "CORRECTION" /\ Later(r, since)
        BY <1>2, <1>3, <1>4, <2>2
      <3>2. \E t \in tasks : Tells(t, d, r)
        BY <1>1, <2>2, <3>1 DEF Told
      <3> QED BY <3>2 DEF Revised
    <2> QED BY <1>4, <2>1, <2>2
  <1> QED BY <1>1, <1>2, <1>4 DEF Told, Tells

Reliance == Dependencies /\ DependentsTold

\* A record a step neither adds nor takes away, of an anchor it leaves alone.
LEMMA StaysTold ==
    ASSUME Core, Reliance, NEW d \in dependents, d \in dependents', SameChain(d.anchor),
           anchors'[d.anchor] = anchors[d.anchor], tasks \subseteq tasks',
           Committed(d.anchor) => Committed(d.anchor)',
           d.by # None => (Sees(d.by, d.anchor) => Sees(d.by, d.anchor)')
    PROVE  DependentOf(d)' /\ (d.by = None => Told(d)')
  <1>1. DependentOf(d) /\ (d.by = None => Told(d))
    BY PartsOfDependencies DEF Reliance
  <1>2. d.since \in RevIds /\ InChain(d.since, d.anchor)
    BY <1>1 DEF DependentOf
  <1>3. InChain(d.since, d.anchor)'
    <2>1. d.since \in RevisionsOf(d.anchor)
      BY <1>2 DEF InChain, RevisionsOf
    <2> QED BY <1>2, <2>1 DEF SameChain, InChain, Exists
  <1>4. d \in [fact : {e.fact : e \in dependents'}, anchor : RevIds, since : RevIds,
               by : Sessions \cup {None}]
    BY <1>1 DEF DependentOf
  <1>5. DependentOf(d)'
    BY <1>1, <1>3, <1>4 DEF DependentOf
  <1> QED BY <1>1, <1>2, <1>5, SameChainIsTold

\* A record of the current revision.
LEMMA NewIsTold ==
    ASSUME Core, Core', NEW d \in dependents', NEW fact, NEW a \in RevIds,
           NEW by \in Sessions \cup {None},
           UNCHANGED <<anchors, revs>>, anchors[a] # None, anchors[a].kind \in {"ITEM", "SHIPMENT"},
           d = [fact |-> fact, anchor |-> a, since |-> Current(a), by |-> by],
           IF by = None THEN Committed(a)' ELSE Sees(by, a)'
    PROVE  DependentOf(d)' /\ Told(d)'
  <1>1. Current(a) \in RevIds /\ IsCurrent(Current(a)) /\ InChain(Current(a), a)
    BY CurrentIsCurrent
  <1>2. PICK c : c = Current(a)
    OBVIOUS
  <1>3. c \in RevIds /\ IsCurrent(c)' /\ InChain(c, a)'
    BY <1>1, <1>2 DEF IsCurrent, InChain, Exists
  <1>4. d.since = c /\ d.anchor = a /\ d.by = by
    BY <1>2
  <1>5. d \in [fact : {e.fact : e \in dependents'}, anchor : RevIds, since : RevIds,
               by : Sessions \cup {None}]
    BY <1>2, <1>3
  <1>6. DependentOf(d)'
    BY <1>3, <1>4, <1>5 DEF DependentOf
  <1>7. Told(d)'
    <2>1. \A r : ~Later(r, c)'
      <3> SUFFICES ASSUME NEW r, Later(r, c)' PROVE FALSE
        OBVIOUS
      <3>1. {c} \in SUBSET RevisionsOf(revs[c].anchor)' /\ revs'[c].next = None
        BY <1>3 DEF RevisionsOf, IsCurrent
      <3> QED BY <3>1 DEF Later
    <2> QED BY <1>4, <2>1 DEF Told
  <1> QED BY <1>6, <1>7

LEMMA SameAnchorsSameChains == SameAnchors => \A b : SameChain(b)
  BY DEF SameAnchors, SameChain, RevisionsOf, Exists

LEMMA SameRecordsStayTold ==
    ASSUME Core, Reliance, SameAnchors, dependents' = dependents, tasks \subseteq tasks'
    PROVE  Reliance'
  <1>1. \A d \in dependents : DependentOf(d)' /\ (d.by = None => Told(d)')
    <2>1. ASSUME NEW d \in dependents PROVE DependentOf(d)' /\ (d.by = None => Told(d)')
      <3>1. DependentOf(d)
        BY PartsOfDependencies DEF Reliance
      <3>2. d.anchor \in RevIds /\ d.by \in Sessions \cup {None}
        BY <3>1 DEF DependentOf
      <3>3. /\ SameChain(d.anchor) /\ anchors'[d.anchor] = anchors[d.anchor]
            /\ Committed(d.anchor) => Committed(d.anchor)'
            /\ d.by # None => (Sees(d.by, d.anchor) => Sees(d.by, d.anchor)')
        BY <3>2, SameAnchorsKeepRows, SameAnchorsSameChains DEF SameAnchors
      <3> QED BY <3>3, StaysTold
    <2> QED BY <2>1
  <1> QED BY <1>1, PartsOfDependencies DEF Reliance

LEMMA ProceedingStaysTold ==
    ASSUME Core, Reliance, NEW s \in Sessions, Proceeding(s)
    PROVE  Reliance'
  <1>1. SameAnchors /\ Core'
    BY ProceedingKeepsCore
  <1>2. tasks' = tasks
    <2>1. PICK raised, claims : Proceed(s, raised, claims)
      BY ProceedingSteps DEF Proceeding
    <2> QED BY <2>1 DEF Proceed
  <1>3. CASE Depend(s)
    <2>1. PICK c \in Scopes(s) : \E i \in ItemsOf(s, c, Now(s).key) :
             dependents' = IF \E d \in dependents : d.fact = Now(s).fragment /\ d.by = None
                           THEN dependents
                           ELSE dependents \cup {[fact |-> Now(s).fragment, anchor |-> i,
                                                  since |-> Current(i), by |-> s]}
      BY <1>3 DEF Depend
    <2>2. PICK i \in ItemsOf(s, c, Now(s).key) :
             dependents' = IF \E d \in dependents : d.fact = Now(s).fragment /\ d.by = None
                           THEN dependents
                           ELSE dependents \cup {[fact |-> Now(s).fragment, anchor |-> i,
                                                  since |-> Current(i), by |-> s]}
      BY <2>1
    <2>3. i \in RevIds /\ Sees(s, i) /\ anchors[i].kind = "ITEM" /\ anchors[i] # None
      BY <2>2, SeenExists DEF ItemsOf, Anchored, Identity
    <2>4. Sees(s, i)'
      BY <1>1, <2>3, SameAnchorsKeepRows
    <2>5. ASSUME NEW d \in dependents' PROVE DependentOf(d)' /\ (d.by = None => Told(d)')
      <3>1. CASE d \in dependents
        <4>1. DependentOf(d)
          BY <3>1, PartsOfDependencies DEF Reliance
        <4>2. d.anchor \in RevIds /\ d.by \in Sessions \cup {None}
          BY <4>1 DEF DependentOf
        <4>3. /\ SameChain(d.anchor) /\ anchors'[d.anchor] = anchors[d.anchor]
              /\ Committed(d.anchor) => Committed(d.anchor)'
              /\ d.by # None => (Sees(d.by, d.anchor) => Sees(d.by, d.anchor)')
          BY <1>1, <4>2, SameAnchorsKeepRows, SameAnchorsSameChains DEF SameAnchors
        <4> QED BY <1>2, <2>5, <3>1, <4>3, StaysTold
      <3>2. CASE d = [fact |-> Now(s).fragment, anchor |-> i, since |-> Current(i), by |-> s]
        <4>1. PICK fact : fact = Now(s).fragment
          OBVIOUS
        <4>2. d = [fact |-> fact, anchor |-> i, since |-> Current(i), by |-> s]
          BY <3>2, <4>1
        <4>3. UNCHANGED <<anchors, revs>> /\ anchors[i].kind \in {"ITEM", "SHIPMENT"}
              /\ IF s = None THEN Committed(i)' ELSE Sees(s, i)'
          BY <1>1, <2>3, <2>4, IdsAreNotNone DEF SameAnchors
        <4> QED BY <1>1, <2>3, <2>5, <4>2, <4>3, NewIsTold
      <3> QED BY <2>2, <2>5, <3>1, <3>2
    <2> QED BY <2>5, PartsOfDependencies DEF Reliance
  <1>4. CASE ~Depend(s)
    <2>1. dependents' = dependents
      BY <1>4 DEF Proceeding, IdentityUnresolved, ScopeRefused, ShipmentUnconfirmed, Agrees, Conflicts,
                  tables
    <2> QED BY <1>1, <1>2, <2>1, SameRecordsStayTold
  <1> QED BY <1>3, <1>4

LEMMA InsertStaysTold ==
    ASSUME Core, Reliance, NEW s \in Sessions, NEW a, Inserted(s, a)
    PROVE  Reliance'
  <1>1. InsertedRow(s, a) /\ UNCHANGED <<dependents, tasks>>
    BY InsertKeepsCore DEF Inserted
  <1>2. ASSUME NEW d \in dependents PROVE DependentOf(d)' /\ (d.by = None => Told(d)')
    <2>1. DependentOf(d)
      BY PartsOfDependencies DEF Reliance
    <2>2. d.anchor \in RevIds /\ d.by \in Sessions \cup {None} /\ anchors[d.anchor] # None
      BY <2>1 DEF DependentOf
    <2>3. d.anchor # a /\ SameChain(d.anchor)
      BY <1>1, <2>2, InsertKeepsChains
    <2>4. /\ anchors'[d.anchor] = anchors[d.anchor]
          /\ Committed(d.anchor) => Committed(d.anchor)'
          /\ d.by # None => (Sees(d.by, d.anchor) => Sees(d.by, d.anchor)')
      BY <1>1, <2>2, <2>3 DEF InsertedRow, Sees
    <2> QED BY <1>1, <2>3, <2>4, StaysTold
  <1> QED BY <1>1, <1>2, PartsOfDependencies DEF Reliance

LEMMA CommitStaysTold ==
    ASSUME Core, Reliance, NEW s \in Sessions, Commit(s)
    PROVE  Reliance'
  <1>1. /\ EndedState(s) /\ UNCHANGED <<anchors, revs>> /\ Core'
        /\ \A a \in RevIds : Committed(a) => Committed(a)'
    BY CommitKeepsCore
  <1>2. tasks \subseteq tasks'
        /\ dependents' = {IF d.by = s THEN [d EXCEPT !.by = None, !.since = Current(d.anchor)] ELSE d
                            : d \in dependents}
    BY DEF Commit
  <1>3. \A b : SameChain(b)
    BY <1>1 DEF SameChain, RevisionsOf, Exists
  <1>4. ASSUME NEW d \in dependents' PROVE DependentOf(d)' /\ (d.by = None => Told(d)')
    <2>1. PICK e \in dependents :
             d = IF e.by = s THEN [e EXCEPT !.by = None, !.since = Current(e.anchor)] ELSE e
      BY <1>2, <1>4
    <2>2. DependentOf(e)
      BY PartsOfDependencies DEF Reliance
    <2>3. /\ e = [fact |-> e.fact, anchor |-> e.anchor, since |-> e.since, by |-> e.by]
          /\ e.anchor \in RevIds /\ e.by \in Sessions \cup {None}
          /\ anchors[e.anchor] # None /\ anchors[e.anchor].kind \in {"ITEM", "SHIPMENT"}
      BY <2>2 DEF DependentOf
    <2>4. CASE e.by = s
      <3>1. PICK fact, a : fact = e.fact /\ a = e.anchor /\ a \in RevIds
        BY <2>3
      <3>2. d = [fact |-> fact, anchor |-> a, since |-> Current(a), by |-> None]
        <4>1. d = [e EXCEPT !.by = None, !.since = Current(e.anchor)]
          BY <2>1, <2>4
        <4> QED BY <2>3, <3>1, <4>1
      <3>3. Sees(s, a)
        BY <2>2, <2>4, <3>1, IdsAreNotNone DEF DependentOf
      <3>4. Committed(a)'
        BY <1>1, <3>1, <3>3, CommitPublishes
      <3>5. anchors[a] # None /\ anchors[a].kind \in {"ITEM", "SHIPMENT"}
            /\ IF None = None THEN Committed(a)' ELSE Sees(None, a)'
        BY <2>3, <3>1, <3>4
      <3> QED BY <1>1, <1>4, <3>1, <3>2, <3>5, NewIsTold
    <2>5. CASE e.by # s
      <3>1. d = e
        BY <2>1, <2>5
      <3>2. e.by # None => (Sees(e.by, e.anchor) => Sees(e.by, e.anchor)')
        BY <1>1, <2>3, <2>5, CommitPublishes
      <3>3. /\ e \in dependents' /\ SameChain(e.anchor) /\ anchors'[e.anchor] = anchors[e.anchor]
            /\ Committed(e.anchor) => Committed(e.anchor)'
        BY <1>1, <1>3, <1>4, <2>3, <3>1
      <3> QED BY <1>2, <3>1, <3>2, <3>3, StaysTold
    <2> QED BY <2>4, <2>5
  <1> QED BY <1>4, PartsOfDependencies DEF Reliance

LEMMA FailStaysTold ==
    ASSUME Core, Reliance, NEW s \in Sessions, Fail(s)
    PROVE  Reliance'
  <1>1. /\ EndedState(s) /\ FailedRow(s) /\ tasks' = tasks
        /\ dependents' = {d \in dependents : d.by # s}
    BY FailKeepsCore DEF Fail
  <1>2. ASSUME NEW d \in dependents' PROVE DependentOf(d)' /\ (d.by = None => Told(d)')
    <2>1. d \in dependents /\ d.by # s /\ DependentOf(d)
      BY <1>1, <1>2, PartsOfDependencies DEF Reliance
    <2>2. d.anchor \in RevIds /\ d.by \in Sessions \cup {None} /\ anchors[d.anchor] # None
      BY <2>1 DEF DependentOf
    <2>3. d.anchor \notin draft[s].anchors
      <3>1. CASE d.by = None
        BY <1>1, <2>1, <3>1 DEF DependentOf, FailedRow
      <3>2. CASE d.by # None
        <4>1. Sees(d.by, d.anchor) /\ d.by \in Sessions
          BY <2>1, <2>2, <3>2 DEF DependentOf
        <4> QED BY <1>1, <2>1, <4>1, PoolsAreIds DEF Sees, FailedRow, Core, Working
      <3> QED BY <3>1, <3>2
    <2>4. anchors'[d.anchor] = anchors[d.anchor] /\ SameChain(d.anchor)
          /\ (Committed(d.anchor) => Committed(d.anchor)')
          /\ (d.by # None => (Sees(d.by, d.anchor) => Sees(d.by, d.anchor)'))
      BY <1>1, <2>1, <2>2, <2>3 DEF FailedRow
    <2> QED BY <1>1, <1>2, <2>1, <2>4, StaysTold
  <1> QED BY <1>2, PartsOfDependencies DEF Reliance

LEMMA ReviseStaysTold ==
    ASSUME Core, Reliance, NEW op, NEW a, NEW base, NEW as, NEW new,
           Revised(op, a, base, as, new)
    PROVE  Reliance'
  <1>1. Appended(op, a, base, as, new) /\ UNCHANGED <<anchors, dependents, draft>> /\ tasks \subseteq tasks'
    BY ReviseKeepsCore DEF Revised
  <1>2. \A b \in RevIds : /\ Committed(b)' <=> Committed(b)
                          /\ \A t \in Sessions : Sees(t, b)' <=> Sees(t, b)
    BY <1>1 DEF Appended, Sees
  <1>3. ASSUME NEW d \in dependents PROVE DependentOf(d)' /\ (d.by = None => Told(d)')
    <2>1. DependentOf(d) /\ (d.by = None => Told(d))
      BY PartsOfDependencies DEF Reliance
    <2>2. d.anchor \in RevIds /\ d.by \in Sessions \cup {None} /\ d.since \in RevIds
          /\ InChain(d.since, d.anchor) /\ anchors[d.anchor].kind \in {"ITEM", "SHIPMENT"}
      BY <2>1 DEF DependentOf
    <2>3. CASE d.anchor # a
      <3>1. SameChain(d.anchor)
        BY <1>1, <2>2, <2>3, ReviseKeepsChains
      <3> QED BY <1>1, <1>2, <2>2, <3>1, StaysTold
    <2>4. CASE d.anchor = a
      <3>1. InChain(d.since, d.anchor)'
        BY <1>1, <2>2 DEF Appended, InChain
      <3>2. d \in [fact : {e.fact : e \in dependents'}, anchor : RevIds, since : RevIds,
                   by : Sessions \cup {None}]
        BY <1>1, <2>1 DEF DependentOf
      <3>3. DependentOf(d)'
        BY <1>1, <1>2, <2>1, <2>2, <3>1, <3>2 DEF DependentOf
      <3>4. d.by = None => Told(d)'
        <4>1. anchors[a].kind # "CONTRACT" /\ InChain(d.since, a)
          BY <2>2, <2>4
        <4> QED BY <1>1, <2>1, <2>2, <2>4, <4>1, AppendedIsTold
      <3> QED BY <3>3, <3>4
    <2> QED BY <2>3, <2>4
  <1> QED BY <1>1, <1>3, PartsOfDependencies DEF Reliance

LEMMA RecordStaysTold ==
    ASSUME Core, Reliance, NEW a \in RevIds, NEW fact, Record(a, fact)
    PROVE  Reliance'
  <1>1. SameAnchors /\ Core' /\ UNCHANGED <<anchors, revs, tasks>>
        /\ Committed(a) /\ anchors[a].kind \in {"ITEM", "SHIPMENT"}
        /\ dependents' = dependents \cup {[fact |-> fact, anchor |-> a, since |-> Current(a), by |-> None]}
    BY RecordKeepsCore DEF Record
  <1>2. ASSUME NEW d \in dependents' PROVE DependentOf(d)' /\ (d.by = None => Told(d)')
    <2>1. CASE d \in dependents
      <3>1. DependentOf(d)
        BY <2>1, PartsOfDependencies DEF Reliance
      <3>2. d.anchor \in RevIds /\ d.by \in Sessions \cup {None}
        BY <3>1 DEF DependentOf
      <3>3. /\ SameChain(d.anchor) /\ anchors'[d.anchor] = anchors[d.anchor]
            /\ Committed(d.anchor) => Committed(d.anchor)'
            /\ d.by # None => (Sees(d.by, d.anchor) => Sees(d.by, d.anchor)')
        BY <1>1, <3>2, SameAnchorsKeepRows, SameAnchorsSameChains DEF SameAnchors
      <3> QED BY <1>1, <1>2, <2>1, <3>3, StaysTold
    <2>2. CASE d = [fact |-> fact, anchor |-> a, since |-> Current(a), by |-> None]
      <3>1. anchors[a] # None /\ Committed(a)'
            /\ IF None = None THEN Committed(a)' ELSE Sees(None, a)'
        BY <1>1, SameAnchorsKeepRows DEF Committed
      <3> QED BY <1>1, <1>2, <2>2, <3>1, NewIsTold
    <2> QED BY <1>1, <1>2, <2>1, <2>2
  <1> QED BY <1>2, PartsOfDependencies DEF Reliance

LEMMA NextStaysTold == Core /\ Reliance /\ [Next]_vars => Reliance'
  <1> SUFFICES ASSUME Core, Reliance, [Next]_vars PROVE Reliance'
    OBVIOUS
  <1>1. CASE UNCHANGED vars
    BY <1>1, UnchangedKeepsCore, SameRecordsStayTold DEF vars
  <1>2. CASE \E p \in People, e \in Submissions : Submit(p, e)
    BY <1>2, StartsKeepCore, SameRecordsStayTold DEF Submit, Begin, store, tables
  <1>3. CASE \E m \in Imports : StartImport(m)
    BY <1>3, StartsKeepCore, SameRecordsStayTold DEF StartImport, Begin, store, tables
  <1>4. CASE \E s \in Sessions : Proceeding(s)
    BY <1>4, ProceedingStaysTold
  <1>5. CASE \E s \in Sessions : NotFound(s)
    BY <1>5, NotFoundKeepsCore, SameRecordsStayTold DEF tables
  <1>6. CASE \E s \in Sessions : \E a : Inserted(s, a)
    BY <1>6, InsertStaysTold
  <1>7. CASE \E s \in Sessions : Commit(s)
    BY <1>7, CommitStaysTold
  <1>8. CASE \E s \in Sessions : Fail(s)
    BY <1>8, FailStaysTold
  <1>9. CASE \E op, a, base, as, new : Revised(op, a, base, as, new)
    BY <1>9, ReviseStaysTold
  <1>10. CASE \E a \in RevIds : Record(a, "desk")
    BY <1>10, RecordStaysTold
  <1> QED BY <1>1, <1>2, <1>3, <1>4, <1>5, <1>6, <1>7, <1>8, <1>9, <1>10, NextCases

\* However many supplements and corrections an item or a shipment goes through,
\* whoever relied on it when a correction was made is listed by that
\* correction's task (_flag_dependents_on_correction).
THEOREM DependentsToldHolds == Spec => []DependentsTold
  <1>1. Init => Reliance
    BY DEF Init, Reliance, Dependencies, DependentsTold
  <1>2. Reliance => DependentsTold
    BY DEF Reliance
  <1> QED BY <1>1, <1>2, NextStaysTold, CoreInvariant, PTL DEF Spec
-----------------------------------------------------------------------------
(* The store implements the abstract fact ledger.                          *)

\* What revision r says of an anchor, and Known without CHOOSE.
KnownFrom(a, r) == [f \in AllFields |-> IF f \in Fields[anchors[a].kind] THEN revs[r].values[f] ELSE None]
KnownFacts ==
    \A a \in RevIds :
        /\ ~Committed(a) => Known[a] = None
        /\ \A r \in RevisionsOf(a) : Committed(a) /\ IsCurrent(r) => Known[a] = KnownFrom(a, r)

LEMMA CoreHasKnownFacts == Core => KnownFacts
  <1> SUFFICES ASSUME Core, NEW a \in RevIds
               PROVE  /\ ~Committed(a) => Known[a] = None
                      /\ \A r \in RevisionsOf(a) :
                            Committed(a) /\ IsCurrent(r) => Known[a] = KnownFrom(a, r)
    BY DEF KnownFacts
  <1>1. ~Committed(a) => Known[a] = None
    BY DEF Known
  <1>2. ASSUME Committed(a), NEW r \in RevisionsOf(a), IsCurrent(r)
        PROVE  Known[a] = KnownFrom(a, r)
    <2>1. r = Current(a)
      BY <1>2, CurrentIsCurrent DEF Committed
    <2>2. Known[a] = KnownFrom(a, Current(a))
      BY <1>2 DEF Known, KnownFrom
    <2> QED BY <2>1, <2>2
  <1> QED BY <1>1, <1>2

LEMMA KnownIsTyped ==
    ASSUME Core, NEW a \in RevIds, NEW r \in RevisionsOf(a), anchors[a] # None
    PROVE  KnownFrom(a, r) \in [AllFields -> KnownValues \cup {None}]
  <1>1. r \in RevIds /\ Exists(r) /\ revs[r].anchor = a
    BY DEF RevisionsOf
  <1>2. revs[r].values \in [Fields[anchors[a].kind] -> KnownValues \cup {None}]
    BY <1>1 DEF Core, Rows, Written
  <1> QED BY <1>2 DEF KnownFrom

\* A step that neither commits nor revises an anchor keeps what is known of it.
LEMMA SameKnown ==
    ASSUME Core, KnownFacts, KnownFacts', NEW a \in RevIds, Committed(a)' <=> Committed(a),
           Committed(a) => anchors'[a] = anchors[a] /\ SameChain(a)
    PROVE  Known'[a] = Known[a]
  <1>1. CASE ~Committed(a)
    BY <1>1 DEF KnownFacts
  <1>2. CASE Committed(a)
    <2>1. PICK r : r = Current(a)
      OBVIOUS
    <2>2. r \in RevisionsOf(a) /\ r \in RevIds /\ IsCurrent(r)
      BY <1>2, <2>1, CurrentIsCurrent DEF Committed
    <2>3. r \in RevisionsOf(a)' /\ revs'[r] = revs[r] /\ IsCurrent(r)'
      BY <1>2, <2>2 DEF SameChain, IsCurrent, Exists
    <2>4. Known[a] = KnownFrom(a, r) /\ Known'[a] = KnownFrom(a, r)'
      BY <1>2, <2>2, <2>3 DEF KnownFacts
    <2> QED BY <1>2, <2>3, <2>4 DEF KnownFrom
  <1> QED BY <1>1, <1>2

\* A commit publishes what its anchors assert, and changes no other.
LEMMA CommitKnows ==
    ASSUME Core, KnownFacts, KnownFacts', NEW s \in Sessions, Commit(s), NEW a \in RevIds
    PROVE  \/ Known'[a] = Known[a]
           \/ Known[a] = None /\ Known'[a] \in [AllFields -> KnownValues \cup {None}]
  <1>1. EndedState(s) /\ UNCHANGED <<anchors, revs>> /\ Core'
    BY CommitKeepsCore
  <1>2. SameChain(a) /\ anchors'[a] = anchors[a]
    BY <1>1 DEF SameChain, RevisionsOf, Exists
  <1>3. Committed(a)' <=> Committed(a) \/ a \in draft[s].anchors
    BY <1>1, CommitPublishes DEF Sees
  <1>4. CASE Committed(a) \/ a \notin draft[s].anchors
    <2>1. Committed(a)' <=> Committed(a)
      BY <1>3, <1>4
    <2> QED BY <1>2, <2>1, SameKnown
  <1>5. CASE ~Committed(a) /\ a \in draft[s].anchors
    <2>1. anchors[a] # None
      BY <1>5 DEF Core, Working
    <2>2. PICK r \in RevisionsOf(a) : IsCurrent(r)
      BY <2>1, CurrentIsCurrent
    <2>3. r \in RevisionsOf(a)' /\ IsCurrent(r)'
      BY <1>1, <2>2 DEF RevisionsOf, IsCurrent, Exists
    <2>4. Known[a] = None /\ Known'[a] = KnownFrom(a, r)'
      BY <1>3, <1>5, <2>3 DEF KnownFacts
    <2>5. KnownFrom(a, r)' = KnownFrom(a, r)
      BY <1>1 DEF KnownFrom
    <2> QED BY <2>1, <2>4, <2>5, KnownIsTyped
  <1> QED BY <1>4, <1>5

\* A merge keeps the known fields of a supplement's base, and the knownness of
\* those of a correction's.
Keeps(fields, v, w)        == \A f \in fields : v[f] # None => w[f] = v[f]
KnowsTheSame(fields, v, w) == \A f \in fields : v[f] # None <=> w[f] # None

LEMMA MergeKnows ==
    ASSUME NEW kind \in Kinds, NEW as, Asserts(kind, as),
           NEW v \in [Fields[kind] -> KnownValues \cup {None}]
    PROVE  /\ Supplementable(v, as) => Keeps(Fields[kind], v, Merge(kind, v, as))
           /\ Correctable(v, as) => KnowsTheSame(Fields[kind], v, Merge(kind, v, as))
  <1>1. DOMAIN as \subseteq Fields[kind] /\ \A f \in DOMAIN as : as[f] \in KnownValues
    BY AssertsIsTyped
  <1>2. \A f \in DOMAIN as : as[f] # None
    BY <1>1, IdsAreNotNone DEF KnownValues
  <1>3. \A f \in Fields[kind] : Merge(kind, v, as)[f] = IF f \in DOMAIN as THEN as[f] ELSE v[f]
    BY DEF Merge
  <1> QED BY <1>1, <1>2, <1>3 DEF Supplementable, Correctable, Keeps, KnowsTheSame

\* A supplement or a correction replaces what is known by its merge.
Learned(a, base, new) ==
    /\ \A b \in RevIds : b # a => Known'[b] = Known[b]
    /\ a \in RevIds /\ Known[a] = KnownFrom(a, base) /\ Known'[a] = KnownFrom(a, new)'
LEMMA ReviseKnows ==
    ASSUME Core, KnownFacts, KnownFacts', NEW op, NEW a, NEW base, NEW as, NEW new,
           Revised(op, a, base, as, new)
    PROVE  Learned(a, base, new)
  <1>1. Appended(op, a, base, as, new) /\ Core' /\ UNCHANGED <<anchors, draft>>
    BY ReviseKeepsCore DEF Revised
  <1>2. \A b \in RevIds : Committed(b)' <=> Committed(b)
    BY <1>1 DEF Committed
  <1>3. ASSUME NEW b \in RevIds, b # a PROVE Known'[b] = Known[b]
    <2>1. SameChain(b)
      BY <1>1, <1>3, ReviseKeepsChains
    <2> QED BY <1>1, <1>2, <2>1, SameKnown
  <1>4. /\ a \in RevIds /\ base \in RevIds /\ IsCurrent(base) /\ Exists(base)
        /\ revs[base].anchor = a /\ Committed(a) /\ anchors[a] # None
    BY <1>1 DEF Revised, IsCurrent, Committed
  <1>5. base \in RevisionsOf(a)
    BY <1>4 DEF RevisionsOf
  <1>6. new \in RevisionsOf(a)' /\ IsCurrent(new)'
    <2>1. new \in RevIds /\ Exists(new)' /\ revs'[new].anchor = a /\ revs'[new].next = None
      BY <1>1 DEF Appended
    <2> QED BY <2>1 DEF RevisionsOf, IsCurrent, Exists
  <1>7. Known[a] = KnownFrom(a, base) /\ Known'[a] = KnownFrom(a, new)'
    BY <1>2, <1>4, <1>5, <1>6 DEF KnownFacts
  <1> QED BY <1>3, <1>4, <1>7 DEF Learned

LEMMA ReviseIsALedgerStep ==
    ASSUME Core, KnownFacts, KnownFacts', NEW op, NEW a, NEW base, NEW as, NEW new,
           Revised(op, a, base, as, new), NEW b \in RevIds
    PROVE  \/ Ledger!Unchanged(b) \/ Ledger!FirstAsserted(b)
           \/ Ledger!Supplemented(b) \/ Ledger!Corrected(b)
  <1>1. /\ \A c \in RevIds : c # a => Known'[c] = Known[c]
        /\ a \in RevIds /\ Known[a] = KnownFrom(a, base) /\ Known'[a] = KnownFrom(a, new)'
    <2>1. Learned(a, base, new)
      BY ReviseKnows
    <2> QED BY <2>1 DEF Learned
  <1>2. CASE b # a
    BY <1>1, <1>2 DEF Ledger!Unchanged
  <1>3. CASE b = a
    <2>1. PICK kind : kind = anchors[a].kind
      OBVIOUS
    <2>2. PICK v : v = revs[base].values
      OBVIOUS
    <2>3. PICK w : w = Merge(kind, v, as)
      OBVIOUS
    <2>4. Appended(op, a, base, as, new) /\ anchors' = anchors
      BY ReviseKeepsCore DEF Revised
    <2>5. /\ kind \in Kinds /\ v \in [Fields[kind] -> KnownValues \cup {None}]
          /\ revs'[new].values = w
      BY <2>1, <2>2, <2>3, <2>4 DEF Appended
    <2>6. /\ Asserts(kind, as) /\ (Supplementable(v, as) \/ Correctable(v, as))
          /\ w \in [Fields[kind] -> KnownValues \cup {None}]
      <3>1. Asserts(kind, as) /\ (Supplementable(v, as) \/ Correctable(v, as))
        BY <2>1, <2>2 DEF Revised
      <3>2. Merge(kind, v, as) \in [Fields[kind] -> KnownValues \cup {None}]
        <4>1. kind \in Kinds /\ v \in [Fields[kind] -> KnownValues \cup {None}] /\ Asserts(kind, as)
          BY <2>5, <3>1
        <4> QED BY <4>1, MergeIsTyped
      <3> QED BY <2>3, <3>1, <3>2
    <2>7. PICK x, y : /\ x = [f \in AllFields |-> IF f \in Fields[kind] THEN v[f] ELSE None]
                      /\ y = [f \in AllFields |-> IF f \in Fields[kind] THEN w[f] ELSE None]
      OBVIOUS
    <2>8. Known[a] = x /\ Known'[a] = y
      BY <1>1, <2>1, <2>2, <2>4, <2>5, <2>7 DEF KnownFrom
    <2>9. y \in Ledger!Projections
      BY <2>6, <2>7 DEF Ledger!Projections
    <2>10. Keeps(AllFields, x, y) \/ KnowsTheSame(AllFields, x, y)
      <3>1. kind \in Kinds /\ v \in [Fields[kind] -> KnownValues \cup {None}] /\ Asserts(kind, as)
        BY <2>5, <2>6
      <3>2. Keeps(Fields[kind], v, w) \/ KnowsTheSame(Fields[kind], v, w)
        BY <2>3, <2>6, <3>1, MergeKnows
      <3> QED BY <2>7, <3>2 DEF Keeps, KnowsTheSame
    <2>11. CASE x = None
      BY <1>3, <2>8, <2>9, <2>11 DEF Ledger!FirstAsserted
    <2>12. CASE x # None /\ Keeps(AllFields, x, y)
      BY <1>3, <2>8, <2>9, <2>12 DEF Keeps, Ledger!Supplemented, Ledger!KnownFields
    <2>13. CASE x # None /\ KnowsTheSame(AllFields, x, y)
      BY <1>3, <2>8, <2>9, <2>13 DEF KnowsTheSame, Ledger!Corrected, Ledger!KnownFields
    <2> QED BY <2>10, <2>11, <2>12, <2>13
  <1> QED BY <1>2, <1>3

LEMMA NextIsALedgerStep ==
    ASSUME Core, Core', KnownFacts, KnownFacts', [Next]_vars
    PROVE  [Ledger!Next]_Known
  <1> SUFFICES ASSUME NEW a \in RevIds
               PROVE  \/ Ledger!Unchanged(a) \/ Ledger!FirstAsserted(a)
                      \/ Ledger!Supplemented(a) \/ Ledger!Corrected(a)
    BY DEF Ledger!Next
  <1>1. ASSUME SameAnchors PROVE Ledger!Unchanged(a)
    <2>1. (Committed(a)' <=> Committed(a)) /\ anchors'[a] = anchors[a] /\ SameChain(a)
      BY <1>1, SameAnchorsKeepRows, SameAnchorsSameChains DEF SameAnchors
    <2> QED BY <2>1, SameKnown DEF Ledger!Unchanged
  <1>2. CASE UNCHANGED vars
    BY <1>1, <1>2, UnchangedKeepsCore
  <1>3. CASE \E p \in People, e \in Submissions : Submit(p, e)
    BY <1>1, <1>3, StartsKeepCore
  <1>4. CASE \E m \in Imports : StartImport(m)
    BY <1>1, <1>4, StartsKeepCore
  <1>5. CASE \E s \in Sessions : Proceeding(s)
    BY <1>1, <1>5, ProceedingKeepsCore
  <1>6. CASE \E s \in Sessions : NotFound(s)
    BY <1>1, <1>6, NotFoundKeepsCore
  <1>7. ASSUME NEW s \in Sessions, NEW b, Inserted(s, b) PROVE Ledger!Unchanged(a)
    <2>1. InsertedRow(s, b)
      BY <1>7, InsertKeepsCore
    <2>2. CASE a = b
      <3>1. ~Committed(a) /\ ~Committed(a)'
        BY <2>1, <2>2 DEF InsertedRow, Committed
      <3> QED BY <3>1, SameKnown DEF Ledger!Unchanged
    <2>3. CASE a # b
      <3>1. anchors'[a] = anchors[a] /\ (Committed(a)' <=> Committed(a))
        BY <2>1, <2>3 DEF InsertedRow, Committed
      <3>2. Committed(a) => SameChain(a)
        BY <2>1, <2>3, InsertKeepsChains DEF Committed
      <3> QED BY <3>1, <3>2, SameKnown DEF Ledger!Unchanged
    <2> QED BY <2>2, <2>3
  <1>8. ASSUME NEW s \in Sessions, Commit(s)
        PROVE  Ledger!Unchanged(a) \/ Ledger!FirstAsserted(a)
    BY <1>8, CommitKnows DEF Ledger!Unchanged, Ledger!FirstAsserted, Ledger!Projections
  <1>9. ASSUME NEW s \in Sessions, Fail(s) PROVE Ledger!Unchanged(a)
    <2>1. FailedRow(s)
      BY <1>9, FailKeepsCore
    <2>2. /\ Committed(a)' <=> Committed(a)
          /\ Committed(a) => anchors'[a] = anchors[a] /\ SameChain(a)
      BY <2>1 DEF FailedRow, Committed
    <2> QED BY <2>2, SameKnown DEF Ledger!Unchanged
  <1>10. CASE \E op, b, base, as, new : Revised(op, b, base, as, new)
    BY <1>10, ReviseIsALedgerStep
  <1>11. CASE \E b \in RevIds : Record(b, "desk")
    BY <1>1, <1>11, RecordKeepsCore
  <1> QED BY <1>2, <1>3, <1>4, <1>5, <1>6, <1>7, <1>8, <1>9, <1>10, <1>11, NextCases

\* Contracts, items and shipments implement the abstract ledger of facts: the
\* initial store knows nothing, and every step of every writer asserts,
\* supplements, corrects or leaves alone what is known about each anchor.
THEOREM ImplementsLedger == Spec => LedgerSpec
  <1>1. Init => Ledger!Init
    BY DEF Init, Ledger!Init, Known, Committed
  <1>2. Core /\ Core' /\ KnownFacts /\ KnownFacts' /\ [Next]_vars => [Ledger!Next]_Known
    BY NextIsALedgerStep
  <1>3. Spec => Ledger!Spec
    BY <1>1, <1>2, CoreInvariant, CoreHasKnownFacts, PTL DEF Spec, Ledger!Spec
  <1> QED BY <1>3 DEF LedgerSpec

=============================================================================
