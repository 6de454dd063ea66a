--------------------------- MODULE MC_MatchingSkew ---------------------------
(* ProcurementMatching with one more record: which contracts were committed *)
(* when each subject was, so that a run's verdict can be compared with the   *)
(* verdict of the same run serialized against the imports.                   *)
EXTENDS MC_ProcurementMatching

VARIABLE known  \* known[s]: contracts committed no later than subject s

Committed == {c \in ContractIds : contracts[c] # None}

SkewInit == Init /\ known = [s \in SubjectIds |-> {}]
SkewNext ==
    /\ Next
    /\ known' = [s \in SubjectIds |->
                   IF subjects[s] = None /\ subjects'[s] # None THEN Committed'
                                                                ELSE known[s]]
SkewSpec == SkewInit /\ [][SkewNext]_<<vars, known>>

\* Two contracts nobody can revise, and two invoices.
FixedContracts == {ContractFact(1, 1, 1), ContractFact(2, 1, 2)}
FixedSubjects  == {InvoiceFact(1, 1, 1), InvoiceFact(2, 2, 2)}

\* matching.py: an UNMATCHED subject has "no exact counterparty+amount Contract
\* correspondence", and the write lock "closes the race class" of its reads.  So
\* a subject that came together with, or after, a contract it corresponds to is
\* never declared UNMATCHED.
UnmatchedMeansNoContract ==
    \A m \in cases : m.status = "UNMATCHED" =>
        \A c \in known[m.subject] : ~(/\ contracts[c].party = subjects[m.subject].party
                                      /\ contracts[c].gross = subjects[m.subject].amount)
=============================================================================
