----------------------- MODULE MC_ProcurementMatching -----------------------
(* Small instances of ProcurementMatching.  One supplier; amounts 1 and 2;  *)
(* date 0 is a missing date.                                                *)
EXTENDS ProcurementMatching

ContractFact(gross, date, no) ==
    [party |-> "p", gross |-> gross, date |-> date, no |-> no, terms |-> 1]
InvoiceFact(amount, date, key) ==
    [kind |-> "INVOICE", party |-> "p", amount |-> amount, date |-> date,
     key |-> key, content |-> 1]
PaymentFact(amount, date, key) ==
    [kind |-> "PAYMENT", party |-> "p", amount |-> amount, date |-> date,
     key |-> key, content |-> 1]

TwoIds   == 1..2
ThreeIds == 1..3

(* Runs and people interleaving with imports: gross amounts that corrections *)
(* can lower, invoices and payments of the same contract.                    *)
LedgerContracts == {ContractFact(1, 1, 1), ContractFact(2, 1, 1), ContractFact(1, 2, 2)}
LedgerSubjects  == {InvoiceFact(1, 1, 1), InvoiceFact(2, 2, 2), PaymentFact(1, 1, 1)}

(* One run over a cohort of up to three rivals for two contracts, with and   *)
(* without dates and business keys.                                          *)
CohortContracts == {ContractFact(1, 0, 1), ContractFact(1, 0, 2),
                    ContractFact(1, 1, 2), ContractFact(1, 2, 1)}
CohortSubjects  == {InvoiceFact(1, 0, 0), InvoiceFact(1, 0, 1), InvoiceFact(1, 0, 2),
                    InvoiceFact(1, 1, 1), InvoiceFact(1, 2, 1)}
=============================================================================
