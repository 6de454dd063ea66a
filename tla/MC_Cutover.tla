----------------------------- MODULE MC_Cutover -----------------------------
(* A small instance of Cutover for TLC. The first plan has a ledger, an      *)
(* invoice file, a bank statement with a payment that a person has to        *)
(* decide, and a pack with facts of both stages. The second has a ledger     *)
(* that repeats the first plan's contract twice, once with a disputed sales  *)
(* contract, and has a row without a number, two files whose first invoice   *)
(* has no key, and a pack about the first plan's contract and invoice. An    *)
(* import repeats an invoice and differs on another.                         *)
EXTENDS Cutover, TLC

CONSTANTS plan, later, imp, con, inv, oth, stm, led, odd, odder,
          A, Z, c1, i1, i2, p1, p2, s1, s2, good, bad, k1, k2, k3, k4

Out(r)   == [r EXCEPT !.out = TRUE]
Of(r, s) == [r EXCEPT !.sales = s]

MCFiles ==
    con :> <<Of(Row("CONTRACT", c1, good, A), s1)>>
    @@ inv :> <<Row("INVOICE", i1, good, A), Row("INVOICE", i2, good, Z)>>
    @@ oth :> <<Row("INVOICE", i2, good, Z), Row("INVOICE", i1, bad, A)>>
    @@ stm :> <<Out(Row("PAYMENT", p1, bad, A)), Out(Row("PAYMENT", p2, good, Z)),
                [Row("PAYMENT", None, good, Z) EXCEPT !.dismissed = TRUE]>>
    @@ led :> <<Row("CONTRACT", c1, good, A), Of(Row("CONTRACT", c1, good, A), s2),
                Row("CONTRACT", None, good, Z)>>
    @@ odd :> <<Row("INVOICE", None, good, A)>>
    @@ odder :> <<Row("INVOICE", None, bad, Z)>>
MCProgram ==
    plan :> <<con, inv, stm>> @@ later :> <<led, odd, odder>> @@ imp :> <<oth>>
MCPack ==
    plan :> {PackFact(k1, c1, None), PackFact(k2, c1, i1)}
    @@ later :> {PackFact(k3, c1, None), PackFact(k4, c1, i1)}

Says(key, expected) == [key |-> key, expected |-> expected, outcome |-> "MATCH"]
MCBaselines ==
    {<<Says(<<"contract", c1>>, good), Says(<<"sales", s1>>, None), Says(<<"link", c1, s1>>, None),
       Says(<<"fact", c1, k1>>, None), Says(<<"INVOICE", c1, i1>>, good),
       Says(<<"PAYMENT", c1, p1>>, bad)>>}
=============================================================================
