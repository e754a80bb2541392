---------------------------- MODULE MCBatchOrder ----------------------------
(* Batch mode with memory: three reports about one client, one about another. *)
EXTENDS BatchOrder

CONSTANTS r1, r2, r3, r4, m1, m2

MCReport == {r1, r2, r3, r4}
MCMAC == {m1, m2}
MCMacOf == [r \in MCReport |-> IF r = r4 THEN m2 ELSE m1]

(* One report fewer about the first client. *)
MCFewReports == {r1, r2, r4}
MCFewMacOf == [r \in MCFewReports |-> MCMacOf[r]]
=============================================================================
