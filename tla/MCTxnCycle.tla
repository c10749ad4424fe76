----------------------------- MODULE MCTxnCycle -----------------------------
(* Two runners and two transactions that each start with the other's last  *)
(* document.                                                               *)
EXTENDS MgoTxn, MgoTarjan, MCTxnCases

CONSTANTS r1, r2
Cycle == CycleCases(r1, r2)
=============================================================================
