----------------------------- MODULE MCCaseGraph -----------------------------
(* A ledger with two activities: one executes a file, the other, known by an *)
(* evidence reference too, opens a connection.                               *)
EXTENDS CaseGraph

CONSTANTS exec, conn, proof, linked, guess, query, clue

MCActivityOf == [e \in {proof} |-> conn]
MCCapability == [a \in {exec, conn} |-> IF a = exec THEN {"execution"} ELSE {"network"}]
=============================================================================
