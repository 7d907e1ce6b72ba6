----------------------------- MODULE MCWorkflow -----------------------------
(***************************************************************************)
(* Workflow on a case of two or three input files, with two or three plans.*)
(***************************************************************************)
EXTENDS Workflow

\* p1 differs from p0 outside the frozen contract, p2 inside it.
MCContractOf == [p \in {"p0", "p1", "p2"} |-> IF p = "p2" THEN "c2" ELSE "c0"]
=============================================================================
