----------------------------- MODULE MCContracts -----------------------------
(***************************************************************************)
(* Three machines that share no state, checked side by side: the repairs   *)
(* of controlDict, the evidence of a solver run and the ledger of evidence *)
(* gaps.  In a behaviour one of them moves and the others stay where they  *)
(* started.                                                                *)
(***************************************************************************)
EXTENDS ControlDictRepair, SolverEvidence, EvidenceGaps

VARIABLE machine

allvars == <<machine, rvars, svars, gvars>>

\* Where a machine waits that does not move.
RepairsIdle == CHOOSE c \in Dicts : TRUE

MCInit ==
    /\ machine \in {"repairs", "solver", "gaps"}
    /\ RepairsInit /\ SolverInit /\ GapsInit
    /\ machine # "repairs" => approved = RepairsIdle
    /\ machine # "solver" => disk = NoFiles

MCNext ==
    /\ UNCHANGED machine
    /\ \/ machine = "repairs" /\ RepairsNext /\ UNCHANGED <<svars, gvars>>
       \/ machine = "solver" /\ SolverNext /\ UNCHANGED <<rvars, gvars>>
       \/ machine = "gaps" /\ GapsNext /\ UNCHANGED <<rvars, svars>>

MCSpec == MCInit /\ [][MCNext]_allvars
=============================================================================
