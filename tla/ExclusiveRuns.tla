--------------------------- MODULE ExclusiveRuns ---------------------------
(***************************************************************************)
(* What the native runner promises about one workspace: native processes   *)
(* run one at a time, and no more of them than the budget allows, however  *)
(* many agent processes open the workspace, one after another or together. *)
(***************************************************************************)
EXTENDS Naturals

CONSTANT Limit

VARIABLES runs, live

Init == runs = 0 /\ live = FALSE

Start ==
    /\ ~live
    /\ runs < Limit
    /\ runs' = runs + 1
    /\ live' = TRUE

End ==
    /\ live
    /\ live' = FALSE
    /\ UNCHANGED runs

Next == Start \/ End

Spec == Init /\ [][Next]_<<runs, live>>
=============================================================================
