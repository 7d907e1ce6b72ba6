------------------------- MODULE ApprovedExecution -------------------------
(***************************************************************************)
(* What the agent promises about solver processes, without saying how: a   *)
(* solver reads only a case the user approved, up to the numerical-control *)
(* repairs the approval delegates, and only under the approved contract.   *)
(***************************************************************************)
EXTENDS ExecutionApproval

VARIABLES
    granted,    \* None, or the contract and the files the user approved
    process     \* None, or what the last solver process was started on

vars == <<granted, process>>

Grant == [contract : Contracts, files : Case]

Init ==
    /\ granted = None
    /\ process = None

Approve ==
    /\ granted' \in Grant
    /\ UNCHANGED process

Revoke ==
    /\ granted' = None
    /\ UNCHANGED process

StartProcess ==
    /\ granted # None
    /\ process' \in Grant
    /\ process'.contract = granted.contract
    /\ WithinApproval(granted.files, process'.files)
    /\ UNCHANGED granted

Next == Approve \/ Revoke \/ StartProcess

Spec == Init /\ [][Next]_vars
=============================================================================
