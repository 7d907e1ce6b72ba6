------------------------------ MODULE Workflow ------------------------------
(***************************************************************************)
(* The agent as a whole: engineering, execution, repair and review over    *)
(* one CFDState and one case directory, with a user at the gates and       *)
(* somebody who may edit the case directory at any time.  Properties and   *)
(* the refinement of ApprovedExecution are stated here.                    *)
(***************************************************************************)
EXTENDS CasePreparation, RuntimeRepair, HumanReview

\* One file of an existing sealed case is replaced behind the agent's back.
\* In the middle of a repair the case is there, but not its seal.
Tamper ==
    /\ case_seal # None \/ current_state = "RUNTIME_REPAIR"
    /\ tampers < MaxTampers
    /\ tampers' = tampers + 1
    /\ \E f \in Files, c \in Contents :
        /\ disk[f] # c
        /\ disk' = [disk EXCEPT ![f] = c]
    /\ UNCHANGED <<current_state, decision, evidence, feedback, revision, results, position>>

\* Steps of the agent's own process: it never waits for the user in them.
Controller == PreparationStep \/ RuntimeStep

Next == Controller \/ ReviewStep \/ Tamper

Spec == Init /\ [][Next]_vars

\* Model calls and native commands have timeouts, so the process moves on.
FairSpec == Spec /\ WF_vars(Controller)

(***************************************************************************)
(* ApprovedExecution: what a seal, an approval object, its repair hashes   *)
(* and the checks in five places amount to.                                *)
(***************************************************************************)
Granted ==
    IF solve_approved /\ execution_approval # None
    THEN [contract |-> execution_approval.contract, files |-> execution_approval.files]
    ELSE None

Promise == INSTANCE ApprovedExecution WITH granted <- Granted, process <- ran

\* No solver process is ever created on a case the user did not approve, nor
\* on one a repair took beyond what the approval delegates, foreign edits
\* included (runtime/orchestrator.py, contracts/execution.py).
Approved == Promise!Spec

\* What the promise rests on.  A controlDict an approval has authorized is never
\* above the approved one, whatever sequence of candidates was authorized, and
\* the approval is in force wherever a solver can start: a repair that has lost
\* it has lost its mesh evidence too, and cannot retry.
ReducedOnly(a) ==
    \A f \in Files :
        PathKind(f) = "control_dict" /\ a.hashes[f] # None => a.hashes[f] <= a.files[f]

InForce == solve_approved /\ execution_approval # None

Authority ==
    /\ execution_approval # None => ReducedOnly(execution_approval)
    /\ pc \in {"attempt", "solving"} => InForce
    /\ pc \in {"repair", "repair_members"} => InForce \/ mesh_manifest = None

(***************************************************************************)
(* Safety.                                                                 *)
(***************************************************************************)
\* A result under review, or accepted, was computed from exactly the plan and
\* the files that are sealed now: repairs, revisions, failed feedback reviews
\* and rejected proposals never leave the result of another case on the table.
ResultIsSealed ==
    /\ simulation # None
    /\ case_seal # None
    /\ engineering_plan = case_seal.plan
    /\ simulation.plan = case_seal.plan
    /\ simulation.files = case_seal.files

ReviewedResultIsSealed ==
    current_state \in {"RESULT_REVIEW_REQUIRED", "COMPLETE"} => ResultIsSealed

\* What ReviewedResultIsSealed rests on: engineering starts without a proposal; a
\* running solver was started on the sealed case; a revision whose members run has archived the outputs; and as
\* long as a proposal made for a result can still be rejected, or come back to
\* its confirmation, that result is the one of the sealed case.
ProposalOfResult ==
    /\ RevisionInProgress
    /\ human_feedback[active_revision_proposal.feedback].submitted_state =
           "RESULT_REVIEW_REQUIRED"

ResultHolds ==
    /\ ReviewedResultIsSealed
    /\ current_state \in {"RESULT_REVIEW_REQUIRED", "COMPLETE", "REVISION_READY"} => pc = "rest"
    /\ pc = "engine" /\ current_state = "ENGINEERING" => ~RevisionInProgress
    /\ pc = "solving" => case_seal = Seal(engineering_plan, ran.files)
    /\ pc = "members" /\ RevisionInProgress => archived
    /\ /\ ProposalOfResult
       /\ \/ current_state = "REVISION_READY"
          \/ pc \in {"turn", "members", "finalize"} /\ ~archived
       => ResultIsSealed

\* While a revision works, the result it keeps is still that of the case on
\* disk: outputs are forgotten no later than the first byte of the revision.
NoStaleResult ==
    current_state = "ENGINEERING" /\ simulation # None /\ tampers = 0 =>
        disk = simulation.files

\* A proposal waiting for confirmation always names the case it was made for;
\* a revision that fails before it touched anything comes back to that case.
RevisionReadyBaseline ==
    current_state = "REVISION_READY" =>
        /\ active_revision_proposal # None
        /\ case_seal # None
        /\ case_seal = Seal(active_revision_proposal.plan, active_revision_proposal.files)
        /\ engineering_plan = active_revision_proposal.plan
        /\ human_feedback[active_revision_proposal.feedback].status = "revision_proposed"

\* At a gate where the user decides about a sealed case, the case on disk is
\* the sealed one and its mesh evidence is current, unless somebody else wrote
\* to it.
SealedAtGate ==
    /\ pc = "rest"
    /\ current_state \in {"SOLVE_READY", "RESULT_REVIEW_REQUIRED", "REVISION_READY", "COMPLETE"}
    /\ tampers = 0
    => /\ SealHolds(case_seal, engineering_plan, disk)
       /\ MeshEvidenceCurrent

\* What the three invariants and SettledStays rest on: where the controller may be
\* at a gate; a proposal at work is the one the user confirmed, and until its
\* outputs are archived the seal is still the one it was made for; a seal is one
\* of the plan in force.
Preparing == pc \in {"turn", "members", "finalize"}

RevisionFeedback == human_feedback[active_revision_proposal.feedback]

BaselineSealed ==
    /\ case_seal = Seal(active_revision_proposal.plan, active_revision_proposal.files)
    /\ engineering_plan = active_revision_proposal.plan

SealNamesPlan == case_seal # None => case_seal.plan = engineering_plan

RevisionHolds ==
    /\ RevisionReadyBaseline
    /\ current_state = "ENGINEERING" => Preparing \/ pc = "engine"
    /\ current_state = "SOLVE_READY" => pc = "rest"
    /\ Preparing /\ RevisionInProgress =>
        /\ RevisionFeedback.status = "revision_in_progress"
        /\ ~archived => BaselineSealed

\* As long as nobody else writes, the case is the sealed one from a gate to the
\* first edit of a revision and to the end of a solver, and no result is kept
\* beside a case it is not of.
SealedCase == SealHolds(case_seal, engineering_plan, disk) /\ MeshEvidenceCurrent

SealedPositions ==
    \/ pc = "rest" /\ current_state \in {"SOLVE_READY", "RESULT_REVIEW_REQUIRED",
                                         "REVISION_READY", "COMPLETE"}
    \/ pc = "engine" /\ current_state = "SIMULATION"
    \/ pc \in {"attempt", "solving"}
    \/ Preparing /\ RevisionInProgress /\ ~archived

UndisturbedHolds ==
    /\ SealedPositions => SealedCase
    /\ current_state = "SOLVE_READY" \/ pc = "members" => simulation = None
    /\ (Preparing \/ (pc = "engine" /\ current_state = "ENGINEERING")) /\ ~RevisionInProgress =>
           simulation = None
    /\ (Preparing \/ current_state = "REVISION_READY") /\ RevisionInProgress =>
           /\ RevisionFeedback.submitted_state = "SOLVE_READY" => simulation = None
           /\ simulation # None =>
                  /\ disk = active_revision_proposal.files
                  /\ disk = simulation.files

\* Feedback the user settled, or a proposal the user rejected, is never
\* reopened.
SettledStays ==
    [][\A i \in DOMAIN human_feedback :
        human_feedback[i].status \in {"resolved", "proposal_rejected"} =>
            /\ i \in DOMAIN human_feedback'
            /\ human_feedback'[i] = human_feedback[i]]_vars

(***************************************************************************)
(* Liveness: every command of the user comes back to a gate.               *)
(***************************************************************************)
RunSettles == pc # "rest" ~> pc = "rest"
=============================================================================
