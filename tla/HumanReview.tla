---------------------------- MODULE HumanReview ----------------------------
(***************************************************************************)
(* What the user does at a gate: feedback on a sealed case or on a result, *)
(* a confirmed or rejected revision, /solve and /accept                    *)
(* (review/agent.py, workflow/state.py, the head of revise_from_feedback). *)
(***************************************************************************)
EXTENDS CaseState

AtGate == pc = "rest"

(***************************************************************************)
(* CFDFeedbackReviewAgent.review.  The statement is durable whatever the   *)
(* assessment says: it fails, asks for an intake revision, asks for a case *)
(* revision, or finds nothing to change.                                   *)
(***************************************************************************)
NewProposal(intake) ==
    [feedback |-> Len(human_feedback) + 1,
     plan     |-> engineering_plan,
     files    |-> case_seal.files,
     intake   |-> intake]

Receive(st, proposal, gate) ==
    /\ human_feedback' = Append(human_feedback,
                                [status |-> st, submitted_state |-> current_state])
    /\ active_revision_proposal' = proposal
    /\ Rest(gate)

GiveFeedback ==
    /\ AtGate
    /\ current_state \in FeedbackGates
    /\ engineering_plan # None
    /\ case_seal # None
    /\ Len(human_feedback) < MaxFeedback
    /\ \/ Receive("unresolved", None, current_state)
       \/ Receive("revision_proposed", NewProposal(TRUE), "ENGINEERING_REVIEW_REQUIRED")
       \/ Receive("revision_proposed", NewProposal(FALSE), "REVISION_READY")
       \/ /\ current_state = "RESULT_REVIEW_REQUIRED"
          /\ Receive("awaiting_review", None, current_state)
    /\ UNCHANGED <<decision, mesh_manifest, revision, results, disk, tampers>>

(***************************************************************************)
(* /confirm of a proposal: revise_from_feedback up to its first turn.      *)
(***************************************************************************)
BaselineMatches ==
    /\ ~active_revision_proposal.intake
    /\ engineering_plan = active_revision_proposal.plan
    /\ case_seal # None
    /\ case_seal.files = active_revision_proposal.files

\* adopt_seal and verify_seal raise on a case that left its seal: the
\* proposal stays, the gate does not move.
ConfirmRevision ==
    /\ AtGate
    /\ current_state = "REVISION_READY"
    /\ BaselineMatches
    /\ \/ /\ SealHolds(case_seal, engineering_plan, disk)
          /\ human_feedback' = WithStatus(active_revision_proposal.feedback,
                                          "revision_in_progress")
          /\ revision_plan' = None
          /\ solve_approved' = FALSE
          /\ current_state' = "ENGINEERING"
          /\ GoTo("turn", 1, NoMembers)
          /\ UNCHANGED <<finish_rejected, presolve>>
       \/ /\ Rest("ENGINEERING_BLOCKED")    \* no trusted checkMesh
          /\ UNCHANGED <<human_feedback, revision_plan, solve_approved>>
    /\ UNCHANGED <<engineering_plan, case_seal, execution_approval, mesh_manifest,
                   active_revision_proposal, archived, results, disk, tampers>>

RejectRevision ==
    /\ AtGate
    /\ current_state = "REVISION_READY"
    /\ active_revision_proposal # None
    /\ LET i == active_revision_proposal.feedback
       IN  /\ human_feedback' = WithStatus(i, "proposal_rejected")
           /\ Rest(human_feedback[i].submitted_state)
    /\ active_revision_proposal' = None
    /\ UNCHANGED <<decision, mesh_manifest, revision, results, disk, tampers>>

(***************************************************************************)
(* approve_solve: the seal becomes what /solve covers.                     *)
(***************************************************************************)
Solve ==
    /\ AtGate
    /\ current_state = "SOLVE_READY"
    /\ engineering_plan # None
    /\ case_seal # None
    /\ execution_approval' = Issue(engineering_plan, case_seal)
    /\ solve_approved' = TRUE
    /\ current_state' = "SIMULATION"
    /\ GoTo("engine", 0, NoMembers)
    /\ attempt' = 0
    /\ UNCHANGED <<engineering_plan, case_seal, evidence, feedback, revision,
                   simulation, ran, outputs, finish_rejected, disk, tampers>>

\* accept_result: only a verified result, and it settles the open feedback.
Accept ==
    /\ AtGate
    /\ current_state = "RESULT_REVIEW_REQUIRED"
    /\ simulation # None
    /\ simulation.outcome = "success"
    /\ Promote({"awaiting_review", "revision_proposed", "unresolved"}, "resolved")
    /\ active_revision_proposal' = None
    /\ Rest("COMPLETE")
    /\ UNCHANGED <<decision, mesh_manifest, revision, results, disk, tampers>>

ReviewStep ==
    \/ GiveFeedback
    \/ ConfirmRevision
    \/ RejectRevision
    \/ Solve
    \/ Accept
=============================================================================
