--------------------------- MODULE RuntimeRepair ---------------------------
(***************************************************************************)
(* Execution of an approved case: the bounded loop of RuntimeOrchestrator  *)
(* and, between two attempts, CFDEngineeringAgent.repair_runtime, which    *)
(* may change the approved case only as far as its ExecutionApproval goes. *)
(***************************************************************************)
EXTENDS CaseState

(***************************************************************************)
(* Entry and attempts.                                                     *)
(***************************************************************************)
\* What makes entry fail outright; the approval object and the flag are
\* checked apart, "a boolean is not authority".
EntryIntact ==
    /\ solve_approved
    /\ engineering_plan # None
    /\ SealHolds(case_seal, engineering_plan, disk)
    /\ execution_approval # None

\* The slip of comparing the plan and not the files.
ApprovalCoversPlan(p, files) ==
    /\ execution_approval # None
    /\ PlanApproved(execution_approval, p)

ApprovalCovers(p, files) ==
    /\ execution_approval # None
    /\ PlanApproved(execution_approval, p)
    /\ FilesApproved(execution_approval, files)

RuntimeEntry ==
    /\ pc = "engine"
    /\ current_state = "SIMULATION"
    /\ IF ~EntryIntact THEN Rest("FAILED")
       ELSE \/ /\ ApprovalCovers(engineering_plan, case_seal.files)
               /\ GoTo("attempt", 0, NoMembers)
               /\ UNCHANGED <<current_state, finish_rejected, presolve>>
            \/ Rest("ENGINEERING_REVIEW_REQUIRED")   \* no bounded contract compiles
    /\ UNCHANGED <<decision, mesh_manifest, feedback, revision, results, disk, tampers>>

\* Seal and approval are read again right before the process is created.
StartSolver ==
    /\ pc = "attempt"
    /\ IF ~SealHolds(case_seal, engineering_plan, disk)
       THEN Rest("FAILED") /\ UNCHANGED <<ran, attempt, outputs>>
       ELSE \/ /\ ApprovalCovers(engineering_plan, case_seal.files)
               /\ ran' = [contract |-> ContractOf[engineering_plan], files |-> disk]
               /\ attempt' = attempt + 1
               /\ outputs' = TRUE
               /\ GoTo("solving", 0, NoMembers)
               /\ UNCHANGED <<current_state, finish_rejected, presolve>>
            \/ Rest("ENGINEERING_BLOCKED") /\ UNCHANGED <<ran, attempt, outputs>>
    /\ UNCHANGED <<decision, mesh_manifest, feedback, revision, simulation, disk, tampers>>

(***************************************************************************)
(* The solver returns.                                                     *)
(***************************************************************************)
Captured(outcome) ==
    simulation' = [plan |-> engineering_plan, files |-> ran.files, outcome |-> outcome]

\* The slip of promoting every feedback that is not resolved.
Unresolved == FeedbackStatus \ {"resolved"}

\* mark_feedback_result_ready looks for feedback of a sealed revision only.
SealedRevisions == {"awaiting_rerun"}

MarkAwaitingReview == Promote(SealedRevisions, "awaiting_review")

\* Post-processing cannot undo a success; the engine then marks the feedback.
SolverSucceeds ==
    /\ pc = "solving"
    /\ Captured("success")
    /\ MarkAwaitingReview
    /\ Rest("RESULT_REVIEW_REQUIRED")
    /\ UNCHANGED <<decision, mesh_manifest, active_revision_proposal, revision,
                   attempt, ran, outputs, disk, tampers>>

\* A clean exit without completion evidence, or a tool failure that says
\* nothing about the case: no repair, and the approval flag is withdrawn.
SolverUndecided ==
    /\ pc = "solving"
    /\ \/ Captured("incomplete") /\ Rest("RESULT_REVIEW_REQUIRED")
       \/ Captured("inconclusive") /\ Rest("ENGINEERING_BLOCKED")
    /\ solve_approved' = FALSE
    /\ UNCHANGED <<engineering_plan, case_seal, execution_approval, mesh_manifest,
                   feedback, revision, attempt, ran, outputs, disk, tampers>>

\* The slip of counting the attempts one short.
OneMoreAttempt == attempt <= MaxAttempts

AttemptsLeft == attempt < MaxAttempts

\* A case failure goes to repair while attempts are left and the case is
\* still the sealed one.
SolverFails ==
    /\ pc = "solving"
    /\ Captured("failed")
    /\ IF ~AttemptsLeft
       THEN Rest("ENGINEERING_BLOCKED") /\ UNCHANGED solve_approved
       ELSE IF ~SealHolds(case_seal, engineering_plan, disk)
       THEN Rest("ENGINEERING_BLOCKED") /\ solve_approved' = FALSE
       ELSE /\ current_state' = "RUNTIME_REPAIR"
            /\ GoTo("repair", 1, NoMembers)
            /\ UNCHANGED <<solve_approved, finish_rejected, presolve>>
    /\ UNCHANGED <<engineering_plan, case_seal, execution_approval, mesh_manifest,
                   feedback, revision, attempt, ran, outputs, disk, tampers>>

(***************************************************************************)
(* Repair turns.                                                           *)
(***************************************************************************)
AtRepair == pc = "repair" /\ turn <= MaxRepairTurns

\* _runtime_repair_outcome of every decision but RETRY_SOLVER.
Give(st) ==
    /\ st \in {"ENGINEERING_BLOCKED", "ENGINEERING_REVIEW_REQUIRED"}
    /\ Rest(st)
    /\ solve_approved' = FALSE
    /\ UNCHANGED <<engineering_plan, case_seal, execution_approval, mesh_manifest>>

NextRepairTurn ==
    /\ GoTo("repair", TurnSpent, NoMembers)
    /\ UNCHANGED <<current_state, finish_rejected>>

RepairWasted ==
    /\ AtRepair
    /\ NextRepairTurn
    /\ UNCHANGED <<decision, evidence, feedback, revision, results, disk, tampers>>

\* The model call raises: no handler between here and the workflow engine.
RepairRaises ==
    /\ AtRepair
    /\ \E st \in {"ENGINEERING_BLOCKED", "FAILED"} : Raise(st)
    /\ UNCHANGED <<decision, mesh_manifest, feedback, revision, results, disk, tampers>>

RepairEnds ==
    /\ pc = "repair"
    /\ \/ turn <= MaxRepairTurns /\ Give("ENGINEERING_REVIEW_REQUIRED")
       \/ Give("ENGINEERING_BLOCKED")
    /\ UNCHANGED <<feedback, revision, results, disk, tampers>>

\* execute_runtime_repair_plan up to the commit.  A case repair keeps the
\* approved plan; a plan repair may bring a new one and no file at all, and
\* always ends in a retry.  Where the approval is gone, nothing is checked.
DeltaChecked(p, delta) ==
    IF execution_approval = None
    THEN UNCHANGED execution_approval
    ELSE /\ PlanApproved(execution_approval, p)
         /\ DeltaAuthorized(execution_approval, disk, delta)
         /\ execution_approval' = Authorize(execution_approval, disk, delta)

RepairDelta ==
    /\ AtRepair
    /\ \E p \in Plans, delta \in Deltas \cup {<<>>},
          mesh \in BOOLEAN, presolved \in BOOLEAN, retry \in BOOLEAN :
        /\ (p # engineering_plan \/ delta = <<>>) => retry
        /\ DeltaChecked(p, delta)
        /\ disk' = Apply(disk, delta)
        /\ GoTo("repair_members", turn,
                [writes   |-> DOMAIN delta,
                 mesh     |-> mesh,
                 check    |-> FALSE,
                 presolve |-> presolved,
                 last     |-> IF retry THEN "retry_solver" ELSE "none",
                 plan     |-> p,
                 routed   |-> FALSE])
    /\ UNCHANGED <<current_state, engineering_plan, case_seal, solve_approved, evidence,
                   feedback, revision, results, finish_rejected, tampers>>

\* The same plan after check_repair_delta accepted it, refused by the action
\* budget or the tool chain: the approval remembers a delta nobody applied.
RepairDeltaUnaffordable ==
    /\ AtRepair
    /\ \E p \in Plans, delta \in Deltas : DeltaChecked(p, delta)
    /\ Rest("ENGINEERING_BLOCKED")
    /\ solve_approved' = FALSE
    /\ UNCHANGED <<engineering_plan, case_seal, mesh_manifest, feedback, revision,
                   results, disk, tampers>>

(***************************************************************************)
(* Members of a repair.                                                    *)
(***************************************************************************)
AtRepairMember(m) == pc = "repair_members" /\ NextMember = m

\* The write policy knows only the numerical dictionaries; anything else ends
\* in user review, after the transaction has written it.  Without an approval
\* the write fails, and the model gets another turn.
RepairWrite ==
    /\ AtRepairMember("write")
    /\ \E f \in todo.writes :
        IF execution_approval = None
        THEN NextRepairTurn /\ UNCHANGED <<decision, evidence>>
        ELSE IF PathKind(f) = "numerical_dictionary"
        THEN /\ Continue([todo EXCEPT !.writes = @ \ {f}])
             /\ presolve' = None
             /\ case_seal' = None
             /\ IF mesh_manifest # None /\ mesh_manifest # MeshDigest(disk)
                THEN /\ mesh_manifest' = None
                     /\ solve_approved' = FALSE
                     /\ execution_approval' = None
                ELSE UNCHANGED <<mesh_manifest, solve_approved, execution_approval>>
             /\ UNCHANGED engineering_plan
        ELSE Give("ENGINEERING_REVIEW_REQUIRED")
    /\ UNCHANGED <<feedback, revision, results, disk, tampers>>

\* Native mesh writers are refused before they run.
RepairMesh ==
    /\ AtRepairMember("mesh")
    /\ Give("ENGINEERING_REVIEW_REQUIRED")
    /\ UNCHANGED <<feedback, revision, results, disk, tampers>>

RepairPresolve ==
    /\ AtRepairMember("presolve")
    /\ \/ presolve' = disk /\ Continue([todo EXCEPT !.presolve = FALSE])
       \/ NextRepairTurn /\ UNCHANGED presolve
    /\ UNCHANGED <<decision, mesh_manifest, feedback, revision, results, disk, tampers>>

\* _dispatch_retry_solver: the repaired case is sealed anew and solved again,
\* under the old approval.
RetryAllowed(p) ==
    /\ MeshEvidenceCurrent
    /\ execution_approval # None => ApprovalCovers(p, disk)

RetrySolver ==
    /\ AtRepairMember("retry_solver")
    /\ \/ /\ RetryAllowed(todo.plan)
          /\ engineering_plan' = todo.plan
          /\ case_seal' = Seal(todo.plan, disk)
          /\ current_state' = "SIMULATION"
          /\ GoTo("attempt", 0, NoMembers)
          /\ presolve' = disk
          /\ UNCHANGED <<solve_approved, execution_approval, finish_rejected>>
       \/ /\ NextRepairTurn
          /\ UNCHANGED <<decision, presolve>>
    /\ UNCHANGED <<mesh_manifest, feedback, revision, results, disk, tampers>>

RepairWithoutRetry ==
    /\ AtRepairMember("none")
    /\ NextRepairTurn
    /\ UNCHANGED <<decision, evidence, feedback, revision, results, disk, tampers>>

RuntimeStep ==
    \/ RuntimeEntry
    \/ StartSolver
    \/ SolverSucceeds
    \/ SolverUndecided
    \/ SolverFails
    \/ RepairWasted
    \/ RepairRaises
    \/ RepairEnds
    \/ RepairDelta
    \/ RepairDeltaUnaffordable
    \/ RepairWrite
    \/ RepairMesh
    \/ RepairPresolve
    \/ RetrySolver
    \/ RepairWithoutRetry
=============================================================================
