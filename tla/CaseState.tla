----------------------------- MODULE CaseState -----------------------------
(***************************************************************************)
(* The state one run of the agent works on: CFDState (workflow/state.py),  *)
(* the case directory it owns, and the controller position inside the      *)
(* bounded loops that change them.  The phases (CasePreparation,           *)
(* RuntimeRepair, HumanReview) are modules over these variables; Workflow  *)
(* composes them.                                                          *)
(***************************************************************************)
EXTENDS ExecutionApproval, Sequences

CONSTANTS
    MaxTurns,         \* model turns of a prepare or revision round
    MaxFinalTurns,    \* model turns of its finalization window
    MaxRepairTurns,   \* model turns of one runtime repair
    MaxAttempts,      \* solver executions under one approval
    MaxFeedback,      \* bound: feedback statements of the user
    MaxTampers        \* bound: edits of the case by somebody else

ASSUME BoundsAssumption ==
    /\ MaxTurns \in Nat \ {0}
    /\ MaxFinalTurns \in Nat \ {0}
    /\ MaxRepairTurns \in Nat \ {0}
    /\ MaxAttempts \in Nat \ {0}
    /\ MaxFeedback \in Nat
    /\ MaxTampers \in Nat

VARIABLES
    current_state,            \* CFDState.current_state
    engineering_plan,         \* the plan of the sealed case, or None
    case_seal,                \* the seal, or None
    solve_approved,
    execution_approval,       \* ExecutionApproval, or None
    mesh_manifest,            \* what passing checkMesh evidence was bound to
    simulation,               \* the last solver result, or None
    human_feedback,           \* sequence of feedback records
    active_revision_proposal,
    archived,                 \* pending_revision_archive_path is set
    revision_plan,            \* pending_revision_plan once a revision is decided
    disk,                     \* the case directory
    presolve,                 \* the manifest pre-solve validation last passed on
    pending_plan,             \* _pending_execution_plan of the agent in memory
    pc,                       \* where the controller is
    todo,                     \* members of the committed delta still to run
    turn,                     \* model turns used in the present window
    finish_rejected,          \* the last event is a rejected finish_preview
    raised,                   \* history: an exception ended the last command
    attempt,                  \* solver executions under this approval
    ran,                      \* history: what the last solver was started on
    outputs,                  \* the case directory holds outputs of a solver
    tampers                   \* history: foreign edits so far

decision  == <<engineering_plan, case_seal, solve_approved, execution_approval>>
evidence  == <<mesh_manifest, presolve>>
feedback  == <<human_feedback, active_revision_proposal>>
revision  == <<archived, revision_plan>>
results   == <<simulation, attempt, ran, outputs>>
position  == <<pc, todo, turn, finish_rejected, pending_plan, raised>>

vars == <<current_state, decision, evidence, feedback, revision, results,
          position, disk, tampers>>

(***************************************************************************)
(* Values.                                                                 *)
(***************************************************************************)

\* The states of workflow/states.py a confirmed run passes through.
States == {"ENGINEERING", "SOLVE_READY", "SIMULATION", "RUNTIME_REPAIR",
           "RESULT_REVIEW_REQUIRED", "REVISION_READY", "COMPLETE",
           "ENGINEERING_REVIEW_REQUIRED", "ENGINEERING_BLOCKED", "FAILED"}

FeedbackStatus == {"revision_proposed", "revision_in_progress", "awaiting_rerun",
                   "awaiting_review", "unresolved", "resolved", "proposal_rejected"}

\* Where a statement of the user is taken.
FeedbackGates == {"SOLVE_READY", "RESULT_REVIEW_REQUIRED"}

Feedback == [status : FeedbackStatus, submitted_state : FeedbackGates]

\* A proposal names its feedback and the plan and manifest it was made for.
Proposal == [feedback : 1 .. MaxFeedback,
             plan     : Plans,
             files    : Case,
             intake   : BOOLEAN]

MeshManifest == [blockMeshDict : Contents, polyMesh : Contents]

Outcomes == {"success", "incomplete", "inconclusive", "failed"}

Result == [plan : Plans, files : Case, outcome : Outcomes]

\* What a solver process is started on.
Started == [contract : Contracts, files : Case]

\* The members of one committed delta, in the order the controller runs them.
Members == [writes   : SUBSET Inputs,
            mesh     : BOOLEAN,
            check    : BOOLEAN,
            presolve : BOOLEAN,
            last     : {"finish_preview", "retry_solver", "none"},
            plan     : Plans \cup {None},
            routed   : BOOLEAN]    \* _route_failed_event sees its failures

NoMembers == [writes |-> {}, mesh |-> FALSE, check |-> FALSE, presolve |-> FALSE,
              last |-> "none", plan |-> None, routed |-> FALSE]

ASSUME NoneIsNotARecord ==
    /\ None \notin CaseSeal
    /\ None \notin Approval
    /\ None \notin Case
    /\ None \notin MeshManifest
    /\ None \notin Proposal
    /\ None \notin Result
    /\ None \notin Started

Positions == {"rest", "engine", "turn", "members", "finalize",
              "attempt", "solving", "repair", "repair_members"}

DecisionOK ==
    /\ engineering_plan \in Plans \cup {None}
    /\ case_seal \in CaseSeal \cup {None}
    /\ solve_approved \in BOOLEAN
    /\ execution_approval \in Approval \cup {None}

EvidenceOK ==
    /\ mesh_manifest \in MeshManifest \cup {None}
    /\ presolve \in Case \cup {None}

FeedbackOK ==
    /\ human_feedback \in Seq(Feedback)
    /\ Len(human_feedback) <= MaxFeedback
    /\ active_revision_proposal \in Proposal \cup {None}

RevisionOK ==
    /\ archived \in BOOLEAN
    /\ revision_plan \in Plans \cup {None}

ResultsOK ==
    /\ simulation \in Result \cup {None}
    /\ attempt \in 0 .. MaxAttempts
    /\ ran \in Started \cup {None}
    /\ outputs \in BOOLEAN

PositionOK ==
    /\ pc \in Positions
    /\ todo \in Members
    /\ turn \in Nat
    /\ finish_rejected \in BOOLEAN
    /\ pending_plan \in Plans \cup {None}
    /\ raised \in BOOLEAN

TypeOK ==
    /\ current_state \in States
    /\ DecisionOK
    /\ EvidenceOK
    /\ FeedbackOK
    /\ RevisionOK
    /\ ResultsOK
    /\ PositionOK
    /\ disk \in Case
    /\ tampers \in 0 .. MaxTampers

\* What the positions rely on: attempts are left wherever a solver may start, a
\* running solver was started on a plan, a committed delta has a plan, and a
\* proposal names a feedback record that exists.
PositionHolds ==
    /\ pc = "engine" => attempt = 0
    /\ pc \in {"attempt", "repair", "repair_members"} => attempt < MaxAttempts
    /\ pc = "solving" => ran # None /\ engineering_plan # None
    /\ pc \in {"members", "repair_members"} => todo.plan # None

ProposalHolds ==
    active_revision_proposal # None =>
        active_revision_proposal.feedback \in DOMAIN human_feedback

(***************************************************************************)
(* A run whose intake the user has just confirmed: an empty workspace.     *)
(***************************************************************************)
Init ==
    /\ current_state = "ENGINEERING"
    /\ engineering_plan = None
    /\ case_seal = None
    /\ solve_approved = FALSE
    /\ execution_approval = None
    /\ mesh_manifest = None
    /\ simulation = None
    /\ human_feedback = <<>>
    /\ active_revision_proposal = None
    /\ archived = FALSE
    /\ revision_plan = None
    /\ disk = [f \in Files |-> Absent]
    /\ presolve = None
    /\ pending_plan = None
    /\ pc = "engine"
    /\ todo = NoMembers
    /\ turn = 0
    /\ finish_rejected = FALSE
    /\ raised = FALSE
    /\ attempt = 0
    /\ ran = None
    /\ outputs = FALSE
    /\ tampers = 0

(***************************************************************************)
(* Shared steps.                                                           *)
(***************************************************************************)

\* scope_mesh_digest: the mesh inputs and the native mesh, nothing else.
MeshDigest(d) == [blockMeshDict |-> d["blockMeshDict"], polyMesh |-> d["polyMesh"]]

MeshEvidenceCurrent == mesh_manifest = MeshDigest(disk)

RevisionInProgress == active_revision_proposal # None

\* The controller returns to the human gate st; what the agent held in memory
\* dies with its workflow object.
Stop(st, exception) ==
    /\ current_state' = st
    /\ raised' = exception
    /\ pc' = "rest"
    /\ todo' = NoMembers
    /\ turn' = 0
    /\ finish_rejected' = FALSE
    /\ pending_plan' = None
    /\ presolve' = None

Rest(st)  == Stop(st, FALSE)
Raise(st) == Stop(st, TRUE)

\* The controller moves to another position of the same command.
GoTo(p, n, members) ==
    /\ pc' = p
    /\ turn' = n
    /\ todo' = members
    /\ raised' = FALSE
    /\ UNCHANGED pending_plan

\* A turn nobody counts: the slip that lets a command run for ever.
TurnNotCounted == turn

\* One more model turn of the present window is used.
TurnSpent == turn + 1

\* A member of the committed delta is done.
Continue(done) ==
    /\ GoTo(pc, turn, done)
    /\ UNCHANGED <<current_state, finish_rejected>>

\* Feedback records change their status only.
WithStatus(i, st) == [human_feedback EXCEPT ![i].status = st]

Promote(open, st) ==
    human_feedback' = [i \in 1 .. Len(human_feedback) |->
        IF human_feedback[i].status \in open
        THEN [human_feedback[i] EXCEPT !.status = st]
        ELSE human_feedback[i]]

\* _invalidate_mesh_dependencies on a case whose files are d: evidence that no
\* longer describes the mesh goes, and the seal and the approval with it.
InvalidateMesh(d) ==
    IF mesh_manifest # None /\ mesh_manifest # MeshDigest(d)
    THEN /\ mesh_manifest' = None
         /\ case_seal' = None
         /\ solve_approved' = FALSE
         /\ execution_approval' = None
    ELSE UNCHANGED <<mesh_manifest, case_seal, solve_approved, execution_approval>>

\* Text deltas a model can propose: new contents for some authored files.
Deltas == UNION {[S -> 1 .. MaxContent] : S \in (SUBSET Inputs) \ {{}}}

Apply(d, delta) == [f \in Files |-> IF f \in DOMAIN delta THEN delta[f] ELSE d[f]]

\* The member of the committed delta that runs next.
NextMember ==
    CASE todo.writes # {} -> "write"
      [] todo.writes = {} /\ todo.mesh -> "mesh"
      [] todo.writes = {} /\ ~todo.mesh /\ todo.check -> "check"
      [] todo.writes = {} /\ ~todo.mesh /\ ~todo.check /\ todo.presolve -> "presolve"
      [] OTHER -> todo.last
=============================================================================
