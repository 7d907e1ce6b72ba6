-------------------------- MODULE CasePreparation --------------------------
(***************************************************************************)
(* Engineering without a solver: the prepare loop that authors a case and  *)
(* the loop that revises a sealed case on confirmed feedback               *)
(* (engineering/phases/*_controller.py).  Both end at a human gate.  A     *)
(* model turn is one nondeterministic choice; a committed delta runs its   *)
(* members (writes, mesh, checkMesh, pre-solve, finish) one action each,   *)
(* and a failing member hands the next turn to the model.                  *)
(***************************************************************************)
EXTENDS CaseState

(***************************************************************************)
(* Turns.                                                                  *)
(***************************************************************************)
NextTurn(rejected) ==
    /\ GoTo("turn", TurnSpent, NoMembers)
    /\ finish_rejected' = rejected
    /\ UNCHANGED current_state

AtTurn == pc = "turn" /\ turn <= MaxTurns

\* An empty case is handed to the agent; without checkMesh it never starts.
PrepareStart ==
    /\ pc = "engine"
    /\ current_state = "ENGINEERING"
    /\ \/ /\ GoTo("turn", 1, NoMembers)
          /\ UNCHANGED <<current_state, finish_rejected, presolve>>
       \/ Rest("ENGINEERING_BLOCKED")
    /\ UNCHANGED <<decision, mesh_manifest, feedback, revision, results, disk, tampers>>

\* Reasoning, retrieval, a rejected candidate, or a repair refused before its
\* transaction: an event and nothing else.
TurnWasted ==
    /\ AtTurn
    /\ NextTurn(FALSE)
    /\ UNCHANGED <<decision, evidence, feedback, revision, results, disk, tampers>>

\* The model blocks, or a budget or the tool chain refuses its delta.
TurnBlocks ==
    /\ AtTurn
    /\ \E st \in {"ENGINEERING_BLOCKED", "ENGINEERING_REVIEW_REQUIRED"} : Rest(st)
    /\ UNCHANGED <<decision, mesh_manifest, feedback, revision, results, disk, tampers>>

\* The slip of looking at the case only: outputs may be archived all the same.
CaseUnmutated ==
    /\ case_seal # None
    /\ engineering_plan = active_revision_proposal.plan
    /\ disk = active_revision_proposal.files

\* restore_unmutated_revision_ready's own conditions.
Unmutated ==
    /\ ~archived
    /\ case_seal # None
    /\ engineering_plan = active_revision_proposal.plan
    /\ disk = active_revision_proposal.files

\* The slip of leaving the feedback as the confirmation left it.
FeedbackLeft == human_feedback

\* The feedback of the proposal waits for a confirmation again.
ProposedAgain ==
    LET i == active_revision_proposal.feedback
    IN  IF human_feedback[i].status = "revision_in_progress"
        THEN WithStatus(i, "revision_proposed")
        ELSE human_feedback

RestoreRevisionReady ==
    /\ human_feedback' = ProposedAgain
    /\ revision_plan' = None
    /\ UNCHANGED <<active_revision_proposal, archived>>
    /\ Raise("REVISION_READY")

\* The model call raises.  In prepare the workflow engine decides what it was;
\* in a revision the proposal is kept if the case was not touched.
TurnRaises ==
    /\ AtTurn
    /\ \/ /\ ~RevisionInProgress
          /\ \E st \in {"ENGINEERING_BLOCKED", "FAILED"} : Raise(st)
          /\ UNCHANGED <<feedback, revision>>
       \/ /\ RevisionInProgress /\ Unmutated
          /\ RestoreRevisionReady
       \/ /\ RevisionInProgress /\ ~Unmutated
          /\ Raise("ENGINEERING_BLOCKED")
          /\ UNCHANGED <<feedback, revision>>
    /\ UNCHANGED <<decision, mesh_manifest, results, disk, tampers>>

(***************************************************************************)
(* Committing a delta: one transaction, then its members.                  *)
(***************************************************************************)
RunMembers(delta, p, mesh, check, presolved, routed) ==
    /\ disk' = Apply(disk, delta)
    /\ todo' = [writes |-> DOMAIN delta, mesh |-> mesh, check |-> check,
                presolve |-> presolved, last |-> "finish_preview", plan |-> p,
                routed |-> routed]
    /\ pc' = "members"
    /\ raised' = FALSE
    /\ UNCHANGED <<current_state, turn, finish_rejected>>

\* The first complete case: every input file, mesh, checks, finish.
AuthorCase ==
    /\ AtTurn
    /\ ~RevisionInProgress
    /\ pending_plan = None
    /\ \E p \in Plans, delta \in [Inputs -> 1 .. MaxContent] :
        /\ RunMembers(delta, p, TRUE, TRUE, TRUE, TRUE)
        /\ pending_plan' = p
    /\ UNCHANGED <<decision, evidence, feedback, revision, results, tampers>>

\* A revision first settles its plan; the delta comes in a later turn.
DecideRevision ==
    /\ AtTurn
    /\ RevisionInProgress
    /\ revision_plan = None
    /\ revision_plan' \in Plans
    /\ NextTurn(FALSE)
    /\ UNCHANGED <<decision, evidence, feedback, archived, results, disk, tampers>>

\* Repair deltas re-mesh when a mesh input changed, or when asked to.
MeshNeeded(delta, hint) == hint \/ "blockMeshDict" \in DOMAIN delta

RepairCase ==
    /\ AtTurn
    /\ ~RevisionInProgress
    /\ pending_plan # None
    /\ \E p \in Plans, delta \in Deltas \cup {<<>>}, hint \in BOOLEAN, presolved \in BOOLEAN :
        RunMembers(delta, p, MeshNeeded(delta, hint), MeshNeeded(delta, hint), presolved, FALSE)
    /\ UNCHANGED <<decision, evidence, feedback, revision, results, pending_plan, tampers>>

\* begin_confirmed_revision_mutation refuses a case that left its seal.
BaselineHolds ==
    archived \/ case_seal = None \/ SealHolds(case_seal, engineering_plan, disk)

\* The first delta of a revision moves the old outputs to the archive, unless
\* an archive path is already set, and forgets the result they belong to.
ArchiveOutputs ==
    /\ archived' = TRUE
    /\ outputs' = (archived /\ outputs)

\* The slip of resetting the attempts and keeping the result.
KeepResult ==
    /\ attempt' = 0
    /\ UNCHANGED simulation

ForgetResult ==
    /\ simulation' = None
    /\ attempt' = 0

ReviseCase ==
    /\ AtTurn
    /\ RevisionInProgress
    /\ revision_plan # None
    /\ BaselineHolds
    /\ \E delta \in Deltas, hint \in BOOLEAN, presolved \in BOOLEAN :
        RunMembers(delta, revision_plan, MeshNeeded(delta, hint),
                   MeshNeeded(delta, hint), presolved, FALSE)
    /\ ArchiveOutputs
    /\ ForgetResult
    /\ UNCHANGED <<decision, evidence, feedback, revision_plan, ran, pending_plan, tampers>>

\* The baseline check or the transaction raises after the archive path is set:
\* the revision is no longer retryable.  (Archiving itself raises before that,
\* which is TurnRaises.)
ReviseCaseRaises ==
    /\ AtTurn
    /\ RevisionInProgress
    /\ revision_plan # None
    /\ ArchiveOutputs
    /\ IF BaselineHolds
       THEN ForgetResult
       ELSE UNCHANGED <<simulation, attempt>>
    /\ Raise("ENGINEERING_BLOCKED")
    /\ UNCHANGED <<decision, mesh_manifest, feedback, revision_plan, ran, disk, tampers>>

(***************************************************************************)
(* The members.                                                            *)
(***************************************************************************)
AtMember(m) == pc = "members" /\ NextMember = m

\* A failed member of a case plan may be nobody's to repair; every other
\* failure goes back to the model.
MemberFails ==
    \/ NextTurn(FALSE) /\ UNCHANGED presolve
    \/ todo.routed /\ Rest("ENGINEERING_BLOCKED")

\* write_case_file: the transaction already wrote the bytes; what depended on
\* them goes now.  After failed mesh cycles the budget refuses the write, and
\* what the transaction committed stays.
WriteMember ==
    /\ AtMember("write")
    /\ \/ \E f \in todo.writes :
            /\ Continue([todo EXCEPT !.writes = @ \ {f}])
            /\ InvalidateMesh(disk)
            /\ presolve' = None
            /\ UNCHANGED <<engineering_plan>>
       \/ /\ turn > 1
          /\ MemberFails
          /\ UNCHANGED <<decision, mesh_manifest>>
    /\ UNCHANGED <<feedback, revision, results, disk, tampers>>

\* A native mesh writer takes seal and approval away whether or not it
\* succeeds; evidence is bound to the operation history, so it goes as well.
MeshMember ==
    /\ AtMember("mesh")
    /\ mesh_manifest' = None
    /\ case_seal' = None
    /\ solve_approved' = FALSE
    /\ execution_approval' = None
    /\ \/ /\ Continue([todo EXCEPT !.mesh = FALSE])
          /\ disk["blockMeshDict"] # Absent
          /\ disk' = [disk EXCEPT !["polyMesh"] = disk["blockMeshDict"]]
          /\ presolve' = None
       \/ /\ \/ NextTurn(FALSE) /\ presolve' = None
             \/ todo.routed /\ Rest("ENGINEERING_BLOCKED")
          /\ disk' \in {disk, [disk EXCEPT !["polyMesh"] = Absent]}
    /\ UNCHANGED <<engineering_plan, feedback, revision, results, tampers>>

\* checkMesh: passing evidence is bound to the mesh it saw, failing evidence
\* is bound to nothing, and a run that decided nothing changes nothing.
CheckMember ==
    /\ AtMember("check")
    /\ \/ /\ disk["polyMesh"] # Absent
          /\ mesh_manifest' = MeshDigest(disk)
          /\ Continue([todo EXCEPT !.check = FALSE])
          /\ UNCHANGED presolve
       \/ /\ mesh_manifest' \in {mesh_manifest, None}
          /\ MemberFails
    /\ UNCHANGED <<decision, feedback, revision, results, disk, tampers>>

PresolveMember ==
    /\ AtMember("presolve")
    /\ \/ presolve' = disk /\ Continue([todo EXCEPT !.presolve = FALSE])
       \/ MemberFails
    /\ UNCHANGED <<decision, mesh_manifest, feedback, revision, results, disk, tampers>>

(***************************************************************************)
(* finish_preview: the gate to SOLVE_READY.                                *)
(***************************************************************************)
\* The slip of trusting mesh evidence of another mesh.
FinishOnAnyMesh ==
    RevisionInProgress => disk # active_revision_proposal.files

FinishAllowed ==
    /\ MeshEvidenceCurrent
    /\ RevisionInProgress => disk # active_revision_proposal.files

\* The revision is recorded, its proposal closed and its feedback moved on
\* only if the case was still sealed when finish ran.
RecordRevision ==
    IF RevisionInProgress /\ engineering_plan # None /\ case_seal # None
    THEN /\ human_feedback' = WithStatus(active_revision_proposal.feedback, "awaiting_rerun")
         /\ active_revision_proposal' = None
         /\ archived' = FALSE
         /\ revision_plan' = None
    ELSE UNCHANGED <<feedback, revision>>

FinishAccepted(p) ==
    /\ FinishAllowed
    /\ engineering_plan' = p
    /\ case_seal' = Seal(p, disk)
    /\ RecordRevision
    /\ Rest("SOLVE_READY")
    /\ UNCHANGED <<solve_approved, execution_approval, mesh_manifest, results, disk, tampers>>

FinishMember ==
    /\ AtMember("finish_preview")
    /\ \/ FinishAccepted(todo.plan)
       \/ /\ NextTurn(TRUE)
          /\ UNCHANGED <<decision, evidence, feedback, revision, results, disk, tampers>>

(***************************************************************************)
(* The end of the turn budget: a case that is already current gets a       *)
(* dedicated window to finish, everything else is blocked.                 *)
(***************************************************************************)
ActivePlan == IF pending_plan # None THEN pending_plan ELSE engineering_plan

ReadyForFinalization ==
    /\ ~finish_rejected
    /\ ActivePlan # None
    /\ MeshEvidenceCurrent

TurnsExhausted ==
    /\ pc = "turn"
    /\ turn > MaxTurns
    /\ IF ReadyForFinalization
       THEN /\ GoTo("finalize", 1, NoMembers)
            /\ UNCHANGED <<current_state, finish_rejected, presolve>>
       ELSE Rest("ENGINEERING_BLOCKED")
    /\ UNCHANGED <<decision, mesh_manifest, feedback, revision, results, disk, tampers>>

\* In this window a revision is outside the handler that would restore it.
Finalize ==
    /\ pc = "finalize"
    /\ turn <= MaxFinalTurns
    /\ \/ \E p \in Plans : FinishAccepted(p)
       \/ /\ \/ /\ GoTo("finalize", TurnSpent, NoMembers)
                /\ UNCHANGED <<current_state, finish_rejected, presolve>>
             \/ \E st \in {"ENGINEERING_BLOCKED", "ENGINEERING_REVIEW_REQUIRED"} : Rest(st)
             \/ Raise("ENGINEERING_BLOCKED")
             \/ ~RevisionInProgress /\ Raise("FAILED")
          /\ UNCHANGED <<decision, mesh_manifest, feedback, revision, results, disk, tampers>>

FinalTurnsExhausted ==
    /\ pc = "finalize"
    /\ turn > MaxFinalTurns
    /\ Rest("ENGINEERING_BLOCKED")
    /\ UNCHANGED <<decision, mesh_manifest, feedback, revision, results, disk, tampers>>

PreparationStep ==
    \/ PrepareStart
    \/ TurnWasted
    \/ TurnBlocks
    \/ TurnRaises
    \/ AuthorCase
    \/ DecideRevision
    \/ RepairCase
    \/ ReviseCase
    \/ ReviseCaseRaises
    \/ WriteMember
    \/ MeshMember
    \/ CheckMember
    \/ PresolveMember
    \/ FinishMember
    \/ TurnsExhausted
    \/ Finalize
    \/ FinalTurnsExhausted
=============================================================================
