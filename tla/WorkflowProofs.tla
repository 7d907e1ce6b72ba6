--------------------------- MODULE WorkflowProofs ---------------------------
(***************************************************************************)
(* What holds of Workflow for every case, every set of plans and every     *)
(* bound: the typing of its state, the authority an approval really has,   *)
(* the refinement of ApprovedExecution, and what the user reviews.         *)
(***************************************************************************)
EXTENDS Workflow, SequenceTheorems, TLAPS

(***************************************************************************)
(* The operators the actions are built from.                               *)
(***************************************************************************)
\* A committed delta leaves a case (tools/workspace.py, commit_text_transaction).
LEMMA ApplyIsCase ==
    ASSUME NEW d \in Case, NEW delta \in Deltas \cup {<<>>}
    PROVE  Apply(d, delta) \in Case /\ DOMAIN delta \in SUBSET Inputs
<1>1. CASE delta = <<>>
  <2>1. DOMAIN delta = {}
    BY <1>1
  <2> QED
    BY <2>1 DEF Apply, Case
<1>2. CASE delta \in Deltas
  <2>1. PICK S \in SUBSET Inputs : delta \in [S -> 1 .. MaxContent]
    BY <1>2 DEF Deltas
  <2>2. \A f \in S : delta[f] \in Contents
    BY <2>1, MaxContentAssumption DEF Contents
  <2> QED
    BY <2>1, <2>2 DEF Apply, Case
<1> QED
  BY <1>1, <1>2

\* The seal of a plan over a case is a seal.
LEMMA SealIsSeal ==
    ASSUME NEW p \in Plans, NEW d \in Case
    PROVE  Seal(p, d) \in CaseSeal
BY DEF Seal, CaseSeal

\* /solve issues an approval.
LEMMA IssueIsApproval ==
    ASSUME NEW p \in Plans, NEW s \in CaseSeal
    PROVE  Issue(p, s) \in Approval
BY DEF Issue, CaseSeal, Approval, Contracts, Unset, MaybeContent

\* An authorized delta leaves an approval of the same contract and files.
LEMMA AuthorizeIsApproval ==
    ASSUME NEW a \in Approval, NEW d \in Case, NEW delta \in Deltas \cup {<<>>}
    PROVE  /\ Authorize(a, d, delta) \in Approval
           /\ Authorize(a, d, delta).contract = a.contract
           /\ Authorize(a, d, delta).files = a.files
<1>1. \A f \in DOMAIN delta : delta[f] \in Contents
  <2>1. CASE delta = <<>>
    BY <2>1
  <2>2. CASE delta \in Deltas
    BY <2>2, MaxContentAssumption DEF Deltas, Contents
  <2> QED
    BY <2>1, <2>2
<1>2. \A f \in Files : d[f] \in MaybeContent
  BY DEF Case, MaybeContent
<1> QED
  BY <1>1, <1>2 DEF Authorize, Approval, MaybeContent

\* What checkMesh evidence is bound to.
LEMMA DigestIsManifest ==
    ASSUME NEW d \in Case
    PROVE  MeshDigest(d) \in MeshManifest
BY InputsAssumption DEF MeshDigest, MeshManifest, Case, Files

\* A function on an initial segment of the numbers is a sequence.
LEMMA SegmentIsSeq ==
    ASSUME NEW S, NEW n \in Nat, NEW s \in [1 .. n -> S]
    PROVE  s \in Seq(S) /\ Len(s) = n /\ DOMAIN s = 1 .. n
OBVIOUS

\* A status change keeps the feedback records and their number.
LEMMA StatusKeepsFeedback ==
    ASSUME NEW i, NEW st \in FeedbackStatus, human_feedback \in Seq(Feedback)
    PROVE  /\ WithStatus(i, st) \in Seq(Feedback)
           /\ DOMAIN WithStatus(i, st) = DOMAIN human_feedback
           /\ Len(WithStatus(i, st)) = Len(human_feedback)
<1> DEFINE n == Len(human_feedback)
<1>1. /\ n \in Nat
      /\ DOMAIN human_feedback = 1 .. n
      /\ human_feedback \in [1 .. n -> Feedback]
  BY LenProperties
<1>2. \A j \in 1 .. n : [human_feedback[j] EXCEPT !.status = st] \in Feedback
  BY <1>1 DEF Feedback
<1>3. WithStatus(i, st) \in [1 .. n -> Feedback]
  BY <1>1, <1>2 DEF WithStatus
<1> QED
  BY <1>1, <1>3, SegmentIsSeq

LEMMA PromoteKeepsFeedback ==
    ASSUME NEW open, NEW st \in FeedbackStatus, human_feedback \in Seq(Feedback),
           Promote(open, st)
    PROVE  /\ human_feedback' \in Seq(Feedback)
           /\ DOMAIN human_feedback' = DOMAIN human_feedback
           /\ Len(human_feedback') = Len(human_feedback)
<1> DEFINE n == Len(human_feedback)
<1>1. /\ n \in Nat
      /\ DOMAIN human_feedback = 1 .. n
      /\ human_feedback \in [1 .. n -> Feedback]
  BY LenProperties
<1>2. \A j \in 1 .. n : [human_feedback[j] EXCEPT !.status = st] \in Feedback
  BY <1>1 DEF Feedback
<1>3. human_feedback' \in [1 .. n -> Feedback]
  BY <1>1, <1>2 DEF Promote
<1> QED
  BY <1>1, <1>3, SegmentIsSeq

(***************************************************************************)
(* Typing.  TypeOK is not inductive: a solver may start only where an      *)
(* attempt is left, and a seal can be taken only of a plan that is there.  *)
(***************************************************************************)
Inv == TypeOK /\ PositionHolds /\ ProposalHolds

LEMMA MembersType ==
    /\ NoMembers \in Members
    /\ \A m \in Members, f \in Inputs : [m EXCEPT !.writes = @ \ {f}] \in Members
    /\ \A m \in Members : /\ [m EXCEPT !.mesh = FALSE] \in Members
                          /\ [m EXCEPT !.check = FALSE] \in Members
                          /\ [m EXCEPT !.presolve = FALSE] \in Members
BY DEF NoMembers, Members

\* What a step leaves alone keeps its type.
LEMMA Frame ==
    ASSUME TypeOK, ProposalHolds
    PROVE  /\ UNCHANGED current_state => current_state' \in States
           /\ UNCHANGED decision => DecisionOK'
           /\ UNCHANGED evidence => EvidenceOK'
           /\ UNCHANGED feedback => FeedbackOK' /\ ProposalHolds'
           /\ UNCHANGED revision => RevisionOK'
           /\ UNCHANGED results => ResultsOK'
           /\ UNCHANGED position => PositionOK'
           /\ UNCHANGED disk => disk' \in Case
           /\ UNCHANGED tampers => tampers' \in 0 .. MaxTampers
<1> USE DEF TypeOK
<1>1. UNCHANGED decision => DecisionOK'
  BY DEF decision, DecisionOK
<1>2. UNCHANGED evidence => EvidenceOK'
  BY DEF evidence, EvidenceOK
<1>3. UNCHANGED feedback => FeedbackOK' /\ ProposalHolds'
  BY DEF feedback, FeedbackOK, ProposalHolds
<1>4. UNCHANGED revision => RevisionOK'
  BY DEF revision, RevisionOK
<1>5. UNCHANGED results => ResultsOK'
  BY DEF results, ResultsOK
<1>6. UNCHANGED position => PositionOK'
  BY DEF position, PositionOK
<1> QED
  BY <1>1, <1>2, <1>3, <1>4, <1>5, <1>6

\* At a gate nothing is running.
LEMMA Stopped ==
    ASSUME NEW st \in States, NEW e \in BOOLEAN, Stop(st, e),
           mesh_manifest' \in MeshManifest \cup {None}
    PROVE  /\ current_state' \in States
           /\ PositionOK'
           /\ PositionHolds'
           /\ EvidenceOK'
           /\ pc' = "rest"
BY MembersType DEF Stop, PositionOK, Positions, PositionHolds, EvidenceOK

LEMMA Moved ==
    ASSUME PositionOK, NEW p \in Positions, NEW n \in Nat, NEW m \in Members,
           GoTo(p, n, m), finish_rejected' \in BOOLEAN
    PROVE  PositionOK' /\ pc' = p /\ todo' = m
BY DEF GoTo, PositionOK

LEMMA TurnSpentType == TypeOK => TurnSpent \in Nat
BY DEF TurnSpent, TypeOK, PositionOK

LEMMA NextTurnType ==
    ASSUME TypeOK, NEW r \in BOOLEAN, NextTurn(r)
    PROVE  /\ current_state' \in States
           /\ PositionOK'
           /\ PositionHolds'
<1>1. PositionOK' /\ pc' = "turn"
  BY Moved, MembersType, TurnSpentType DEF NextTurn, TypeOK, Positions
<1> QED
  BY <1>1 DEF NextTurn, TypeOK, PositionHolds

LEMMA NextRepairTurnType ==
    ASSUME TypeOK, NextRepairTurn, attempt < MaxAttempts, UNCHANGED attempt
    PROVE  /\ current_state' \in States
           /\ PositionOK'
           /\ PositionHolds'
<1>1. PositionOK' /\ pc' = "repair"
  <2>1. finish_rejected' \in BOOLEAN
    BY DEF NextRepairTurn, TypeOK, PositionOK
  <2> QED
    BY <2>1, Moved, MembersType, TurnSpentType DEF NextRepairTurn, TypeOK, Positions
<1> QED
  BY <1>1 DEF NextRepairTurn, TypeOK, PositionHolds

\* A member that is done leaves the controller among the members.
LEMMA ContinueType ==
    ASSUME TypeOK, PositionHolds, pc \in {"members", "repair_members"},
           NEW m \in Members, m.plan = todo.plan, Continue(m), UNCHANGED attempt
    PROVE  /\ current_state' \in States
           /\ PositionOK'
           /\ PositionHolds'
<1>1. PositionOK' /\ pc' = pc /\ todo' = m
  BY Moved DEF Continue, TypeOK, PositionOK
<1> QED
  BY <1>1 DEF Continue, TypeOK, PositionHolds

\* The members of the committed delta, without those that are done.
LEMMA DoneType ==
    ASSUME TypeOK
    PROVE  /\ \A f \in todo.writes :
                /\ [todo EXCEPT !.writes = @ \ {f}] \in Members
                /\ [todo EXCEPT !.writes = @ \ {f}].plan = todo.plan
           /\ [todo EXCEPT !.mesh = FALSE] \in Members
           /\ [todo EXCEPT !.mesh = FALSE].plan = todo.plan
           /\ [todo EXCEPT !.check = FALSE] \in Members
           /\ [todo EXCEPT !.check = FALSE].plan = todo.plan
           /\ [todo EXCEPT !.presolve = FALSE] \in Members
           /\ [todo EXCEPT !.presolve = FALSE].plan = todo.plan
BY DEF TypeOK, PositionOK, Members

LEMMA InvalidateMeshType ==
    ASSUME TypeOK, NEW d, InvalidateMesh(d), UNCHANGED engineering_plan
    PROVE  DecisionOK' /\ mesh_manifest' \in MeshManifest \cup {None}
BY DEF InvalidateMesh, TypeOK, DecisionOK, EvidenceOK

LEMMA RunMembersType ==
    ASSUME TypeOK, NEW delta \in Deltas \cup {<<>>}, NEW p \in Plans,
           NEW mesh \in BOOLEAN, NEW check \in BOOLEAN,
           NEW presolved \in BOOLEAN, NEW routed \in BOOLEAN,
           RunMembers(delta, p, mesh, check, presolved, routed),
           pending_plan' \in Plans \cup {None}
    PROVE  /\ current_state' \in States
           /\ disk' \in Case
           /\ PositionOK'
           /\ PositionHolds'
<1>1. disk' \in Case /\ DOMAIN delta \in SUBSET Inputs
  BY ApplyIsCase DEF RunMembers, TypeOK
<1>2. todo' \in Members /\ todo'.plan = p
  BY <1>1 DEF RunMembers, Members
<1>3. PositionOK'
  BY <1>2 DEF RunMembers, TypeOK, PositionOK, Positions
<1>4. PositionHolds'
  BY <1>2, PlansAssumption DEF RunMembers, PositionHolds
<1> QED
  BY <1>1, <1>3, <1>4 DEF RunMembers, TypeOK

(***************************************************************************)
(* Preparation.                                                            *)
(***************************************************************************)
LEMMA PrepareStartInv == Inv /\ PrepareStart => Inv'
<1> SUFFICES ASSUME Inv, PrepareStart PROVE Inv'
  OBVIOUS
<1> USE DEF Inv
<1>1. mesh_manifest' \in MeshManifest \cup {None}
  BY DEF PrepareStart, TypeOK, EvidenceOK
<1>2. CASE GoTo("turn", 1, NoMembers) /\ UNCHANGED <<current_state, finish_rejected, presolve>>
  <2>1. PositionOK' /\ pc' = "turn"
    BY <1>2, Moved, MembersType DEF TypeOK, PositionOK, Positions
  <2> QED
    BY <1>2, <2>1, Frame DEF PrepareStart, TypeOK, PositionHolds, evidence
<1>3. CASE Rest("ENGINEERING_BLOCKED")
  BY <1>1, <1>3, Stopped, Frame DEF PrepareStart, Rest, TypeOK, States
<1> QED
  BY <1>2, <1>3 DEF PrepareStart

LEMMA TurnWastedInv == Inv /\ TurnWasted => Inv'
BY NextTurnType, Frame DEF Inv, TurnWasted, TypeOK

LEMMA TurnBlocksInv == Inv /\ TurnBlocks => Inv'
<1> SUFFICES ASSUME Inv, TurnBlocks PROVE Inv'
  OBVIOUS
<1> USE DEF Inv
<1>1. PICK st \in {"ENGINEERING_BLOCKED", "ENGINEERING_REVIEW_REQUIRED"} : Rest(st)
  BY DEF TurnBlocks
<1>2. mesh_manifest' \in MeshManifest \cup {None}
  BY DEF TurnBlocks, TypeOK, EvidenceOK
<1> QED
  BY <1>1, <1>2, Stopped, Frame DEF TurnBlocks, Rest, TypeOK, States

LEMMA TurnRaisesInv == Inv /\ TurnRaises => Inv'
<1> SUFFICES ASSUME Inv, TurnRaises PROVE Inv'
  OBVIOUS
<1> USE DEF Inv
<1>1. mesh_manifest' \in MeshManifest \cup {None}
  BY DEF TurnRaises, TypeOK, EvidenceOK
<1>2. /\ DecisionOK'
      /\ ResultsOK'
      /\ disk' \in Case
      /\ tampers' \in 0 .. MaxTampers
  BY Frame DEF TurnRaises
<1>3. CASE \E st \in {"ENGINEERING_BLOCKED", "FAILED"} :
               Raise(st) /\ UNCHANGED <<feedback, revision>>
  BY <1>1, <1>2, <1>3, Stopped, Frame DEF Raise, TypeOK, States
<1>4. CASE RestoreRevisionReady
  <2>1. FeedbackOK' /\ ProposalHolds'
    BY <1>4, StatusKeepsFeedback
       DEF RestoreRevisionReady, ProposedAgain, FeedbackStatus, TypeOK, FeedbackOK, ProposalHolds
  <2>2. RevisionOK'
    BY <1>4 DEF RestoreRevisionReady, TypeOK, RevisionOK
  <2> QED
    BY <1>1, <1>2, <1>4, <2>1, <2>2, Stopped DEF RestoreRevisionReady, Raise, TypeOK, States
<1> QED
  BY <1>3, <1>4 DEF TurnRaises

LEMMA AuthorCaseInv == Inv /\ AuthorCase => Inv'
<1> SUFFICES ASSUME Inv, AuthorCase PROVE Inv'
  OBVIOUS
<1> USE DEF Inv
<1>1. PICK p \in Plans, delta \in [Inputs -> 1 .. MaxContent] :
        RunMembers(delta, p, TRUE, TRUE, TRUE, TRUE) /\ pending_plan' = p
  BY DEF AuthorCase
<1>2. delta \in Deltas
  <2>1. Inputs \in (SUBSET Inputs) \ {{}}
    BY InputsAssumption
  <2>2. delta \in [Inputs -> 1 .. MaxContent]
    OBVIOUS
  <2> QED
    BY ONLY <2>1, <2>2 DEF Deltas
<1> QED
  BY <1>1, <1>2, RunMembersType, Frame DEF AuthorCase, TypeOK

LEMMA DecideRevisionInv == Inv /\ DecideRevision => Inv'
<1> SUFFICES ASSUME Inv, DecideRevision PROVE Inv'
  OBVIOUS
<1> USE DEF Inv
<1>1. RevisionOK'
  BY DEF DecideRevision, TypeOK, RevisionOK
<1> QED
  BY <1>1, NextTurnType, Frame DEF DecideRevision, TypeOK

LEMMA RepairCaseInv == Inv /\ RepairCase => Inv'
<1> SUFFICES ASSUME Inv, RepairCase PROVE Inv'
  OBVIOUS
<1> USE DEF Inv
<1>1. PICK p \in Plans, delta \in Deltas \cup {<<>>}, hint \in BOOLEAN, presolved \in BOOLEAN :
        RunMembers(delta, p, MeshNeeded(delta, hint), MeshNeeded(delta, hint), presolved, FALSE)
  BY DEF RepairCase
<1>2. MeshNeeded(delta, hint) \in BOOLEAN
  BY DEF MeshNeeded
<1>3. pending_plan' \in Plans \cup {None}
  BY DEF RepairCase, TypeOK, PositionOK
<1> QED
  BY <1>1, <1>2, <1>3, RunMembersType, Frame DEF RepairCase, TypeOK

\* Archiving and forgetting a result keep the types.
LEMMA ArchiveType ==
    ASSUME TypeOK, ArchiveOutputs, UNCHANGED <<revision_plan, ran>>,
           ForgetResult \/ UNCHANGED <<simulation, attempt>>
    PROVE  RevisionOK' /\ ResultsOK'
BY BoundsAssumption DEF ArchiveOutputs, ForgetResult, TypeOK, RevisionOK, ResultsOK

LEMMA ReviseCaseInv == Inv /\ ReviseCase => Inv'
<1> SUFFICES ASSUME Inv, ReviseCase PROVE Inv'
  OBVIOUS
<1> USE DEF Inv
<1>1. PICK delta \in Deltas, hint \in BOOLEAN, presolved \in BOOLEAN :
        RunMembers(delta, revision_plan, MeshNeeded(delta, hint),
                   MeshNeeded(delta, hint), presolved, FALSE)
  BY DEF ReviseCase
<1>2. MeshNeeded(delta, hint) \in BOOLEAN /\ revision_plan \in Plans
  BY DEF MeshNeeded, ReviseCase, TypeOK, RevisionOK
<1>3. pending_plan' \in Plans \cup {None}
  BY DEF ReviseCase, TypeOK, PositionOK
<1>4. RevisionOK' /\ ResultsOK'
  BY ArchiveType DEF ReviseCase
<1> QED
  BY <1>1, <1>2, <1>3, <1>4, RunMembersType, Frame DEF ReviseCase, TypeOK

LEMMA ReviseCaseRaisesInv == Inv /\ ReviseCaseRaises => Inv'
<1> SUFFICES ASSUME Inv, ReviseCaseRaises PROVE Inv'
  OBVIOUS
<1> USE DEF Inv
<1>1. RevisionOK' /\ ResultsOK'
  BY ArchiveType DEF ReviseCaseRaises
<1>2. mesh_manifest' \in MeshManifest \cup {None}
  BY DEF ReviseCaseRaises, TypeOK, EvidenceOK
<1> QED
  BY <1>1, <1>2, Stopped, Frame DEF ReviseCaseRaises, Raise, TypeOK, States

\* A failed member: the next turn of the model, or the end of the command.
LEMMA MemberFailsType ==
    ASSUME TypeOK, MemberFails, mesh_manifest' \in MeshManifest \cup {None}
    PROVE  /\ current_state' \in States
           /\ PositionOK'
           /\ PositionHolds'
           /\ EvidenceOK'
<1>1. CASE NextTurn(FALSE) /\ UNCHANGED presolve
  BY <1>1, NextTurnType DEF TypeOK, EvidenceOK
<1>2. CASE todo.routed /\ Rest("ENGINEERING_BLOCKED")
  BY <1>2, Stopped DEF Rest, States
<1> QED
  BY <1>1, <1>2 DEF MemberFails

LEMMA WriteMemberInv == Inv /\ WriteMember => Inv'
<1> SUFFICES ASSUME Inv, WriteMember PROVE Inv'
  OBVIOUS
<1> USE DEF Inv
<1>1. /\ FeedbackOK' /\ ProposalHolds' /\ RevisionOK' /\ ResultsOK'
      /\ disk' \in Case /\ tampers' \in 0 .. MaxTampers
  BY Frame DEF WriteMember
<1>2. CASE MemberFails /\ UNCHANGED <<decision, mesh_manifest>>
  <2>1. mesh_manifest' \in MeshManifest \cup {None}
    BY <1>2 DEF TypeOK, EvidenceOK
  <2> QED
    BY <1>1, <1>2, <2>1, MemberFailsType, Frame DEF TypeOK
<1>3. CASE \E f \in todo.writes :
             /\ Continue([todo EXCEPT !.writes = @ \ {f}])
             /\ InvalidateMesh(disk)
             /\ presolve' = None
             /\ UNCHANGED <<engineering_plan>>
  <2>1. PICK f \in todo.writes : Continue([todo EXCEPT !.writes = @ \ {f}])
    BY <1>3
  <2>2. UNCHANGED attempt /\ pc \in {"members", "repair_members"}
    BY DEF WriteMember, AtMember, results
  <2>3. current_state' \in States /\ PositionOK' /\ PositionHolds'
    BY <2>1, <2>2, DoneType, ContinueType
  <2>4. DecisionOK' /\ mesh_manifest' \in MeshManifest \cup {None}
    BY <1>3, InvalidateMeshType
  <2>5. EvidenceOK'
    BY <1>3, <2>4 DEF EvidenceOK
  <2> QED
    BY <1>1, <2>3, <2>4, <2>5 DEF TypeOK
<1> QED
  BY <1>2, <1>3 DEF WriteMember

LEMMA MeshMemberInv == Inv /\ MeshMember => Inv'
<1> SUFFICES ASSUME Inv, MeshMember PROVE Inv'
  OBVIOUS
<1> USE DEF Inv
<1>1. /\ FeedbackOK' /\ ProposalHolds' /\ RevisionOK' /\ ResultsOK'
      /\ tampers' \in 0 .. MaxTampers
  BY Frame DEF MeshMember
<1>2. DecisionOK' /\ mesh_manifest' \in MeshManifest \cup {None}
  BY DEF MeshMember, TypeOK, DecisionOK
<1>3. UNCHANGED attempt /\ pc \in {"members", "repair_members"}
  BY DEF MeshMember, AtMember, results
<1>4. CASE /\ Continue([todo EXCEPT !.mesh = FALSE])
           /\ disk["blockMeshDict"] # Absent
           /\ disk' = [disk EXCEPT !["polyMesh"] = disk["blockMeshDict"]]
           /\ presolve' = None
  <2>1. current_state' \in States /\ PositionOK' /\ PositionHolds'
    BY <1>3, <1>4, DoneType, ContinueType
  <2>2. disk' \in Case
    BY <1>4, InputsAssumption DEF TypeOK, Case, Files
  <2>3. EvidenceOK'
    BY <1>2, <1>4 DEF EvidenceOK
  <2> QED
    BY <1>1, <1>2, <2>1, <2>2, <2>3 DEF TypeOK
<1>5. CASE /\ \/ NextTurn(FALSE) /\ presolve' = None
              \/ todo.routed /\ Rest("ENGINEERING_BLOCKED")
           /\ disk' \in {disk, [disk EXCEPT !["polyMesh"] = Absent]}
  <2>1. disk' \in Case
    BY <1>5, MaxContentAssumption DEF TypeOK, Case, Files, Contents, Absent
  <2>2. CASE NextTurn(FALSE) /\ presolve' = None
    BY <1>1, <1>2, <2>1, <2>2, NextTurnType DEF TypeOK, EvidenceOK
  <2>3. CASE Rest("ENGINEERING_BLOCKED")
    BY <1>1, <1>2, <2>1, <2>3, Stopped DEF Rest, TypeOK, States
  <2> QED
    BY <1>5, <2>2, <2>3
<1> QED
  BY <1>4, <1>5 DEF MeshMember

LEMMA CheckMemberInv == Inv /\ CheckMember => Inv'
<1> SUFFICES ASSUME Inv, CheckMember PROVE Inv'
  OBVIOUS
<1> USE DEF Inv
<1>1. /\ DecisionOK' /\ FeedbackOK' /\ ProposalHolds' /\ RevisionOK' /\ ResultsOK'
      /\ disk' \in Case /\ tampers' \in 0 .. MaxTampers
  BY Frame DEF CheckMember
<1>2. CASE /\ mesh_manifest' = MeshDigest(disk)
           /\ Continue([todo EXCEPT !.check = FALSE])
           /\ UNCHANGED presolve
  <2>1. UNCHANGED attempt /\ pc \in {"members", "repair_members"}
    BY DEF CheckMember, AtMember, results
  <2>2. current_state' \in States /\ PositionOK' /\ PositionHolds'
    BY <1>2, <2>1, DoneType, ContinueType
  <2>3. EvidenceOK'
    BY <1>2, DigestIsManifest DEF TypeOK, EvidenceOK
  <2> QED
    BY <1>1, <2>2, <2>3 DEF TypeOK
<1>3. CASE mesh_manifest' \in {mesh_manifest, None} /\ MemberFails
  <2>1. mesh_manifest' \in MeshManifest \cup {None}
    BY <1>3 DEF TypeOK, EvidenceOK
  <2> QED
    BY <1>1, <1>3, <2>1, MemberFailsType DEF TypeOK
<1> QED
  BY <1>2, <1>3 DEF CheckMember

LEMMA PresolveMemberInv == Inv /\ PresolveMember => Inv'
<1> SUFFICES ASSUME Inv, PresolveMember PROVE Inv'
  OBVIOUS
<1> USE DEF Inv
<1>1. /\ DecisionOK' /\ FeedbackOK' /\ ProposalHolds' /\ RevisionOK' /\ ResultsOK'
      /\ disk' \in Case /\ tampers' \in 0 .. MaxTampers
  BY Frame DEF PresolveMember
<1>2. mesh_manifest' \in MeshManifest \cup {None}
  BY DEF PresolveMember, TypeOK, EvidenceOK
<1>3. CASE presolve' = disk /\ Continue([todo EXCEPT !.presolve = FALSE])
  <2>1. UNCHANGED attempt /\ pc \in {"members", "repair_members"}
    BY DEF PresolveMember, AtMember, results
  <2>2. current_state' \in States /\ PositionOK' /\ PositionHolds'
    BY <1>3, <2>1, DoneType, ContinueType
  <2>3. EvidenceOK'
    BY <1>2, <1>3 DEF TypeOK, EvidenceOK
  <2> QED
    BY <1>1, <2>2, <2>3 DEF TypeOK
<1>4. CASE MemberFails
  BY <1>1, <1>2, <1>4, MemberFailsType DEF TypeOK
<1> QED
  BY <1>3, <1>4 DEF PresolveMember

\* finish_preview seals a plan there is over the case on disk.
LEMMA FinishAcceptedInv ==
    ASSUME Inv, NEW p \in Plans, FinishAccepted(p)
    PROVE  Inv'
<1> USE DEF Inv
<1>1. DecisionOK'
  BY SealIsSeal DEF FinishAccepted, TypeOK, DecisionOK
<1>2. FeedbackOK' /\ RevisionOK' /\ ProposalHolds'
  <2>1. CASE RevisionInProgress /\ engineering_plan # None /\ case_seal # None
    <3>1. "awaiting_rerun" \in FeedbackStatus
      BY DEF FeedbackStatus
    <3>2. /\ human_feedback' = WithStatus(active_revision_proposal.feedback, "awaiting_rerun")
          /\ active_revision_proposal' = None
          /\ archived' = FALSE
          /\ revision_plan' = None
      BY <2>1 DEF FinishAccepted, RecordRevision
    <3> QED
      BY <3>1, <3>2, StatusKeepsFeedback DEF TypeOK, FeedbackOK, RevisionOK, ProposalHolds
  <2>2. CASE ~(RevisionInProgress /\ engineering_plan # None /\ case_seal # None)
    BY <2>2, Frame DEF FinishAccepted, RecordRevision
  <2> QED
    BY <2>1, <2>2
<1>3. ResultsOK' /\ disk' \in Case /\ tampers' \in 0 .. MaxTampers
  BY Frame DEF FinishAccepted
<1>4. mesh_manifest' \in MeshManifest \cup {None}
  BY DEF FinishAccepted, TypeOK, EvidenceOK
<1> QED
  BY <1>1, <1>2, <1>3, <1>4, Stopped DEF FinishAccepted, Rest, TypeOK, States

LEMMA FinishMemberInv == Inv /\ FinishMember => Inv'
<1> SUFFICES ASSUME Inv, FinishMember PROVE Inv'
  OBVIOUS
<1> USE DEF Inv
<1>1. CASE FinishAccepted(todo.plan)
  <2>1. todo.plan \in Plans
    BY DEF FinishMember, AtMember, TypeOK, PositionOK, PositionHolds, Members
  <2> QED
    BY <1>1, <2>1, FinishAcceptedInv
<1>2. CASE /\ NextTurn(TRUE)
           /\ UNCHANGED <<decision, evidence, feedback, revision, results, disk, tampers>>
  BY <1>2, NextTurnType, Frame DEF TypeOK
<1> QED
  BY <1>1, <1>2 DEF FinishMember

LEMMA TurnsExhaustedInv == Inv /\ TurnsExhausted => Inv'
<1> SUFFICES ASSUME Inv, TurnsExhausted PROVE Inv'
  OBVIOUS
<1> USE DEF Inv
<1>1. /\ DecisionOK' /\ FeedbackOK' /\ ProposalHolds' /\ RevisionOK' /\ ResultsOK'
      /\ disk' \in Case /\ tampers' \in 0 .. MaxTampers
  BY Frame DEF TurnsExhausted
<1>2. mesh_manifest' \in MeshManifest \cup {None}
  BY DEF TurnsExhausted, TypeOK, EvidenceOK
<1>3. CASE Rest("ENGINEERING_BLOCKED")
  BY <1>1, <1>2, <1>3, Stopped DEF Rest, TypeOK, States
<1>4. CASE /\ GoTo("finalize", 1, NoMembers)
           /\ UNCHANGED <<current_state, finish_rejected, presolve>>
  <2>1. PositionOK' /\ pc' = "finalize"
    BY <1>4, Moved, MembersType DEF TypeOK, PositionOK, Positions
  <2> QED
    BY <1>1, <1>2, <1>4, <2>1 DEF TypeOK, EvidenceOK, PositionHolds
<1> QED
  BY <1>3, <1>4 DEF TurnsExhausted

LEMMA FinalizeInv == Inv /\ Finalize => Inv'
<1> SUFFICES ASSUME Inv, Finalize PROVE Inv'
  OBVIOUS
<1> USE DEF Inv
<1>1. CASE \E p \in Plans : FinishAccepted(p)
  BY <1>1, FinishAcceptedInv
<1>2. CASE /\ \/ /\ GoTo("finalize", TurnSpent, NoMembers)
                 /\ UNCHANGED <<current_state, finish_rejected, presolve>>
              \/ \E st \in {"ENGINEERING_BLOCKED", "ENGINEERING_REVIEW_REQUIRED"} : Rest(st)
              \/ Raise("ENGINEERING_BLOCKED")
              \/ ~RevisionInProgress /\ Raise("FAILED")
           /\ UNCHANGED <<decision, mesh_manifest, feedback, revision, results, disk, tampers>>
  <2>1. /\ DecisionOK' /\ FeedbackOK' /\ ProposalHolds' /\ RevisionOK' /\ ResultsOK'
        /\ disk' \in Case /\ tampers' \in 0 .. MaxTampers
    BY <1>2, Frame
  <2>2. mesh_manifest' \in MeshManifest \cup {None}
    BY <1>2 DEF TypeOK, EvidenceOK
  <2>3. CASE /\ GoTo("finalize", TurnSpent, NoMembers)
             /\ UNCHANGED <<current_state, finish_rejected, presolve>>
    <3>1. PositionOK' /\ pc' = "finalize"
      BY <2>3, Moved, MembersType, TurnSpentType DEF TypeOK, PositionOK, Positions
    <3> QED
      BY <2>1, <2>2, <2>3, <3>1 DEF TypeOK, EvidenceOK, PositionHolds
  <2>4. CASE \E st \in States, e \in BOOLEAN : Stop(st, e)
    BY <2>1, <2>2, <2>4, Stopped DEF TypeOK
  <2> QED
    BY <1>2, <2>3, <2>4 DEF Rest, Raise, States
<1> QED
  BY <1>1, <1>2 DEF Finalize

LEMMA FinalTurnsExhaustedInv == Inv /\ FinalTurnsExhausted => Inv'
<1> SUFFICES ASSUME Inv, FinalTurnsExhausted PROVE Inv'
  OBVIOUS
<1> USE DEF Inv
<1>1. mesh_manifest' \in MeshManifest \cup {None}
  BY DEF FinalTurnsExhausted, TypeOK, EvidenceOK
<1> QED
  BY <1>1, Stopped, Frame DEF FinalTurnsExhausted, Rest, TypeOK, States

LEMMA PreparationInv == Inv /\ PreparationStep => Inv'
BY PrepareStartInv, TurnWastedInv, TurnBlocksInv, TurnRaisesInv, AuthorCaseInv,
   DecideRevisionInv, RepairCaseInv, ReviseCaseInv, ReviseCaseRaisesInv,
   WriteMemberInv, MeshMemberInv, CheckMemberInv, PresolveMemberInv, FinishMemberInv,
   TurnsExhaustedInv, FinalizeInv, FinalTurnsExhaustedInv
   DEF PreparationStep

(***************************************************************************)
(* Review.                                                                 *)
(***************************************************************************)
LEMMA ReceiveType ==
    ASSUME Inv, NEW st \in FeedbackStatus, NEW gate \in States, NEW proposal,
           \/ proposal = None
           \/ proposal \in Proposal /\ proposal.feedback = Len(human_feedback) + 1,
           Len(human_feedback) < MaxFeedback, current_state \in FeedbackGates,
           Receive(st, proposal, gate), UNCHANGED mesh_manifest
    PROVE  /\ current_state' \in States
           /\ PositionOK' /\ PositionHolds' /\ EvidenceOK'
           /\ FeedbackOK' /\ ProposalHolds'
<1> USE DEF Inv
<1> DEFINE fb == [status |-> st, submitted_state |-> current_state]
<1>1. mesh_manifest' \in MeshManifest \cup {None} /\ human_feedback \in Seq(Feedback)
  BY DEF TypeOK, EvidenceOK, FeedbackOK
<1>2. fb \in Feedback
  BY DEF Feedback
<1>3. human_feedback' = Append(human_feedback, fb) /\ active_revision_proposal' = proposal
  BY DEF Receive
<1>4. /\ human_feedback' \in Seq(Feedback)
      /\ Len(human_feedback') = Len(human_feedback) + 1
  BY <1>1, <1>2, <1>3, AppendProperties
<1>5. Len(human_feedback) + 1 <= MaxFeedback
  BY <1>1, LenProperties, BoundsAssumption
<1>6. FeedbackOK'
  BY <1>3, <1>4, <1>5 DEF FeedbackOK
<1>7. Len(human_feedback) + 1 \in DOMAIN human_feedback'
  BY <1>1, <1>4, LenProperties
<1>8. ProposalHolds'
  BY <1>3, <1>7 DEF ProposalHolds
<1> QED
  BY <1>1, <1>6, <1>8, Stopped DEF Receive, Rest

LEMMA GiveFeedbackInv == Inv /\ GiveFeedback => Inv'
<1> SUFFICES ASSUME Inv, GiveFeedback PROVE Inv'
  OBVIOUS
<1> USE DEF Inv
<1>1. /\ DecisionOK' /\ RevisionOK' /\ ResultsOK' /\ disk' \in Case
      /\ tampers' \in 0 .. MaxTampers
      /\ UNCHANGED mesh_manifest
  BY Frame DEF GiveFeedback
<1>2. \A b \in BOOLEAN :
        /\ NewProposal(b) \in Proposal
        /\ NewProposal(b).feedback = Len(human_feedback) + 1
  <2>1. Len(human_feedback) + 1 \in 1 .. MaxFeedback
    BY LenProperties, BoundsAssumption DEF GiveFeedback, TypeOK, FeedbackOK
  <2>2. engineering_plan \in Plans /\ case_seal.files \in Case
    BY DEF GiveFeedback, TypeOK, DecisionOK, CaseSeal
  <2> QED
    BY <2>1, <2>2 DEF NewProposal, Proposal
<1>3. /\ Len(human_feedback) < MaxFeedback
      /\ current_state \in States /\ current_state \in FeedbackGates
  BY DEF GiveFeedback, TypeOK
<1>4. PICK st \in FeedbackStatus, gate \in States, proposal \in Proposal \cup {None} :
        /\ \/ proposal = None
           \/ proposal \in Proposal /\ proposal.feedback = Len(human_feedback) + 1
        /\ Receive(st, proposal, gate)
  <2>1. /\ {"unresolved", "revision_proposed", "awaiting_review"} \subseteq FeedbackStatus
        /\ {"ENGINEERING_REVIEW_REQUIRED", "REVISION_READY"} \subseteq States
    BY DEF FeedbackStatus, States
  <2> QED
    BY <1>2, <1>3, <2>1 DEF GiveFeedback
<1> QED
  BY <1>1, <1>3, <1>4, ReceiveType DEF TypeOK

LEMMA ConfirmRevisionInv == Inv /\ ConfirmRevision => Inv'
<1> SUFFICES ASSUME Inv, ConfirmRevision PROVE Inv'
  OBVIOUS
<1> USE DEF Inv
<1>1. ResultsOK' /\ disk' \in Case /\ tampers' \in 0 .. MaxTampers
  BY Frame DEF ConfirmRevision
<1>2. DecisionOK' /\ RevisionOK' /\ mesh_manifest' \in MeshManifest \cup {None}
  BY DEF ConfirmRevision, TypeOK, DecisionOK, RevisionOK, EvidenceOK
<1>3. CASE /\ human_feedback' = WithStatus(active_revision_proposal.feedback,
                                           "revision_in_progress")
           /\ current_state' = "ENGINEERING"
           /\ GoTo("turn", 1, NoMembers)
           /\ UNCHANGED <<finish_rejected, presolve>>
  <2>1. FeedbackOK' /\ ProposalHolds'
    BY <1>3, StatusKeepsFeedback
       DEF ConfirmRevision, FeedbackStatus, TypeOK, FeedbackOK, ProposalHolds
  <2>2. PositionOK' /\ pc' = "turn"
    BY <1>3, Moved, MembersType DEF TypeOK, PositionOK, Positions
  <2> QED
    BY <1>1, <1>2, <1>3, <2>1, <2>2 DEF TypeOK, EvidenceOK, PositionHolds, States
<1>4. CASE /\ Rest("ENGINEERING_BLOCKED")
           /\ UNCHANGED <<human_feedback, revision_plan, solve_approved>>
  <2>1. FeedbackOK' /\ ProposalHolds'
    BY <1>4 DEF ConfirmRevision, TypeOK, FeedbackOK, ProposalHolds
  <2> QED
    BY <1>1, <1>2, <1>4, <2>1, Stopped DEF Rest, TypeOK, States
<1> QED
  BY <1>3, <1>4 DEF ConfirmRevision

LEMMA RejectRevisionInv == Inv /\ RejectRevision => Inv'
<1> SUFFICES ASSUME Inv, RejectRevision PROVE Inv'
  OBVIOUS
<1> USE DEF Inv
<1> DEFINE i == active_revision_proposal.feedback
<1>1. /\ human_feedback' = WithStatus(i, "proposal_rejected")
      /\ Rest(human_feedback[i].submitted_state)
      /\ active_revision_proposal' = None
  BY DEF RejectRevision
<1>2. human_feedback[i].submitted_state \in States
  <2>1. i \in DOMAIN human_feedback /\ human_feedback \in Seq(Feedback)
    BY DEF RejectRevision, ProposalHolds, TypeOK, FeedbackOK
  <2>2. human_feedback[i] \in Feedback
    BY <2>1, ElementOfSeq, LenProperties
  <2> QED
    BY <2>2 DEF Feedback, FeedbackGates, States
<1>3. FeedbackOK' /\ ProposalHolds'
  <2>1. "proposal_rejected" \in FeedbackStatus
    BY DEF FeedbackStatus
  <2> QED
    BY <1>1, <2>1, StatusKeepsFeedback DEF TypeOK, FeedbackOK, ProposalHolds
<1>4. mesh_manifest' \in MeshManifest \cup {None}
  BY DEF RejectRevision, TypeOK, EvidenceOK
<1> QED
  BY <1>1, <1>2, <1>3, <1>4, Stopped, Frame DEF RejectRevision, Rest, TypeOK

LEMMA SolveInv == Inv /\ Solve => Inv'
<1> SUFFICES ASSUME Inv, Solve PROVE Inv'
  OBVIOUS
<1> USE DEF Inv
<1>1. /\ FeedbackOK' /\ ProposalHolds' /\ RevisionOK' /\ EvidenceOK'
      /\ disk' \in Case /\ tampers' \in 0 .. MaxTampers
  BY Frame DEF Solve
<1>2. DecisionOK'
  BY IssueIsApproval DEF Solve, TypeOK, DecisionOK
<1>3. ResultsOK'
  BY BoundsAssumption DEF Solve, TypeOK, ResultsOK
<1>4. PositionOK' /\ pc' = "engine"
  BY Moved, MembersType DEF Solve, TypeOK, PositionOK, Positions
<1> QED
  BY <1>1, <1>2, <1>3, <1>4 DEF Solve, TypeOK, PositionHolds, States

LEMMA AcceptInv == Inv /\ Accept => Inv'
<1> SUFFICES ASSUME Inv, Accept PROVE Inv'
  OBVIOUS
<1> USE DEF Inv
<1>1. FeedbackOK' /\ ProposalHolds'
  <2>1. "resolved" \in FeedbackStatus
    BY DEF FeedbackStatus
  <2> QED
    BY <2>1, PromoteKeepsFeedback DEF Accept, TypeOK, FeedbackOK, ProposalHolds
<1>2. mesh_manifest' \in MeshManifest \cup {None}
  BY DEF Accept, TypeOK, EvidenceOK
<1> QED
  BY <1>1, <1>2, Stopped, Frame DEF Accept, Rest, TypeOK, States

LEMMA ReviewInv == Inv /\ ReviewStep => Inv'
BY GiveFeedbackInv, ConfirmRevisionInv, RejectRevisionInv, SolveInv, AcceptInv
   DEF ReviewStep

(***************************************************************************)
(* Execution and runtime repair.                                           *)
(***************************************************************************)
LEMMA RuntimeEntryInv == Inv /\ RuntimeEntry => Inv'
<1> SUFFICES ASSUME Inv, RuntimeEntry PROVE Inv'
  OBVIOUS
<1> USE DEF Inv
<1>1. /\ DecisionOK' /\ FeedbackOK' /\ ProposalHolds' /\ RevisionOK' /\ ResultsOK'
      /\ disk' \in Case /\ tampers' \in 0 .. MaxTampers
      /\ mesh_manifest' \in MeshManifest \cup {None}
  BY Frame DEF RuntimeEntry, TypeOK, EvidenceOK
<1>2. CASE \E st \in {"FAILED", "ENGINEERING_REVIEW_REQUIRED"} : Rest(st)
  BY <1>1, <1>2, Stopped DEF Rest, TypeOK, States
<1>3. CASE /\ GoTo("attempt", 0, NoMembers)
           /\ UNCHANGED <<current_state, finish_rejected, presolve>>
  <2>1. PositionOK' /\ pc' = "attempt"
    BY <1>3, Moved, MembersType DEF TypeOK, PositionOK, Positions
  <2>2. attempt' = 0
    BY DEF RuntimeEntry, PositionHolds, results
  <2> QED
    BY <1>1, <1>3, <2>1, <2>2, BoundsAssumption DEF TypeOK, EvidenceOK, PositionHolds
<1> QED
  BY <1>2, <1>3 DEF RuntimeEntry

\* A sealed case has a plan.
LEMMA SealedPlan ==
    ASSUME TypeOK, SealHolds(case_seal, engineering_plan, disk)
    PROVE  engineering_plan \in Plans
BY DEF SealHolds, TypeOK, DecisionOK, CaseSeal

LEMMA StartSolverInv == Inv /\ StartSolver => Inv'
<1> SUFFICES ASSUME Inv, StartSolver PROVE Inv'
  OBVIOUS
<1> USE DEF Inv
<1>1. /\ DecisionOK' /\ FeedbackOK' /\ ProposalHolds' /\ RevisionOK'
      /\ disk' \in Case /\ tampers' \in 0 .. MaxTampers
      /\ mesh_manifest' \in MeshManifest \cup {None}
  BY Frame DEF StartSolver, TypeOK, EvidenceOK
<1>2. CASE /\ \E st \in {"FAILED", "ENGINEERING_BLOCKED"} : Rest(st)
           /\ UNCHANGED <<ran, attempt, outputs>>
  <2>1. ResultsOK'
    BY <1>2 DEF StartSolver, TypeOK, ResultsOK
  <2> QED
    BY <1>1, <1>2, <2>1, Stopped DEF Rest, TypeOK, States
<1>3. CASE /\ SealHolds(case_seal, engineering_plan, disk)
           /\ ran' = [contract |-> ContractOf[engineering_plan], files |-> disk]
           /\ attempt' = attempt + 1
           /\ outputs' = TRUE
           /\ GoTo("solving", 0, NoMembers)
           /\ UNCHANGED <<current_state, finish_rejected, presolve>>
  <2>1. engineering_plan \in Plans /\ ContractOf[engineering_plan] \in Contracts
    BY <1>3, SealedPlan DEF Contracts
  <2>2. attempt' \in 0 .. MaxAttempts
    BY <1>3, BoundsAssumption DEF StartSolver, TypeOK, ResultsOK, PositionHolds
  <2>3. ran' \in Started /\ ran' # None
    <3>1. ran' \in Started
      BY <1>3, <2>1 DEF TypeOK, Started
    <3> QED
      BY <3>1, NoneIsNotARecord
  <2>4. ResultsOK'
    BY <1>3, <2>2, <2>3 DEF StartSolver, TypeOK, ResultsOK
  <2>5. PositionOK' /\ pc' = "solving"
    BY <1>3, Moved, MembersType DEF TypeOK, PositionOK, Positions
  <2>6. engineering_plan' # None
    BY <2>1, PlansAssumption DEF StartSolver, decision
  <2> QED
    BY <1>1, <1>3, <2>3, <2>4, <2>5, <2>6 DEF TypeOK, EvidenceOK, PositionHolds
<1> QED
  BY <1>2, <1>3 DEF StartSolver

\* The result names the plan the solver was started for.
LEMMA CapturedType ==
    ASSUME Inv, pc = "solving", NEW outcome \in Outcomes, Captured(outcome),
           UNCHANGED <<attempt, ran, outputs>>
    PROVE  ResultsOK'
<1> USE DEF Inv
<1>1. engineering_plan \in Plans /\ ran.files \in Case
  BY DEF TypeOK, DecisionOK, ResultsOK, Started, PositionHolds
<1>2. simulation' \in Result
  BY <1>1 DEF Captured, Result
<1> QED
  BY <1>2 DEF TypeOK, ResultsOK

LEMMA SolverSucceedsInv == Inv /\ SolverSucceeds => Inv'
<1> SUFFICES ASSUME Inv, SolverSucceeds PROVE Inv'
  OBVIOUS
<1> USE DEF Inv
<1>1. "success" \in Outcomes /\ "awaiting_review" \in FeedbackStatus
  BY DEF Outcomes, FeedbackStatus
<1>2. ResultsOK'
  BY <1>1, CapturedType DEF SolverSucceeds
<1>3. FeedbackOK' /\ ProposalHolds'
  BY <1>1, PromoteKeepsFeedback
     DEF SolverSucceeds, MarkAwaitingReview, TypeOK, FeedbackOK, ProposalHolds
<1>4. mesh_manifest' \in MeshManifest \cup {None}
  BY DEF SolverSucceeds, TypeOK, EvidenceOK
<1> QED
  BY <1>2, <1>3, <1>4, Stopped, Frame DEF SolverSucceeds, Rest, TypeOK, States

LEMMA SolverUndecidedInv == Inv /\ SolverUndecided => Inv'
<1> SUFFICES ASSUME Inv, SolverUndecided PROVE Inv'
  OBVIOUS
<1> USE DEF Inv
<1>1. /\ FeedbackOK' /\ ProposalHolds' /\ RevisionOK'
      /\ disk' \in Case /\ tampers' \in 0 .. MaxTampers
      /\ mesh_manifest' \in MeshManifest \cup {None}
  BY Frame DEF SolverUndecided, TypeOK, EvidenceOK
<1>2. DecisionOK'
  BY DEF SolverUndecided, TypeOK, DecisionOK
<1>3. ResultsOK'
  BY CapturedType DEF SolverUndecided, Outcomes
<1>4. \E st \in {"RESULT_REVIEW_REQUIRED", "ENGINEERING_BLOCKED"} : Rest(st)
  BY DEF SolverUndecided
<1> QED
  BY <1>1, <1>2, <1>3, <1>4, Stopped DEF Rest, TypeOK, States

LEMMA SolverFailsInv == Inv /\ SolverFails => Inv'
<1> SUFFICES ASSUME Inv, SolverFails PROVE Inv'
  OBVIOUS
<1> USE DEF Inv
<1>1. /\ FeedbackOK' /\ ProposalHolds' /\ RevisionOK'
      /\ disk' \in Case /\ tampers' \in 0 .. MaxTampers
      /\ mesh_manifest' \in MeshManifest \cup {None}
  BY Frame DEF SolverFails, TypeOK, EvidenceOK
<1>2. DecisionOK'
  BY DEF SolverFails, TypeOK, DecisionOK
<1>3. ResultsOK'
  BY CapturedType DEF SolverFails, Outcomes
<1>4. CASE Rest("ENGINEERING_BLOCKED")
  BY <1>1, <1>2, <1>3, <1>4, Stopped DEF Rest, TypeOK, States
<1>5. CASE /\ AttemptsLeft
           /\ current_state' = "RUNTIME_REPAIR"
           /\ GoTo("repair", 1, NoMembers)
           /\ UNCHANGED <<solve_approved, finish_rejected, presolve>>
  <2>1. PositionOK' /\ pc' = "repair"
    BY <1>5, Moved, MembersType DEF TypeOK, PositionOK, Positions
  <2>2. attempt' < MaxAttempts
    BY <1>5 DEF SolverFails, AttemptsLeft
  <2> QED
    BY <1>1, <1>2, <1>3, <1>5, <2>1, <2>2 DEF TypeOK, EvidenceOK, PositionHolds, States
<1> QED
  BY <1>4, <1>5 DEF SolverFails

LEMMA GiveType ==
    ASSUME TypeOK, NEW st, Give(st)
    PROVE  /\ current_state' \in States
           /\ PositionOK' /\ PositionHolds' /\ EvidenceOK' /\ DecisionOK'
<1>1. st \in States /\ mesh_manifest' \in MeshManifest \cup {None} /\ DecisionOK'
  BY DEF Give, States, TypeOK, EvidenceOK, DecisionOK
<1> QED
  BY <1>1, Stopped DEF Give, Rest

LEMMA RepairWastedInv == Inv /\ RepairWasted => Inv'
<1> SUFFICES ASSUME Inv, RepairWasted PROVE Inv'
  OBVIOUS
<1> USE DEF Inv
<1>1. attempt < MaxAttempts /\ UNCHANGED attempt
  BY DEF RepairWasted, AtRepair, PositionHolds, results
<1> QED
  BY <1>1, NextRepairTurnType, Frame DEF RepairWasted, TypeOK

LEMMA RepairRaisesInv == Inv /\ RepairRaises => Inv'
<1> SUFFICES ASSUME Inv, RepairRaises PROVE Inv'
  OBVIOUS
<1> USE DEF Inv
<1>1. PICK st \in {"ENGINEERING_BLOCKED", "FAILED"} : Raise(st)
  BY DEF RepairRaises
<1>2. mesh_manifest' \in MeshManifest \cup {None}
  BY DEF RepairRaises, TypeOK, EvidenceOK
<1> QED
  BY <1>1, <1>2, Stopped, Frame DEF RepairRaises, Raise, TypeOK, States

LEMMA RepairEndsInv == Inv /\ RepairEnds => Inv'
BY GiveType, Frame DEF Inv, RepairEnds, TypeOK

\* An accepted candidate leaves an approval.
LEMMA DeltaCheckedType ==
    ASSUME TypeOK, NEW p \in Plans, NEW delta \in Deltas \cup {<<>>}, DeltaChecked(p, delta)
    PROVE  execution_approval' \in Approval \cup {None}
<1>1. CASE execution_approval = None
  BY <1>1 DEF DeltaChecked
<1>2. CASE execution_approval # None
  BY <1>2, AuthorizeIsApproval DEF DeltaChecked, TypeOK, DecisionOK
<1> QED
  BY <1>1, <1>2

LEMMA RepairDeltaInv == Inv /\ RepairDelta => Inv'
<1> SUFFICES ASSUME Inv, RepairDelta PROVE Inv'
  OBVIOUS
<1> USE DEF Inv
<1>1. /\ FeedbackOK' /\ ProposalHolds' /\ RevisionOK' /\ EvidenceOK' /\ ResultsOK'
      /\ current_state' \in States /\ tampers' \in 0 .. MaxTampers
  BY Frame DEF RepairDelta, TypeOK
<1>2. PICK p \in Plans, delta \in Deltas \cup {<<>>},
           mesh \in BOOLEAN, presolved \in BOOLEAN, retry \in BOOLEAN :
        /\ DeltaChecked(p, delta)
        /\ disk' = Apply(disk, delta)
        /\ GoTo("repair_members", turn,
                [writes   |-> DOMAIN delta,
                 mesh     |-> mesh,
                 check    |-> FALSE,
                 presolve |-> presolved,
                 last     |-> IF retry THEN "retry_solver" ELSE "none",
                 plan     |-> p,
                 routed   |-> FALSE])
  BY DEF RepairDelta
<1> DEFINE m == [writes   |-> DOMAIN delta,
                 mesh     |-> mesh,
                 check    |-> FALSE,
                 presolve |-> presolved,
                 last     |-> IF retry THEN "retry_solver" ELSE "none",
                 plan     |-> p,
                 routed   |-> FALSE]
<1>3. disk' \in Case /\ DOMAIN delta \in SUBSET Inputs
  BY <1>2, ApplyIsCase DEF TypeOK
<1>4. m \in Members /\ m.plan = p
  BY <1>3 DEF Members
<1>5. DecisionOK'
  BY <1>2, DeltaCheckedType DEF RepairDelta, TypeOK, DecisionOK
<1>6. PositionOK' /\ pc' = "repair_members" /\ todo' = m
  <2>1. GoTo("repair_members", turn, m)
    BY <1>2
  <2>2. turn \in Nat /\ finish_rejected' \in BOOLEAN
    BY DEF RepairDelta, TypeOK, PositionOK
  <2> HIDE DEF m
  <2> QED
    BY <1>4, <2>1, <2>2, Moved DEF TypeOK, Positions
<1>7. PositionHolds'
  <2>1. attempt' < MaxAttempts
    BY DEF RepairDelta, AtRepair, PositionHolds, results
  <2> QED
    BY <1>4, <1>6, <2>1, PlansAssumption DEF PositionHolds
<1> QED
  BY <1>1, <1>3, <1>5, <1>6, <1>7 DEF TypeOK

LEMMA RepairDeltaUnaffordableInv == Inv /\ RepairDeltaUnaffordable => Inv'
<1> SUFFICES ASSUME Inv, RepairDeltaUnaffordable PROVE Inv'
  OBVIOUS
<1> USE DEF Inv
<1>1. PICK p \in Plans, delta \in Deltas : DeltaChecked(p, delta)
  BY DEF RepairDeltaUnaffordable
<1>2. DecisionOK'
  BY <1>1, DeltaCheckedType DEF RepairDeltaUnaffordable, TypeOK, DecisionOK
<1>3. mesh_manifest' \in MeshManifest \cup {None}
  BY DEF RepairDeltaUnaffordable, TypeOK, EvidenceOK
<1> QED
  BY <1>2, <1>3, Stopped, Frame DEF RepairDeltaUnaffordable, Rest, TypeOK, States

LEMMA RepairWriteInv == Inv /\ RepairWrite => Inv'
<1> SUFFICES ASSUME Inv, RepairWrite PROVE Inv'
  OBVIOUS
<1> USE DEF Inv
<1>1. /\ FeedbackOK' /\ ProposalHolds' /\ RevisionOK' /\ ResultsOK'
      /\ disk' \in Case /\ tampers' \in 0 .. MaxTampers
  BY Frame DEF RepairWrite
<1>2. /\ attempt < MaxAttempts /\ UNCHANGED attempt
      /\ pc \in {"members", "repair_members"}
  BY DEF RepairWrite, AtRepairMember, PositionHolds, results
<1>3. CASE NextRepairTurn /\ UNCHANGED <<decision, evidence>>
  BY <1>1, <1>2, <1>3, NextRepairTurnType, Frame DEF TypeOK
<1>4. CASE Give("ENGINEERING_REVIEW_REQUIRED")
  BY <1>1, <1>4, GiveType DEF TypeOK
<1>5. CASE \E f \in todo.writes :
             /\ Continue([todo EXCEPT !.writes = @ \ {f}])
             /\ presolve' = None
             /\ case_seal' = None
             /\ \/ /\ mesh_manifest' = None
                   /\ solve_approved' = FALSE
                   /\ execution_approval' = None
                \/ UNCHANGED <<mesh_manifest, solve_approved, execution_approval>>
             /\ UNCHANGED engineering_plan
  <2>1. PICK f \in todo.writes : Continue([todo EXCEPT !.writes = @ \ {f}])
    BY <1>5
  <2>2. current_state' \in States /\ PositionOK' /\ PositionHolds'
    BY <1>2, <2>1, DoneType, ContinueType
  <2>3. DecisionOK' /\ EvidenceOK'
    BY <1>5 DEF TypeOK, DecisionOK, EvidenceOK
  <2> QED
    BY <1>1, <2>2, <2>3 DEF TypeOK
<1> QED
  BY <1>3, <1>4, <1>5 DEF RepairWrite

LEMMA RepairMeshInv == Inv /\ RepairMesh => Inv'
BY GiveType, Frame DEF Inv, RepairMesh, TypeOK

LEMMA RepairPresolveInv == Inv /\ RepairPresolve => Inv'
<1> SUFFICES ASSUME Inv, RepairPresolve PROVE Inv'
  OBVIOUS
<1> USE DEF Inv
<1>1. /\ DecisionOK' /\ FeedbackOK' /\ ProposalHolds' /\ RevisionOK' /\ ResultsOK'
      /\ disk' \in Case /\ tampers' \in 0 .. MaxTampers
  BY Frame DEF RepairPresolve
<1>2. /\ attempt < MaxAttempts /\ UNCHANGED attempt
      /\ pc \in {"members", "repair_members"}
  BY DEF RepairPresolve, AtRepairMember, PositionHolds, results
<1>3. EvidenceOK'
  BY DEF RepairPresolve, TypeOK, EvidenceOK
<1>4. current_state' \in States /\ PositionOK' /\ PositionHolds'
  <2>1. CASE Continue([todo EXCEPT !.presolve = FALSE])
    BY <1>2, <2>1, DoneType, ContinueType
  <2>2. CASE NextRepairTurn
    BY <1>2, <2>2, NextRepairTurnType
  <2> QED
    BY <2>1, <2>2 DEF RepairPresolve
<1> QED
  BY <1>1, <1>3, <1>4 DEF TypeOK

LEMMA RetrySolverInv == Inv /\ RetrySolver => Inv'
<1> SUFFICES ASSUME Inv, RetrySolver PROVE Inv'
  OBVIOUS
<1> USE DEF Inv
<1>1. /\ FeedbackOK' /\ ProposalHolds' /\ RevisionOK' /\ ResultsOK'
      /\ disk' \in Case /\ tampers' \in 0 .. MaxTampers
  BY Frame DEF RetrySolver
<1>2. attempt < MaxAttempts /\ UNCHANGED attempt
  BY DEF RetrySolver, AtRepairMember, PositionHolds, results
<1>3. CASE /\ engineering_plan' = todo.plan
           /\ case_seal' = Seal(todo.plan, disk)
           /\ current_state' = "SIMULATION"
           /\ GoTo("attempt", 0, NoMembers)
           /\ presolve' = disk
           /\ UNCHANGED <<solve_approved, execution_approval, finish_rejected>>
  <2>1. todo.plan \in Plans
    BY DEF RetrySolver, AtRepairMember, TypeOK, PositionOK, PositionHolds, Members
  <2>2. DecisionOK'
    BY <1>3, <2>1, SealIsSeal DEF TypeOK, DecisionOK
  <2>3. PositionOK' /\ pc' = "attempt"
    BY <1>3, Moved, MembersType DEF TypeOK, PositionOK, Positions
  <2>4. EvidenceOK'
    BY <1>3 DEF RetrySolver, TypeOK, EvidenceOK
  <2> QED
    BY <1>1, <1>2, <1>3, <2>2, <2>3, <2>4 DEF TypeOK, PositionHolds, States
<1>4. CASE NextRepairTurn /\ UNCHANGED <<decision, presolve>>
  <2>1. EvidenceOK'
    BY <1>4 DEF RetrySolver, TypeOK, EvidenceOK
  <2> QED
    BY <1>1, <1>2, <1>4, <2>1, NextRepairTurnType, Frame DEF TypeOK
<1> QED
  BY <1>3, <1>4 DEF RetrySolver

LEMMA RepairWithoutRetryInv == Inv /\ RepairWithoutRetry => Inv'
<1> SUFFICES ASSUME Inv, RepairWithoutRetry PROVE Inv'
  OBVIOUS
<1> USE DEF Inv
<1>1. attempt < MaxAttempts /\ UNCHANGED attempt
  BY DEF RepairWithoutRetry, AtRepairMember, PositionHolds, results
<1> QED
  BY <1>1, NextRepairTurnType, Frame DEF RepairWithoutRetry, TypeOK

LEMMA RuntimeInv == Inv /\ RuntimeStep => Inv'
BY RuntimeEntryInv, StartSolverInv, SolverSucceedsInv, SolverUndecidedInv,
   SolverFailsInv, RepairWastedInv, RepairRaisesInv, RepairEndsInv, RepairDeltaInv,
   RepairDeltaUnaffordableInv, RepairWriteInv, RepairMeshInv, RepairPresolveInv,
   RetrySolverInv, RepairWithoutRetryInv
   DEF RuntimeStep

LEMMA TamperInv == Inv /\ Tamper => Inv'
<1> SUFFICES ASSUME Inv, Tamper PROVE Inv'
  OBVIOUS
<1> USE DEF Inv
<1>1. /\ DecisionOK' /\ FeedbackOK' /\ ProposalHolds' /\ RevisionOK' /\ ResultsOK'
      /\ EvidenceOK' /\ PositionOK' /\ current_state' \in States
  BY Frame DEF Tamper
<1>2. disk' \in Case
  BY DEF Tamper, TypeOK, Case
<1>3. tampers' \in 0 .. MaxTampers
  BY BoundsAssumption DEF Tamper, TypeOK
<1>4. PositionHolds'
  BY DEF Tamper, PositionHolds, position, results, decision
<1> QED
  BY <1>1, <1>2, <1>3, <1>4 DEF TypeOK

LEMMA StutterInv == Inv /\ UNCHANGED vars => Inv'
<1> SUFFICES ASSUME Inv, UNCHANGED vars PROVE Inv'
  OBVIOUS
<1> USE DEF Inv
<1>1. PositionHolds'
  BY DEF vars, PositionHolds, position, results, decision
<1> QED
  BY <1>1, Frame DEF vars, TypeOK

LEMMA InitInv == Init => Inv
<1> SUFFICES ASSUME Init PROVE Inv
  OBVIOUS
<1>1. DecisionOK /\ EvidenceOK /\ RevisionOK
  BY DEF Init, DecisionOK, EvidenceOK, RevisionOK
<1>2. FeedbackOK /\ ProposalHolds
  BY EmptySeq, BoundsAssumption DEF Init, FeedbackOK, ProposalHolds
<1>3. ResultsOK
  <2>1. attempt \in 0 .. MaxAttempts
    BY BoundsAssumption DEF Init
  <2> QED
    BY <2>1 DEF Init, ResultsOK
<1>4. PositionOK /\ PositionHolds
  BY MembersType DEF Init, PositionOK, Positions, PositionHolds
<1>5. disk \in Case /\ tampers \in 0 .. MaxTampers /\ current_state \in States
  BY MaxContentAssumption, BoundsAssumption DEF Init, Case, Contents, Absent, States
<1> QED
  BY <1>1, <1>2, <1>3, <1>4, <1>5 DEF Inv, TypeOK

LEMMA NextInv == Inv /\ [Next]_vars => Inv'
BY PreparationInv, RuntimeInv, ReviewInv, TamperInv, StutterInv DEF Next, Controller

LEMMA Invariance == Spec => []Inv
BY InitInv, NextInv, PTL DEF Spec

\* The state of every run is well typed: CFDState, the case and the controller
\* position stay what CaseState says they are.
THEOREM TypeCorrect == Spec => []TypeOK
<1>1. Inv => TypeOK
  BY DEF Inv
<1> QED
  BY <1>1, Invariance, PTL

(***************************************************************************)
(* Authority.  An approval loses itself (None), and it accepts deltas; only *)
(* the latter has to be looked at.                                         *)
(***************************************************************************)
AInv == Inv /\ Authority

\* Whatever was authorized before, an authorized controlDict is not above the
\* approved one: it is at most the bytes on disk, which are approved bytes or
\* earlier authorized ones.
LEMMA AuthorizeReduces ==
    ASSUME NEW a \in Approval, ReducedOnly(a), NEW d \in Case,
           NEW delta \in Deltas \cup {<<>>}, DeltaAuthorized(a, d, delta)
    PROVE  ReducedOnly(Authorize(a, d, delta))
<1> DEFINE b == Authorize(a, d, delta)
<1> SUFFICES ASSUME NEW f \in Files, PathKind(f) = "control_dict", b.hashes[f] # None
             PROVE  b.hashes[f] <= b.files[f]
  BY DEF ReducedOnly
<1>1. b.files = a.files
  BY AuthorizeIsApproval
<1>2. b.hashes[f] = IF f \in DOMAIN delta /\ delta[f] # d[f] THEN delta[f] ELSE a.hashes[f]
  BY DEF Authorize, Approval
<1>3. a.files[f] \in Contents /\ d[f] \in Contents /\ a.hashes[f] \in MaybeContent
  BY DEF Approval, Case
<1>4. CASE f \in DOMAIN delta /\ delta[f] # d[f]
  <2>1. delta[f] \in Contents
    <3>1. CASE delta = <<>>
      BY <1>4, <3>1
    <3>2. CASE delta \in Deltas
      BY <1>4, <3>2, MaxContentAssumption DEF Deltas, Contents
    <3> QED
      BY <3>1, <3>2
  <2>2. KnownBaseline(a, d, f, delta[f]) /\ delta[f] <= d[f]
    BY <1>4 DEF DeltaAuthorized, PathAuthorized, OnlyReduces
  <2>3. CASE d[f] = a.files[f]
    BY <1>1, <1>2, <1>4, <2>2, <2>3
  <2>4. CASE d[f] = a.hashes[f]
    <3>1. a.hashes[f] # None
      BY <1>3, <2>4, NoneIsNotData
    <3>2. a.hashes[f] <= a.files[f]
      BY <3>1 DEF ReducedOnly
    <3> QED
      BY <1>1, <1>2, <1>3, <1>4, <2>1, <2>2, <2>4, <3>2, MaxContentAssumption DEF Contents
  <2>5. CASE delta[f] = a.hashes[f]
    <3>1. a.hashes[f] # None
      BY <2>1, <2>5, NoneIsNotData
    <3> QED
      BY <1>1, <1>2, <1>4, <2>5, <3>1 DEF ReducedOnly
  <2> QED
    BY <2>2, <2>3, <2>4, <2>5 DEF KnownBaseline
<1>5. CASE ~(f \in DOMAIN delta /\ delta[f] # d[f])
  BY <1>1, <1>2, <1>5 DEF ReducedOnly
<1> QED
  BY <1>4, <1>5

\* Away from the solver nothing but the approval itself matters.
ExecutionPositions == {"attempt", "solving", "repair", "repair_members"}

LEMMA AwayFromSolver ==
    ASSUME Authority, execution_approval' \in {execution_approval, None},
           pc' \notin ExecutionPositions
    PROVE  Authority'
BY DEF Authority, ExecutionPositions, InForce, ReducedOnly

LEMMA StopIsAway == \A st, e : Stop(st, e) => pc' \notin ExecutionPositions
BY DEF Stop, ExecutionPositions

LEMMA NextTurnIsAway == \A r : NextTurn(r) => pc' \notin ExecutionPositions
BY DEF NextTurn, GoTo, ExecutionPositions

LEMMA PreparationAuthority == Authority /\ PreparationStep => Authority'
<1> SUFFICES ASSUME Authority, PreparationStep PROVE Authority'
  OBVIOUS
<1> USE StopIsAway, NextTurnIsAway DEF Rest, Raise
<1>1. CASE PrepareStart
  BY <1>1, AwayFromSolver DEF PrepareStart, GoTo, ExecutionPositions, decision
<1>2. CASE TurnWasted \/ DecideRevision
  BY <1>2, AwayFromSolver DEF TurnWasted, DecideRevision, decision
<1>3. CASE TurnBlocks
  BY <1>3, AwayFromSolver DEF TurnBlocks, decision
<1>4. CASE TurnRaises
  BY <1>4, AwayFromSolver DEF TurnRaises, RestoreRevisionReady, decision
<1>5. CASE AuthorCase \/ RepairCase \/ ReviseCase
  BY <1>5, AwayFromSolver
     DEF AuthorCase, RepairCase, ReviseCase, RunMembers, ExecutionPositions, decision
<1>6. CASE ReviseCaseRaises
  BY <1>6, AwayFromSolver DEF ReviseCaseRaises, decision
<1>7. CASE WriteMember
  BY <1>7, AwayFromSolver
     DEF WriteMember, AtMember, MemberFails, Continue, GoTo, InvalidateMesh,
         ExecutionPositions, decision
<1>8. CASE MeshMember
  BY <1>8, AwayFromSolver DEF MeshMember, AtMember, Continue, GoTo, ExecutionPositions
<1>9. CASE CheckMember
  BY <1>9, AwayFromSolver
     DEF CheckMember, AtMember, MemberFails, Continue, GoTo, ExecutionPositions, decision
<1>10. CASE PresolveMember
  BY <1>10, AwayFromSolver
     DEF PresolveMember, AtMember, MemberFails, Continue, GoTo, ExecutionPositions, decision
<1>11. CASE FinishMember
  BY <1>11, AwayFromSolver DEF FinishMember, FinishAccepted, decision
<1>12. CASE TurnsExhausted
  BY <1>12, AwayFromSolver DEF TurnsExhausted, GoTo, ExecutionPositions, decision
<1>13. CASE Finalize
  BY <1>13, AwayFromSolver DEF Finalize, FinishAccepted, GoTo, ExecutionPositions, decision
<1>14. CASE FinalTurnsExhausted
  BY <1>14, AwayFromSolver DEF FinalTurnsExhausted, decision
<1> QED
  BY <1>1, <1>2, <1>3, <1>4, <1>5, <1>6, <1>7, <1>8, <1>9, <1>10, <1>11, <1>12, <1>13, <1>14
     DEF PreparationStep

LEMMA ReviewAuthority == Authority /\ ReviewStep => Authority'
<1> SUFFICES ASSUME Authority, ReviewStep PROVE Authority'
  OBVIOUS
<1> USE StopIsAway DEF Rest
<1>1. CASE GiveFeedback
  BY <1>1, AwayFromSolver DEF GiveFeedback, Receive, decision
<1>2. CASE ConfirmRevision
  BY <1>2, AwayFromSolver DEF ConfirmRevision, GoTo, ExecutionPositions
<1>3. CASE RejectRevision
  BY <1>3, AwayFromSolver DEF RejectRevision, decision
<1>4. CASE Solve
  <2>1. ReducedOnly(execution_approval')
    BY <1>4 DEF Solve, Issue, Unset, ReducedOnly
  <2>2. pc' = "engine"
    BY <1>4 DEF Solve, GoTo
  <2> QED
    BY <2>1, <2>2 DEF Authority, ReducedOnly
<1>5. CASE Accept
  BY <1>5, AwayFromSolver DEF Accept, decision
<1> QED
  BY <1>1, <1>2, <1>3, <1>4, <1>5 DEF ReviewStep

\* A step that leaves the approval and the mesh evidence alone keeps the
\* authority on its way from one execution position to another.
LEMMA StaysInForce ==
    ASSUME Authority, UNCHANGED <<solve_approved, execution_approval, mesh_manifest>>,
           \/ pc \in {"attempt", "solving"} /\ pc' \in ExecutionPositions
           \/ pc \in {"repair", "repair_members"} /\ pc' \in {"repair", "repair_members"}
    PROVE  Authority'
BY DEF Authority, ExecutionPositions, InForce, ReducedOnly

LEMMA RuntimeAuthority == AInv /\ RuntimeStep => Authority'
<1> SUFFICES ASSUME AInv, RuntimeStep PROVE Authority'
  OBVIOUS
<1> USE StopIsAway DEF Rest, AInv
<1>1. CASE RuntimeEntry
  <2>1. CASE \E st \in {"FAILED", "ENGINEERING_REVIEW_REQUIRED"} : Rest(st)
    BY <1>1, <2>1, AwayFromSolver DEF RuntimeEntry, decision
  <2>2. CASE EntryIntact /\ GoTo("attempt", 0, NoMembers)
    BY <1>1, <2>2
       DEF RuntimeEntry, EntryIntact, GoTo, decision, Authority, InForce, ReducedOnly
  <2> QED
    BY <1>1, <2>1, <2>2 DEF RuntimeEntry
<1>2. CASE StartSolver
  <2>1. UNCHANGED <<execution_approval, solve_approved, mesh_manifest>> /\ pc = "attempt"
    BY <1>2 DEF StartSolver, decision
  <2>2. CASE \E st : Rest(st)
    BY <2>1, <2>2, AwayFromSolver
  <2>3. CASE GoTo("solving", 0, NoMembers)
    BY <2>1, <2>3, StaysInForce DEF GoTo, ExecutionPositions
  <2> QED
    BY <1>2, <2>2, <2>3 DEF StartSolver
<1>3. CASE SolverSucceeds \/ SolverUndecided
  BY <1>3, AwayFromSolver DEF SolverSucceeds, SolverUndecided, decision
<1>4. CASE SolverFails
  <2>1. UNCHANGED <<execution_approval, mesh_manifest>> /\ pc = "solving"
    BY <1>4 DEF SolverFails
  <2>2. CASE \E st : Rest(st)
    BY <2>1, <2>2, AwayFromSolver
  <2>3. CASE GoTo("repair", 1, NoMembers) /\ UNCHANGED solve_approved
    BY <2>1, <2>3, StaysInForce DEF GoTo, ExecutionPositions
  <2> QED
    BY <1>4, <2>2, <2>3 DEF SolverFails
<1>5. CASE RepairWasted \/ RepairWithoutRetry
  BY <1>5, StaysInForce
     DEF RepairWasted, RepairWithoutRetry, AtRepair, AtRepairMember, NextRepairTurn, GoTo,
         decision, evidence
<1>6. CASE RepairRaises
  BY <1>6, AwayFromSolver DEF RepairRaises, Raise, decision
<1>7. CASE RepairEnds \/ RepairMesh
  BY <1>7, AwayFromSolver DEF RepairEnds, RepairMesh, Give
<1>8. \A p \in Plans, delta \in Deltas \cup {<<>>} : DeltaChecked(p, delta) =>
        /\ execution_approval' # None => ReducedOnly(execution_approval')
        /\ execution_approval # None => execution_approval' # None
  <2> SUFFICES ASSUME NEW p \in Plans, NEW delta \in Deltas \cup {<<>>}, DeltaChecked(p, delta)
               PROVE  /\ execution_approval' # None => ReducedOnly(execution_approval')
                      /\ execution_approval # None => execution_approval' # None
    OBVIOUS
  <2>1. CASE execution_approval = None
    BY <2>1 DEF DeltaChecked
  <2>2. CASE execution_approval # None
    <3>1. execution_approval \in Approval /\ disk \in Case /\ ReducedOnly(execution_approval)
      BY <2>2 DEF Inv, TypeOK, DecisionOK, Authority
    <3>2. /\ execution_approval' = Authorize(execution_approval, disk, delta)
          /\ DeltaAuthorized(execution_approval, disk, delta)
      BY <2>2 DEF DeltaChecked
    <3> QED
      BY <3>1, <3>2, AuthorizeReduces, AuthorizeIsApproval, NoneIsNotARecord
  <2> QED
    BY <2>1, <2>2
<1>9. CASE RepairDelta
  <2>1. PICK p \in Plans, delta \in Deltas \cup {<<>>} : DeltaChecked(p, delta)
    BY <1>9 DEF RepairDelta
  <2>2. /\ UNCHANGED <<solve_approved, mesh_manifest>>
        /\ pc = "repair" /\ pc' = "repair_members"
    BY <1>9 DEF RepairDelta, AtRepair, GoTo, evidence
  <2> QED
    BY <1>8, <2>1, <2>2 DEF Authority, InForce, ReducedOnly
<1>10. CASE RepairDeltaUnaffordable
  <2>1. PICK p \in Plans, delta \in Deltas : DeltaChecked(p, delta)
    BY <1>10 DEF RepairDeltaUnaffordable
  <2>2. pc' \notin ExecutionPositions
    BY <1>10 DEF RepairDeltaUnaffordable
  <2> QED
    BY <1>8, <2>1, <2>2 DEF Authority, ExecutionPositions, ReducedOnly
<1>11. CASE RepairWrite
  <2>1. pc = "repair_members"
    BY <1>11 DEF RepairWrite, AtRepairMember
  <2>2. CASE NextRepairTurn /\ UNCHANGED <<decision, evidence>>
    BY <2>1, <2>2, StaysInForce DEF NextRepairTurn, GoTo, decision, evidence
  <2>3. CASE Give("ENGINEERING_REVIEW_REQUIRED")
    BY <2>3, AwayFromSolver DEF Give
  <2>4. CASE /\ UNCHANGED pc
             /\ UNCHANGED <<mesh_manifest, solve_approved, execution_approval>>
    BY <2>1, <2>4, StaysInForce
  <2>5. CASE UNCHANGED pc /\ mesh_manifest' = None /\ execution_approval' = None
    BY <2>1, <2>5 DEF Authority
  <2> QED
    BY <1>11, <2>2, <2>3, <2>4, <2>5 DEF RepairWrite, Continue, GoTo
<1>12. CASE RepairPresolve
  BY <1>12, StaysInForce
     DEF RepairPresolve, AtRepairMember, NextRepairTurn, Continue, GoTo, decision
<1>13. CASE RetrySolver
  <2>1. pc = "repair_members" /\ UNCHANGED mesh_manifest
    BY <1>13 DEF RetrySolver, AtRepairMember
  <2>2. CASE NextRepairTurn /\ UNCHANGED decision
    BY <2>1, <2>2, StaysInForce DEF NextRepairTurn, GoTo, decision
  <2>3. CASE /\ MeshEvidenceCurrent
             /\ GoTo("attempt", 0, NoMembers)
             /\ UNCHANGED <<solve_approved, execution_approval>>
    <3>1. mesh_manifest # None
      <4>1. MeshDigest(disk) \in MeshManifest
        BY DigestIsManifest DEF Inv, TypeOK
      <4> QED
        BY <2>3, <4>1, NoneIsNotARecord DEF MeshEvidenceCurrent
    <3> QED
      BY <2>1, <2>3, <3>1 DEF GoTo, Authority, InForce, ReducedOnly
  <2> QED
    BY <1>13, <2>2, <2>3 DEF RetrySolver, RetryAllowed
<1> QED
  BY <1>1, <1>2, <1>3, <1>4, <1>5, <1>6, <1>7, <1>9, <1>10, <1>11, <1>12, <1>13
     DEF RuntimeStep

LEMMA AuthorityInvariance == Spec => []AInv
<1>1. Init => AInv
  BY InitInv DEF Init, AInv, Authority
<1>2. AInv /\ [Next]_vars => AInv'
  <2> SUFFICES ASSUME AInv, [Next]_vars PROVE AInv'
    OBVIOUS
  <2>1. Inv'
    BY NextInv DEF AInv
  <2>2. CASE Tamper \/ UNCHANGED vars
    BY <2>1, <2>2
       DEF Tamper, vars, decision, evidence, position, AInv, Authority, InForce, ReducedOnly
  <2> QED
    BY <2>1, <2>2, PreparationAuthority, ReviewAuthority, RuntimeAuthority
       DEF AInv, Next, Controller
<1> QED
  BY <1>1, <1>2, PTL DEF Spec

\* The approval is in force wherever a solver can start, and no sequence of
\* authorized repairs takes a controlDict above the approved one
\* (contracts/execution.py, check_repair_delta).
THEOREM AuthorityCorrect == Spec => []Authority
<1>1. AInv => Authority
  BY DEF AInv
<1> QED
  BY <1>1, AuthorityInvariance, PTL

(***************************************************************************)
(* ApprovedExecution.  Only StartSolver creates a process; every other     *)
(* step approves, revokes or stutters.                                     *)
(***************************************************************************)
LEMMA GrantIsStarted == Promise!Grant = Started
BY DEF Promise!Grant, Started, Promise!Contracts, Contracts, Promise!Case, Case,
       Promise!Files, Files, Promise!Contents, Contents

LEMMA GrantedType ==
    ASSUME TypeOK'
    PROVE  Granted' \in Promise!Grant \cup {None}
BY GrantIsStarted DEF Granted, TypeOK, DecisionOK, Approval, Started

LEMMA OnlyStartSolver ==
    ASSUME [Next]_vars, ~StartSolver
    PROVE  UNCHANGED ran
<1>1. CASE PreparationStep
  BY <1>1
     DEF PreparationStep, PrepareStart, TurnWasted, TurnBlocks, TurnRaises, AuthorCase,
         DecideRevision, RepairCase, ReviseCase, ReviseCaseRaises, WriteMember, MeshMember,
         CheckMember, PresolveMember, FinishMember, FinishAccepted, TurnsExhausted,
         Finalize, FinalTurnsExhausted, results
<1>2. CASE RuntimeStep
  BY <1>2
     DEF RuntimeStep, RuntimeEntry, SolverSucceeds, SolverUndecided, SolverFails,
         RepairWasted, RepairRaises, RepairEnds, RepairDelta, RepairDeltaUnaffordable,
         RepairWrite, RepairMesh, RepairPresolve, RetrySolver, RepairWithoutRetry, results
<1>3. CASE ReviewStep
  BY <1>3
     DEF ReviewStep, GiveFeedback, ConfirmRevision, RejectRevision, Solve, Accept, results
<1>4. CASE Tamper \/ UNCHANGED vars
  BY <1>4 DEF Tamper, vars, results
<1> QED
  BY <1>1, <1>2, <1>3, <1>4 DEF Next, Controller

\* What StartSolver checks again is what the promise asks for.
LEMMA StartSolverApproved ==
    ASSUME AInv, AInv', StartSolver
    PROVE  Promise!StartProcess \/ UNCHANGED <<Granted, ran>>
<1>1. UNCHANGED Granted
  BY DEF StartSolver, decision, Granted
<1>2. CASE UNCHANGED ran
  BY <1>1, <1>2
<1>3. CASE /\ SealHolds(case_seal, engineering_plan, disk)
           /\ ApprovalCovers(engineering_plan, case_seal.files)
           /\ ran' = [contract |-> ContractOf[engineering_plan], files |-> disk]
  <2>1. /\ InForce
        /\ ReducedOnly(execution_approval)
        /\ execution_approval \in Approval
    BY DEF StartSolver, AInv, Inv, Authority, InForce, TypeOK, DecisionOK
  <2>2. Granted = [contract |-> execution_approval.contract, files |-> execution_approval.files]
    BY <2>1 DEF Granted, InForce
  <2>3. Granted # None
    <3>1. Granted \in Started
      BY <2>1, <2>2 DEF Approval, Started
    <3> QED
      BY <3>1, NoneIsNotARecord
  <2>4. ran' \in Promise!Grant
    BY <1>3, SealedPlan, GrantIsStarted DEF AInv, Inv, TypeOK, Started, Contracts
  <2>5. ran'.contract = Granted.contract
    BY <1>3, <2>2 DEF ApprovalCovers, PlanApproved
  <2>6. FilesApproved(execution_approval, disk)
    BY <1>3 DEF ApprovalCovers, SealHolds
  <2>7. WithinApproval(execution_approval.files, disk)
    <3> SUFFICES ASSUME NEW f \in Files, disk[f] # execution_approval.files[f]
                 PROVE  \/ PathKind(f) = "numerical_dictionary"
                        \/ /\ PathKind(f) = "control_dict"
                           /\ disk[f] <= execution_approval.files[f]
      BY DEF WithinApproval
    <3>1. PathKind(f) # "none" /\ execution_approval.hashes[f] = disk[f]
      BY <2>6 DEF FilesApproved
    <3>2. execution_approval.hashes[f] # None
      BY <3>1, NoneIsNotData DEF AInv, Inv, TypeOK, Case
    <3>3. PathKind(f) \in {"numerical_dictionary", "control_dict", "none"}
      BY DEF PathKind
    <3> QED
      BY <2>1, <3>1, <3>2, <3>3 DEF ReducedOnly
  <2> QED
    BY <1>1, <1>3, <2>2, <2>3, <2>4, <2>5, <2>7
       DEF Promise!StartProcess, Promise!WithinApproval, WithinApproval,
           Promise!Files, Files, Promise!PathKind, PathKind
<1> QED
  BY <1>2, <1>3 DEF StartSolver

\* No solver process is ever created on a case the user did not approve, nor on
\* one that repairs took beyond what the approval delegates
\* (runtime/orchestrator.py, contracts/execution.py).
THEOREM ApprovedCorrect == Spec => Approved
<1>1. Init => Promise!Init
  BY DEF Init, Promise!Init, Granted
<1>2. AInv /\ AInv' /\ [Next]_vars => [Promise!Next]_(Promise!vars)
  <2> SUFFICES ASSUME AInv, AInv', [Next]_vars
               PROVE  Promise!Next \/ UNCHANGED <<Granted, ran>>
    BY DEF Promise!vars
  <2>1. CASE StartSolver
    BY <2>1, StartSolverApproved DEF Promise!Next
  <2>2. CASE ~StartSolver
    <3>1. UNCHANGED ran
      BY <2>2, OnlyStartSolver
    <3>2. Granted' \in Promise!Grant \cup {None}
      BY GrantedType DEF AInv, Inv
    <3> QED
      BY <3>1, <3>2 DEF Promise!Next, Promise!Approve, Promise!Revoke
  <2> QED
    BY <2>1, <2>2
<1> QED
  BY <1>1, <1>2, AuthorityInvariance, PTL DEF Spec, Approved, Promise!Spec

(***************************************************************************)
(* What the user reviews: at a review gate the result is that of the       *)
(* sealed case; a revision that waits for the user has the seal and plan   *)
(* of the case its proposal was made for; feedback that was settled stays  *)
(* as it is; and where nobody else edits files, the case at a gate is the  *)
(* sealed one and a revision shows no result of a case it has changed.     *)
(***************************************************************************)
RInv == Inv /\ ResultHolds

PreparationPositions == {"turn", "members", "finalize"}
ResultGates == {"RESULT_REVIEW_REQUIRED", "COMPLETE", "REVISION_READY"}

\* Outside the gates, a preparation and a solver run there is nothing to show.
LEMMA Quiet ==
    ASSUME current_state' \notin ResultGates,
           pc' \notin PreparationPositions \cup {"engine", "solving"}
    PROVE  ResultHolds'
BY DEF ResultHolds, ReviewedResultIsSealed, ResultGates, PreparationPositions

LEMMA StopIsQuiet ==
    ASSUME NEW st, NEW e, Stop(st, e), st \notin ResultGates
    PROVE  ResultHolds'
BY Quiet DEF Stop, PreparationPositions

LEMMA WorkingState ==
    ASSUME ResultHolds, pc # "rest"
    PROVE  current_state \notin ResultGates
BY DEF ResultHolds, ResultGates

\* A turn that changes neither the case nor its result.
LEMMA TurnKeepsResult ==
    ASSUME ResultHolds, pc \in PreparationPositions,
           pc' \in {"turn", "finalize"},
           UNCHANGED <<current_state, engineering_plan, case_seal, simulation, archived, feedback>>
    PROVE  ResultHolds'
<1>1. current_state' \notin ResultGates
  BY WorkingState DEF PreparationPositions
<1>2. ProposalOfResult' => ProposalOfResult
  BY DEF ProposalOfResult, RevisionInProgress, feedback
<1>3. ResultIsSealed => ResultIsSealed'
  BY DEF ResultIsSealed
<1>4. CASE pc \in {"turn", "finalize"}
  BY <1>1, <1>2, <1>3, <1>4 DEF ResultHolds, ReviewedResultIsSealed, ResultGates
<1>5. CASE pc = "members"
  BY <1>1, <1>2, <1>5
     DEF ResultHolds, ReviewedResultIsSealed, ResultGates, ProposalOfResult
<1> QED
  BY <1>4, <1>5 DEF PreparationPositions

\* The members of a revision run after its outputs were archived.
LEMMA MemberKeepsResult ==
    ASSUME ResultHolds, pc = "members", pc' \in {"turn", "members"},
           UNCHANGED <<current_state, archived, feedback>>
    PROVE  ResultHolds'
<1>1. current_state' \notin ResultGates
  BY WorkingState
<1>2. RevisionInProgress' => archived'
  BY DEF ResultHolds, RevisionInProgress, feedback
<1>3. ProposalOfResult' => archived'
  BY <1>2 DEF ProposalOfResult
<1> QED
  BY <1>1, <1>2, <1>3 DEF ResultHolds, ReviewedResultIsSealed, ResultGates

LEMMA StatusKeepsGate ==
    ASSUME NEW i, NEW j \in DOMAIN human_feedback, NEW st \in FeedbackStatus,
           human_feedback \in Seq(Feedback)
    PROVE  WithStatus(i, st)[j].submitted_state = human_feedback[j].submitted_state
<1>1. human_feedback \in [1 .. Len(human_feedback) -> Feedback]
  BY LenProperties
<1> QED
  BY <1>1 DEF WithStatus, Feedback

(***************************************************************************)
(* Preparation.                                                            *)
(***************************************************************************)
LEMMA TurnRaisesResult ==
    ASSUME RInv, TurnRaises
    PROVE  ResultHolds'
<1> USE DEF RInv
<1>1. CASE \E st \in {"ENGINEERING_BLOCKED", "FAILED"} : Raise(st)
  BY <1>1, StopIsQuiet DEF Raise, ResultGates
<1>2. CASE RevisionInProgress /\ Unmutated /\ RestoreRevisionReady
  <2> DEFINE i == active_revision_proposal.feedback
  <2>1. /\ current_state' = "REVISION_READY" /\ pc' = "rest"
        /\ UNCHANGED <<active_revision_proposal, engineering_plan, case_seal, simulation>>
    BY <1>2 DEF TurnRaises, RestoreRevisionReady, Raise, Stop, decision, results
  <2>2. human_feedback'[i].submitted_state = human_feedback[i].submitted_state
    BY <1>2, StatusKeepsGate
       DEF RestoreRevisionReady, ProposedAgain, FeedbackStatus, Inv, TypeOK, FeedbackOK,
           ProposalHolds, RevisionInProgress
  <2>3. ProposalOfResult' => ProposalOfResult
    BY <2>1, <2>2 DEF ProposalOfResult, RevisionInProgress
  <2>4. ProposalOfResult => ResultIsSealed
    BY <1>2 DEF TurnRaises, AtTurn, Unmutated, ResultHolds
  <2>5. ResultIsSealed => ResultIsSealed'
    BY <2>1 DEF ResultIsSealed
  <2> QED
    BY <2>1, <2>3, <2>4, <2>5 DEF ResultHolds, ReviewedResultIsSealed
<1> QED
  BY <1>1, <1>2 DEF TurnRaises

LEMMA PreparationResult ==
    ASSUME RInv, PreparationStep
    PROVE  ResultHolds'
<1> USE DEF RInv, Rest, Raise, ResultGates
<1>1. CASE PrepareStart
  <2>1. CASE GoTo("turn", 1, NoMembers) /\ UNCHANGED current_state
    <3>1. current_state' = "ENGINEERING" /\ pc' = "turn" /\ ~RevisionInProgress
      BY <1>1, <2>1 DEF PrepareStart, GoTo, ResultHolds
    <3>2. ~RevisionInProgress'
      BY <1>1, <3>1 DEF PrepareStart, feedback, RevisionInProgress
    <3> QED
      BY <3>1, <3>2 DEF ResultHolds, ReviewedResultIsSealed, ProposalOfResult
  <2> QED
    BY <1>1, <2>1, StopIsQuiet DEF PrepareStart
<1>2. CASE TurnWasted \/ DecideRevision
  BY <1>2, TurnKeepsResult
     DEF TurnWasted, DecideRevision, AtTurn, NextTurn, GoTo, PreparationPositions,
         decision, results, revision
<1>3. CASE TurnBlocks
  BY <1>3, StopIsQuiet DEF TurnBlocks
<1>4. CASE TurnRaises
  BY <1>4, TurnRaisesResult
<1>5. CASE AuthorCase \/ RepairCase \/ ReviseCase
  <2>1. /\ UNCHANGED <<current_state, feedback>> /\ pc # "rest" /\ pc' = "members"
        /\ RevisionInProgress => archived'
    BY <1>5 DEF AuthorCase, RepairCase, ReviseCase, AtTurn, RunMembers, ArchiveOutputs
  <2>2. RevisionInProgress' => archived'
    BY <2>1 DEF RevisionInProgress, feedback
  <2> QED
    BY <2>1, <2>2, WorkingState DEF ResultHolds, ReviewedResultIsSealed, ProposalOfResult
<1>6. CASE ReviseCaseRaises
  BY <1>6, StopIsQuiet DEF ReviseCaseRaises
<1>7. CASE WriteMember
  BY <1>7, MemberKeepsResult, StopIsQuiet
     DEF WriteMember, AtMember, MemberFails, Continue, NextTurn, GoTo, revision
<1>8. CASE MeshMember
  BY <1>8, MemberKeepsResult, StopIsQuiet
     DEF MeshMember, AtMember, Continue, NextTurn, GoTo, revision
<1>9. CASE CheckMember
  BY <1>9, MemberKeepsResult, StopIsQuiet
     DEF CheckMember, AtMember, MemberFails, Continue, NextTurn, GoTo, revision
<1>10. CASE PresolveMember
  BY <1>10, MemberKeepsResult, StopIsQuiet
     DEF PresolveMember, AtMember, MemberFails, Continue, NextTurn, GoTo, revision
<1>11. CASE FinishMember
  BY <1>11, MemberKeepsResult, StopIsQuiet
     DEF FinishMember, FinishAccepted, AtMember, NextTurn, GoTo, revision
<1>12. CASE TurnsExhausted
  <2>1. CASE GoTo("finalize", 1, NoMembers) /\ UNCHANGED current_state
    BY <1>12, <2>1, TurnKeepsResult
       DEF TurnsExhausted, GoTo, PreparationPositions, decision, results, revision
  <2> QED
    BY <1>12, <2>1, StopIsQuiet DEF TurnsExhausted
<1>13. CASE Finalize
  <2>1. CASE /\ GoTo("finalize", TurnSpent, NoMembers)
             /\ UNCHANGED <<current_state, decision, feedback, revision, results>>
    BY <1>13, <2>1, TurnKeepsResult
       DEF Finalize, GoTo, PreparationPositions, decision, results, revision
  <2> QED
    BY <1>13, <2>1, StopIsQuiet DEF Finalize, FinishAccepted
<1>14. CASE FinalTurnsExhausted
  BY <1>14, StopIsQuiet DEF FinalTurnsExhausted
<1> QED
  BY <1>1, <1>2, <1>3, <1>4, <1>5, <1>6, <1>7, <1>8, <1>9, <1>10, <1>11, <1>12, <1>13, <1>14
     DEF PreparationStep

(***************************************************************************)
(* Execution.                                                              *)
(***************************************************************************)
\* The solver ran on the sealed case, so its result is the one of that case.
LEMMA CapturedIsSealed ==
    ASSUME RInv, pc = "solving", NEW outcome \in Outcomes, Captured(outcome),
           UNCHANGED <<engineering_plan, case_seal>>
    PROVE  ResultIsSealed'
<1> USE DEF RInv
<1>1. case_seal = Seal(engineering_plan, ran.files) /\ engineering_plan \in Plans
  BY DEF ResultHolds, Inv, PositionHolds, TypeOK, DecisionOK
<1>2. ran.files \in Case
  BY DEF Inv, PositionHolds, TypeOK, ResultsOK, Started
<1>3. case_seal # None
  BY <1>1, <1>2, SealIsSeal, NoneIsNotARecord
<1>4. /\ simulation' = [plan |-> engineering_plan, files |-> ran.files, outcome |-> outcome]
      /\ simulation'.plan = engineering_plan /\ simulation'.files = ran.files
  BY DEF Captured
<1>5. simulation' # None
  <2>1. simulation' \in Result
    BY <1>1, <1>2, <1>4 DEF Result
  <2> QED
    BY <2>1, NoneIsNotARecord
<1>6. case_seal.plan = engineering_plan /\ case_seal.files = ran.files
  BY <1>1 DEF Seal
<1> QED
  BY <1>3, <1>4, <1>5, <1>6 DEF ResultIsSealed

LEMMA RuntimeResult ==
    ASSUME RInv, RuntimeStep
    PROVE  ResultHolds'
<1> USE DEF RInv, Rest, Raise, ResultGates
<1>1. CASE RuntimeEntry
  BY <1>1, StopIsQuiet, Quiet, WorkingState DEF RuntimeEntry, GoTo, PreparationPositions
<1>2. CASE StartSolver
  <2>1. CASE \E st \in {"FAILED", "ENGINEERING_BLOCKED"} : Rest(st)
    BY <2>1, StopIsQuiet
  <2>2. CASE /\ SealHolds(case_seal, engineering_plan, disk)
             /\ ran' = [contract |-> ContractOf[engineering_plan], files |-> disk]
             /\ GoTo("solving", 0, NoMembers)
             /\ UNCHANGED current_state
    <3>1. case_seal' = Seal(engineering_plan', ran'.files)
      BY <1>2, <2>2 DEF StartSolver, SealHolds, Seal, decision, Inv, TypeOK, DecisionOK, CaseSeal
    <3>2. current_state' \notin ResultGates /\ pc' = "solving"
      BY <1>2, <2>2, WorkingState DEF StartSolver, GoTo
    <3> QED
      BY <3>1, <3>2 DEF ResultHolds, ReviewedResultIsSealed
  <2> QED
    BY <1>2, <2>1, <2>2 DEF StartSolver
<1>3. CASE SolverSucceeds \/ SolverUndecided
  <2>1. PICK outcome \in Outcomes : Captured(outcome)
    BY <1>3 DEF SolverSucceeds, SolverUndecided, Outcomes
  <2>2. pc = "solving" /\ UNCHANGED <<engineering_plan, case_seal>>
    BY <1>3 DEF SolverSucceeds, SolverUndecided, decision
  <2>3. ResultIsSealed'
    BY <2>1, <2>2, CapturedIsSealed
  <2>4. /\ pc' = "rest"
        /\ current_state' \in {"RESULT_REVIEW_REQUIRED", "ENGINEERING_BLOCKED"}
    BY <1>3 DEF SolverSucceeds, SolverUndecided, Stop
  <2> QED
    BY <2>3, <2>4 DEF ResultHolds, ReviewedResultIsSealed
<1>4. CASE SolverFails
  BY <1>4, StopIsQuiet, Quiet DEF SolverFails, GoTo, PreparationPositions
<1>5. CASE RepairWasted \/ RepairWithoutRetry
  BY <1>5, Quiet, WorkingState
     DEF RepairWasted, RepairWithoutRetry, AtRepair, AtRepairMember, NextRepairTurn, GoTo,
         PreparationPositions
<1>6. CASE RepairRaises
  BY <1>6, StopIsQuiet DEF RepairRaises
<1>7. CASE RepairEnds \/ RepairMesh
  BY <1>7, StopIsQuiet DEF RepairEnds, RepairMesh, Give
<1>8. CASE RepairDelta
  BY <1>8, Quiet, WorkingState DEF RepairDelta, AtRepair, GoTo, PreparationPositions
<1>9. CASE RepairDeltaUnaffordable
  BY <1>9, StopIsQuiet DEF RepairDeltaUnaffordable
<1>10. CASE RepairWrite
  BY <1>10, StopIsQuiet, Quiet, WorkingState
     DEF RepairWrite, AtRepairMember, NextRepairTurn, Continue, GoTo, Give, PreparationPositions
<1>11. CASE RepairPresolve
  BY <1>11, Quiet, WorkingState
     DEF RepairPresolve, AtRepairMember, NextRepairTurn, Continue, GoTo, PreparationPositions
<1>12. CASE RetrySolver
  BY <1>12, Quiet, WorkingState
     DEF RetrySolver, AtRepairMember, NextRepairTurn, GoTo, PreparationPositions
<1> QED
  BY <1>1, <1>2, <1>3, <1>4, <1>5, <1>6, <1>7, <1>8, <1>9, <1>10, <1>11, <1>12
     DEF RuntimeStep

(***************************************************************************)
(* Review.                                                                 *)
(***************************************************************************)
LEMMA GiveFeedbackResult ==
    ASSUME RInv, GiveFeedback
    PROVE  ResultHolds'
<1> USE DEF RInv
<1>1. /\ pc' = "rest"
      /\ UNCHANGED <<engineering_plan, case_seal, simulation>>
      /\ current_state \in FeedbackGates
  BY DEF GiveFeedback, Receive, Rest, Stop, decision, results
<1>2. ResultIsSealed <=> ResultIsSealed'
  BY <1>1 DEF ResultIsSealed
<1>3. current_state = "RESULT_REVIEW_REQUIRED" => ResultIsSealed
  BY DEF ResultHolds, ReviewedResultIsSealed
<1>4. CASE /\ current_state' = current_state /\ active_revision_proposal' = None
  BY <1>1, <1>2, <1>3, <1>4
     DEF ResultHolds, ReviewedResultIsSealed, ProposalOfResult, RevisionInProgress, FeedbackGates
<1>5. CASE current_state' = "ENGINEERING_REVIEW_REQUIRED"
  BY <1>1, <1>5, Quiet DEF ResultGates, PreparationPositions
<1>6. CASE /\ current_state' = "REVISION_READY"
           /\ Receive("revision_proposed", NewProposal(FALSE), "REVISION_READY")
  <2> DEFINE fb == [status |-> "revision_proposed", submitted_state |-> current_state]
  <2>1. /\ human_feedback' = Append(human_feedback, fb)
        /\ active_revision_proposal'.feedback = Len(human_feedback) + 1
    BY <1>6 DEF Receive, NewProposal
  <2>2. human_feedback \in Seq(Feedback) /\ fb \in Feedback
    BY <1>1 DEF Inv, TypeOK, FeedbackOK, Feedback, FeedbackStatus
  <2>3. Append(human_feedback, fb)[Len(human_feedback) + 1] = fb
    BY <2>2, AppendProperties
  <2>4. ProposalOfResult' => current_state = "RESULT_REVIEW_REQUIRED"
    BY <2>1, <2>3 DEF ProposalOfResult
  <2> QED
    BY <1>1, <1>2, <1>3, <1>6, <2>4 DEF ResultHolds, ReviewedResultIsSealed
<1> QED
  BY <1>4, <1>5, <1>6 DEF GiveFeedback, Receive, Rest, Stop

LEMMA ConfirmRevisionResult ==
    ASSUME RInv, ConfirmRevision
    PROVE  ResultHolds'
<1> USE DEF RInv
<1>1. CASE Rest("ENGINEERING_BLOCKED")
  BY <1>1, StopIsQuiet DEF Rest, ResultGates
<1>2. CASE /\ human_feedback' = WithStatus(active_revision_proposal.feedback,
                                           "revision_in_progress")
           /\ current_state' = "ENGINEERING"
           /\ GoTo("turn", 1, NoMembers)
  <2> DEFINE i == active_revision_proposal.feedback
  <2>1. /\ pc' = "turn"
        /\ UNCHANGED <<active_revision_proposal, engineering_plan, case_seal, simulation>>
    BY <1>2 DEF ConfirmRevision, GoTo, results
  <2>2. RevisionInProgress =>
            human_feedback'[i].submitted_state = human_feedback[i].submitted_state
    BY <1>2, StatusKeepsGate
       DEF FeedbackStatus, Inv, TypeOK, FeedbackOK, ProposalHolds, RevisionInProgress
  <2>3. ProposalOfResult' => ProposalOfResult
    BY <2>1, <2>2 DEF ProposalOfResult, RevisionInProgress
  <2>4. ProposalOfResult => ResultIsSealed
    BY DEF ConfirmRevision, ResultHolds
  <2>5. ResultIsSealed => ResultIsSealed'
    BY <2>1 DEF ResultIsSealed
  <2> QED
    BY <1>2, <2>1, <2>3, <2>4, <2>5 DEF ResultHolds, ReviewedResultIsSealed
<1> QED
  BY <1>1, <1>2 DEF ConfirmRevision

LEMMA RejectRevisionResult ==
    ASSUME RInv, RejectRevision
    PROVE  ResultHolds'
<1> USE DEF RInv
<1> DEFINE st == human_feedback[active_revision_proposal.feedback].submitted_state
<1>1. /\ current_state' = st /\ pc' = "rest" /\ active_revision_proposal' = None
      /\ UNCHANGED <<engineering_plan, case_seal, simulation>>
  BY DEF RejectRevision, Rest, Stop, decision, results
<1>2. st \in FeedbackGates
  <2>1. human_feedback[active_revision_proposal.feedback] \in Feedback
    BY ElementOfSeq, LenProperties DEF RejectRevision, Inv, ProposalHolds, TypeOK, FeedbackOK
  <2> QED
    BY <2>1 DEF Feedback
<1>3. st = "RESULT_REVIEW_REQUIRED" => ResultIsSealed
  BY DEF RejectRevision, ResultHolds, ProposalOfResult, RevisionInProgress
<1>4. ResultIsSealed => ResultIsSealed'
  BY <1>1 DEF ResultIsSealed
<1> QED
  BY <1>1, <1>2, <1>3, <1>4
     DEF ResultHolds, ReviewedResultIsSealed, ProposalOfResult, RevisionInProgress, FeedbackGates

LEMMA ReviewResult ==
    ASSUME RInv, ReviewStep
    PROVE  ResultHolds'
<1> USE DEF RInv
<1>1. CASE Solve
  <2>1. current_state' = "SIMULATION" /\ pc' = "engine"
    BY <1>1 DEF Solve, GoTo, evidence
  <2> QED
    BY <2>1 DEF ResultHolds, ReviewedResultIsSealed
<1>2. CASE Accept
  <2>1. /\ pc' = "rest" /\ current_state' = "COMPLETE"
        /\ UNCHANGED <<engineering_plan, case_seal, simulation>>
    BY <1>2 DEF Accept, Rest, Stop, decision, results
  <2>2. ResultIsSealed
    BY <1>2 DEF Accept, ResultHolds, ReviewedResultIsSealed
  <2>3. ResultIsSealed'
    BY <2>1, <2>2 DEF ResultIsSealed
  <2> QED
    BY <2>1, <2>3 DEF ResultHolds, ReviewedResultIsSealed
<1> QED
  BY <1>1, <1>2, GiveFeedbackResult, ConfirmRevisionResult, RejectRevisionResult
     DEF ReviewStep

LEMMA UndisturbedResult ==
    ASSUME RInv, UNCHANGED <<current_state, decision, feedback, revision, results, position>>
    PROVE  ResultHolds'
BY DEF RInv, ResultHolds, ReviewedResultIsSealed, ResultIsSealed, ProposalOfResult,
       RevisionInProgress, decision, feedback, revision, results, position

LEMMA ResultInvariance == Spec => []RInv
<1>1. Init => RInv
  BY InitInv
     DEF Init, RInv, ResultHolds, ReviewedResultIsSealed, ProposalOfResult, RevisionInProgress
<1>2. RInv /\ [Next]_vars => RInv'
  <2> SUFFICES ASSUME RInv, [Next]_vars PROVE RInv'
    OBVIOUS
  <2>1. Inv'
    BY NextInv DEF RInv
  <2>2. ResultHolds'
    BY PreparationResult, RuntimeResult, ReviewResult, UndisturbedResult
       DEF Next, Controller, Tamper, vars
  <2> QED
    BY <2>1, <2>2 DEF RInv
<1> QED
  BY <1>1, <1>2, PTL DEF Spec

\* A result under review, or accepted, was computed from exactly the plan and
\* the files that are sealed now: no repair, revision, failed review or rejected
\* proposal leaves the result of another case on the table (workflow/state.py,
\* engineering/agent.py, review/agent.py).
THEOREM ReviewedResultCorrect == Spec => []ReviewedResultIsSealed
<1>1. RInv => ReviewedResultIsSealed
  BY DEF RInv, ResultHolds
<1> QED
  BY <1>1, ResultInvariance, PTL

(***************************************************************************)
(* The gates between a proposal and its revision.                          *)
(***************************************************************************)
Undisturbed == tampers = 0 => UndisturbedHolds

GInv == RInv /\ SealNamesPlan /\ RevisionHolds /\ Undisturbed

PreviewStates == {"ENGINEERING", "SOLVE_READY"} \cup ResultGates

\* The plan in force and the seal change together.
LEMMA PlanSealedTogether ==
    ASSUME GInv, [Next]_vars
    PROVE  SealNamesPlan'
<1>1. CASE UNCHANGED <<engineering_plan, case_seal>>
  BY <1>1 DEF GInv, SealNamesPlan
<1>2. CASE case_seal' = None
  BY <1>2 DEF SealNamesPlan
<1>3. ASSUME NEW p, NEW d, engineering_plan' = p, case_seal' = Seal(p, d)
      PROVE  SealNamesPlan'
  BY <1>3 DEF SealNamesPlan, Seal
<1> QED
  <2>1. CASE PreparationStep
    BY <2>1, <1>1, <1>2, <1>3
       DEF PreparationStep, PrepareStart, TurnWasted, TurnBlocks, TurnRaises, AuthorCase,
           DecideRevision, RepairCase, ReviseCase, ReviseCaseRaises, WriteMember, InvalidateMesh,
           MeshMember, CheckMember, PresolveMember, FinishMember, TurnsExhausted, Finalize,
           FinalTurnsExhausted, FinishAccepted, decision
  <2>2. CASE RuntimeStep
    BY <2>2, <1>1, <1>2, <1>3
       DEF RuntimeStep, RuntimeEntry, StartSolver, SolverSucceeds, SolverUndecided, SolverFails,
           RepairWasted, RepairRaises, RepairEnds, RepairDelta, RepairDeltaUnaffordable,
           RepairWrite, RepairMesh, RepairPresolve, RetrySolver, RepairWithoutRetry, Give,
           decision
  <2>3. CASE ReviewStep \/ Tamper \/ UNCHANGED vars
    BY <2>3, <1>1
       DEF ReviewStep, GiveFeedback, ConfirmRevision, RejectRevision, Solve, Accept, Tamper,
           vars, decision
  <2> QED
    BY <2>1, <2>2, <2>3 DEF Next, Controller

\* Outside preparation and the gates only the sealed positions count.
LEMMA QuietGates ==
    ASSUME current_state' \notin PreviewStates, pc' \notin PreparationPositions,
           pc' \in {"engine", "attempt", "solving"} /\ tampers' = 0 => SealedCase'
    PROVE  RevisionHolds' /\ Undisturbed'
BY DEF RevisionHolds, RevisionReadyBaseline, Undisturbed, UndisturbedHolds, SealedPositions,
       Preparing, PreviewStates, ResultGates, PreparationPositions

LEMMA StopIsQuietGates ==
    ASSUME NEW st, NEW e, Stop(st, e), st \notin PreviewStates
    PROVE  RevisionHolds' /\ Undisturbed'
BY QuietGates DEF Stop, PreparationPositions

\* A solver and its repairs are outside of both.
LEMMA SolverState ==
    ASSUME GInv, pc \in {"attempt", "solving", "repair", "repair_members"}
    PROVE  current_state \notin PreviewStates
BY WorkingState DEF GInv, RInv, RevisionHolds, Preparing, PreviewStates, ResultGates

\* A turn that changes neither the case nor what is kept about it.
LEMMA TurnKeepsGates ==
    ASSUME GInv, pc \in {"turn", "finalize"}, pc' \in {"turn", "finalize"},
           UNCHANGED <<current_state, decision, mesh_manifest, simulation, archived, feedback,
                       disk, tampers>>
    PROVE  RevisionHolds' /\ Undisturbed'
<1>1. current_state' \notin {"SOLVE_READY", "REVISION_READY"}
  BY WorkingState DEF GInv, RInv, RevisionHolds, ResultGates
<1>2. /\ Preparing /\ Preparing'
      /\ RevisionInProgress' <=> RevisionInProgress
      /\ RevisionFeedback' = RevisionFeedback
      /\ BaselineSealed => BaselineSealed'
      /\ SealedCase => SealedCase'
  BY DEF Preparing, RevisionInProgress, RevisionFeedback, BaselineSealed, SealedCase,
         MeshEvidenceCurrent, decision, feedback
<1>3. RevisionHolds'
  BY <1>1, <1>2 DEF GInv, RevisionHolds, RevisionReadyBaseline
<1>4. Undisturbed'
  BY <1>1, <1>2
     DEF GInv, Undisturbed, UndisturbedHolds, SealedPositions, decision, feedback
<1> QED
  BY <1>3, <1>4

\* The members of a delta run after the archive, on a case without a result.
LEMMA MemberKeepsGates ==
    ASSUME GInv, pc = "members", pc' \in {"turn", "members"},
           UNCHANGED <<current_state, simulation, archived, feedback, tampers>>
    PROVE  RevisionHolds' /\ Undisturbed'
<1>1. current_state' \notin {"SOLVE_READY", "REVISION_READY"}
  BY WorkingState DEF GInv, RInv, RevisionHolds, ResultGates
<1>2. /\ RevisionInProgress' <=> RevisionInProgress
      /\ RevisionFeedback' = RevisionFeedback
      /\ Preparing /\ Preparing'
  BY DEF Preparing, RevisionInProgress, RevisionFeedback, feedback
<1>3. RevisionInProgress' => archived'
  BY <1>2 DEF GInv, RInv, ResultHolds
<1>4. RevisionHolds'
  BY <1>1, <1>2, <1>3 DEF GInv, RevisionHolds, RevisionReadyBaseline
<1>5. tampers' = 0 => simulation' = None
  BY DEF GInv, Undisturbed, UndisturbedHolds
<1> QED
  BY <1>1, <1>3, <1>4, <1>5 DEF Undisturbed, UndisturbedHolds, SealedPositions

\* What a status change does to the records of the user's feedback.
LEMMA StatusChanges ==
    ASSUME human_feedback \in Seq(Feedback), NEW i \in DOMAIN human_feedback,
           NEW st \in FeedbackStatus
    PROVE  /\ DOMAIN WithStatus(i, st) = DOMAIN human_feedback
           /\ WithStatus(i, st)[i].status = st
           /\ WithStatus(i, st)[i].submitted_state = human_feedback[i].submitted_state
           /\ \A j \in DOMAIN human_feedback \ {i} : WithStatus(i, st)[j] = human_feedback[j]
<1>1. human_feedback \in [1 .. Len(human_feedback) -> Feedback]
  BY LenProperties
<1> QED
  BY <1>1 DEF WithStatus, Feedback

LEMMA ProposalFeedback ==
    ASSUME GInv, RevisionInProgress
    PROVE  /\ human_feedback \in Seq(Feedback)
           /\ active_revision_proposal \in Proposal
           /\ active_revision_proposal.feedback \in DOMAIN human_feedback
           /\ RevisionFeedback \in Feedback
<1>1. /\ human_feedback \in Seq(Feedback)
      /\ active_revision_proposal \in Proposal
      /\ active_revision_proposal.feedback \in DOMAIN human_feedback
  BY DEF GInv, RInv, Inv, TypeOK, FeedbackOK, ProposalHolds, RevisionInProgress
<1> QED
  BY <1>1, ElementOfSeq, LenProperties DEF RevisionFeedback

(***************************************************************************)
(* Preparation.                                                            *)
(***************************************************************************)
\* The proposal comes back to the case it was made for.
LEMMA RestoreGates ==
    ASSUME GInv, AtTurn, RevisionInProgress, Unmutated, RestoreRevisionReady,
           UNCHANGED <<decision, mesh_manifest, results, disk, tampers>>
    PROVE  RevisionHolds' /\ Undisturbed'
<1> DEFINE i == active_revision_proposal.feedback
<1>1. /\ Preparing /\ ~archived
      /\ current_state' = "REVISION_READY" /\ pc' = "rest"
      /\ UNCHANGED <<active_revision_proposal, engineering_plan, case_seal, simulation>>
  BY DEF AtTurn, Preparing, Unmutated, RestoreRevisionReady, Raise, Stop, decision, results
<1>2. BaselineSealed /\ BaselineSealed' /\ case_seal' # None
  BY <1>1 DEF GInv, RevisionHolds, BaselineSealed, Unmutated
<1>3. human_feedback' = WithStatus(i, "revision_proposed")
  BY <1>1 DEF GInv, RevisionHolds, RevisionFeedback, RestoreRevisionReady, ProposedAgain
<1>4. /\ RevisionFeedback'.status = "revision_proposed"
      /\ RevisionFeedback'.submitted_state = RevisionFeedback.submitted_state
  BY <1>1, <1>3, ProposalFeedback, StatusChanges DEF RevisionFeedback, FeedbackStatus
<1>5. RevisionInProgress'
  BY <1>1 DEF RevisionInProgress
<1>6. RevisionHolds'
  BY <1>1, <1>2, <1>4, <1>5
     DEF RevisionHolds, RevisionReadyBaseline, BaselineSealed, RevisionFeedback,
         RevisionInProgress, Preparing
<1>7. Undisturbed'
  <2> SUFFICES ASSUME tampers' = 0 PROVE UndisturbedHolds'
    BY DEF Undisturbed
  <2>1. UndisturbedHolds /\ SealedPositions
    BY <1>1 DEF GInv, Undisturbed, SealedPositions
  <2>2. SealedCase'
    BY <1>1, <2>1 DEF UndisturbedHolds, SealedCase, MeshEvidenceCurrent
  <2> QED
    BY <1>1, <1>4, <1>5, <2>1, <2>2 DEF UndisturbedHolds, Preparing
<1> QED
  BY <1>6, <1>7

\* An accepted case is sealed as it is, and no result is left beside it.
LEMMA FinishGates ==
    ASSUME GInv, Preparing, NEW p \in Plans, FinishAccepted(p)
    PROVE  RevisionHolds' /\ Undisturbed'
<1>1. /\ current_state' = "SOLVE_READY" /\ pc' = "rest"
      /\ engineering_plan' = p /\ case_seal' = Seal(p, disk)
      /\ UNCHANGED <<mesh_manifest, simulation, disk, tampers>>
  BY DEF FinishAccepted, Rest, Stop, results
<1>2. RevisionHolds'
  BY <1>1 DEF RevisionHolds, RevisionReadyBaseline, Preparing
<1>3. Undisturbed'
  <2> SUFFICES ASSUME tampers' = 0 PROVE UndisturbedHolds'
    BY DEF Undisturbed
  <2>1. case_seal' # None
    <3>1. disk \in Case
      BY DEF GInv, RInv, Inv, TypeOK
    <3> QED
      BY <1>1, <3>1, SealIsSeal, NoneIsNotARecord
  <2>2. SealedCase'
    BY <1>1, <2>1
       DEF FinishAccepted, FinishAllowed, SealedCase, SealHolds, Seal, MeshEvidenceCurrent
  <2>3. UndisturbedHolds
    BY <1>1 DEF GInv, Undisturbed
  <2>4. simulation = None
    BY <2>3 DEF UndisturbedHolds, FinishAccepted, FinishAllowed
  <2> QED
    BY <1>1, <2>2, <2>4 DEF UndisturbedHolds, Preparing
<1> QED
  BY <1>2, <1>3

LEMMA DeltaGates ==
    ASSUME GInv, AuthorCase \/ RepairCase \/ ReviseCase
    PROVE  RevisionHolds' /\ Undisturbed'
<1>1. /\ pc = "turn" /\ pc' = "members"
      /\ UNCHANGED <<current_state, feedback, tampers>>
      /\ RevisionInProgress => archived' /\ simulation' = None
      /\ ~RevisionInProgress => UNCHANGED simulation
  BY DEF AuthorCase, RepairCase, ReviseCase, AtTurn, RunMembers, ArchiveOutputs, ForgetResult,
         results
<1>2. current_state' \notin {"SOLVE_READY", "REVISION_READY"}
  BY <1>1, WorkingState DEF GInv, RInv, RevisionHolds, ResultGates
<1>3. /\ RevisionInProgress' <=> RevisionInProgress
      /\ RevisionFeedback' = RevisionFeedback
      /\ Preparing /\ Preparing'
  BY <1>1 DEF Preparing, RevisionInProgress, RevisionFeedback, feedback
<1>4. RevisionHolds'
  BY <1>1, <1>2, <1>3 DEF GInv, RevisionHolds, RevisionReadyBaseline
<1>5. tampers' = 0 => simulation' = None
  BY <1>1, <1>3 DEF GInv, Undisturbed, UndisturbedHolds
<1> QED
  BY <1>1, <1>2, <1>3, <1>4, <1>5 DEF Undisturbed, UndisturbedHolds, SealedPositions

LEMMA PreparationGates ==
    ASSUME GInv, PreparationStep
    PROVE  RevisionHolds' /\ Undisturbed'
<1> USE DEF Rest, Raise, PreviewStates, ResultGates
<1>1. CASE PrepareStart
  <2>1. CASE GoTo("turn", 1, NoMembers) /\ UNCHANGED current_state
    <3>1. /\ current_state' = "ENGINEERING" /\ pc' = "turn" /\ pc = "engine"
          /\ UNCHANGED <<active_revision_proposal, simulation, tampers>>
      BY <1>1, <2>1 DEF PrepareStart, GoTo, feedback, results
    <3>2. ~RevisionInProgress /\ ~RevisionInProgress'
      BY <1>1, <3>1 DEF PrepareStart, RevisionInProgress, GInv, RInv, ResultHolds
    <3>3. tampers' = 0 => simulation' = None
      BY <1>1, <3>1, <3>2 DEF PrepareStart, GInv, Undisturbed, UndisturbedHolds
    <3> QED
      BY <3>1, <3>2, <3>3
         DEF RevisionHolds, RevisionReadyBaseline, Undisturbed, UndisturbedHolds,
             SealedPositions, Preparing
  <2> QED
    BY <1>1, <2>1, StopIsQuietGates DEF PrepareStart
<1>2. CASE TurnWasted \/ DecideRevision
  BY <1>2, TurnKeepsGates
     DEF TurnWasted, DecideRevision, AtTurn, NextTurn, GoTo, evidence, results, revision
<1>3. CASE TurnBlocks
  BY <1>3, StopIsQuietGates DEF TurnBlocks
<1>4. CASE TurnRaises
  BY <1>4, StopIsQuietGates, RestoreGates DEF TurnRaises
<1>5. CASE AuthorCase \/ RepairCase \/ ReviseCase
  BY <1>5, DeltaGates
<1>6. CASE ReviseCaseRaises
  BY <1>6, StopIsQuietGates DEF ReviseCaseRaises
<1>7. CASE WriteMember
  BY <1>7, MemberKeepsGates, StopIsQuietGates
     DEF WriteMember, AtMember, MemberFails, Continue, NextTurn, GoTo, revision, results
<1>8. CASE MeshMember
  BY <1>8, MemberKeepsGates, StopIsQuietGates
     DEF MeshMember, AtMember, Continue, NextTurn, GoTo, revision, results
<1>9. CASE CheckMember
  BY <1>9, MemberKeepsGates, StopIsQuietGates
     DEF CheckMember, AtMember, MemberFails, Continue, NextTurn, GoTo, revision, results
<1>10. CASE PresolveMember
  BY <1>10, MemberKeepsGates, StopIsQuietGates
     DEF PresolveMember, AtMember, MemberFails, Continue, NextTurn, GoTo, revision, results
<1>11. CASE FinishMember
  <2>1. CASE FinishAccepted(todo.plan)
    <3>1. Preparing
      BY <1>11 DEF FinishMember, AtMember, Preparing
    <3>2. todo.plan \in Plans
      BY <1>11 DEF FinishMember, AtMember, GInv, RInv, Inv, TypeOK, PositionOK, PositionHolds,
                   Members
    <3> QED
      BY <2>1, <3>1, <3>2, FinishGates
  <2> QED
    BY <1>11, <2>1, MemberKeepsGates
       DEF FinishMember, AtMember, NextTurn, GoTo, revision, results
<1>12. CASE TurnsExhausted
  <2>1. CASE GoTo("finalize", 1, NoMembers) /\ UNCHANGED current_state
    BY <1>12, <2>1, TurnKeepsGates DEF TurnsExhausted, GoTo, results, revision
  <2> QED
    BY <1>12, <2>1, StopIsQuietGates DEF TurnsExhausted
<1>13. CASE Finalize
  <2>1. CASE \E p \in Plans : FinishAccepted(p)
    BY <1>13, <2>1, FinishGates DEF Finalize, Preparing
  <2>2. CASE /\ GoTo("finalize", TurnSpent, NoMembers)
             /\ UNCHANGED <<current_state, decision, mesh_manifest, feedback, revision, results,
                            disk, tampers>>
    BY <1>13, <2>2, TurnKeepsGates DEF Finalize, GoTo, results, revision
  <2> QED
    BY <1>13, <2>1, <2>2, StopIsQuietGates DEF Finalize
<1>14. CASE FinalTurnsExhausted
  BY <1>14, StopIsQuietGates DEF FinalTurnsExhausted
<1> QED
  BY <1>1, <1>2, <1>3, <1>4, <1>5, <1>6, <1>7, <1>8, <1>9, <1>10, <1>11, <1>12, <1>13, <1>14
     DEF PreparationStep

(***************************************************************************)
(* Execution.                                                              *)
(***************************************************************************)
LEMMA CaseKeepsSeal ==
    ASSUME GInv, SealedPositions,
           UNCHANGED <<engineering_plan, case_seal, mesh_manifest, disk, tampers>>
    PROVE  tampers' = 0 => SealedCase'
BY DEF GInv, Undisturbed, UndisturbedHolds, SealedCase, MeshEvidenceCurrent

LEMMA RuntimeGates ==
    ASSUME GInv, RuntimeStep
    PROVE  RevisionHolds' /\ Undisturbed'
<1> USE DEF Rest, Raise
<1> DEFINE Repairing == pc' \in {"repair", "repair_members"}
<1>1. ASSUME UNCHANGED current_state, Repairing,
             pc \in {"attempt", "solving", "repair", "repair_members"}
      PROVE  RevisionHolds' /\ Undisturbed'
  BY <1>1, SolverState, QuietGates DEF PreparationPositions
<1>2. ASSUME NEW st \in {"FAILED", "ENGINEERING_BLOCKED", "ENGINEERING_REVIEW_REQUIRED"},
             NEW e, Stop(st, e)
      PROVE  RevisionHolds' /\ Undisturbed'
  BY <1>2, StopIsQuietGates DEF PreviewStates, ResultGates
<1>3. CASE RuntimeEntry
  <2>1. CASE GoTo("attempt", 0, NoMembers) /\ UNCHANGED current_state
    <3>1. SealedPositions /\ current_state' = "SIMULATION" /\ pc' = "attempt"
      BY <1>3, <2>1 DEF RuntimeEntry, SealedPositions, GoTo
    <3>2. tampers' = 0 => SealedCase'
      BY <1>3, <3>1, CaseKeepsSeal DEF RuntimeEntry, decision
    <3> QED
      BY <3>1, <3>2, QuietGates DEF PreviewStates, ResultGates, PreparationPositions
  <2> QED
    BY <1>2, <1>3, <2>1 DEF RuntimeEntry
<1>4. CASE StartSolver
  <2>1. CASE GoTo("solving", 0, NoMembers) /\ UNCHANGED current_state
    <3>1. SealedPositions /\ current_state' \notin PreviewStates /\ pc' = "solving"
      BY <1>4, <2>1, SolverState DEF StartSolver, SealedPositions, GoTo
    <3>2. tampers' = 0 => SealedCase'
      BY <1>4, <3>1, CaseKeepsSeal DEF StartSolver, decision
    <3> QED
      BY <3>1, <3>2, QuietGates DEF PreparationPositions
  <2> QED
    BY <1>2, <1>4, <2>1 DEF StartSolver
<1>5. CASE SolverSucceeds \/ SolverUndecided
  <2>1. CASE current_state' = "RESULT_REVIEW_REQUIRED"
    <3>1. SealedPositions /\ pc' = "rest"
      BY <1>5 DEF SolverSucceeds, SolverUndecided, SealedPositions, Stop
    <3>2. tampers' = 0 => SealedCase'
      BY <1>5, <3>1, CaseKeepsSeal DEF SolverSucceeds, SolverUndecided, decision
    <3> QED
      BY <2>1, <3>1, <3>2
         DEF RevisionHolds, RevisionReadyBaseline, Undisturbed, UndisturbedHolds, Preparing
  <2> QED
    BY <1>2, <1>5, <2>1 DEF SolverSucceeds, SolverUndecided, Stop
<1>6. CASE SolverFails
  <2>1. CASE current_state' = "RUNTIME_REPAIR" /\ GoTo("repair", 1, NoMembers)
    BY <2>1, QuietGates DEF GoTo, PreviewStates, ResultGates, PreparationPositions
  <2> QED
    BY <1>2, <1>6, <2>1 DEF SolverFails
<1>7. CASE RepairWasted \/ RepairWithoutRetry \/ RepairDelta \/ RepairPresolve
  BY <1>1, <1>7
     DEF RepairWasted, RepairWithoutRetry, RepairDelta, RepairPresolve, AtRepair,
         AtRepairMember, NextRepairTurn, Continue, GoTo
<1>8. CASE RepairRaises \/ RepairEnds \/ RepairMesh \/ RepairDeltaUnaffordable
  BY <1>2, <1>8 DEF RepairRaises, RepairEnds, RepairMesh, RepairDeltaUnaffordable, Give
<1>9. CASE RepairWrite
  BY <1>1, <1>2, <1>9
     DEF RepairWrite, AtRepairMember, NextRepairTurn, Continue, GoTo, Give
<1>10. CASE RetrySolver
  <2>1. CASE NextRepairTurn
    BY <1>1, <1>10, <2>1 DEF RetrySolver, AtRepairMember, NextRepairTurn, GoTo
  <2>2. CASE /\ RetryAllowed(todo.plan)
             /\ engineering_plan' = todo.plan /\ case_seal' = Seal(todo.plan, disk)
             /\ current_state' = "SIMULATION" /\ GoTo("attempt", 0, NoMembers)
    <3>1. case_seal' # None
      <4>1. disk \in Case /\ todo.plan \in Plans
        BY <1>10 DEF RetrySolver, AtRepairMember, GInv, RInv, Inv, TypeOK, PositionOK,
                     PositionHolds, Members
      <4> QED
        BY <2>2, <4>1, SealIsSeal, NoneIsNotARecord
    <3>2. SealedCase'
      BY <1>10, <2>2, <3>1
         DEF RetrySolver, RetryAllowed, SealedCase, SealHolds, Seal, MeshEvidenceCurrent
    <3> QED
      BY <2>2, <3>2, QuietGates DEF GoTo, PreviewStates, ResultGates, PreparationPositions
  <2> QED
    BY <1>10, <2>1, <2>2 DEF RetrySolver
<1> QED
  BY <1>3, <1>4, <1>5, <1>6, <1>7, <1>8, <1>9, <1>10 DEF RuntimeStep

(***************************************************************************)
(* Review.                                                                 *)
(***************************************************************************)
\* What holds of a case that is looked at by the user.
LEMMA SealedGate ==
    ASSUME GInv, AtGate, current_state \in FeedbackGates \cup ResultGates, tampers = 0
    PROVE  UndisturbedHolds /\ SealedCase
BY DEF GInv, Undisturbed, UndisturbedHolds, SealedPositions, AtGate, FeedbackGates, ResultGates

LEMMA GiveFeedbackGates ==
    ASSUME GInv, GiveFeedback
    PROVE  RevisionHolds' /\ Undisturbed'
<1>1. /\ pc' = "rest" /\ current_state \in FeedbackGates /\ case_seal # None
      /\ engineering_plan # None
      /\ UNCHANGED <<engineering_plan, case_seal, mesh_manifest, simulation, disk, tampers>>
  BY DEF GiveFeedback, Receive, Rest, Stop, decision, results
<1>2. tampers = 0 => SealedCase /\ SealedCase'
  BY <1>1, SealedGate DEF GiveFeedback, SealedCase, MeshEvidenceCurrent
<1>3. tampers = 0 /\ current_state = "SOLVE_READY" => simulation = None
  BY <1>1, SealedGate DEF GiveFeedback, UndisturbedHolds
<1>4. CASE current_state' = current_state
  BY <1>1, <1>2, <1>3, <1>4
     DEF RevisionHolds, RevisionReadyBaseline, Undisturbed, UndisturbedHolds, FeedbackGates,
         Preparing
<1>5. CASE current_state' = "ENGINEERING_REVIEW_REQUIRED"
  BY <1>1, <1>5, QuietGates DEF PreviewStates, ResultGates, PreparationPositions
<1>6. CASE /\ current_state' = "REVISION_READY"
           /\ Receive("revision_proposed", NewProposal(FALSE), "REVISION_READY")
  <2> DEFINE fb == [status |-> "revision_proposed", submitted_state |-> current_state]
  <2>1. /\ human_feedback' = Append(human_feedback, fb)
        /\ active_revision_proposal' = NewProposal(FALSE)
        /\ active_revision_proposal'.feedback = Len(human_feedback) + 1
        /\ active_revision_proposal'.plan = engineering_plan
        /\ active_revision_proposal'.files = case_seal.files
    BY <1>6 DEF Receive, NewProposal
  <2>2. human_feedback \in Seq(Feedback) /\ fb \in Feedback
    BY <1>1 DEF GInv, RInv, Inv, TypeOK, FeedbackOK, Feedback, FeedbackStatus
  <2>3. RevisionFeedback' = fb
    <3>1. Append(human_feedback, fb)[Len(human_feedback) + 1] = fb
      BY <2>2, AppendProperties
    <3> QED
      BY <2>1, <3>1 DEF RevisionFeedback
  <2>4. active_revision_proposal' # None
    <3>1. active_revision_proposal' \in Proposal
      <4>1. Len(human_feedback) + 1 \in 1 .. MaxFeedback
        BY <2>2, LenProperties, BoundsAssumption DEF GiveFeedback
      <4>2. engineering_plan \in Plans /\ case_seal.files \in Case
        BY <1>1 DEF GInv, RInv, Inv, TypeOK, DecisionOK, CaseSeal
      <4> QED
        BY <2>1, <4>1, <4>2 DEF NewProposal, Proposal
    <3> QED
      BY <3>1, NoneIsNotARecord
  <2>5. case_seal' = Seal(active_revision_proposal'.plan, active_revision_proposal'.files)
    <3>1. case_seal \in CaseSeal
      BY <1>1 DEF GInv, RInv, Inv, TypeOK, DecisionOK
    <3>2. case_seal = Seal(case_seal.plan, case_seal.files)
      BY <3>1 DEF CaseSeal, Seal
    <3>3. case_seal.plan = engineering_plan
      BY <1>1 DEF GInv, SealNamesPlan
    <3> QED
      BY <1>1, <2>1, <3>2, <3>3
  <2>6. RevisionHolds'
    <3>1. RevisionFeedback'.status = "revision_proposed"
      BY <2>3
    <3>2. RevisionReadyBaseline'
      BY <1>1, <2>1, <2>4, <2>5, <3>1 DEF RevisionReadyBaseline, RevisionFeedback
    <3> QED
      BY <1>1, <1>6, <3>2 DEF RevisionHolds, Preparing
  <2>7. Undisturbed'
    <3> SUFFICES ASSUME tampers' = 0 PROVE UndisturbedHolds'
      BY DEF Undisturbed
    <3>1. simulation' # None => disk = case_seal.files /\ disk = simulation.files
      BY <1>1, <1>2, <1>3
         DEF GInv, RInv, ResultHolds, ReviewedResultIsSealed, ResultIsSealed, SealedCase,
             SealHolds, FeedbackGates
    <3> QED
      BY <1>1, <1>2, <1>3, <1>6, <2>1, <2>3, <3>1 DEF UndisturbedHolds, Preparing
  <2> QED
    BY <2>6, <2>7
<1> QED
  BY <1>4, <1>5, <1>6 DEF GiveFeedback, Receive, Rest, Stop

LEMMA ConfirmRevisionGates ==
    ASSUME GInv, ConfirmRevision
    PROVE  RevisionHolds' /\ Undisturbed'
<1>1. CASE Rest("ENGINEERING_BLOCKED")
  BY <1>1, StopIsQuietGates DEF Rest, PreviewStates, ResultGates
<1>2. CASE /\ human_feedback' = WithStatus(active_revision_proposal.feedback,
                                           "revision_in_progress")
           /\ current_state' = "ENGINEERING"
           /\ GoTo("turn", 1, NoMembers)
  <2>1. /\ RevisionReadyBaseline /\ RevisionInProgress /\ pc' = "turn"
        /\ UNCHANGED <<active_revision_proposal, engineering_plan, case_seal, mesh_manifest,
                       simulation, disk, tampers>>
    BY <1>2 DEF GInv, RevisionHolds, RevisionReadyBaseline, RevisionInProgress, ConfirmRevision,
                GoTo, results
  <2>2. /\ RevisionFeedback'.status = "revision_in_progress"
        /\ RevisionFeedback'.submitted_state = RevisionFeedback.submitted_state
    BY <1>2, <2>1, ProposalFeedback, StatusChanges DEF RevisionFeedback, FeedbackStatus
  <2>3. BaselineSealed'
    BY <2>1 DEF ConfirmRevision, RevisionReadyBaseline, BaselineSealed
  <2>4. RevisionHolds'
    BY <1>2, <2>1, <2>2, <2>3 DEF RevisionHolds, RevisionReadyBaseline, Preparing
  <2>5. Undisturbed'
    <3> SUFFICES ASSUME tampers' = 0 PROVE UndisturbedHolds'
      BY DEF Undisturbed
    <3>1. UndisturbedHolds /\ SealedCase'
      BY <2>1, SealedGate DEF ConfirmRevision, ResultGates, SealedCase, MeshEvidenceCurrent
    <3>2. RevisionInProgress'
      BY <2>1 DEF RevisionInProgress
    <3> QED
      BY <1>2, <2>1, <2>2, <3>1, <3>2 DEF UndisturbedHolds, ConfirmRevision
  <2> QED
    BY <2>4, <2>5
<1> QED
  BY <1>1, <1>2 DEF ConfirmRevision

LEMMA RejectRevisionGates ==
    ASSUME GInv, RejectRevision
    PROVE  RevisionHolds' /\ Undisturbed'
<1>1. /\ current_state = "REVISION_READY" /\ RevisionInProgress
      /\ current_state' = RevisionFeedback.submitted_state /\ pc' = "rest"
      /\ UNCHANGED <<engineering_plan, case_seal, mesh_manifest, simulation, disk, tampers>>
  BY DEF RejectRevision, RevisionInProgress, RevisionFeedback, Rest, Stop, decision, results
<1>2. RevisionFeedback.submitted_state \in FeedbackGates
  BY <1>1, ProposalFeedback DEF Feedback
<1>3. RevisionHolds'
  BY <1>1, <1>2 DEF RevisionHolds, RevisionReadyBaseline, Preparing, FeedbackGates
<1>4. Undisturbed'
  <2> SUFFICES ASSUME tampers' = 0 PROVE UndisturbedHolds'
    BY DEF Undisturbed
  <2>1. UndisturbedHolds /\ SealedCase'
    BY <1>1, SealedGate DEF RejectRevision, ResultGates, SealedCase, MeshEvidenceCurrent
  <2> QED
    BY <1>1, <1>2, <2>1 DEF UndisturbedHolds, Preparing, FeedbackGates
<1> QED
  BY <1>3, <1>4

LEMMA ReviewGates ==
    ASSUME GInv, ReviewStep
    PROVE  RevisionHolds' /\ Undisturbed'
<1>1. CASE Solve
  <2>1. /\ current_state' = "SIMULATION" /\ pc' = "engine"
        /\ UNCHANGED <<engineering_plan, case_seal, mesh_manifest, disk, tampers>>
    BY <1>1 DEF Solve, GoTo, evidence
  <2>2. SealedPositions
    BY <1>1 DEF Solve, AtGate, SealedPositions
  <2>3. tampers' = 0 => SealedCase'
    BY <2>1, <2>2, CaseKeepsSeal
  <2> QED
    BY <2>1, <2>3, QuietGates DEF PreviewStates, ResultGates, PreparationPositions
<1>2. CASE Accept
  <2>1. /\ pc' = "rest" /\ current_state' = "COMPLETE"
        /\ UNCHANGED <<engineering_plan, case_seal, mesh_manifest, disk, tampers>>
    BY <1>2 DEF Accept, Rest, Stop, decision
  <2>2. SealedPositions
    BY <1>2 DEF Accept, AtGate, SealedPositions
  <2>3. tampers' = 0 => SealedCase'
    BY <2>1, <2>2, CaseKeepsSeal
  <2> QED
    BY <2>1, <2>3
       DEF RevisionHolds, RevisionReadyBaseline, Undisturbed, UndisturbedHolds, Preparing
<1> QED
  BY <1>1, <1>2, GiveFeedbackGates, ConfirmRevisionGates, RejectRevisionGates
     DEF ReviewStep

\* Somebody edits the case: what the seal and the proposal say stays.
LEMMA TamperGates ==
    ASSUME GInv, Tamper
    PROVE  RevisionHolds' /\ Undisturbed'
<1>1. tampers' # 0
  BY DEF Tamper, GInv, RInv, Inv, TypeOK
<1>2. RevisionHolds'
  BY DEF Tamper, GInv, RevisionHolds, RevisionReadyBaseline, RevisionInProgress,
         RevisionFeedback, BaselineSealed, Preparing, decision, feedback, revision, position
<1> QED
  BY <1>1, <1>2 DEF Undisturbed

LEMMA StutterGates ==
    ASSUME GInv, UNCHANGED vars
    PROVE  RevisionHolds' /\ Undisturbed'
BY DEF GInv, RevisionHolds, RevisionReadyBaseline, RevisionInProgress, RevisionFeedback,
       BaselineSealed, Preparing, Undisturbed, UndisturbedHolds, SealedPositions, SealedCase,
       MeshEvidenceCurrent, vars, decision, evidence, feedback, revision, results, position

LEMMA GatesInvariance == Spec => []GInv
<1>1. Init => GInv
  <2> SUFFICES ASSUME Init PROVE GInv
    OBVIOUS
  <2>1. RInv
    BY InitInv
       DEF Init, RInv, ResultHolds, ReviewedResultIsSealed, ProposalOfResult, RevisionInProgress
  <2>2. SealNamesPlan /\ RevisionHolds
    BY DEF Init, SealNamesPlan, RevisionHolds, RevisionReadyBaseline, Preparing
  <2>3. Undisturbed
    BY DEF Init, Undisturbed, UndisturbedHolds, SealedPositions, Preparing
  <2> QED
    BY <2>1, <2>2, <2>3 DEF GInv
<1>2. GInv /\ RInv' /\ [Next]_vars => GInv'
  <2> SUFFICES ASSUME GInv, RInv', [Next]_vars PROVE GInv'
    OBVIOUS
  <2>1. RevisionHolds' /\ Undisturbed'
    BY PreparationGates, RuntimeGates, ReviewGates, TamperGates, StutterGates
       DEF Next, Controller
  <2> QED
    BY <2>1, PlanSealedTogether DEF GInv
<1> QED
  BY <1>1, <1>2, ResultInvariance, PTL DEF Spec

\* A proposal waiting for confirmation always names the case it was made for,
\* also when a confirmed revision that failed before its first edit has come
\* back to its gate (engineering/phases/revision_controller.py, review/agent.py).
THEOREM RevisionReadyBaselineCorrect == Spec => []RevisionReadyBaseline
<1>1. GInv => RevisionReadyBaseline
  BY DEF GInv, RevisionHolds
<1> QED
  BY <1>1, GatesInvariance, PTL

\* While a revision works, the result it keeps is still that of the case on
\* disk (engineering/phases/revision_controller.py).
THEOREM NoStaleResultCorrect == Spec => []NoStaleResult
<1>1. GInv => NoStaleResult
  BY DEF GInv, RInv, ResultHolds, RevisionHolds, Undisturbed, UndisturbedHolds, NoStaleResult
<1> QED
  BY <1>1, GatesInvariance, PTL

\* Wherever the user decides about a sealed case, the files on disk are the
\* sealed ones and their mesh evidence is current, unless somebody else wrote to
\* them (contracts/case_seal.py, engineering/phases/decision_controller.py).
THEOREM SealedAtGateCorrect == Spec => []SealedAtGate
<1>1. GInv => SealedAtGate
  BY DEF GInv, Undisturbed, UndisturbedHolds, SealedPositions, SealedCase, SealedAtGate
<1> QED
  BY <1>1, GatesInvariance, PTL

(***************************************************************************)
(* Feedback that is settled.                                               *)
(***************************************************************************)
Settled == {"resolved", "proposal_rejected"}

SettledKept ==
    \A i \in DOMAIN human_feedback :
        human_feedback[i].status \in Settled =>
            /\ i \in DOMAIN human_feedback'
            /\ human_feedback'[i] = human_feedback[i]

LEMMA OpenFeedbackMoves ==
    ASSUME human_feedback \in Seq(Feedback), NEW i \in DOMAIN human_feedback,
           human_feedback[i].status \notin Settled, NEW st \in FeedbackStatus,
           human_feedback' = WithStatus(i, st)
    PROVE  SettledKept
BY StatusChanges DEF SettledKept

LEMMA PromotionLeavesSettled ==
    ASSUME human_feedback \in Seq(Feedback), NEW open, open \cap Settled = {}, NEW st,
           Promote(open, st)
    PROVE  SettledKept
<1>1. DOMAIN human_feedback = 1 .. Len(human_feedback)
  BY LenProperties
<1> QED
  BY <1>1 DEF Promote, SettledKept

LEMMA NewFeedbackLeavesOld ==
    ASSUME human_feedback \in Seq(Feedback), NEW fb \in Feedback,
           human_feedback' = Append(human_feedback, fb)
    PROVE  SettledKept
<1>1. /\ DOMAIN human_feedback = 1 .. Len(human_feedback) /\ Len(human_feedback) \in Nat
      /\ DOMAIN human_feedback' = 1 .. Len(human_feedback) + 1
      /\ \A i \in 1 .. Len(human_feedback) : human_feedback'[i] = human_feedback[i]
  BY LenProperties, AppendProperties
<1> QED
  BY <1>1 DEF SettledKept

\* The feedback of a proposal that is confirmed or at work is open.
LEMMA ProposalIsOpen ==
    ASSUME GInv, RevisionInProgress, Preparing \/ current_state = "REVISION_READY"
    PROVE  RevisionFeedback.status \notin Settled
BY DEF GInv, RevisionHolds, RevisionReadyBaseline, RevisionFeedback, Settled

LEMMA PreparationKeepsSettled ==
    ASSUME GInv, PreparationStep
    PROVE  SettledKept
<1>1. CASE UNCHANGED human_feedback
  BY <1>1 DEF SettledKept
<1>2. ASSUME RevisionInProgress, Preparing, NEW st \in FeedbackStatus,
             human_feedback' = WithStatus(active_revision_proposal.feedback, st)
      PROVE  SettledKept
  BY <1>2, ProposalFeedback, ProposalIsOpen, OpenFeedbackMoves DEF RevisionFeedback
<1>3. CASE TurnRaises
  BY <1>1, <1>2, <1>3
     DEF TurnRaises, AtTurn, Preparing, RestoreRevisionReady, ProposedAgain, feedback,
         FeedbackStatus
<1>4. ASSUME NEW p, FinishAccepted(p), Preparing
      PROVE  SettledKept
  BY <1>1, <1>2, <1>4 DEF FinishAccepted, RecordRevision, feedback, FeedbackStatus
<1>5. CASE FinishMember \/ Finalize
  BY <1>1, <1>4, <1>5 DEF FinishMember, Finalize, AtMember, Preparing, feedback
<1> QED
  BY <1>1, <1>3, <1>5
     DEF PreparationStep, PrepareStart, TurnWasted, TurnBlocks, AuthorCase, DecideRevision,
         RepairCase, ReviseCase, ReviseCaseRaises, WriteMember, MeshMember, CheckMember,
         PresolveMember, TurnsExhausted, FinalTurnsExhausted, feedback

LEMMA RuntimeKeepsSettled ==
    ASSUME GInv, RuntimeStep
    PROVE  SettledKept
<1>1. CASE UNCHANGED human_feedback
  BY <1>1 DEF SettledKept
<1>2. CASE SolverSucceeds
  BY <1>2, PromotionLeavesSettled
     DEF SolverSucceeds, MarkAwaitingReview, SealedRevisions, Settled, GInv, RInv, Inv, TypeOK,
         FeedbackOK
<1> QED
  BY <1>1, <1>2
     DEF RuntimeStep, RuntimeEntry, StartSolver, SolverUndecided, SolverFails, RepairWasted,
         RepairRaises, RepairEnds, RepairDelta, RepairDeltaUnaffordable, RepairWrite, RepairMesh,
         RepairPresolve, RetrySolver, RepairWithoutRetry, feedback

LEMMA ReviewKeepsSettled ==
    ASSUME GInv, ReviewStep
    PROVE  SettledKept
<1>1. human_feedback \in Seq(Feedback)
  BY DEF GInv, RInv, Inv, TypeOK, FeedbackOK
<1>2. CASE GiveFeedback
  <2>1. PICK fb \in Feedback : human_feedback' = Append(human_feedback, fb)
    BY <1>2 DEF GiveFeedback, Receive, Feedback, FeedbackStatus
  <2> QED
    BY <1>1, <2>1, NewFeedbackLeavesOld
<1>3. CASE ConfirmRevision \/ RejectRevision
  <2>1. CASE UNCHANGED human_feedback
    BY <2>1 DEF SettledKept
  <2>2. ASSUME NEW st \in FeedbackStatus,
               human_feedback' = WithStatus(active_revision_proposal.feedback, st)
        PROVE  SettledKept
    <3>1. current_state = "REVISION_READY" /\ RevisionInProgress
      BY <1>3 DEF ConfirmRevision, RejectRevision, GInv, RevisionHolds, RevisionReadyBaseline,
                  RevisionInProgress
    <3> QED
      BY <2>2, <3>1, ProposalFeedback, ProposalIsOpen, OpenFeedbackMoves DEF RevisionFeedback
  <2> QED
    BY <1>3, <2>1, <2>2 DEF ConfirmRevision, RejectRevision, FeedbackStatus
<1>4. CASE Accept
  BY <1>1, <1>4, PromotionLeavesSettled DEF Accept, Settled
<1>5. CASE Solve
  BY <1>5 DEF Solve, SettledKept, feedback
<1> QED
  BY <1>2, <1>3, <1>4, <1>5 DEF ReviewStep

\* Feedback the user settled, or a proposal the user rejected, is never
\* reopened: not by a later result, not by a revision that fails and goes back
\* to its gate, not by an accepted result (review/agent.py, workflow/state.py,
\* engineering/phases/revision_controller.py).
THEOREM SettledStaysCorrect == Spec => SettledStays
<1>1. GInv /\ [Next]_vars => [SettledKept]_vars
  <2> SUFFICES ASSUME GInv, [Next]_vars PROVE [SettledKept]_vars
    OBVIOUS
  <2>1. CASE Tamper
    BY <2>1 DEF Tamper, SettledKept, feedback
  <2> QED
    BY <2>1, PreparationKeepsSettled, RuntimeKeepsSettled, ReviewKeepsSettled
       DEF Next, Controller
<1>2. [SettledKept]_vars <=> 
        [\A i \in DOMAIN human_feedback :
            human_feedback[i].status \in {"resolved", "proposal_rejected"} =>
                /\ i \in DOMAIN human_feedback'
                /\ human_feedback'[i] = human_feedback[i]]_vars
  BY DEF SettledKept, Settled
<1> QED
  BY <1>1, <1>2, GatesInvariance, PTL DEF Spec, SettledStays
=============================================================================
