--------------------------- MODULE TurnContracts ---------------------------
(***************************************************************************)
(* The turns of engineering (engineering/phases): which contract a model   *)
(* turn is given, which plan its context shows, what its decision does to  *)
(* the work in memory, how long the turns go on, and what is left of them  *)
(* when the session dies and is resumed.  A committed delta is one step    *)
(* here; Workflow has its members, Checkpoint its crashes.                 *)
(***************************************************************************)
EXTENDS Integers, Sequences

CONSTANTS
    Plans, None,
    MaxAgentSteps, HardMaxAgentSteps, StepExtension, MaxFinalizationSteps,
    ProgressWindow,       \* events before progress can be proved
    MaxToolActions,       \* events of one round
    MaxAuthoringRetries,
    MaxRetrievalCycles,
    MaxTasks,             \* bound: partitions of one authoring
    MaxCrashes            \* bound: sessions that die

ASSUME BoundsAssumption ==
    /\ MaxAgentSteps \in Nat \ {0} /\ HardMaxAgentSteps \in Nat
    /\ MaxAgentSteps <= HardMaxAgentSteps          \* EngineeringPolicy refuses less
    /\ StepExtension \in Nat \ {0} /\ MaxFinalizationSteps \in Nat \ {0}
    /\ MaxTasks \in Nat
    /\ ProgressWindow \in 1 .. MaxToolActions
    /\ None \notin Plans

VARIABLES
    phase,             \* "prepare" or "human_revision"
    pc,                \* "generate", "decide", "finalize", or how it ended
    step, limit,       \* the next turn and the present limit
    next_step,         \* engineering_next_step of the state
    extended,          \* the largest limit an extension has recorded
    crashes,           \* history: sessions that died
    engineering_plan,  \* the plan of the sealed case, or None
    proposal,          \* an active revision proposal
    decided,           \* revision_decision_complete
    revision_plan,     \* pending_revision_plan
    outputs,           \* results of the old case lie in the case directory
    touched,           \* history: a revision changed the case
    saved,             \* the last checkpoint is of this round
    draft,             \* _draft_design_plan
    queue,             \* _authoring_task_queue: [plan, left], or None
    candidate,         \* plan of _pending_candidate_execution, or None
    pending,           \* _pending_execution_plan
    structured,        \* _structured_block_mesh is there
    events,            \* events of the round
    last,              \* the last event: [type, success]
    failure,           \* the last failing event, unless a strategy revision answered it
    failed,            \* signatures that failed in the round
    mesh_event,        \* what the last mesh command of the round said
    tries,             \* authoring failures before a commit
    diagnostic,        \* the last failure a repair is for
    episode,           \* RepairEpisode, or None
    cycles, disabled,  \* retrieval cycles, and whether retrieval failed
    contract, shown    \* of the turn the model works on

position  == <<phase, pc, step, limit, next_step, extended, crashes>>
revision  == <<engineering_plan, proposal, decided, revision_plan, outputs, touched, saved>>
work      == <<draft, queue, candidate, pending, structured>>
history   == <<events, last, failure, failed, mesh_event, tries, diagnostic>>
retrieval == <<cycles, disabled>>
turn      == <<contract, shown>>
vars == <<position, revision, work, history, episode, retrieval, turn>>

(***************************************************************************)
(* Events.                                                                 *)
(***************************************************************************)
Event(t, ok) == [type |-> t, success |-> ok, signature |-> None, strategy |-> FALSE,
                 mesh |-> FALSE, category |-> "case"]

Precommit == {"bundle_preflight", "block_mesh_serialize"}
Support   == {"read_case_file", "search_references", "gather_evidence"}

\* Failures of the members of a delta, in the order the members run.
MemberFailures ==
    {Event("write_case_file", FALSE),
     [Event("mesh_tool_precondition", FALSE) EXCEPT !.signature = "precondition", !.strategy = TRUE],
     [Event("blockMesh", FALSE) EXCEPT !.signature = "blockMesh", !.mesh = TRUE],
     [Event("checkMesh", FALSE) EXCEPT !.signature = "checkMesh", !.mesh = TRUE],
     Event("validate_pre_solve", FALSE),
     [Event("validate_pre_solve", FALSE) EXCEPT !.category = "tool"],
     Event("finish_preview", FALSE)}

\* Members of a delta that ran before one of this type.
Total == 3
RunUpTo(t) == CASE t \in {"write_case_file", "mesh_tool_precondition"} -> 1
                [] t \in {"blockMesh", "checkMesh"} -> 2
                [] OTHER -> Total

\* Events above the budget of the round need not be told apart.
Counted(n) == IF events + n < MaxToolActions THEN events + n ELSE MaxToolActions

\* The round after n events, the last of which is e, with mesh verdict m.
Log(e, n, m) ==
    /\ events' = Counted(n)
    /\ last' = [type |-> e.type, success |-> e.success]
    /\ mesh_event' = m
    /\ IF e.success
       THEN /\ failure' = IF e.type = "revise_mesh_strategy" THEN None ELSE failure
            /\ UNCHANGED <<failed, tries, diagnostic>>
       ELSE /\ failure' = [signature |-> e.signature, strategy |-> e.strategy,
                           again |-> e.mesh /\ e.signature \in failed]
            /\ failed' = failed \cup {e.signature}
            /\ tries' = IF e.type \in Precommit THEN tries + 1 ELSE tries
            /\ diagnostic' = IF e.type \notin Support /\ e.category = "case"
                             THEN e.type ELSE diagnostic

Say(e) == Log(e, 1, mesh_event)

(***************************************************************************)
(* The contract of a turn.                                                 *)
(***************************************************************************)
FirstOf(s) == IF \E i \in DOMAIN s : s[i] # None
              THEN s[CHOOSE i \in DOMAIN s :
                        s[i] # None /\ \A j \in 1 .. i - 1 : s[j] = None]
              ELSE None

CandidateRetry(type) ==
    /\ last = [type |-> type, success |-> FALSE]
    /\ pending = None
    /\ candidate # None

StrategyRevisionRequired ==
    /\ failure # None
    /\ failure.signature # None
    /\ failure.strategy \/ failure.again

BlockMeshRepairRequired ==
    /\ pending # None
    /\ structured
    /\ mesh_event \in {"blockMesh", "preflight"}

PrepareRoutes ==
    <<[when |-> CandidateRetry("block_mesh_serialize"), to |-> "block_mesh_replan"],
      [when |-> CandidateRetry("bundle_preflight"),     to |-> "replan"],
      [when |-> StrategyRevisionRequired,               to |-> "strategy_revision"],
      [when |-> BlockMeshRepairRequired,                to |-> "block_mesh_repair"],
      [when |-> pending # None,                         to |-> "repair"],
      [when |-> draft # None,                           to |-> "author_case"],
      [when |-> cycles >= MaxRetrievalCycles,           to |-> "prepare_design_decide"],
      [when |-> TRUE,                                   to |-> "prepare_design"]>>

PhaseContract ==
    IF phase = "human_revision"
    THEN IF decided THEN "revision_author" ELSE "revision_decide"
    ELSE LET i == CHOOSE i \in DOMAIN PrepareRoutes :
                    /\ PrepareRoutes[i].when
                    /\ \A j \in 1 .. i - 1 : ~PrepareRoutes[j].when
         IN  PrepareRoutes[i].to

(***************************************************************************)
(* The plan a contract shows, and the plan its handler starts from.        *)
(***************************************************************************)
AuthoringShows == IF queue # None THEN queue.plan ELSE draft
StrategyShows  == FirstOf(<<engineering_plan, pending, draft>>)
RepairShows    == FirstOf(<<pending, engineering_plan, draft>>)
DecisionShows  == engineering_plan
RevisionShows  == FirstOf(<<revision_plan, engineering_plan>>)
DeltaShows     == FirstOf(<<engineering_plan, pending>>)

ShownBaseline(c) ==
    CASE c = "author_case"       -> AuthoringShows
      [] c \in {"replan", "block_mesh_replan"} -> candidate
      [] c = "strategy_revision" -> StrategyShows
      [] c = "repair"            -> RepairShows
      [] c = "block_mesh_repair" -> DeltaShows
      [] c = "revision_author"   -> RevisionShows
      [] c = "revision_decide"   -> DecisionShows
      [] OTHER -> None

\* repair_actions of a prepare turn and of a revision turn.
RepairBaseline ==
    IF decided /\ revision_plan # None THEN revision_plan
    ELSE FirstOf(<<engineering_plan, pending>>)

StrategyBaseline == FirstOf(<<engineering_plan, pending, draft>>)
BlockMeshBaseline == FirstOf(<<engineering_plan, pending>>)

UsedBaseline ==
    CASE contract = "author_case"       -> draft
      [] contract \in {"replan", "block_mesh_replan"} -> candidate
      [] contract = "strategy_revision" -> StrategyBaseline
      [] contract = "block_mesh_repair" -> BlockMeshBaseline
      [] contract \in {"repair", "revision_author"} -> RepairBaseline
      [] contract = "revision_decide"   -> engineering_plan
      [] OTHER -> None

(***************************************************************************)
(* Turns.                                                                  *)
(***************************************************************************)
Ends == {"sealed", "blocked", "review", "revision_ready", "failed"}

\* No turn is open.
NoTurn == contract' = None /\ shown' = None

\* The command ends in a state of the workflow.
End(state) ==
    /\ pc' = state
    /\ NoTurn
    /\ UNCHANGED <<phase, step, limit, next_step, extended, crashes>>

\* The slip of a turn that is not counted.
NextTurnUncounted ==
    /\ pc' = "generate"
    /\ NoTurn
    /\ UNCHANGED <<phase, step, limit, next_step, extended, crashes>>

\* The decision is done; the loop takes the next turn.
NextTurn ==
    /\ pc' = "generate"
    /\ step' = step + 1
    /\ NoTurn
    /\ UNCHANGED <<phase, limit, next_step, extended, crashes>>

\* What a repair context makes of the last failure.
EnsuredEpisode(alt) ==
    IF diagnostic = None THEN episode
    ELSE IF episode # None /\ episode.current = diagnostic THEN episode
    ELSE [current |-> diagnostic, alternatives |-> alt, repaired |-> FALSE]

\* Retrieval waits for one direct repair of a failure that names its remedies.
DirectRepairRequired == episode # None /\ episode.alternatives /\ ~episode.repaired

\* The context is built: a large authoring task is partitioned, once.
GenerateTurn ==
    /\ pc = "generate" /\ step <= limit
    /\ pc' = "decide"
    /\ contract' = PhaseContract
    /\ shown' = ShownBaseline(PhaseContract)
    /\ next_step' = IF phase = "prepare" THEN step + 1 ELSE next_step
    /\ IF PhaseContract = "author_case" /\ queue = None
       THEN \E n \in 0 .. MaxTasks :
                queue' = IF n = 0 THEN None ELSE [plan |-> draft, left |-> n]
       ELSE UNCHANGED queue
    /\ IF PhaseContract = "repair"
       THEN \E alt \in BOOLEAN : episode' = EnsuredEpisode(alt)
       ELSE UNCHANGED episode
    /\ saved' = (saved \/ phase = "prepare")
    /\ UNCHANGED <<phase, step, limit, extended, crashes, engineering_plan, proposal, decided,
                   revision_plan, outputs, touched, draft, candidate, pending, structured,
                   history, retrieval>>

\* A context that does not fit: prepare records it and blocks.
ContextExceeded ==
    /\ pc = "generate" /\ step <= limit
    /\ phase = "prepare"
    /\ Say([Event("model_context", FALSE) EXCEPT !.category = "infra"])
    /\ End("blocked")
    /\ UNCHANGED <<revision, work, episode, retrieval>>

\* A failed revision that has touched nothing is retryable.
RevisionRaises ==
    IF touched THEN End("blocked") /\ UNCHANGED <<decided, revision_plan>>
    ELSE /\ End("revision_ready")
         /\ decided' = FALSE
         /\ revision_plan' = None

\* The model call raises.
TurnRaises ==
    /\ pc = "decide"
    /\ IF phase = "human_revision" THEN RevisionRaises
       ELSE (\E state \in {"blocked", "failed"} : End(state)) /\ UNCHANGED <<decided, revision_plan>>
    /\ UNCHANGED <<engineering_plan, proposal, outputs, touched, saved, work, history, episode, retrieval>>

\* A decision of the contracts C, run as one transaction with checkpoints.
Decision(C) ==
    /\ pc = "decide"
    /\ contract \in C
    /\ saved' = TRUE

SameRevision == UNCHANGED <<engineering_plan, proposal, decided, revision_plan, outputs, touched>>

(***************************************************************************)
(* A delta: its preflight, its commit, its members.  `before` events of    *)
(* the same decision have been said already.                               *)
(***************************************************************************)
\* The case is sealed with plan p.
Sealed(p, before) ==
    /\ Log(Event("finish_preview", TRUE), before + Total, "passed")
    /\ engineering_plan' = p
    /\ pending' = None
    /\ episode' = None
    /\ proposal' = FALSE /\ decided' = FALSE /\ revision_plan' = None
    /\ End("sealed")

\* Member e failed; a bundle and a tool action are routed by category.
MemberFails(e, before, mesh, routed) ==
    /\ Log(e, before + RunUpTo(e.type),
           IF e.mesh THEN e.type ELSE IF mesh /\ RunUpTo(e.type) = Total THEN "passed" ELSE mesh_event)
    /\ IF routed /\ e.category # "case" THEN End("blocked") ELSE NextTurn
    /\ UNCHANGED <<engineering_plan, proposal, decided, revision_plan>>

\* The members of a delta for plan p.  It has mesh commands, or the mesh is the old
\* one.  A failure keeps the plan `kept` and the episode ep.
RunMembers(p, before, mesh, routed, kept, ep) ==
    \/ (mesh \/ mesh_event = "passed") /\ Sealed(p, before)
    \/ \E e \in MemberFailures :
          /\ e.mesh => mesh
          /\ MemberFails(e, before, mesh, routed)
          /\ pending' = kept
          /\ episode' = ep

BudgetLeft(before) == events + before + Total <= MaxToolActions

\* A bundle that does not pass its preflight is retained.
BundleRejected(p, before) ==
    \E t \in Precommit :
        /\ Log(Event(t, FALSE), before + 1, mesh_event)
        /\ candidate' = p /\ pending' = None
        /\ structured' \in (IF t = "bundle_preflight" THEN {TRUE, structured} ELSE {structured})
        /\ IF tries + 1 >= MaxAuthoringRetries THEN End("blocked") ELSE NextTurn
        /\ UNCHANGED episode
        /\ SameRevision

ToolchainUnavailable(before) ==
    /\ Log([Event("native_toolchain_preflight", FALSE) EXCEPT !.category = "infra"],
           before + 1, mesh_event)
    /\ End("blocked")
    /\ UNCHANGED episode
    /\ SameRevision

\* execute_case_plan: the caller says what becomes of the draft and its queue.
ExecuteCasePlan(p, before) ==
    \/ BundleRejected(p, before)
    \/ /\ ToolchainUnavailable(before)
       /\ candidate' = None /\ pending' = None
       /\ structured' \in {TRUE, structured}
    \/ /\ ~BudgetLeft(before)
       /\ candidate' = None /\ pending' = p
       /\ structured' \in {TRUE, structured}
       /\ End("blocked")
       /\ events' = Counted(before)
       /\ UNCHANGED <<last, failure, failed, mesh_event, tries, diagnostic, episode>>
       /\ SameRevision
    \/ /\ BudgetLeft(before)
       /\ RunMembers(p, before, TRUE, TRUE, p, episode)
       /\ candidate' = None
       /\ structured' \in BOOLEAN
       /\ UNCHANGED <<outputs, touched>>

\* A repair, a strategy revision or a replacement of the blockMesh on a committed
\* case, for plan p: its members are not routed.
ExecuteDelta(p, ep) ==
    \/ /\ ToolchainUnavailable(0)
       /\ UNCHANGED <<pending, structured>>
    \/ /\ ~BudgetLeft(0)
       /\ End("blocked")
       /\ UNCHANGED <<history, episode, pending, structured>>
       /\ SameRevision
    \/ /\ BudgetLeft(0)
       /\ \E mesh \in BOOLEAN : RunMembers(p, 0, mesh, FALSE, pending, ep)
       /\ structured' \in {TRUE, structured}
       /\ outputs' = (outputs /\ phase = "prepare")
       /\ touched' = (touched \/ phase = "human_revision")

\* The decision says e and changes nothing else.
OnlySays(e) ==
    /\ Say(e)
    /\ NextTurn
    /\ UNCHANGED <<work, episode, retrieval>>
    /\ SameRevision

(***************************************************************************)
(* prepare_design: evidence, then a design.                                *)
(***************************************************************************)
DesignContracts == {"prepare_design", "prepare_design_decide"}

\* A batch of gaps (EvidenceGaps) makes a cycle when one of them is retrieved.
GatherEvidence ==
    /\ Decision({"prepare_design"})
    /\ ~DirectRepairRequired /\ ~disabled /\ cycles < MaxRetrievalCycles
    /\ events < MaxToolActions
    /\ cycles' \in {cycles, cycles + 1}
    /\ Say(Event("gather_evidence", TRUE))
    /\ NextTurn
    /\ UNCHANGED <<disabled, work, episode>>
    /\ SameRevision

\* The reference index cannot be read: the event has category infra.
RetrievalFails ==
    /\ Decision({"prepare_design"})
    /\ ~DirectRepairRequired /\ ~disabled /\ cycles < MaxRetrievalCycles
    /\ events < MaxToolActions
    /\ cycles' = MaxRetrievalCycles
    /\ disabled' = TRUE
    /\ Say([Event("gather_evidence", FALSE) EXCEPT !.signature = "retrieval", !.category = "infra"])
    /\ End("blocked")
    /\ UNCHANGED <<work, episode>>
    /\ SameRevision

RetrievalDeferred ==
    /\ Decision({"prepare_design", "repair"})
    /\ DirectRepairRequired
    /\ OnlySays(Event("search_references", FALSE))

\* A case file, or a reference the repair asks for.
ReadSupport ==
    /\ Decision({"prepare_design", "repair", "revision_author"})
    /\ events < MaxToolActions
    /\ \E ok \in BOOLEAN : OnlySays(Event("read_case_file", ok))

\* One more event than the round may have.
OutOfActions ==
    /\ Decision({contract})
    /\ events >= MaxToolActions
    /\ End("blocked")
    /\ UNCHANGED <<work, history, episode, retrieval>>
    /\ SameRevision

DesignAccepted ==
    /\ Decision(DesignContracts)
    /\ \E p \in Plans : draft' = p
    /\ queue' = None
    /\ Say(Event("design_case", TRUE))
    /\ NextTurn
    /\ UNCHANGED <<candidate, pending, structured, episode, retrieval>>
    /\ SameRevision

DesignRejected ==
    /\ Decision(DesignContracts)
    /\ OnlySays(Event("design_case", FALSE))

(***************************************************************************)
(* author_case and the retries of a retained candidate.                    *)
(***************************************************************************)
\* A partition of the authoring is accepted, and others are left.
TaskAccepted ==
    /\ Decision({"author_case"})
    /\ queue # None /\ queue.plan = draft /\ queue.left > 1
    /\ queue' = [queue EXCEPT !.left = @ - 1]
    /\ Say(Event("author_case", TRUE))
    /\ NextTurn
    /\ UNCHANGED <<draft, candidate, pending, structured, episode, retrieval>>
    /\ SameRevision

AuthoringRejected ==
    /\ Decision({"author_case"})
    /\ OnlySays(Event("author_case", FALSE))

\* The bundle is complete: the draft is used up, whatever becomes of the bundle.
Authored ==
    /\ Decision({"author_case"})
    /\ queue # None => queue = [plan |-> draft, left |-> 1]
    /\ draft' = None /\ queue' = None
    /\ ExecuteCasePlan(draft, 0)
    /\ UNCHANGED retrieval

\* The delta is empty or does not apply: the last event is the delta's own.
CandidateDeltaRejected ==
    /\ Decision({"replan", "block_mesh_replan"})
    /\ OnlySays(Event("repair_candidate", FALSE))

CandidateDelta ==
    /\ Decision({"replan", "block_mesh_replan"})
    /\ ExecuteCasePlan(candidate, 1)
    /\ UNCHANGED <<draft, queue, retrieval>>

(***************************************************************************)
(* Repairs of a committed case.                                            *)
(***************************************************************************)
RepairRejected ==
    /\ Decision({"repair", "revision_author"})
    /\ OnlySays(Event("repair_case_plan", FALSE))

\* The plan of the delta is the baseline, or the baseline patched.
Repair ==
    /\ Decision({"repair"})
    /\ \E p \in {RepairBaseline} \cup Plans :
          ExecuteDelta(p, IF episode = None THEN None ELSE [episode EXCEPT !.repaired = TRUE])
    /\ UNCHANGED <<draft, queue, candidate, retrieval>>

BlockMeshRejected ==
    /\ Decision({"block_mesh_repair"})
    /\ Log(Event("block_mesh_repair_preflight", FALSE), 1, "preflight")
    /\ NextTurn
    /\ UNCHANGED <<work, episode, retrieval>>
    /\ SameRevision

BlockMeshRepair ==
    /\ Decision({"block_mesh_repair"})
    /\ IF ~BudgetLeft(0)
       THEN /\ End("blocked")
            /\ UNCHANGED <<history, episode, pending, structured>>
            /\ SameRevision
       ELSE /\ RunMembers(BlockMeshBaseline, 0, TRUE, FALSE, pending, episode)
            /\ structured' = TRUE
            /\ UNCHANGED <<outputs, touched>>
    /\ UNCHANGED <<draft, queue, candidate, retrieval>>

\* Nothing is committed yet: the strategy changes the draft alone.
BeforeCommit == engineering_plan = None /\ pending = None /\ draft # None

\* The slip of keeping the tasks of the old draft.
DraftRevisedOnly ==
    /\ Decision({"strategy_revision"}) /\ BeforeCommit
    /\ \E p \in Plans \ {draft} : draft' = p
    /\ Say(Event("revise_mesh_strategy", TRUE))
    /\ NextTurn
    /\ UNCHANGED <<queue, candidate, pending, structured, episode, retrieval>>
    /\ SameRevision

\* The tasks of the old draft go with it.
DraftRevised ==
    /\ Decision({"strategy_revision"}) /\ BeforeCommit
    /\ \E p \in Plans \ {draft} : draft' = p
    /\ queue' = None
    /\ Say(Event("revise_mesh_strategy", TRUE))
    /\ NextTurn
    /\ UNCHANGED <<candidate, pending, structured, episode, retrieval>>
    /\ SameRevision

StrategyRejected ==
    /\ Decision({"strategy_revision"})
    /\ IF BeforeCommit
       THEN OnlySays([Event("revise_mesh_strategy", FALSE) EXCEPT
                        !.signature = "strategy_invalid", !.strategy = TRUE])
       ELSE OnlySays(Event("case_delta_graph", FALSE))

StrategyRevised ==
    /\ Decision({"strategy_revision"})
    /\ StrategyBaseline # None /\ ~BeforeCommit
    /\ \E p \in Plans : ExecuteDelta(p, episode)
    /\ UNCHANGED <<draft, queue, candidate, retrieval>>

(***************************************************************************)
(* Block.                                                                  *)
(***************************************************************************)
Block ==
    /\ Decision({contract}) /\ events < MaxToolActions
    /\ Say(Event("block", TRUE))
    /\ \E state \in {"blocked", "review"} : End(state)
    /\ UNCHANGED <<work, episode, retrieval>>
    /\ SameRevision

\* A strategy that cannot be authored, or a choice that is the agent's to make.
BlockRefused ==
    /\ Decision({contract}) /\ events < MaxToolActions
    /\ \/ /\ draft # None
          /\ OnlySays([Event("block", FALSE) EXCEPT !.signature = "infeasible", !.strategy = TRUE])
       \/ OnlySays([Event("block", FALSE) EXCEPT !.signature = "choice_missing"])

(***************************************************************************)
(* A human revision of a sealed case.                                      *)
(***************************************************************************)
\* The decision is kept in memory alone.
DecideRevision ==
    /\ pc = "decide" /\ contract = "revision_decide"
    /\ \/ /\ \E p \in Plans : revision_plan' = p
          /\ decided' = TRUE
          /\ Say(Event("decide_revision", TRUE))
       \/ /\ revision_plan' \in {revision_plan, engineering_plan}
          /\ UNCHANGED decided
          /\ Say(Event("decide_revision", FALSE))
    /\ NextTurn
    /\ UNCHANGED <<engineering_plan, proposal, outputs, touched, saved, work, episode, retrieval>>

\* The files of the revision; a patch of the plan here raises (TurnRaises).
AuthorRevision ==
    /\ Decision({"revision_author"})
    /\ ExecuteDelta(RepairBaseline,
                    IF episode = None THEN None ELSE [episode EXCEPT !.repaired = TRUE])
    /\ UNCHANGED <<draft, queue, candidate, retrieval>>

(***************************************************************************)
(* The end of the turns.                                                   *)
(***************************************************************************)
SoftLimit == pc = "generate" /\ step > limit

ActivePlan == FirstOf(<<pending, engineering_plan>>)

ReadyForFinalization ==
    /\ last = None \/ last.type \notin {"finish_preview", "block", "retry_solver"}
    /\ ActivePlan # None
    /\ mesh_event = "passed"      \* and no write since, which the model leaves open

\* The window of turns that may only submit the plan or block; the step counts them.
FinalizationOpens ==
    /\ SoftLimit /\ ReadyForFinalization
    /\ pc' = "finalize"
    /\ step' = 1 /\ limit' = MaxFinalizationSteps
    /\ UNCHANGED <<phase, next_step, extended, crashes, revision, work, history, episode,
                   retrieval, turn>>

FinalizationTurn ==
    /\ pc = "finalize" /\ step <= limit
    /\ UNCHANGED <<outputs, touched, saved, draft, queue, candidate, structured, retrieval>>
    /\ \/ /\ \E p \in Plans :
                 /\ Log(Event("finish_preview", TRUE), 1, mesh_event)
                 /\ engineering_plan' = p
          /\ proposal' = FALSE /\ decided' = FALSE /\ revision_plan' = None
          /\ episode' = None
          /\ UNCHANGED pending
          /\ End("sealed")
       \/ /\ \E t \in {"finish_preview", "block", "read_case_file"} : Say(Event(t, FALSE))
          /\ step' = step + 1
          /\ NoTurn
          /\ UNCHANGED <<phase, pc, limit, next_step, extended, crashes, engineering_plan,
                         proposal, decided, revision_plan, pending, episode>>
       \/ /\ Say(Event("block", TRUE))
          /\ End("blocked")
          /\ UNCHANGED <<engineering_plan, proposal, decided, revision_plan, pending, episode>>

\* The model call of the window raises; nothing puts a proposal back.
FinalizationRaises ==
    /\ pc = "finalize" /\ step <= limit
    /\ End("blocked")
    /\ UNCHANGED <<revision, work, history, episode, retrieval>>

FinalizationExhausted ==
    /\ pc = "finalize" /\ step > limit
    /\ End("blocked")
    /\ UNCHANGED <<revision, work, history, episode, retrieval>>

\* The next limit, and the slip of an extension without a cap.
Uncapped == limit + StepExtension
Extension == IF Uncapped < HardMaxAgentSteps THEN Uncapped ELSE HardMaxAgentSteps

\* The recent events show something new.
Extend ==
    /\ SoftLimit
    /\ limit < HardMaxAgentSteps
    /\ events >= ProgressWindow
    /\ limit' = Extension
    /\ extended' = IF Extension > extended THEN Extension ELSE extended
    /\ UNCHANGED <<phase, pc, step, next_step, crashes, revision, work, history, episode,
                   retrieval, turn>>

\* Nothing new, or the hard cap.
OutOfTurns ==
    /\ SoftLimit
    /\ End("blocked")
    /\ UNCHANGED <<revision, work, history, episode, retrieval>>

(***************************************************************************)
(* The session dies while the model works, and --resume goes on.           *)
(***************************************************************************)
ResumedLimit == IF extended > MaxAgentSteps THEN extended ELSE MaxAgentSteps

\* Whatever was in work is prepared on.
CrashAndResume ==
    /\ pc = "decide" /\ saved
    /\ crashes < MaxCrashes
    /\ crashes' = crashes + 1
    /\ phase' = "prepare" /\ pc' = "generate"
    /\ step' = next_step
    /\ limit' = ResumedLimit
    /\ NoTurn
    /\ UNCHANGED <<next_step, extended, revision, work, history, episode, retrieval>>

(***************************************************************************)
(* Specification.                                                          *)
(***************************************************************************)
Init ==
    /\ pc = "generate" /\ step = 1 /\ limit = MaxAgentSteps
    /\ extended = 0 /\ crashes = 0
    /\ decided = FALSE /\ revision_plan = None
    /\ draft = None /\ queue = None /\ candidate = None /\ pending = None
    /\ events = 0 /\ last = None /\ failure = None /\ failed = {} /\ tries = 0
    /\ diagnostic = None /\ episode = None
    /\ cycles = 0 /\ disabled = FALSE 
    /\ contract = None /\ shown = None
    /\ touched = FALSE /\ saved = FALSE
    /\ \/ /\ phase = "prepare"
          /\ next_step = 1
          /\ engineering_plan = None /\ proposal = FALSE /\ outputs = FALSE
          /\ structured = FALSE /\ mesh_event = "none"
       \/ /\ phase = "human_revision"
          /\ next_step = 2
          /\ engineering_plan \in Plans /\ proposal = TRUE /\ outputs = TRUE
          /\ structured \in BOOLEAN /\ mesh_event = "passed"

Turn ==
    \/ GenerateTurn \/ ContextExceeded \/ TurnRaises
    \/ GatherEvidence \/ RetrievalFails \/ RetrievalDeferred \/ ReadSupport
    \/ OutOfActions
    \/ DesignAccepted \/ DesignRejected
    \/ TaskAccepted \/ AuthoringRejected \/ Authored
    \/ CandidateDeltaRejected \/ CandidateDelta
    \/ RepairRejected \/ Repair \/ BlockMeshRejected \/ BlockMeshRepair
    \/ DraftRevised \/ StrategyRejected \/ StrategyRevised
    \/ Block \/ BlockRefused
    \/ DecideRevision \/ AuthorRevision
    \/ FinalizationOpens \/ FinalizationTurn \/ FinalizationRaises \/ FinalizationExhausted
    \/ Extend \/ OutOfTurns

Next == Turn \/ CrashAndResume

Spec == Init /\ [][Next]_vars
\* A turn is one call that returns or raises, and nothing else runs.
FairSpec == Spec /\ WF_vars(Turn)

(***************************************************************************)
(* Properties.                                                             *)
(***************************************************************************)
\* A resumed session that prepares a case sealed before.
Astray == phase = "prepare" /\ engineering_plan # None

\* The plan a turn shows to the model is the one its decision is applied to:
\* context_controller builds the one, the handlers of repair_controller and
\* decision_controller choose the other.
ShownIsUsed ==
    pc = "decide" /\ ~Astray /\ contract \notin DesignContracts =>
        /\ shown = UsedBaseline
        /\ shown # None \/ contract = "strategy_revision"

\* The turns of one run of the loop stay within the hard cap, and the window within
\* its own, however often progress is claimed and the session resumed.
TurnsBounded ==
    /\ pc = "decide" => step <= HardMaxAgentSteps
    /\ pc \in {"generate", "decide"} => limit <= HardMaxAgentSteps
    /\ pc = "finalize" => step <= MaxFinalizationSteps + 1

\* The turns come to an end, whatever the model answers.
LoopEnds == <>(pc \in Ends)
=============================================================================
