-------------------------- MODULE PostProcessing ---------------------------
(***************************************************************************)
(* postprocessing/agent.py: the turns over a solved case, one at a time or *)
(* as the members of an execution plan, the analyses they leave in the     *)
(* state, and the report built from them.  Anything outside the agent may  *)
(* change a file between two steps, and a confirmed revision may solve the *)
(* case again with analyses of the run before it still in the state; a     *)
(* revision changes one contract here.                                     *)
(*                                                                         *)
(* Files are their contents.  The texts a model writes are Authored; an    *)
(* unknown hand may leave others.  Reading and searching change nothing.   *)
(***************************************************************************)
EXTENDS Integers, Sequences

CONSTANTS
    Configs,         \* paths under postprocessConfig/
    Contents,        \* texts of a configuration
    Authored,        \* the texts a model writes
    Coefficients,    \* the result file of forceCoeffs
    Quantities,      \* ids of quantities of interest, each with its source
    Checks,          \* ids of conservation checks
    Bytes,           \* contents of a native result
    Contracts,       \* contracts a plan may give an analysis
    FirstPlan,       \* the contracts of the plan solved first
    Passing,         \* contents that meet a contract
    None,
    MaxSteps, MaxNative,
    MaxRuns,         \* bound: solved revisions
    MaxChanges       \* bound: changes from outside

Analyses == Quantities \cup Checks
Sources  == Analyses \cup {Coefficients}

ASSUME PostAssumption ==
    /\ Authored \subseteq Contents
    /\ Passing \subseteq Bytes \X Contracts
    /\ FirstPlan \in [Analyses -> Contracts \cup {None}]
    /\ Quantities \cap Checks = {} /\ Coefficients \notin Analyses
    /\ None \notin Contents \cup Bytes \cup Contracts
    /\ MaxSteps \in Nat \ {0} /\ MaxNative \in Nat \ {0}

VARIABLES
    current_state,
    step,
    members,     \* what is left of the plan of this turn, or None
    \* the case
    sealed,      \* the inputs of the solve are as they were sealed
    present,     \* and none of them is missing
    disk,        \* postprocessConfig/
    result,      \* native results
    plan,        \* engineering_plan: the contract of each analysis
    \* the state
    recorded,    \* digest of the latest write_postprocess_config event
    force,       \* force_coefficient_analysis, or None
    analyses,    \* quantity_analyses and conservation_analyses
    report,      \* postprocessing_report, or None
    natives,     \* records with effect "postprocess"
    ran,         \* history: what the last native run read
    runs, changes

case   == <<sealed, present, disk, result, plan>>
memory == <<recorded, force, analyses>>
history == <<natives, ran>>
counts == <<runs, changes>>
vars   == <<current_state, step, members, case, memory, report, history, counts>>

Nothing == [a \in Analyses |-> None]

(***************************************************************************)
(* The report: what is still current, and what the plan requires.          *)
(***************************************************************************)
RecordedAnalyses == {a \in Analyses : analyses[a] # None}

CurrentAnalyses ==
    {a \in Analyses : /\ analyses[a] # None
                      /\ analyses[a].contract = plan[a]
                      /\ analyses[a].bytes = result[a]}

\* _validated_force_analysis.
ForceIsCurrent ==
    /\ force # None
    /\ force.bytes = result[Coefficients]
    /\ force.content = disk[force.path]

Required == {a \in Analyses : plan[a] # None}

Failing(reported) == {a \in reported : ~analyses[a].ok}

Report ==
    [force    |-> ForceIsCurrent,
     analyses |-> CurrentAnalyses,
     success  |-> /\ result[Coefficients] # None \/ CurrentAnalyses # {}
                  /\ Required \subseteq CurrentAnalyses
                  /\ Failing(CurrentAnalyses) = {}]

\* A report is set before the state is; no later turn follows.
Conclude ==
    /\ report' = Report
    /\ current_state' = "RESULT_REVIEW_REQUIRED"
    /\ members' = None
    /\ UNCHANGED step

\* Collecting the artifacts lists the case directory and may raise; the
\* handler that finishes a failed turn lists it again.
FinishPartial(listed) ==
    IF listed
    THEN Conclude
    ELSE /\ current_state' = "FAILED"
         /\ members' = None
         /\ UNCHANGED <<report, step>>

(***************************************************************************)
(* Dispatch of one action: what it changes, and whether its event is a     *)
(* success.  An event whose text is too long for its schema is rejected    *)
(* after its action took place.                                            *)
(***************************************************************************)
KeepMemory  == UNCHANGED memory
KeepHistory == UNCHANGED history
KeepCase    == UNCHANGED case

Write(a, ok) ==
    /\ recorded' = [recorded EXCEPT ![a.path] = a.content]
    /\ disk' = IF a.committed THEN disk ELSE [disk EXCEPT ![a.path] = a.content]
    /\ ok
    /\ UNCHANGED <<sealed, present, result, plan, force, analyses>>
    /\ KeepHistory

MayRunAnyConfig(c) ==
    /\ natives < MaxNative
    /\ recorded[c] # None /\ disk[c] # None
    /\ sealed /\ present

MayRun(c) ==
    /\ natives < MaxNative
    /\ recorded[c] # None
    /\ disk[c] = recorded[c]
    /\ sealed /\ present

RunNative(a, ok) ==
    IF ~MayRun(a.path)
    THEN /\ ~ok
         /\ KeepMemory /\ KeepHistory /\ KeepCase
    ELSE \E success \in BOOLEAN, long \in BOOLEAN, b \in Bytes :
            /\ natives' = natives + 1
            /\ ran' = [content |-> disk[a.path], sealed |-> sealed]
            /\ result' = IF success THEN [result EXCEPT ![Coefficients] = b] ELSE result
            /\ ok = (success /\ ~long)
            /\ UNCHANGED <<sealed, present, disk, plan>>
            /\ KeepMemory

AnalyzeForce(a, ok) ==
    /\ IF result[Coefficients] = None \/ disk[a.path] = None
       THEN ~ok /\ UNCHANGED force
       ELSE \/ ok /\ force' = [path |-> a.path, content |-> disk[a.path],
                               bytes |-> result[Coefficients]]
            \/ ~ok /\ UNCHANGED force            \* not a table of coefficients
    /\ UNCHANGED <<recorded, analyses>>
    /\ KeepHistory /\ KeepCase

\* An analysis that cannot be computed raises; a computed one replaces the
\* analysis of its id.  The event of a conservation check is its verdict.
Analyze(a, ok) ==
    LET verdict == <<result[a.id], plan[a.id]>> \in Passing IN
    /\ IF plan[a.id] = None \/ result[a.id] = None
       THEN ~ok /\ UNCHANGED analyses
       ELSE \/ /\ ok \in (IF a.id \in Checks THEN {verdict, FALSE} ELSE {TRUE})
               /\ analyses' = [analyses EXCEPT ![a.id] =
                      [bytes |-> result[a.id], contract |-> plan[a.id], ok |-> verdict]]
            \/ ~ok /\ UNCHANGED analyses
    /\ UNCHANGED <<recorded, force>>
    /\ KeepHistory /\ KeepCase

Dispatch(a, ok) ==
    CASE a.type = "write" -> Write(a, ok)
      [] a.type = "run"   -> RunNative(a, ok)
      [] a.type = "force" -> AnalyzeForce(a, ok)
      [] OTHER            -> Analyze(a, ok)

Single ==
    [type : {"write"}, path : Configs, content : Authored, committed : {FALSE}]
    \cup [type : {"run", "force"}, path : Configs]
    \cup [type : {"analyze"}, id : Analyses]

(***************************************************************************)
(* Turns.                                                                  *)
(***************************************************************************)
AtTurn == current_state = "POSTPROCESSING" /\ members = None /\ step <= MaxSteps

SameTurn == UNCHANGED step

NextTurn == step' = step + 1

\* run: the seal is adopted and verified before the first turn.  A missing
\* file raises past the handler of a changed one.
Begin ==
    /\ current_state = "EXECUTION_DONE"
    /\ \/ present /\ sealed
          /\ current_state' = "POSTPROCESSING"
          /\ UNCHANGED report
       \/ present /\ ~sealed
          /\ current_state' = "RESULT_REVIEW_REQUIRED"
          /\ report' = [force |-> FALSE, analyses |-> {}, success |-> FALSE]
       \/ ~present
          /\ current_state' = "FAILED"
          /\ UNCHANGED report
    /\ UNCHANGED <<step, members, case, memory, history, counts>>

\* Searches, references, listings and reads.
Observe ==
    /\ AtTurn
    /\ NextTurn
    /\ UNCHANGED <<current_state, members, case, memory, report, history, counts>>

SingleAction ==
    /\ AtTurn
    /\ \E a \in Single, ok \in BOOLEAN : Dispatch(a, ok)
    /\ NextTurn
    /\ UNCHANGED <<current_state, members, report, counts>>

\* The model fails to answer, a bundle fails to commit, the runner refuses.
TurnRaises(listed) ==
    /\ current_state = "POSTPROCESSING" /\ step <= MaxSteps
    /\ members # <<>>
    /\ FinishPartial(listed)
    /\ UNCHANGED <<case, memory, history, counts>>

Exhausted(listed) ==
    /\ current_state = "POSTPROCESSING" /\ members = None /\ step > MaxSteps
    /\ FinishPartial(listed)
    /\ UNCHANGED <<case, memory, history, counts>>

\* finish_postprocessing and block_postprocessing: a report that cannot be
\* built is a rejected action.
Finish(listed) ==
    /\ AtTurn
    /\ IF listed
       THEN Conclude
       ELSE NextTurn /\ UNCHANGED <<current_state, members, report>>
    /\ UNCHANGED <<case, memory, history, counts>>

(***************************************************************************)
(* Execution plans: the configurations are committed together, then every  *)
(* member runs until one is not a success.                                 *)
(***************************************************************************)
OneOf(type, c) == IF c = None THEN <<>> ELSE <<[type |-> type, path |-> c]>>
AnalysisOf(a)  == IF a = None THEN <<>> ELSE <<[type |-> "analyze", id |-> a]>>

\* A plan here has at most one configuration, run and analysis of each kind.
Plans == [write : [path : Configs, content : Authored] \cup {None},
          run : Configs \cup {None}, force : Configs \cup {None},
          check : Checks \cup {None}, quantity : Quantities \cup {None}]

MembersOf(p) ==
    (IF p.write = None THEN <<>>
     ELSE <<[type |-> "write", path |-> p.write.path, content |-> p.write.content,
             committed |-> TRUE]>>)
    \o OneOf("run", p.run) \o OneOf("force", p.force)
    \o AnalysisOf(p.check) \o AnalysisOf(p.quantity)

\* compile_postprocess_graph.
Available(p) ==
    {c \in Configs : disk[c] # None} \cup (IF p.write = None THEN {} ELSE {p.write.path})

Compiles(p) == {p.run, p.force} \ {None} \subseteq Available(p)

StartPlan(p) ==
    /\ AtTurn
    /\ MembersOf(p) # <<>>
    /\ Compiles(p)
    /\ disk' = IF p.write = None THEN disk
               ELSE [disk EXCEPT ![p.write.path] = p.write.content]
    /\ members' = MembersOf(p)
    /\ UNCHANGED <<current_state, step, sealed, present, result, plan,
                   memory, report, history, counts>>

\* The graph is invalid, or a text is refused.
RejectPlan(p) ==
    /\ AtTurn
    /\ MembersOf(p) # <<>>
    /\ Compiles(p) => p.write # None
    /\ NextTurn
    /\ UNCHANGED <<current_state, members, case, memory, report, history, counts>>

Member ==
    /\ current_state = "POSTPROCESSING"
    /\ members # None /\ members # <<>>
    /\ \E ok \in BOOLEAN :
          /\ Dispatch(Head(members), ok)
          /\ members' = IF ok THEN Tail(members) ELSE None
          /\ IF ok THEN SameTurn ELSE NextTurn
    /\ UNCHANGED <<current_state, report, counts>>

\* A report that cannot be built is tried again by the handler of the turn.
PlanDone(listed) ==
    /\ current_state = "POSTPROCESSING"
    /\ members = <<>>
    /\ FinishPartial(listed)
    /\ UNCHANGED <<case, memory, history, counts>>

Agent ==
    \/ Begin
    \/ Observe
    \/ SingleAction
    \/ \E listed \in BOOLEAN :
          TurnRaises(listed) \/ Exhausted(listed) \/ Finish(listed) \/ PlanDone(listed)
    \/ \E p \in Plans : StartPlan(p) \/ RejectPlan(p)
    \/ Member

(***************************************************************************)
(* The rest of the world.                                                  *)
(***************************************************************************)
\* During a review nothing reads these files; a revised solve writes them anew.
Outside ==
    /\ changes < MaxChanges
    /\ current_state \in {"EXECUTION_DONE", "POSTPROCESSING"}
    /\ changes' = changes + 1
    /\ \/ sealed' = FALSE /\ present' \in {present, FALSE} /\ UNCHANGED <<disk, result>>
       \/ /\ \E c \in Configs, t \in Contents \cup {None} : disk' = [disk EXCEPT ![c] = t]
          /\ UNCHANGED <<sealed, present, result>>
       \/ /\ \E s \in Sources, b \in Bytes \cup {None} : result' = [result EXCEPT ![s] = b]
          /\ UNCHANGED <<sealed, present, disk>>
    /\ UNCHANGED <<current_state, step, members, plan, memory, report, history, runs>>

\* begin_confirmed_revision_mutation, then a solve of the revised case: the
\* outputs are archived, and the analyses of quantities and checks stay.
Revise ==
    /\ current_state = "RESULT_REVIEW_REQUIRED"
    /\ runs < MaxRuns
    /\ runs' = runs + 1
    /\ current_state' = "EXECUTION_DONE"
    /\ step' = 1
    /\ sealed' = TRUE /\ present' = TRUE
    /\ disk' = [c \in Configs |-> None]
    /\ \E s \in [Analyses -> Bytes] :
          result' = [r \in Sources |-> IF r = Coefficients THEN None ELSE s[r]]
    /\ \E a \in Analyses, k \in Contracts \cup {None} : plan' = [plan EXCEPT ![a] = k]
    /\ recorded' = [c \in Configs |-> None]
    /\ force' = None
    /\ report' = None
    /\ UNCHANGED <<members, analyses, history, changes>>

Init ==
    /\ current_state = "EXECUTION_DONE"
    /\ step = 1
    /\ members = None
    /\ sealed = TRUE /\ present = TRUE
    /\ disk = [c \in Configs |-> None]
    /\ \E s \in [Analyses -> Bytes] :
          result = [r \in Sources |-> IF r = Coefficients THEN None ELSE s[r]]
    /\ plan = FirstPlan
    /\ recorded = [c \in Configs |-> None]
    /\ force = None
    /\ analyses = Nothing
    /\ report = None
    /\ natives = 0 /\ ran = None
    /\ runs = 1 /\ changes = 0

Next == Agent \/ Outside \/ Revise

Spec == Init /\ [][Next]_vars

\* The loop of run takes its turns; the model's answers are bounded in time.
FairSpec == Spec /\ WF_vars(Agent)

-----------------------------------------------------------------------------
\* No foamPostProcess reads a configuration an unknown hand wrote, or runs over
\* inputs that are not those that were solved (agent.py:326-352).
OnlyOwnEvidence == ran # None => ran.content \in Authored /\ ran.sealed

\* A report names an analysis only while the bytes, the dictionary and the
\* contract it was made for are those of the case: not one of a result that
\* was changed since, nor of the run before a revision (agent.py:666-722, 801-823).
NamesWhatLies(r) ==
    /\ r.force => force.bytes = result[Coefficients] /\ force.content = disk[force.path]
    /\ \A a \in r.analyses : analyses[a].bytes = result[a] /\ analyses[a].contract = plan[a]

\* One that claims success tells the truth of the case as it lies: every quantity
\* and check the plan asks for is there and meets its contract (agent.py:662-706).
ClaimsWhatHolds(r) == r.success => \A a \in Required : <<result[a], plan[a]>> \in Passing

\* Whatever is changed from outside or by a revision between two steps, a report
\* is of the case it is written for.
ReportIsOfTheCase ==
    [][report' # report /\ report' # None => NamesWhatLies(report') /\ ClaimsWhatHolds(report')]_vars

\* Post-processing ends, whatever the model answers and whatever fails.
PostProcessingEnds ==
    current_state = "EXECUTION_DONE" ~> current_state \in {"RESULT_REVIEW_REQUIRED", "FAILED"}
=============================================================================
