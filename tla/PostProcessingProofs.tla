------------------------ MODULE PostProcessingProofs ------------------------
(***************************************************************************)
(* What a report of a solved case is worth, for every set of analyses,     *)
(* configurations and contracts, every number of turns and revisions, and  *)
(* any number of changes from outside.                                     *)
(***************************************************************************)
EXTENDS PostProcessing, SequenceTheorems, TLAPS

(***************************************************************************)
(* The actions a turn or a plan dispatches.                                *)
(***************************************************************************)
Committed ==
    [type : {"write"}, path : Configs, content : Authored, committed : {TRUE}]

Actions == Single \cup Committed

\* What an action has by its type.
LEMMA ActionShape ==
    ASSUME NEW a \in Actions
    PROVE  /\ a.type \in {"write", "run", "force", "analyze"}
           /\ a.type = "write" => a.path \in Configs /\ a.content \in Authored
           /\ a.type \in {"run", "force"} => a.path \in Configs
           /\ a.type = "analyze" => a.id \in Analyses
BY DEF Actions, Single, Committed

LEMMA OneAction ==
    ASSUME NEW a \in Actions
    PROVE  <<a>> \in Seq(Actions)
OBVIOUS

\* A plan the model may write is compiled into such actions.
LEMMA PlanIsOfActions ==
    ASSUME NEW p \in Plans
    PROVE  MembersOf(p) \in Seq(Actions)
<1> DEFINE W == IF p.write = None THEN <<>>
                ELSE <<[type |-> "write", path |-> p.write.path,
                        content |-> p.write.content, committed |-> TRUE]>>
<1>1. W \in Seq(Actions)
  <2>1. CASE p.write = None
    BY <2>1
  <2>2. CASE p.write # None
    <3>1. p.write \in [path : Configs, content : Authored]
      BY <2>2 DEF Plans
    <3>2. [type |-> "write", path |-> p.write.path, content |-> p.write.content,
           committed |-> TRUE] \in Actions
      BY <3>1 DEF Actions, Committed
    <3> QED
      BY <2>2, <3>2, OneAction
  <2> QED
    BY <2>1, <2>2
<1>2. \A t \in {"run", "force"}, c \in Configs \cup {None} : OneOf(t, c) \in Seq(Actions)
  <2> TAKE t \in {"run", "force"}, c \in Configs \cup {None}
  <2>1. CASE c = None
    BY <2>1 DEF OneOf
  <2>2. CASE c # None
    <3>1. [type |-> t, path |-> c] \in Actions
      BY <2>2 DEF Actions, Single
    <3> QED
      BY <2>2, <3>1, OneAction DEF OneOf
  <2> QED
    BY <2>1, <2>2
<1>3. \A a \in Analyses \cup {None} : AnalysisOf(a) \in Seq(Actions)
  <2> TAKE a \in Analyses \cup {None}
  <2>1. CASE a = None
    BY <2>1 DEF AnalysisOf
  <2>2. CASE a # None
    <3>1. [type |-> "analyze", id |-> a] \in Actions
      BY <2>2 DEF Actions, Single
    <3> QED
      BY <2>2, <3>1, OneAction DEF AnalysisOf
  <2> QED
    BY <2>1, <2>2
<1>4. /\ OneOf("run", p.run) \in Seq(Actions)
      /\ OneOf("force", p.force) \in Seq(Actions)
      /\ AnalysisOf(p.check) \in Seq(Actions)
      /\ AnalysisOf(p.quantity) \in Seq(Actions)
  BY <1>2, <1>3 DEF Plans, Analyses
<1> HIDE DEF W
<1>5. W \o OneOf("run", p.run) \in Seq(Actions)
  BY <1>1, <1>4, ConcatProperties
<1>6. W \o OneOf("run", p.run) \o OneOf("force", p.force) \in Seq(Actions)
  BY <1>4, <1>5, ConcatProperties
<1>7. W \o OneOf("run", p.run) \o OneOf("force", p.force) \o AnalysisOf(p.check) \in Seq(Actions)
  BY <1>4, <1>6, ConcatProperties
<1>8. W \o OneOf("run", p.run) \o OneOf("force", p.force) \o AnalysisOf(p.check)
        \o AnalysisOf(p.quantity) \in Seq(Actions)
  BY <1>4, <1>7, ConcatProperties
<1> QED
  BY <1>8 DEF MembersOf, W

(***************************************************************************)
(* The invariant: what is on record was written by the model, and a        *)
(* verdict in the state is that of the bytes and the contract beside it.   *)
(***************************************************************************)
RecordHolds ==
    /\ recorded \in [Configs -> Authored \cup {None}]
    /\ members \in Seq(Actions) \cup {None}
    /\ sealed \in BOOLEAN
    /\ OnlyOwnEvidence

Verdict(r) == r # None /\ r.ok => <<r.bytes, r.contract>> \in Passing

VerdictsHold ==
    /\ DOMAIN analyses = Analyses
    /\ \A a \in Analyses : Verdict(analyses[a])

Inv == RecordHolds /\ VerdictsHold

LEMMA InvInit == Init => Inv
<1> SUFFICES ASSUME Init PROVE Inv
  OBVIOUS
<1>1. RecordHolds
  BY DEF Init, RecordHolds, OnlyOwnEvidence
<1>2. VerdictsHold
  BY DEF Init, Nothing, VerdictsHold, Verdict
<1> QED
  BY <1>1, <1>2 DEF Inv

(***************************************************************************)
(* Dispatch, of an action of a turn or of a member of a plan.              *)
(***************************************************************************)
LEMMA DispatchRecords ==
    ASSUME RecordHolds, NEW a \in Actions, NEW ok \in BOOLEAN, Dispatch(a, ok)
    PROVE  /\ recorded' \in [Configs -> Authored \cup {None}]
           /\ sealed' \in BOOLEAN
           /\ OnlyOwnEvidence'
<1>1. CASE a.type = "write"
  <2>1. Write(a, ok)
    BY <1>1 DEF Dispatch
  <2>2. a.path \in Configs /\ a.content \in Authored
    BY <1>1, ActionShape
  <2> QED
    BY <2>1, <2>2 DEF Write, KeepHistory, history, RecordHolds, OnlyOwnEvidence
<1>2. CASE a.type = "run"
  <2>1. RunNative(a, ok)
    BY <1>2 DEF Dispatch
  <2>2. a.path \in Configs
    BY <1>2, ActionShape
  <2>3. CASE ~MayRun(a.path)
    BY <2>1, <2>3 DEF RunNative, KeepMemory, KeepHistory, KeepCase, memory, history, case,
                      RecordHolds, OnlyOwnEvidence
  <2>4. CASE MayRun(a.path)
    <3>1. disk[a.path] \in Authored /\ sealed
      BY <2>2, <2>4 DEF MayRun, RecordHolds
    <3>2. /\ ran' = [content |-> disk[a.path], sealed |-> sealed]
          /\ UNCHANGED <<recorded, sealed>>
      BY <2>1, <2>4 DEF RunNative, KeepMemory, memory
    <3> QED
      BY <3>1, <3>2 DEF RecordHolds, OnlyOwnEvidence
  <2> QED
    BY <2>3, <2>4
<1>3. CASE a.type = "force"
  <2>1. AnalyzeForce(a, ok)
    BY <1>3 DEF Dispatch
  <2> QED
    BY <2>1 DEF AnalyzeForce, KeepHistory, KeepCase, history, case, RecordHolds, OnlyOwnEvidence
<1>4. CASE a.type = "analyze"
  <2>1. Analyze(a, ok)
    BY <1>4 DEF Dispatch
  <2> QED
    BY <2>1 DEF Analyze, KeepHistory, KeepCase, history, case, RecordHolds, OnlyOwnEvidence
<1> QED
  BY <1>1, <1>2, <1>3, <1>4, ActionShape

LEMMA DispatchVerdicts ==
    ASSUME VerdictsHold, NEW a \in Actions, NEW ok \in BOOLEAN, Dispatch(a, ok)
    PROVE  VerdictsHold'
<1>1. CASE a.type # "analyze"
  <2>1. UNCHANGED analyses
    BY <1>1, ActionShape DEF Dispatch, Write, RunNative, AnalyzeForce, KeepMemory, memory
  <2> QED
    BY <2>1 DEF VerdictsHold
<1>2. CASE a.type = "analyze"
  <2>1. Analyze(a, ok) /\ a.id \in Analyses
    BY <1>2, ActionShape DEF Dispatch
  <2> DEFINE made == [bytes |-> result[a.id], contract |-> plan[a.id],
                      ok |-> <<result[a.id], plan[a.id]>> \in Passing]
  <2>2. UNCHANGED analyses \/ analyses' = [analyses EXCEPT ![a.id] = made]
    BY <2>1 DEF Analyze
  <2>3. Verdict(made)
    BY DEF Verdict
  <2> HIDE DEF made
  <2>4. CASE UNCHANGED analyses
    BY <2>4 DEF VerdictsHold
  <2>5. CASE analyses' = [analyses EXCEPT ![a.id] = made]
    <3>1. DOMAIN analyses' = Analyses
      BY <2>5 DEF VerdictsHold
    <3>2. \A b \in Analyses : analyses'[b] = IF b = a.id THEN made ELSE analyses[b]
      BY <2>5 DEF VerdictsHold
    <3>3. \A b \in Analyses : Verdict(analyses'[b])
      BY <2>3, <3>2 DEF VerdictsHold
    <3> QED
      BY <3>1, <3>3 DEF VerdictsHold
  <2> QED
    BY <2>2, <2>4, <2>5
<1> QED
  BY <1>1, <1>2

(***************************************************************************)
(* Every step keeps the invariant.                                         *)
(***************************************************************************)
LEMMA AgentKeeps ==
    ASSUME Inv, Agent
    PROVE  Inv'
<1> USE DEF Inv
<1>1. CASE Begin \/ Observe
  BY <1>1 DEF Begin, Observe, RecordHolds, VerdictsHold, OnlyOwnEvidence, case, memory, history
<1>2. CASE SingleAction
  <2>1. PICK a \in Single, ok \in BOOLEAN : Dispatch(a, ok)
    BY <1>2 DEF SingleAction
  <2>2. a \in Actions
    BY DEF Actions
  <2>3. UNCHANGED members
    BY <1>2 DEF SingleAction
  <2>4. RecordHolds'
    BY <2>1, <2>2, <2>3, DispatchRecords DEF RecordHolds
  <2> QED
    BY <2>1, <2>2, <2>4, DispatchVerdicts
<1>3. ASSUME NEW listed \in BOOLEAN,
             TurnRaises(listed) \/ Exhausted(listed) \/ Finish(listed) \/ PlanDone(listed)
      PROVE  Inv'
  <2>1. UNCHANGED <<case, memory, history>>
    BY <1>3 DEF TurnRaises, Exhausted, Finish, PlanDone
  <2>2. members' = None \/ UNCHANGED members
    BY <1>3 DEF TurnRaises, Exhausted, Finish, PlanDone, FinishPartial, Conclude
  <2> QED
    BY <2>1, <2>2 DEF RecordHolds, VerdictsHold, OnlyOwnEvidence, case, memory, history
<1>4. ASSUME NEW p \in Plans, StartPlan(p) \/ RejectPlan(p)
      PROVE  Inv'
  <2>1. UNCHANGED <<memory, history, sealed>>
    BY <1>4 DEF StartPlan, RejectPlan, case
  <2>2. members' \in Seq(Actions) \cup {None}
    BY <1>4, PlanIsOfActions DEF StartPlan, RejectPlan, RecordHolds
  <2> QED
    BY <2>1, <2>2 DEF RecordHolds, VerdictsHold, OnlyOwnEvidence, memory, history
<1>5. CASE Member
  <2>1. members \in Seq(Actions) /\ members # <<>>
    BY <1>5 DEF Member, RecordHolds
  <2>2. Head(members) \in Actions /\ Tail(members) \in Seq(Actions)
    BY <2>1, HeadTailProperties
  <2>3. PICK ok \in BOOLEAN : /\ Dispatch(Head(members), ok)
                              /\ members' = IF ok THEN Tail(members) ELSE None
    BY <1>5 DEF Member
  <2>4. RecordHolds'
    BY <2>2, <2>3, DispatchRecords DEF RecordHolds
  <2> QED
    BY <2>2, <2>3, <2>4, DispatchVerdicts
<1> QED
  BY <1>1, <1>2, <1>3, <1>4, <1>5 DEF Agent

LEMMA InvStep == Inv /\ [Next]_vars => Inv'
<1> SUFFICES ASSUME Inv, [Next]_vars PROVE Inv'
  OBVIOUS
<1> USE DEF Inv
<1>1. CASE Agent
  BY <1>1, AgentKeeps
<1>2. CASE Outside
  <2>1. UNCHANGED <<members, memory, history>> /\ sealed' \in BOOLEAN
    BY <1>2 DEF Outside, RecordHolds
  <2> QED
    BY <2>1 DEF RecordHolds, VerdictsHold, OnlyOwnEvidence, memory, history
<1>3. CASE Revise
  BY <1>3 DEF Revise, RecordHolds, VerdictsHold, OnlyOwnEvidence, history
<1>4. CASE UNCHANGED vars
  BY <1>4 DEF vars, RecordHolds, VerdictsHold, OnlyOwnEvidence, case, memory, history
<1> QED
  BY <1>1, <1>2, <1>3, <1>4 DEF Next

THEOREM Invariance == Spec => []Inv
BY InvInit, InvStep, PTL DEF Spec

\* No native run reads a configuration an unknown hand wrote, or runs over
\* inputs that are not those that were solved (postprocessing/agent.py,
\* _dispatch).
THEOREM OnlyOwnEvidenceCorrect == Spec => []OnlyOwnEvidence
<1>1. Inv => OnlyOwnEvidence
  BY DEF Inv, RecordHolds
<1> QED
  BY <1>1, Invariance, PTL

(***************************************************************************)
(* Reports.                                                                *)
(***************************************************************************)
\* What is built from the state is of the case as it lies.
LEMMA ReportIsCurrent ==
    ASSUME VerdictsHold
    PROVE  NamesWhatLies(Report) /\ ClaimsWhatHolds(Report)
<1>1. NamesWhatLies(Report)
  BY DEF NamesWhatLies, Report, ForceIsCurrent, CurrentAnalyses
<1>2. ASSUME Report.success, NEW a \in Required
      PROVE  <<result[a], plan[a]>> \in Passing
  <2>1. a \in CurrentAnalyses /\ Failing(CurrentAnalyses) = {}
    BY <1>2 DEF Report
  <2>2. /\ a \in Analyses /\ analyses[a] # None
        /\ analyses[a].contract = plan[a] /\ analyses[a].bytes = result[a]
    BY <2>1 DEF CurrentAnalyses
  <2>3. analyses[a].ok
    BY <2>1 DEF Failing
  <2> QED
    BY <2>2, <2>3 DEF VerdictsHold, Verdict
<1> QED
  BY <1>1, <1>2 DEF ClaimsWhatHolds

\* The report of a changed case names and claims nothing.
LEMMA EmptyReport ==
    LET r == [force |-> FALSE, analyses |-> {}, success |-> FALSE] IN
    NamesWhatLies(r) /\ ClaimsWhatHolds(r)
BY DEF NamesWhatLies, ClaimsWhatHolds

\* Only a turn that ends, and the start over a changed case, write one.
LEMMA ReportStep ==
    ASSUME [Next]_vars, report' # report, report' # None
    PROVE  \/ report' = Report
           \/ report' = [force |-> FALSE, analyses |-> {}, success |-> FALSE]
<1>1. CASE Begin
  BY <1>1 DEF Begin
<1>2. CASE Observe \/ SingleAction \/ Member \/ Outside \/ Revise
  BY <1>2 DEF Observe, SingleAction, Member, Outside, Revise
<1>3. ASSUME NEW listed \in BOOLEAN,
             TurnRaises(listed) \/ Exhausted(listed) \/ Finish(listed) \/ PlanDone(listed)
      PROVE  report' = Report
  BY <1>3 DEF TurnRaises, Exhausted, Finish, PlanDone, FinishPartial, Conclude
<1>4. ASSUME NEW p \in Plans, StartPlan(p) \/ RejectPlan(p)
      PROVE  FALSE
  BY <1>4 DEF StartPlan, RejectPlan
<1>5. ~UNCHANGED vars
  BY DEF vars
<1> QED
  BY <1>1, <1>2, <1>3, <1>4, <1>5 DEF Next, Agent

\* Whatever is changed from outside or by a revision between two steps, a
\* report names only analyses of the bytes, the dictionary and the contract
\* that lie there, and claims success only where every required quantity and
\* check meets its contract (postprocessing/agent.py, _build_report).
THEOREM ReportIsOfTheCaseCorrect == Spec => ReportIsOfTheCase
<1>1. Inv /\ [Next]_vars =>
        [report' # report /\ report' # None
           => NamesWhatLies(report') /\ ClaimsWhatHolds(report')]_vars
  BY ReportStep, ReportIsCurrent, EmptyReport DEF Inv
<1> QED
  BY <1>1, Invariance, PTL DEF Spec, ReportIsOfTheCase
=============================================================================
