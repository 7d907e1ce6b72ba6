----------------------------- MODULE TurnProofs -----------------------------
(***************************************************************************)
(* What a turn of engineering is about and how many there are, for every   *)
(* set of plans, every policy of turns and every number of deaths.         *)
(***************************************************************************)
EXTENDS TurnContracts, TLAPS

(***************************************************************************)
(* Python's `a or b or c' over plans.                                      *)
(***************************************************************************)
LEMMA FirstOfTwo ==
    ASSUME NEW a, NEW b
    PROVE  FirstOf(<<a, b>>) = IF a # None THEN a ELSE b
<1> DEFINE s == <<a, b>>
           P(i) == s[i] # None /\ \A j \in 1 .. i - 1 : s[j] = None
<1>1. DOMAIN s = {1, 2} /\ s[1] = a /\ s[2] = b
  OBVIOUS
<1>2. CASE a # None
  <2>1. P(1) /\ ~P(2)
    BY <1>1, <1>2
  <2>2. (CHOOSE i \in DOMAIN s : P(i)) = 1
    BY <1>1, <2>1
  <2> QED
    BY <1>1, <1>2, <2>2 DEF FirstOf
<1>3. CASE a = None /\ b # None
  <2>1. ~P(1) /\ P(2)
    BY <1>1, <1>3
  <2>2. (CHOOSE i \in DOMAIN s : P(i)) = 2
    BY <1>1, <2>1
  <2> QED
    BY <1>1, <1>3, <2>2 DEF FirstOf
<1>4. CASE a = None /\ b = None
  BY <1>1, <1>4 DEF FirstOf
<1> QED
  BY <1>2, <1>3, <1>4

LEMMA FirstOfThree ==
    ASSUME NEW a, NEW b, NEW c
    PROVE  FirstOf(<<a, b, c>>) = IF a # None THEN a ELSE IF b # None THEN b ELSE c
<1> DEFINE s == <<a, b, c>>
           P(i) == s[i] # None /\ \A j \in 1 .. i - 1 : s[j] = None
<1>1. DOMAIN s = {1, 2, 3} /\ s[1] = a /\ s[2] = b /\ s[3] = c
  OBVIOUS
<1>2. CASE a # None
  <2>1. P(1) /\ ~P(2) /\ ~P(3)
    BY <1>1, <1>2
  <2>2. (CHOOSE i \in DOMAIN s : P(i)) = 1
    BY <1>1, <2>1
  <2> QED
    BY <1>1, <1>2, <2>2 DEF FirstOf
<1>3. CASE a = None /\ b # None
  <2>1. ~P(1) /\ P(2) /\ ~P(3)
    BY <1>1, <1>3
  <2>2. (CHOOSE i \in DOMAIN s : P(i)) = 2
    BY <1>1, <2>1
  <2> QED
    BY <1>1, <1>3, <2>2 DEF FirstOf
<1>4. CASE a = None /\ b = None /\ c # None
  <2>1. ~P(1) /\ ~P(2) /\ P(3)
    BY <1>1, <1>4
  <2>2. (CHOOSE i \in DOMAIN s : P(i)) = 3
    BY <1>1, <2>1
  <2> QED
    BY <1>1, <1>4, <2>2 DEF FirstOf
<1>5. CASE a = None /\ b = None /\ c = None
  BY <1>1, <1>5 DEF FirstOf
<1> QED
  BY <1>2, <1>3, <1>4, <1>5

(***************************************************************************)
(* The contract of a turn is one whose condition holds.                    *)
(***************************************************************************)
Routed(c) ==
    \/ c \in {"replan", "block_mesh_replan"} /\ candidate # None
    \/ c = "strategy_revision"
    \/ c \in {"repair", "block_mesh_repair"} /\ pending # None
    \/ c = "author_case" /\ draft # None
    \/ c \in DesignContracts

LEMMA ContractIsRouted ==
    /\ phase = "human_revision" =>
         PhaseContract = IF decided THEN "revision_author" ELSE "revision_decide"
    /\ phase # "human_revision" => Routed(PhaseContract)
<1>1. ASSUME phase # "human_revision"
      PROVE  Routed(PhaseContract)
  <2> DEFINE R == PrepareRoutes
             P(i) == R[i].when /\ \A j \in 1 .. i - 1 : ~R[j].when
  <2>1. /\ DOMAIN R = 1 .. 8
        /\ R[1] = [when |-> CandidateRetry("block_mesh_serialize"), to |-> "block_mesh_replan"]
        /\ R[2] = [when |-> CandidateRetry("bundle_preflight"), to |-> "replan"]
        /\ R[3] = [when |-> StrategyRevisionRequired, to |-> "strategy_revision"]
        /\ R[4] = [when |-> BlockMeshRepairRequired, to |-> "block_mesh_repair"]
        /\ R[5] = [when |-> pending # None, to |-> "repair"]
        /\ R[6] = [when |-> draft # None, to |-> "author_case"]
        /\ R[7] = [when |-> cycles >= MaxRetrievalCycles, to |-> "prepare_design_decide"]
        /\ R[8] = [when |-> TRUE, to |-> "prepare_design"]
    BY DEF PrepareRoutes
  <2>2. \A i \in 1 .. 8 : R[i].when => Routed(R[i].to)
    <3> TAKE i \in 1 .. 8
    <3> HIDE DEF R
    <3>1. CASE i \in {1, 2}
      <4>1. CandidateRetry("block_mesh_serialize") \/ CandidateRetry("bundle_preflight")
              => candidate # None
        BY DEF CandidateRetry
      <4>2. R[i].to \in {"replan", "block_mesh_replan"}
        BY <2>1, <3>1
      <4>3. R[i].when => candidate # None
        <5>1. R[1].when = CandidateRetry("block_mesh_serialize")
          BY <2>1
        <5>2. R[2].when = CandidateRetry("bundle_preflight")
          BY <2>1
        <5> QED
          BY <3>1, <4>1, <5>1, <5>2
      <4> QED
        BY <4>2, <4>3 DEF Routed
    <3>2. CASE i \in {3, 7, 8}
      BY <2>1, <3>2 DEF Routed, DesignContracts
    <3>3. CASE i \in {4, 5, 6}
      <4>1. R[4].when = BlockMeshRepairRequired /\ R[4].to = "block_mesh_repair"
        BY <2>1
      <4>2. R[5].when = (pending # None) /\ R[5].to = "repair"
        BY <2>1
      <4>3. R[6].when = (draft # None) /\ R[6].to = "author_case"
        BY <2>1
      <4> QED
        BY <3>3, <4>1, <4>2, <4>3 DEF Routed, BlockMeshRepairRequired
    <3>4. i \in {1, 2} \cup {3, 7, 8} \cup {4, 5, 6}
      OBVIOUS
    <3> QED
      BY <3>1, <3>2, <3>3, <3>4
  <2> HIDE DEF R
  <2>3. R[8].when
    BY <2>1
  <2>4. \E i \in DOMAIN R : P(i)
    <3>1. CASE R[1].when
      BY <2>1, <3>1
    <3>2. CASE ~R[1].when /\ R[2].when
      <4>1. \A j \in 1 .. 2 - 1 : j = 1
        OBVIOUS
      <4> QED
        BY <2>1, <3>2, <4>1
    <3>3. CASE ~R[1].when /\ ~R[2].when /\ R[3].when
      <4>1. \A j \in 1 .. 3 - 1 : j \in {1, 2}
        OBVIOUS
      <4> QED
        BY <2>1, <3>3, <4>1
    <3>4. CASE ~R[1].when /\ ~R[2].when /\ ~R[3].when /\ R[4].when
      <4>1. \A j \in 1 .. 4 - 1 : j \in {1, 2, 3}
        OBVIOUS
      <4> QED
        BY <2>1, <3>4, <4>1
    <3>5. CASE ~R[1].when /\ ~R[2].when /\ ~R[3].when /\ ~R[4].when /\ R[5].when
      <4>1. \A j \in 1 .. 5 - 1 : j \in {1, 2, 3, 4}
        OBVIOUS
      <4> QED
        BY <2>1, <3>5, <4>1
    <3>6. CASE ~R[1].when /\ ~R[2].when /\ ~R[3].when /\ ~R[4].when /\ ~R[5].when /\ R[6].when
      <4>1. \A j \in 1 .. 6 - 1 : j \in {1, 2, 3, 4, 5}
        OBVIOUS
      <4> QED
        BY <2>1, <3>6, <4>1
    <3>7. CASE ~R[1].when /\ ~R[2].when /\ ~R[3].when /\ ~R[4].when /\ ~R[5].when
               /\ ~R[6].when /\ R[7].when
      <4>1. \A j \in 1 .. 7 - 1 : j \in {1, 2, 3, 4, 5, 6}
        OBVIOUS
      <4> QED
        BY <2>1, <3>7, <4>1
    <3>8. CASE ~R[1].when /\ ~R[2].when /\ ~R[3].when /\ ~R[4].when /\ ~R[5].when
               /\ ~R[6].when /\ ~R[7].when
      <4>1. \A j \in 1 .. 8 - 1 : j \in {1, 2, 3, 4, 5, 6, 7}
        OBVIOUS
      <4> QED
        BY <2>1, <2>3, <3>8, <4>1
    <3> QED
      BY <3>1, <3>2, <3>3, <3>4, <3>5, <3>6, <3>7, <3>8
  <2> DEFINE i == CHOOSE i \in DOMAIN R : P(i)
  <2>5. i \in DOMAIN R /\ P(i)
    BY <2>4
  <2>6. PhaseContract = R[i].to
    BY <1>1 DEF PhaseContract, R
  <2> QED
    BY <2>1, <2>2, <2>5, <2>6
<1> QED
  BY <1>1 DEF PhaseContract

(***************************************************************************)
(* The invariant.  A queue of tasks is of the draft; a revision that works *)
(* has a sealed plan, and only it decides; and the limits of the turns.    *)
(***************************************************************************)
Working == {"generate", "decide", "finalize"}

StepsHold ==
    /\ step \in Nat /\ limit \in Nat /\ next_step \in Nat
    /\ extended \in 0 .. HardMaxAgentSteps
    /\ pc \in {"generate", "decide"} => limit <= HardMaxAgentSteps
    /\ pc = "decide" => step <= limit
    /\ pc = "finalize" => limit = MaxFinalizationSteps /\ step <= limit + 1

PlansHold ==
    /\ phase \in {"prepare", "human_revision"}
    /\ queue # None => queue \in [plan : {draft}, left : Int]
    /\ decided => engineering_plan # None
    /\ pc \in Working /\ phase = "human_revision" => engineering_plan # None
    /\ pc = "decide" /\ contract \in {"revision_decide", "revision_author"}
         => phase = "human_revision"

Inv == StepsHold /\ PlansHold /\ ShownIsUsed

LEMMA InvInit == Init => Inv
BY BoundsAssumption DEF Init, Inv, StepsHold, PlansHold, ShownIsUsed, Working

(***************************************************************************)
(* How a decision may leave the turn.                                      *)
(***************************************************************************)
Settles ==
    \/ \E state \in Ends : End(state) /\ (decided' = FALSE \/ UNCHANGED <<engineering_plan, decided>>)
    \/ pc = "decide" /\ NextTurn /\ UNCHANGED <<engineering_plan, decided>>

LEMMA SettlesKeeps ==
    ASSUME Inv, Settles,
           \/ queue' = None
           \/ UNCHANGED <<draft, queue>>
           \/ /\ queue # None /\ UNCHANGED draft
              /\ queue' = [queue EXCEPT !.left = @ - 1]
    PROVE  Inv'
<1>1. pc' \in Ends \cup {"generate"} /\ pc' # "decide" /\ pc' # "finalize"
  BY DEF Settles, End, NextTurn, Ends
<1>2. StepsHold'
  BY <1>1 DEF Inv, StepsHold, Settles, End, NextTurn, Ends
<1>3. queue' # None => queue' \in [plan : {draft'}, left : Int]
  BY DEF Inv, PlansHold
<1>4. decided' => engineering_plan' # None
  BY DEF Settles, Inv, PlansHold
<1>5. pc' \in Working /\ phase' = "human_revision" => engineering_plan' # None
  <2> SUFFICES ASSUME pc' \in Working, phase' = "human_revision"
               PROVE  engineering_plan' # None
    OBVIOUS
  <2>1. pc' \notin Ends
    BY DEF Working, Ends
  <2>2. NextTurn /\ pc = "decide" /\ UNCHANGED engineering_plan
    BY <2>1 DEF Settles, End
  <2> QED
    BY <2>2 DEF NextTurn, Inv, PlansHold, Working
<1>6. ShownIsUsed'
  BY <1>1 DEF ShownIsUsed
<1>7. phase' \in {"prepare", "human_revision"}
  BY DEF Inv, PlansHold, Settles, End, NextTurn
<1>8. PlansHold'
  BY <1>1, <1>3, <1>4, <1>5, <1>7 DEF PlansHold
<1> QED
  BY <1>2, <1>6, <1>8 DEF Inv

LEMMA OnlySaysSettles ==
    ASSUME NEW e, OnlySays(e), pc = "decide"
    PROVE  Settles /\ UNCHANGED <<draft, queue>>
BY DEF OnlySays, Settles, SameRevision, work

(***************************************************************************)
(* Deltas.                                                                 *)
(***************************************************************************)
LEMMA MembersSettle ==
    ASSUME NEW p, NEW said, NEW meshed, NEW routed, NEW kept, NEW ep,
           RunMembers(p, said, meshed, routed, kept, ep), pc = "decide"
    PROVE  Settles
<1>1. CASE Sealed(p, said)
  BY <1>1 DEF Sealed, Settles, Ends
<1>2. ASSUME NEW e \in MemberFailures, MemberFails(e, said, meshed, routed)
      PROVE  Settles
  BY <1>2 DEF MemberFails, Settles, Ends
<1> QED
  BY <1>1, <1>2 DEF RunMembers

LEMMA BundleSettles ==
    ASSUME NEW p, NEW said, ExecuteCasePlan(p, said), pc = "decide"
    PROVE  Settles
<1>1. CASE BundleRejected(p, said)
  BY <1>1 DEF BundleRejected, SameRevision, Settles, Ends
<1>2. CASE ToolchainUnavailable(said)
  BY <1>2 DEF ToolchainUnavailable, SameRevision, Settles, Ends
<1>3. CASE End("blocked") /\ SameRevision
  BY <1>3 DEF SameRevision, Settles, Ends
<1>4. CASE RunMembers(p, said, TRUE, TRUE, p, episode)
  BY <1>4, MembersSettle
<1> QED
  BY <1>1, <1>2, <1>3, <1>4 DEF ExecuteCasePlan

LEMMA DeltaSettles ==
    ASSUME NEW p, NEW ep, ExecuteDelta(p, ep), pc = "decide"
    PROVE  Settles
<1>1. CASE ToolchainUnavailable(0)
  BY <1>1 DEF ToolchainUnavailable, SameRevision, Settles, Ends
<1>2. CASE End("blocked") /\ SameRevision
  BY <1>2 DEF SameRevision, Settles, Ends
<1>3. ASSUME NEW meshed \in BOOLEAN, RunMembers(p, 0, meshed, FALSE, pending, ep)
      PROVE  Settles
  BY <1>3, MembersSettle
<1> QED
  BY <1>1, <1>2, <1>3 DEF ExecuteDelta

(***************************************************************************)
(* The decisions of a turn.                                                *)
(***************************************************************************)
LEMMA DesignKeeps ==
    ASSUME Inv,
           \/ GatherEvidence \/ RetrievalFails \/ RetrievalDeferred \/ ReadSupport
           \/ OutOfActions \/ DesignAccepted \/ DesignRejected \/ Block \/ BlockRefused
    PROVE  Inv'
<1>1. pc = "decide"
  BY DEF Decision, GatherEvidence, RetrievalFails, RetrievalDeferred, ReadSupport, OutOfActions,
         DesignAccepted, DesignRejected, Block, BlockRefused
<1>2. CASE RetrievalDeferred \/ ReadSupport \/ DesignRejected \/ BlockRefused
  <2>1. Settles /\ UNCHANGED <<draft, queue>>
    BY <1>1, <1>2, OnlySaysSettles DEF RetrievalDeferred, ReadSupport, DesignRejected, BlockRefused
  <2> QED
    BY <2>1, SettlesKeeps
<1>3. CASE GatherEvidence \/ RetrievalFails \/ OutOfActions \/ Block
  <2>1. Settles /\ UNCHANGED <<draft, queue>>
    BY <1>1, <1>3 DEF GatherEvidence, RetrievalFails, OutOfActions, Block, Settles, SameRevision,
                      work, Ends
  <2> QED
    BY <2>1, SettlesKeeps
<1>4. CASE DesignAccepted
  <2>1. Settles /\ queue' = None
    BY <1>1, <1>4 DEF DesignAccepted, Settles, SameRevision
  <2> QED
    BY <2>1, SettlesKeeps
<1> QED
  BY <1>2, <1>3, <1>4

LEMMA AuthoringKeeps ==
    ASSUME Inv,
           \/ TaskAccepted \/ AuthoringRejected \/ Authored
           \/ CandidateDeltaRejected \/ CandidateDelta
    PROVE  Inv'
<1>1. pc = "decide"
  BY DEF Decision, TaskAccepted, AuthoringRejected, Authored, CandidateDeltaRejected, CandidateDelta
<1>2. CASE TaskAccepted
  <2>1. /\ Settles
        /\ queue # None /\ UNCHANGED draft /\ queue' = [queue EXCEPT !.left = @ - 1]
    BY <1>1, <1>2 DEF TaskAccepted, Settles, SameRevision
  <2> QED
    BY <2>1, SettlesKeeps
<1>3. CASE AuthoringRejected \/ CandidateDeltaRejected
  <2>1. Settles /\ UNCHANGED <<draft, queue>>
    BY <1>1, <1>3, OnlySaysSettles DEF AuthoringRejected, CandidateDeltaRejected
  <2> QED
    BY <2>1, SettlesKeeps
<1>4. CASE Authored
  <2>1. Settles /\ queue' = None
    BY <1>1, <1>4, BundleSettles DEF Authored
  <2> QED
    BY <2>1, SettlesKeeps
<1>5. CASE CandidateDelta
  <2>1. Settles /\ UNCHANGED <<draft, queue>>
    BY <1>1, <1>5, BundleSettles DEF CandidateDelta
  <2> QED
    BY <2>1, SettlesKeeps
<1> QED
  BY <1>2, <1>3, <1>4, <1>5

LEMMA RepairKeeps ==
    ASSUME Inv,
           \/ RepairRejected \/ Repair \/ BlockMeshRejected \/ BlockMeshRepair
           \/ StrategyRejected \/ StrategyRevised \/ AuthorRevision
    PROVE  Inv'
<1>1. pc = "decide"
  BY DEF Decision, RepairRejected, Repair, BlockMeshRejected, BlockMeshRepair, StrategyRejected,
         StrategyRevised, AuthorRevision
<1>2. CASE RepairRejected \/ StrategyRejected
  <2>1. Settles /\ UNCHANGED <<draft, queue>>
    BY <1>1, <1>2, OnlySaysSettles DEF RepairRejected, StrategyRejected
  <2> QED
    BY <2>1, SettlesKeeps
<1>3. CASE Repair \/ StrategyRevised \/ AuthorRevision
  <2>1. UNCHANGED <<draft, queue>>
    BY <1>3 DEF Repair, StrategyRevised, AuthorRevision
  <2>2. Settles
    BY <1>1, <1>3, DeltaSettles DEF Repair, StrategyRevised, AuthorRevision
  <2> QED
    BY <2>1, <2>2, SettlesKeeps
<1>4. CASE BlockMeshRejected
  <2>1. Settles /\ UNCHANGED <<draft, queue>>
    BY <1>1, <1>4 DEF BlockMeshRejected, Settles, SameRevision, work
  <2> QED
    BY <2>1, SettlesKeeps
<1>5. CASE BlockMeshRepair
  <2>1. UNCHANGED <<draft, queue>>
    BY <1>5 DEF BlockMeshRepair
  <2>2. Settles
    <3>1. CASE ~BudgetLeft(0)
      BY <1>5, <3>1 DEF BlockMeshRepair, SameRevision, Settles, Ends
    <3>2. CASE BudgetLeft(0)
      BY <1>1, <1>5, <3>2, MembersSettle DEF BlockMeshRepair
    <3> QED
      BY <3>1, <3>2
  <2> QED
    BY <2>1, <2>2, SettlesKeeps
<1> QED
  BY <1>2, <1>3, <1>4, <1>5

\* A revision is decided only while its sealed plan is there.
LEMMA DecisionKeeps ==
    ASSUME Inv, DraftRevised \/ DecideRevision \/ TurnRaises
    PROVE  Inv'
<1>1. pc = "decide"
  BY DEF Decision, DraftRevised, DecideRevision, TurnRaises
<1>2. CASE DraftRevised
  <2>1. Settles /\ queue' = None
    BY <1>1, <1>2 DEF DraftRevised, Settles, SameRevision
  <2> QED
    BY <2>1, SettlesKeeps
<1>3. CASE TurnRaises
  <2>1. UNCHANGED <<engineering_plan, draft, queue>>
    BY <1>3 DEF TurnRaises, work
  <2>2. Settles
    BY <1>3, <2>1 DEF TurnRaises, RevisionRaises, Settles, Ends
  <2> QED
    BY <2>1, <2>2, SettlesKeeps
<1>4. CASE DecideRevision
  <2>1. phase = "human_revision" /\ engineering_plan # None
    BY <1>1, <1>4 DEF DecideRevision, Inv, PlansHold, Working
  <2>2. NextTurn /\ UNCHANGED <<engineering_plan, draft, queue>>
    BY <1>4 DEF DecideRevision, work
  <2>3. StepsHold'
    BY <1>1, <2>2 DEF Inv, StepsHold, NextTurn
  <2>4. PlansHold'
    BY <1>1, <2>1, <2>2 DEF Inv, PlansHold, NextTurn
  <2>5. ShownIsUsed'
    BY <2>2 DEF ShownIsUsed, NextTurn
  <2> QED
    BY <2>3, <2>4, <2>5 DEF Inv
<1> QED
  BY <1>2, <1>3, <1>4

(***************************************************************************)
(* The turn is given its contract.                                         *)
(***************************************************************************)
\* The context a turn is built from shows what its handler starts from.
LEMMA ShowsWhatIsUsed ==
    ASSUME Inv, GenerateTurn
    PROVE  ShownIsUsed'
<1> SUFFICES ASSUME ~Astray', contract' \notin DesignContracts
             PROVE  /\ shown' = UsedBaseline'
                    /\ shown' # None \/ contract' = "strategy_revision"
  BY DEF ShownIsUsed
<1>1. /\ contract' = PhaseContract
      /\ shown' = ShownBaseline(PhaseContract)
      /\ UNCHANGED <<phase, engineering_plan, decided, revision_plan, draft, candidate, pending>>
      /\ pc = "generate"
  BY DEF GenerateTurn
<1>2. CASE phase = "human_revision"
  <2>1. engineering_plan # None
    BY <1>1, <1>2 DEF Inv, PlansHold, Working
  <2>2. CASE decided
    <3>1. contract' = "revision_author"
      BY <1>1, <1>2, <2>2, ContractIsRouted
    <3>2. shown' = FirstOf(<<revision_plan, engineering_plan>>)
      BY <1>1, <3>1 DEF ShownBaseline, RevisionShows
    <3>3. UsedBaseline' = RepairBaseline
      BY <1>1, <3>1 DEF UsedBaseline, RepairBaseline, FirstOf
    <3> QED
      BY <2>1, <2>2, <3>2, <3>3, FirstOfTwo DEF RepairBaseline
  <2>3. CASE ~decided
    <3>1. contract' = "revision_decide"
      BY <1>1, <1>2, <2>3, ContractIsRouted
    <3> QED
      BY <1>1, <2>1, <3>1 DEF ShownBaseline, DecisionShows, UsedBaseline
  <2> QED
    BY <2>2, <2>3
<1>3. CASE phase # "human_revision"
  <2>1. Routed(PhaseContract)
    BY <1>3, ContractIsRouted
  <2>2. CASE PhaseContract \in {"replan", "block_mesh_replan"} /\ candidate # None
    BY <1>1, <2>2 DEF ShownBaseline, UsedBaseline
  <2>3. CASE PhaseContract = "strategy_revision"
    <3>1. UsedBaseline' = StrategyBaseline
      BY <1>1, <2>3 DEF UsedBaseline, StrategyBaseline, FirstOf
    <3> QED
      BY <1>1, <2>3, <3>1 DEF ShownBaseline, StrategyShows, StrategyBaseline
  <2>4. CASE PhaseContract = "block_mesh_repair" /\ pending # None
    <3>1. UsedBaseline' = BlockMeshBaseline
      BY <1>1, <2>4 DEF UsedBaseline, BlockMeshBaseline, FirstOf
    <3>2. DeltaShows = BlockMeshBaseline /\ BlockMeshBaseline # None
      BY <2>4, FirstOfTwo DEF DeltaShows, BlockMeshBaseline
    <3> QED
      BY <1>1, <2>4, <3>1, <3>2 DEF ShownBaseline
  <2>5. CASE PhaseContract = "repair" /\ pending # None
    <3>1. UsedBaseline' = RepairBaseline
      BY <1>1, <2>5 DEF UsedBaseline, RepairBaseline, FirstOf
    <3>2. CASE phase = "prepare"
      <4>1. engineering_plan = None /\ ~decided
        BY <1>1, <3>2 DEF Astray, Inv, PlansHold
      <4>2. RepairBaseline = pending
        BY <4>1, FirstOfTwo DEF RepairBaseline
      <4>3. RepairShows = pending
        BY <2>5, FirstOfThree DEF RepairShows
      <4> QED
        BY <1>1, <2>5, <3>1, <4>2, <4>3 DEF ShownBaseline
    <3> QED
      BY <1>3, <3>2 DEF Inv, PlansHold
  <2>6. CASE PhaseContract = "author_case" /\ draft # None
    <3>1. AuthoringShows = draft
      BY DEF Inv, PlansHold, AuthoringShows
    <3> QED
      BY <1>1, <2>6, <3>1 DEF ShownBaseline, UsedBaseline
  <2> QED
    BY <1>1, <2>1, <2>2, <2>3, <2>4, <2>5, <2>6 DEF Routed
<1> QED
  BY <1>2, <1>3

LEMMA GenerateKeeps ==
    ASSUME Inv, GenerateTurn
    PROVE  Inv'
<1>1. StepsHold'
  BY DEF Inv, StepsHold, GenerateTurn
<1>2. queue' # None => queue' \in [plan : {draft'}, left : Int]
  <2>1. CASE UNCHANGED queue
    BY <2>1 DEF Inv, PlansHold, GenerateTurn
  <2>2. CASE ~UNCHANGED queue
    <3>1. PICK n \in 0 .. MaxTasks : queue' = IF n = 0 THEN None ELSE [plan |-> draft, left |-> n]
      BY <2>2 DEF GenerateTurn
    <3>2. UNCHANGED draft
      BY DEF GenerateTurn
    <3> QED
      BY <3>1, <3>2, BoundsAssumption
  <2> QED
    BY <2>1, <2>2
<1>3. pc' = "decide" /\ contract' \in {"revision_decide", "revision_author"}
        => phase' = "human_revision"
  <2>1. contract' = PhaseContract /\ UNCHANGED phase
    BY DEF GenerateTurn
  <2>2. phase # "human_revision" => contract' \notin {"revision_decide", "revision_author"}
    BY <2>1, ContractIsRouted DEF Routed, DesignContracts
  <2> QED
    BY <2>1, <2>2
<1>4. PlansHold'
  BY <1>2, <1>3 DEF Inv, PlansHold, GenerateTurn, Working
<1> QED
  BY <1>1, <1>4, ShowsWhatIsUsed DEF Inv

(***************************************************************************)
(* The limits.                                                             *)
(***************************************************************************)
LEMMA LimitsKeep ==
    ASSUME Inv,
           \/ ContextExceeded \/ FinalizationOpens \/ FinalizationTurn \/ FinalizationRaises
           \/ FinalizationExhausted \/ Extend \/ OutOfTurns
    PROVE  Inv'
<1>1. CASE ContextExceeded \/ FinalizationRaises \/ FinalizationExhausted \/ OutOfTurns
  <2>1. Settles /\ UNCHANGED <<draft, queue>>
    BY <1>1 DEF ContextExceeded, FinalizationRaises, FinalizationExhausted, OutOfTurns, Settles,
                Ends, revision, work
  <2> QED
    BY <2>1, SettlesKeeps
<1>2. CASE FinalizationOpens
  <2>1. StepsHold'
    BY <1>2, BoundsAssumption DEF FinalizationOpens, Inv, StepsHold
  <2>2. PlansHold'
    BY <1>2 DEF FinalizationOpens, SoftLimit, Inv, PlansHold, Working, revision, work
  <2>3. ShownIsUsed'
    BY <1>2 DEF FinalizationOpens, ShownIsUsed
  <2> QED
    BY <2>1, <2>2, <2>3 DEF Inv
<1>3. CASE FinalizationTurn
  <2>1. UNCHANGED <<draft, queue>> /\ pc = "finalize" /\ step <= limit
    BY <1>3 DEF FinalizationTurn
  <2>2. CASE Settles
    BY <2>1, <2>2, SettlesKeeps
  <2>3. CASE /\ step' = step + 1
             /\ UNCHANGED <<phase, pc, limit, next_step, extended, engineering_plan, decided>>
    <3>1. StepsHold'
      BY <2>1, <2>3 DEF Inv, StepsHold
    <3>2. PlansHold'
      BY <2>1, <2>3 DEF Inv, PlansHold
    <3>3. ShownIsUsed'
      BY <2>1, <2>3 DEF ShownIsUsed
    <3> QED
      BY <3>1, <3>2, <3>3 DEF Inv
  <2> QED
    BY <1>3, <2>2, <2>3 DEF FinalizationTurn, Settles, Ends
<1>4. CASE Extend
  <2>1. pc = "generate" /\ limit < HardMaxAgentSteps
    BY <1>4 DEF Extend, SoftLimit
  <2>2. Extension \in Nat /\ Extension <= HardMaxAgentSteps
    BY BoundsAssumption DEF Extension, Uncapped, Inv, StepsHold
  <2>3. StepsHold'
    BY <1>4, <2>1, <2>2, BoundsAssumption DEF Extend, Inv, StepsHold
  <2>4. PlansHold'
    BY <1>4 DEF Extend, Inv, PlansHold, revision, work, turn
  <2>5. ShownIsUsed'
    BY <1>4, <2>1 DEF Extend, ShownIsUsed
  <2> QED
    BY <2>3, <2>4, <2>5 DEF Inv
<1> QED
  BY <1>1, <1>2, <1>3, <1>4

\* A resumed session counts on from the recorded turn, under the recorded limit.
LEMMA ResumeKeeps ==
    ASSUME Inv, CrashAndResume
    PROVE  Inv'
<1>1. ResumedLimit \in Nat /\ ResumedLimit <= HardMaxAgentSteps
  BY BoundsAssumption DEF ResumedLimit, Inv, StepsHold
<1>2. StepsHold'
  BY <1>1 DEF CrashAndResume, Inv, StepsHold
<1>3. PlansHold'
  BY DEF CrashAndResume, Inv, PlansHold, revision, work
<1>4. ShownIsUsed'
  BY DEF CrashAndResume, ShownIsUsed
<1> QED
  BY <1>2, <1>3, <1>4 DEF Inv

LEMMA InvStep == Inv /\ [Next]_vars => Inv'
<1> SUFFICES ASSUME Inv, [Next]_vars PROVE Inv'
  OBVIOUS
<1>1. CASE UNCHANGED vars
  <2>1. UNCHANGED <<phase, pc, step, limit, next_step, extended, engineering_plan, decided,
                    revision_plan, draft, queue, candidate, pending, contract, shown>>
    BY <1>1 DEF vars, position, revision, work, turn
  <2>2. StepsHold'
    BY <2>1 DEF Inv, StepsHold
  <2>3. PlansHold'
    BY <2>1 DEF Inv, PlansHold
  <2>4. ShownIsUsed'
    BY <2>1 DEF Inv, ShownIsUsed, Astray, UsedBaseline, StrategyBaseline, BlockMeshBaseline,
                RepairBaseline, FirstOf
  <2> QED
    BY <2>2, <2>3, <2>4 DEF Inv
<1>2. CASE CrashAndResume
  BY <1>2, ResumeKeeps
<1>3. CASE Turn
  BY <1>3, DesignKeeps, AuthoringKeeps, RepairKeeps, DecisionKeeps, GenerateKeeps, LimitsKeep DEF Turn
<1> QED
  BY <1>1, <1>2, <1>3 DEF Next

THEOREM Invariance == Spec => []Inv
BY InvInit, InvStep, PTL DEF Spec

\* The plan a turn shows to the model is the plan its decision changes, for
\* every contract, whatever failed before, and through deaths of the session
\* (engineering/phases, context_controller against repair_controller and
\* decision_controller).
THEOREM ShownIsUsedCorrect == Spec => []ShownIsUsed
<1>1. Inv => ShownIsUsed
  BY DEF Inv
<1> QED
  BY <1>1, Invariance, PTL

\* No turn is taken beyond the hard cap, nor one of the finalization window
\* beyond its own, however often progress is claimed and the session resumed
\* (engineering/phases/lifecycle_controller.py, prepare).
THEOREM TurnsBoundedCorrect == Spec => []TurnsBounded
<1>1. Inv => TurnsBounded
  BY BoundsAssumption DEF Inv, StepsHold, TurnsBounded
<1> QED
  BY <1>1, Invariance, PTL
=============================================================================
