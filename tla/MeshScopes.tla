---------------------------- MODULE MeshScopes ----------------------------
(***************************************************************************)
(* How an edit of a case becomes native mesh commands, and which scopes'   *)
(* checkMesh evidence survives it: case_build_graph.py, case_delta_graph.py,*)
(* contracts/execution_scopes.py and contracts/mesh_dependencies.py, with  *)
(* the handlers of engineering/agent.py that run what they compiled.       *)
(*                                                                         *)
(* Every scope is a named region.  A dictionary is its version, a mesh is  *)
(* what it was made from; constant/triSurface, with the feature edges in   *)
(* it, is one path.  The digest of a scope is the record it hashes.  Of    *)
(* each kind of native contract there is one command: blockMesh and        *)
(* snappyHexMesh (inferred from their dictionaries), surfaceFeatures       *)
(* (inferred for an edit, shared by all scopes), renumberMesh (declared    *)
(* reads, only on request) and createBaffles (no declared reads).          *)
(***************************************************************************)
EXTENDS Naturals, Sequences, SequencesExt, FiniteSetsExt, Functions

CONSTANTS
    ScopeOrder,      \* execution.scopes
    Versions,        \* contents of a dictionary or a surface
    Required,        \* plan.required_case_files
    Hints,           \* the native commands a model asks for
    Bundles,         \* the sets of files the first authoring may bring
    Absent, Broken,
    MaxDeltas,       \* bound: edits of the committed case
    MaxFaults,       \* bound: members that fail
    MaxChanges       \* bound: files one edit changes

Scopes == ToSet(ScopeOrder)

(* A path names its kind and its region (Absent when shared).               *)
BlockDict(s) == [kind |-> "blockMeshDict", of |-> s]
SnapDict(s)  == [kind |-> "snappyHexMeshDict", of |-> s]
PolyMesh(s)  == [kind |-> "polyMesh", of |-> s]
FeatureDict  == [kind |-> "surfaceFeaturesDict", of |-> Absent]
TriSurface   == [kind |-> "triSurface", of |-> Absent]
Properties   == [kind |-> "physicalProperties", of |-> Absent]

Files == {BlockDict(s) : s \in Scopes} \cup {SnapDict(s) : s \in Scopes}
            \cup {FeatureDict, TriSurface, Properties}
Paths == Files \cup {PolyMesh(s) : s \in Scopes}

ASSUME MeshAssumption ==
    /\ ScopeOrder \in Seq(Scopes) \ {<<>>} /\ IsInjective(ScopeOrder)
    /\ Absent \notin Scopes \cup Versions
    /\ Required \subseteq Paths
    /\ \A b \in Bundles : b \subseteq Files
    /\ MaxDeltas \in Nat /\ MaxFaults \in Nat /\ MaxChanges \in Nat

VARIABLES
    content,    \* authored files: a version, or Absent
    edges,      \* what surfaceFeatures left under constant/triSurface, or Absent
    mesh,       \* constant/<scope>/polyMesh
    operations, \* mesh-dependencies.json
    evidence,   \* mesh_evidence_by_scope
    manifest,   \* mesh_manifest_by_scope
    plan,       \* members of the execution plan still to run
    affected,   \* affected_mesh_scope_keys of the edit in work
    outcome,    \* of the plan: "working", "done" or "failed"
    owed,       \* history: compiled consumers that did not run to their end
    before,     \* history: scopes whose evidence was current when the edit came
    deltas, faults

mvars == <<content, edges, mesh, operations, evidence, manifest, plan, affected,
           outcome, owed, before, deltas, faults>>
disk == <<content, edges, mesh>>
----------------------------------------------------------------------------
Write == [command |-> "write", region |-> Absent]   \* the write members of a plan

(* data/native_tool_contracts.json: an invocation names its command and its *)
(* -region (Absent: no region).                                             *)
Call(c, s) == [command |-> c, region |-> s]

\* A hint names a command for meshes with a declared region, which a command
\* every scope shares does not have.
ASSUME HintsAssumption ==
    Hints \subseteq {Call("surfaceFeatures", Absent)} \cup
        {Call(c, s) : c \in {"blockMesh", "snappyHexMesh", "renumberMesh", "createBaffles",
                             "checkMesh"}, s \in Scopes}

(* required_dictionary: a region's dictionary is under system/<region>.     *)
RequiredDict(i) ==
    CASE i.command = "blockMesh"       -> {BlockDict(i.region)}
      [] i.command = "snappyHexMesh"   -> {SnapDict(i.region)}
      [] i.command = "surfaceFeatures" -> {FeatureDict}
      [] OTHER -> {}

DeclaredInputs(i) ==
    CASE i.command = "snappyHexMesh" ->
             {SnapDict(i.region), PolyMesh(i.region), TriSurface}
      [] i.command = "surfaceFeatures" -> {FeatureDict, TriSurface}
      [] i.command = "renumberMesh"    -> {PolyMesh(i.region)}
      [] OTHER -> RequiredDict(i)

DeclaredOutputs(i) ==
    CASE i.command \in {"blockMesh", "snappyHexMesh", "renumberMesh"} ->
             {PolyMesh(i.region)}
      [] i.command = "surfaceFeatures" -> {TriSurface}
      [] OTHER -> {}

(* ordering_inputs and ordering_outputs *)
Awaits(i) ==
    CASE i.command = "blockMesh"       -> {}
      [] i.command = "snappyHexMesh"   -> {<<"base", i.region>>, <<"features", Absent>>}
      [] i.command = "surfaceFeatures" -> {<<"transformed", Absent>>}
      [] OTHER -> {<<"base", i.region>>, <<"snapped", i.region>>}

Signals(i) ==
    CASE i.command = "blockMesh"       -> {<<"base", i.region>>}
      [] i.command = "snappyHexMesh"   -> {<<"snapped", i.region>>}
      [] i.command = "surfaceFeatures" -> {<<"features", Absent>>}
      [] OTHER -> {}
----------------------------------------------------------------------------
(* The registry of operations, and what a scope's mesh depends on.          *)

(* record_native: a command without a region acts on every scope; one whose *)
(* contract declares no reads depends on 0, system and constant, and one    *)
(* that declares no writes writes every target's mesh.                      *)
Targets(i) == IF i.region = Absent THEN Scopes ELSE {i.region}

Inputs(i)  == IF DeclaredInputs(i) = {} THEN Paths ELSE DeclaredInputs(i)
Outputs(i) == IF DeclaredOutputs(i) = {} THEN {PolyMesh(s) : s \in Targets(i)}
              ELSE DeclaredOutputs(i)

(* register: an operation, with itself and all that its parents lead to.    *)
Operation(ops, i) ==
    LET parents == {p \in DOMAIN ops : Inputs(i) \cap ops[p].outputs # {}}
    IN [inputs  |-> Inputs(i), outputs |-> Outputs(i), regions |-> Targets(i),
        lineage |-> {Len(ops) + 1} \cup UNION {ops[p].lineage : p \in parents}]

(* MeshDependencyGraph.dependencies: the operations on the region or its    *)
(* mesh, and all they come from.                                            *)
Ancestry(ops, s) ==
    UNION {ops[n].lineage : n \in {m \in DOMAIN ops :
                \/ s \in ops[m].regions
                \/ PolyMesh(s) \in ops[m].outputs}}

Dependencies(ops, s) ==
    {PolyMesh(s)} \cup UNION {ops[n].inputs \cup ops[n].outputs : n \in Ancestry(ops, s)}

Artifact(p) ==
    CASE p.kind = "polyMesh"   -> mesh[p.of]
      [] p.kind = "triSurface" -> <<content[p], edges>>
      [] OTHER -> content[p]

(* MeshDependencyGraph.digest *)
Digest(s) ==
    [nodes     |-> Ancestry(operations, s),
     artifacts |-> [p \in Dependencies(operations, s) |-> Artifact(p)]]

\* The slip of asking for passing evidence only.
ScopesWithoutEvidence == {s \in Scopes : evidence[s] = Absent \/ ~evidence[s].passed}

(* current_mesh_evidence_failures, as the scopes that fail.                 *)
StaleScopes ==
    {s \in Scopes : \/ evidence[s] = Absent
                    \/ ~evidence[s].passed
                    \/ manifest[s] # Digest(s)}

(* _invalidate_mesh_dependencies, on the state a handler leaves behind.     *)
InvalidateMesh ==
    LET stale == {s \in Scopes : manifest[s] # Absent /\ manifest[s] # Digest(s)'}
    IN /\ evidence' = [s \in Scopes |-> IF s \in stale THEN Absent ELSE evidence[s]]
       /\ manifest' = [s \in Scopes |-> IF s \in stale THEN Absent ELSE manifest[s]]
----------------------------------------------------------------------------
(* Compiling.  present is the set of files the case would have.             *)

\* The members of a sequence that are in a set, and those that are not.
Select(seq, S)  == FoldLeft(LAMBDA out, x : IF x \in S THEN Append(out, x) ELSE out, <<>>, seq)
Without(seq, S) == Select(seq, ToSet(seq) \ S)

Inferred(s, present) ==
    (IF BlockDict(s) \in present THEN <<Call("blockMesh", s)>> ELSE <<>>)
        \o (IF SnapDict(s) \in present THEN <<Call("snappyHexMesh", s)>> ELSE <<>>)

AutoConsumers(present) ==
    FoldLeft(LAMBDA out, s : out \o Inferred(s, present), <<>>, ScopeOrder)

DeltaConsumers(present) ==
    AutoConsumers(present)
        \o (IF FeatureDict \in present THEN <<Call("surfaceFeatures", Absent)>> ELSE <<>>)

(* _stable_dependency_order: the first command, in the order given, whose   *)
(* producers have all been placed.                                          *)
Producers(calls, c) ==
    {p \in DOMAIN calls \ {c} : Signals(calls[p]) \cap Awaits(calls[c]) # {}}

Place(calls, placed) ==
    Append(placed, Min({c \in DOMAIN calls \ ToSet(placed) :
                            Producers(calls, c) \subseteq ToSet(placed)}))

StableOrder(calls) ==
    LET order == FoldLeft(LAMBDA placed, i : Place(calls, placed), <<>>, calls)
    IN [k \in DOMAIN calls |-> calls[order[k]]]

(* final_mesh_validation_commands *)
Checks(scopes) ==
    LET checked == Select(ScopeOrder, scopes)
    IN [k \in DOMAIN checked |-> Call("checkMesh", checked[k])]

(* A hint stands when what it reads exists; foamDictionary, surfaceCheck    *)
(* and checkMesh are never a model's to ask.                                *)
Standing(hints, present) ==
    Select(hints, {i \in ToSet(hints) : RequiredDict(i) \subseteq present /\ i.command # "checkMesh"})

(* compile_case_build_graph *)
BuildCalls(bundle, hints) ==
    StableOrder(Standing(hints \o Without(AutoConsumers(bundle), ToSet(hints)), bundle))

(* _deferred_native_required_paths, over the named scopes.                  *)
Deferred(calls) ==
    UNION {DeclaredOutputs(calls[k]) : k \in {j \in DOMAIN calls : calls[j].region # Absent}}

(* auto_consumers_for_delta: every candidate that reads something dirty     *)
(* runs once, and makes dirty what it writes.                               *)
Visit(state, i) ==
    IF i \in ToSet(state.selected) \/ DeclaredInputs(i) \cap state.dirty = {} THEN state
    ELSE [selected |-> Append(state.selected, i), dirty |-> state.dirty \cup DeclaredOutputs(i)]

Pass(candidates, state) == FoldLeft(Visit, state, candidates)

Untouched(dirty) == [selected |-> <<>>, dirty |-> dirty]

\* The slip of going through the candidates once.
OnePass(candidates, dirty) == Pass(candidates, Untouched(dirty)).selected

\* A pass that adds nothing is the last: as many as there are candidates suffice.
Reach(candidates, dirty) ==
    FoldLeft(LAMBDA state, i : Pass(candidates, state), Untouched(dirty), candidates).selected

DeltaConsumersOf(present, changed, hints) ==
    Reach(Without(DeltaConsumers(present), ToSet(hints)),
          changed \cup UNION {DeclaredOutputs(hints[k]) : k \in DOMAIN hints})

\* The slip of counting a command without a region for no scope.
ScopesNamed(changed, calls) ==
    {s \in Scopes : \/ changed \cap Dependencies(operations, s) # {}
                    \/ \E k \in DOMAIN calls : calls[k].region = s}

(* affected_mesh_scope_keys *)
AffectedScopes(changed, calls) ==
    {s \in Scopes : \/ changed \cap Dependencies(operations, s) # {}
                    \/ \E k \in DOMAIN calls : s \in Targets(calls[k])}

(* compile_case_delta_graph *)
DeltaCalls(present, changed, hints) ==
    LET standing == Standing(hints, present)
    IN StableOrder(standing \o DeltaConsumersOf(present, changed, standing))
----------------------------------------------------------------------------
Present == {f \in Files : content[f] # Absent}
OnDisk  == Present \cup {PolyMesh(s) : s \in {r \in Scopes : mesh[r] # Absent}}

HintLists == {<<>>} \cup {<<h>> : h \in Hints}

MeshInit ==
    /\ content = [f \in Files |-> Absent]
    /\ edges = Absent
    /\ mesh = [s \in Scopes |-> Absent]
    /\ operations = <<>>
    /\ evidence = [s \in Scopes |-> Absent]
    /\ manifest = [s \in Scopes |-> Absent]
    /\ plan = <<>>
    /\ affected = {}
    /\ outcome = "done"
    /\ owed = {}
    /\ before = {}
    /\ deltas = 0
    /\ faults = 0

(* The first authoring of the case: the bundle is committed as a whole.     *)
Author(bundle, hints) ==
    LET calls == BuildCalls(bundle, hints)
    IN /\ deltas = 0 /\ Present = {}
       /\ Required \subseteq bundle \cup Deferred(calls)
       /\ \E v \in Versions :
            content' = [f \in Files |-> IF f \in bundle THEN v ELSE Absent]
       /\ plan' = <<Write>> \o calls \o Checks(Scopes)
       /\ affected' = Scopes
       /\ outcome' = "working"
       /\ owed' = ToSet(calls)
       /\ before' = {}
       /\ UNCHANGED <<edges, mesh, operations, evidence, manifest, deltas, faults>>

(* An edit of the committed case: its files are replaced and dropped in one *)
(* transaction before any member of its plan runs.                          *)
AcceptDelta(replaced, dropped, hints) ==
    LET present == (Present \ dropped) \cup replaced
        changed == replaced \cup dropped
        calls   == DeltaCalls(present, changed, hints)
        scopes  == AffectedScopes(changed, calls)
    IN /\ plan = <<>> /\ Present # {} /\ deltas < MaxDeltas
       /\ dropped \subseteq Present
       /\ changed # {} \/ hints # <<>>
       /\ Required \subseteq (OnDisk \ dropped) \cup replaced
       /\ \E v \in [replaced -> Versions] :
            /\ \A f \in replaced : v[f] # content[f]
            /\ content' = [f \in Files |-> IF f \in dropped THEN Absent
                                          ELSE IF f \in replaced THEN v[f] ELSE content[f]]
       /\ plan' = <<Write>> \o calls \o Checks(scopes)
       /\ affected' = scopes
       /\ outcome' = "working"
       /\ owed' = owed \cup ToSet(calls)
       /\ before' = Scopes \ StaleScopes
       /\ deltas' = deltas + 1
       /\ UNCHANGED <<edges, mesh, operations, evidence, manifest, faults>>

(* The first failed member ends a plan.                                     *)
Advance ==
    /\ plan' = Tail(plan)
    /\ outcome' = IF Tail(plan) = <<>> THEN "done" ELSE "working"
    /\ UNCHANGED faults
Stop ==
    /\ faults < MaxFaults
    /\ faults' = faults + 1
    /\ plan' = <<>>
    /\ outcome' = "failed"

(* The write members: the files are there already, the evidence is looked   *)
(* at again.                                                                *)
DeliverWrites ==
    /\ plan # <<>> /\ Head(plan) = Write
    /\ Advance
    /\ UNCHANGED <<disk, operations, affected, owed, before, deltas>>
    /\ InvalidateMesh

(* What a native command makes of the meshes and the edges.                 *)
Made(i, s) ==
    CASE i.command = "blockMesh" ->
            [block |-> content[BlockDict(s)], snap |-> Absent, touched |-> FALSE]
      [] i.command = "snappyHexMesh" ->
            [mesh[s] EXCEPT !.snap = <<content[SnapDict(s)], content[TriSurface], edges>>]
      [] OTHER -> [mesh[s] EXCEPT !.touched = TRUE]

Succeeds(i) ==
    /\ IF i.region = Absent
       THEN /\ content[TriSurface] # Absent
            /\ edges' = <<content[FeatureDict], content[TriSurface]>>
            /\ UNCHANGED mesh
       ELSE /\ i.command = "blockMesh" \/ mesh[i.region] \notin {Absent, Broken}
            /\ mesh' = [mesh EXCEPT ![i.region] = Made(i, i.region)]
            /\ UNCHANGED edges
    /\ Advance
    /\ owed' = owed \ {i}

(* The command fails, its output half written or not at all.                *)
Fails(i) ==
    /\ edges' = edges
    /\ \/ mesh' = mesh
       \/ i.region # Absent /\ mesh' = [mesh EXCEPT ![i.region] = Broken]
    /\ Stop
    /\ owed' = owed

(* run_native_openfoam for a mesh command: whatever its outcome it is       *)
(* registered, and the evidence is looked at again.                         *)
RunConsumer ==
    /\ plan # <<>> /\ Head(plan).command \notin {"write", "checkMesh"}
    /\ Succeeds(Head(plan)) \/ Fails(Head(plan))
    /\ operations' = Append(operations, Operation(operations, Head(plan)))
    /\ UNCHANGED <<content, affected, before, deltas>>
    /\ InvalidateMesh

(* run_native_openfoam for checkMesh, and _record_scope_mesh: a conclusive  *)
(* run leaves evidence, one that did not pass no manifest.                  *)
CheckMesh ==
    /\ plan # <<>> /\ Head(plan).command = "checkMesh"
    /\ LET s == Head(plan).region IN
       \/ \E passed \in BOOLEAN :
            /\ passed => mesh[s] \notin {Absent, Broken}
            /\ evidence' = [evidence EXCEPT ![s] = 
                             [passed |-> passed, of |-> mesh[s], dict |-> content[BlockDict(s)]]]
            /\ manifest' = [manifest EXCEPT ![s] = IF passed THEN Digest(s) ELSE Absent]
            /\ IF passed THEN Advance ELSE Stop
       \/ Stop /\ UNCHANGED <<evidence, manifest>>
    /\ UNCHANGED <<disk, operations, affected, owed, before, deltas>>

(* Any other member fails: a dictionary or surface check, a budget, a lost  *)
(* process before the command ran.                                          *)
AbandonPlan ==
    /\ plan # <<>>
    /\ Stop
    /\ UNCHANGED <<disk, operations, evidence, manifest, affected, owed, before, deltas>>

MeshNext ==
    \/ \E b \in Bundles, h \in HintLists : Author(b, h)
    \/ \E c \in UNION {kSubset(n, Files) : n \in 0..MaxChanges}, h \in HintLists :
         \E d \in SUBSET c : AcceptDelta(c \ d, d, h)
    \/ DeliverWrites
    \/ RunConsumer
    \/ CheckMesh
    \/ AbandonPlan

MeshSpec == MeshInit /\ [][MeshNext]_mvars
----------------------------------------------------------------------------
(* What a case is finished with (finish_preview): no member waits, every    *)
(* scope has current passing evidence.                                      *)
Finishable == plan = <<>> /\ StaleScopes = {}

(* The evidence a case is finished with is of the meshes on disk and of the *)
(* dictionaries there now, whatever failed or was abandoned in between, a   *)
(* committed edit whose evidence nobody looked at again included            *)
(* (execution_scopes.py, current_mesh_evidence_failures).                   *)
EvidenceIsCurrent ==
    Finishable =>
        \A s \in Scopes : /\ evidence[s].of = mesh[s]
                          /\ evidence[s].dict = content[BlockDict(s)]

(* If every consumer compiled since the first authoring ran to its end, the *)
(* meshes and the feature edges are those the files describe: the closure   *)
(* over generated outputs and the producer order miss nobody                *)
(* (execution_scopes.py, auto_consumers_for_delta; case_build_graph.py,     *)
(* _stable_dependency_order).                                               *)
MeshFollowsFiles ==
    Finishable /\ owed = {} =>
        /\ \A s \in Scopes :
             /\ content[BlockDict(s)] # Absent => mesh[s].block = content[BlockDict(s)]
             /\ content[SnapDict(s)] # Absent =>
                    mesh[s].snap = <<content[SnapDict(s)], content[TriSurface], edges>>
        /\ edges # Absent /\ content[FeatureDict] # Absent =>
             edges = <<content[FeatureDict], content[TriSurface]>>

(* A scope whose operations all declare what they read keeps its current    *)
(* evidence through every plan that reuses it, however the plan ends.       *)
ReusedStaysCurrent ==
    \A s \in before \ affected :
        (\A n \in Ancestry(operations, s) : operations[n].inputs # Paths)
            => s \notin StaleScopes

=============================================================================
