# TLA+ verification of the OpenFOAM agent

`openfoam_agent` turns a user's description of a flow problem into an OpenFOAM
case, runs the solver once the user has approved the case, repairs the case
within the limits of that approval, and takes the user's feedback on the result.
A language model proposes every change; deterministic controllers decide what of
it happens.  This directory models those controllers.  Paths below are relative
to `src/src/openfoam_agent/` unless they start with `src/`.

## 1. The system

### Components, state, operations

| Component | State | Operations | What makes it correct |
|---|---|---|---|
| CLI session (`cli.py`, `conversation.py`) | turns of the conversation, pending intake, waiting case, attempts | commands of the user | what is confirmed and run is what the conversation asks for now |
| Intake (`agents/intake.py`, `contracts/requirements.py`) | none | asks the model for a draft, validates its provenance | the user's last word stands, nothing is lost or invented |
| Workflow state (`workflow/state.py`, `states.py`) | `CFDState`: current state, plan, seal, approval, mesh evidence, result, feedback, proposals, revision records | transitions, `approve_solve`, `accept_result`, `reject_revision`, `mark_feedback_*` | what the user sees at a gate is one consistent case |
| Workflow engine (`workflow/engine.py`) | none of its own | runs the agent of the current state until a gate, turns exceptions into `FAILED` / `ENGINEERING_BLOCKED` | every command ends at a gate |
| Engineering controllers (`engineering/agent.py`, `engineering/phases/*`) | pending plan, draft, candidate, authoring queue, repair episode, evidence gaps, turn budgets | prepare, revise, finalization window, runtime repair; each runs model turns and the members of a committed delta | nothing is offered for `/solve` that is not meshed, checked and sealed; a turn works on the plan it showed |
| Case graphs, mesh scopes (`engineering/case_*_graph.py`, `contracts/mesh_dependencies.py`, `contracts/execution_scopes.py`) | operation history, evidence per scope and the digest it is bound to | compile a delta into commands, invalidate evidence | everything that depends on a change is rebuilt, evidence is never about another mesh |
| Execution approval (`contracts/execution.py`) | `ExecutionApproval`: frozen contract, approved files, authorized repair hashes and their baselines | `issue`, `check_plan`, `check_repair_delta`, `check_repair_files` | a repair never leaves what the user approved |
| Runtime orchestrator (`runtime/orchestrator.py`) | attempts of this approval | entry checks, attempts, outcome, retry | a solver starts on approved bytes only |
| Completion evidence, parallel runs (`runtime/completion.py`, `tools/parsers.py`, `runtime/parallel.py`) | compiled contract, log accumulator, snapshot of the outputs, ranks | compile, feed, finish, verify, reconstruct | success is never claimed without evidence of this attempt |
| Restart (`runtime/restart.py`) | the restart journal | prepare a restart from parallel outputs | a preparation that was cut short is not gone on with |
| Feedback review (`review/agent.py`, `schemas/feedback.py`) | feedback records, the active proposal | records a statement, asks the model for an assessment | a statement is durable and never reopened after it was settled |
| Post-processing (`postprocessing/*`) | turns, members, analyses, report | computes the requested quantities | a report is of the case as it lies; a failure never undoes the solver's result |
| Case workspace (`tools/workspace.py`, `tools/assets.py`) | the case directory, who owns its files, the revision history | seal, verify, transactional write, imports, archive of outputs | a commit is all or nothing, old outputs never mix with a new case |
| Checkpoint (`workflow/checkpoint.py`) | `checkpoint.json` | save, load, reconcile | unknown in-flight work is never replayed, no approval survives a restart |
| Native runner (`tools/safe_runner.py`, `execution_policy.py`, `linux_isolation.py`) | process ledger, workspace lock, budgets | spawn, wait, terminate | no process is lost or counted twice |
| Model back ends (`llm/*`) | client sessions, stored responses, usage | generate, repair, retry | only complete answers are used, costs are bounded |
| Validation (`verification/*`), native tools (`tools/openfoam.py`, ...), schemas, catalogues, qualification | caches | answer questions | not stateful, or I/O |

### Interaction

One Python process drives everything: a command of the user enters the engine,
the engine calls the agent of the current state, the agent alternates model
turns and member actions, and control comes back to the command line at a gate.
Inside a process only the heartbeat and the stream readers are threads.  What
interleaves is the *user* (who chooses which command comes next and how often),
the *model* (an arbitrary choice at every turn, or an exception), the *native
tools* (success, failure or no verdict), *other writers* of the case directory,
who may edit a file between any two steps, *other sessions* on the same
workspace, and *crashes*, after which a session resumes from what is on disk.
All components share `CFDState` and the directory; they call one another and
read that shared state again and again, so the hard behaviours are long
sequences across components: a revision that fails half way, a repair that was
authorized and then not applied, evidence that went stale under a seal, a result
that outlives its case, a plan shown by one turn and changed by another.

`PROJECT.json` lists the hazards with their lines and the properties for them.

## 2. Modules

```
 ExecutionApproval   constant-level: case, seal, approval and its checks
   |        \
 CaseState   ApprovedExecution      abstract specification
   |   \    \
 CasePreparation  RuntimeRepair  HumanReview      phases, over the state of CaseState
   |   /    /
 Workflow            composition, Tamper, properties, refinement of ApprovedExecution
   |      \
 MCWorkflow  WorkflowProofs

 ControlDictRepair   SolverEvidence   EvidenceGaps       three small machines
   |       \            |     \          /
   |        \           |      MCContracts (all three)
 ExecutionProofs -------+
   |
 NativeLedger -- ExclusiveRuns (abstract)

 CaseWorkspace -- AtomicCommit (abstract)
   |
 WorkspaceProofs

 TurnContracts -- TurnProofs
 Checkpoint -- CheckpointProofs       ModelTurn -- ModelTurnProofs
 PostProcessing -- MCPostProcessing, PostProcessingProofs

 Requirements -- Session     EvidenceGaps     MeshScopes
                    |  \           |          /      |
              MCSession \          |         /  MCMeshScopes
                         +--- FoldProofs ---+
```

Modules that stand alone look at one component in full and take the others as
choices; where two of them model the same code from two sides, the text says
which side each one has.

**ExecutionApproval** (`contracts/execution.py`, the sealing part of
`tools/workspace.py`).  A case is a function from files to contents; 0 is "no
such file", and a hash is the content it identifies.  The content of
`controlDict` stands for its time-step bound, so "may only be reduced" is the
order on contents.  `ContractOf[p]` is the part of a plan that `/solve` freezes
(`Plans` may differ inside or outside of it).  `PathAuthorized`, `Authorize` and
`FilesApproved` are the body of `check_repair_delta` and `check_repair_files`.

**ApprovedExecution** is the promise to the user, without mechanism: solver
processes read approved files, up to numerical dictionaries and reduced
controlDict bounds, under the approved contract.

**CaseState** holds the variables: the fields of `CFDState`, the directory
(`disk`, `outputs`), what the agent object keeps in memory (`pending_plan`,
`presolve`), and the position of the controller inside its loops (`pc`, `todo`,
`turn`, `attempt`).  `raised`, `ran` and `tampers` are history variables: whether
the last command ended in an exception, what the last solver process was started
on, how many foreign edits happened.  The module also has the shared steps:
reaching a gate (`Stop`; what the agent object held dies), moving on (`GoTo`),
invalidation of mesh evidence, the members of a committed delta and their order.

**CasePreparation** (`engineering/phases/*_controller.py`): prepare and revise.
One action per outcome of a model turn (`TurnWasted`, `TurnBlocks`, `TurnRaises`,
`AuthorCase`, `DecideRevision`, `RepairCase`, `ReviseCase`, `ReviseCaseRaises`),
one per member of the committed delta (`WriteMember`, `MeshMember`,
`CheckMember`, `PresolveMember`, `FinishMember`), and the end of the turn budget
with its finalization window.  A reasoning turn, a retrieval, a candidate
rejected by validation and a repair refused before its transaction have the same
effect on the state (an event and a used turn): they are `TurnWasted` here and
told apart in TurnContracts.

**RuntimeRepair** (`runtime/orchestrator.py`, `repair_runtime`): entry, attempts,
the three outcomes of a solver, repair turns, the members of a repair and the
retry.  The seal and the approval are checked where the code checks them, in the
order in which it does; check and update of the approval are one action because
nothing runs between them, but the commit that may follow is one of two actions
(`RepairDelta`, `RepairDeltaUnaffordable`).

**HumanReview** (`review/agent.py`, `workflow/state.py`, the head of
`revise_from_feedback`): feedback, `/confirm`, `/reject`, `/solve`, `/accept`.

**Workflow** composes the three phases with `Tamper`, an edit by somebody else of
any file of an existing case at any moment, and states the properties.

**TurnContracts** (`engineering/phases/*`) is the loop of `prepare` and of a
revision seen from the model: which of the contracts (design, authoring task,
repair, block-mesh repair, strategy revision, revision decision, ...) the next
turn is given, which plan its context shows (`shown`), which one the handler of
its decision changes (`UsedBaseline`), what is left in memory (`draft`, `queue`,
`candidate`, `pending`), how the limit of turns is extended on progress, and what
of this a resumed session has.  A committed delta is one step here.

**EvidenceGaps** (`engineering/agent.py`) is the ledger of what the model says it
misses: Python owns the identifiers, which may collide with those the model
proposes; each gap is retrieved once, refined or given up.

**MeshScopes** (`engineering/case_delta_graph.py`, `case_build_graph.py`,
`contracts/execution_scopes.py`, `mesh_dependencies.py`, the handlers of
`engineering/agent.py`): a delta of files and command hints is compiled into
members, the scopes it affects are those reachable over the operations on record,
members run and fail, and evidence of `checkMesh` is bound to a digest of
everything its mesh was made from.  CaseState has the same with one scope and
inside the whole workflow.

**ControlDictRepair** is the entry-by-entry rule behind `OnlyReduces`:
`deltaT`, `maxDeltaT`, `maxCo` and `adjustTimeStep` of one file over a sequence of
candidates, committed or not, with foreign edits between them.

**SolverEvidence** (`runtime/completion.py`, `tools/parsers.py`,
`runtime/parallel.py`, the attempt loop of `runtime/orchestrator.py`): the
contract compiled from plan and `controlDict`, the snapshot of the outputs before
an attempt, the log accumulator line by line, serial and parallel outputs,
reconstruction, and what the end of the process is taken for.  A file carries the
attempt that stamped it and the attempt that computed it, which is what a hash and
a modification time cannot tell.  Whether the text of a field parses is a choice.

**PostProcessing** (`postprocessing/agent.py` and its analyses): turns, plans of
members, native runs, the report; files changed from outside at any step, and a
revised solve that meets the analyses of the first.

**CaseWorkspace** (`tools/workspace.py`, `tools/assets.py`): the text transaction
file by file with its rollback and every way either may fail, single edits,
imports of the user's files, and the archive of a revision move by move.
**AtomicCommit** is what its callers may assume: a bundle becomes visible whole or
not at all, within the size limit, and never touches the user's files, unless a
rollback fails itself (`torn`).

**Checkpoint** (`workflow/checkpoint.py` and every caller of `save`): the state in
memory, `checkpoint.json`, the case directory, the process ledger and the journal
of a restart, with a session that dies at any step and is resumed with or without
reconciliation.

**NativeLedger** (`SafeRunner.run`, `_run_streaming`, `ProcessBudget`,
`workspace_execution_lock`, the reconciliation in `CheckpointStore.load`).  A
*session* is one agent process on the workspace; it keeps its own copy of the
ledger (`records`), stands somewhere in `run` (`at`), and may die between any two
steps (`Crash`), which frees the lock and leaves its native process alive.  One
action per durable or visible step: the reservation, the observer calls, the
creation of the process, the record of its pid, the end.  Each write of the ledger
may fail after the row in memory was changed (`ReserveFails`, `FinishUnstored`,
`Abort` without a store), and the kill of a process group may not take effect
(`AbortUnsettled`).  A process created by a `Popen` that is interrupted is a
*stray*: its session never learns of it.  `OnRecord` and `ExclusiveRuns` are about
the others, `BudgetKept` about all.  **ExclusiveRuns** is what the runner promises
about a workspace: native processes exist one at a time, and are never more than
the budget.

**ModelTurn** (`llm/*_client.py`, `llm/codex_transport.py`,
`engineering/phases/context_controller.py`, `agents/intake.py`): one call from its
prompt to its answer, for the four back ends: full and delta prompts, stored
responses, repairs of an invalid answer, fresh processes after a malformed stream,
tool events, usage, heartbeats, and where the engine takes a failure.

**Requirements** and **Session** (`contracts/requirements.py`, `agents/intake.py`,
`cli.py`, `conversation.py`): what the turns of a conversation ask for, which
drafts are accepted for them, and every command of the interactive session and of
a one-shot call around the workflow.

## 3. What is checked

Passing runs (states: distinct states TLC finds):

| Run | Question | Bounds |
|---|---|---|
| `reviewed` | Over all interleavings of feedback, revision, repair and failure: is what the user sees at a gate one sealed case with its own result, does a failed revision come back to its case, does settled feedback stay settled? | two input files, two contents, two plans, 3 turns, 2 attempts, two statements of feedback, no foreign edit; 1.0 million states |
| `approved` | Does the workflow implement `ApprovedExecution`, is the approval in force where a solver can start, does every command end at a gate? | every kind of file (mesh, numerical, controlDict), a plan outside the contract, one foreign edit, fairness of the agent's process; 563 thousand states |
| `contracts` | Can a sequence of candidates leave the approved controlDict bounds? Is a run that is done done with the result of its own last attempt, and quality claimed exactly when it was sustained? Is each evidence gap retrieved once? | three machines that share nothing, of which one moves: entries 0..2 and one foreign edit; one watched field, 2 samples, 2 attempts, 2 times, 3 changes of time; 2 proposed identifiers, batches of 2, 2 cycles; 1.0 million states |
| `ledger` | Two sessions on one workspace, dying at any step, with reconciling loads: is every native process on record, is there one at a time, does the ledger only grow, is the budget kept? | budget of 3 processes, 2 units of wall time, 4 deaths; 114 thousand states |
| `workspace` | Is a bundle visible whole or not at all, do the user's files keep their bytes and the records their files, does no revision edit a case next to the old outputs? Refines `AtomicCommit`. | three paths, sizes up to 2 and 3 in all, two outputs, two revisions; 759 thousand states |
| `checkpoint` | Does a resumed session know every side effect, go on from nothing half done, and ask again for `/solve`? Can a session that died between two actions be resumed? | 3 native processes, 3 writes of the case, 4 sessions, parallel with restart; 85 thousand states |
| `turns` | Is the plan a turn shows the plan its decision changes? Do turns end, whatever the model answers? | two plans, 4 turns and a fifth by extension, one finalization turn, two tasks, one retrieval cycle, one death; 1.3 million states |
| `post` | Is a report of the case as it lies, is no unknown configuration run, does post-processing end? | one configuration, one quantity and one check, two contracts, two turns, two runs, one change from outside; 741 thousand states |
| `mesh` | Is a case finished on evidence of the meshes on disk, does an edit reach every mesh it concerns, does reused evidence stay current? | two regions that share a surface, five files, two edits of one file, one failing member; 1.0 million states |
| `session` | Are the intake and the case of the conversation as it reads now, in a directory of their own, and does an accepted intake hold the user's last word and no less? | two targets, two values, four turns to say, conversations of three, two sessions, four runs; 316 thousand states |
| `model_turn` | Are only complete answers used, are costs bounded and those of the turn, does a delta find a model that knows the rest, does every call end? | one repair, two fresh processes, one intake repair, streams of three events, three turns, one resume; 165 thousand states |

Run that shows a disagreement:

| Run | What the trace shows |
|---|---|
| `doc_stale_parallel` | `runtime/completion.py` says "an old field is not new execution evidence", and `ResultIsOfThisAttempt` proves it for serial runs.  In a parallel run the first attempt writes a field into the ranks and fails; the second computes nothing at that time; reconstruction copies the old field into the case, where it is new, and the run is `EXECUTION_DONE`. |

### Bounds

Two contents of a file are enough for "changed", "changed back" and "reduced";
two plans for "same contract" and "another contract"; two statements of feedback
are needed because the first revision's left-overs (archive path, proposal,
status) are what the second one meets; two attempts give one repair between
them, and the repair has two turns so that a member can fail and the delta be
proposed again.

In `ledger`, two sessions are enough for a stale copy (one writes, the other
remembers), and a budget of three rows for a settled one, an uncertain one and one
too many.  `ExclusiveLoads` is on there: a load that reconciles has the workspace to
itself.  The code takes no lock for it (see section 6); without the assumption
`LedgerIsHistory` and `OnRecord` fail.

`contracts` counts three times, because a row of two samples can be interrupted by
a time without one and only then be resumed; it watches one field, because a field is only
compared with itself, and a contract either watches residuals or declares fields
(`OneClaim`), because neither verdict reads what the other is about (the proofs
have neither bound).  The code has four gaps in a batch and 9999 identifiers; a
batch of two is the smallest in which one proposal can collide with the other.

`checkpoint` needs three rows for a member, a solver and one more; four sessions
allow a resume of a resume of a resume.  `turns` has one extension and one turn
less than the hard cap, so that the cap and the extension both decide.  `mesh` has
two regions with a shared surface, the smallest case in which an edit concerns one
mesh, the other, or both; edits change one file, and the model may ask for five
commands, one of each kind (`surfaceFeatures` of none, `checkMesh` of one region).  `session` needs three turns for a
value that is given, cancelled and given again.  `model_turn` needs two fresh
processes inside one repair to see nested counters.

Foreign edits are off in `reviewed`, because three of its properties speak of
what the agent itself does; `approved` has them on, and `ReviewedResultIsSealed`
is proved with any number of them.

Deadlock is not checked: the systems rest at terminal gates or where a bound on
the user, on other writers or on deaths is used up.

### Fairness

* `Workflow!FairSpec`, `TurnContracts!FairSpec`, `PostProcessing!FairSpec` and
  `ModelTurn!Spec` have weak fairness of the agent's own steps (`Controller`, `Turn`,
  `Agent`, `CallStep`) and of nothing else: straight-line code between calls, and
  calls with a deadline (`timeout_seconds` of the clients and of
  `tools/safe_runner.py`).
* Nothing is assumed of the user, of other writers, of a resume after a crash, or
  of the heartbeat thread (`Beat`): `CallsEnd` holds though that thread may never
  return.

### Mutants

Each property has a mutant in `PROJECT.json`: a definition of the model is
replaced by a plausible slip ("The slip of ..." in the modules), and TLC finds the
property violated under the run's own configuration.

## 4. What is proved

All theorems hold for every value of the constants.  They assume the named
assumptions of the modules: `blockMeshDict` is an input and the native mesh is
not, the bounds are natural numbers (positive where a loop has to run at all), the
soft limit of turns is not above the hard cap (`EngineeringPolicy` refuses that,
`engineering/agent.py:196`), `None` and `Absent` are none of the values they stand
beside, a plan names each scope once, and a hint names a command for meshes with a
declared region.

Unrelated machines share a proof module where their names allow it; the theorems of
each are about its own specification.

* **WorkflowProofs!TypeCorrect** -- `Spec => []TypeOK`.  `TypeOK` is not
  inductive: `attempt <= MaxAttempts` needs that an attempt is left wherever a
  solver can start, `Seal(todo.plan, disk)` needs that committed members have a
  plan, and the target of `/reject` needs that the proposal names an existing
  record.  `PositionHolds` and `ProposalHolds` say so; the invariant is their
  conjunction with `TypeOK`.
* **WorkflowProofs!AuthorityCorrect** -- `Spec => []Authority`.  Authorization
  preserves `ReducedOnly` (lemma `AuthorizeReduces`: the bytes on disk are
  approved, or were authorized, or the candidate itself was); and a repair that
  has lost its approval has lost its mesh evidence with it, so that it cannot
  reach a retry.  The latter is the argument for a gap in the code: a repair
  without an approval is committed unchecked.
* **WorkflowProofs!ApprovedCorrect** -- `Spec => Promise!Spec`.  The refinement
  mapping takes `granted` to the approval object while the flag is set, and
  `process` to `ran`.  Only `StartSolver` changes `ran`, and what it checks
  together with `Authority` is `StartProcess`; every other step is `Approve`,
  `Revoke` or a stutter.
* **WorkflowProofs!ReviewedResultCorrect** -- `Spec => []ReviewedResultIsSealed`.
  The strengthening `ResultHolds` follows the result through a revision: as long
  as a proposal made for a result can be rejected, or restored after a failed
  confirmation, seal and result are untouched, which holds because the members of
  a revision run only after the outputs were archived, and an archived revision
  is never restored.
* **WorkflowProofs!RevisionReadyBaselineCorrect**, **NoStaleResultCorrect**,
  **SealedAtGateCorrect** and **SettledStaysCorrect** -- the rest of `reviewed`.  The
  strengthening has four parts: `ResultHolds`; `SealNamesPlan` (a seal is of the
  plan in force); `RevisionHolds` (a proposal at work is for feedback in progress, and
  until its outputs are archived the seal is the one it was made for); and, as long
  as nobody else edits, `UndisturbedHolds` (at which positions of the controller the
  sealed case is on disk, and where no result is kept).  The last is why two of the four are
  about runs without foreign edits: with them the gate shows the sealed result
  (`ReviewedResultIsSealed`), but the disk may be anything.
* **ExecutionProofs!RepairsWithinApprovalCorrect** and **RecheckCorrect** --
  the entry rules.  Invariant: the baseline is the approved file, and the last
  candidate stays authorized over the file it was made for, whatever is on disk
  (`RecheckIsIdempotent`, which no run repeats).
* **ExecutionProofs!OnRecordCorrect**, **BudgetKeptCorrect**,
  **LedgerIsHistoryCorrect** and **ExclusiveRunsCorrect** -- the native runner, for
  every set of sessions, budget and number of deaths, assuming `ExclusiveLoads`.
  None of the four is inductive.  The invariant says that the lock is held by
  exactly the session that is in `run`, that this session's copy is the file and
  ends in the row of its position, that at most the last row is uncertain, that
  only its process can exist, and that a row is reserved and unused until `Spawn`.
  The entry checks re-establish it: a copy that is the file and has no uncertain
  row means that no process exists (`AdmittedOnFile`).
* **ExecutionProofs!ResultIsOfThisAttemptCorrect** -- a serial run that is done has the
  result of its last attempt.  The invariant adds that files carry attempts of the
  run, that an attempt is left wherever one can start, that a log that made
  progress and was not reversed is at a time of the run (`LogSound`), and
  `OldOrOwn`: while a serial attempt runs, each field is what the snapshot saw or
  its own.  Verification then excludes the first.  There is no such invariant for
  a parallel run, where reconstruction stamps old rank files anew.
* **ExecutionProofs!QualityIsSustainedCorrect** -- quality is claimed exactly when it
  was sustained.  The invariant `RowSound` says that the counter of a field is the
  length of its row of low times up to the last flushed one; `FlushedCounts` is the
  step by which flushing extends or ends it.

* **WorkspaceProofs!OwnersKeptCorrect**, **EditsAfterArchiveCorrect** and
  **ImplementsAtomicCommitCorrect** -- the case directory.  A bundle half written or
  half rolled back is the old case with the changes of a set of files; the invariant
  says which set at every position, and that the user's files are never in it.
  The refinement shows the bundle's old value until its last step: every step of
  writing and of rolling back is a stutter, the last one is the commit or nothing, and
  a rollback that fails itself is `torn`.  The total size is an operator constant of
  AtomicCommit (`SizeOf`), so that the proof needs no induction over a sum.
* **CheckpointProofs!NothingInDoubtCorrect**, **ApprovedHereCorrect** and
  **CleanIsResumableCorrect** -- deaths and resumes.  None is inductive: what a
  resumed session may rely on is what the last `save` wrote, so the invariant speaks
  of the state in memory, of `checkpoint.json` and of what lies between them at
  every position (the action without an end, the ledger ahead of the checkpoint, the
  intent of a restart).  Approval is session-bound since a load drops it and only
  `/solve` sets it.  Assumed: `NoAction` is no record of an action.
* **ModelTurnProofs!OnlyCleanAnswersCorrect**, **CostsOfThisTurnCorrect**,
  **DeltaIsKnownCorrect** and **BlockedAfterRetriesCorrect** -- one call of the model.
  The invariant counts processes by the nested counters (a process is one of
  `(1 + Retries)` of one of `(1 + Repairs)` answers), says that the usage so far is of
  answers of this call, and what the chain of responses has shown the model: before
  a turn the plan of the snapshot, while a delta is out the plan it does not repeat,
  after the answer the plan the prompt was built from.
* **FoldProofs!WorkIsOfTheConversationCorrect** and **OwnDirectoryCorrect** --
  the commands of the session.  The first needs the turns and the case typed, with
  the gate a waiting revision came from; the second says that directories are taken in the order of sessions and
  attempts, so that a new one is fresh by a maximum over those taken.
* **FoldProofs!IntakeIsFaithfulCorrect** -- an accepted intake.  `ReadWell` and
  `LastStands` are the invariants of reading a conversation: what stands was stated
  where it says, what is masked was replaced or cancelled later, and of the turns
  read so far the last one that mentions a target decides.  They hold after every
  assignment and every cancellation, hence after the last turn; a draft that is
  accepted agrees with what stands then (`AcceptedIsFaithful`), and `IntakeInv` keeps
  the intake one that was accepted for the turns as they are.
* **FoldProofs!GapsServedOnceCorrect** -- the ledger of gaps, both halves.
  `SettledWell` is the invariant of settling a batch: no identifier is issued twice,
  no refinement of a known gap gets that of a gap on record, and every request that
  is not a repetition has a place.  `BatchKeeps` is the one of retrieving it: what was
  closed stays closed, whatever comes before or after it in the batch.
* **PostProcessingProofs!OnlyOwnEvidenceCorrect** and **ReportIsOfTheCaseCorrect** --
  reports.  The invariant: what is on record was written by the model, every member
  of a plan is an action a turn could take, and a verdict kept in the state is that
  of the bytes and contract kept beside it.  Currency is then a comparison when the
  report is built, whatever happened in between.
* **TurnProofs!ShownIsUsedCorrect** -- the plan shown is the plan changed.  The
  context and the handlers choose a plan by different `or` chains, which agree
  because a queue of authoring tasks is of the draft, because a decision of a revision
  is never in memory without a sealed plan, and because a repair is routed only with
  a pending one; `ContractIsRouted` says what each contract was routed on.
* **TurnProofs!TurnsBoundedCorrect** -- the hard cap.  A turn in work is within the
  limit in force, and every limit, extended, recorded or resumed, is within the cap.
  With a soft limit above the cap, which the policy refuses, it would be false.
* **FoldProofs!EvidenceIsCurrentCorrect** -- a finished case has evidence of its
  meshes.  The invariant: a mesh that can be checked was made by a `blockMesh` on
  record, whose dictionary is therefore in every digest of it, and evidence that
  passed speaks of the mesh and dictionary in its manifest.  A manifest that is the
  digest of now then makes it current.
* **FoldProofs!MeshFollowsFilesCorrect** -- what an edit concerns is rebuilt.  It is
  not inductive: between an edit and its last consumer the mesh is not what the files
  say.  The invariant `Follow` says that where it differs the command that closes the
  gap is *owed*, and `PlanHolds` what is left of a plan: every consumer in it is owed
  and has its dictionary, none is there twice, and one whose output a snapping reads
  is followed by that snapping.  Two facts about the compilers carry it.  The closure of
  `auto_consumers_for_delta` is closed after as many passes as there are candidates
  (`ReachedCloses`: a pass that adds nothing changes nothing, and each other adds one),
  and the stable order puts producers first and drops nobody (`Ordered`): the commands
  have a rank, so that there is no cycle, which the code reports as a failure of its own.
* **FoldProofs!ReusedStaysCurrentCorrect** -- what an edit does not concern is kept.
  `RegistryHolds` says that an operation on a scope comes, over all its ancestors,
  from operations that touch no other scope's mesh, unless a command that declares
  no reads is among them; only the shared surface joins scopes, and an operation on it
  is one of all scopes.  `PlanHolds` adds that a plan acts on affected scopes only.

Induction over data.  The induction theorems of the library take a predicate, which
the provers cannot instantiate.  FoldProofs therefore states induction over a *set*
of numbers (`NumberInduction`, from the least element of a set of counterexamples) and
unfolds `FoldLeft` to what the community modules define it by: a function on the
sets of places that is chosen by its recursion.  `FoldFunctionExists` shows that
there is one, `FoldSteps` that it passes through the values of the prefixes one
after the other.  An invariant of a loop over a list is then proved like one of a
machine, from one prefix to the next.  The four results above that speak of a list
(intake, gaps, and the two on what an edit rebuilds and reuses) go this way; the
modules they are about name the steps of their loops (`Settle`, `Place`, `Visit`,
`ReadTurn`) and use no other recursion.

Model-checked only: liveness (`RunSettles`, `LoopEnds`, `PostProcessingEnds`,
`CallsEnd`), which is outside what the provers do.  Every other property of a passing
run is stated by a theorem.

## 5. What is not modelled

* The words of prompts, contexts and candidates.  A candidate is what it changes,
  a context is which plan (and in ModelTurn which version of it) it shows.
* Dictionaries inside a file, except controlDict's numerical entries: the parser
  and the semantic checks (`verification/*`) give a verdict, which is a choice.
  So do the numerical analyses of post-processing.
* `required_case_files` during a revision, `_precommitted_files`, and the bound of
  `max_steps` on workflow steps; the legacy gate `MESH_READY`.
* Validation of command lines, CPU and output budgets and the cgroup backend of
  the native runner, and the wall time that aborted and reconciled rows leave out
  of the cumulative budget.  Wall time is in units.
* The choice of a restart snapshot, ranks that differ from one another, block-mesh
  topology, diagnostics.
* In Checkpoint: relocated and damaged checkpoints, a changed environment.  In
  NativeLedger a resume that the checkpoint would refuse is a session that finds an
  uncertain row.
* Catalogues, rendering and wire formats; the offline qualification.

The workflow is modelled from several sides rather than once with everything:
CaseState has one mesh scope and atomic commits, MeshScopes has scopes and
CaseWorkspace the commits; Checkpoint has deaths and Workflow the members; what
crosses such a line (a revision that dies between members *and* has two scopes) is
not checked.

## 6. Observations

Reading the code for the models showed the following.  Only `doc_stale_parallel`
is a run; the others are behaviours the models have (or leave out, where it says
so), noted for the maintainers.

*Approval and repair.*  An authorized controlDict delta is written and then refused
by the write policy (`engineering/agent.py:1893`).  The limit of an adaptive time
step is taken from an optional entry that may exceed the fixed step in force
(`contracts/execution.py:306`).  A refused repair overwrites
`episode.current_failure`, which its comment calls the failure the episode began
with.  A rejected or empty candidate delta loses the retained candidate
(`repair_controller.py:135`).  A repair's plan change is lost when a member fails,
while its files stay.

*Revisions.*  A revision that re-meshes clears the seal, so `finish_preview` records
no revision (`decision_controller.py:548`): the feedback stays in progress, the
proposal active, and the archive path it leaves makes the next revision skip its
archive (`lifecycle_controller.py:293`; `unrecorded` in CaseWorkspace).  An archive
that fails half way leaves its directory, and every retry raises "Revision archive
already exists" (`tools/workspace.py:530`).  An exception in the finalization window
of a revision does not restore its proposal (`lifecycle_controller.py:242`).  A
revision that changes the required files fails its pre-solve validation against
the old plan (`engineering/agent.py:2334`).  Quantity and conservation analyses
survive the start of a confirmed revision; reports exclude them
(`ReportIsOfTheCase`).

*Crash and resume.*  A reconciling load stores the ledger it read without the
workspace lock (`workflow/checkpoint.py:171`).  A revision resumed after a crash is
prepared as a new case (`Astray` in TurnContracts; `ShownIsUsed` excludes it).  A
refused restart preparation leaves its intent, so that every later resume is
refused (`runtime/restart.py:274`).  A resumed POSTPROCESSING has no handler and
fails.  A session that dies between an imported file and its record leaves a file
that is nobody's (`tools/assets.py:136`).

*Native runs and meshes.*  An interrupt inside `Popen` settles the row of a process
that exists (`safe_runner.py:759`).  Rows that were aborted or reconciled have no
`wall_seconds`, which the wall budget sums (`safe_runner.py:225`).  A plan that fails
drops the consumers after the failed member; a later delta of hints alone passes
`checkMesh` on the old mesh (`MeshFollowsFiles` excludes it with `owed`).  A command
without declared reads makes an edit of any file invalidate scopes it lists as
reused.  Dropping a mesh dictionary only re-checks the old mesh.

*Solver evidence.*  A custom completion with `custom_evidence` text is complete and
`numerical_quality_verified` without any evaluator, while `tools/parsers.py:210` asks for an
implemented one.  `numerical_quality_verified` does not depend on the success of
the process.  Residuals before the first time would be credited to the first step
(no solver prints them; `ResidualLine` excludes it).

*Post-processing.*  The marker of a truncated output is not counted in its length
(`postprocessing/agent.py:855`): the event of a long output is refused by its schema
and the plan is given up after the command took place.  The handler that isolates a
failed turn builds a report, which may raise in its turn (`postprocessing/agent.py:787`).

*Evidence gaps.*  A root request under an identifier that Python has issued to
another gap is dropped as already retrieved.  A failure of the retrieval backend
ends the preparation (`engineering/agent.py:2518`), while `src/ARCHITECTURE.md:533`
describes a decision-only contract.

*Session and intake.*  `/set k=v` writes "Set k to v", which is not read as an
assignment (`cli.py:1702`).  A turn that is repeated word for word has no unique
evidence span, so no draft that quotes it is accepted.  A target that is cancelled
and stated again has no acceptable intake.  `/set`, `/edit` and `/undo` discard a
case that waits for `/solve`; a plain prompt is refused there.

*Model turns.*  After a resume or a repaired answer a delta prompt is sent without
the chain of responses it continues (`context_controller.py:300`; `DeltaIsKnown` holds
until then, `broken`).  The tokens of a malformed Codex attempt are not in the total.

## 7. Plan

1. Proofs: the rank by which parallel runs lose `ResultIsOfThisAttempt`, as a
   weaker theorem that names the stale ranks.
2. Checkpoint over CaseState: deaths between the members of a revision.
3. The choice of a restart snapshot and ranks that differ.
4. Wall, CPU and output budgets of the native runner.
5. `required_case_files` and `_precommitted_files` in the members of a delta.
