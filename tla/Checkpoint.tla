----------------------------- MODULE Checkpoint -----------------------------
(***************************************************************************)
(* workflow/checkpoint.py with the code that saves (engine, decisions,     *)
(* members, native runs, solver attempts, restart preparation) and the     *)
(* sessions that die and resume.  A session holds the state in memory;     *)
(* checkpoint.json, the case directory, the process ledger and the journal *)
(* of a restart survive it.  A change of memory and the save that follows  *)
(* are one step: a crash between them loses both.                          *)
(*                                                                         *)
(* One session at a time.  Relocated or damaged checkpoints and a changed  *)
(* environment or mesh graph are refused before anything here and left     *)
(* out; so is the check of the environment with checkMesh.                 *)
(***************************************************************************)
EXTENDS Integers, Sequences, FiniteSets, SequencesExt

CONSTANTS
    Parallel,     \* the plan's execution is local_mpi
    MaxRows,      \* bound: native processes of the workspace
    MaxCase,      \* bound: writes of the case directory
    MaxSessions,  \* bound: sessions
    NoAction      \* state.pending_action is None

ASSUME CheckpointAssumption ==
    /\ Parallel \in BOOLEAN
    /\ MaxRows \in Nat /\ MaxCase \in Nat /\ MaxSessions \in Nat \ {0}
    /\ NoAction \notin [kind : {"member", "runtime", "restart"}, done : BOOLEAN, native : BOOLEAN]

VARIABLES
    mem,      \* the state of the session
    at,       \* where the session is; "dead": there is none
    store,    \* checkpoint.json
    case,     \* the case directory: the number of its writes
    ledger,   \* native-process-ledger.json
    alive,    \* the process of the last row exists
    journal,  \* parallel-restart-intent.json exists
    prepared, \* steps of the restart preparation that are on disk
    left,     \* the members of the plan in hand that have not been executed
    session,  \* the number of the session
    granted,  \* the session in which the user said /solve last
    clean     \* the session that died was between two actions

disk == <<case, ledger, alive, journal, prepared>>
vars == <<mem, at, store, disk, left, session, granted, clean>>

InFlight(row) == row.status \in {"spawn_intent", "running"}
EndedMembers(rows) ==
    Cardinality({i \in DOMAIN rows : rows[i].kind = "member" /\ rows[i].status = "done"})

\* CheckpointStore.save: the state, and the inputs and the ledger of the moment.
Saved(m) == [m EXCEPT !.case = case, !.rows = ledger]
Save == store' = Saved(mem')

NoSeal == -1  \* state.case_seal is None
Idle == at = "idle"
Go(m, place) == mem' = m /\ at' = place

----------------------------------------------------------------------------
\* prepare: before each model turn.
BeforeModelTurn ==
    /\ Idle /\ mem.state = "ENGINEERING"
    /\ Go(mem, "turn") /\ Save
    /\ UNCHANGED <<disk, left, session, granted, clean>>

\* execute_prepare_decision.
TransactionStart ==
    /\ at = "turn"
    /\ Go([mem EXCEPT !.tx = TRUE], "decided") /\ Save
    /\ UNCHANGED <<disk, left, session, granted, clean>>

\* A turn without a decision: the next one follows.
TurnWithoutDecision ==
    /\ at = "turn"
    /\ Go(mem, "idle")
    /\ UNCHANGED <<store, disk, left, session, granted, clean>>

\* A repair always edits; a command of its own has no bundle.
Plans == {<<"write">>, <<"write", "native">>}
         \cup (IF mem.state = "RUNTIME_REPAIR" THEN {} ELSE {<<"native">>})

\* The bundle of a plan is committed, then its members are executed.
CommitBundle ==
    /\ at = "decided"
    /\ left' \in Plans
    /\ case' = IF left' = <<"native">> THEN case ELSE case + 1
    /\ case' <= MaxCase
    /\ Go([mem EXCEPT !.case = case'], "members")
    /\ UNCHANGED <<store, ledger, alive, journal, prepared, session, granted, clean>>

MemberIntent ==
    /\ at = "members" /\ left # <<>>
    /\ Go([mem EXCEPT !.pending = [kind |-> "member", done |-> FALSE, native |-> Head(left) = "native"]],
          IF Head(left) = "native" THEN "member" ELSE "performed")
    /\ Save
    /\ UNCHANGED <<disk, left, session, granted, clean>>

\* The result is saved with its event; the caller appends the event after that.
\* A write during a runtime repair takes the seal away.
MemberCompleted ==
    /\ at = "performed"
    /\ mem.pending.kind = "member"
    /\ Go([mem EXCEPT !.pending.done = TRUE,
                      !.seal = IF mem.state = "RUNTIME_REPAIR" /\ ~mem.pending.native THEN NoSeal ELSE @],
          "completed")
    /\ Save
    /\ left' = Tail(left)
    /\ UNCHANGED <<disk, session, granted, clean>>

EventAppended ==
    /\ at = "completed"
    /\ Go([mem EXCEPT !.pending = NoAction,
                      !.events = IF mem.pending.native THEN @ + 1 ELSE @], "members")
    /\ UNCHANGED <<store, disk, left, session, granted, clean>>

AfterDecision(m) == [m EXCEPT !.pending = NoAction]

AfterTransaction(m) == [m EXCEPT !.tx = FALSE, !.pending = NoAction]

TransactionCompleted ==
    /\ at = "members" /\ left = <<>> /\ mem.state = "ENGINEERING"
    /\ \E s \in {"ENGINEERING", "SOLVE_READY", "ENGINEERING_REVIEW_REQUIRED"} :
           Go([AfterTransaction(mem) EXCEPT !.state = s, !.seal = IF s = "SOLVE_READY" THEN case ELSE NoSeal],
              "idle")
    /\ Save
    /\ UNCHANGED <<disk, left, session, granted, clean>>

\* A decision raises: the checkpoint keeps the transaction, the run fails.
TransactionInterrupted ==
    /\ mem.tx /\ at \in {"decided", "members", "performed"}
    /\ store' = Saved(mem)
    /\ Go([mem EXCEPT !.state = "FAILED"], "over")
    /\ UNCHANGED <<disk, left, session, granted, clean>>

----------------------------------------------------------------------------
\* SafeRunner: the ledger first, then the checkpoint (process_observer).
Row == [status |-> "spawn_intent",
        kind |-> IF at = "post" THEN "post"
                 ELSE IF mem.pending # NoAction /\ mem.pending.kind = "runtime" THEN "solver"
                 ELSE "member"]

Reserve ==
    /\ at \in {"member", "solver", "post"} /\ Len(ledger) < MaxRows
    /\ ledger' = Append(ledger, Row)
    /\ at' = "native"
    /\ UNCHANGED <<mem, store, case, alive, journal, prepared, left, session, granted, clean>>

Observed == store.rows = ledger

Announce ==
    /\ at = "native" /\ ~Observed
    /\ store' = Saved(mem)
    /\ UNCHANGED <<mem, at, disk, left, session, granted, clean>>

LastRow == Last(ledger)
Advance(status) == ledger' = [ledger EXCEPT ![Len(ledger)].status = status]

Spawn ==
    /\ at = "native" /\ Observed /\ LastRow.status = "spawn_intent"
    /\ Advance("running") /\ alive' = TRUE
    /\ UNCHANGED <<mem, at, store, case, journal, prepared, left, session, granted, clean>>

Finish ==
    /\ at = "native" /\ Observed /\ LastRow.status = "running"
    /\ Advance("done") /\ alive' = FALSE
    /\ UNCHANGED <<mem, at, store, case, journal, prepared, left, session, granted, clean>>

NativeReturns ==
    /\ at = "native" /\ Observed /\ LastRow.status = "done"
    /\ at' = IF LastRow.kind = "post" THEN "post" ELSE "performed"
    /\ UNCHANGED <<mem, store, disk, left, session, granted, clean>>

----------------------------------------------------------------------------
\* /solve, in memory only.
Solve ==
    /\ Idle /\ mem.state = "SOLVE_READY"
    /\ Go([mem EXCEPT !.state = "SIMULATION", !.approved = TRUE], "idle")
    /\ granted' = session
    /\ UNCHANGED <<store, disk, left, session, clean>>

\* RuntimeOrchestrator.run: the first gate, then the intent of an attempt.
SolverIntent ==
    /\ at \in {"idle", "retry"} /\ mem.state = "SIMULATION" /\ mem.approved
    /\ Go([mem EXCEPT !.pending = [kind |-> "runtime", done |-> FALSE, native |-> TRUE]], "solver")
    /\ Save
    /\ UNCHANGED <<disk, left, session, granted, clean>>

\* The result is saved, then the attempt is assessed.
SolverCaptured ==
    /\ at = "performed" /\ mem.pending.kind = "runtime"
    /\ store' = Saved([mem EXCEPT !.pending.done = TRUE])
    /\ Go([mem EXCEPT !.pending = NoAction], "captured")
    /\ UNCHANGED <<disk, left, session, granted, clean>>

SolverSucceeds ==
    /\ at = "captured"
    /\ Go([mem EXCEPT !.state = "POSTPROCESSING"], "post")
    /\ UNCHANGED <<store, disk, left, session, granted, clean>>

SolverFails ==
    /\ at = "captured"
    /\ Go([mem EXCEPT !.state = "RUNTIME_REPAIR"], "decided")
    /\ UNCHANGED <<store, disk, left, session, granted, clean>>

\* A repair is no transaction; it ends with a sealed retry or with the user.
RepairEnds ==
    /\ at \in {"members", "decided"} /\ mem.state = "RUNTIME_REPAIR"
    /\ left = <<>> \/ at = "decided"
    /\ \/ Go([mem EXCEPT !.state = "SIMULATION", !.seal = case], "retry") /\ UNCHANGED store
       \/ Go([mem EXCEPT !.state = "ENGINEERING_REVIEW_REQUIRED"], "idle") /\ Save
    /\ UNCHANGED <<disk, left, session, granted, clean>>

PostProcessed ==
    /\ at = "post"
    /\ Go([mem EXCEPT !.state = "RESULT_REVIEW_REQUIRED"], "idle") /\ Save
    /\ UNCHANGED <<disk, left, session, granted, clean>>

\* CFDWorkflow.step has no handler for the state of a run that died in
\* post-processing.
NoHandler ==
    /\ Idle /\ mem.state = "POSTPROCESSING"
    /\ Go([mem EXCEPT !.state = "FAILED"], "over") /\ Save
    /\ UNCHANGED <<disk, left, session, granted, clean>>

----------------------------------------------------------------------------
Crash ==
    /\ at # "dead"
    /\ at' = "dead"
    /\ clean' = (at \in {"idle", "turn"})
    /\ UNCHANGED <<mem, store, disk, left, session, granted>>

\* An orphan ends by itself; somebody edits the case.
Outside ==
    /\ at = "dead"
    /\ \/ alive /\ alive' = FALSE /\ UNCHANGED <<case, clean>>
       \/ case < MaxCase /\ case' = case + 1 /\ clean' = FALSE /\ UNCHANGED alive
    /\ UNCHANGED <<mem, at, store, ledger, journal, prepared, left, session, granted>>

\* The refusals of CheckpointStore.load, in its order.
InputsUnchanged(s) == s.case = case
Uncertain(s, reconcile) ==
    /\ s.pending # NoAction /\ ~s.pending.done
    /\ ~(reconcile /\ s.pending.kind = "runtime")

Gone(row) == row.status = "running" /\ ~alive
Reconcilable == Parallel /\ \A i \in DOMAIN ledger : InFlight(ledger[i]) => Gone(ledger[i])
Reconciled == [i \in DOMAIN ledger |->
                  IF InFlight(ledger[i]) THEN [ledger[i] EXCEPT !.status = "reconciled"] ELSE ledger[i]]

LedgerKnown(s, reconcile) ==
    IF reconcile THEN Reconcilable
    ELSE s.rows = ledger /\ \A i \in DOMAIN ledger : ~InFlight(ledger[i])

InterruptedAction(s) == s.tx /\ s.pending # NoAction /\ ~s.pending.done

Interrupted(s) == s.tx

SealHolds(s) == s.seal \in {NoSeal, case}

Acceptable(s, reconcile) ==
    /\ InputsUnchanged(s)
    /\ ~Interrupted(s)
    /\ ~journal
    /\ ~Uncertain(s, reconcile)
    /\ LedgerKnown(s, reconcile)
    /\ SealHolds(s)

\* The event of a completed action may or may not be in the saved events.
EventsOf(s) == IF s.pending # NoAction /\ s.pending.kind = "member" /\ s.pending.native
               THEN s.events + 1 ELSE s.events

\* A resumed run never carries an approval, and waits at a gate for it.
StateOf(s) == CASE s = "SIMULATION" -> "SOLVE_READY"
                [] s = "RUNTIME_REPAIR" -> "ENGINEERING_REVIEW_REQUIRED"
                [] OTHER -> s

ResumedAsSaved(s) == [s EXCEPT !.events = EventsOf(s), !.pending = NoAction]

Regated(s) == [s EXCEPT !.approved = FALSE, !.state = StateOf(@),
                        !.events = EventsOf(s), !.pending = NoAction]

Load(reconcile) ==
    /\ at = "dead" /\ session < MaxSessions
    /\ Acceptable(store, reconcile)
    /\ Go(Regated(store), IF reconcile THEN "restart" ELSE "idle")
    /\ ledger' = IF reconcile THEN Reconciled ELSE ledger
    /\ session' = session + 1
    /\ UNCHANGED <<store, case, alive, journal, prepared, left, granted, clean>>

----------------------------------------------------------------------------
\* prepare_restart_state.
RestartIntent ==
    /\ at = "restart" /\ mem.seal = case
    /\ Go([mem EXCEPT !.pending = [kind |-> "restart", done |-> FALSE, native |-> FALSE]], "journal")
    /\ Save
    /\ prepared' = 0
    /\ UNCHANGED <<case, ledger, alive, journal, left, session, granted, clean>>

\* No seal; no common snapshot, or one outside the interval.  Nothing has been
\* changed and the command ends, but an intent that was saved stays.
RestartRefused ==
    /\ at = "journal" \/ (at = "restart" /\ mem.seal # case)
    /\ Go(mem, "dead")
    /\ clean' = FALSE
    /\ UNCHANGED <<store, disk, left, session, granted>>

JournalWritten ==
    /\ at = "journal"
    /\ Go(mem, "moving") /\ journal' = TRUE
    /\ UNCHANGED <<store, case, ledger, alive, prepared, left, session, granted, clean>>

OutputsMoved ==
    /\ at = "moving" /\ prepared = 0
    /\ prepared' = 1
    /\ UNCHANGED <<mem, at, store, case, ledger, alive, journal, left, session, granted, clean>>

ControlWritten ==
    /\ at = "moving" /\ prepared = 1 /\ case < MaxCase
    /\ prepared' = 2
    /\ case' = case + 1
    /\ Go([mem EXCEPT !.case = case'], "moving")
    /\ UNCHANGED <<store, ledger, alive, journal, left, session, granted, clean>>

\* The receipt is written and verified, the journal is removed.
ReceiptVerified ==
    /\ at = "moving" /\ prepared = 2
    /\ prepared' = 3
    /\ journal' = FALSE
    /\ Go(mem, "sealed")
    /\ UNCHANGED <<store, case, ledger, alive, left, session, granted, clean>>

RestartPrepared ==
    /\ at = "sealed"
    /\ Go([mem EXCEPT !.pending = NoAction, !.approved = FALSE, !.state = "SOLVE_READY", !.seal = case], "idle")
    /\ Save
    /\ UNCHANGED <<disk, left, session, granted, clean>>

----------------------------------------------------------------------------
Fresh == [state |-> "ENGINEERING", approved |-> FALSE, tx |-> FALSE, pending |-> NoAction,
          seal |-> NoSeal, events |-> 0, case |-> 0, rows |-> <<>>]

\* A confirmed intake, saved.
Init ==
    /\ mem = Fresh /\ store = Fresh
    /\ at = "idle"
    /\ case = 0 /\ ledger = <<>> /\ alive = FALSE /\ journal = FALSE /\ prepared = 3
    /\ left = <<>>
    /\ session = 1 /\ granted = 0
    /\ clean = TRUE

Engineering ==
    \/ BeforeModelTurn \/ TransactionStart \/ TurnWithoutDecision \/ CommitBundle
    \/ MemberIntent \/ MemberCompleted \/ EventAppended
    \/ TransactionCompleted \/ TransactionInterrupted
Native == Reserve \/ Announce \/ Spawn \/ Finish \/ NativeReturns
Runtime ==
    \/ Solve \/ SolverIntent \/ SolverCaptured \/ SolverSucceeds \/ SolverFails
    \/ RepairEnds \/ PostProcessed \/ NoHandler
Restart ==
    \/ RestartIntent \/ RestartRefused \/ JournalWritten \/ OutputsMoved
    \/ ControlWritten \/ ReceiptVerified \/ RestartPrepared
Resume == Crash \/ Outside \/ \E reconcile \in BOOLEAN : Load(reconcile)

Next == Engineering \/ Native \/ Runtime \/ Restart \/ Resume
Spec == Init /\ [][Next]_vars

----------------------------------------------------------------------------
\* A session that takes a new decision knows every side effect so far: the case
\* on disk is the one it works on, no native process is in flight, and every
\* member's process has its event, once.
NothingUnknown ==
    Idle =>
        /\ mem.case = case
        /\ ~alive /\ \A i \in DOMAIN ledger : ~InFlight(ledger[i])
        /\ mem.events = EndedMembers(ledger)

\* No session goes on from the middle of a plan or of a restart preparation: it
\* asks the user, or is refused.
NothingHalfDone ==
    Idle /\ mem.state # "ENGINEERING_REVIEW_REQUIRED" => left = <<>> /\ prepared = 3 /\ ~journal

\* A session that takes a new decision, resumed or not, leaves nothing of an
\* earlier one in doubt.
NothingInDoubt == NothingUnknown /\ NothingHalfDone

\* A solver only runs on an approval the user gave in this very session.
ApprovedHere ==
    at = "native" /\ LastRow.kind = "solver" => granted = session

\* A run that died between two actions can be resumed as it is, unless the case
\* was edited since.
CleanIsResumable == at = "dead" /\ clean => Acceptable(store, FALSE)
=============================================================================
