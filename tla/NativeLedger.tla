---------------------------- MODULE NativeLedger ----------------------------
(***************************************************************************)
(* SafeRunner.run and _run_streaming (tools/safe_runner.py) over the       *)
(* durable process ledger of a workspace (ProcessBudget in                 *)
(* tools/execution_policy.py) and its lock (tools/linux_isolation.py).     *)
(*                                                                         *)
(* A session is one agent process on the workspace.  It keeps its own copy *)
(* of the ledger in memory, and may die between any two steps; the native  *)
(* process it started then lives on.  A row is named by its place in the   *)
(* ledger, and so is the native process started for it.  Writing the       *)
(* ledger is atomic (a temporary file that is renamed) and may fail.       *)
(***************************************************************************)
EXTENDS Naturals, Sequences, FiniteSets, FiniteSetsExt

CONSTANTS
    Sessions,
    Reconcilers,   \* those that may be opened with --prepare-parallel-restart
    ExclusiveLoads,  \* whether a load that reconciles has the workspace to itself
    Limit,         \* ProcessBudget.limit
    TotalWall,     \* ResourceLimits.total_wall_seconds, in units
    MaxCrashes,    \* bound: deaths of agent processes
    None

ASSUME LedgerAssumption ==
    /\ Reconcilers \subseteq Sessions
    /\ ExclusiveLoads \in BOOLEAN
    /\ Limit \in Nat
    /\ TotalWall \in Nat
    /\ MaxCrashes \in Nat
    /\ None \notin Sessions

VARIABLES
    ledger,     \* process-ledger.json
    records,    \* ProcessBudget.records of each session
    lock,       \* the session that holds the workspace lock, or None
    at,         \* how far each session is in SafeRunner.run
    alive,      \* the native processes that exist and whose session knows of them
    strays,     \* those that exist because Popen was interrupted
    spawns,     \* history: native processes created so far, strays not counted
    strayed,    \* history: strays created so far
    crashes     \* history: deaths so far

ledgerVars == <<ledger, records, lock, at, alive, strays, spawns, strayed, crashes>>

Status == {"spawn_intent", "running", "ended", "aborted", "reconciled"}

Row == [status : Status, pid : BOOLEAN, wall : Nat]

\* Positions from the reservation to the end of the try block of
\* _run_streaming, then the rest of run().
InTry     == {"reserved", "announced", "spawned", "recorded", "running"}
Busy      == InTry \cup {"finished"}
Positions == Busy \cup {"idle", "loading", "dead"}

UncertainStatus == {"running", "spawn_intent"}

\* Mutant: an intent whose process id was never stored is taken as settled.
UncertainRunningOnly(rows) ==
    \E i \in DOMAIN rows : rows[i].status = "running"

Uncertain(rows) == \E i \in DOMAIN rows : rows[i].status \in UncertainStatus

\* Mutant: the budget counts the processes known, and not the attempts.
AttemptsWithPid(rows) == Cardinality({i \in DOMAIN rows : rows[i].pid})

Attempts(rows) == Len(rows)

Spent(rows) == MapThenSumSet(LAMBDA i : rows[i].wall, DOMAIN rows)

Id(s) == Len(records[s])

Init ==
    /\ ledger = <<>>
    /\ records = [s \in Sessions |-> <<>>]
    /\ lock = None
    /\ at = [s \in Sessions |-> "idle"]
    /\ alive = {}
    /\ strays = {}
    /\ spawns = 0
    /\ strayed = 0
    /\ crashes = 0

(***************************************************************************)
(* Entry: nothing is spawned from a stale copy of the ledger, after a      *)
(* process whose completion is uncertain, or beyond a budget.  The ledger  *)
(* file exists once a row was stored (a file without rows is taken for no  *)
(* file).                                                                  *)
(***************************************************************************)
\* Mutant: the copy in memory is not compared with the file.
FreshUnchecked(s) == TRUE

Fresh(s) == ledger = <<>> \/ ledger = records[s]

Admitted(s) ==
    /\ at[s] = "idle"
    /\ lock = None
    /\ Fresh(s)
    /\ ~Uncertain(records[s])
    /\ Spent(records[s]) < TotalWall
    /\ Attempts(records[s]) < Limit

Intent == [status |-> "spawn_intent", pid |-> FALSE, wall |-> 0]

Reserve(s) ==
    /\ Admitted(s)
    /\ records' = [records EXCEPT ![s] = Append(@, Intent)]
    /\ ledger' = records'[s]
    /\ lock' = s
    /\ at' = [at EXCEPT ![s] = "reserved"]
    /\ UNCHANGED <<alive, strays, spawns, strayed, crashes>>

\* The row cannot be stored: it stays in memory, and nothing is spawned.
ReserveFails(s) ==
    /\ Admitted(s)
    /\ records' = [records EXCEPT ![s] = Append(@, Intent)]
    /\ UNCHANGED <<ledger, lock, at, alive, strays, spawns, strayed, crashes>>

(***************************************************************************)
(* The run.  The observer of the session (a checkpoint) is called at three *)
(* places.                                                                 *)
(***************************************************************************)
Step(s, from, to) ==
    /\ at[s] = from
    /\ at' = [at EXCEPT ![s] = to]
    /\ UNCHANGED <<lock, strays, strayed, crashes>>

Observe(s, from, to) ==
    /\ Step(s, from, to)
    /\ UNCHANGED <<ledger, records, alive, spawns>>

AnnounceIntent(s)  == Observe(s, "reserved", "announced")
AnnounceRunning(s) == Observe(s, "recorded", "running")

Spawn(s) ==
    /\ Step(s, "announced", "spawned")
    /\ alive' = alive \cup {Id(s)}
    /\ spawns' = spawns + 1
    /\ UNCHANGED <<ledger, records>>

\* budget.update: the row in memory, and then the file.
Update(s, row) == records' = [records EXCEPT ![s][Id(s)] = row]

Stored(s) == ledger' = records'[s]

\* Mutant: the settled row is written, and the process group left alone.
KillForgotten(s) == alive

\* What is left of the native processes once the group of s was killed.
Kill(s) == alive \ {Id(s)}

RecordPid(s) ==
    /\ Step(s, "spawned", "recorded")
    /\ Update(s, [status |-> "running", pid |-> TRUE, wall |-> 0])
    /\ Stored(s)
    /\ UNCHANGED <<alive, spawns>>

\* The wall time a run is granted is what the recorded runs have left.
Remaining(s) == TotalWall - Spent(records[s])

Ended(s) ==
    \E wall \in 1 .. TotalWall :
        /\ wall <= Remaining(s)
        /\ Update(s, [status |-> "ended", pid |-> TRUE, wall |-> wall])

\* The process exited, or was killed at a limit.
Finish(s) ==
    /\ Step(s, "running", "finished")
    /\ alive' = Kill(s)
    /\ Ended(s)
    /\ Stored(s)
    /\ UNCHANGED spawns

\* run() is left, with a result or an exception.
Leave(s) ==
    /\ at' = [at EXCEPT ![s] = "idle"]
    /\ lock' = None
    /\ UNCHANGED <<spawns, crashes>>

FinishUnstored(s) ==
    /\ at[s] = "running"
    /\ alive' = Kill(s)
    /\ Ended(s)
    /\ Leave(s)
    /\ UNCHANGED <<ledger, strays, strayed>>

AnnounceFinished(s) ==
    /\ at[s] = "finished"
    /\ Leave(s)
    /\ UNCHANGED <<ledger, records, alive, strays, strayed>>

\* A row settled by an exception.  It never gets a wall time, so that the run
\* does not count in Spent.
Aborted(s, pid) ==
    /\ Update(s, [status |-> "aborted", pid |-> pid, wall |-> 0])
    /\ Stored(s) \/ UNCHANGED ledger

\* Any exception from the reservation to the end of the try block, those of the
\* isolation backend and of the observer included: the process group is killed
\* and the row settled.  The pid is known once budget.update ran.
Abort(s) ==
    /\ at[s] \in InTry
    /\ alive' = Kill(s)
    /\ \/ Aborted(s, records[s][Id(s)].pid)
       \/ at[s] = "spawned" /\ Aborted(s, TRUE)
    /\ Leave(s)
    /\ UNCHANGED <<strays, strayed>>

\* The kill does not take effect in time, or the accounting of the isolation
\* backend fails: the exception leaves the row as it is.
AbortUnsettled(s) ==
    /\ at[s] \in {"spawned", "recorded", "running"}
    /\ Leave(s)
    /\ UNCHANGED <<ledger, records, alive, strays, strayed>>

\* An interrupt while Popen waits for the child to exec: the child exists, but
\* proc was never assigned, so that nothing is killed.
InterruptedSpawn(s) ==
    /\ at[s] = "announced"
    /\ strays' = strays \cup {Id(s)}
    /\ strayed' = strayed + 1
    /\ Aborted(s, FALSE)
    /\ Leave(s)
    /\ UNCHANGED alive

Run(s) ==
    \/ Reserve(s) \/ ReserveFails(s)
    \/ AnnounceIntent(s) \/ Spawn(s) \/ InterruptedSpawn(s)
    \/ RecordPid(s) \/ AnnounceRunning(s)
    \/ Finish(s) \/ FinishUnstored(s) \/ AnnounceFinished(s)
    \/ Abort(s) \/ AbortUnsettled(s)

(***************************************************************************)
(* Sessions die and are opened again; native processes end by themselves.  *)
(***************************************************************************)
Crash(s) ==
    /\ at[s] # "dead"
    /\ crashes < MaxCrashes
    /\ crashes' = crashes + 1
    /\ at' = [at EXCEPT ![s] = "dead"]
    /\ records' = [records EXCEPT ![s] = <<>>]
    /\ lock' = IF lock = s THEN None ELSE lock
    /\ UNCHANGED <<ledger, alive, strays, spawns, strayed>>

\* Nothing in the code keeps two sessions from loading together: ExclusiveLoads
\* is a promise of the user.
AloneToLoad(s, position) ==
    ExclusiveLoads =>
        \A t \in Sessions \ {s} :
            /\ at[t] # "loading"
            /\ position = "loading" => at[t] = "dead"

\* The ledger is read when the runner is built.  With --prepare-parallel-restart
\* the checkpoint is then loaded with reconcile_parallel_restart.
Open(s) ==
    /\ at[s] = "dead"
    /\ \E position \in {"idle"} \cup (IF s \in Reconcilers THEN {"loading"} ELSE {}) :
           /\ AloneToLoad(s, position)
           /\ at' = [at EXCEPT ![s] = position]
    /\ records' = [records EXCEPT ![s] = ledger]
    /\ UNCHANGED <<ledger, lock, alive, strays, spawns, strayed, crashes>>

NativeExit ==
    /\ \/ \E i \in alive : alive' = alive \ {i} /\ UNCHANGED strays
       \/ \E i \in strays : strays' = strays \ {i} /\ UNCHANGED alive
    /\ UNCHANGED <<ledger, records, lock, at, spawns, strayed, crashes>>

Vanished(s, i) == records[s][i].pid /\ i \notin alive

Reconciled(row) ==
    IF row.status \in UncertainStatus
    THEN [row EXCEPT !.status = "reconciled"]
    ELSE row

\* CheckpointStore.load with reconcile_parallel_restart: every uncertain row
\* has a pid, and no process of it exists; the rows in memory are stored.
AllVanished(s) ==
    \A i \in DOMAIN records[s] :
        records[s][i].status \in UncertainStatus => Vanished(s, i)

Reconcile(s) ==
    /\ at[s] = "loading"
    /\ AllVanished(s)
    /\ at' = [at EXCEPT ![s] = "idle"]
    /\ records' = [records EXCEPT ![s] =
           [i \in DOMAIN records[s] |-> Reconciled(records[s][i])]]
    /\ Stored(s)
    /\ UNCHANGED <<lock, alive, strays, spawns, strayed, crashes>>

\* The load is refused, or cannot be stored: the session is over.
Refused(s) ==
    /\ at[s] = "loading"
    /\ at' = [at EXCEPT ![s] = "dead"]
    /\ records' = [records EXCEPT ![s] = <<>>]
    /\ UNCHANGED <<ledger, lock, alive, strays, spawns, strayed, crashes>>

Next ==
    \/ \E s \in Sessions : Run(s) \/ Crash(s) \/ Open(s) \/ Reconcile(s) \/ Refused(s)
    \/ NativeExit

Spec == Init /\ [][Next]_ledgerVars

(***************************************************************************)
(* Properties.                                                             *)
(***************************************************************************)
TypeOK ==
    /\ ledger \in Seq(Row)
    /\ records \in [Sessions -> Seq(Row)]
    /\ lock \in Sessions \cup {None}
    /\ at \in [Sessions -> Positions]
    /\ alive \subseteq Nat
    /\ strays \subseteq Nat
    /\ spawns \in Nat
    /\ strayed \in Nat
    /\ crashes \in 0 .. MaxCrashes

\* A native process that exists, strays aside, is on record as uncertain in the
\* durable ledger, whatever became of the session that started it: the only
\* thing the next session can go by (safe_runner.py, checkpoint.py).
OnRecord ==
    \A i \in alive :
        i \in DOMAIN ledger /\ ledger[i].status \in UncertainStatus

\* The ledger is a history: no row is ever dropped, so that the budget cannot
\* be won back, and a row once settled never becomes uncertain again.
LedgerIsHistory ==
    [][/\ Len(ledger') >= Len(ledger)
       /\ \A i \in DOMAIN ledger :
              ledger[i].status \in {"ended", "aborted", "reconciled"} =>
                  ledger'[i] = ledger[i]]_ledgerVars

Exclusive == INSTANCE ExclusiveRuns WITH runs <- spawns, live <- alive # {}

\* One native process at a time, strays aside, and never more than the budget,
\* across sessions, deaths, failed writes and kills that do not take effect.
ExclusiveRuns == Exclusive!Spec

\* Strays included, no more native processes are created than the budget of the
\* workspace allows (ProcessBudget.reserve).
BudgetKept == spawns + strayed <= Limit
=============================================================================
