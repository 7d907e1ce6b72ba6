--------------------------- MODULE SolverEvidence ---------------------------
(***************************************************************************)
(* What an approved solver run must show before it counts as done: the     *)
(* contract compiled from the plan and controlDict (runtime/completion.py),*)
(* the log evidence (tools/parsers.py), MPI ranks (runtime/parallel.py)    *)
(* and the result files, over the attempts of runtime/orchestrator.py.     *)
(***************************************************************************)
EXTENDS Integers, Sequences, FiniteSets

CONSTANTS
    Watched,       \* fields with a residual threshold
    MaxAttempts,   \* policy.max_attempts
    Samples,       \* consecutive_samples
    MinimumSteps,  \* minimum_steps of a declared completion
    MaxTime,       \* bound: solver times
    MaxChanges     \* bound: changes of the time a log reports

ASSUME AttemptsAssumption == MaxAttempts \in Nat \ {0}
ASSUME SamplesAssumption == Samples \in Nat \ {0}
ASSUME StepsAssumption == MinimumSteps \in Nat \ {0}

Times == 1 .. MaxTime
Names == {"exact", "rounded"}     \* directory names that stand for one time
NoTime == -1                        \* no time, or no end

VARIABLES
    contract,   \* runtime_contract, or <<>>
    stage,      \* where the run stands
    attempt,    \* attempts started
    disk,       \* the declared field in the time directories of the case
    ranks,      \* the same in processor*/, the ranks alike
    before,     \* before_outputs
    log,        \* RuntimeLogAccumulator
    steps,      \* history: the fields that were low at the end of each time of this attempt
    result      \* SimulationResult of the last attempt, or <<>>

svars == <<contract, stage, attempt, disk, ranks, before, log, steps, result>>

NoContract == <<>>
NoResult == <<>>

\* A field file is a record of the attempt that stamped it and of the one that
\* computed it (0: neither of this run).
NoFile == <<>>
NoFiles == [t \in Times |-> [n \in Names |-> NoFile]]

(***************************************************************************)
(* compile_runtime_contract.                                               *)
(***************************************************************************)
Requests == [explicit : BOOLEAN, mode : {"transient", "steady", "custom"}, end : {NoTime} \cup Times,
             thresholds : BOOLEAN, text : BOOLEAN, fields : BOOLEAN,
             restart : BOOLEAN, complete : BOOLEAN, fromStart : BOOLEAN, literalStart : 0 .. 1,
             literalEnd : {NoTime} \cup Times, parallel : BOOLEAN]

\* A restart starts at its own time.
StartOf(q) == IF q.restart THEN 1 ELSE IF q.explicit \/ ~q.complete THEN 0 ELSE q.literalStart

\* Only a controlDict that reads completely can contradict the plan.
Disagrees(q) ==
    /\ q.mode = "transient" /\ q.complete
    /\ \/ ~q.fromStart /\ (~q.restart \/ ~q.explicit)
       \/ q.explicit /\ q.literalStart # StartOf(q)
       \/ q.explicit /\ q.end # NoTime /\ q.literalEnd # NoTime /\ q.literalEnd # q.end

EndOf(q) == CASE q.mode # "transient" -> NoTime
              [] q.explicit           -> q.end
              [] OTHER                -> IF q.complete THEN q.literalEnd ELSE NoTime

\* An end has to lie after the start.
Bounded(q) == EndOf(q) = NoTime \/ EndOf(q) > StartOf(q)

\* Criteria inferred from defaults never are complete; declared ones are as
\* the mode asks.
CriteriaComplete(q) ==
    /\ q.explicit
    /\ q.mode = "steady" => q.thresholds
    /\ q.mode = "custom" => q.text

\* The fields of a result are declared by an explicit completion or not at all.
Compiled(q) == [timed |-> q.mode = "transient", start |-> StartOf(q), end |-> EndOf(q),
                minimum |-> IF q.explicit THEN MinimumSteps ELSE 1,
                watched |-> IF q.thresholds THEN Watched ELSE {},
                complete |-> CriteriaComplete(q),
                fields |-> q.explicit /\ q.fields, parallel |-> q.parallel]

\* Bound: a contract watches residuals or declares fields; neither verdict
\* reads what the other is about.
OneClaim(q) == ~(q.thresholds /\ q.fields)

Contracts == {Compiled(q) : q \in {r \in Requests : ~Disagrees(r) /\ Bounded(r) /\ OneClaim(r)}}

\* The integrity gate before the first attempt.
Compile ==
    /\ stage = "compile"
    /\ \E c \in Contracts : contract' = c
    /\ stage' = "ready"
    /\ UNCHANGED <<attempt, disk, ranks, before, log, steps, result>>

NotCompiled ==
    /\ stage = "compile"
    /\ \E q \in Requests : Disagrees(q) \/ ~Bounded(q)
    /\ stage' = "ENGINEERING_REVIEW_REQUIRED"
    /\ UNCHANGED <<contract, attempt, disk, ranks, before, log, steps, result>>

(***************************************************************************)
(* An attempt starts.                                                      *)
(***************************************************************************)
NewLog == [time |-> NoTime, progress |-> 0, reversed |-> FALSE, bad |-> FALSE, end |-> FALSE,
           sample |-> [f \in Watched |-> "none"], low |-> [f \in Watched |-> 0]]

\* The slip of taking the snapshot where the ranks are decomposed: once.
SnapshotOnce(files) == IF attempt = 0 THEN files ELSE before

\* snapshot_result_outputs: what each file was before this attempt.
Snapshot(files) == files

\* Left-over ranks, a decomposition that fails and inputs that changed since
\* prevent the start; the code preserves them all.
Launch ==
    /\ stage = "ready"
    /\ attempt' = attempt + 1
    /\ before' = IF contract.fields THEN Snapshot(disk) ELSE before
    /\ \/ stage' = "running"
       \/ contract.parallel /\ stage' = "ENGINEERING_BLOCKED"
    /\ log' = NewLog
    /\ steps' = <<>>
    /\ result' = NoResult
    /\ UNCHANGED <<contract, disk, ranks>>

(***************************************************************************)
(* The solver and RuntimeLogAccumulator.feed.  A solver solves for its     *)
(* fields within a time, and compression and format do not change between  *)
(* the attempts: no repair may change them.                                *)
(***************************************************************************)
\* The slip of a counter that survives a step without a good sample.
FlushKept(l) == [l EXCEPT !.low = [f \in Watched |-> IF l.sample[f] = "low" THEN @[f] + 1 ELSE @[f]],
                          !.sample = [f \in Watched |-> "none"]]

\* A time without a sample of a field breaks its row.
Flushed(l) ==
    IF l.time = NoTime THEN l
    ELSE [l EXCEPT !.low = [f \in Watched |-> IF l.sample[f] = "low" THEN @[f] + 1 ELSE 0],
                   !.sample = [f \in Watched |-> "none"]]

TimeLine ==
    /\ stage = "running" /\ Len(steps) < MaxChanges
    /\ \E t \in (0 .. MaxTime) \ {log.time} :
        LET last == IF log.time = NoTime THEN contract.start ELSE log.time
        IN  log' = [Flushed(log) EXCEPT !.time = t,
                                        !.reversed = @ \/ t < last,
                                        !.progress = IF t > last THEN @ + 1 ELSE @]
    /\ steps' = Append(steps, {})
    /\ UNCHANGED <<contract, stage, attempt, disk, ranks, before, result>>

ResidualLine ==
    /\ stage = "running" /\ log.time # NoTime
    /\ \E f \in contract.watched, low \in BOOLEAN :
        /\ log' = [log EXCEPT !.sample[f] = IF low THEN "low" ELSE "high"]
        /\ steps' = [steps EXCEPT ![Len(steps)] = IF low THEN @ \cup {f} ELSE @ \ {f}]
    /\ UNCHANGED <<contract, stage, attempt, disk, ranks, before, result>>

\* A fatal error, a value that is not finite, a malformed line.
BadLine ==
    /\ stage = "running"
    /\ log' = [log EXCEPT !.bad = TRUE]
    /\ UNCHANGED <<contract, stage, attempt, disk, ranks, before, steps, result>>

EndLine ==
    /\ stage = "running"
    /\ log' = [log EXCEPT !.end = TRUE]
    /\ UNCHANGED <<contract, stage, attempt, disk, ranks, before, steps, result>>

\* The solver writes its fields at the time it has reached: to the case, or
\* each rank to its own directory.
WriteFields ==
    /\ stage = "running" /\ contract.fields /\ log.time \in Times
    /\ \E n \in Names :
        LET file == [stamp |-> attempt, by |-> attempt]
        IN  IF contract.parallel
            THEN /\ ranks' = [ranks EXCEPT ![log.time][n] = file]
                 /\ UNCHANGED disk
            ELSE /\ disk' = [disk EXCEPT ![log.time][n] = file]
                 /\ UNCHANGED ranks
    /\ UNCHANGED <<contract, stage, attempt, before, log, steps, result>>

(***************************************************************************)
(* RuntimeLogAccumulator.finish.                                           *)
(***************************************************************************)
Reached(l) == contract.end # NoTime /\ l.time >= contract.end

ProcessSuccess(l, clean) == clean /\ l.end /\ ~l.bad /\ ~l.reversed

Completed(l, clean) ==
    /\ ProcessSuccess(l, clean)
    /\ l.progress > 0
    /\ l.progress >= contract.minimum
    /\ contract.timed => Reached(l)

\* numerical_quality_verified, whatever became of the process.
Quality(l) == contract.complete /\ \A f \in contract.watched : Flushed(l).low[f] >= Samples

(***************************************************************************)
(* reconstruct_parallel and verify_result_outputs for the last time.       *)
(***************************************************************************)
Directories(files, t) == {n \in Names : files[t][n] # NoFile}

\* Every rank has one output of the last time, and reconstructPar, when the plan
\* asks for it, writes it into the case.
Reconstructable(t) == Cardinality(Directories(ranks, t)) = 1

Reconstructed(t) ==
    [disk EXCEPT ![t] = [n \in Names |->
        IF n \in Directories(ranks, t) THEN [ranks[t][n] EXCEPT !.stamp = attempt] ELSE @[n]]]

\* One directory stands for the last time, and its field is not the file it was
\* before.  Whether it reads as a finite ASCII field is left to Exit.
Verified(files, t) ==
    /\ contract.fields
    /\ \E n \in Names :
        /\ Directories(files, t) = {n}
        /\ files[t][n] # before[t][n]

(***************************************************************************)
(* The process ends, and the run with it unless a repair starts another    *)
(* attempt.  An exit is clean when it is an ordinary one with status 0;    *)
(* captured says that the log on disk is the stream that was read, and     *)
(* readable that the field is finite text.                                 *)
(***************************************************************************)
\* Only failed processes are retried.
Outcomes(l, clean, success) ==
    CASE success                  -> {"EXECUTION_DONE"}
      [] ProcessSuccess(l, clean) -> {"RESULT_REVIEW_REQUIRED"}
      [] attempt >= MaxAttempts   -> {"ENGINEERING_BLOCKED"}
      [] OTHER                    -> {"ENGINEERING_BLOCKED", "ready"}

Exit ==
    /\ stage = "running"
    /\ \E clean, captured, reconstructs, readable \in BOOLEAN :
        LET ran      == Completed(log, clean) /\ captured
            rebuilt  == ran /\ contract.parallel /\ Reconstructable(log.time) /\ reconstructs
            files    == IF rebuilt THEN Reconstructed(log.time) ELSE disk
            success  == ran /\ (contract.parallel => rebuilt) /\ Verified(files, log.time) /\ readable
        IN  /\ disk' = files
            /\ result' = [success |-> success, quality |-> Quality(log)]
            /\ stage' \in Outcomes(log, clean, success)
    /\ UNCHANGED <<contract, attempt, ranks, before, log, steps>>

(***************************************************************************)
(* A case may hold results of earlier runs; ranks may not be left over.    *)
(***************************************************************************)
SolverInit ==
    /\ contract = NoContract
    /\ stage = "compile"
    /\ attempt = 0
    /\ \/ disk = NoFiles
       \/ \E t \in Times : disk = [NoFiles EXCEPT ![t]["exact"] = [stamp |-> 0, by |-> 0]]
    /\ ranks = NoFiles
    /\ before = NoFiles
    /\ log = NewLog
    /\ steps = <<>>
    /\ result = NoResult

SolverNext ==
    \/ Compile \/ NotCompiled \/ Launch
    \/ TimeLine \/ ResidualLine \/ BadLine \/ EndLine \/ WriteFields \/ Exit

SolverSpec == SolverInit /\ [][SolverNext]_svars

(***************************************************************************)
(* Properties.                                                             *)
(***************************************************************************)
\* A serial run that is done has the result its last attempt computed, at a time
\* not before the contract's end: not that of a failed attempt, of an earlier
\* run, or of an earlier time.
ResultIsOfThisAttempt ==
    stage = "EXECUTION_DONE" /\ ~contract.parallel =>
        \E t \in Times, n \in Names :
            /\ contract.timed => t >= contract.end
            /\ disk[t][n] # NoFile /\ disk[t][n].by = attempt
            /\ t = log.time

\* With declared criteria, numerical quality is claimed exactly when every
\* watched field was low at the end of each of the last times of the attempt.
Sustained ==
    /\ Len(steps) >= Samples
    /\ \A i \in Len(steps) - Samples + 1 .. Len(steps) : Watched \subseteq steps[i]

QualityIsSustained ==
    result # NoResult /\ contract.complete /\ contract.watched # {} =>
        (result.quality <=> Sustained)

\* snapshot_result_outputs (runtime/completion.py): "an old field is not new
\* execution evidence".
OldFieldIsNoEvidence ==
    stage = "EXECUTION_DONE" =>
        \E n \in Names : disk[log.time][n] # NoFile /\ disk[log.time][n].by = attempt
=============================================================================
