-------------------------- MODULE ExecutionProofs --------------------------
(***************************************************************************)
(* What the execution of an approved case is held to, by three machines    *)
(* that share no state.  The repairs of controlDict: whatever the values   *)
(* of the entries, the frozen entries and the number of foreign edits, an  *)
(* authorized controlDict is within the first approval, and a candidate is *)
(* authorized again over its own base.  The evidence: a serial solver run  *)
(* that is done shows the result of its last attempt, for every number of  *)
(* attempts, times and changes of time.  The native processes: they run    *)
(* one at a time, within the budget and on record, for every set of        *)
(* sessions, budget and number of deaths, under one assumption, that a     *)
(* load that reconciles has the workspace to itself.                       *)
(***************************************************************************)
EXTENDS ControlDictRepair, SolverEvidence, NativeLedger, TLAPS

(***************************************************************************)
(* The entries of controlDict.                                             *)
(***************************************************************************)
CInv == RepairsTypeOK /\ AuthorizedHolds

LEMMA DictsAreNotNothing == Nothing \notin Dicts
<1>1. DOMAIN Nothing = {}
  BY DEF Nothing
<1>2. \A c \in Dicts : "endTime" \in DOMAIN c
  BY DEF Dicts, Entries
<1> QED
  BY <1>1, <1>2

LEMMA DictValues ==
    ASSUME NEW c \in Dicts, NEW e \in Entries
    PROVE  c[e] \in Nat
BY MaxValueAssumption DEF Dicts

LEMMA Parts ==
    /\ Scalars \subseteq Mutable
    /\ Mutable \subseteq Entries
BY DEF Scalars, Mutable, Entries

\* A candidate over a known file is within the approval: what it changes is
\* bounded by the baseline, which is the approved file, and what it leaves alone
\* is approved or was authorized before.
LEMMA AuthorizedIsWithin ==
    ASSUME CInv, NEW proposed \in Dicts, Authorized(control, proposed)
    PROVE  Within(proposed) /\ Original(control) = approved
<1> USE DEF CInv
<1>1. control \in Dicts /\ approved \in Dicts
  BY DEF RepairsTypeOK
<1>2. CASE proposed = authorized /\ control = base
  <2>1. authorized # Nothing
    BY <1>2, DictsAreNotNothing
  <2> QED
    BY <1>2, <2>1, DictsAreNotNothing DEF AuthorizedHolds, Original
<1>3. CASE control \in {approved, authorized}
  <2>1. Within(control) /\ Original(control) = approved
    <3>1. CASE control = approved
      <4>1. Within(control)
        BY <3>1 DEF Within
      <4>2. Original(control) = approved
        BY <3>1 DEF Original, AuthorizedHolds
      <4> QED
        BY <4>1, <4>2
    <3>2. CASE control = authorized
      <4>1. authorized # Nothing
        BY <1>1, <3>2, DictsAreNotNothing
      <4> QED
        BY <3>2, <4>1 DEF Original, AuthorizedHolds
    <3> QED
      BY <1>3, <3>1, <3>2
  <2>2. ASSUME NEW e \in (Entries \ Mutable) \cup Frozen
        PROVE  proposed[e] = approved[e]
    <3>1. e \in Entries
      BY FrozenAssumption
    <3>2. e \notin Changed(control, proposed)
      BY DEF Authorized
    <3>3. proposed[e] = control[e]
      BY <3>1, <3>2 DEF Changed
    <3> QED
      BY <2>1, <3>3 DEF Within
  <2>3. ASSUME NEW e \in Scalars
        PROVE  \/ proposed[e] = approved[e]
               \/ proposed[e] # Missing /\ proposed[e] <= Bound(approved, e)
    <3>1. CASE e \in Changed(control, proposed)
      BY <2>1, <3>1 DEF Authorized, Reduces
    <3>2. CASE e \notin Changed(control, proposed)
      <4>1. proposed[e] = control[e]
        BY <3>2, Parts DEF Changed
      <4> QED
        BY <2>1, <4>1 DEF Within
    <3> QED
      BY <3>1, <3>2
  <2> QED
    BY <2>1, <2>2, <2>3 DEF Within
<1> QED
  BY <1>2, <1>3 DEF Authorized, Known

\* Recording a candidate keeps it authorized over its base: the baseline does
\* not change any more, and the base is known because the candidate is.
LEMMA RecordedStaysAuthorized ==
    ASSUME CInv, NEW proposed \in Dicts, Authorized(control, proposed), Record(proposed),
           UNCHANGED approved
    PROVE  Authorized(base, authorized)'
<1> USE DEF CInv
<1>1. authorized' = proposed /\ base' = control /\ baseline' = Original(control)
  BY DEF Record
<1>2. Original(control) \in Dicts /\ Original(control) # Nothing
  BY AuthorizedIsWithin, DictsAreNotNothing DEF RepairsTypeOK
<1>3. Original(base)' = Original(control)
  BY <1>1, <1>2 DEF Original
<1>4. Known(base, authorized)'
  BY <1>1 DEF Known
<1>5. Changed(base, authorized)' = Changed(control, proposed)
  BY <1>1 DEF Changed
<1>6. \A e \in Changed(control, proposed) \cap Scalars : Reduces(base, authorized, e)'
  BY <1>1, <1>3 DEF Authorized, Reduces, Bound, Either
<1>7. "adjustTimeStep" \in Changed(control, proposed) => Adaptive(base, authorized)'
  BY <1>1, <1>3 DEF Authorized, Adaptive, Bound, Either
<1> QED
  BY <1>4, <1>5, <1>6, <1>7 DEF Authorized

LEMMA RecordInv ==
    ASSUME CInv, NEW proposed \in Dicts, Authorized(control, proposed), Record(proposed),
           control' \in Dicts, UNCHANGED <<approved, edits>>
    PROVE  CInv' /\ Within(authorized')
<1> USE DEF CInv
<1>1. /\ authorized' = proposed /\ base' = control /\ baseline' = approved
      /\ Within(proposed)
  BY AuthorizedIsWithin DEF Record
<1>2. RepairsTypeOK'
  BY <1>1 DEF RepairsTypeOK
<1>3. authorized' # Nothing /\ base' # Nothing /\ baseline' # Nothing
  BY <1>1, DictsAreNotNothing DEF RepairsTypeOK
<1>4. Within(authorized)'
  BY <1>1 DEF Within, Bound, Either
<1>5. AuthorizedHolds'
  BY <1>1, <1>3, <1>4, RecordedStaysAuthorized DEF AuthorizedHolds
<1> QED
  BY <1>1, <1>2, <1>5

\* Foreign edits and stuttering touch nothing the approval knows.
LEMMA EditInv ==
    ASSUME CInv, control' \in Dicts, edits' \in 0 .. MaxEdits,
           UNCHANGED <<approved, authorized, base, baseline>>
    PROVE  CInv'
BY DEF CInv, RepairsTypeOK, AuthorizedHolds, Within, Authorized, Known, Changed, Reduces, Adaptive,
       Bound, Either, Original

LEMMA NextInv ==
    ASSUME CInv, [RepairsNext]_rvars
    PROVE  CInv' /\ (authorized' # authorized => Within(authorized'))
<1>1. CASE Repair
  <2>1. PICK proposed \in Dicts \ {control} :
          Authorized(control, proposed) /\ Record(proposed) /\ control' = proposed
    BY <1>1 DEF Repair
  <2> QED
    BY <1>1, <2>1, RecordInv DEF Repair
<1>2. CASE RepairRefused
  <2>1. PICK proposed \in Dicts \ {control} : Authorized(control, proposed) /\ Record(proposed)
    BY <1>2 DEF RepairRefused
  <2>2. control' \in Dicts
    BY <1>2 DEF RepairRefused, CInv, RepairsTypeOK
  <2> QED
    BY <1>2, <2>1, <2>2, RecordInv DEF RepairRefused
<1>3. CASE ForeignEdit
  <2>1. control' \in Dicts /\ edits' \in 0 .. MaxEdits
    BY <1>3, MaxEditsAssumption DEF ForeignEdit, CInv, RepairsTypeOK
  <2> QED
    BY <1>3, <2>1, EditInv DEF ForeignEdit
<1>4. CASE UNCHANGED rvars
  <2>1. control' \in Dicts /\ edits' \in 0 .. MaxEdits
    BY <1>4 DEF rvars, CInv, RepairsTypeOK
  <2> QED
    BY <1>4, <2>1, EditInv DEF rvars
<1> QED
  BY <1>1, <1>2, <1>3, <1>4 DEF RepairsNext

LEMMA RepairsInvariance == RepairsSpec => []CInv
<1>1. RepairsInit => CInv
  BY MaxEditsAssumption, DictsAreNotNothing DEF RepairsInit, CInv, RepairsTypeOK, AuthorizedHolds
<1>2. CInv /\ [RepairsNext]_rvars => CInv'
  BY NextInv
<1> QED
  BY <1>1, <1>2, PTL DEF RepairsSpec

\* No sequence of candidates, committed or refused, with foreign edits between
\* them, authorizes a controlDict outside the first approval
\* (contracts/execution.py, check_repair_delta).
THEOREM RepairsWithinApprovalCorrect == RepairsSpec => RepairsStayWithinApproval
<1>1. CInv /\ [RepairsNext]_rvars => [authorized' # authorized => Within(authorized')]_rvars
  BY NextInv
<1> QED
  BY <1>1, RepairsInvariance, PTL DEF RepairsSpec, RepairsStayWithinApproval

\* A candidate that was authorized is authorized again as long as the file is the
\* one it was made for (contracts/execution.py, "Rechecking the same uncommitted
\* candidate is deliberately idempotent").
THEOREM RecheckCorrect == RepairsSpec => []RecheckIsIdempotent
<1>1. CInv => RecheckIsIdempotent
  BY DEF CInv, AuthorizedHolds, RecheckIsIdempotent
<1> QED
  BY <1>1, RepairsInvariance, PTL

(***************************************************************************)
(* The evidence of a solver run.                                           *)
(***************************************************************************)
AnyFile == [stamp : 0 .. MaxAttempts, by : 0 .. MaxAttempts] \cup {NoFile}
Files == [Times -> [Names -> AnyFile]]

ThisFile == [stamp |-> attempt, by |-> attempt]

\* The case and the ranks hold field files.
FilesTyped == disk \in Files /\ ranks \in Files /\ attempt \in 0 .. MaxAttempts

\* Attempts are started only while there are some left.
AttemptsLeft == stage \in {"compile", "ready"} => attempt < MaxAttempts

Logs == [time : Int, progress : Nat, reversed : BOOLEAN, bad : BOOLEAN, end : BOOLEAN,
         sample : [Watched -> {"none", "low", "high"}], low : [Watched -> Nat]]

\* A log that has made progress and was not reversed is at a time of the run.
LogSound ==
    /\ log \in Logs
    /\ log.time = NoTime => log.progress = 0
    /\ log.time # NoTime => log.time \in 0 .. MaxTime
    /\ log.progress > 0 /\ ~log.reversed => log.time \in Times
    /\ stage \in {"ready", "running"} => contract.start \in Nat

\* While a serial attempt runs, a field is what it was before or its own.
OldOrOwn ==
    stage = "running" /\ contract.fields /\ ~contract.parallel =>
        \A t \in Times, n \in Names : disk[t][n] = before[t][n] \/ disk[t][n] = ThisFile

SolverInv == FilesTyped /\ AttemptsLeft /\ LogSound /\ OldOrOwn /\ ResultIsOfThisAttempt

(***************************************************************************)
(* The files.                                                              *)
(***************************************************************************)
LEMMA NewLogIsSound == NewLog \in Logs /\ NewLog.time = NoTime /\ NewLog.progress = 0
BY DEF NewLog, NoTime, Logs

\* What flushing sets in a log, and what it leaves.
LEMMA FlushUpdate ==
    ASSUME NEW l \in Logs, NEW low \in [Watched -> Nat],
           NEW none \in [Watched -> {"none", "low", "high"}]
    PROVE  /\ [l EXCEPT !.low = low, !.sample = none] \in Logs
           /\ [l EXCEPT !.low = low, !.sample = none].progress = l.progress
BY DEF Logs

\* Flushing a step does not change the progress.
LEMMA FlushedIsLog ==
    ASSUME log \in Logs
    PROVE  /\ Flushed(log) \in Logs
           /\ Flushed(log).progress = log.progress
<1> DEFINE low == [f \in Watched |-> IF log.sample[f] = "low" THEN log.low[f] + 1 ELSE 0]
           none == [f \in Watched |-> "none"]
<1>1. low \in [Watched -> Nat]
  <2>1. log.low \in [Watched -> Nat]
    BY DEF Logs
  <2> QED
    BY <2>1
<1>2. none \in [Watched -> {"none", "low", "high"}]
  OBVIOUS
<1>3. Flushed(log) = IF log.time = NoTime THEN log
                     ELSE [log EXCEPT !.low = low, !.sample = none]
  BY DEF Flushed
<1> HIDE DEF low, none
<1>4. /\ [log EXCEPT !.low = low, !.sample = none] \in Logs
      /\ [log EXCEPT !.low = low, !.sample = none].progress = log.progress
  BY <1>1, <1>2, FlushUpdate
<1>5. CASE log.time = NoTime
  BY <1>3, <1>5
<1>6. CASE log.time # NoTime
  BY <1>3, <1>4, <1>6
<1> QED
  BY <1>5, <1>6

LEMMA NoFilesAreFiles == NoFiles \in Files
BY DEF NoFiles, Files, AnyFile

\* Writing one file keeps the directories field files.
LEMMA WrittenIsFiles ==
    ASSUME NEW files \in Files, NEW t \in Times, NEW n \in Names, NEW file \in AnyFile
    PROVE  /\ [files EXCEPT ![t][n] = file] \in Files
           /\ \A u \in Times, m \in Names :
                [files EXCEPT ![t][n] = file][u][m] = IF u = t /\ m = n THEN file ELSE files[u][m]
<1>1. files[t] \in [Names -> AnyFile]
  BY DEF Files
<1>2. [files[t] EXCEPT ![n] = file] \in [Names -> AnyFile]
  BY <1>1
<1>3. [files EXCEPT ![t][n] = file] = [files EXCEPT ![t] = [files[t] EXCEPT ![n] = file]]
  BY DEF Files
<1> QED
  BY <1>1, <1>2, <1>3 DEF Files

\* So does reconstruction, which only gives rank files a new stamp.
LEMMA ReconstructedIsFiles ==
    ASSUME FilesTyped, NEW t \in Times
    PROVE  Reconstructed(t) \in Files
<1> DEFINE rebuilt == [n \in Names |-> IF n \in Directories(ranks, t)
                                       THEN [ranks[t][n] EXCEPT !.stamp = attempt]
                                       ELSE disk[t][n]]
<1>1. disk \in Files /\ ranks \in Files /\ attempt \in 0 .. MaxAttempts
  BY DEF FilesTyped
<1>2. disk[t] \in [Names -> AnyFile] /\ ranks[t] \in [Names -> AnyFile]
  BY <1>1 DEF Files
<1>3. ASSUME NEW n \in Names PROVE rebuilt[n] \in AnyFile
  <2>1. CASE n \in Directories(ranks, t)
    <3>1. ranks[t][n] \in [stamp : 0 .. MaxAttempts, by : 0 .. MaxAttempts]
      BY <1>2, <2>1 DEF AnyFile, Directories
    <3>2. [ranks[t][n] EXCEPT !.stamp = attempt] \in [stamp : 0 .. MaxAttempts, by : 0 .. MaxAttempts]
      BY <1>1, <3>1
    <3> QED
      BY <2>1, <3>2 DEF AnyFile
  <2>2. CASE n \notin Directories(ranks, t)
    BY <1>2, <2>2
  <2> QED
    BY <2>1, <2>2
<1>4. rebuilt \in [Names -> AnyFile]
  BY <1>3
<1>5. Reconstructed(t) = [disk EXCEPT ![t] = rebuilt]
  BY DEF Reconstructed
<1> HIDE DEF rebuilt
<1> QED
  BY <1>1, <1>4, <1>5 DEF Files

(***************************************************************************)
(* The invariant holds initially ...                                       *)
(***************************************************************************)
LEMMA SolverInitInv ==
    ASSUME SolverInit
    PROVE  SolverInv
<1>1. disk \in Files
  <2>1. CASE disk = NoFiles
    BY <2>1, NoFilesAreFiles
  <2>2. ASSUME NEW t \in Times, disk = [NoFiles EXCEPT ![t]["exact"] = [stamp |-> 0, by |-> 0]]
        PROVE  disk \in Files
    <3>1. [stamp |-> 0, by |-> 0] \in AnyFile
      BY AttemptsAssumption DEF AnyFile
    <3>2. "exact" \in Names
      BY DEF Names
    <3> QED
      BY <2>2, <3>1, <3>2, NoFilesAreFiles, WrittenIsFiles
  <2> QED
    BY <2>1, <2>2 DEF SolverInit
<1>2. ranks \in Files /\ attempt \in 0 .. MaxAttempts /\ AttemptsLeft
  BY NoFilesAreFiles, AttemptsAssumption DEF SolverInit, AttemptsLeft
<1>3. LogSound
  BY NewLogIsSound DEF SolverInit, LogSound
<1>4. OldOrOwn /\ ResultIsOfThisAttempt
  BY DEF SolverInit, OldOrOwn, ResultIsOfThisAttempt
<1> QED
  BY <1>1, <1>2, <1>3, <1>4 DEF SolverInv, FilesTyped

(***************************************************************************)
(* ... and every step keeps it.                                            *)
(***************************************************************************)
\* A contract starts at a time that is not negative.
LEMMA CompiledStart == \A c \in Contracts : c.start \in Nat
<1>1. \A q \in Requests : StartOf(q) \in Nat
  BY DEF StartOf, Requests
<1> QED
  BY <1>1 DEF Contracts, Compiled

LEMMA CompileKeeps == ASSUME SolverInv, Compile PROVE SolverInv'
<1>1. FilesTyped' /\ AttemptsLeft'
  BY DEF SolverInv, Compile, FilesTyped, AttemptsLeft
<1>2. contract'.start \in Nat
  BY CompiledStart DEF Compile
<1>3. LogSound'
  BY <1>2 DEF SolverInv, Compile, LogSound
<1> QED
  BY <1>1, <1>3 DEF SolverInv, Compile, OldOrOwn, ResultIsOfThisAttempt

LEMMA NotCompiledKeeps == ASSUME SolverInv, NotCompiled PROVE SolverInv'
BY DEF SolverInv, NotCompiled, FilesTyped, AttemptsLeft, LogSound, OldOrOwn, ResultIsOfThisAttempt

\* The snapshot is taken where the attempt starts, so that every field is old.
LEMMA LaunchKeeps == ASSUME SolverInv, Launch PROVE SolverInv'
<1>1. attempt' \in 0 .. MaxAttempts /\ stage' \in {"running", "ENGINEERING_BLOCKED"}
  BY AttemptsAssumption DEF SolverInv, FilesTyped, AttemptsLeft, Launch
<1>2. FilesTyped' /\ AttemptsLeft'
  BY <1>1 DEF SolverInv, Launch, FilesTyped, AttemptsLeft
<1>3. LogSound'
  BY <1>1, NewLogIsSound DEF SolverInv, Launch, LogSound
<1>4. OldOrOwn'
  BY DEF Launch, OldOrOwn, Snapshot
<1> QED
  BY <1>1, <1>2, <1>3, <1>4 DEF SolverInv, ResultIsOfThisAttempt

\* A time that is later than the last one is a time of the run, and an earlier
\* one is a reversal.
LEMMA TimeLineKeeps == ASSUME SolverInv, TimeLine PROVE SolverInv'
<1> DEFINE last == IF log.time = NoTime THEN contract.start ELSE log.time
<1>1. PICK t \in (0 .. MaxTime) \ {log.time} :
        log' = [Flushed(log) EXCEPT !.time = t, !.reversed = @ \/ t < last,
                                    !.progress = IF t > last THEN @ + 1 ELSE @]
  BY DEF TimeLine
<1> HIDE DEF last
<1>2. log \in Logs /\ Flushed(log) \in Logs
  BY FlushedIsLog DEF SolverInv, LogSound
<1>3. last \in Nat
  BY DEF SolverInv, LogSound, TimeLine, last
<1> DEFINE reversed == Flushed(log).reversed \/ t < last
           progress == IF t > last THEN log.progress + 1 ELSE log.progress
<1>a. reversed \in BOOLEAN /\ progress \in Nat
  BY <1>2 DEF Logs
<1>b. log' = [Flushed(log) EXCEPT !.time = t, !.reversed = reversed, !.progress = progress]
  BY <1>1, FlushedIsLog, <1>2 DEF last
<1> HIDE DEF reversed, progress
<1>d. t \in Int
  BY <1>1
<1>c. log' \in Logs /\ log'.time = t /\ log'.reversed = reversed /\ log'.progress = progress
  BY <1>2, <1>a, <1>b, <1>d DEF Logs
<1>4. /\ log' \in Logs /\ log'.time = t
      /\ ~log'.reversed => ~(t < last)
      /\ log'.progress = IF t > last THEN log.progress + 1 ELSE log.progress
  BY <1>c DEF reversed, progress
<1>5. t \in 0 .. MaxTime /\ t # NoTime
  BY <1>1 DEF NoTime
<1>6. ASSUME log'.progress > 0, ~log'.reversed PROVE t \in Times
  <2>1. CASE t > last
    BY <1>3, <1>5, <2>1 DEF Times
  <2>2. CASE t = last
    <3>1. log.time = NoTime
      BY <1>1, <2>2 DEF last
    <3>2. log.progress = 0
      BY <3>1 DEF SolverInv, LogSound
    <3> QED
      BY <1>4, <1>6, <2>2, <3>2, <1>3
  <2> QED
    BY <1>3, <1>4, <1>5, <1>6, <2>1, <2>2 DEF Times
<1>7. LogSound'
  BY <1>4, <1>5, <1>6 DEF LogSound, TimeLine, SolverInv
<1> QED
  BY <1>7 DEF SolverInv, TimeLine, FilesTyped, AttemptsLeft, OldOrOwn, ThisFile, ResultIsOfThisAttempt

LEMMA ResidualLineKeeps == ASSUME SolverInv, ResidualLine PROVE SolverInv'
<1>1. PICK f \in contract.watched, low \in BOOLEAN :
        log' = [log EXCEPT !.sample[f] = IF low THEN "low" ELSE "high"]
  BY DEF ResidualLine
<1>2. log' \in Logs /\ log'.time = log.time /\ log'.progress = log.progress
                    /\ log'.reversed = log.reversed
  BY <1>1 DEF SolverInv, LogSound, Logs
<1>3. LogSound'
  BY <1>2 DEF LogSound, ResidualLine, SolverInv
<1> QED
  BY <1>3 DEF SolverInv, ResidualLine, FilesTyped, AttemptsLeft, OldOrOwn, ThisFile, ResultIsOfThisAttempt

LEMMA FlagLineKeeps == ASSUME SolverInv, BadLine \/ EndLine PROVE SolverInv'
<1>1. log' \in Logs /\ log'.time = log.time /\ log'.progress = log.progress
                    /\ log'.reversed = log.reversed
  BY DEF SolverInv, LogSound, Logs, BadLine, EndLine
<1>2. LogSound'
  BY <1>1 DEF LogSound, BadLine, EndLine, SolverInv
<1> QED
  BY <1>2 DEF SolverInv, BadLine, EndLine, FilesTyped, AttemptsLeft, OldOrOwn, ThisFile, ResultIsOfThisAttempt

\* A serial solver writes its own file, a rank none of the case's.
LEMMA WriteFieldsKeeps == ASSUME SolverInv, WriteFields PROVE SolverInv'
<1>1. ThisFile \in AnyFile /\ log.time \in Times
  BY DEF SolverInv, FilesTyped, ThisFile, AnyFile, WriteFields
<1>2. PICK n \in Names :
        IF contract.parallel THEN ranks' = [ranks EXCEPT ![log.time][n] = ThisFile] /\ disk' = disk
                             ELSE disk' = [disk EXCEPT ![log.time][n] = ThisFile] /\ ranks' = ranks
  BY DEF WriteFields, ThisFile
<1>3. FilesTyped'
  BY <1>1, <1>2, WrittenIsFiles DEF SolverInv, FilesTyped, WriteFields
<1>4. OldOrOwn'
  <2> SUFFICES ASSUME ~contract.parallel
               PROVE  OldOrOwn'
    BY DEF OldOrOwn, WriteFields
  <2>1. disk' = [disk EXCEPT ![log.time][n] = ThisFile]
    BY <1>2
  <2>2. \A u \in Times, m \in Names :
          disk'[u][m] = IF u = log.time /\ m = n THEN ThisFile ELSE disk[u][m]
    BY <1>1, <2>1, WrittenIsFiles DEF SolverInv, FilesTyped
  <2> QED
    BY <2>2 DEF SolverInv, OldOrOwn, WriteFields, ThisFile
<1> QED
  BY <1>3, <1>4 DEF SolverInv, WriteFields, AttemptsLeft, LogSound, ResultIsOfThisAttempt

\* A run that completes was read to the end of a log that did not go back, and
\* what its verification accepts is not what was there before.
LEMMA ExitKeeps == ASSUME SolverInv, Exit PROVE SolverInv'
<1>1. PICK clean \in BOOLEAN, captured \in BOOLEAN, reconstructs \in BOOLEAN, readable \in BOOLEAN :
        LET ran     == Completed(log, clean) /\ captured
            rebuilt == ran /\ contract.parallel /\ Reconstructable(log.time) /\ reconstructs
            files   == IF rebuilt THEN Reconstructed(log.time) ELSE disk
            success == ran /\ (contract.parallel => rebuilt) /\ Verified(files, log.time) /\ readable
        IN  /\ disk' = files
            /\ stage' \in Outcomes(log, clean, success)
  BY DEF Exit
<1> DEFINE ran     == Completed(log, clean) /\ captured
           rebuilt == ran /\ contract.parallel /\ Reconstructable(log.time) /\ reconstructs
           files   == IF rebuilt THEN Reconstructed(log.time) ELSE disk
           success == ran /\ (contract.parallel => rebuilt) /\ Verified(files, log.time) /\ readable
<1>2. disk' = files /\ stage' \in Outcomes(log, clean, success)
  BY <1>1
<1>3. stage' \in {"EXECUTION_DONE", "RESULT_REVIEW_REQUIRED", "ENGINEERING_BLOCKED", "ready"}
  BY <1>2 DEF Outcomes
<1>4. stage' = "EXECUTION_DONE" => success
  BY <1>2 DEF Outcomes
<1>5. stage' = "ready" => attempt < MaxAttempts
  BY <1>2, AttemptsAssumption DEF Outcomes, SolverInv, FilesTyped
<1>6. ran => log.time \in Times
  BY DEF Completed, ProcessSuccess, SolverInv, LogSound
<1>7. files \in Files
  BY <1>6, ReconstructedIsFiles DEF SolverInv, FilesTyped
<1>8. FilesTyped' /\ AttemptsLeft'
  BY <1>2, <1>3, <1>5, <1>7 DEF Exit, SolverInv, FilesTyped, AttemptsLeft
<1>9. ResultIsOfThisAttempt'
  <2> SUFFICES ASSUME stage' = "EXECUTION_DONE", ~contract.parallel
               PROVE  \E t \in Times, n \in Names :
                        /\ contract.timed => t >= contract.end
                        /\ disk[t][n] # NoFile /\ disk[t][n].by = attempt
                        /\ t = log.time
    BY <1>2, <1>4 DEF ResultIsOfThisAttempt, Exit
  <2>1. success /\ ~rebuilt
    BY <1>4
  <2>2. ran /\ Verified(disk, log.time)
    BY <2>1
  <2>3. PICK n \in Names : /\ Directories(disk, log.time) = {n}
                           /\ disk[log.time][n] # before[log.time][n]
    BY <2>2 DEF Verified
  <2>4. contract.fields /\ stage = "running"
    BY <2>2 DEF Verified, Exit
  <2>5. disk[log.time][n] = ThisFile
    BY <1>6, <2>2, <2>3, <2>4 DEF SolverInv, OldOrOwn
  <2>6. disk[log.time][n] # NoFile
    BY <2>3 DEF Directories
  <2>7. contract.timed => log.time >= contract.end
    BY <2>2 DEF Completed, Reached
  <2> QED
    BY <1>2, <1>6, <2>1, <2>2, <2>5, <2>6, <2>7 DEF ThisFile, Exit
<1> QED
  BY <1>3, <1>8, <1>9 DEF SolverInv, Exit, LogSound, OldOrOwn

LEMMA SolverStep == ASSUME SolverInv, [SolverNext]_svars PROVE SolverInv'
<1>1. CASE UNCHANGED svars
  BY <1>1 DEF svars, SolverInv, FilesTyped, AttemptsLeft, LogSound, OldOrOwn, ThisFile, ResultIsOfThisAttempt
<1> QED
  BY <1>1, CompileKeeps, NotCompiledKeeps, LaunchKeeps, TimeLineKeeps, ResidualLineKeeps,
     FlagLineKeeps, WriteFieldsKeeps, ExitKeeps DEF SolverNext

(***************************************************************************)
(* Whatever the number of attempts, of times and of changes of time: a     *)
(* serial run that is done has, at a time not before the end its contract  *)
(* asks for, the field that its last attempt computed.                     *)
(***************************************************************************)
THEOREM ResultIsOfThisAttemptCorrect == SolverSpec => []ResultIsOfThisAttempt
<1>1. SolverInit => SolverInv
  BY SolverInitInv
<1>2. SolverInv /\ [SolverNext]_svars => SolverInv'
  BY SolverStep
<1>3. SolverInv => ResultIsOfThisAttempt
  BY DEF SolverInv
<1> QED
  BY <1>1, <1>2, <1>3, PTL DEF SolverSpec

(***************************************************************************)
(* Numerical quality.  The counter of a field is the length of its row of  *)
(* low times up to the last one that was flushed.                          *)
(***************************************************************************)
\* f was low at each of the last k of the first n times.
LowSince(f, k, n) == k = 0 \/ (k <= n /\ \A i \in n - k + 1 .. n : f \in steps[i])

Counts(f, count, n) == \A k \in Nat : count >= k <=> LowSince(f, k, n)

RowSound ==
    /\ log \in Logs
    /\ steps \in Seq(SUBSET Watched)
    /\ log.time = NoTime <=> Len(steps) = 0
    /\ \A f \in Watched :
        /\ log.sample[f] = "low" <=> Len(steps) > 0 /\ f \in steps[Len(steps)]
        /\ Counts(f, log.low[f], IF Len(steps) = 0 THEN 0 ELSE Len(steps) - 1)

WatchedSound == stage \in {"ready", "running"} => contract.watched \in {{}, Watched}

NoResultYet == stage \in {"compile", "running"} => result = NoResult

QualityInv == RowSound /\ WatchedSound /\ NoResultYet /\ QualityIsSustained

\* Flushing extends the row of a field by the last time, or ends it.
LEMMA FlushedCounts ==
    ASSUME RowSound, NEW f \in Watched
    PROVE  Flushed(log).low[f] \in Nat /\ Counts(f, Flushed(log).low[f], Len(steps))
<1>1. Len(steps) \in Nat /\ log.low[f] \in Nat
  BY DEF RowSound, Logs
<1>2. CASE Len(steps) = 0
  BY <1>1, <1>2 DEF RowSound, Flushed
<1>3. CASE Len(steps) > 0
  <2>1. Flushed(log).low[f] = IF log.sample[f] = "low" THEN log.low[f] + 1 ELSE 0
    BY <1>3 DEF RowSound, Flushed, Logs
  <2>2. CASE f \in steps[Len(steps)]
    <3>1. Flushed(log).low[f] = log.low[f] + 1
      BY <1>3, <2>1, <2>2 DEF RowSound
    <3>2. ASSUME NEW k \in Nat PROVE log.low[f] + 1 >= k <=> LowSince(f, k, Len(steps))
      <4>1. CASE k = 0
        BY <1>1, <4>1 DEF LowSince
      <4>2. CASE k > 0
        <5>1. log.low[f] >= k - 1 <=> LowSince(f, k - 1, Len(steps) - 1)
          BY <1>3, <4>2 DEF RowSound, Counts
        <5>2. LowSince(f, k, Len(steps)) <=> LowSince(f, k - 1, Len(steps) - 1)
          BY <1>1, <1>3, <2>2, <4>2 DEF LowSince
        <5> QED
          BY <1>1, <4>2, <5>1, <5>2
      <4> QED
        BY <4>1, <4>2
    <3> QED
      BY <1>1, <3>1, <3>2 DEF Counts
  <2>3. CASE f \notin steps[Len(steps)]
    <3>1. Flushed(log).low[f] = 0
      BY <1>3, <2>1, <2>3 DEF RowSound
    <3>2. ASSUME NEW k \in Nat PROVE 0 >= k <=> LowSince(f, k, Len(steps))
      BY <1>1, <1>3, <2>3 DEF LowSince
    <3> QED
      BY <3>1, <3>2 DEF Counts
  <2> QED
    BY <2>2, <2>3
<1> QED
  BY <1>1, <1>2, <1>3

\* A contract watches all the thresholds it has, or none.
LEMMA CompiledWatched == \A c \in Contracts : c.watched \in {{}, Watched}
BY DEF Contracts, Compiled

LEMMA QualityInitInv == ASSUME SolverInit PROVE QualityInv
<1>1. steps = <<>> /\ log = NewLog /\ result = NoResult /\ stage = "compile"
  BY DEF SolverInit
<1>2. RowSound
  <2>1. \A f \in Watched : log.sample[f] = "none" /\ log.low[f] = 0
    BY <1>1 DEF NewLog
  <2>2. \A f \in Watched : Counts(f, 0, 0)
    BY DEF Counts, LowSince
  <2> QED
    BY <1>1, <2>1, <2>2, NewLogIsSound DEF RowSound
<1> QED
  BY <1>1, <1>2 DEF QualityInv, WatchedSound, NoResultYet, QualityIsSustained

LEMMA QualityLaunch == ASSUME QualityInv, Launch PROVE QualityInv'
<1>1. steps' = <<>> /\ log' = NewLog /\ result' = NoResult /\ contract' = contract
  BY DEF Launch
<1>2. RowSound'
  <2>1. \A f \in Watched : log'.sample[f] = "none" /\ log'.low[f] = 0
    BY <1>1 DEF NewLog
  <2>2. \A f \in Watched : Counts(f, 0, 0)'
    BY DEF Counts, LowSince
  <2> QED
    BY <1>1, <2>1, <2>2, NewLogIsSound DEF RowSound
<1> QED
  BY <1>1, <1>2 DEF QualityInv, WatchedSound, NoResultYet, QualityIsSustained, Launch

\* A new time flushes the last one and starts without a low field.
LEMMA QualityTimeLine == ASSUME QualityInv, TimeLine PROVE QualityInv'
<1> DEFINE last == IF log.time = NoTime THEN contract.start ELSE log.time
<1>1. PICK t \in (0 .. MaxTime) \ {log.time} :
        log' = [Flushed(log) EXCEPT !.time = t, !.reversed = @ \/ t < last,
                                    !.progress = IF t > last THEN @ + 1 ELSE @]
  BY DEF TimeLine
<1>2. log \in Logs /\ Flushed(log) \in Logs /\ steps \in Seq(SUBSET Watched) /\ Len(steps) \in Nat
  BY FlushedIsLog DEF QualityInv, RowSound
<1> DEFINE reversed == Flushed(log).reversed \/ t < last
           progress == IF t > last THEN Flushed(log).progress + 1 ELSE Flushed(log).progress
<1>3. reversed \in BOOLEAN /\ progress \in Nat /\ t \in Int
  BY <1>1, <1>2 DEF Logs
<1>4. log' = [Flushed(log) EXCEPT !.time = t, !.reversed = reversed, !.progress = progress]
  BY <1>1, <1>2
<1> HIDE DEF reversed, progress, last
<1>5. log' \in Logs /\ log'.time = t /\ log'.sample = Flushed(log).sample /\ log'.low = Flushed(log).low
  BY <1>2, <1>3, <1>4 DEF Logs
<1>6. steps' = Append(steps, {})
  BY DEF TimeLine
<1>7. /\ steps' \in Seq(SUBSET Watched) /\ Len(steps') = Len(steps) + 1
      /\ steps'[Len(steps) + 1] = {}
      /\ \A i \in 1 .. Len(steps) : steps'[i] = steps[i]
  BY <1>2, <1>6
<1>8. ASSUME NEW f \in Watched PROVE log'.sample[f] # "low"
  <2>1. CASE log.time = NoTime
    <3>1. Flushed(log).sample[f] = log.sample[f]
      BY <2>1 DEF Flushed
    <3> QED
      BY <1>2, <1>5, <2>1, <3>1 DEF QualityInv, RowSound
  <2>2. CASE log.time # NoTime
    <3>1. Flushed(log).sample[f] = "none"
      BY <1>2, <2>2 DEF Flushed, Logs
    <3> QED
      BY <1>5, <3>1
  <2> QED
    BY <2>1, <2>2
<1>9. ASSUME NEW f \in Watched, NEW k \in Nat
      PROVE  log'.low[f] >= k <=>
               k = 0 \/ (k <= Len(steps) /\ \A i \in Len(steps) - k + 1 .. Len(steps) : f \in steps'[i])
  <2>1. Flushed(log).low[f] >= k <=> LowSince(f, k, Len(steps))
    BY FlushedCounts DEF QualityInv, Counts
  <2>2. k <= Len(steps) =>
          ((\A i \in Len(steps) - k + 1 .. Len(steps) : f \in steps'[i])
             <=> (\A i \in Len(steps) - k + 1 .. Len(steps) : f \in steps[i]))
    BY <1>2, <1>7
  <2> QED
    BY <1>5, <2>1, <2>2 DEF LowSince
<1>10. RowSound'
  <2>1. log'.time # NoTime /\ Len(steps') # 0 /\ Len(steps') > 0 /\ Len(steps') - 1 = Len(steps)
    BY <1>1, <1>2, <1>5, <1>7 DEF NoTime
  <2>2. \A f \in Watched : log'.sample[f] = "low" <=> Len(steps') > 0 /\ f \in steps'[Len(steps')]
    BY <1>2, <1>7, <1>8
  <2>3. \A f \in Watched : Counts(f, log.low[f], IF Len(steps) = 0 THEN 0 ELSE Len(steps) - 1)'
    BY <1>9, <2>1 DEF Counts, LowSince
  <2> QED
    BY <1>5, <1>7, <2>1, <2>2, <2>3 DEF RowSound
<1> QED
  BY <1>10 DEF QualityInv, WatchedSound, NoResultYet, QualityIsSustained, TimeLine

LEMMA LastReplaced ==
    ASSUME NEW S, NEW s \in Seq(S), NEW i \in 1 .. Len(s), NEW e \in S
    PROVE  /\ [s EXCEPT ![i] = e] \in Seq(S) /\ Len([s EXCEPT ![i] = e]) = Len(s)
           /\ [s EXCEPT ![i] = e][i] = e
           /\ \A j \in 1 .. i - 1 : [s EXCEPT ![i] = e][j] = s[j]
OBVIOUS

\* A sample decides whether its field is low at the last time.
LEMMA QualityResidualLine == ASSUME QualityInv, ResidualLine PROVE QualityInv'
<1>1. PICK f \in contract.watched, low \in BOOLEAN :
        /\ log' = [log EXCEPT !.sample[f] = IF low THEN "low" ELSE "high"]
        /\ steps' = [steps EXCEPT ![Len(steps)] = IF low THEN @ \cup {f} ELSE @ \ {f}]
  BY DEF ResidualLine
<1>2. f \in Watched /\ log \in Logs /\ steps \in Seq(SUBSET Watched) /\ Len(steps) \in Nat /\ Len(steps) > 0
  BY <1>1 DEF QualityInv, WatchedSound, RowSound, ResidualLine
<1> DEFINE n == Len(steps)
           set == IF low THEN steps[n] \cup {f} ELSE steps[n] \ {f}
<1>3. steps[n] \in SUBSET Watched /\ set \in SUBSET Watched
  BY <1>2
<1>4. steps' = [steps EXCEPT ![n] = set]
  BY <1>1, <1>2
<1>5. steps' \in Seq(SUBSET Watched) /\ Len(steps') = n /\ steps'[n] = set
      /\ \A i \in 1 .. n - 1 : steps'[i] = steps[i]
  <2> HIDE DEF set
  <2> QED
    BY <1>2, <1>3, <1>4, LastReplaced
<1>6. log' \in Logs /\ log'.time = log.time /\ log'.low = log.low
      /\ \A g \in Watched : log'.sample[g] = IF g # f THEN log.sample[g] ELSE IF low THEN "low" ELSE "high"
  BY <1>1, <1>2 DEF Logs
<1>7. \A g \in Watched : log'.sample[g] = "low" <=> g \in steps'[n]
  BY <1>2, <1>5, <1>6 DEF QualityInv, RowSound
<1>8. ASSUME NEW g \in Watched, NEW k \in Nat
      PROVE  log'.low[g] >= k <=>
               k = 0 \/ (k <= n - 1 /\ \A i \in n - 1 - k + 1 .. n - 1 : g \in steps'[i])
  <2>1. log.low[g] >= k <=> LowSince(g, k, n - 1)
    BY <1>2 DEF QualityInv, RowSound, Counts
  <2>2. k <= n - 1 => \A i \in n - 1 - k + 1 .. n - 1 : steps'[i] = steps[i]
    BY <1>2, <1>5
  <2> QED
    BY <1>6, <2>1, <2>2 DEF LowSince
<1>9. RowSound'
  <2>1. \A g \in Watched : Counts(g, log.low[g], IF Len(steps) = 0 THEN 0 ELSE Len(steps) - 1)'
    BY <1>2, <1>5, <1>8 DEF Counts, LowSince
  <2> QED
    BY <1>2, <1>5, <1>6, <1>7, <2>1 DEF QualityInv, RowSound
<1> QED
  BY <1>9 DEF QualityInv, WatchedSound, NoResultYet, QualityIsSustained, ResidualLine

LEMMA QualityFlagLine == ASSUME QualityInv, BadLine \/ EndLine PROVE QualityInv'
<1>1. log' \in Logs /\ log'.time = log.time /\ log'.sample = log.sample /\ log'.low = log.low
  BY DEF QualityInv, RowSound, Logs, BadLine, EndLine
<1>2. steps' = steps
  BY DEF BadLine, EndLine
<1>3. RowSound'
  BY <1>1, <1>2 DEF QualityInv, RowSound, Counts, LowSince
<1> QED
  BY <1>3 DEF QualityInv, WatchedSound, NoResultYet, QualityIsSustained, BadLine, EndLine

\* Every counter reaches the samples asked for exactly when every row does.
LEMMA QualityExit == ASSUME QualityInv, Exit PROVE QualityInv'
<1>1. result'.quality = Quality(log) /\ stage = "running" /\ contract' = contract
      /\ log' = log /\ steps' = steps
  BY DEF Exit
<1>2. stage' \in {"EXECUTION_DONE", "RESULT_REVIEW_REQUIRED", "ENGINEERING_BLOCKED", "ready"}
  BY DEF Exit, Outcomes
<1>3. ASSUME contract.complete, contract.watched # {}
      PROVE  Quality(log) <=> Sustained
  <2>1. contract.watched = Watched /\ Watched # {}
    BY <1>1, <1>3 DEF QualityInv, WatchedSound
  <2>2. \A f \in Watched : Flushed(log).low[f] >= Samples <=> LowSince(f, Samples, Len(steps))
    BY FlushedCounts, SamplesAssumption DEF QualityInv, Counts
  <2>3. (\A f \in Watched : LowSince(f, Samples, Len(steps))) <=> Sustained
    BY <2>1, SamplesAssumption DEF LowSince, Sustained
  <2> QED
    BY <1>3, <2>1, <2>2, <2>3 DEF Quality
<1>4. QualityIsSustained'
  BY <1>1, <1>3 DEF QualityIsSustained, Sustained
<1>5. RowSound'
  BY <1>1 DEF QualityInv, RowSound, Counts, LowSince
<1> QED
  BY <1>1, <1>2, <1>4, <1>5 DEF QualityInv, WatchedSound, NoResultYet

LEMMA QualityStep == ASSUME QualityInv, [SolverNext]_svars PROVE QualityInv'
<1>1. ASSUME UNCHANGED svars \/ Compile \/ NotCompiled \/ WriteFields PROVE QualityInv'
  <2>1. log' = log /\ steps' = steps /\ result' = result
    BY <1>1 DEF svars, Compile, NotCompiled, WriteFields
  <2>2. RowSound'
    BY <2>1 DEF QualityInv, RowSound, Counts, LowSince
  <2>3. WatchedSound'
    BY <1>1, CompiledWatched DEF QualityInv, WatchedSound, svars, Compile, NotCompiled, WriteFields
  <2>4. NoResultYet'
    BY <1>1, <2>1 DEF QualityInv, NoResultYet, svars, Compile, NotCompiled, WriteFields
  <2>5. QualityIsSustained'
    BY <1>1, <2>1 DEF QualityInv, NoResultYet, QualityIsSustained, Sustained, svars, Compile, NotCompiled, WriteFields
  <2> QED
    BY <2>2, <2>3, <2>4, <2>5 DEF QualityInv
<1> QED
  BY <1>1, QualityLaunch, QualityTimeLine, QualityResidualLine, QualityFlagLine, QualityExit
  DEF SolverNext

(***************************************************************************)
(* Whatever the number of fields, samples and times: with declared         *)
(* criteria, quality is claimed exactly when every watched field was low   *)
(* at the end of each of the last times of the attempt.                    *)
(***************************************************************************)
THEOREM QualityIsSustainedCorrect == SolverSpec => []QualityIsSustained
<1>1. SolverInit => QualityInv
  BY QualityInitInv
<1>2. QualityInv /\ [SolverNext]_svars => QualityInv'
  BY QualityStep
<1>3. QualityInv => QualityIsSustained
  BY DEF QualityInv
<1> QED
  BY <1>1, <1>2, <1>3, PTL DEF SolverSpec

-----------------------------------------------------------------------------
(***************************************************************************)
(* The inductive invariant.                                                *)
(***************************************************************************)
LockHeld == \A s \in Sessions : at[s] \in Busy <=> lock = s

\* Only the last row of the ledger is ever uncertain, and only its process can
\* exist.
LedgerHolds ==
    /\ \A i \in DOMAIN ledger :
           i < Len(ledger) => ledger[i].status \notin UncertainStatus
    /\ spawns + strayed <= Len(ledger)
    /\ Len(ledger) <= Limit
    /\ \A i \in alive :
           /\ i = Len(ledger)
           /\ i > 0
           /\ ledger[i].status \in UncertainStatus

\* Without a ledger, a session knows of no settled row.
NoLedgerFile ==
    ledger = <<>> => \A s \in Sessions : records[s] = <<>> \/ Uncertain(records[s])

\* What a session in SafeRunner.run knows is what is on file.
LastRow(s, last) ==
    /\ at[s] \in {"reserved", "announced", "spawned"} => last.status = "spawn_intent"
    /\ at[s] \in {"recorded", "running"} => last.status = "running"
    /\ at[s] = "finished" => last.status = "ended"

OnFile(s) ==
    /\ records[s] = ledger
    /\ Len(ledger) > 0
    /\ LastRow(s, ledger[Len(ledger)])
    /\ at[s] \in {"reserved", "announced"} => alive = {} /\ spawns + strayed < Len(ledger)

RunsHold == \A s \in Sessions : at[s] \in Busy => OnFile(s)

\* While a session loads, the others are dead.
LoadsHold ==
    \A s \in Sessions : at[s] = "loading" =>
        /\ records[s] = ledger
        /\ \A t \in Sessions : t # s => at[t] = "dead"

IInv == TypeOK /\ LockHeld /\ LedgerHolds /\ NoLedgerFile /\ RunsHold /\ LoadsHold

(***************************************************************************)
(* Rows.                                                                   *)
(***************************************************************************)
LEMMA UpdateRow ==
    ASSUME NEW rows \in Seq(Row), Len(rows) > 0, NEW row \in Row
    PROVE  LET new == [rows EXCEPT ![Len(rows)] = row] IN
           /\ new \in Seq(Row)
           /\ Len(new) = Len(rows)
           /\ DOMAIN new = DOMAIN rows
           /\ new[Len(rows)] = row
           /\ \A i \in DOMAIN rows : i < Len(rows) => new[i] = rows[i]
  OBVIOUS

LEMMA AppendRow ==
    ASSUME NEW rows \in Seq(Row), NEW row \in Row
    PROVE  /\ Append(rows, row) \in Seq(Row)
           /\ Len(Append(rows, row)) = Len(rows) + 1
           /\ Append(rows, row)[Len(rows) + 1] = row
           /\ \A i \in DOMAIN rows : Append(rows, row)[i] = rows[i]
           /\ Append(rows, row) # <<>>
  OBVIOUS

LEMMA ReconciledRows ==
    ASSUME NEW rows \in Seq(Row)
    PROVE  LET new == [i \in DOMAIN rows |-> Reconciled(rows[i])] IN
           /\ new \in Seq(Row)
           /\ Len(new) = Len(rows)
           /\ DOMAIN new = DOMAIN rows
           /\ \A i \in DOMAIN rows :
                  /\ new[i].status \notin UncertainStatus
                  /\ rows[i].status \notin UncertainStatus => new[i] = rows[i]
  <1> DEFINE new == [i \in DOMAIN rows |-> Reconciled(rows[i])]
  <1>1. \A i \in DOMAIN rows : rows[i] \in Row
    OBVIOUS
  <1>2. \A row \in Row : /\ Reconciled(row) \in Row
                         /\ Reconciled(row).status \notin UncertainStatus
                         /\ row.status \notin UncertainStatus => Reconciled(row) = row
    BY DEF Reconciled, Row, Status, UncertainStatus
  <1>3. new \in [1 .. Len(rows) -> Row]
    BY <1>1, <1>2
  <1>4. new \in Seq(Row) /\ Len(new) = Len(rows)
    BY <1>3
  <1> QED BY <1>1, <1>2, <1>4

(***************************************************************************)
(* The invariant holds initially, and is preserved.                        *)
(***************************************************************************)
LEMMA InitHolds == Init => IInv
  <1> SUFFICES ASSUME Init PROVE IInv
    OBVIOUS
  <1> USE LedgerAssumption DEF Init
  <1>1. TypeOK
    BY DEF TypeOK, Positions, Busy, InTry
  <1>2. LockHeld /\ RunsHold /\ LoadsHold
    BY DEF LockHeld, RunsHold, LoadsHold, Busy, InTry
  <1>3. LedgerHolds /\ NoLedgerFile
    BY DEF LedgerHolds, NoLedgerFile
  <1> QED BY <1>1, <1>2, <1>3 DEF IInv

\* Steps of a run that leave the rows alone.
LEMMA ObserveHolds ==
    ASSUME IInv, NEW s \in Sessions, AnnounceIntent(s) \/ AnnounceRunning(s)
    PROVE  IInv'
  <1> USE DEF AnnounceIntent, AnnounceRunning, Observe, Step
  <1>1. TypeOK'
    BY DEF IInv, TypeOK, Positions, Busy, InTry
  <1>2. LockHeld'
    BY DEF IInv, TypeOK, LockHeld, Busy, InTry
  <1>3. LedgerHolds' /\ NoLedgerFile'
    BY DEF IInv, LedgerHolds, NoLedgerFile, Uncertain
  <1>4. RunsHold' /\ LoadsHold'
    BY DEF IInv, TypeOK, RunsHold, LoadsHold, OnFile, LastRow, Busy, InTry
  <1> QED BY <1>1, <1>2, <1>3, <1>4 DEF IInv

\* A session admitted by the checks at the entry works on the current ledger,
\* and no native process exists.
LEMMA AdmittedOnFile ==
    ASSUME IInv, NEW s \in Sessions, Admitted(s)
    PROVE  /\ records[s] = ledger
           /\ records[s] \in Seq(Row)
           /\ Len(ledger) < Limit
           /\ alive = {}
           /\ \A i \in DOMAIN ledger : ledger[i].status \notin UncertainStatus
           /\ \A t \in Sessions : at[t] \notin Busy
  <1>1. records[s] = ledger
    BY DEF IInv, NoLedgerFile, Admitted, Fresh
  <1>2. \A i \in DOMAIN ledger : ledger[i].status \notin UncertainStatus
    BY <1>1 DEF Admitted, Uncertain
  <1>3. alive = {}
    BY <1>2 DEF IInv, TypeOK, LedgerHolds
  <1>4. \A t \in Sessions : at[t] \notin Busy
    BY LedgerAssumption DEF IInv, LockHeld, Admitted
  <1>5. Len(ledger) < Limit /\ records[s] \in Seq(Row)
    BY <1>1 DEF Admitted, Attempts, IInv, TypeOK
  <1> QED BY <1>1, <1>2, <1>3, <1>4, <1>5

LEMMA IntentRow == Intent \in Row /\ Intent.status = "spawn_intent"
  BY DEF Intent, Row, Status

LEMMA ReserveHolds ==
    ASSUME ExclusiveLoads, IInv, NEW s \in Sessions, Reserve(s)
    PROVE  IInv'
  <1>1. Admitted(s)
    BY DEF Reserve
  <1> DEFINE new == Append(ledger, Intent)
  <1>2. /\ records[s] = ledger
        /\ alive = {}
        /\ Len(ledger) < Limit
        /\ \A i \in DOMAIN ledger : ledger[i].status \notin UncertainStatus
        /\ \A t \in Sessions : at[t] \notin Busy
    BY <1>1, AdmittedOnFile
  <1>3. /\ ledger \in Seq(Row)
        /\ new \in Seq(Row)
        /\ Len(new) = Len(ledger) + 1
        /\ new[Len(ledger) + 1] = Intent
        /\ \A i \in DOMAIN ledger : new[i] = ledger[i]
        /\ new # <<>>
    BY IntentRow, AppendRow DEF IInv, TypeOK
  <1>4. /\ records' = [records EXCEPT ![s] = new]
        /\ ledger' = new
        /\ lock' = s
        /\ at' = [at EXCEPT ![s] = "reserved"]
        /\ UNCHANGED <<alive, strays, spawns, strayed, crashes>>
    BY <1>2 DEF Reserve, IInv, TypeOK
  <1> HIDE DEF new
  <1>5. TypeOK'
    BY <1>3, <1>4 DEF IInv, TypeOK, Positions, Busy, InTry
  <1>6. LockHeld'
    BY <1>2, <1>4, LedgerAssumption DEF IInv, TypeOK, LockHeld, Busy, InTry
  <1>7. LedgerHolds' /\ NoLedgerFile'
    <2>1. \A i \in DOMAIN new : i < Len(new) => i \in DOMAIN ledger
      BY <1>3
    <2>2. spawns \in Nat /\ strayed \in Nat /\ Len(ledger) \in Nat /\ Limit \in Nat
      BY <1>3, LedgerAssumption DEF IInv, TypeOK
    <2> QED BY <1>2, <1>3, <1>4, <2>1, <2>2 DEF IInv, LedgerHolds, NoLedgerFile
  <1>8. RunsHold'
    <2> SUFFICES ASSUME NEW t \in Sessions, at'[t] \in Busy PROVE OnFile(t)'
      BY DEF RunsHold
    <2>1. t = s
      BY <1>2, <1>4 DEF IInv, TypeOK
    <2>2. spawns + strayed < Len(new) /\ Len(new) > 0
      BY <1>3 DEF IInv, LedgerHolds, TypeOK
    <2> QED BY <1>2, <1>3, <1>4, <2>1, <2>2, IntentRow DEF OnFile, LastRow, IInv, TypeOK
  <1>9. LoadsHold'
    BY <1>1, <1>4 DEF IInv, TypeOK, LoadsHold, Admitted
  <1> QED BY <1>5, <1>6, <1>7, <1>8, <1>9 DEF IInv

LEMMA ReserveFailsHolds ==
    ASSUME ExclusiveLoads, IInv, NEW s \in Sessions, ReserveFails(s)
    PROVE  IInv'
  <1> DEFINE new == Append(records[s], Intent)
  <1>1. Admitted(s) /\ at[s] = "idle"
    BY DEF ReserveFails, Admitted
  <1>2. /\ new \in Seq(Row)
        /\ Len(new) \in DOMAIN new
        /\ new[Len(new)] = Intent
    BY IntentRow, AppendRow DEF IInv, TypeOK
  <1>3. /\ records' = [records EXCEPT ![s] = new]
        /\ UNCHANGED <<ledger, lock, at, alive, strays, spawns, strayed, crashes>>
    BY DEF ReserveFails
  <1>4. Uncertain(new)
    BY <1>2, IntentRow DEF Uncertain, UncertainStatus
  <1> HIDE DEF new
  <1>5. TypeOK' /\ LockHeld' /\ LedgerHolds'
    BY <1>2, <1>3 DEF IInv, TypeOK, LockHeld, LedgerHolds
  <1>6. NoLedgerFile'
    BY <1>3, <1>4 DEF IInv, TypeOK, NoLedgerFile, Uncertain
  <1>7. RunsHold' /\ LoadsHold'
    BY <1>1, <1>3 DEF IInv, TypeOK, RunsHold, LoadsHold, OnFile, LastRow, Busy, InTry
  <1> QED BY <1>5, <1>6, <1>7 DEF IInv

LEMMA SpawnHolds ==
    ASSUME IInv, NEW s \in Sessions, Spawn(s)
    PROVE  IInv'
  <1>1. /\ at[s] = "announced"
        /\ at' = [at EXCEPT ![s] = "spawned"]
        /\ UNCHANGED <<ledger, records, lock, strays, strayed, crashes>>
        /\ spawns' = spawns + 1
    BY DEF Spawn, Step
  <1>2. OnFile(s) /\ lock = s
    BY <1>1 DEF IInv, RunsHold, LockHeld, Busy, InTry
  <1>3. ledger \in Seq(Row) /\ spawns \in Nat /\ strayed \in Nat
    BY DEF IInv, TypeOK
  <1>4. alive' = {Len(ledger)} /\ Len(ledger) \in Nat
    BY <1>1, <1>2, <1>3 DEF Spawn, OnFile, Id
  <1>5. TypeOK'
    BY <1>1, <1>3, <1>4 DEF IInv, TypeOK, Positions, Busy, InTry
  <1>6. LockHeld'
    BY <1>1, <1>2 DEF IInv, TypeOK, LockHeld, Busy, InTry
  <1>7. LedgerHolds' /\ NoLedgerFile'
    <2>1. ledger[Len(ledger)].status \in UncertainStatus /\ spawns + strayed < Len(ledger)
      BY <1>1, <1>2 DEF OnFile, LastRow, UncertainStatus
    <2> QED BY <1>1, <1>2, <1>3, <1>4, <2>1
        DEF IInv, LedgerHolds, NoLedgerFile, Uncertain, OnFile
  <1>8. RunsHold'
    <2> SUFFICES ASSUME NEW t \in Sessions, at'[t] \in Busy PROVE OnFile(t)'
      BY DEF RunsHold
    <2>1. t = s
      BY <1>1, <1>2 DEF IInv, TypeOK, LockHeld
    <2> QED BY <1>1, <1>2, <2>1 DEF OnFile, LastRow, IInv, TypeOK
  <1>9. LoadsHold'
    BY <1>1 DEF IInv, TypeOK, LoadsHold
  <1> QED BY <1>5, <1>6, <1>7, <1>8, <1>9 DEF IInv

\* A run that is left frees the lock, and nobody else is in one.
LEMMA LeaveHolds ==
    ASSUME IInv, NEW s \in Sessions, at[s] \in Busy, Leave(s),
           ledger' \in Seq(Row), Len(ledger') = Len(ledger),
           \A i \in DOMAIN ledger :
               i < Len(ledger) => ledger'[i].status \notin UncertainStatus,
           \A t \in Sessions : t # s => records'[t] = records[t],
           records' \in [Sessions -> Seq(Row)],
           alive' = {} \/ (alive' = alive /\ ledger' = ledger),
           strays' \subseteq Nat, strayed' \in Nat, spawns + strayed' <= Len(ledger), ExclusiveLoads
    PROVE  IInv'
  <1>1. lock = s /\ OnFile(s)
    BY DEF IInv, LockHeld, RunsHold
  <1>2. /\ at' = [at EXCEPT ![s] = "idle"]
        /\ lock' = None
        /\ spawns' = spawns /\ crashes' = crashes
    BY DEF Leave
  <1>3. TypeOK'
    BY <1>2 DEF IInv, TypeOK, Positions
  <1>4. \A t \in Sessions : at'[t] \notin Busy
    BY <1>1, <1>2 DEF IInv, TypeOK, LockHeld, Busy, InTry
  <1>5. LockHeld' /\ RunsHold'
    BY <1>2, <1>4, LedgerAssumption DEF LockHeld, RunsHold
  <1>6. LedgerHolds'
    <2>1. ledger \in Seq(Row) /\ DOMAIN ledger' = DOMAIN ledger
      BY DEF IInv, TypeOK
    <2>2. LedgerHolds
      BY DEF IInv
    <2> QED BY <1>2, <2>1, <2>2 DEF LedgerHolds
  <1>7. NoLedgerFile'
    BY <1>1 DEF NoLedgerFile, OnFile
  <1>8. LoadsHold'
    <2>1. \A t \in Sessions : at'[t] = "loading" => t # s /\ at[t] = "loading"
      BY <1>2 DEF IInv, TypeOK
    <2>2. at[s] # "dead"
      BY DEF Busy, InTry
    <2>3. \A t \in Sessions : at[t] = "loading" => t = s
      BY <2>2 DEF IInv, LoadsHold
    <2> QED BY <2>1, <2>3 DEF LoadsHold
  <1> QED BY <1>3, <1>5, <1>6, <1>7, <1>8 DEF IInv

\* budget.update on a row of Row, by a session in a run.
LEMMA UpdateOnFile ==
    ASSUME IInv, NEW s \in Sessions, at[s] \in Busy, NEW row \in Row, Update(s, row)
    PROVE  LET new == [ledger EXCEPT ![Len(ledger)] = row] IN
           /\ records' = [records EXCEPT ![s] = new]
           /\ records' \in [Sessions -> Seq(Row)]
           /\ \A t \in Sessions : t # s => records'[t] = records[t]
           /\ records'[s] = new
           /\ new \in Seq(Row)
           /\ Len(new) = Len(ledger)
           /\ DOMAIN new = DOMAIN ledger
           /\ Len(ledger) > 0
           /\ new[Len(ledger)] = row
           /\ \A i \in DOMAIN ledger : i < Len(ledger) => new[i] = ledger[i]
           /\ \A i \in DOMAIN ledger :
                  i < Len(ledger) => new[i].status \notin UncertainStatus
  <1> DEFINE new == [ledger EXCEPT ![Len(ledger)] = row]
  <1>1. records[s] = ledger /\ ledger \in Seq(Row) /\ Len(ledger) > 0
    BY DEF IInv, RunsHold, OnFile, TypeOK
  <1>2. /\ new \in Seq(Row)
        /\ Len(new) = Len(ledger)
        /\ DOMAIN new = DOMAIN ledger
        /\ new[Len(ledger)] = row
        /\ \A i \in DOMAIN ledger : i < Len(ledger) => new[i] = ledger[i]
    BY <1>1, UpdateRow
  <1>3. records' = [records EXCEPT ![s] = new]
    BY <1>1 DEF Update, Id, IInv, TypeOK
  <1> HIDE DEF new
  <1>4. /\ records' \in [Sessions -> Seq(Row)]
        /\ \A t \in Sessions : t # s => records'[t] = records[t]
        /\ records'[s] = new
    BY <1>2, <1>3 DEF IInv, TypeOK
  <1>5. \A i \in DOMAIN ledger : i < Len(ledger) => ledger[i].status \notin UncertainStatus
    BY DEF IInv, LedgerHolds
  <1>6. \A i \in DOMAIN ledger : i < Len(ledger) => new[i].status \notin UncertainStatus
    BY <1>2, <1>5
  <1> QED BY <1>1, <1>2, <1>3, <1>4, <1>6 DEF new

\* After the kill, or the exit, nothing is alive.
LEMMA KillsAll ==
    ASSUME IInv, NEW s \in Sessions, at[s] \in Busy
    PROVE  Kill(s) = {}
  BY DEF IInv, RunsHold, OnFile, LedgerHolds, Kill, Id

LEMMA RecordPidHolds ==
    ASSUME ExclusiveLoads, IInv, NEW s \in Sessions, RecordPid(s)
    PROVE  IInv'
  <1> DEFINE row == [status |-> "running", pid |-> TRUE, wall |-> 0]
             new == [ledger EXCEPT ![Len(ledger)] = row]
  <1>1. /\ at[s] = "spawned"
        /\ at' = [at EXCEPT ![s] = "recorded"]
        /\ UNCHANGED <<lock, crashes, alive, strays, spawns, strayed>>
        /\ Update(s, row)
        /\ ledger' = records'[s]
    BY DEF RecordPid, Step, Stored
  <1>2. at[s] \in Busy /\ row \in Row
    BY <1>1 DEF Busy, InTry, Row, Status
  <1>3. /\ records' = [records EXCEPT ![s] = new]
        /\ records' \in [Sessions -> Seq(Row)]
        /\ ledger' = new
        /\ new \in Seq(Row)
        /\ Len(new) = Len(ledger)
        /\ DOMAIN new = DOMAIN ledger
        /\ Len(ledger) > 0
        /\ new[Len(ledger)] = row
        /\ \A i \in DOMAIN ledger : i < Len(ledger) => new[i].status \notin UncertainStatus
    <2> HIDE DEF row
    <2> QED BY <1>1, <1>2, UpdateOnFile
  <1> HIDE DEF new
  <1>4. TypeOK'
    BY <1>1, <1>3 DEF IInv, TypeOK, Positions, Busy, InTry
  <1>5. LockHeld'
    BY <1>1, <1>2 DEF IInv, TypeOK, LockHeld, Busy, InTry
  <1>6. LedgerHolds' /\ NoLedgerFile'
    <2>1. ledger \in Seq(Row) /\ new # <<>>
      BY <1>3 DEF IInv, TypeOK
    <2>2. row.status \in UncertainStatus
      BY DEF UncertainStatus
    <2> HIDE DEF row
    <2> QED BY <1>1, <1>3, <2>1, <2>2 DEF IInv, LedgerHolds, NoLedgerFile
  <1>7. RunsHold'
    <2> SUFFICES ASSUME NEW t \in Sessions, at'[t] \in Busy PROVE OnFile(t)'
      BY DEF RunsHold
    <2>1. t = s
      BY <1>1, <1>2 DEF IInv, TypeOK, LockHeld
    <2> QED BY <1>1, <1>3, <2>1 DEF OnFile, LastRow, IInv, TypeOK
  <1>8. LoadsHold'
    BY <1>1 DEF IInv, TypeOK, LoadsHold
  <1> QED BY <1>4, <1>5, <1>6, <1>7, <1>8 DEF IInv

LEMMA FinishHolds ==
    ASSUME ExclusiveLoads, IInv, NEW s \in Sessions, Finish(s)
    PROVE  IInv'
  <1>1. PICK wall \in 1 .. TotalWall :
            Update(s, [status |-> "ended", pid |-> TRUE, wall |-> wall])
    BY DEF Finish, Ended
  <1> DEFINE row == [status |-> "ended", pid |-> TRUE, wall |-> wall]
             new == [ledger EXCEPT ![Len(ledger)] = row]
  <1>2. /\ at[s] = "running"
        /\ at' = [at EXCEPT ![s] = "finished"]
        /\ UNCHANGED <<lock, crashes, strays, spawns, strayed>>
        /\ ledger' = records'[s]
    BY DEF Finish, Step, Stored
  <1>3. at[s] \in Busy /\ row \in Row
    BY <1>2, LedgerAssumption DEF Busy, InTry, Row, Status
  <1>4. alive' = {}
    BY <1>3, KillsAll DEF Finish
  <1>5. /\ records' = [records EXCEPT ![s] = new]
        /\ records' \in [Sessions -> Seq(Row)]
        /\ ledger' = new
        /\ new \in Seq(Row)
        /\ Len(new) = Len(ledger)
        /\ DOMAIN new = DOMAIN ledger
        /\ Len(ledger) > 0
        /\ new[Len(ledger)] = row
        /\ \A i \in DOMAIN ledger : i < Len(ledger) => new[i].status \notin UncertainStatus
    <2>1. Update(s, row)
      BY <1>1
    <2> HIDE DEF row
    <2> QED BY <1>2, <1>3, <2>1, UpdateOnFile
  <1> HIDE DEF new
  <1>6. TypeOK'
    BY <1>2, <1>4, <1>5 DEF IInv, TypeOK, Positions, Busy, InTry
  <1>7. LockHeld'
    BY <1>2, <1>3 DEF IInv, TypeOK, LockHeld, Busy, InTry
  <1>8. LedgerHolds' /\ NoLedgerFile'
    <2>1. ledger \in Seq(Row) /\ new # <<>>
      BY <1>5 DEF IInv, TypeOK
    <2> QED BY <1>2, <1>4, <1>5, <2>1 DEF IInv, LedgerHolds, NoLedgerFile
  <1>9. RunsHold'
    <2> SUFFICES ASSUME NEW t \in Sessions, at'[t] \in Busy PROVE OnFile(t)'
      BY DEF RunsHold
    <2>1. t = s
      BY <1>2, <1>3 DEF IInv, TypeOK, LockHeld
    <2> QED BY <1>2, <1>5, <2>1 DEF OnFile, LastRow, IInv, TypeOK
  <1>10. LoadsHold'
    BY <1>2 DEF IInv, TypeOK, LoadsHold
  <1> QED BY <1>6, <1>7, <1>8, <1>9, <1>10 DEF IInv

LEMMA FinishUnstoredHolds ==
    ASSUME ExclusiveLoads, IInv, NEW s \in Sessions, FinishUnstored(s)
    PROVE  IInv'
  <1>1. PICK wall \in 1 .. TotalWall :
            Update(s, [status |-> "ended", pid |-> TRUE, wall |-> wall])
    BY DEF FinishUnstored, Ended
  <1> DEFINE row == [status |-> "ended", pid |-> TRUE, wall |-> wall]
  <1>2. at[s] \in Busy /\ row \in Row
    BY LedgerAssumption DEF FinishUnstored, Busy, InTry, Row, Status
  <1>3. spawns + strayed <= Len(ledger)
    BY DEF IInv, LedgerHolds
  <1>4. alive' = {} /\ UNCHANGED <<ledger, strays, strayed>> /\ Leave(s)
    BY <1>2, KillsAll DEF FinishUnstored
  <1>5. /\ records' \in [Sessions -> Seq(Row)]
        /\ \A t \in Sessions : t # s => records'[t] = records[t]
    <2>1. Update(s, row)
      BY <1>1
    <2> HIDE DEF row
    <2> QED BY <1>2, <2>1, UpdateOnFile
  <1>6. \A i \in DOMAIN ledger : i < Len(ledger) => ledger[i].status \notin UncertainStatus
    BY DEF IInv, LedgerHolds
  <1>7. ledger \in Seq(Row) /\ strays \subseteq Nat /\ strayed \in Nat
    BY DEF IInv, TypeOK
  <1> QED BY <1>2, <1>3, <1>4, <1>5, <1>6, <1>7, LeaveHolds

LEMMA RowPid == \A row \in Row : row.pid \in BOOLEAN
  BY Zenon DEF Row

\* A run that is left with its row settled by an exception.
LEMMA AbortedHolds ==
    ASSUME ExclusiveLoads, IInv, NEW s \in Sessions, at[s] \in Busy, Leave(s),
           NEW pid \in BOOLEAN, Aborted(s, pid), alive' = {},
           strays' \subseteq Nat, strayed' \in Nat, spawns + strayed' <= Len(ledger)
    PROVE  IInv'
  <1> DEFINE row == [status |-> "aborted", pid |-> pid, wall |-> 0]
             new == [ledger EXCEPT ![Len(ledger)] = row]
  <1>1. row \in Row
    BY DEF Row, Status
  <1>2. /\ records' \in [Sessions -> Seq(Row)]
        /\ \A t \in Sessions : t # s => records'[t] = records[t]
        /\ records'[s] = new
        /\ new \in Seq(Row)
        /\ Len(new) = Len(ledger)
        /\ \A i \in DOMAIN ledger : i < Len(ledger) => new[i].status \notin UncertainStatus
    <2>1. Update(s, row)
      BY DEF Aborted
    <2> HIDE DEF row
    <2> QED BY <1>1, <2>1, UpdateOnFile
  <1>3. ledger \in Seq(Row)
    BY DEF IInv, TypeOK
  <1>4. \A i \in DOMAIN ledger : i < Len(ledger) => ledger[i].status \notin UncertainStatus
    BY DEF IInv, LedgerHolds
  <1>5. ledger' = new \/ ledger' = ledger
    BY <1>2 DEF Aborted, Stored
  <1> HIDE DEF row, new
  <1>6. /\ ledger' \in Seq(Row) /\ Len(ledger') = Len(ledger)
        /\ \A i \in DOMAIN ledger : i < Len(ledger) => ledger'[i].status \notin UncertainStatus
    BY <1>2, <1>3, <1>4, <1>5
  <1> QED BY <1>2, <1>6, LeaveHolds

\* What Abort stores in the row of its session.
LEMMA AbortRow ==
    ASSUME IInv, NEW s \in Sessions, Abort(s)
    PROVE  \E pid \in BOOLEAN : Aborted(s, pid)
  <1>1. at[s] \in Busy
    BY DEF Abort, Busy
  <1>2. records[s] = ledger /\ Len(ledger) \in DOMAIN ledger /\ ledger \in Seq(Row)
    BY <1>1 DEF IInv, TypeOK, RunsHold, OnFile
  <1>3. ledger[Len(ledger)].pid \in BOOLEAN
    BY <1>2, RowPid
  <1> QED BY <1>2, <1>3 DEF Abort, Id

LEMMA AbortHolds ==
    ASSUME ExclusiveLoads, IInv, NEW s \in Sessions, Abort(s)
    PROVE  IInv'
  <1>1. at[s] \in Busy
    BY DEF Abort, Busy
  <1>2. PICK pid \in BOOLEAN : Aborted(s, pid)
    BY AbortRow
  <1>3. /\ alive' = {} /\ Leave(s)
        /\ strays' = strays /\ strayed' = strayed
    BY <1>1, KillsAll DEF Abort
  <1>4. strays \subseteq Nat /\ strayed \in Nat /\ spawns + strayed <= Len(ledger)
    BY DEF IInv, TypeOK, LedgerHolds
  <1> QED BY <1>1, <1>2, <1>3, <1>4, AbortedHolds

LEMMA InterruptedSpawnHolds ==
    ASSUME ExclusiveLoads, IInv, NEW s \in Sessions, InterruptedSpawn(s)
    PROVE  IInv'
  <1>1. at[s] = "announced" /\ at[s] \in Busy
    BY DEF InterruptedSpawn, Busy, InTry
  <1>2. /\ alive = {} /\ spawns + strayed < Len(ledger)
        /\ records[s] = ledger
    BY <1>1 DEF IInv, RunsHold, OnFile
  <1>3. ledger \in Seq(Row) /\ strays \subseteq Nat /\ strayed \in Nat /\ spawns \in Nat
    BY DEF IInv, TypeOK
  <1>4. Len(ledger) \in Nat
    BY <1>3
  <1>5. /\ strays' \subseteq Nat
        /\ strayed' \in Nat
        /\ spawns + strayed' <= Len(ledger)
    <2>1. strays' = strays \cup {Len(ledger)} /\ strayed' = strayed + 1
      BY <1>2 DEF InterruptedSpawn, Id
    <2>2. strays' \subseteq Nat
      BY <1>3, <1>4, <2>1
    <2>3. strayed' \in Nat /\ spawns + strayed' <= Len(ledger)
      BY <1>2, <1>3, <1>4, <2>1
    <2> QED BY <2>2, <2>3
  <1>6. alive' = {} /\ Leave(s) /\ Aborted(s, FALSE)
    BY <1>2 DEF InterruptedSpawn
  <1> QED BY <1>1, <1>5, <1>6, AbortedHolds

\* A run that is left with its row as it is.
LEMMA QuietLeaveHolds ==
    ASSUME ExclusiveLoads, IInv, NEW s \in Sessions, AnnounceFinished(s) \/ AbortUnsettled(s)
    PROVE  IInv'
  <1>1. /\ at[s] \in Busy
        /\ Leave(s)
        /\ UNCHANGED <<ledger, records, alive, strays, strayed>>
    BY DEF AnnounceFinished, AbortUnsettled, Busy, InTry
  <1>2. \A i \in DOMAIN ledger : i < Len(ledger) => ledger[i].status \notin UncertainStatus
    BY DEF IInv, LedgerHolds
  <1>3. /\ ledger \in Seq(Row)
        /\ records \in [Sessions -> Seq(Row)]
        /\ strays \subseteq Nat
        /\ strayed \in Nat
        /\ spawns + strayed <= Len(ledger)
    BY DEF IInv, TypeOK, LedgerHolds
  <1> QED BY <1>1, <1>2, <1>3, LeaveHolds

LEMMA RunHolds ==
    ASSUME ExclusiveLoads, IInv, NEW s \in Sessions, Run(s)
    PROVE  IInv'
  BY ObserveHolds, ReserveHolds, ReserveFailsHolds, SpawnHolds, InterruptedSpawnHolds,
     RecordPidHolds, FinishHolds, FinishUnstoredHolds, AbortHolds, QuietLeaveHolds
     DEF Run

LEMMA CrashHolds ==
    ASSUME IInv, NEW s \in Sessions, Crash(s)
    PROVE  IInv'
  <1>1. /\ at' = [at EXCEPT ![s] = "dead"]
        /\ records' = [records EXCEPT ![s] = <<>>]
        /\ lock' = IF lock = s THEN None ELSE lock
        /\ UNCHANGED <<ledger, alive, strays, spawns, strayed>>
        /\ crashes' = crashes + 1 /\ crashes < MaxCrashes
    BY DEF Crash
  <1>2. TypeOK'
    BY <1>1, LedgerAssumption DEF IInv, TypeOK, Positions
  <1>3. LockHeld'
    BY <1>1, LedgerAssumption DEF IInv, TypeOK, LockHeld, Busy, InTry
  <1>4. LedgerHolds' /\ NoLedgerFile'
    BY <1>1 DEF IInv, TypeOK, LedgerHolds, NoLedgerFile, Uncertain
  <1>5. RunsHold' /\ LoadsHold'
    BY <1>1 DEF IInv, TypeOK, RunsHold, LoadsHold, OnFile, LastRow, Busy, InTry
  <1> QED BY <1>2, <1>3, <1>4, <1>5 DEF IInv

LEMMA OpenHolds ==
    ASSUME ExclusiveLoads, IInv, NEW s \in Sessions, Open(s)
    PROVE  IInv'
  <1> PICK position \in {"idle", "loading"} :
          /\ at' = [at EXCEPT ![s] = position]
          /\ \A t \in Sessions \ {s} :
                 /\ at[t] # "loading"
                 /\ position = "loading" => at[t] = "dead"
    BY DEF Open, AloneToLoad
  <1>1. /\ at[s] = "dead"
        /\ records' = [records EXCEPT ![s] = ledger]
        /\ UNCHANGED <<ledger, lock, alive, strays, spawns, strayed, crashes>>
    BY DEF Open
  <1>2. TypeOK'
    BY <1>1 DEF IInv, TypeOK, Positions
  <1>3. LockHeld'
    BY <1>1 DEF IInv, TypeOK, LockHeld, Busy, InTry
  <1>4. LedgerHolds' /\ NoLedgerFile'
    BY <1>1 DEF IInv, TypeOK, LedgerHolds, NoLedgerFile, Uncertain
  <1>5. RunsHold' /\ LoadsHold'
    BY <1>1 DEF IInv, TypeOK, RunsHold, LoadsHold, OnFile, LastRow, Busy, InTry
  <1> QED BY <1>2, <1>3, <1>4, <1>5 DEF IInv

LEMMA NativeExitHolds ==
    ASSUME IInv, NativeExit
    PROVE  IInv'
  <1>1. /\ alive' \subseteq alive /\ strays' \subseteq strays
        /\ UNCHANGED <<ledger, records, lock, at, spawns, strayed, crashes>>
    BY DEF NativeExit
  <1>2. TypeOK' /\ LockHeld'
    BY <1>1 DEF IInv, TypeOK, LockHeld
  <1>3. LedgerHolds' /\ NoLedgerFile'
    BY <1>1 DEF IInv, LedgerHolds, NoLedgerFile, Uncertain
  <1>4. RunsHold' /\ LoadsHold'
    BY <1>1 DEF IInv, RunsHold, LoadsHold, OnFile, LastRow
  <1> QED BY <1>2, <1>3, <1>4 DEF IInv

\* Reconciliation by the only session that is not dead: the process of the last
\* row is gone, so that every row may be settled.
LEMMA ReconcileFacts ==
    ASSUME ExclusiveLoads, IInv, NEW s \in Sessions, Reconcile(s)
    PROVE  LET new == [i \in DOMAIN ledger |-> Reconciled(ledger[i])] IN
           /\ \A t \in Sessions : t # s => at[t] = "dead"
           /\ alive = {}
           /\ ledger \in Seq(Row)
           /\ ledger' = new
           /\ records' = [records EXCEPT ![s] = new]
           /\ new \in Seq(Row)
           /\ Len(new) = Len(ledger)
           /\ DOMAIN new = DOMAIN ledger
           /\ \A i \in DOMAIN ledger :
                  /\ new[i].status \notin UncertainStatus
                  /\ ledger[i].status \notin UncertainStatus => new[i] = ledger[i]
  <1> DEFINE new == [i \in DOMAIN ledger |-> Reconciled(ledger[i])]
  <1>1. records[s] = ledger /\ ledger \in Seq(Row)
    BY DEF Reconcile, IInv, LoadsHold, TypeOK
  <1>2. \A t \in Sessions : t # s => at[t] = "dead"
    BY DEF Reconcile, IInv, LoadsHold
  <1>3. \A i \in DOMAIN ledger : ledger[i].status \in UncertainStatus => i \notin alive
    BY <1>1 DEF Reconcile, AllVanished, Vanished
  <1>4. alive = {}
    BY <1>1, <1>3 DEF IInv, LedgerHolds
  <1>5. records' = [records EXCEPT ![s] = new] /\ ledger' = new
    BY <1>1 DEF Reconcile, Stored, IInv, TypeOK
  <1>6. /\ new \in Seq(Row)
        /\ Len(new) = Len(ledger)
        /\ DOMAIN new = DOMAIN ledger
        /\ \A i \in DOMAIN ledger :
               /\ new[i].status \notin UncertainStatus
               /\ ledger[i].status \notin UncertainStatus => new[i] = ledger[i]
    BY <1>1, ReconciledRows
  <1> HIDE DEF new
  <1>7. QED BY <1>1, <1>2, <1>4, <1>5, <1>6 DEF new

LEMMA ReconcileHolds ==
    ASSUME ExclusiveLoads, IInv, NEW s \in Sessions, Reconcile(s)
    PROVE  IInv'
  <1> DEFINE new == [i \in DOMAIN ledger |-> Reconciled(ledger[i])]
  <1>1. /\ \A t \in Sessions : t # s => at[t] = "dead"
        /\ alive = {}
        /\ ledger \in Seq(Row)
        /\ ledger' = new
        /\ records' = [records EXCEPT ![s] = new]
        /\ new \in Seq(Row)
        /\ Len(new) = Len(ledger)
        /\ DOMAIN new = DOMAIN ledger
        /\ \A i \in DOMAIN ledger : new[i].status \notin UncertainStatus
    BY ReconcileFacts
  <1>2. /\ at[s] = "loading"
        /\ at' = [at EXCEPT ![s] = "idle"]
        /\ UNCHANGED <<lock, alive, strays, spawns, strayed, crashes>>
    BY DEF Reconcile
  <1> HIDE DEF new
  <1>3. TypeOK'
    BY <1>1, <1>2 DEF IInv, TypeOK, Positions
  <1>4. LockHeld' /\ RunsHold' /\ LoadsHold'
    BY <1>1, <1>2 DEF IInv, TypeOK, LockHeld, RunsHold, LoadsHold, Busy, InTry
  <1>5. LedgerHolds'
    BY <1>1, <1>2 DEF IInv, LedgerHolds
  <1>6. NoLedgerFile'
    BY <1>1 DEF IInv, TypeOK, NoLedgerFile
  <1> QED BY <1>3, <1>4, <1>5, <1>6 DEF IInv

LEMMA RefusedHolds ==
    ASSUME IInv, NEW s \in Sessions, Refused(s)
    PROVE  IInv'
  <1>1. /\ at[s] = "loading"
        /\ at' = [at EXCEPT ![s] = "dead"]
        /\ records' = [records EXCEPT ![s] = <<>>]
        /\ UNCHANGED <<ledger, lock, alive, strays, spawns, strayed, crashes>>
    BY DEF Refused
  <1>2. TypeOK'
    BY <1>1 DEF IInv, TypeOK, Positions
  <1>3. LockHeld'
    BY <1>1 DEF IInv, TypeOK, LockHeld, Busy, InTry
  <1>4. LedgerHolds' /\ NoLedgerFile'
    BY <1>1 DEF IInv, TypeOK, LedgerHolds, NoLedgerFile, Uncertain
  <1>5. RunsHold' /\ LoadsHold'
    BY <1>1 DEF IInv, TypeOK, RunsHold, LoadsHold, OnFile, LastRow, Busy, InTry
  <1> QED BY <1>2, <1>3, <1>4, <1>5 DEF IInv

LEMMA StepHolds ==
    ASSUME ExclusiveLoads, IInv, [Next]_ledgerVars
    PROVE  IInv'
  <1>1. CASE Next
    BY <1>1, RunHolds, CrashHolds, OpenHolds, ReconcileHolds, RefusedHolds, NativeExitHolds
       DEF Next
  <1>2. CASE UNCHANGED ledgerVars
    BY <1>2 DEF ledgerVars, IInv, TypeOK, LockHeld, LedgerHolds, NoLedgerFile, RunsHold,
                LoadsHold, OnFile, LastRow, Uncertain
  <1> QED BY <1>1, <1>2

LEMMA InvariantHolds == ExclusiveLoads => (Spec => []IInv)
  <1>1. ExclusiveLoads /\ IInv /\ [Next]_ledgerVars => IInv'
    BY StepHolds
  <1> SUFFICES ASSUME ExclusiveLoads PROVE Spec => []IInv
    OBVIOUS
  <1>2. IInv /\ [Next]_ledgerVars => IInv'
    BY <1>1
  <1> QED BY InitHolds, <1>2, PTL DEF Spec

(***************************************************************************)
(* The results.                                                            *)
(***************************************************************************)
\* A session never loses track of a native process: in every interleaving of
\* sessions, deaths, failed writes and kills that do not take effect, a process
\* that exists is on record as uncertain (safe_runner.py, checkpoint.py).
THEOREM OnRecordCorrect == ExclusiveLoads => (Spec => [](TypeOK /\ OnRecord))
  <1>1. IInv => TypeOK /\ OnRecord
    BY DEF IInv, TypeOK, LedgerHolds, OnRecord
  <1> QED BY <1>1, InvariantHolds, PTL

\* Strays included, a workspace never sees more native processes than its budget.
THEOREM BudgetKeptCorrect == ExclusiveLoads => (Spec => []BudgetKept)
  <1>1. IInv => BudgetKept
    BY LedgerAssumption DEF IInv, TypeOK, LedgerHolds, BudgetKept
  <1> QED BY <1>1, InvariantHolds, PTL

(***************************************************************************)
(* The ledger is a history.                                                *)
(***************************************************************************)
History ==
    /\ Len(ledger') >= Len(ledger)
    /\ \A i \in DOMAIN ledger :
           ledger[i].status \in {"ended", "aborted", "reconciled"} => ledger'[i] = ledger[i]

\* The last row of a session before its end is not settled.
LEMMA StoredHistory ==
    ASSUME IInv, NEW s \in Sessions, at[s] \in InTry, NEW row \in Row, Update(s, row),
           ledger' = records'[s] \/ ledger' = ledger
    PROVE  History
  <1> DEFINE new == [ledger EXCEPT ![Len(ledger)] = row]
  <1>1. at[s] \in Busy
    BY DEF Busy
  <1>2. /\ records'[s] = new
        /\ Len(new) = Len(ledger)
        /\ \A i \in DOMAIN ledger : i < Len(ledger) => new[i] = ledger[i]
    BY <1>1, UpdateOnFile
  <1>3. ledger \in Seq(Row)
    BY DEF IInv, TypeOK
  <1>4. ledger[Len(ledger)].status \notin {"ended", "aborted", "reconciled"}
    BY <1>1 DEF IInv, RunsHold, OnFile, LastRow, InTry
  <1> HIDE DEF new
  <1>5. \A i \in DOMAIN ledger : i = Len(ledger) \/ i < Len(ledger)
    BY <1>3
  <1> QED BY <1>2, <1>3, <1>4, <1>5 DEF History

LEMMA StepHistory ==
    ASSUME ExclusiveLoads, IInv, [Next]_ledgerVars
    PROVE  History
  <1>1. ledger \in Seq(Row)
    BY DEF IInv, TypeOK
  <1>2. ASSUME ledger' = ledger PROVE History
    BY <1>1, <1>2 DEF History
  <1>3. ASSUME NEW s \in Sessions, Reserve(s) PROVE History
    <2>1. Admitted(s)
      BY <1>3 DEF Reserve
    <2>2. ledger' = Append(ledger, Intent)
      BY <1>3, <2>1, AdmittedOnFile DEF Reserve, IInv, TypeOK
    <2> QED BY <1>1, <2>2, IntentRow, AppendRow DEF History
  <1>4. ASSUME NEW s \in Sessions, RecordPid(s) PROVE History
    <2>1. [status |-> "running", pid |-> TRUE, wall |-> 0] \in Row /\ at[s] \in InTry
      BY <1>4 DEF RecordPid, Step, InTry, Row, Status
    <2> QED BY <1>4, <2>1, StoredHistory DEF RecordPid, Stored
  <1>5. ASSUME NEW s \in Sessions, Finish(s) PROVE History
    <2>1. PICK wall \in 1 .. TotalWall :
              Update(s, [status |-> "ended", pid |-> TRUE, wall |-> wall])
      BY <1>5 DEF Finish, Ended
    <2>2. [status |-> "ended", pid |-> TRUE, wall |-> wall] \in Row /\ at[s] \in InTry
      BY <1>5, LedgerAssumption DEF Finish, Step, InTry, Row, Status
    <2> QED BY <1>5, <2>1, <2>2, StoredHistory DEF Finish, Stored
  <1>6. ASSUME NEW s \in Sessions, at[s] \in InTry, NEW pid \in BOOLEAN, Aborted(s, pid)
        PROVE  History
    <2> DEFINE row == [status |-> "aborted", pid |-> pid, wall |-> 0]
    <2>1. row \in Row
      BY DEF Row, Status
    <2>2. Update(s, row) /\ (ledger' = records'[s] \/ ledger' = ledger)
      BY <1>6 DEF Aborted, Stored
    <2> HIDE DEF row
    <2> QED BY <1>6, <2>1, <2>2, StoredHistory
  <1>7. ASSUME NEW s \in Sessions, Reconcile(s) PROVE History
    <2> DEFINE new == [i \in DOMAIN ledger |-> Reconciled(ledger[i])]
    <2>1. /\ ledger' = new
          /\ Len(new) = Len(ledger)
          /\ \A i \in DOMAIN ledger :
                 ledger[i].status \notin UncertainStatus => new[i] = ledger[i]
      BY <1>7, ReconcileFacts
    <2> HIDE DEF new
    <2> QED BY <1>1, <2>1 DEF History, UncertainStatus
  <1>8. ASSUME NEW s \in Sessions, Run(s) PROVE History
    <2>1. CASE Abort(s)
      BY <1>6, <2>1, AbortRow DEF Abort
    <2>2. CASE InterruptedSpawn(s)
      BY <1>6, <2>2 DEF InterruptedSpawn, InTry
    <2> QED BY <1>2, <1>3, <1>4, <1>5, <1>8, <2>1, <2>2
        DEF Run, ReserveFails, AnnounceIntent, AnnounceRunning, Observe, Spawn,
            FinishUnstored, AnnounceFinished, AbortUnsettled
  <1>9. ASSUME Next PROVE History
    BY <1>2, <1>7, <1>8, <1>9 DEF Next, Crash, Open, Refused, NativeExit
  <1> QED BY <1>2, <1>9 DEF ledgerVars

\* No session, however it ends, drops a row of the process ledger or rewrites a
\* settled one: the budget of a workspace cannot be won back.
THEOREM LedgerIsHistoryCorrect == ExclusiveLoads => (Spec => LedgerIsHistory)
  <1> SUFFICES ASSUME ExclusiveLoads PROVE Spec => LedgerIsHistory
    OBVIOUS
  <1>1. IInv /\ [Next]_ledgerVars => [History]_ledgerVars
    BY StepHistory
  <1> QED BY <1>1, InvariantHolds, PTL DEF Spec, LedgerIsHistory, History

(***************************************************************************)
(* The refinement.  A native process is only created by Spawn, when none   *)
(* exists and a reserved row has no process yet.                           *)
(***************************************************************************)
LEMMA SpawnStarts ==
    ASSUME IInv, NEW s \in Sessions, Spawn(s)
    PROVE  Exclusive!Start
  <1>1. at[s] = "announced" /\ spawns' = spawns + 1 /\ alive' # {}
    BY DEF Spawn, Step
  <1>2. OnFile(s)
    BY <1>1 DEF IInv, RunsHold, Busy, InTry
  <1>3. alive = {} /\ spawns + strayed < Len(ledger)
    BY <1>1, <1>2 DEF OnFile
  <1>4. spawns < Limit
    BY <1>3, LedgerAssumption DEF IInv, TypeOK, LedgerHolds
  <1> QED BY <1>1, <1>3, <1>4 DEF Exclusive!Start

\* Every other step leaves the count alone and creates no process.
LEMMA OtherStep ==
    ASSUME spawns' = spawns, alive' \subseteq alive
    PROVE  [Exclusive!Next]_<<spawns, alive # {}>>
  <1>1. CASE (alive' # {}) <=> (alive # {})
    <2>1. (alive # {})' = (alive # {})
      BY <1>1
    <2> QED BY <2>1
  <1>2. CASE alive # {} /\ alive' = {}
    BY <1>2 DEF Exclusive!Next, Exclusive!End
  <1> QED BY <1>1, <1>2

LEMMA StepRefines ==
    ASSUME ExclusiveLoads, IInv, [Next]_ledgerVars
    PROVE  [Exclusive!Next]_<<spawns, alive # {}>>
  <1>1. ASSUME NEW s \in Sessions, Spawn(s) PROVE Exclusive!Next
    BY <1>1, SpawnStarts DEF Exclusive!Next
  <1>2. ASSUME NEW s \in Sessions, Run(s), ~Spawn(s)
        PROVE  spawns' = spawns /\ alive' \subseteq alive
    BY <1>2 DEF Run, Reserve, ReserveFails, AnnounceIntent, AnnounceRunning, Observe,
       InterruptedSpawn, RecordPid, Finish, FinishUnstored, AnnounceFinished,
       Abort, AbortUnsettled, Kill, Step, Leave
  <1>3. ASSUME NEW s \in Sessions, Crash(s) \/ Open(s) \/ Reconcile(s) \/ Refused(s)
        PROVE  spawns' = spawns /\ alive' \subseteq alive
    BY <1>3 DEF Crash, Open, Reconcile, Refused
  <1>4. ASSUME NativeExit PROVE spawns' = spawns /\ alive' \subseteq alive
    BY <1>4 DEF NativeExit
  <1>5. ASSUME UNCHANGED ledgerVars PROVE spawns' = spawns /\ alive' \subseteq alive
    BY <1>5 DEF ledgerVars
  <1>6. (\E s \in Sessions : Spawn(s)) \/ (spawns' = spawns /\ alive' \subseteq alive)
    BY <1>2, <1>3, <1>4, <1>5 DEF Next
  <1> QED BY <1>1, <1>6, OtherStep

\* However many sessions open a workspace, together or one after another, and
\* whenever they die, native processes exist one at a time and are never more
\* than ProcessBudget.limit.
THEOREM ExclusiveRunsCorrect == ExclusiveLoads => (Spec => ExclusiveRuns)
  <1> SUFFICES ASSUME ExclusiveLoads PROVE Spec => ExclusiveRuns
    OBVIOUS
  <1>1. Init => Exclusive!Init
    BY DEF Init, Exclusive!Init
  <1>2. IInv /\ [Next]_ledgerVars => [Exclusive!Next]_<<spawns, alive # {}>>
    BY StepRefines
  <1> QED BY <1>1, <1>2, InvariantHolds, PTL DEF Spec, ExclusiveRuns, Exclusive!Spec

=============================================================================
