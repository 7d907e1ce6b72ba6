------------------------------ MODULE ModelTurn ------------------------------
(***************************************************************************)
(* One model turn, from the prompt a phase builds (engineering/phases/     *)
(* context_controller.py) or the intake agent asks with (agents/intake.py) *)
(* through the client of a back end (llm/*_client.py) to the process or    *)
(* request that answers, and back to the engine that routes what failed.   *)
(*                                                                         *)
(* An answer is its shape: what the process printed, whether it validates, *)
(* and whether it counted its tokens (one token for one counted answer).   *)
(* A prompt is what it shows: the whole state or a delta, and which version*)
(* of the engineering plan.  Client state dies with the process; the       *)
(* counters of the agent come back from the checkpoint.                    *)
(***************************************************************************)
EXTENDS Integers, Sequences, FiniteSetsExt

CONSTANTS
    Repairs,        \* structured_repair_attempts
    Retries,        \* transport_retries of Codex
    IntakeRepairs,  \* intake validation repairs
    MaxPlan,        \* bound: versions of the engineering plan
    MaxTurns,       \* bound: engineering turns
    MaxResumes,     \* bound: crashes followed by a resume
    MaxEvents       \* bound: events of one Codex stream

ASSUME BoundsAssumption ==
    /\ Repairs \in Nat
    /\ Retries \in 0 .. 3
    /\ IntakeRepairs \in 0 .. 3
    /\ {MaxPlan, MaxTurns, MaxResumes, MaxEvents} \subseteq Nat

Backends == {"codex", "claude", "openai", "ollama"}
Commands == {"codex", "claude"}      \* back ends that start a process

VARIABLES
    client,    \* the back end and whether it stores responses, or Nothing
    state,     \* CFDState.current_state
    plan,      \* version of CFDState.engineering_plan, 0 for none
    count,     \* _phase_prompt_counts of the conversation
    snapshot,  \* plan in _phase_context_snapshots of the conversation
    saved,     \* the same three in the checkpoint, or Nothing
    chain,     \* what the last stored response of the conversation knew
    call,      \* the call of generate under way, or Idle
    asked,     \* processes or requests of this call so far
    usage,     \* last_usage of the client, Unknown for None
    answers,   \* history: counted and uncounted answers of this call
    stream,    \* history: what the last process printed
    intake,    \* calls of the present intake so far
    watch,     \* the heartbeat of the process: off, waiting or reporting
    late,      \* heartbeats of ended processes still reporting
    turns, resumes, \* bounded histories
    broken     \* history: the conversation lost its chain of responses

vars == <<client, state, plan, count, snapshot, saved, chain, call, asked, usage, answers,
          stream, intake, watch, late, turns, resumes, broken>>

memory == <<plan, count, snapshot, saved, turns, resumes>>

Nothing == [none |-> TRUE]
Idle == [at |-> "idle"]
Unknown == -1
NotShown == -1

(***************************************************************************)
(* What a Codex process prints: its JSON events.                           *)
(***************************************************************************)
\* item: an allowed item, or the start of the thread or the turn; diagnostic:
\* an error item; counted, uncounted and miscounted: turn.completed with a
\* valid, no and an invalid usage object.
Events == {"item", "diagnostic", "tool", "unknown", "error", "garbage",
           "counted", "uncounted", "miscounted"}
Streams == UNION {[1 .. n -> Events] : n \in 0 .. MaxEvents}

Completions == {"counted", "uncounted"}
Decisive == {"tool", "unknown", "error", "garbage", "miscounted"}

Positions(s, events) == {i \in DOMAIN s : s[i] \in events}

\* The slip of not reading past the completed turn.
StopsBeforeCompletion(s) ==
    {i \in Positions(s, Decisive) : \A j \in Positions(s, Completions) : i < j}

Stops(s) == Positions(s, Decisive)

\* inspect_events: the first event that cannot stand decides.
Inspected(s) ==
    IF Stops(s) # {}
    THEN CASE s[Min(Stops(s))] \in {"tool", "unknown"}       -> "violation"
           [] s[Min(Stops(s))] = "error"                     -> "turn_error"
           [] s[Min(Stops(s))] \in {"garbage", "miscounted"} -> "malformed"
    ELSE IF Positions(s, Completions) = {} THEN "malformed" ELSE "clean"

\* A later completion without usage leaves the usage of an earlier one.
Counted(s) == Positions(s, {"counted"}) # {}

Printed(s) == [verdict   |-> Inspected(s),
               counted   |-> Counted(s),
               tool      |-> Positions(s, {"tool", "unknown"}) # {},
               failed    |-> Positions(s, {"error", "garbage", "miscounted"}) # {},
               completed |-> Positions(s, Completions) # {}]

PrintedStreams == {Printed(s) : s \in Streams}

(***************************************************************************)
(* Choosing a back end: what its command line says of itself.              *)
(***************************************************************************)
LoginTexts == [api : BOOLEAN, logged_in : BOOLEAN, chatgpt : BOOLEAN, negated : BOOLEAN]

\* authentication_kind: an API key wins over everything else the text says.
AuthenticationKind(text) ==
    CASE text.api                                                    -> "api_key"
      [] ~text.api /\ text.logged_in /\ text.chatgpt /\ ~text.negated -> "chatgpt"
      [] OTHER                                                       -> "unknown"

\* check_codex_cli and the constructor.
CodexUsable(cli) ==
    cli.found /\ cli.answers /\ cli.surface /\ AuthenticationKind(cli.login) = "chatgpt"

\* check_claude_cli: surface stands for safe mode and a version that is recent
\* or unreadable.
ClaudeUsable(cli) == cli.found /\ cli.answers /\ cli.surface /\ cli.login.logged_in /\ ~cli.login.api

\* check_ollama_health: a loopback endpoint that lists the requested models.
OllamaUsable(cli) == cli.found /\ cli.answers /\ cli.surface

Usable(backend, cli) ==
    CASE backend = "codex"  -> CodexUsable(cli)
      [] backend = "claude" -> ClaudeUsable(cli)
      [] backend = "ollama" -> OllamaUsable(cli)
      [] backend = "openai" -> TRUE

Installations == [found : BOOLEAN, answers : BOOLEAN, surface : BOOLEAN, login : LoginTexts]

Init ==
    /\ client = Nothing /\ state = "INIT"
    /\ plan = 0 /\ count = 0 /\ snapshot = 0 /\ saved = Nothing
    /\ chain = Nothing /\ call = Idle /\ asked = 0 /\ usage = Unknown
    /\ answers = [counted |-> 0, uncounted |-> 0] /\ stream = Nothing
    /\ intake = 0 /\ watch = "off" /\ late = 0 /\ turns = 0 /\ resumes = 0 /\ broken = FALSE

\* The command line builds a client, or refuses to start.
ChooseBackend ==
    /\ client = Nothing /\ state = "INIT"
    /\ UNCHANGED <<memory, chain, call, asked, usage, answers, stream, intake, watch, late, broken>>
    /\ \E backend \in Backends, store \in BOOLEAN, cli \in Installations :
        /\ store => backend = "openai"
        /\ Usable(backend, cli)
        /\ client' = [backend |-> backend, store |-> store]
        /\ state' = "INTAKE_ANALYSIS"

(***************************************************************************)
(* What a phase asks.                                                      *)
(***************************************************************************)
FullPrompt == [mode |-> "full", shows |-> [full |-> TRUE, plan |-> plan]]

\* A delta repeats the plan only when it is not the one of the snapshot.
DeltaPrompt == [mode  |-> "delta",
                shows |-> [full |-> FALSE, plan |-> IF snapshot # plan THEN plan ELSE NotShown]]

\* use_delta under the policies of the command line; admits: the contract of
\* the phase is one that takes deltas.
UseDelta(admits) == admits /\ count > 0 /\ client.store

\* A call of generate begins; chained: it continues the last stored response.
Begin(asker, prompt, chained) ==
    /\ call' = [at |-> "ready", for |-> asker, mode |-> prompt.mode, shows |-> prompt.shows,
                chained |-> chained, attempt |-> 0, retry |-> 0, cause |-> "none"]
    /\ asked' = 0
    /\ usage' = Unknown
    /\ answers' = [counted |-> 0, uncounted |-> 0]
    /\ stream' = Nothing
    /\ broken' = (broken /\ prompt.mode = "delta")

\* IntakeAgent.run asks for a complete intake every time.
AskIntake ==
    /\ state = "INTAKE_ANALYSIS" /\ call = Idle
    /\ Begin("intake", FullPrompt, FALSE)
    /\ intake' = intake + 1
    /\ UNCHANGED <<client, state, memory, chain, watch, late>>

\* generate_turn, after the checkpoint "before-model-turn".
AskTurn ==
    /\ state = "ENGINEERING" /\ call = Idle /\ turns < MaxTurns
    /\ \E admits \in BOOLEAN :
        Begin("engineering", IF UseDelta(admits) THEN DeltaPrompt ELSE FullPrompt,
              UseDelta(admits) /\ chain # Nothing)
    /\ saved' = [plan |-> plan, count |-> count, snapshot |-> snapshot]
    /\ turns' = turns + 1
    /\ UNCHANGED <<client, state, plan, count, snapshot, chain, intake, watch, late, resumes>>

\* No projection of the context fits: the phase is blocked, and saved so.
ContextRefused ==
    /\ state = "ENGINEERING" /\ call = Idle /\ turns < MaxTurns
    /\ state' = "ENGINEERING_BLOCKED"
    /\ saved' = Nothing
    /\ UNCHANGED <<client, plan, count, snapshot, chain, call, asked, usage, answers, stream,
                   intake, watch, late, turns, resumes, broken>>

(***************************************************************************)
(* generate of the four clients: a call is attempts at a valid answer, and *)
(* an attempt at Codex is a few processes.                                 *)
(***************************************************************************)
Running(backend) == call.at = "running" /\ client.backend = backend

Start ==
    /\ call.at = "ready"
    /\ call' = [call EXCEPT !.at = "running"]
    /\ asked' = asked + 1
    /\ watch' = IF client.backend \in Commands THEN "waiting" ELSE "off"
    /\ UNCHANGED <<client, state, memory, chain, usage, answers, stream, intake, late, broken>>

\* What the request that is running lets the model know.
Known ==
    IF call.chained
    THEN [full |-> call.shows.full \/ chain.full,
          plan |-> IF call.shows.plan # NotShown THEN call.shows.plan ELSE chain.plan]
    ELSE call.shows

Valid == call' = [call EXCEPT !.at = "valid"] /\ UNCHANGED broken
Failed(cause) == call' = [call EXCEPT !.at = "failed", !.cause = cause] /\ UNCHANGED broken

\* A repair attempt asks anew: the original prompt, the last error, no chain.
RepairOutput ==
    IF call.attempt < Repairs
    THEN /\ call' = [call EXCEPT !.at = "ready", !.attempt = @ + 1, !.retry = 0, !.chained = FALSE]
         /\ broken' = (broken \/ call.chained)
    ELSE Failed("invalid")

\* The slip of starting a fresh process without counting it.
RetryUncounted ==
    IF call.retry < Retries
    THEN call' = [call EXCEPT !.at = "ready"] /\ UNCHANGED broken
    ELSE Failed("malformed")

RetryTransport ==
    IF call.retry < Retries
    THEN call' = [call EXCEPT !.at = "ready", !.retry = @ + 1] /\ UNCHANGED broken
    ELSE Failed("malformed")

Judged(answer) ==
    CASE answer = "valid"   -> Valid
      [] answer = "invalid" -> RepairOutput
      [] OTHER              -> Failed("error")

\* The slip of waiting for a heartbeat that is being reported.
JoinedForever == watch # "reporting" /\ late' = late /\ watch' = "off"

\* The heartbeat is told to stop and given a moment; it may outlive the process.
Joined ==
    /\ late' = IF watch = "reporting" THEN late + 1 ELSE late
    /\ watch' = "off"

Count(counted) ==
    answers' = IF counted THEN [answers EXCEPT !.counted = @ + 1]
               ELSE [answers EXCEPT !.uncounted = @ + 1]

\* The slip of reporting what is known as if it were all.
KnownRows(rows) == IF rows.counted = 0 THEN Unknown ELSE rows.counted

\* usage_attempts of Codex: no total unless every row is known.
SummedRows(rows) == IF rows.uncounted # 0 THEN Unknown ELSE rows.counted

\* _run_once and generate of Codex; the output file may be missing, empty or
\* too large ("absent").
CodexAnswers ==
    /\ Running("codex")
    /\ Joined
    /\ UNCHANGED <<client, state, memory, chain, asked, intake>>
    /\ \E printed \in PrintedStreams, file \in {"absent", "invalid", "valid"} :
        /\ stream' = printed
        /\ IF printed.verdict = "clean"
           THEN /\ Count(printed.counted)
                /\ usage' = SummedRows(answers')
                /\ Judged(file)
           ELSE /\ UNCHANGED <<answers, usage>>
                /\ IF printed.verdict = "malformed" THEN RetryTransport ELSE Failed("error")

\* generate of Claude: the last counted answer is the usage.
ClaudeAnswers ==
    /\ Running("claude")
    /\ Joined
    /\ \E answer \in {"invalid", "valid"}, counted \in BOOLEAN :
        /\ Count(counted)
        /\ usage' = IF counted THEN 1 ELSE usage
        /\ Judged(answer)
    /\ UNCHANGED <<client, state, memory, chain, asked, stream, intake>>

\* A timeout, a command that cannot start, an exit code, no envelope.
CommandFails ==
    /\ call.at = "running" /\ client.backend \in Commands
    /\ Joined
    /\ Failed("error")
    /\ UNCHANGED <<client, state, memory, chain, asked, usage, answers, stream, intake>>

\* generate of OpenAI: an answer rejected inside the SDK is no response; every
\* response is stored and counted, the refused one too.
OpenAIAnswers ==
    /\ Running("openai")
    /\ \/ /\ Failed("error")
          /\ UNCHANGED <<chain, usage, answers>>
       \/ /\ RepairOutput
          /\ UNCHANGED <<chain, usage, answers>>
       \/ \E answer \in {"refused", "invalid", "valid"}, counted \in BOOLEAN :
            /\ Count(counted)
            /\ usage' = IF counted THEN 1 ELSE Unknown
            /\ chain' = IF client.store /\ call.for = "engineering" THEN Known ELSE chain
            /\ Judged(answer)
    /\ UNCHANGED <<client, state, memory, asked, stream, intake, watch, late>>

\* generate of Ollama: usage accumulates; an empty answer is an invalid one.
OllamaAnswers ==
    /\ Running("ollama")
    /\ \/ /\ Failed("error")
          /\ UNCHANGED <<usage, answers>>
       \/ \E answer \in {"invalid", "valid"}, counted \in BOOLEAN :
            /\ Count(counted)
            /\ usage' = KnownRows(answers')
            /\ Judged(answer)
    /\ UNCHANGED <<client, state, memory, chain, asked, stream, intake, watch, late>>

\* The thread of _run_with_wait_heartbeat.  Bound: one report outlives its process.
Beat ==
    /\ \/ watch = "waiting" /\ late = 0 /\ watch' = "reporting" /\ late' = late
       \/ watch = "reporting" /\ watch' = "waiting" /\ late' = late
       \/ late > 0 /\ late' = late - 1 /\ watch' = watch
    /\ UNCHANGED <<client, state, memory, chain, call, asked, usage, answers, stream, intake, broken>>

(***************************************************************************)
(* Back in the caller.                                                     *)
(***************************************************************************)
IntakeExhausted == intake > IntakeRepairs

\* IntakeAgent.run: an intake whose provenance fails is asked for again.
IntakeReturned ==
    /\ call.at = "valid" /\ call.for = "intake"
    /\ call' = Idle
    /\ state' \in IF IntakeExhausted
                  THEN {"INTAKE_REVIEW_REQUIRED", "NEEDS_CLARIFICATION", "FAILED"}
                  ELSE {"INTAKE_REVIEW_REQUIRED", "NEEDS_CLARIFICATION", "INTAKE_ANALYSIS"}
    /\ UNCHANGED <<client, memory, chain, asked, usage, answers, stream, intake, watch, late, broken>>

\* The user confirms; prepare saves its first checkpoint.
Confirm ==
    /\ state = "INTAKE_REVIEW_REQUIRED"
    /\ state' = "ENGINEERING"
    /\ saved' = [plan |-> plan, count |-> count, snapshot |-> snapshot]
    /\ UNCHANGED <<client, plan, count, snapshot, chain, call, asked, usage, answers, stream,
                   intake, watch, late, turns, resumes, broken>>

\* The slip of taking the snapshot after the decision was carried out.
DecidedPlan == plan'

\* The plan the snapshot keeps is the one the prompt was built from.
PromptedPlan == plan

\* generate_turn returns, the decision is carried out (it may set, replace or
\* drop the plan) and the turn is saved.
TurnReturned ==
    /\ call.at = "valid" /\ call.for = "engineering"
    /\ call' = Idle
    /\ UNCHANGED <<client, state, chain, asked, usage, answers, stream, intake, watch, late,
                   turns, resumes, broken>>
    /\ plan' \in 0 .. MaxPlan
    /\ count' = count + 1
    /\ snapshot' = PromptedPlan
    /\ saved' = [plan |-> plan', count |-> count', snapshot |-> snapshot']

\* The slip of keeping the case for whatever the back end did.
RouteAny == IF call.for = "engineering" THEN "ENGINEERING_BLOCKED" ELSE "FAILED"

\* CFDWorkflow.run: a malformed stream is no evidence against the case.
Route == IF call.for = "engineering" /\ call.cause = "malformed" THEN "ENGINEERING_BLOCKED"
         ELSE "FAILED"

CallFailed ==
    /\ call.at = "failed"
    /\ call' = Idle
    /\ state' = Route
    /\ UNCHANGED <<client, memory, chain, asked, usage, answers, stream, intake, watch, late, broken>>

\* The process is gone, at any point of an engineering turn or after it ended
\* badly; a new one resumes from the checkpoint with a client that knows nothing.
Resume ==
    /\ resumes < MaxResumes
    /\ saved # Nothing
    /\ resumes' = resumes + 1
    /\ state' = "ENGINEERING"
    /\ plan' = saved.plan /\ count' = saved.count /\ snapshot' = saved.snapshot
    /\ chain' = Nothing /\ call' = Idle /\ usage' = Unknown /\ asked' = 0
    /\ answers' = [counted |-> 0, uncounted |-> 0] /\ stream' = Nothing
    /\ watch' = "off" /\ late' = 0
    /\ broken' = (saved.count > 0)
    /\ UNCHANGED <<client, saved, intake, turns>>

CallStep ==
    \/ Start
    \/ CodexAnswers
    \/ ClaudeAnswers
    \/ CommandFails
    \/ OpenAIAnswers
    \/ OllamaAnswers
    \/ IntakeReturned
    \/ TurnReturned
    \/ CallFailed

Next ==
    \/ ChooseBackend
    \/ AskIntake
    \/ Confirm
    \/ AskTurn
    \/ ContextRefused
    \/ CallStep
    \/ Beat
    \/ Resume

\* Requests and processes have a deadline (timeout_seconds, the SDK's own), and
\* what the controllers do with an answer is straight-line code.  Nothing is
\* assumed of the thread that reports the wait.
Spec == Init /\ [][Next]_vars /\ WF_vars(CallStep)

(***************************************************************************)
(* Properties.                                                             *)
(***************************************************************************)
\* What Codex hands over was read in full: nothing before or after the turn
\* completed was a tool, an error or unreadable (inspect_events).
OnlyCleanAnswers ==
    call.at = "valid" /\ client.backend = "codex" =>
        stream.completed /\ ~stream.tool /\ ~stream.failed

\* Repairs of the answer and fresh processes for the transport multiply, and
\* never more: a back end that always errs costs a bounded number of processes.
ProcessesBounded ==
    call # Idle =>
        asked <= (1 + Repairs) * (1 + IF client.backend = "codex" THEN Retries ELSE 0)

\* The usage recorded with a turn is the turn's: never more than its answers
\* counted, nothing of an earlier turn, and no partial sum from Codex
\* ("not substituting zero").
UsageOfThisTurn ==
    call.at = "valid" /\ usage # Unknown =>
        /\ usage <= answers.counted
        /\ client.backend = "codex" => answers.uncounted = 0

\* What a turn costs is bounded, and is what is recorded with it.
CostsOfThisTurn == ProcessesBounded /\ UsageOfThisTurn

\* A delta is read by a model that was shown the whole state and knows the
\* present plan, while the conversation still has its chain: as long as no
\* resume and no repaired answer broke it.
DeltaIsKnown ==
    call.at \in {"ready", "running"} /\ call.mode = "delta" /\ ~broken =>
        Known.full /\ Known.plan = plan

\* A failed call keeps the case resumable only for a malformed Codex stream,
\* and only after every fresh process of the attempt was used (CFDWorkflow.run:
\* "already performed its bounded fresh-process retry").
BlockedAfterRetries ==
    [][call.at = "failed" /\ state' = "ENGINEERING_BLOCKED" =>
        call.cause = "malformed" /\ call.retry = Retries /\ asked > Retries]_vars

\* Every call ends, however long its progress takes to report.
CallsEnd == call # Idle ~> call = Idle
=============================================================================
