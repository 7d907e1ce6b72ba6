-------------------------- MODULE ModelTurnProofs ---------------------------
(***************************************************************************)
(* One model turn, for every number of repairs and retries, every stream   *)
(* and every conversation: what an answer was read from, what it cost, and *)
(* what a model that reads a delta was shown.                              *)
(***************************************************************************)
EXTENDS ModelTurn, WellFoundedInduction, TLAPS

Causes == {"none", "invalid", "malformed", "error"}
Plans  == 0 .. MaxPlan

Shown == [full : BOOLEAN, plan : Plans \cup {NotShown}]

Calls == [at      : {"ready", "running", "valid", "failed"},
          for     : {"intake", "engineering"},
          mode    : {"full", "delta"},
          shows   : Shown,
          chained : BOOLEAN,
          attempt : 0 .. Repairs,
          retry   : 0 .. Retries,
          cause   : Causes]

TypeOK ==
    /\ client \in {Nothing} \cup [backend : Backends, store : BOOLEAN]
    /\ plan \in Plans /\ snapshot \in Plans /\ count \in Nat
    /\ saved \in {Nothing} \cup [plan : Plans, count : Nat, snapshot : Plans]
    /\ chain \in {Nothing} \cup [full : BOOLEAN, plan : Plans \cup {NotShown}]
    /\ call \in {Idle} \cup Calls
    /\ asked \in Nat
    /\ usage \in {Unknown} \cup Nat
    /\ answers \in [counted : Nat, uncounted : Nat]
    /\ broken \in BOOLEAN

\* A call is made by a client, in the state of the caller that asked for it, and
\* only OpenAI stores responses.
CallsBelong ==
    /\ client = Nothing => state = "INIT" /\ saved = Nothing
    /\ client # Nothing => (client.store => client.backend = "openai")
    /\ call # Idle => state = IF call.for = "engineering" THEN "ENGINEERING" ELSE "INTAKE_ANALYSIS"
    /\ state \in {"INIT", "INTAKE_ANALYSIS", "INTAKE_REVIEW_REQUIRED"} => count = 0

\* Processes an attempt may start.
Tries == 1 + IF client.backend = "codex" THEN Retries ELSE 0

\* Each attempt before the present one started at most Tries processes, and the
\* present one as many as it retried.
Spent == call.attempt * Tries + call.retry

ProcessesHold ==
    call # Idle =>
        /\ client.backend # "codex" => call.retry = 0
        /\ call.at = "ready" => asked <= Spent /\ asked >= call.retry
        /\ call.at # "ready" => asked <= Spent + 1 /\ asked > call.retry
        /\ call.at = "failed" /\ call.cause = "malformed" => call.retry = Retries

UsageHolds ==
    call # Idle /\ usage # Unknown =>
        /\ usage <= answers.counted
        /\ client.backend = "codex" => answers.uncounted = 0

StreamHolds == OnlyCleanAnswers

\* What the model of the conversation knows: before a turn the plan of the
\* snapshot, after an answer the plan the prompt was built from.
KnowsOf(p) == chain # Nothing /\ chain.full /\ chain.plan = p

ConversationHolds ==
    /\ state = "ENGINEERING" /\ call = Idle /\ count > 0 /\ client.store /\ ~broken => KnowsOf(snapshot)
    /\ call # Idle /\ call.mode = "full" =>
          call.shows = [full |-> TRUE, plan |-> plan] /\ ~call.chained
    /\ call # Idle /\ call.mode = "delta" =>
          call.for = "engineering" /\ client.store /\ call.shows.plan \in {plan, NotShown}
    /\ call # Idle /\ call.chained => chain # Nothing
    /\ call.at \in {"ready", "running"} /\ call.mode = "delta" /\ ~broken =>
          /\ call.chained /\ chain.full
          /\ call.shows.plan = NotShown => chain.plan = plan
    /\ call.at = "valid" /\ call.for = "engineering" /\ client.store /\ ~broken => KnowsOf(plan)

Inv ==
    /\ TypeOK
    /\ CallsBelong
    /\ ProcessesHold
    /\ UsageHolds
    /\ StreamHolds
    /\ ConversationHolds

(***************************************************************************)
(* Arithmetic, and the first of the decisive events.                       *)
(***************************************************************************)
Less == {ss \in Nat \X Nat : ss[1] < ss[2]}

LEMMA MinIsMember ==
    ASSUME NEW S \in SUBSET Nat, S # {}
    PROVE  Min(S) \in S
<1>1. IsWellFoundedOn(Less, Nat)
  BY NatLessThanWellFounded DEF OpToRel, Less
<1>2. PICK x \in S : \A y \in S : <<y, x>> \notin Less
  BY <1>1, WFMin
<1>3. ASSUME NEW y \in S
      PROVE  x =< y
  <2>1. <<y, x>> \notin Less
    BY <1>2
  <2>2. <<y, x>> \in Nat \X Nat /\ <<y, x>>[1] = y /\ <<y, x>>[2] = x
    OBVIOUS
  <2>3. ~(y < x)
    BY <2>1, <2>2 DEF Less
  <2> QED
    BY <2>3
<1> QED
  BY <1>3 DEF Min

LEMMA ProductMonotone ==
    ASSUME NEW a \in Nat, NEW b \in Nat, NEW c \in Nat, a <= b
    PROVE  a * c <= b * c
<1>1. PICK k \in Nat : b = a + k
  <2>1. b - a \in Nat /\ b = a + (b - a)
    OBVIOUS
  <2> QED
    BY <2>1
<1>2. b * c = a * c + k * c
  BY <1>1
<1>3. k * c \in Nat /\ a * c \in Nat
  OBVIOUS
<1> QED
  BY <1>2, <1>3

LEMMA NextAttempt ==
    ASSUME NEW a \in Nat, NEW c \in Nat
    PROVE  (a + 1) * c = a * c + c /\ a * c \in Nat /\ 0 * c = 0
OBVIOUS

\* A stream that inspect_events lets through completed its turn, and none of
\* its events is a tool, an error or unreadable.
LEMMA CleanStream ==
    ASSUME NEW printed \in PrintedStreams, printed.verdict = "clean"
    PROVE  printed.completed /\ ~printed.tool /\ ~printed.failed
<1>1. PICK s \in Streams : printed = Printed(s)
  BY DEF PrintedStreams
<1>2. Inspected(s) = "clean"
  BY <1>1 DEF Printed
<1>3. Stops(s) = {}
  <2>1. SUFFICES ASSUME Stops(s) # {} PROVE FALSE
    OBVIOUS
  <2>2. Stops(s) \subseteq Nat
    BY BoundsAssumption DEF Stops, Positions, Streams
  <2>3. Min(Stops(s)) \in Stops(s)
    BY <2>1, <2>2, MinIsMember
  <2>4. s[Min(Stops(s))] \in Decisive
    BY <2>3 DEF Stops, Positions
  <2> QED
    BY <1>2, <2>1, <2>4 DEF Inspected, Decisive
<1>4. Positions(s, Completions) # {}
  BY <1>2, <1>3 DEF Inspected
<1>5. /\ Positions(s, {"tool", "unknown"}) = {}
      /\ Positions(s, {"error", "garbage", "miscounted"}) = {}
  BY <1>3 DEF Stops, Positions, Decisive
<1> QED
  BY <1>1, <1>4, <1>5 DEF Printed

(***************************************************************************)
(* The call.                                                               *)
(***************************************************************************)
LEMMA CallShape ==
    ASSUME TypeOK
    PROVE  /\ call.at # "idle" => call \in Calls /\ call # Idle
           /\ call.at = "idle" => call = Idle
           /\ call = Idle => call.at = "idle"
           /\ call # Idle => call \in Calls /\ call.at # "idle"
BY DEF TypeOK, Idle, Calls

LEMMA ClientShape ==
    ASSUME TypeOK, CallsBelong, call # Idle
    PROVE  /\ client # Nothing
           /\ client \in [backend : Backends, store : BOOLEAN]
           /\ client.store => client.backend = "openai"
BY DEF TypeOK, CallsBelong

LEMMA TriesType ==
    /\ Tries \in Nat
    /\ client.backend = "codex" => Tries = 1 + Retries
    /\ client.backend # "codex" => Tries = 1
BY BoundsAssumption DEF Tries

\* How an attempt ends: with the answer, for good, or in a further process.
Ends ==
    /\ call' \in Calls
    /\ call'.for = call.for /\ call'.mode = call.mode /\ call'.shows = call.shows
    /\ broken' \in BOOLEAN
    /\ \/ /\ call'.at \in {"valid", "failed"}
          /\ call'.chained = call.chained /\ broken' = broken
          /\ call'.attempt = call.attempt /\ call'.retry = call.retry
          /\ call'.at = "failed" /\ call'.cause = "malformed" => call.retry = Retries
       \/ /\ call'.at = "ready" /\ ~call'.chained
          /\ broken' = (broken \/ call.chained)
          /\ call'.attempt = call.attempt + 1 /\ call'.retry = 0
       \/ /\ call'.at = "ready" /\ client.backend = "codex"
          /\ call'.chained = call.chained /\ broken' = broken
          /\ call'.attempt = call.attempt /\ call'.retry = call.retry + 1

LEMMA FailedEnds ==
    ASSUME TypeOK, call.at = "running", NEW cause \in Causes, Failed(cause),
           cause = "malformed" => call.retry = Retries
    PROVE  Ends /\ call'.at = "failed"
<1>1. call \in Calls
  BY CallShape
<1> QED
  BY <1>1 DEF Failed, Ends, Calls, Causes, TypeOK

LEMMA RepairEnds ==
    ASSUME TypeOK, call.at = "running", RepairOutput
    PROVE  Ends /\ call'.at \in {"ready", "failed"}
<1>1. call \in Calls
  BY CallShape
<1>2. CASE call.attempt < Repairs
  <2> DEFINE attempt == call.attempt + 1
  <2>1. attempt \in 0 .. Repairs /\ 0 \in 0 .. Retries
    BY <1>1, <1>2, BoundsAssumption DEF Calls
  <2>2. /\ call' = [call EXCEPT !.at = "ready", !.attempt = attempt, !.retry = 0, !.chained = FALSE]
        /\ broken' = (broken \/ call.chained)
    BY <1>2 DEF RepairOutput
  <2> HIDE DEF attempt
  <2>3. /\ call' \in Calls /\ call'.at = "ready" /\ ~call'.chained
        /\ call'.attempt = attempt /\ call'.retry = 0
        /\ call'.for = call.for /\ call'.mode = call.mode /\ call'.shows = call.shows
    BY <1>1, <2>1, <2>2 DEF Calls
  <2>4. broken' \in BOOLEAN
    BY <2>2
  <2> QED
    BY <2>2, <2>3, <2>4 DEF Ends, attempt
<1>3. CASE ~(call.attempt < Repairs)
  BY <1>3, FailedEnds DEF RepairOutput, Causes
<1> QED
  BY <1>2, <1>3

LEMMA RetryEnds ==
    ASSUME TypeOK, call.at = "running", client.backend = "codex", RetryTransport
    PROVE  Ends /\ call'.at \in {"ready", "failed"}
<1>1. call \in Calls
  BY CallShape
<1>2. CASE call.retry < Retries
  <2> DEFINE retry == call.retry + 1
  <2>1. retry \in 0 .. Retries
    BY <1>1, <1>2, BoundsAssumption DEF Calls
  <2>2. call' = [call EXCEPT !.at = "ready", !.retry = retry] /\ broken' = broken
    BY <1>2 DEF RetryTransport
  <2> HIDE DEF retry
  <2>3. /\ call' \in Calls /\ call'.at = "ready" /\ call'.chained = call.chained
        /\ call'.attempt = call.attempt /\ call'.retry = retry
        /\ call'.for = call.for /\ call'.mode = call.mode /\ call'.shows = call.shows
    BY <1>1, <2>1, <2>2 DEF Calls
  <2> QED
    BY <2>2, <2>3 DEF Ends, TypeOK, retry
<1>3. CASE ~(call.retry < Retries)
  <2>1. call.retry = Retries
    BY <1>1, <1>3, BoundsAssumption DEF Calls
  <2> QED
    BY <1>3, <2>1, FailedEnds DEF RetryTransport, Causes
<1> QED
  BY <1>2, <1>3

LEMMA JudgedEnds ==
    ASSUME TypeOK, call.at = "running", NEW answer, Judged(answer)
    PROVE  Ends
<1>1. CASE answer = "valid"
  <2>1. call \in Calls
    BY CallShape
  <2> QED
    BY <1>1, <2>1 DEF Judged, Valid, Ends, Calls, TypeOK
<1>2. CASE answer = "invalid"
  BY <1>2, RepairEnds DEF Judged
<1>3. CASE answer \notin {"valid", "invalid"}
  BY <1>3, FailedEnds DEF Judged, Causes
<1> QED
  BY <1>1, <1>2, <1>3

(***************************************************************************)
(* What the end of an attempt keeps.                                       *)
(***************************************************************************)
LEMMA EndsCounted ==
    ASSUME Inv, call.at = "running", Ends, UNCHANGED <<client, state, count, asked>>
    PROVE  CallsBelong' /\ ProcessesHold'
<1>1. /\ call \in Calls /\ call # Idle /\ call' \in Calls /\ call' # Idle
      /\ call'.for = call.for /\ asked \in Nat
  BY CallShape DEF Inv, Ends, TypeOK, Calls, Idle
<1>2. CallsBelong'
  BY <1>1 DEF Inv, CallsBelong
<1> DEFINE T == Tries
           spent == call.attempt * T
<1>3. Tries' = T
  BY DEF Tries
<1>4. /\ T \in Nat /\ call.attempt \in Nat /\ call.retry \in Nat /\ call.retry + 1 <= T
      /\ client.backend # "codex" => call.retry = 0
  BY <1>1, TriesType, BoundsAssumption DEF Inv, ProcessesHold, Calls
<1>5. spent \in Nat /\ (call.attempt + 1) * T = spent + T
  BY <1>4, NextAttempt
<1>6. asked <= spent + call.retry + 1 /\ asked > call.retry
  BY <1>1 DEF Inv, ProcessesHold, Spent
<1>7. Spent' = call'.attempt * T + call'.retry
  BY <1>3 DEF Spent
<1> HIDE DEF T
<1>8. CASE /\ call'.at \in {"valid", "failed"}
           /\ call'.attempt = call.attempt /\ call'.retry = call.retry
           /\ call'.at = "failed" /\ call'.cause = "malformed" => call.retry = Retries
  <2>1. Spent' = spent + call.retry
    BY <1>7, <1>8
  <2> HIDE DEF spent
  <2> QED
    BY <1>1, <1>2, <1>4, <1>5, <1>6, <1>8, <2>1 DEF ProcessesHold
<1>9. CASE call'.at = "ready" /\ call'.attempt = call.attempt + 1 /\ call'.retry = 0
  <2>1. Spent' = spent + T
    BY <1>4, <1>5, <1>7, <1>9
  <2> HIDE DEF spent
  <2> QED
    BY <1>1, <1>2, <1>4, <1>5, <1>6, <1>9, <2>1 DEF ProcessesHold
<1>10. CASE /\ call'.at = "ready" /\ client.backend = "codex"
            /\ call'.attempt = call.attempt /\ call'.retry = call.retry + 1
  <2>1. Spent' = spent + (call.retry + 1)
    BY <1>7, <1>10
  <2> HIDE DEF spent
  <2> QED
    BY <1>1, <1>2, <1>4, <1>5, <1>6, <1>10, <2>1 DEF ProcessesHold
<1> QED
  BY <1>2, <1>8, <1>9, <1>10 DEF Ends

\* A back end that stores nothing has no conversation to continue.
LEMMA EndsUnstored ==
    ASSUME Inv, call.at = "running", Ends, ~client.store, UNCHANGED <<client, plan>>
    PROVE  ConversationHolds'
<1>1. call # Idle /\ call' # Idle /\ call \in Calls /\ call' \in Calls
  BY CallShape DEF Inv, Ends, Calls, Idle
<1>2. call.mode = "full" /\ call.shows = [full |-> TRUE, plan |-> plan] /\ ~call.chained
  BY <1>1 DEF Inv, ConversationHolds, Calls
<1>3. call'.mode = "full" /\ call'.shows = [full |-> TRUE, plan |-> plan] /\ ~call'.chained
  BY <1>2 DEF Ends
<1> QED
  BY <1>1, <1>3 DEF ConversationHolds

\* An answer counted with the usage that is reported for it.
LEMMA Counted1 ==
    ASSUME TypeOK, NEW counted \in BOOLEAN, Count(counted)
    PROVE  /\ answers' \in [counted : Nat, uncounted : Nat]
           /\ counted => answers'.counted = answers.counted + 1
                         /\ answers'.uncounted = answers.uncounted
           /\ ~counted => answers'.counted = answers.counted
                          /\ answers'.uncounted = answers.uncounted + 1
<1>1. answers \in [counted : Nat, uncounted : Nat]
  BY DEF TypeOK
<1>2. CASE counted
  BY <1>1, <1>2 DEF Count
<1>3. CASE ~counted
  BY <1>1, <1>3 DEF Count
<1> QED
  BY <1>2, <1>3

LEMMA CodexStep ==
    ASSUME Inv, CodexAnswers
    PROVE  Inv'
<1>1. /\ TypeOK /\ call.at = "running" /\ client.backend = "codex" /\ ~client.store
      /\ call # Idle /\ call \in Calls
      /\ UNCHANGED <<client, state, plan, count, snapshot, saved, chain, asked>>
  BY CallShape, ClientShape DEF CodexAnswers, Running, memory, Inv
<1>2. PICK printed \in PrintedStreams, file \in {"absent", "invalid", "valid"} :
        /\ stream' = printed
        /\ IF printed.verdict = "clean"
           THEN Count(printed.counted) /\ usage' = SummedRows(answers') /\ Judged(file)
           ELSE /\ UNCHANGED <<answers, usage>>
                /\ IF printed.verdict = "malformed" THEN RetryTransport ELSE Failed("error")
  BY DEF CodexAnswers
<1>3. printed.counted \in BOOLEAN
  <2>1. PICK s \in Streams : printed = Printed(s)
    BY DEF PrintedStreams
  <2> QED
    BY <2>1 DEF Printed, Counted
<1>4. CASE printed.verdict = "clean"
  <2>1. Ends /\ Count(printed.counted) /\ usage' = SummedRows(answers')
    BY <1>1, <1>2, <1>4, JudgedEnds
  <2>2. answers' \in [counted : Nat, uncounted : Nat]
    BY <1>1, <1>3, <2>1, Counted1
  <2>3. usage' \in {Unknown} \cup Nat /\ UsageHolds'
    BY <1>1, <2>1, <2>2 DEF SummedRows, UsageHolds, Unknown
  <2>4. stream'.completed /\ ~stream'.tool /\ ~stream'.failed
    BY <1>2, <1>4, CleanStream
  <2>5. TypeOK'
    BY <1>1, <2>1, <2>2, <2>3 DEF TypeOK, Ends
  <2>6. StreamHolds'
    BY <2>4 DEF StreamHolds, OnlyCleanAnswers
  <2> QED
    BY <1>1, <2>1, <2>3, <2>5, <2>6, EndsCounted, EndsUnstored DEF Inv
<1>5. CASE printed.verdict # "clean"
  <2>1. /\ Ends /\ call'.at \in {"ready", "failed"}
        /\ UNCHANGED <<answers, usage>>
    BY <1>1, <1>2, <1>5, FailedEnds, RetryEnds DEF Causes
  <2>2. TypeOK'
    BY <1>1, <2>1 DEF TypeOK, Ends
  <2>3. UsageHolds' /\ StreamHolds'
    BY <1>1, <2>1 DEF Inv, UsageHolds, StreamHolds, OnlyCleanAnswers
  <2> QED
    BY <1>1, <2>1, <2>2, <2>3, EndsCounted, EndsUnstored DEF Inv
<1> QED
  BY <1>4, <1>5

LEMMA ClaudeStep ==
    ASSUME Inv, ClaudeAnswers
    PROVE  Inv'
<1>1. /\ TypeOK /\ call.at = "running" /\ client.backend = "claude" /\ ~client.store
      /\ call # Idle /\ call \in Calls
      /\ UNCHANGED <<client, state, plan, count, snapshot, saved, chain, asked>>
  BY CallShape, ClientShape DEF ClaudeAnswers, Running, memory, Inv
<1>2. PICK answer \in {"invalid", "valid"}, counted \in BOOLEAN :
        Count(counted) /\ usage' = (IF counted THEN 1 ELSE usage) /\ Judged(answer)
  BY DEF ClaudeAnswers
<1>3. Ends
  BY <1>1, <1>2, JudgedEnds
<1>4. /\ answers' \in [counted : Nat, uncounted : Nat]
      /\ counted => answers'.counted = answers.counted + 1
      /\ ~counted => answers'.counted = answers.counted
      /\ answers.counted \in Nat
  BY <1>1, <1>2, Counted1 DEF TypeOK
<1>5. usage' \in {Unknown} \cup Nat /\ UsageHolds'
  BY <1>1, <1>2, <1>4 DEF Inv, UsageHolds, TypeOK, Unknown
<1>6. TypeOK' /\ StreamHolds'
  BY <1>1, <1>3, <1>4, <1>5 DEF TypeOK, Ends, StreamHolds, OnlyCleanAnswers
<1> QED
  BY <1>1, <1>3, <1>5, <1>6, EndsCounted, EndsUnstored DEF Inv

LEMMA CommandFailsStep ==
    ASSUME Inv, CommandFails
    PROVE  Inv'
<1>1. /\ TypeOK /\ call.at = "running" /\ client.backend # "openai" /\ ~client.store
      /\ call # Idle /\ Failed("error")
      /\ UNCHANGED <<client, state, plan, count, snapshot, saved, chain, asked, usage, answers,
                     stream>>
  BY CallShape, ClientShape DEF CommandFails, Commands, memory, Inv
<1>2. Ends /\ call'.at = "failed"
  BY <1>1, FailedEnds DEF Causes
<1>3. TypeOK' /\ UsageHolds' /\ StreamHolds'
  BY <1>1, <1>2 DEF Inv, TypeOK, Ends, UsageHolds, StreamHolds, OnlyCleanAnswers
<1> QED
  BY <1>1, <1>2, <1>3, EndsCounted, EndsUnstored DEF Inv

LEMMA OllamaStep ==
    ASSUME Inv, OllamaAnswers
    PROVE  Inv'
<1>1. /\ TypeOK /\ call.at = "running" /\ client.backend = "ollama" /\ ~client.store
      /\ call # Idle
      /\ UNCHANGED <<client, state, plan, count, snapshot, saved, chain, asked, stream>>
  BY CallShape, ClientShape DEF OllamaAnswers, Running, memory, Inv
<1>2. CASE Failed("error") /\ UNCHANGED <<usage, answers>>
  <2>1. Ends /\ call'.at = "failed"
    BY <1>1, <1>2, FailedEnds DEF Causes
  <2>2. TypeOK' /\ UsageHolds' /\ StreamHolds'
    BY <1>1, <1>2, <2>1 DEF Inv, TypeOK, Ends, UsageHolds, StreamHolds, OnlyCleanAnswers
  <2> QED
    BY <1>1, <2>1, <2>2, EndsCounted, EndsUnstored DEF Inv
<1>3. ASSUME NEW answer \in {"invalid", "valid"}, NEW counted \in BOOLEAN,
             Count(counted), usage' = KnownRows(answers'), Judged(answer)
      PROVE  Inv'
  <2>1. Ends
    BY <1>1, <1>3, JudgedEnds
  <2>2. answers' \in [counted : Nat, uncounted : Nat]
    BY <1>1, <1>3, Counted1
  <2>3. usage' \in {Unknown} \cup Nat /\ UsageHolds'
    BY <1>1, <1>3, <2>2 DEF KnownRows, UsageHolds, Unknown
  <2>4. TypeOK' /\ StreamHolds'
    BY <1>1, <2>1, <2>2, <2>3 DEF TypeOK, Ends, StreamHolds, OnlyCleanAnswers
  <2> QED
    BY <1>1, <2>1, <2>3, <2>4, EndsCounted, EndsUnstored DEF Inv
<1> QED
  BY <1>2, <1>3 DEF OllamaAnswers

LEMMA ShownIsSomething ==
    ASSUME NEW shown \in Shown
    PROVE  shown # Nothing
BY DEF Shown, Nothing

\* After an answer of a stored conversation its model knows the plan the prompt
\* was built from, unless the conversation was broken.
LEMMA KnownAfter ==
    ASSUME Inv, call.at = "running"
    PROVE  /\ Known \in Shown
           /\ ~broken => Known.full /\ Known.plan = plan
<1>1. /\ call \in Calls /\ call # Idle /\ call.shows \in Shown /\ plan \in Plans
      /\ chain # Nothing => chain \in Shown
  BY CallShape DEF Inv, TypeOK, Calls, Shown
<1>2. /\ call.mode \in {"full", "delta"}
      /\ call.mode = "full" => call.shows = [full |-> TRUE, plan |-> plan] /\ ~call.chained
      /\ call.mode = "delta" => call.shows.plan \in {plan, NotShown}
      /\ call.chained => chain # Nothing
      /\ call.mode = "delta" /\ ~broken =>
            call.chained /\ chain.full /\ (call.shows.plan = NotShown => chain.plan = plan)
  BY <1>1 DEF Inv, ConversationHolds, Calls
<1>3. plan # NotShown
  BY <1>1, BoundsAssumption DEF Plans, NotShown
<1>4. CASE call.chained
  <2>1. /\ Known.full = (call.shows.full \/ chain.full)
        /\ Known.plan = IF call.shows.plan # NotShown THEN call.shows.plan ELSE chain.plan
        /\ Known \in Shown
    BY <1>1, <1>2, <1>4 DEF Known, Shown
  <2> QED
    BY <1>2, <1>3, <1>4, <2>1
<1>5. CASE ~call.chained
  BY <1>1, <1>2, <1>5 DEF Known
<1> QED
  BY <1>4, <1>5

LEMMA OpenAIStep ==
    ASSUME Inv, OpenAIAnswers
    PROVE  Inv'
<1>1. /\ TypeOK /\ call.at = "running" /\ client.backend = "openai"
      /\ call # Idle /\ call \in Calls
      /\ UNCHANGED <<client, state, plan, count, snapshot, saved, asked, stream>>
  BY CallShape, ClientShape DEF OpenAIAnswers, Running, memory, Inv
<1>2. ASSUME Failed("error") \/ RepairOutput, UNCHANGED <<chain, usage, answers>>
      PROVE  Inv'
  <2>1. Ends /\ call'.at \in {"ready", "failed"}
    BY <1>1, <1>2, FailedEnds, RepairEnds DEF Causes
  <2>2. TypeOK' /\ UsageHolds' /\ StreamHolds'
    BY <1>1, <1>2, <2>1 DEF Inv, TypeOK, Ends, UsageHolds, StreamHolds, OnlyCleanAnswers
  <2>3. call' # Idle /\ call' \in Calls
    BY <2>1 DEF Ends, Calls, Idle
  <2>4. ConversationHolds'
    BY <1>1, <1>2, <2>1, <2>3 DEF Inv, ConversationHolds, Ends, Calls
  <2> QED
    BY <1>1, <2>1, <2>2, <2>4, EndsCounted DEF Inv
<1>3. ASSUME NEW answer, NEW counted \in BOOLEAN,
             Count(counted), usage' = (IF counted THEN 1 ELSE Unknown), Judged(answer),
             chain' = IF client.store /\ call.for = "engineering" THEN Known ELSE chain
      PROVE  Inv'
  <2>1. Ends /\ call' # Idle /\ call' \in Calls
    BY <1>1, <1>3, JudgedEnds DEF Ends, Calls, Idle
  <2>2. /\ answers' \in [counted : Nat, uncounted : Nat]
        /\ counted => answers'.counted = answers.counted + 1
        /\ answers.counted \in Nat
    BY <1>1, <1>3, Counted1 DEF TypeOK
  <2>3. usage' \in {Unknown} \cup Nat /\ UsageHolds'
    BY <1>1, <1>3, <2>2 DEF UsageHolds, Unknown
  <2>4. Known \in Shown /\ Known # Nothing /\ (~broken => Known.full /\ Known.plan = plan)
    BY <1>1, KnownAfter, ShownIsSomething
  <2>5. chain' \in {Nothing} \cup Shown /\ (chain # Nothing => chain' # Nothing)
    BY <1>1, <1>3, <2>4 DEF TypeOK, Shown
  <2>6. TypeOK' /\ StreamHolds'
    BY <1>1, <2>1, <2>2, <2>3, <2>5 DEF TypeOK, Ends, StreamHolds, OnlyCleanAnswers, Shown
  <2>7. ConversationHolds'
    <3>1. /\ call'.mode = "full" =>
                call'.shows = [full |-> TRUE, plan |-> plan'] /\ ~call'.chained
          /\ call'.mode = "delta" =>
                call'.for = "engineering" /\ client'.store /\ call'.shows.plan \in {plan', NotShown}
          /\ call'.chained => chain' # Nothing
      BY <1>1, <2>1, <2>5 DEF Inv, ConversationHolds, Ends
    <3>2. ~(call'.at \in {"ready", "running"} /\ call'.mode = "delta" /\ ~broken')
      BY <1>1, <2>1 DEF Inv, ConversationHolds, Ends
    <3>3. call'.at = "valid" /\ call'.for = "engineering" /\ client'.store /\ ~broken' =>
             KnowsOf(plan)'
      <4> SUFFICES ASSUME call'.at = "valid", call'.for = "engineering", client'.store, ~broken'
                   PROVE  KnowsOf(plan)'
        OBVIOUS
      <4>1. chain' = Known /\ ~broken /\ plan' = plan
        BY <1>1, <1>3, <2>1 DEF Ends
      <4> QED
        BY <2>4, <4>1 DEF KnowsOf
    <3> QED
      BY <2>1, <3>1, <3>2, <3>3 DEF ConversationHolds
  <2> QED
    BY <1>1, <2>1, <2>3, <2>6, <2>7, EndsCounted DEF Inv
<1> QED
  BY <1>2, <1>3 DEF OpenAIAnswers

(***************************************************************************)
(* The other steps.                                                        *)
(***************************************************************************)
Saves == [plan : Plans, count : Nat, snapshot : Plans]

LEMMA InitStep == Init => Inv
<1> SUFFICES ASSUME Init PROVE Inv
  OBVIOUS
<1>1. TypeOK
  <2>1. 0 \in Plans
    BY BoundsAssumption DEF Plans
  <2>2. answers \in [counted : Nat, uncounted : Nat]
    BY DEF Init
  <2> QED
    BY <2>1, <2>2 DEF Init, TypeOK
<1>2. call = Idle /\ call.at = "idle"
  BY DEF Init, Idle
<1> QED
  BY <1>1, <1>2
     DEF Init, Inv, CallsBelong, ProcessesHold, UsageHolds, StreamHolds, OnlyCleanAnswers,
         ConversationHolds, Nothing

LEMMA ChooseBackendStep ==
    ASSUME Inv, ChooseBackend
    PROVE  Inv'
<1>1. /\ client = Nothing /\ state = "INIT" /\ state' = "INTAKE_ANALYSIS"
      /\ UNCHANGED <<plan, count, snapshot, saved, chain, call, asked, usage, answers, stream, broken>>
  BY DEF ChooseBackend, memory
<1>2. PICK backend \in Backends, store \in BOOLEAN :
        /\ store => backend = "openai"
        /\ client' = [backend |-> backend, store |-> store]
  BY DEF ChooseBackend
<1>3. client'.backend = backend /\ client'.store = store
      /\ client' \in [backend : Backends, store : BOOLEAN] /\ client' # Nothing
  BY <1>2 DEF Nothing
<1>4. call = Idle /\ call.at = "idle" /\ call' = Idle /\ call'.at = "idle" /\ count = 0
  BY <1>1 DEF Inv, TypeOK, CallsBelong, Idle, Calls
<1>5. TypeOK'
  BY <1>1, <1>3 DEF Inv, TypeOK
<1> QED
  BY <1>1, <1>2, <1>3, <1>4, <1>5
     DEF Inv, CallsBelong, ProcessesHold, UsageHolds, StreamHolds, OnlyCleanAnswers,
         ConversationHolds

\* A prompt is the whole state, or a delta to a model that knows the snapshot.
LEMMA BeginStep ==
    ASSUME Inv, call = Idle,
           NEW asker \in {"intake", "engineering"}, NEW prompt \in {FullPrompt, DeltaPrompt},
           NEW chained \in BOOLEAN, Begin(asker, prompt, chained),
           state = IF asker = "engineering" THEN "ENGINEERING" ELSE "INTAKE_ANALYSIS",
           prompt.mode = "full" => ~chained,
           prompt.mode = "delta" =>
               asker = "engineering" /\ client.store /\ count > 0 /\ chained = (chain # Nothing),
           UNCHANGED <<client, state, plan, count, snapshot, chain>>,
           saved' \in {Nothing} \cup Saves
    PROVE  Inv'
<1>1. plan \in Plans /\ snapshot \in Plans /\ plan # NotShown
  BY BoundsAssumption DEF Inv, TypeOK, Plans, NotShown
<1>2. /\ prompt.mode \in {"full", "delta"} /\ prompt.shows \in Shown
      /\ prompt.mode = "full" => prompt.shows = [full |-> TRUE, plan |-> plan]
      /\ prompt.mode = "delta" =>
            prompt.shows.plan = IF snapshot # plan THEN plan ELSE NotShown
  <2>1. CASE prompt = FullPrompt
    BY <1>1, <2>1 DEF FullPrompt, Shown
  <2>2. CASE prompt = DeltaPrompt
    <3>1. /\ prompt.mode = "delta"
          /\ prompt.shows = [full |-> FALSE, plan |-> IF snapshot # plan THEN plan ELSE NotShown]
      BY <2>2 DEF DeltaPrompt
    <3>2. prompt.shows.plan = IF snapshot # plan THEN plan ELSE NotShown
      BY <3>1
    <3>3. prompt.shows \in Shown
      BY <1>1, <3>1 DEF Shown
    <3> QED
      BY <3>1, <3>2, <3>3
  <2> QED
    BY <2>1, <2>2
<1>3. /\ call'.at = "ready" /\ call'.for = asker /\ call'.mode = prompt.mode
      /\ call'.shows = prompt.shows /\ call'.chained = chained
      /\ call'.attempt = 0 /\ call'.retry = 0 /\ call'.cause = "none"
      /\ asked' = 0 /\ usage' = Unknown /\ answers' = [counted |-> 0, uncounted |-> 0]
      /\ broken' = (broken /\ prompt.mode = "delta")
  BY DEF Begin
<1>4. call' \in Calls /\ call' # Idle
  <2>1. /\ call' = [at |-> "ready", for |-> asker, mode |-> prompt.mode, shows |-> prompt.shows,
                    chained |-> chained, attempt |-> 0, retry |-> 0, cause |-> "none"]
        /\ 0 \in 0 .. Repairs /\ 0 \in 0 .. Retries /\ "none" \in Causes
    BY BoundsAssumption DEF Begin, Causes
  <2>2. call' \in Calls
    BY <1>2, <2>1 DEF Calls
  <2> QED
    BY <1>3, <2>2 DEF Idle
<1>5. TypeOK'
  BY <1>3, <1>4 DEF Inv, TypeOK, Saves
<1>6. CallsBelong'
  BY <1>3 DEF Inv, CallsBelong
<1>7. ProcessesHold'
  <2>1. Spent' = 0 * Tries + 0
    BY <1>3 DEF Spent, Tries
  <2>2. Spent' = 0
    BY <2>1, TriesType
  <2> QED
    BY <1>3, <2>2 DEF ProcessesHold
<1>8. UsageHolds' /\ StreamHolds'
  BY <1>3 DEF UsageHolds, StreamHolds, OnlyCleanAnswers
<1>9. prompt.mode = "delta" /\ ~broken => KnowsOf(snapshot)
  BY DEF Inv, ConversationHolds
<1>10. ConversationHolds'
  BY <1>1, <1>2, <1>3, <1>4, <1>9 DEF ConversationHolds, KnowsOf
<1> QED
  BY <1>5, <1>6, <1>7, <1>8, <1>10 DEF Inv

LEMMA AskIntakeStep ==
    ASSUME Inv, AskIntake
    PROVE  Inv'
<1>1. /\ state = "INTAKE_ANALYSIS" /\ call = Idle /\ Begin("intake", FullPrompt, FALSE)
      /\ UNCHANGED <<client, state, plan, count, snapshot, saved, chain>>
  BY DEF AskIntake, memory
<1>2. FullPrompt.mode = "full"
  BY DEF FullPrompt
<1>3. saved' \in {Nothing} \cup Saves
  BY <1>1 DEF Inv, TypeOK, Saves
<1> QED
  BY <1>1, <1>2, <1>3, BeginStep

LEMMA AskTurnStep ==
    ASSUME Inv, AskTurn
    PROVE  Inv'
<1>1. /\ state = "ENGINEERING" /\ call = Idle
      /\ UNCHANGED <<client, state, plan, count, snapshot, chain>>
      /\ saved' = [plan |-> plan, count |-> count, snapshot |-> snapshot]
  BY DEF AskTurn
<1>2. PICK admits \in BOOLEAN :
        Begin("engineering", IF UseDelta(admits) THEN DeltaPrompt ELSE FullPrompt,
              UseDelta(admits) /\ chain # Nothing)
  BY DEF AskTurn
<1>3. saved' \in {Nothing} \cup Saves
  BY <1>1 DEF Inv, TypeOK, Saves
<1>4. FullPrompt.mode = "full" /\ DeltaPrompt.mode = "delta"
  BY DEF FullPrompt, DeltaPrompt
<1>5. CASE UseDelta(admits)
  <2>1. Begin("engineering", DeltaPrompt, chain # Nothing) /\ client.store /\ count > 0
    BY <1>2, <1>5 DEF UseDelta, Begin
  <2> QED
    BY <1>1, <1>3, <1>4, <2>1, BeginStep
<1>6. CASE ~UseDelta(admits)
  <2>1. Begin("engineering", FullPrompt, FALSE)
    BY <1>2, <1>6 DEF Begin
  <2> QED
    BY <1>1, <1>3, <1>4, <2>1, BeginStep
<1> QED
  BY <1>5, <1>6

LEMMA StartStep ==
    ASSUME Inv, Start
    PROVE  Inv'
<1>1. /\ call.at = "ready" /\ call' = [call EXCEPT !.at = "running"] /\ asked' = asked + 1
      /\ UNCHANGED <<client, state, plan, count, snapshot, saved, chain, usage, answers, stream, broken>>
      /\ call \in Calls /\ call # Idle
  BY CallShape DEF Start, memory, Inv
<1>2. /\ call' \in Calls /\ call' # Idle /\ call'.at = "running"
      /\ call'.for = call.for /\ call'.mode = call.mode /\ call'.shows = call.shows
      /\ call'.chained = call.chained /\ call'.attempt = call.attempt
      /\ call'.retry = call.retry
  BY <1>1 DEF Calls, Idle
<1>3. TypeOK'
  BY <1>1, <1>2 DEF Inv, TypeOK
<1>4. ProcessesHold'
  <2>1. Spent' = Spent
    BY <1>1, <1>2 DEF Spent, Tries
  <2>2. asked \in Nat /\ Spent \in Nat /\ call.retry \in Nat
    BY <1>1, TriesType, BoundsAssumption, NextAttempt DEF Inv, TypeOK, Spent, Calls
  <2> QED
    BY <1>1, <1>2, <2>1, <2>2 DEF Inv, ProcessesHold
<1>5. CallsBelong' /\ UsageHolds' /\ StreamHolds'
  BY <1>1, <1>2 DEF Inv, CallsBelong, UsageHolds, StreamHolds, OnlyCleanAnswers
<1>6. ConversationHolds'
  BY <1>1, <1>2 DEF Inv, ConversationHolds
<1> QED
  BY <1>3, <1>4, <1>5, <1>6 DEF Inv

\* After a call ended, and after what the caller does between calls.
LEMMA IdleAfter ==
    ASSUME call' = Idle, TypeOK', CallsBelong',
           state' = "ENGINEERING" /\ count' > 0 /\ client'.store /\ ~broken' => KnowsOf(snapshot)'
    PROVE  Inv'
<1>1. call'.at = "idle"
  BY DEF Idle
<1> QED
  BY <1>1 DEF Inv, ProcessesHold, UsageHolds, StreamHolds, OnlyCleanAnswers, ConversationHolds

LEMMA CallerStep ==
    ASSUME Inv, ContextRefused \/ IntakeReturned \/ Confirm \/ CallFailed
    PROVE  Inv'
<1>1. /\ UNCHANGED <<client, plan, count, snapshot, chain, asked, usage, answers, broken>>
      /\ call' = Idle
  <2>1. CASE Confirm
    BY <2>1 DEF Confirm, Inv, CallsBelong
  <2> QED
    BY <2>1 DEF ContextRefused, IntakeReturned, CallFailed, memory
<1>2. saved' \in {Nothing} \cup Saves
  BY DEF ContextRefused, IntakeReturned, Confirm, CallFailed, memory, Inv, TypeOK, Saves
<1>3. TypeOK'
  BY <1>1, <1>2 DEF Inv, TypeOK, Saves
<1>4. CASE ContextRefused
  <2>1. state' = "ENGINEERING_BLOCKED" /\ state = "ENGINEERING"
    BY <1>4 DEF ContextRefused
  <2>2. CallsBelong'
    BY <1>1, <2>1 DEF Inv, CallsBelong
  <2> QED
    BY <1>1, <1>3, <2>1, <2>2, IdleAfter
<1>5. CASE IntakeReturned
  <2>1. /\ state = "INTAKE_ANALYSIS"
        /\ state' \in {"INTAKE_REVIEW_REQUIRED", "NEEDS_CLARIFICATION", "INTAKE_ANALYSIS", "FAILED"}
    BY <1>5, CallShape DEF IntakeReturned, Inv, CallsBelong
  <2>2. CallsBelong'
    BY <1>1, <2>1 DEF Inv, CallsBelong
  <2> QED
    BY <1>1, <1>3, <2>1, <2>2, IdleAfter
<1>6. CASE Confirm
  <2>1. state' = "ENGINEERING" /\ state = "INTAKE_REVIEW_REQUIRED" /\ count = 0
    BY <1>6 DEF Confirm, Inv, CallsBelong
  <2>2. CallsBelong'
    BY <1>1, <2>1 DEF Inv, CallsBelong
  <2> QED
    BY <1>1, <1>3, <2>1, <2>2, IdleAfter
<1>7. CASE CallFailed
  <2>1. call # Idle /\ state # "INIT" /\ state' \in {"ENGINEERING_BLOCKED", "FAILED"}
    <3>1. call # Idle /\ call \in Calls
      BY <1>7, CallShape DEF CallFailed, Inv
    <3> QED
      BY <1>7, <3>1 DEF CallFailed, Route, Inv, CallsBelong
  <2>2. CallsBelong'
    BY <1>1, <2>1 DEF Inv, CallsBelong
  <2> QED
    BY <1>1, <1>3, <2>1, <2>2, IdleAfter
<1> QED
  BY <1>4, <1>5, <1>6, <1>7

\* The snapshot is taken of the plan the answer was given to.
LEMMA TurnReturnedStep ==
    ASSUME Inv, TurnReturned
    PROVE  Inv'
<1>1. /\ call.at = "valid" /\ call.for = "engineering" /\ call' = Idle
      /\ plan' \in Plans /\ count' = count + 1 /\ snapshot' = plan
      /\ saved' = [plan |-> plan', count |-> count', snapshot |-> snapshot']
      /\ UNCHANGED <<client, state, chain, asked, usage, answers, broken>>
  BY DEF TurnReturned, PromptedPlan, Plans
<1>2. call # Idle /\ state = "ENGINEERING"
  BY <1>1, CallShape DEF Inv, CallsBelong
<1>3. TypeOK'
  BY <1>1 DEF Inv, TypeOK
<1>4. CallsBelong'
  BY <1>1, <1>2 DEF Inv, CallsBelong
<1>5. client.store /\ ~broken => KnowsOf(plan)
  BY <1>1 DEF Inv, ConversationHolds
<1>6. client'.store /\ ~broken' => KnowsOf(snapshot)'
  BY <1>1, <1>5 DEF KnowsOf
<1> QED
  BY <1>1, <1>3, <1>4, <1>6, IdleAfter

LEMMA BeatStep ==
    ASSUME Inv, Beat \/ UNCHANGED vars
    PROVE  Inv'
<1>1. UNCHANGED <<client, state, plan, count, snapshot, saved, chain, call, asked, usage, answers,
                  stream, broken>>
  BY DEF Beat, memory, vars
<1> QED
  BY <1>1
     DEF Inv, TypeOK, CallsBelong, ProcessesHold, Spent, Tries, UsageHolds, StreamHolds,
         OnlyCleanAnswers, ConversationHolds, KnowsOf

\* A resumed conversation that has had turns is broken until a full prompt.
LEMMA ResumeStep ==
    ASSUME Inv, Resume
    PROVE  Inv'
<1>1. /\ saved \in Saves /\ state' = "ENGINEERING" /\ call' = Idle
      /\ plan' = saved.plan /\ count' = saved.count /\ snapshot' = saved.snapshot
      /\ chain' = Nothing /\ usage' = Unknown /\ asked' = 0
      /\ answers' = [counted |-> 0, uncounted |-> 0] /\ broken' = (saved.count > 0)
      /\ UNCHANGED <<client, saved>>
  BY DEF Resume, Inv, TypeOK, Saves
<1>2. TypeOK'
  BY <1>1 DEF Inv, TypeOK, Saves
<1>3. saved # Nothing
  BY DEF Resume
<1>4. CallsBelong'
  BY <1>1, <1>3 DEF Inv, CallsBelong
<1>5. count' > 0 => broken'
  BY <1>1
<1> QED
  BY <1>1, <1>2, <1>4, <1>5, IdleAfter

LEMMA InvStep ==
    ASSUME Inv, [Next]_vars
    PROVE  Inv'
BY ChooseBackendStep, AskIntakeStep, AskTurnStep, StartStep, CodexStep, ClaudeStep,
   CommandFailsStep, OpenAIStep, OllamaStep, CallerStep, TurnReturnedStep, BeatStep, ResumeStep
   DEF Next, CallStep

LEMMA Invariance == Spec => []Inv
<1>1. Inv /\ [Next]_vars => Inv'
  BY InvStep
<1> QED
  BY InitStep, <1>1, PTL DEF Spec

(***************************************************************************)
(* What it means for a turn.                                               *)
(***************************************************************************)
\* Whatever a Codex process prints, an answer it hands over was read to the end
\* of the turn and had no tool, no error and nothing unreadable before or after
\* it (inspect_events).
THEOREM OnlyCleanAnswersCorrect == Spec => []OnlyCleanAnswers
<1>1. Inv => OnlyCleanAnswers
  BY DEF Inv, StreamHolds
<1> QED
  BY <1>1, Invariance, PTL

\* A turn starts at most one process for each attempt and retry it may make, and
\* the usage recorded with it is of its own answers (_run_once, usage_attempts).
THEOREM CostsOfThisTurnCorrect == Spec => []CostsOfThisTurn
<1>1. Inv => ProcessesBounded
  <2> SUFFICES ASSUME Inv, call # Idle
               PROVE  asked <= (1 + Repairs) * Tries
    BY DEF ProcessesBounded, Tries
  <2>1. /\ call \in Calls /\ asked \in Nat
        /\ client.backend # "codex" => call.retry = 0
        /\ asked <= Spent + 1
    <3>1. call \in Calls /\ asked \in Nat
      BY CallShape DEF Inv, TypeOK
    <3>2. Spent \in Nat
      BY <3>1, TriesType, BoundsAssumption, NextAttempt DEF Spent, Calls
    <3> QED
      BY <3>1, <3>2 DEF Inv, ProcessesHold
  <2>2. /\ Tries \in Nat /\ call.attempt \in Nat /\ call.retry \in Nat /\ call.retry + 1 <= Tries
        /\ call.attempt + 1 \in Nat /\ 1 + Repairs \in Nat /\ call.attempt + 1 <= 1 + Repairs
    BY <2>1, TriesType, BoundsAssumption DEF Calls
  <2>3. Spent + 1 <= (call.attempt + 1) * Tries
    <3>1. (call.attempt + 1) * Tries = call.attempt * Tries + Tries /\ call.attempt * Tries \in Nat
      BY <2>2, NextAttempt
    <3> QED
      BY <2>2, <3>1 DEF Spent
  <2>4. (call.attempt + 1) * Tries <= (1 + Repairs) * Tries
    BY <2>2, ProductMonotone
  <2>5. Spent \in Nat /\ (call.attempt + 1) * Tries \in Nat /\ (1 + Repairs) * Tries \in Nat
    BY <2>2, NextAttempt DEF Spent
  <2> QED
    BY <2>1, <2>3, <2>4, <2>5
<1>2. Inv => UsageOfThisTurn
  BY CallShape DEF Inv, UsageHolds, UsageOfThisTurn
<1> QED
  BY <1>1, <1>2, Invariance, PTL DEF CostsOfThisTurn

\* A model that reads a delta was shown the whole state and knows the plan, over
\* every order of turns, prompts and answers, as long as neither a resume nor a
\* repaired answer broke the chain of responses (context_controller.py).
THEOREM DeltaIsKnownCorrect == Spec => []DeltaIsKnown
<1>1. Inv => DeltaIsKnown
  <2> SUFFICES ASSUME Inv, call.at \in {"ready", "running"}, call.mode = "delta", ~broken
               PROVE  Known.full /\ Known.plan = plan
    BY DEF DeltaIsKnown
  <2>1. call # Idle
    BY CallShape DEF Inv
  <2>2. /\ call.chained /\ chain.full /\ call.shows.plan \in {plan, NotShown}
        /\ call.shows.plan = NotShown => chain.plan = plan
    BY <2>1 DEF Inv, ConversationHolds
  <2> QED
    BY <2>2 DEF Known
<1> QED
  BY <1>1, Invariance, PTL

\* A failed call leaves the case to be resumed only after every fresh process of
\* its last attempt printed a stream that could not be read (CFDWorkflow.run).
THEOREM BlockedAfterRetriesCorrect == Spec => BlockedAfterRetries
<1>1. ASSUME Inv, [Next]_vars, call.at = "failed", state' = "ENGINEERING_BLOCKED"
      PROVE  call.cause = "malformed" /\ call.retry = Retries /\ asked > Retries
  <2>1. call # Idle /\ state \in {"ENGINEERING", "INTAKE_ANALYSIS"}
    BY <1>1, CallShape DEF Inv, CallsBelong
  <2>2. CallFailed
    BY <1>1, <2>1
       DEF Next, CallStep, ChooseBackend, AskIntake, Confirm, AskTurn, ContextRefused, Start,
           CodexAnswers, ClaudeAnswers, CommandFails, OpenAIAnswers, OllamaAnswers, Running,
           IntakeReturned, TurnReturned, Beat, Resume, vars
  <2>3. call.cause = "malformed"
    BY <1>1, <2>2 DEF CallFailed, Route
  <2> QED
    BY <1>1, <2>1, <2>3 DEF Inv, ProcessesHold
<1>2. Inv /\ [Next]_vars =>
        (call.at = "failed" /\ state' = "ENGINEERING_BLOCKED" =>
            call.cause = "malformed" /\ call.retry = Retries /\ asked > Retries)
  BY <1>1
<1> QED
  BY <1>2, Invariance, PTL DEF Spec, BlockedAfterRetries
=============================================================================
