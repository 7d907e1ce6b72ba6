------------------------------- MODULE Session -------------------------------
(***************************************************************************)
(* The interactive session of the command line (cli.py, conversation.py)   *)
(* around the workflow: the user writes turns, each analysis of them       *)
(* leaves an intake to confirm, and a confirmed intake becomes a case in a *)
(* directory of its own, which waits at a human gate.                      *)
(*                                                                         *)
(* A workflow run is one step here, with every state it can end in; what   *)
(* happens inside is Workflow's.  A one-shot call is a session of one      *)
(* action.  last_state and confirmed_intake_digest are only printed.       *)
(***************************************************************************)
EXTENDS Requirements, FiniteSetsExt, Functions

CONSTANTS
    Turns,        \* what the user may write
    SetTurns,     \* what /set may write
    Modes,        \* interaction modes, "strict" among them
    MaxTurns,     \* bound: turns of a conversation
    Drafts,       \* what the model may draft
    MaxRuns,      \* bound: workflow runs of a process
    MaxSessions   \* bound: sessions of a process

ASSUME SessionAssumption ==
    /\ \A t \in Turns \cup SetTurns :
         /\ t.assigns \in Seq(Assignment) /\ t.cancels \in Seq(Keys)
         /\ t.loose \subseteq Values /\ t.asks \in BOOLEAN
         /\ t.decides \in {"yes", "no", "silent"}
    /\ Modes \subseteq {"easy", "guided", "strict"}
    /\ Drafts \subseteq Draft
    /\ MaxTurns \in Nat \ {0} /\ MaxRuns \in Nat /\ MaxSessions \in Nat

VARIABLES
    interactive,  \* --interactive
    dry,          \* --dry-run
    mode,
    session_id, attempts,
    turns,
    intake,       \* pending_intake, with the turns it was drafted for
    case,         \* pending_workflow_state: its state, the turns and the mode it
                  \* was confirmed with, whether choices were left to the agent,
                  \* its directory and the gate before a review
    built,        \* history: the directories cases were built in
    runs          \* history: workflow runs so far

vars == <<interactive, dry, mode, session_id, attempts, turns, intake, case, built, runs>>
process == <<interactive, dry>>

\* SOLVE_READY stands for MESH_READY too, and FAILED for every state that waits
\* at no gate of the session.
ReviewGates  == {"SOLVE_READY", "RESULT_REVIEW_REQUIRED"}
WaitingGates == ReviewGates \cup {"REVISION_READY"}

Init ==
    /\ interactive \in BOOLEAN /\ dry \in BOOLEAN
    /\ mode \in Modes
    /\ session_id = 1
    /\ attempts = 0
    /\ turns = <<>>
    /\ intake = None
    /\ case = None
    /\ built = <<>>
    /\ runs = 0
----------------------------------------------------------------------------
(* CFDWorkflow.run.                                                         *)

Conversations == UNION {[1 .. n -> Turns \cup SetTurns] : n \in 1 .. MaxTurns}

Accepted == [c \in Conversations |-> {d \in Drafts : Accepts(c, d)}]

\* Of new turns: a draft that was accepted, at the first or at a later attempt,
\* or FAILED, which has no intake.
Analyses(conversation) ==
    {[for |-> conversation, draft |-> d] : d \in Accepted[conversation]} \cup {None}

\* Of a confirmed intake.
Prepared == {"FAILED", IF dry THEN "CASE_PREVIEW_READY" ELSE "SOLVE_READY"}
\* Of an approved case.
Executed == {"FAILED", "RESULT_REVIEW_REQUIRED"}
\* Of a confirmed revision, which may also be put back for another try.
Revised  == Prepared \cup {"REVISION_READY"}

Confirmable == intake # None /\ intake.draft.status = "ready_for_review"

\* exploratory_completion_authorized
Delegated(conversation) ==
    LET decided == {i \in DOMAIN conversation : conversation[i].decides # "silent"}
    IN IF mode = "strict" THEN FALSE
       ELSE IF decided = {} THEN mode = "easy"
       ELSE conversation[Max(decided)].decides = "yes"

NewCase(state, conversation, dir) ==
    [state |-> state, of |-> conversation, mode |-> mode,
     delegated |-> Delegated(conversation), dir |-> dir, before |-> None]

At(states) == case # None /\ case.state \in states
----------------------------------------------------------------------------
(* Commands that change the conversation take the intake and the case with  *)
(* them (_invalidate_intake).                                               *)

\* The slip of keeping the case while the intake goes.
KeepCase == intake' = None /\ UNCHANGED case

Invalidate == intake' = None /\ case' = None

\* next_attempt
Attempt ==
    /\ runs < MaxRuns
    /\ runs' = runs + 1
    /\ attempts' = attempts + 1

Analyse(conversation) ==
    /\ Attempt
    /\ intake' \in Analyses(conversation)

AddTurn(t) ==
    /\ Len(turns) < MaxTurns
    /\ turns' = Append(turns, t)
    /\ Analyse(Append(turns, t))
    /\ case' = None

\* A prompt is refused while a case waits.
Prompt(t) ==
    /\ interactive
    /\ ~At(WaitingGates)
    /\ AddTurn(t)
    /\ UNCHANGED <<process, mode, session_id, built>>

\* /set is not.
SetFact(t) ==
    /\ interactive
    /\ AddTurn(t)
    /\ UNCHANGED <<process, mode, session_id, built>>

Edit(t) ==
    /\ interactive
    /\ turns # <<>>
    /\ turns' = [turns EXCEPT ![Len(turns)] = t]
    /\ Analyse(turns')
    /\ case' = None
    /\ UNCHANGED <<process, mode, session_id, built>>

Undo ==
    /\ interactive
    /\ turns # <<>>
    /\ turns' = Front(turns)
    /\ Invalidate
    /\ UNCHANGED <<process, mode, session_id, attempts, built, runs>>

\* The slip of starting the next session under the old identifier.
ResetKeepingId ==
    /\ session_id < MaxSessions
    /\ session_id' = session_id
    /\ attempts' = 0

\* ConversationSession.reset: a new identifier, and attempts from the start.
Reset ==
    /\ session_id < MaxSessions
    /\ session_id' = session_id + 1
    /\ attempts' = 0

New ==
    /\ interactive
    /\ Reset
    /\ turns' = <<>>
    /\ Invalidate
    /\ UNCHANGED <<process, mode, built, runs>>

\* /run: another intake of the same turns; a case that waits is kept.
Run ==
    /\ interactive
    /\ turns # <<>>
    /\ Analyse(turns)
    /\ UNCHANGED <<process, mode, session_id, turns, case, built>>

SetMode(m) ==
    /\ interactive
    /\ mode' = m
    /\ UNCHANGED <<process, session_id, attempts, turns, intake, case, built, runs>>
----------------------------------------------------------------------------
(* Commands on the intake and the case.                                     *)

Confirm ==
    /\ interactive
    /\ ~At({"REVISION_READY"})
    /\ Confirmable
    /\ Attempt
    /\ \E s \in Prepared : case' = NewCase(s, turns, <<session_id, attempts'>>)
    /\ built' = Append(built, <<session_id, attempts'>>)
    /\ UNCHANGED <<process, mode, session_id, turns, intake>>

\* What a command leaves of the case in its directory.
MoveCase(states) ==
    /\ \E s \in states : case' = [case EXCEPT !.state = s]
    /\ UNCHANGED <<process, mode, session_id, attempts, turns, intake, built, runs>>

\* A raised exception blocks a revision that had begun.
ConfirmRevision ==
    /\ interactive
    /\ At({"REVISION_READY"})
    /\ MoveCase(Revised)

\* The review proposes a revision of the case or of the intake, or nothing; or
\* it raises.
Feedback ==
    /\ interactive
    /\ At(ReviewGates)
    /\ \/ MoveCase({case.state, "FAILED"})
       \/ /\ case' = [case EXCEPT !.state = "REVISION_READY", !.before = case.state]
          /\ UNCHANGED <<process, mode, session_id, attempts, turns, intake, built, runs>>

Reject ==
    /\ interactive
    /\ At({"REVISION_READY"})
    /\ MoveCase({case.before})

Accept ==
    /\ interactive
    /\ At({"RESULT_REVIEW_REQUIRED"})
    /\ MoveCase({"RESULT_REVIEW_REQUIRED", "COMPLETE"})

Solve ==
    /\ interactive
    /\ ~dry
    /\ At({"SOLVE_READY"})
    /\ MoveCase(Executed)

(* main without --interactive: the turn, its intake, and with              *)
(* --confirm-intake and --solve the case and its run, in one directory.     *)
OneShot(t, confirm, solve) ==
    /\ ~interactive
    /\ turns = <<>>
    /\ solve => confirm /\ ~dry
    /\ turns' = <<t>>
    /\ \E i \in Analyses(<<t>>) :
         /\ intake' = i
         /\ IF confirm /\ i # None /\ i.draft.status = "ready_for_review"
            THEN /\ \E s \in Prepared : \E e \in (IF solve /\ s = "SOLVE_READY" THEN Executed ELSE {s}) :
                        case' = NewCase(e, <<t>>, <<session_id, 0>>)
                 /\ built' = Append(built, <<session_id, 0>>)
            ELSE UNCHANGED <<case, built>>
    /\ UNCHANGED <<process, mode, session_id, attempts, runs>>

Next ==
    \/ \E t \in Turns : Prompt(t) \/ Edit(t)
    \/ \E t \in SetTurns : SetFact(t)
    \/ Undo
    \/ New
    \/ Run
    \/ \E m \in Modes : SetMode(m)
    \/ Confirm
    \/ ConfirmRevision
    \/ Feedback
    \/ Reject
    \/ Accept
    \/ Solve
    \/ \E t \in Turns, confirm, solve \in BOOLEAN : OneShot(t, confirm, solve)

Spec == Init /\ [][Next]_vars
----------------------------------------------------------------------------
(* Choices are left to the agent only by a user who said so last, or who    *)
(* said nothing in easy mode (conversation.py,                              *)
(* exploratory_completion_authorized).                                      *)
DelegationIsTheUsers ==
    case # None /\ case.delegated =>
        /\ case.mode # "strict"
        /\ \A i \in DOMAIN case.of : case.of[i].decides = "no" =>
               \E j \in DOMAIN case.of : j > i /\ case.of[j].decides = "yes"
        /\ case.mode = "easy" \/ \E i \in DOMAIN case.of : case.of[i].decides = "yes"

(* What /confirm would build, and the case /solve would run, are of the     *)
(* conversation as it reads now: no edit, undo, repeated analysis or new    *)
(* session leaves an intake or a case of other turns behind, nor choices    *)
(* that are the agent's against what was said since (conversation.py,       *)
(* _invalidate_intake; cli.py, _run_session and _confirm_session).          *)
WorkIsOfTheConversation ==
    /\ intake # None => intake.for = turns
    /\ case # None => case.of = turns
    /\ DelegationIsTheUsers

(* Each case is built in a directory nothing was built in before, whatever  *)
(* attempts failed and sessions were dropped (cli.py, run_prompt).          *)
OwnDirectory == IsInjective(built)

\* The last statement about a target: a value, or None for none or a cancelled one.
LastWord(conversation, k) ==
    LET Mentions(t) == ~t.asks /\ (k \in ToSet(t.cancels)
                                    \/ \E n \in DOMAIN t.assigns : t.assigns[n].key = k)
        last == Max({0} \cup {i \in DOMAIN conversation : Mentions(conversation[i])})
        given == {n \in DOMAIN conversation[last].assigns :
                     conversation[last].assigns[n].key = k}
    IN IF last = 0 \/ k \in ToSet(conversation[last].cancels) THEN None
       ELSE conversation[last].assigns[Max(given)].value

(* An intake the controller accepts holds the user's last word on every     *)
(* target they stated, as theirs, and nothing on one they cancelled         *)
(* (requirements.py, active_requirement_texts; intake.py,                   *)
(* validate_intake_provenance).                                             *)
LastWordStands ==
    intake # None => \A k \in Keys :
        /\ LastWord(turns, k) # None =>
             intake.draft.fact[k] = LastWord(turns, k)
        /\ LastWord(turns, k) = None /\ k \in Reading(turns).cancelled =>
             intake.draft.fact[k] = None

(* No number the user stands by is missing from an accepted intake: neither *)
(* a last word nor a number outside assignments is taken for one that was   *)
(* replaced (requirements.py, "Mask ONLY earlier values").                  *)
NothingLost ==
    intake # None =>
        /\ \A i \in DOMAIN turns : turns[i].loose \subseteq Represented(intake.draft)
        /\ \A i \in DOMAIN turns : \A n \in DOMAIN turns[i].assigns :
             LET a == turns[i].assigns[n]
                 replaced == \E j \in DOMAIN turns :
                     /\ ~turns[j].asks
                     /\ \/ j >= i /\ a.key \in ToSet(turns[j].cancels)
                        \/ j > i /\ \E m \in DOMAIN turns[j].assigns :
                                       turns[j].assigns[m].key = a.key
             IN turns[i].asks \/ ~replaced => a.value \in Represented(intake.draft)

(* An accepted intake says what the user said, as it stands after all turns. *)
IntakeIsFaithful == LastWordStands /\ NothingLost
=============================================================================
