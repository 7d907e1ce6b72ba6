---------------------------- MODULE AtomicCommit ----------------------------
(***************************************************************************)
(* What CaseWorkspace promises to its callers: an agent's bundle of text   *)
(* changes becomes visible as a whole, within the size limit, or not at    *)
(* all; and nothing the agent writes ever touches a file of the user.  A   *)
(* rollback that fails itself, or an interrupt, may leave a bundle half    *)
(* visible: then the case is torn for good.                                *)
(***************************************************************************)
EXTENDS Integers

CONSTANTS
    Files,       \* paths below the case directory
    MaxContent,  \* a content is its size, 1..MaxContent; 0 is an absent file
    MaxTotal,    \* the limit of all the agent's files together
    SizeOf(_, _) \* SizeOf(files, case): what some files of a case amount to

VARIABLES
    case,      \* what a caller sees of the case directory
    users,     \* the files of the user
    agents,    \* the files of the agent
    asked,     \* the bundle a caller asks for: the new texts and the drops
    torn       \* a bundle has been left half visible

abstractVars == <<case, users, agents, asked, torn>>

Contents == 0..MaxContent
Nothing == [texts |-> <<>>, drops |-> {}]

Start ==
    /\ case = [f \in Files |-> 0]
    /\ users = {}
    /\ agents = {}
    /\ asked = Nothing
    /\ torn = FALSE

\* The user's file enters a case that has no such file.
Take(f) ==
    /\ case[f] = 0 /\ case'[f] # 0
    /\ \A g \in Files \ {f} : case'[g] = case[g]
    /\ users' \in {users, users \cup {f}}
    /\ UNCHANGED <<agents, asked, torn>>

\* A bundle names neither a file of the user nor a drop of another's file.
Ask ==
    /\ asked = Nothing
    /\ DOMAIN asked'.texts \subseteq Files \ users
    /\ asked'.drops \subseteq agents
    /\ UNCHANGED <<case, users, agents, torn>>

\* The whole bundle becomes visible.
Grant ==
    /\ case' = [f \in Files |-> IF f \in asked.drops THEN 0
                                ELSE IF f \in DOMAIN asked.texts THEN asked.texts[f]
                                ELSE case[f]]
    /\ agents' = (agents \cup DOMAIN asked.texts) \ asked.drops
    /\ SizeOf({f \in agents' : case'[f] # 0}, case') <= MaxTotal
    /\ asked' = Nothing
    /\ UNCHANGED <<users, torn>>

\* Or nothing of it.
Refuse ==
    /\ asked' = Nothing
    /\ UNCHANGED <<case, users, agents, torn>>

\* One file is replaced or removed.
Single(f) ==
    /\ asked = Nothing /\ f \notin users
    /\ \A g \in Files \ {f} : case'[g] = case[g]
    /\ agents' = IF case'[f] = 0 THEN agents \ {f} ELSE agents \cup {f}
    /\ UNCHANGED <<users, asked, torn>>

\* A rollback fails or is interrupted: only the files asked for are affected.
Tear ==
    /\ torn' = TRUE
    /\ \A f \in Files \ (DOMAIN asked.texts \cup asked.drops) : case'[f] = case[f]
    /\ asked' = Nothing
    /\ UNCHANGED users

AtomicNext ==
    \/ Ask \/ Grant \/ Refuse \/ Tear
    \/ \E f \in Files : Take(f) \/ Single(f)

AtomicSpec == Start /\ [][AtomicNext]_abstractVars
=============================================================================
