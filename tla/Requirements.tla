---------------------------- MODULE Requirements ----------------------------
(***************************************************************************)
(* What a conversation asks for (contracts/requirements.py), and which     *)
(* drafts of an intake the controller accepts for it (agents/intake.py,    *)
(* schemas/intake.py).                                                     *)
(*                                                                         *)
(* A turn is what can be read in it: the values it assigns to named        *)
(* targets with = or :, the targets it cancels, the other numbers in it,   *)
(* whether it is a question, and whether it leaves choices to the agent    *)
(* (decides: "yes", "no" or "silent").  Numbers are compared by value;     *)
(* units, and the aliases of the Reynolds number, are left out.            *)
(***************************************************************************)
EXTENDS Naturals, Sequences, SequencesExt, FiniteSets

CONSTANTS Keys, Values, Derived, None

Assignment == [key : Keys, value : Values]

\* Where a value was read last.
Mark == [turn : Nat, place : Nat, value : Values]

ASSUME NoneAssumption == None \notin Mark

(* active_requirement_texts, one turn after the other.                      *)
Unread == [current |-> [k \in Keys |-> None], masked |-> {}, cancelled |-> {}]

\* A value replaces the one an earlier turn gave, which is masked.
ReadAssignment(turns, seen, i, n) ==
    LET a     == turns[i].assigns[n]
        prior == seen.current[a.key]
    IN [seen EXCEPT !.current[a.key] = [turn |-> i, place |-> n, value |-> a.value],
                    !.masked = IF prior # None /\ prior.turn # i
                               THEN @ \cup {<<prior.turn, prior.place>>} ELSE @]

ReadCancel(seen, k) ==
    LET prior == seen.current[k]
    IN IF prior = None THEN seen
       ELSE [seen EXCEPT !.masked     = @ \cup {<<prior.turn, prior.place>>},
                         !.cancelled  = @ \cup {k},
                         !.current[k] = None]

\* What turn i says, taken at its word even if it only asks.
ReadWords(turns, seen, i) ==
    LET assigned == FoldLeftDomain(LAMBDA s, n : ReadAssignment(turns, s, i, n),
                                   seen, turns[i].assigns)
    IN FoldLeft(ReadCancel, assigned, turns[i].cancels)

\* A question states nothing.
ReadTurn(turns, seen, i) == IF turns[i].asks THEN seen ELSE ReadWords(turns, seen, i)

Reading(turns) == FoldLeftDomain(LAMBDA s, i : ReadTurn(turns, s, i), Unread, turns)

\* The numbers in the texts, the masked ones blanked out.
ActiveNumbers(turns) ==
    LET masked    == Reading(turns).masked
        Stated(i) == {turns[i].assigns[n].value :
                         n \in {m \in DOMAIN turns[i].assigns : <<i, m>> \notin masked}}
    IN UNION {turns[i].loose \cup Stated(i) : i \in DOMAIN turns}
----------------------------------------------------------------------------
(* A draft: the fact of each target (the value of a user fact, or Derived), *)
(* the numbers its other user facts hold, and its status: ready when the    *)
(* facts every case needs are there and no interpretation is open.          *)
Draft == [fact : [Keys -> Values \cup {Derived, None}], notes : SUBSET Values,
          status : {"ready_for_review", "needs_user_input"}]

IsUser(d, k) == d.fact[k] \in Values

\* _issue_user_evidence_locator: evidence is a span of one turn, and of no other
\* (the session was given no files, whose names may be quoted too).
Quotable(turns) ==
    \E i \in DOMAIN turns : \A j \in DOMAIN turns \ {i} : turns[j] # turns[i]

Represented(d) == {d.fact[k] : k \in {l \in Keys : IsUser(d, l)}} \cup d.notes

\* validate_intake_provenance, and the validators of the schema.
Accepts(turns, d) ==
    LET reading == Reading(turns)
    IN /\ (d.notes # {} \/ \E k \in Keys : IsUser(d, k)) => Quotable(turns)
       /\ \A k \in reading.cancelled : d.fact[k] = None
       /\ \A k \in Keys : reading.current[k] # None => d.fact[k] = reading.current[k].value
       /\ ActiveNumbers(turns) \subseteq Represented(d)
=============================================================================
