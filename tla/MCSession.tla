------------------------------ MODULE MCSession ------------------------------
(* Two targets, two values: what is said in the conversations checked.      *)
EXTENDS Session

Turn(assigns, cancels, loose, asks, decides) ==
    [assigns |-> assigns, cancels |-> cancels, loose |-> loose, asks |-> asks,
     decides |-> decides]

A(v) == [key |-> "a", value |-> v]
B(v) == [key |-> "b", value |-> v]

MCTurns == {
    Turn(<<A(1), A(2), B(2)>>, <<>>, {}, FALSE, "yes"),
    Turn(<<A(2)>>, <<>>, {}, FALSE, "silent"),
    Turn(<<A(1)>>, <<>>, {}, TRUE, "silent"),
    Turn(<<>>, <<"a">>, {}, FALSE, "no")}

MCDrafts == {d \in Draft :
    /\ d.notes \in {{}, Values}
    /\ d.status = "needs_user_input" => d.notes = Values
    /\ d.fact["a"] # Derived /\ d.fact["b"] # 1}

MCSetTurns == {Turn(<<>>, <<>>, {1}, FALSE, "silent")}
=============================================================================
