----------------------------- MODULE FoldProofs -----------------------------
(***************************************************************************)
(* What is computed by going through a list, for every list: the intake of *)
(* a conversation, the normalisation of evidence requests and the plans    *)
(* of mesh commands.  The lemmas on folds come first; the session, the     *)
(* evidence gaps and the mesh follow, each with its invariants.            *)
(***************************************************************************)
EXTENDS Session, EvidenceGaps, MeshScopes, SequenceTheorems, FiniteSetTheorems,
        WellFoundedInduction, TLAPS

(***************************************************************************)
(* Induction over data.  The induction theorems of the library take a      *)
(* predicate, which the provers cannot instantiate; these take the set of  *)
(* the numbers it holds of, which they can.                                *)
(***************************************************************************)
Below == {ss \in Nat \X Nat : ss[1] < ss[2]}

LEMMA LeastNumber ==
    ASSUME NEW T \in SUBSET Nat, T # {}
    PROVE  \E n \in T : \A m \in T : n <= m
<1>1. IsWellFoundedOn(Below, Nat)
  BY NatLessThanWellFounded DEF OpToRel, Below
<1>2. PICK n \in T : \A m \in T : <<m, n>> \notin Below
  BY <1>1, WFMin
<1>3. ASSUME NEW m \in T
      PROVE  n <= m
  <2>1. m \in Nat /\ n \in Nat
    OBVIOUS
  <2>2. <<m, n>> \in Nat \X Nat /\ <<m, n>>[1] = m /\ <<m, n>>[2] = n
    BY <2>1
  <2>3. ~(m < n)
    BY <1>2, <2>2 DEF Below
  <2> QED
    BY <2>1, <2>3
<1> QED
  BY <1>3

LEMMA NumberInduction ==
    ASSUME NEW n \in Nat, NEW T, 0 \in T,
           \A k \in 0 .. n - 1 : k \in T => k + 1 \in T
    PROVE  \A k \in 0 .. n : k \in T
<1> DEFINE Missing == {k \in 0 .. n : k \notin T}
<1> SUFFICES ASSUME Missing # {} PROVE FALSE
  OBVIOUS
<1>1. PICK k \in Missing : \A m \in Missing : k <= m
  <2>1. Missing \in SUBSET Nat
    OBVIOUS
  <2> HIDE DEF Missing
  <2> QED
    BY <2>1, LeastNumber
<1>2. k \in 1 .. n
  BY <1>1
<1>3. k - 1 \in 0 .. n - 1 /\ k - 1 \notin Missing
  BY <1>1, <1>2
<1>4. k - 1 \in T
  BY <1>2, <1>3
<1>5. (k - 1) + 1 \in T
  BY <1>3, <1>4
<1> QED
  BY <1>1, <1>2, <1>5

LEMMA MaxIsMember ==
    ASSUME NEW n \in Nat, NEW S \in SUBSET (1 .. n), S # {}
    PROVE  Max(S) \in S /\ \A i \in S : i <= Max(S)
<1> DEFINE T == {n - i : i \in S}
<1>1. T \in SUBSET Nat /\ T # {}
  <2>1. \A i \in S : n - i \in Nat
    OBVIOUS
  <2>2. PICK i \in S : TRUE
    OBVIOUS
  <2> QED
    BY <2>1, <2>2
<1>2. PICK y \in T : \A z \in T : y <= z
  <2> HIDE DEF T
  <2> QED
    BY <1>1, LeastNumber
<1>3. PICK x \in S : y = n - x
  BY <1>2
<1>4. ASSUME NEW i \in S
      PROVE  x >= i
  <2>1. y <= n - i
    BY <1>2
  <2> QED
    BY <1>3, <2>1
<1>5. Max(S) \in S /\ \A i \in S : Max(S) >= i
  BY <1>4 DEF Max
<1> QED
  BY <1>5

LEMMA MaxOfPrefix ==
    ASSUME NEW k \in Nat, NEW s \in SUBSET (1 .. k + 1), k + 1 \in s
    PROVE  Max(s) = k + 1
<1>1. \A x \in s : k + 1 >= x
  OBVIOUS
<1>2. Max(s) \in s /\ \A x \in s : Max(s) >= x
  BY <1>1 DEF Max
<1>3. Max(s) \in 1 .. k + 1 /\ Max(s) >= k + 1
  BY <1>2
<1> HIDE DEF Max
<1>4. \A m \in 1 .. k + 1 : m >= k + 1 => m = k + 1
  OBVIOUS
<1> QED
  BY <1>3, <1>4

LEMMA PrefixMax ==
    ASSUME NEW k \in Nat \ {0}
    PROVE  Max(1 .. k) = k /\ (1 .. k) \ {k} = 1 .. (k - 1) /\ 1 .. k # {}
<1>1. Max(1 .. k) = (k - 1) + 1
  <2> DEFINE j == k - 1
  <2>1. j \in Nat /\ 1 .. k \in SUBSET (1 .. j + 1) /\ j + 1 \in 1 .. k
    OBVIOUS
  <2> HIDE DEF j
  <2>2. Max(1 .. k) = j + 1
    BY <2>1, MaxOfPrefix
  <2> QED
    BY <2>2 DEF j
<1>2. (k - 1) + 1 = k /\ (1 .. k) \ {k} = 1 .. (k - 1) /\ k \in 1 .. k
  OBVIOUS
<1> QED
  BY <1>1, <1>2

(***************************************************************************)
(* The function a fold is computed with exists: on the sets of places, its *)
(* value of a set is a step from its value of the set without the last.    *)
(***************************************************************************)
Folds(g, n, V, b, G) ==
    /\ g \in [SUBSET (1 .. n) -> V]
    /\ \A s \in SUBSET (1 .. n) :
          g[s] = IF s = {} THEN b ELSE G[<<Max(s), g[s \ {Max(s)}]>>]

Steps(n, V) == [(1 .. n) \X V -> V]

LEMMA FoldFunctionExists ==
    ASSUME NEW n \in Nat, NEW V, NEW b \in V, NEW G \in Steps(n, V)
    PROVE  \E g : Folds(g, n, V, b, G)
<1> USE DEF Steps
<1> DEFINE Is(g, k) ==
             \A s \in SUBSET (1 .. k) :
                g[s] = IF s = {} THEN b ELSE G[<<Max(s), g[s \ {Max(s)}]>>]
           T == {k \in 0 .. n : \E g \in [SUBSET (1 .. k) -> V] : Is(g, k)}
<1>1. 0 \in T
  <2> DEFINE g0 == [s \in SUBSET (1 .. 0) |-> b]
  <2>1. SUBSET (1 .. 0) = {{}}
    OBVIOUS
  <2>2. g0 \in [SUBSET (1 .. 0) -> V] /\ Is(g0, 0)
    BY <2>1
  <2>3. 0 \in 0 .. n
    OBVIOUS
  <2> HIDE DEF g0, Is
  <2> QED
    BY <2>2, <2>3
<1>2. ASSUME NEW k \in 0 .. n - 1, k \in T
      PROVE  k + 1 \in T
  <2>1. PICK g \in [SUBSET (1 .. k) -> V] : Is(g, k)
    BY <1>2
  <2> DEFINE D == SUBSET (1 .. k + 1)
             h == [s \in D |-> IF k + 1 \in s THEN G[<<k + 1, g[s \ {k + 1}]>>] ELSE g[s]]
  <2>2. \A s \in D : /\ k + 1 \in s => s \ {k + 1} \in SUBSET (1 .. k)
                     /\ k + 1 \notin s => s \in SUBSET (1 .. k)
    OBVIOUS
  <2>3. \A v \in V : G[<<k + 1, v>>] \in V
    OBVIOUS
  <2>4. h \in [D -> V]
    BY <2>2, <2>3
  <2>5. ASSUME NEW s \in D
        PROVE  h[s] = IF s = {} THEN b ELSE G[<<Max(s), h[s \ {Max(s)}]>>]
    <3>1. CASE k + 1 \in s
      <4>1. Max(s) = k + 1
        BY <3>1, MaxOfPrefix
      <4>2. s \ {k + 1} \in D /\ k + 1 \notin s \ {k + 1}
        OBVIOUS
      <4>3. h[s \ {k + 1}] = g[s \ {k + 1}]
        BY <4>2
      <4> QED
        BY <3>1, <4>1, <4>3
    <3>2. CASE k + 1 \notin s
      <4>1. s \in SUBSET (1 .. k) /\ s \ {Max(s)} \in SUBSET (1 .. k)
        BY <2>2, <3>2
      <4>2. s \ {Max(s)} \in D /\ k + 1 \notin s \ {Max(s)}
        BY <3>2
      <4>3. h[s] = g[s] /\ h[s \ {Max(s)}] = g[s \ {Max(s)}]
        BY <3>2, <4>2
      <4> QED
        BY <2>1, <4>1, <4>3
    <3> QED
      BY <3>1, <3>2
  <2>6. Is(h, k + 1)
    BY <2>5
  <2>7. k + 1 \in 0 .. n
    OBVIOUS
  <2> HIDE DEF h, Is
  <2> QED
    BY <2>4, <2>6, <2>7
<1>3. n \in 0 .. n
  OBVIOUS
<1>4. n \in T
  <2> HIDE DEF T
  <2> QED
    BY <1>1, <1>2, <1>3, NumberInduction
<1> QED
  BY <1>4 DEF Folds

\* Any function with such steps goes through the values of one prefix after the
\* other.
FoldsLike(f, n, V, b, G) ==
    /\ f[{}] = b
    /\ \A s \in SUBSET (1 .. n) :
          s # {} /\ f[s \ {Max(s)}] \in V => f[s] = G[<<Max(s), f[s \ {Max(s)}]>>]

PrefixSteps(h, n, V, b, G) ==
    /\ h \in [0 .. n -> V]
    /\ h[0] = b
    /\ \A k \in 1 .. n : h[k] = G[<<k, h[k - 1]>>]

LEMMA FoldSteps ==
    ASSUME NEW n \in Nat, NEW V, NEW b \in V, NEW G \in Steps(n, V),
           NEW f, FoldsLike(f, n, V, b, G)
    PROVE  \E h : PrefixSteps(h, n, V, b, G) /\ f[1 .. n] = h[n]
<1> USE DEF Steps, FoldsLike
<1> DEFINE h == [k \in 0 .. n |-> f[1 .. k]]
           T == {k \in 0 .. n : f[1 .. k] \in V}
<1>1. 1 .. 0 = {}
  OBVIOUS
<1>2. ASSUME NEW k \in 0 .. n - 1, f[1 .. k] \in V
      PROVE  f[1 .. (k + 1)] = G[<<k + 1, f[1 .. k]>>] /\ f[1 .. (k + 1)] \in V
  <2>1. k + 1 \in Nat \ {0} /\ k + 1 \in 1 .. n /\ (k + 1) - 1 = k
    OBVIOUS
  <2>2. Max(1 .. (k + 1)) = k + 1 /\ (1 .. (k + 1)) \ {k + 1} = 1 .. k /\ 1 .. (k + 1) # {}
    BY <2>1, PrefixMax
  <2>3. 1 .. (k + 1) \in SUBSET (1 .. n)
    OBVIOUS
  <2>4. f[1 .. (k + 1)] = G[<<k + 1, f[1 .. k]>>]
    BY <1>2, <2>2, <2>3
  <2> QED
    BY <1>2, <2>1, <2>4
<1>3. \A k \in 0 .. n : k \in T
  <2>1. 0 \in T
    BY <1>1
  <2>2. ASSUME NEW k \in 0 .. n - 1, k \in T
        PROVE  k + 1 \in T
    <3>1. k + 1 \in 0 .. n
      OBVIOUS
    <3>2. f[1 .. (k + 1)] \in V
      BY <1>2, <2>2
    <3> QED
      BY <3>1, <3>2
  <2> HIDE DEF T
  <2> QED
    BY <2>1, <2>2, NumberInduction
<1>4. h \in [0 .. n -> V]
  BY <1>3
<1>5. ASSUME NEW k \in 1 .. n
      PROVE  h[k] = G[<<k, h[k - 1]>>]
  <2> DEFINE j == k - 1
  <2>1. j \in 0 .. n - 1 /\ j + 1 = k /\ j \in 0 .. n /\ k \in 0 .. n
    OBVIOUS
  <2>2. f[1 .. j] \in V
    BY <1>3, <2>1
  <2> HIDE DEF j
  <2>3. f[1 .. (j + 1)] = G[<<j + 1, f[1 .. j]>>]
    BY <1>2, <2>1, <2>2
  <2>4. h[k] = f[1 .. k] /\ h[j] = f[1 .. j]
    BY <2>1
  <2> QED
    BY <2>1, <2>3, <2>4 DEF j
<1>6. h[0] = b /\ h[n] = f[1 .. n]
  BY <1>1
<1> HIDE DEF h
<1> QED
  BY <1>4, <1>5, <1>6 DEF PrefixSteps

-----------------------------------------------------------------------------
(***************************************************************************)
(* The interactive session: what can be confirmed or run is of the         *)
(* conversation as it reads now, and two cases are never built in the same *)
(* directory.                                                              *)
(***************************************************************************)

Said == Turns \cup SetTurns

States == {"FAILED", "CASE_PREVIEW_READY", "SOLVE_READY", "RESULT_REVIEW_REQUIRED",
           "REVISION_READY", "COMPLETE"}

Cases == [state     : States,
          of        : Seq(Said),
          mode      : Modes,
          delegated : BOOLEAN,
          dir       : Nat \X Nat,
          before    : ReviewGates \cup {None}]

\* A case that waits for a revision to be confirmed knows the gate it came from.
CaseTyped ==
    /\ mode \in Modes
    /\ case # None => case \in Cases
    /\ At({"REVISION_READY"}) => case.before \in ReviewGates

\* The intake and the case are of the turns, and choices the user's.
WorkHolds ==
    /\ turns \in Seq(Said)
    /\ WorkIsOfTheConversation
    /\ CaseTyped

\* Directories are taken in the order of sessions and attempts; a one-shot call
\* takes one at most.
DirectoriesHold ==
    /\ interactive \in BOOLEAN
    /\ session_id \in Nat /\ attempts \in Nat
    /\ built \in Seq(Nat \X Nat)
    /\ OwnDirectory
    /\ interactive => \A i \in DOMAIN built :
           \/ built[i][1] < session_id
           \/ built[i][1] = session_id /\ built[i][2] <= attempts
    /\ ~interactive /\ turns = <<>> => built = <<>> /\ case = None

Inv == WorkHolds /\ DirectoriesHold

(***************************************************************************)
(* Sequences and maxima.                                                   *)
(***************************************************************************)
LEMMA AppendFresh ==
    ASSUME NEW X, NEW s \in Seq(X), NEW x \in X,
           IsInjective(s), \A i \in DOMAIN s : s[i] # x
    PROVE  IsInjective(Append(s, x))
<1>1. /\ DOMAIN Append(s, x) = 1 .. Len(s) + 1 /\ Len(s) \in Nat /\ DOMAIN s = 1 .. Len(s)
      /\ Append(s, x)[Len(s) + 1] = x
      /\ \A i \in 1 .. Len(s) : Append(s, x)[i] = s[i]
  BY AppendProperties, LenProperties
<1> SUFFICES ASSUME NEW a \in 1 .. Len(s) + 1, NEW b \in 1 .. Len(s) + 1,
                    Append(s, x)[a] = Append(s, x)[b]
             PROVE  a = b
  BY <1>1 DEF IsInjective
<1>2. CASE a \in 1 .. Len(s) /\ b \in 1 .. Len(s)
  BY <1>1, <1>2 DEF IsInjective
<1>3. CASE a = Len(s) + 1 /\ b \in 1 .. Len(s)
  BY <1>1, <1>3
<1>4. CASE a \in 1 .. Len(s) /\ b = Len(s) + 1
  BY <1>1, <1>4
<1>5. CASE a = Len(s) + 1 /\ b = Len(s) + 1
  BY <1>5
<1> QED
  BY <1>1, <1>2, <1>3, <1>4, <1>5

(***************************************************************************)
(* Delegation.                                                             *)
(***************************************************************************)
\* What is delegated under the present mode is what the user left to the agent.
LEMMA DelegatedByUser ==
    ASSUME NEW conversation \in Seq(Said), Delegated(conversation)
    PROVE  /\ mode # "strict"
           /\ \A i \in DOMAIN conversation : conversation[i].decides = "no" =>
                  \E j \in DOMAIN conversation : j > i /\ conversation[j].decides = "yes"
           /\ mode = "easy" \/ \E i \in DOMAIN conversation : conversation[i].decides = "yes"
<1> DEFINE decided == {i \in DOMAIN conversation : conversation[i].decides # "silent"}
<1>1. DOMAIN conversation = 1 .. Len(conversation) /\ Len(conversation) \in Nat
  BY LenProperties
<1>2. /\ mode # "strict"
      /\ decided = {} => mode = "easy"
      /\ decided # {} => conversation[Max(decided)].decides = "yes"
  BY DEF Delegated
<1>3. CASE decided = {}
  BY <1>2, <1>3
<1>4. CASE decided # {}
  <2>1. PICK m \in decided : m = Max(decided) /\ \A i \in decided : i <= m
    BY <1>1, <1>4, MaxIsMember
  <2>2. m \in DOMAIN conversation /\ conversation[m].decides = "yes"
    BY <1>2, <1>4, <2>1
  <2>3. ASSUME NEW i \in DOMAIN conversation, conversation[i].decides = "no"
        PROVE  m > i
    <3>1. i \in decided
      BY <2>3
    <3>2. i # m
      BY <2>2, <2>3
    <3>3. i <= m
      BY <2>1, <3>1
    <3>4. i \in Nat /\ m \in Nat
      BY <1>1, <2>2
    <3> QED
      BY <3>2, <3>3, <3>4
  <2>4. \A i \in DOMAIN conversation : conversation[i].decides = "no" =>
            \E j \in DOMAIN conversation : j > i /\ conversation[j].decides = "yes"
    BY <2>2, <2>3
  <2>5. \E i \in DOMAIN conversation : conversation[i].decides = "yes"
    BY <2>2
  <2> QED
    BY <1>2, <2>4, <2>5
<1> QED
  BY <1>3, <1>4

(***************************************************************************)
(* The conversation, its intake and its case.                              *)
(***************************************************************************)
LEMMA InitStep == Init => Inv
<1> SUFFICES ASSUME Init PROVE Inv
  OBVIOUS
<1>1. IsInjective(built) /\ built \in Seq(Nat \X Nat) /\ DOMAIN built = {} /\ turns \in Seq(Said)
  BY DEF Init, IsInjective
<1> QED
  BY <1>1
     DEF Init, Inv, WorkHolds, WorkIsOfTheConversation, DelegationIsTheUsers, DirectoriesHold,
         OwnDirectory, CaseTyped, At

\* Whatever an analysis leaves is of the turns it read.
LEMMA AnalysisIsOf ==
    ASSUME NEW conversation, NEW i \in Analyses(conversation), i # None
    PROVE  i.for = conversation
BY DEF Analyses

\* A turn, an edit, an undone turn or a new session takes the case with it.
LEMMA ConversationWork ==
    ASSUME turns' \in Seq(Said), case' = None, mode' \in Modes,
           intake' = None \/ intake' \in Analyses(turns')
    PROVE  WorkHolds'
BY AnalysisIsOf DEF WorkHolds, WorkIsOfTheConversation, DelegationIsTheUsers, CaseTyped, At

LEMMA SaidWork ==
    ASSUME Inv, NEW t \in Said, Prompt(t) \/ SetFact(t) \/ Edit(t)
    PROVE  WorkHolds'
<1>1. turns \in Seq(Said) /\ Len(turns) \in Nat /\ mode' \in Modes
  BY LenProperties DEF Inv, WorkHolds, CaseTyped, Prompt, SetFact, Edit
<1>2. CASE Prompt(t) \/ SetFact(t)
  <2>1. turns' = Append(turns, t) /\ intake' \in Analyses(turns') /\ case' = None
    BY <1>2 DEF Prompt, SetFact, AddTurn, Analyse
  <2>2. turns' \in Seq(Said)
    BY <1>1, <2>1, AppendProperties
  <2> QED
    BY <1>1, <2>1, <2>2, ConversationWork
<1>3. CASE Edit(t)
  <2>1. /\ turns' = [turns EXCEPT ![Len(turns)] = t] /\ turns # <<>>
        /\ intake' \in Analyses(turns') /\ case' = None
    BY <1>3 DEF Edit, Analyse
  <2>2. turns' \in Seq(Said)
    BY <1>1, <2>1, ExceptSeq
  <2> QED
    BY <1>1, <2>1, <2>2, ConversationWork
<1> QED
  BY <1>2, <1>3

LEMMA DroppedWork ==
    ASSUME Inv, Undo \/ New
    PROVE  WorkHolds'
<1>1. mode' \in Modes /\ intake' = None /\ case' = None
  BY DEF Undo, New, Invalidate, Inv, WorkHolds, CaseTyped
<1>2. turns' \in Seq(Said)
  <2>1. CASE Undo
    <3>1. turns \in Seq(Said) /\ turns # <<>> /\ turns' = Front(turns)
      BY <2>1 DEF Undo, Inv, WorkHolds
    <3>2. Len(turns) \in Nat /\ DOMAIN turns = 1 .. Len(turns) /\ Len(turns) > 0
      BY <3>1, LenProperties, EmptySeq
    <3> QED
      BY <3>1, <3>2, SubSeqProperties DEF Front
  <2>2. CASE New
    BY <2>2 DEF New
  <2> QED
    BY <2>1, <2>2
<1> QED
  BY <1>1, <1>2, ConversationWork

\* A case built of the turns under the present mode.
LEMMA BuiltWork ==
    ASSUME Inv, NEW conversation \in Seq(Said), NEW s \in States \ {"REVISION_READY"},
           NEW dir \in Nat \X Nat,
           turns' = conversation, mode' = mode, case' = NewCase(s, conversation, dir),
           intake' # None => intake'.for = conversation
    PROVE  WorkHolds'
<1>1. /\ case'.of = conversation /\ case'.mode = mode
      /\ case'.delegated = Delegated(conversation) /\ case'.state = s
  BY DEF NewCase
<1>2. DelegationIsTheUsers'
  <2>1. CASE Delegated(conversation)
    BY <1>1, <2>1, DelegatedByUser DEF DelegationIsTheUsers
  <2>2. CASE ~Delegated(conversation)
    <3>1. ~case'.delegated
      BY <1>1, <2>2
    <3> QED
      BY <3>1 DEF DelegationIsTheUsers
  <2> QED
    BY <2>1, <2>2
<1>3. Delegated(conversation) \in BOOLEAN
  BY DEF Delegated
<1>4. case' \in Cases
  BY <1>3 DEF NewCase, Cases, Inv, WorkHolds, CaseTyped
<1>5. CaseTyped'
  BY <1>1, <1>4 DEF CaseTyped, At, Inv, WorkHolds
<1> QED
  BY <1>1, <1>2, <1>5 DEF WorkHolds, WorkIsOfTheConversation

\* A case that only moves on stays the case of its turns.
LEMMA MovedWork ==
    ASSUME Inv, case # None, NEW states \in SUBSET States, MoveCase(states),
           "REVISION_READY" \in states => case.state = "REVISION_READY"
    PROVE  WorkHolds'
<1>1. PICK s \in states : case' = [case EXCEPT !.state = s]
  BY DEF MoveCase
<1>2. /\ case \in Cases /\ case' \in Cases /\ case'.state = s /\ case'.before = case.before
      /\ case'.of = case.of /\ case'.mode = case.mode /\ case'.delegated = case.delegated
  BY <1>1 DEF Cases, Inv, WorkHolds, CaseTyped
<1>3. UNCHANGED <<mode, turns, intake>>
  BY DEF MoveCase
<1>4. CaseTyped'
  BY <1>2, <1>3 DEF CaseTyped, At, Inv, WorkHolds
<1> QED
  BY <1>2, <1>3, <1>4 DEF Inv, WorkHolds, WorkIsOfTheConversation, DelegationIsTheUsers

LEMMA CaseWork ==
    ASSUME Inv, ConfirmRevision \/ Feedback \/ Reject \/ Accept \/ Solve
    PROVE  WorkHolds'
<1>1. case # None => case \in Cases
  BY DEF Inv, WorkHolds, CaseTyped
<1>2. CASE ConfirmRevision
  BY <1>2, MovedWork DEF ConfirmRevision, At, Revised, Prepared, States
<1>3. CASE Feedback
  <2>1. case # None /\ case.state \in ReviewGates
    BY <1>3 DEF Feedback, At
  <2>2. CASE MoveCase({case.state, "FAILED"})
    BY <2>1, <2>2, MovedWork DEF ReviewGates, States
  <2>3. CASE /\ case' = [case EXCEPT !.state = "REVISION_READY", !.before = case.state]
             /\ UNCHANGED <<process, mode, session_id, attempts, turns, intake, built, runs>>
    <3>1. /\ case' \in Cases /\ case'.state = "REVISION_READY" /\ case'.before = case.state
          /\ case'.of = case.of /\ case'.mode = case.mode /\ case'.delegated = case.delegated
      BY <1>1, <2>1, <2>3 DEF Cases, States
    <3>2. CaseTyped'
      BY <2>1, <2>3, <3>1 DEF CaseTyped, At, Inv, WorkHolds
    <3> QED
      BY <2>1, <2>3, <3>1, <3>2 DEF Inv, WorkHolds, WorkIsOfTheConversation, DelegationIsTheUsers
  <2> QED
    BY <1>3, <2>2, <2>3 DEF Feedback
<1>4. CASE Reject
  <2>1. case # None /\ case.before \in ReviewGates /\ MoveCase({case.before})
    BY <1>4 DEF Reject, At, Inv, WorkHolds, CaseTyped
  <2> QED
    BY <2>1, MovedWork DEF ReviewGates, States
<1>5. CASE Accept
  BY <1>5, MovedWork DEF Accept, At, States
<1>6. CASE Solve
  BY <1>6, MovedWork DEF Solve, At, Executed, States
<1> QED
  BY <1>2, <1>3, <1>4, <1>5, <1>6

LEMMA RunWork ==
    ASSUME Inv, Run \/ (\E m \in Modes : SetMode(m)) \/ UNCHANGED vars
    PROVE  WorkHolds'
<1>1. UNCHANGED <<turns, case>> /\ mode' \in Modes
  BY DEF Run, SetMode, vars, Inv, WorkHolds, CaseTyped
<1>2. intake' # None => intake'.for = turns
  <2>1. CASE Run
    BY <2>1, AnalysisIsOf DEF Run, Analyse
  <2>2. CASE ~Run
    BY <2>2 DEF SetMode, vars, Inv, WorkHolds, WorkIsOfTheConversation
  <2> QED
    BY <2>1, <2>2
<1> QED
  BY <1>1, <1>2
     DEF Inv, WorkHolds, WorkIsOfTheConversation, DelegationIsTheUsers, CaseTyped, At

LEMMA ConfirmWork ==
    ASSUME Inv, Confirm
    PROVE  WorkHolds'
<1>1. PICK s \in Prepared : case' = NewCase(s, turns, <<session_id, attempts'>>)
  BY DEF Confirm
<1>2. /\ UNCHANGED <<mode, turns, intake>> /\ attempts' = attempts + 1
      /\ turns \in Seq(Said) /\ session_id \in Nat /\ attempts \in Nat
      /\ intake # None => intake.for = turns
  BY DEF Confirm, Attempt, Inv, WorkHolds, WorkIsOfTheConversation, DirectoriesHold
<1>3. s \in States \ {"REVISION_READY"} /\ <<session_id, attempts'>> \in Nat \X Nat
  BY <1>2 DEF Prepared, States
<1> QED
  BY <1>1, <1>2, <1>3, BuiltWork

LEMMA OneShotWork ==
    ASSUME Inv, NEW t \in Turns, NEW confirm \in BOOLEAN, NEW solve \in BOOLEAN,
           OneShot(t, confirm, solve)
    PROVE  WorkHolds'
<1>1. /\ turns' = <<t>> /\ mode' = mode /\ turns = <<>> /\ session_id \in Nat
      /\ <<t>> \in Seq(Said) /\ case = None /\ mode \in Modes
  BY DEF OneShot, Inv, WorkHolds, CaseTyped, DirectoriesHold, Said
<1>2. PICK i \in Analyses(<<t>>) :
        /\ intake' = i
        /\ IF confirm /\ i # None /\ i.draft.status = "ready_for_review"
           THEN \E s \in Prepared :
                  \E e \in (IF solve /\ s = "SOLVE_READY" THEN Executed ELSE {s}) :
                    case' = NewCase(e, <<t>>, <<session_id, 0>>)
           ELSE UNCHANGED case
  BY DEF OneShot
<1>3. intake' # None => intake'.for = <<t>>
  BY <1>2, AnalysisIsOf
<1>4. CASE confirm /\ i # None /\ i.draft.status = "ready_for_review"
  <2>1. PICK s \in Prepared :
          \E e \in (IF solve /\ s = "SOLVE_READY" THEN Executed ELSE {s}) :
              case' = NewCase(e, <<t>>, <<session_id, 0>>)
    BY <1>2, <1>4
  <2>2. PICK e \in Prepared \cup Executed : case' = NewCase(e, <<t>>, <<session_id, 0>>)
    BY <2>1
  <2>3. e \in States \ {"REVISION_READY"} /\ <<session_id, 0>> \in Nat \X Nat
    BY <1>1 DEF Prepared, Executed, States
  <2> QED
    BY <1>1, <1>3, <2>2, <2>3, BuiltWork
<1>5. CASE ~(confirm /\ i # None /\ i.draft.status = "ready_for_review")
  <2>1. case' = None
    BY <1>1, <1>2, <1>5
  <2> QED
    BY <1>1, <1>2, <2>1, ConversationWork
<1> QED
  BY <1>4, <1>5

(***************************************************************************)
(* Directories.                                                            *)
(***************************************************************************)
\* A command that builds nothing and goes on or leaves the attempts.
LEMMA NothingBuilt ==
    ASSUME Inv, UNCHANGED <<interactive, built>>, interactive,
           \/ session_id' = session_id /\ attempts' \in {attempts, attempts + 1}
           \/ session_id' = session_id + 1 /\ attempts' = 0
    PROVE  DirectoriesHold'
<1>1. /\ session_id \in Nat /\ attempts \in Nat /\ built \in Seq(Nat \X Nat)
  BY DEF Inv, DirectoriesHold
<1>2. \A i \in DOMAIN built : built[i] \in Nat \X Nat
  BY <1>1, ElementOfSeq, LenProperties
<1>3. \A i \in DOMAIN built : built[i][1] \in Nat /\ built[i][2] \in Nat
  BY <1>2
<1>4. \A i \in DOMAIN built :
        \/ built[i][1] < session_id'
        \/ built[i][1] = session_id' /\ built[i][2] <= attempts'
  BY <1>1, <1>3 DEF Inv, DirectoriesHold
<1> QED
  BY <1>1, <1>4 DEF Inv, DirectoriesHold, OwnDirectory

LEMMA ConfirmDirectory ==
    ASSUME Inv, Confirm
    PROVE  DirectoriesHold'
<1> DEFINE dir == <<session_id, attempts + 1>>
<1>1. /\ interactive /\ interactive' = interactive /\ session_id' = session_id
      /\ attempts' = attempts + 1 /\ built' = Append(built, dir)
      /\ session_id \in Nat /\ attempts \in Nat /\ built \in Seq(Nat \X Nat) /\ IsInjective(built)
  BY DEF Confirm, Attempt, process, Inv, DirectoriesHold, OwnDirectory
<1>2. dir \in Nat \X Nat /\ dir[1] = session_id /\ dir[2] = attempts + 1
  BY <1>1
<1>3. \A i \in DOMAIN built : built[i] \in Nat \X Nat
  BY <1>1, ElementOfSeq, LenProperties
<1>4. \A i \in DOMAIN built :
        /\ built[i][1] \in Nat /\ built[i][2] \in Nat
        /\ built[i][1] < session_id \/ (built[i][1] = session_id /\ built[i][2] <= attempts)
  <2>1. \A i \in DOMAIN built : built[i][1] \in Nat /\ built[i][2] \in Nat
    BY <1>3
  <2>2. \A i \in DOMAIN built :
          built[i][1] < session_id \/ (built[i][1] = session_id /\ built[i][2] <= attempts)
    BY <1>1 DEF Inv, DirectoriesHold
  <2> QED
    BY <2>1, <2>2
<1> HIDE DEF dir
<1>5. \A i \in DOMAIN built : built[i] # dir
  BY <1>1, <1>2, <1>4
<1>6. IsInjective(built') /\ built' \in Seq(Nat \X Nat)
  BY <1>1, <1>2, <1>5, AppendFresh, AppendProperties
<1>7. /\ DOMAIN built' = 1 .. Len(built) + 1 /\ DOMAIN built = 1 .. Len(built) /\ Len(built) \in Nat
      /\ built'[Len(built) + 1] = dir
      /\ \A i \in DOMAIN built : built'[i] = built[i]
  BY <1>1, <1>2, AppendProperties, LenProperties
<1>8. ASSUME NEW i \in DOMAIN built'
      PROVE  built'[i][1] < session_id \/ (built'[i][1] = session_id /\ built'[i][2] <= attempts + 1)
  <2>1. CASE i = Len(built) + 1
    BY <1>1, <1>2, <1>7, <2>1
  <2>2. CASE i \in DOMAIN built
    BY <1>1, <1>4, <1>7, <2>2
  <2> QED
    BY <1>7, <2>1, <2>2
<1> QED
  BY <1>1, <1>6, <1>8 DEF Inv, DirectoriesHold, OwnDirectory

LEMMA OneShotDirectory ==
    ASSUME Inv, NEW t \in Turns, NEW confirm \in BOOLEAN, NEW solve \in BOOLEAN,
           OneShot(t, confirm, solve)
    PROVE  DirectoriesHold'
<1>1. /\ ~interactive /\ interactive' = interactive /\ session_id' = session_id
      /\ attempts' = attempts /\ built = <<>> /\ session_id \in Nat /\ attempts \in Nat
      /\ turns' = <<t>>
      /\ built' = Append(built, <<session_id, 0>>) \/ built' = built
  BY DEF OneShot, process, Inv, DirectoriesHold
<1>2. turns' # <<>>
  BY <1>1
<1>3. IsInjective(built') /\ built' \in Seq(Nat \X Nat)
  <2>1. IsInjective(built) /\ built \in Seq(Nat \X Nat) /\ DOMAIN built = {}
    BY <1>1 DEF IsInjective
  <2>2. <<session_id, 0>> \in Nat \X Nat
    BY <1>1
  <2>3. IsInjective(Append(built, <<session_id, 0>>))
    BY <2>1, <2>2, AppendFresh
  <2>4. Append(built, <<session_id, 0>>) \in Seq(Nat \X Nat)
    BY <2>1, <2>2, AppendProperties
  <2> QED
    BY <1>1, <2>1, <2>3, <2>4
<1> QED
  BY <1>1, <1>2, <1>3 DEF Inv, DirectoriesHold, OwnDirectory

LEMMA InvStep ==
    ASSUME Inv, [Next]_vars
    PROVE  Inv'
<1>1. CASE \/ \E t \in Turns : Prompt(t) \/ Edit(t)
           \/ \E t \in SetTurns : SetFact(t)
  <2>1. WorkHolds'
    BY <1>1, SaidWork DEF Said
  <2>2. DirectoriesHold'
    BY <1>1, NothingBuilt DEF Prompt, Edit, SetFact, AddTurn, Analyse, Attempt, process
  <2> QED
    BY <2>1, <2>2 DEF Inv
<1>2. CASE Undo \/ New
  <2>1. DirectoriesHold'
    BY <1>2, NothingBuilt DEF Undo, New, Reset, process
  <2> QED
    BY <1>2, <2>1, DroppedWork DEF Inv
<1>3. CASE Run \/ \E m \in Modes : SetMode(m)
  <2>1. DirectoriesHold'
    BY <1>3, NothingBuilt DEF Run, SetMode, Analyse, Attempt, process
  <2> QED
    BY <1>3, <2>1, RunWork DEF Inv
<1>4. CASE Confirm
  BY <1>4, ConfirmWork, ConfirmDirectory DEF Inv
<1>5. CASE ConfirmRevision \/ Feedback \/ Reject \/ Accept \/ Solve
  <2>1. DirectoriesHold'
    BY <1>5, NothingBuilt DEF ConfirmRevision, Feedback, Reject, Accept, Solve, MoveCase, process
  <2> QED
    BY <1>5, <2>1, CaseWork DEF Inv
<1>6. CASE \E t \in Turns, confirm, solve \in BOOLEAN : OneShot(t, confirm, solve)
  BY <1>6, OneShotWork, OneShotDirectory DEF Inv
<1>7. CASE UNCHANGED vars
  <2>1. DirectoriesHold'
    BY <1>7 DEF Inv, DirectoriesHold, OwnDirectory, vars
  <2> QED
    BY <1>7, <2>1, RunWork DEF Inv
<1> QED
  BY <1>1, <1>2, <1>3, <1>4, <1>5, <1>6, <1>7 DEF Next

LEMMA Invariance == Spec => []Inv
<1>1. Inv /\ [Next]_vars => Inv'
  BY InvStep
<1> QED
  BY InitStep, <1>1, PTL DEF Spec

\* What /confirm would build and the case /solve would run are of the turns as
\* they read now, and choices are left to the agent only by a user who said so
\* last, after any edits, undone turns, new sessions and changes of the mode
\* (cli.py, _run_session and _confirm_session; conversation.py).
THEOREM WorkIsOfTheConversationCorrect == Spec => []WorkIsOfTheConversation
<1>1. Inv => WorkIsOfTheConversation
  BY DEF Inv, WorkHolds
<1> QED
  BY <1>1, Invariance, PTL

\* However many attempts fail and sessions are dropped, a case is built where
\* nothing was built before (cli.py, run_prompt).
THEOREM OwnDirectoryCorrect == Spec => []OwnDirectory
<1>1. Inv => OwnDirectory
  BY DEF Inv, DirectoriesHold
<1> QED
  BY <1>1, Invariance, PTL

-----------------------------------------------------------------------------
(***************************************************************************)
(* The reading of a conversation.  An accepted intake is the last word on  *)
(* every target, which is an invariant of the turns read so far.           *)
(***************************************************************************)

Seens == [current : [Keys -> Mark \cup {None}], masked : SUBSET (Nat \X Nat),
          cancelled : SUBSET Keys]

\* A conversation, as far as it is read.
LEMMA Legible ==
    ASSUME NEW c \in Seq(Said), NEW i \in 1 .. Len(c)
    PROVE  c[i].assigns \in Seq(Assignment) /\ c[i].cancels \in Seq(Keys)
<1>1. c[i] \in Said
  BY LenProperties
<1> QED
  BY <1>1, SessionAssumption DEF Said

(***************************************************************************)
(* The folds of a reading, step by step.                                   *)
(***************************************************************************)
Assigned(c, s, i) == FoldLeftDomain(LAMBDA t, n : ReadAssignment(c, t, i, n), s, c[i].assigns)
Dropped(c, s, i)  == FoldLeft(ReadCancel, s, c[i].cancels)

IsAssigning(g, c, b, i, places, D) ==
    g = [s \in SUBSET D |-> IF s = {} THEN b
                            ELSE ReadAssignment(c, g[s \ {Max(s)}], i, places[Max(s)])]

Assigning(c, b, i, places, D) == CHOOSE g : IsAssigning(g, c, b, i, places, D)

LEMMA AssignedUnfolds ==
    ASSUME NEW c, NEW b, NEW i
    PROVE  LET places == [j \in DOMAIN c[i].assigns |-> j]
           IN  Assigned(c, b, i) = Assigning(c, b, i, places, DOMAIN places)[DOMAIN places]
BY Zenon DEF Assigned, FoldLeftDomain, FoldLeft, MapThenFoldSet, Assigning, IsAssigning

LEMMA AssigningIs ==
    ASSUME NEW c, NEW b, NEW i, NEW places, NEW D, NEW g, IsAssigning(g, c, b, i, places, D)
    PROVE  IsAssigning(Assigning(c, b, i, places, D), c, b, i, places, D)
BY Zenon DEF Assigning

IsDropping(g, c, b, i) ==
    g = [s \in SUBSET DOMAIN c[i].cancels |->
            IF s = {} THEN b ELSE ReadCancel(g[s \ {Max(s)}], c[i].cancels[Max(s)])]

Dropping(c, b, i) == CHOOSE g : IsDropping(g, c, b, i)

LEMMA DroppedUnfolds ==
    ASSUME NEW c, NEW b, NEW i
    PROVE  Dropped(c, b, i) = Dropping(c, b, i)[DOMAIN c[i].cancels]
BY Zenon DEF Dropped, FoldLeft, MapThenFoldSet, Dropping, IsDropping

LEMMA DroppingIs ==
    ASSUME NEW c, NEW b, NEW i, NEW g, IsDropping(g, c, b, i)
    PROVE  IsDropping(Dropping(c, b, i), c, b, i)
BY Zenon DEF Dropping

IsReading(g, c, places, D) ==
    g = [s \in SUBSET D |-> IF s = {} THEN Unread
                            ELSE ReadTurn(c, g[s \ {Max(s)}], places[Max(s)])]

Readings(c, places, D) == CHOOSE g : IsReading(g, c, places, D)

LEMMA ReadingUnfolds ==
    ASSUME NEW c
    PROVE  LET places == [j \in DOMAIN c |-> j]
           IN  Reading(c) = Readings(c, places, DOMAIN places)[DOMAIN places]
BY Zenon DEF Reading, FoldLeftDomain, FoldLeft, MapThenFoldSet, Readings, IsReading

LEMMA ReadingsIs ==
    ASSUME NEW c, NEW places, NEW D, NEW g, IsReading(g, c, places, D)
    PROVE  IsReading(Readings(c, places, D), c, places, D)
BY Zenon DEF Readings

LEMMA WordsAre ==
    ASSUME NEW c, NEW s, NEW i
    PROVE  ReadWords(c, s, i) = Dropped(c, Assigned(c, s, i), i)
BY Zenon DEF ReadWords, Dropped, Assigned

LEMMA AssignmentTyped ==
    ASSUME NEW c \in Seq(Said), NEW i \in 1 .. Len(c), NEW s \in Seens,
           NEW n \in 1 .. Len(c[i].assigns)
    PROVE  ReadAssignment(c, s, i, n) \in Seens
<1> DEFINE a == c[i].assigns[n]
           mark == [turn |-> i, place |-> n, value |-> a.value]
           prior == s.current[a.key]
           masked == IF prior # None /\ prior.turn # i
                     THEN s.masked \cup {<<prior.turn, prior.place>>} ELSE s.masked
           current == [s.current EXCEPT ![a.key] = mark]
<1>1. c[i].assigns \in Seq(Assignment)
  BY Legible
<1>2. a \in Assignment /\ i \in Nat /\ n \in Nat
  BY <1>1, LenProperties
<1>3. a.key \in Keys /\ mark \in Mark
  BY <1>2 DEF Assignment, Mark
<1>4. s.current \in [Keys -> Mark \cup {None}] /\ s.masked \in SUBSET (Nat \X Nat)
  BY DEF Seens
<1>5. ReadAssignment(c, s, i, n) = [s EXCEPT !.current = current, !.masked = masked]
  BY DEF ReadAssignment, Seens
<1> HIDE DEF a, mark
<1>6. masked \in SUBSET (Nat \X Nat)
  <2>1. prior # None => prior.turn \in Nat /\ prior.place \in Nat
    BY <1>3, <1>4 DEF Mark
  <2> QED
    BY <1>4, <2>1
<1>7. current \in [Keys -> Mark \cup {None}]
  BY <1>3, <1>4
<1> HIDE DEF current, masked
<1> QED
  BY <1>5, <1>6, <1>7 DEF Seens

LEMMA CancelTyped ==
    ASSUME NEW s \in Seens, NEW k \in Keys
    PROVE  ReadCancel(s, k) \in Seens
<1> DEFINE prior == s.current[k]
           masked == s.masked \cup {<<prior.turn, prior.place>>}
           cancelled == s.cancelled \cup {k}
           current == [s.current EXCEPT ![k] = None]
<1>1. s.current \in [Keys -> Mark \cup {None}] /\ s.masked \in SUBSET (Nat \X Nat)
      /\ s.cancelled \in SUBSET Keys
  BY DEF Seens
<1>2. CASE prior = None
  BY <1>2 DEF ReadCancel
<1>3. CASE prior # None
  <2>1. ReadCancel(s, k) = [s EXCEPT !.masked = masked, !.cancelled = cancelled, !.current = current]
    BY <1>3 DEF ReadCancel, Seens
  <2>2. prior.turn \in Nat /\ prior.place \in Nat
    BY <1>1, <1>3 DEF Mark
  <2>3. masked \in SUBSET (Nat \X Nat) /\ cancelled \in SUBSET Keys
    BY <1>1, <2>2
  <2>4. current \in [Keys -> Mark \cup {None}]
    BY <1>1
  <2> HIDE DEF masked, cancelled, current
  <2> QED
    BY <2>1, <2>3, <2>4 DEF Seens
<1> QED
  BY <1>2, <1>3

AssignsTo(h, n, c, s, i) ==
    /\ h \in [0 .. n -> Seens]
    /\ h[0] = s
    /\ \A k \in 1 .. n : h[k] = ReadAssignment(c, h[k - 1], i, k)
    /\ Assigned(c, s, i) = h[n]

LEMMA AssignSteps ==
    ASSUME NEW c \in Seq(Said), NEW i \in 1 .. Len(c), NEW s \in Seens,
           NEW n \in Nat, n = Len(c[i].assigns)
    PROVE  \E h : AssignsTo(h, n, c, s, i)
<1> DEFINE places == [j \in DOMAIN c[i].assigns |-> j]
           G == [x \in (1 .. n) \X Seens |-> ReadAssignment(c, x[2], i, x[1])]
           It == Assigning(c, s, i, places, 1 .. n)
<1>1. DOMAIN places = 1 .. n /\ \A k \in 1 .. n : places[k] = k
  BY Legible, LenProperties
<1>2. \A k \in 1 .. n, v \in Seens : ReadAssignment(c, v, i, k) \in Seens
  BY AssignmentTyped
<1>3. G \in Steps(n, Seens)
  BY <1>2 DEF Steps
<1>4. \A k \in 1 .. n, v \in Seens : G[<<k, v>>] = ReadAssignment(c, v, i, k)
  OBVIOUS
<1> HIDE DEF G, It, places
<1>5. PICK g : Folds(g, n, Seens, s, G)
  BY <1>3, FoldFunctionExists
<1>6. IsAssigning(g, c, s, i, places, 1 .. n)
  <2> SUFFICES ASSUME NEW u \in SUBSET (1 .. n), u # {}
               PROVE  g[u] = ReadAssignment(c, g[u \ {Max(u)}], i, places[Max(u)])
    BY <1>5 DEF Folds, IsAssigning
  <2>1. Max(u) \in 1 .. n
    BY MaxIsMember
  <2>2. g[u \ {Max(u)}] \in Seens
    BY <1>5 DEF Folds
  <2> QED
    BY <1>1, <1>4, <1>5, <2>1, <2>2 DEF Folds
<1>7. It = [u \in SUBSET (1 .. n) |-> IF u = {} THEN s
                  ELSE ReadAssignment(c, It[u \ {Max(u)}], i, places[Max(u)])]
  <2>1. IsAssigning(It, c, s, i, places, 1 .. n)
    BY <1>6, AssigningIs DEF It
  <2> QED
    BY <2>1, Zenon DEF IsAssigning
<1>8. FoldsLike(It, n, Seens, s, G)
  <2>1. It[{}] = s
    BY <1>7, Zenon
  <2>2. ASSUME NEW u \in SUBSET (1 .. n), u # {}, It[u \ {Max(u)}] \in Seens
        PROVE  It[u] = G[<<Max(u), It[u \ {Max(u)}]>>]
    <3>1. Max(u) \in 1 .. n
      BY <2>2, MaxIsMember
    <3>2. places[Max(u)] = Max(u)
      BY <1>1, <3>1
    <3>3. It[u] = ReadAssignment(c, It[u \ {Max(u)}], i, places[Max(u)])
      BY <1>7, <2>2, Zenon
    <3>4. G[<<Max(u), It[u \ {Max(u)}]>>] = ReadAssignment(c, It[u \ {Max(u)}], i, Max(u))
      BY <1>4, <2>2, <3>1
    <3> QED
      BY <3>2, <3>3, <3>4
  <2> QED
    BY <2>1, <2>2 DEF FoldsLike
<1>9. PICK h : PrefixSteps(h, n, Seens, s, G) /\ It[1 .. n] = h[n]
  BY <1>3, <1>8, FoldSteps
<1>10. Assigned(c, s, i) = It[1 .. n]
  BY <1>1, AssignedUnfolds DEF It, places
<1>11. \A k \in 1 .. n : h[k] = ReadAssignment(c, h[k - 1], i, k)
  <2> TAKE k \in 1 .. n
  <2>1. k - 1 \in 0 .. n
    OBVIOUS
  <2>2. h[k - 1] \in Seens
    BY <1>9, <2>1 DEF PrefixSteps
  <2> QED
    BY <1>4, <1>9, <2>2 DEF PrefixSteps
<1> QED
  BY <1>9, <1>10, <1>11 DEF PrefixSteps, AssignsTo

DropsTo(h, n, c, s, i) ==
    /\ h \in [0 .. n -> Seens]
    /\ h[0] = s
    /\ \A k \in 1 .. n : h[k] = ReadCancel(h[k - 1], c[i].cancels[k])
    /\ Dropped(c, s, i) = h[n]

LEMMA DropSteps ==
    ASSUME NEW c \in Seq(Said), NEW i \in 1 .. Len(c), NEW s \in Seens,
           NEW n \in Nat, n = Len(c[i].cancels)
    PROVE  \E h : DropsTo(h, n, c, s, i)
<1> DEFINE q == c[i].cancels
           G == [x \in (1 .. n) \X Seens |-> ReadCancel(x[2], q[x[1]])]
           It == Dropping(c, s, i)
<1>1. DOMAIN q = 1 .. n /\ \A k \in 1 .. n : q[k] \in Keys
  BY Legible, LenProperties
<1>2. \A k \in 1 .. n, v \in Seens : ReadCancel(v, q[k]) \in Seens
  BY <1>1, CancelTyped
<1>3. G \in Steps(n, Seens)
  BY <1>2 DEF Steps
<1>4. \A k \in 1 .. n, v \in Seens : G[<<k, v>>] = ReadCancel(v, q[k])
  OBVIOUS
<1> HIDE DEF G, It
<1>5. PICK g : Folds(g, n, Seens, s, G)
  BY <1>3, FoldFunctionExists
<1>6. IsDropping(g, c, s, i)
  <2> SUFFICES ASSUME NEW u \in SUBSET (1 .. n), u # {}
               PROVE  g[u] = ReadCancel(g[u \ {Max(u)}], q[Max(u)])
    BY <1>1, <1>5 DEF Folds, IsDropping
  <2>1. Max(u) \in 1 .. n
    BY MaxIsMember
  <2>2. g[u \ {Max(u)}] \in Seens
    BY <1>5 DEF Folds
  <2> QED
    BY <1>4, <1>5, <2>1, <2>2 DEF Folds
<1>7. It = [u \in SUBSET DOMAIN q |-> IF u = {} THEN s
                  ELSE ReadCancel(It[u \ {Max(u)}], q[Max(u)])]
  <2>1. IsDropping(It, c, s, i)
    BY <1>6, DroppingIs DEF It
  <2> QED
    BY <2>1, Zenon DEF IsDropping
<1>8. FoldsLike(It, n, Seens, s, G)
  <2>1. It[{}] = s
    BY <1>7, Zenon
  <2>2. ASSUME NEW u \in SUBSET (1 .. n), u # {}, It[u \ {Max(u)}] \in Seens
        PROVE  It[u] = G[<<Max(u), It[u \ {Max(u)}]>>]
    <3>1. Max(u) \in 1 .. n
      BY <2>2, MaxIsMember
    <3>2. u \in SUBSET DOMAIN q
      BY <1>1
    <3>3. It[u] = ReadCancel(It[u \ {Max(u)}], q[Max(u)])
      BY <1>7, <2>2, <3>2, Zenon
    <3>4. G[<<Max(u), It[u \ {Max(u)}]>>] = ReadCancel(It[u \ {Max(u)}], q[Max(u)])
      BY <1>4, <2>2, <3>1
    <3> QED
      BY <3>3, <3>4
  <2> QED
    BY <2>1, <2>2 DEF FoldsLike
<1>9. PICK h : PrefixSteps(h, n, Seens, s, G) /\ It[1 .. n] = h[n]
  BY <1>3, <1>8, FoldSteps
<1>10. Dropped(c, s, i) = It[1 .. n]
  BY <1>1, DroppedUnfolds DEF It
<1>11. \A k \in 1 .. n : h[k] = ReadCancel(h[k - 1], q[k])
  <2> TAKE k \in 1 .. n
  <2>1. k - 1 \in 0 .. n
    OBVIOUS
  <2>2. h[k - 1] \in Seens
    BY <1>9, <2>1 DEF PrefixSteps
  <2> QED
    BY <1>4, <1>9, <2>2 DEF PrefixSteps
<1> QED
  BY <1>9, <1>10, <1>11 DEF PrefixSteps, DropsTo

(***************************************************************************)
(* What a reading holds.                                                   *)
(***************************************************************************)
\* Turn t gives target k a value at place p, or cancels it.
Gives(c, t, p, k)  == p \in DOMAIN c[t].assigns /\ c[t].assigns[p].key = k
Cancels(c, t, k)   == k \in ToSet(c[t].cancels)

\* Up to turn i, another turn than t gave k a value after it, or k was cancelled.
Replaced(c, t, k, i) ==
    \E j \in 1 .. i :
        /\ ~c[j].asks
        /\ \/ j >= t /\ Cancels(c, j, k)
           \/ j > t /\ \E m \in DOMAIN c[j].assigns : c[j].assigns[m].key = k

\* What stands was stated, and what is masked was replaced.
StandsWell(c, i, s) ==
    \A k \in Keys : s.current[k] # None =>
        /\ s.current[k].turn \in 1 .. i
        /\ ~c[s.current[k].turn].asks
        /\ Gives(c, s.current[k].turn, s.current[k].place, k)

MaskedWell(c, i, s) ==
    \A t, p \in Nat : <<t, p>> \in s.masked =>
        /\ t \in 1 .. i
        /\ ~c[t].asks
        /\ p \in DOMAIN c[t].assigns
        /\ Replaced(c, t, c[t].assigns[p].key, i)

ReadWell(c, i, s) == s \in Seens /\ StandsWell(c, i, s) /\ MaskedWell(c, i, s)

LEMMA ReadWellLater ==
    ASSUME NEW c, NEW i \in Nat, NEW s, ReadWell(c, i, s)
    PROVE  ReadWell(c, i + 1, s)
<1>1. \A j \in 1 .. i : j \in 1 .. i + 1
  OBVIOUS
<1>2. \A t, k : Replaced(c, t, k, i) => Replaced(c, t, k, i + 1)
  BY <1>1 DEF Replaced
<1>3. StandsWell(c, i + 1, s)
  BY <1>1 DEF ReadWell, StandsWell
<1>4. MaskedWell(c, i + 1, s)
  BY <1>1, <1>2 DEF ReadWell, MaskedWell
<1> QED
  BY <1>3, <1>4 DEF ReadWell

\* One assignment of turn i is read.
LEMMA AssignmentKeeps ==
    ASSUME NEW c \in Seq(Said), NEW i \in 1 .. Len(c), ~c[i].asks,
           NEW n \in 1 .. Len(c[i].assigns), NEW s, ReadWell(c, i, s)
    PROVE  LET t == ReadAssignment(c, s, i, n)
               a == c[i].assigns[n]
           IN  /\ ReadWell(c, i, t)
               /\ a.key \in Keys
               /\ t.current[a.key] # None /\ t.current[a.key].value = a.value
               /\ \A k \in Keys \ {a.key} : t.current[k] = s.current[k]
<1> DEFINE t == ReadAssignment(c, s, i, n)
           a == c[i].assigns[n]
           mark == [turn |-> i, place |-> n, value |-> a.value]
           prior == s.current[a.key]
<1>1. c[i].assigns \in Seq(Assignment) /\ i \in Nat /\ n \in Nat
  BY Legible, LenProperties
<1>2. a \in Assignment /\ n \in DOMAIN c[i].assigns
  BY <1>1, LenProperties
<1>3. a.key \in Keys /\ mark \in Mark /\ mark # None
  BY <1>1, <1>2, NoneAssumption DEF Assignment, Mark
<1>4. s.current \in [Keys -> Mark \cup {None}] /\ s \in Seens
  BY DEF ReadWell, Seens
<1>5. t \in Seens
  BY <1>4, AssignmentTyped
<1>6. /\ t.current = [s.current EXCEPT ![a.key] = mark]
      /\ t.masked = IF prior # None /\ prior.turn # i
                    THEN s.masked \cup {<<prior.turn, prior.place>>} ELSE s.masked
  BY <1>4 DEF ReadAssignment, Seens
<1> HIDE DEF t
<1>7. t.current[a.key] = mark /\ \A k \in Keys \ {a.key} : t.current[k] = s.current[k]
  BY <1>3, <1>4, <1>6
<1>8. mark.turn = i /\ mark.place = n /\ mark.value = a.value
  OBVIOUS
<1> HIDE DEF mark
<1>9. StandsWell(c, i, t)
  <2> SUFFICES ASSUME NEW k \in Keys, t.current[k] # None
               PROVE  /\ t.current[k].turn \in 1 .. i
                      /\ ~c[t.current[k].turn].asks
                      /\ Gives(c, t.current[k].turn, t.current[k].place, k)
    BY DEF StandsWell
  <2>1. CASE k = a.key
    <3>1. Gives(c, i, n, k)
      BY <1>2, <2>1 DEF Gives
    <3> QED
      BY <1>1, <1>7, <1>8, <2>1, <3>1
  <2>2. CASE k # a.key
    BY <1>7, <2>2 DEF ReadWell, StandsWell
  <2> QED
    BY <2>1, <2>2
<1>10. MaskedWell(c, i, t)
  <2> SUFFICES ASSUME NEW u \in Nat, NEW p \in Nat, <<u, p>> \in t.masked
               PROVE  /\ u \in 1 .. i
                      /\ ~c[u].asks
                      /\ p \in DOMAIN c[u].assigns
                      /\ Replaced(c, u, c[u].assigns[p].key, i)
    BY DEF MaskedWell
  <2>1. CASE <<u, p>> \in s.masked
    BY <2>1 DEF ReadWell, MaskedWell
  <2>2. CASE <<u, p>> \notin s.masked
    <3> DEFINE k == a.key
    <3>1. s.current[k] # None /\ s.current[k].turn # i /\ k \in Keys
          /\ u = s.current[k].turn /\ p = s.current[k].place
      <4>1. prior # None /\ prior.turn # i
        BY <1>6, <2>2
      <4>2. t.masked = s.masked \cup {<<prior.turn, prior.place>>}
        BY <1>6, <4>1
      <4> QED
        BY <1>3, <2>2, <4>1, <4>2
    <3>2. u \in 1 .. i /\ ~c[u].asks /\ Gives(c, u, p, a.key)
      <4> HIDE DEF k
      <4>1. u \in 1 .. i /\ ~c[u].asks /\ Gives(c, u, p, k)
        BY <3>1 DEF ReadWell, StandsWell
      <4> QED
        BY <4>1 DEF k
    <3>3. i > u /\ i \in 1 .. i
      <4>1. u # i /\ u \in 1 .. i
        BY <3>1, <3>2
      <4> QED
        BY <1>1, <4>1
    <3>4. Replaced(c, u, a.key, i)
      BY <1>2, <3>3 DEF Replaced
    <3> QED
      BY <3>2, <3>4 DEF Gives
  <2> QED
    BY <2>1, <2>2
<1> QED
  BY <1>3, <1>5, <1>7, <1>8, <1>9, <1>10 DEF ReadWell, t

\* One cancelled target of turn i is read.
LEMMA CancelKeeps ==
    ASSUME NEW c \in Seq(Said), NEW i \in 1 .. Len(c), ~c[i].asks,
           NEW k \in Keys, Cancels(c, i, k), NEW s, ReadWell(c, i, s)
    PROVE  /\ ReadWell(c, i, ReadCancel(s, k))
           /\ \A l \in Keys \ {k} : ReadCancel(s, k).current[l] = s.current[l]
<1> DEFINE t == ReadCancel(s, k)
           prior == s.current[k]
<1>1. s.current \in [Keys -> Mark \cup {None}] /\ s \in Seens /\ t \in Seens /\ i \in Nat
  BY CancelTyped, LenProperties DEF ReadWell, Seens
<1>2. CASE prior = None
  BY <1>2 DEF ReadCancel
<1>3. CASE prior # None
  <2>1. /\ t.current = [s.current EXCEPT ![k] = None]
        /\ t.masked = s.masked \cup {<<prior.turn, prior.place>>}
    BY <1>1, <1>3 DEF ReadCancel, Seens
  <2> HIDE DEF t
  <2>2. t.current[k] = None /\ \A l \in Keys \ {k} : t.current[l] = s.current[l]
    BY <1>1, <2>1
  <2>3. StandsWell(c, i, t)
    BY <2>2 DEF ReadWell, StandsWell
  <2>4. MaskedWell(c, i, t)
    <3> SUFFICES ASSUME NEW u \in Nat, NEW p \in Nat, <<u, p>> \in t.masked
                 PROVE  /\ u \in 1 .. i
                        /\ ~c[u].asks
                        /\ p \in DOMAIN c[u].assigns
                        /\ Replaced(c, u, c[u].assigns[p].key, i)
      BY DEF MaskedWell
    <3>1. CASE <<u, p>> \in s.masked
      BY <3>1 DEF ReadWell, MaskedWell
    <3>2. CASE <<u, p>> \notin s.masked
      <4>1. u = prior.turn /\ p = prior.place
        BY <2>1, <3>2
      <4>2. u \in 1 .. i /\ ~c[u].asks /\ Gives(c, u, p, k)
        BY <1>3, <4>1 DEF ReadWell, StandsWell
      <4>3. i >= u /\ i \in 1 .. i
        BY <1>1, <4>2
      <4>4. Replaced(c, u, k, i)
        BY <4>3 DEF Replaced
      <4> QED
        BY <4>2, <4>4 DEF Gives
    <3> QED
      BY <3>1, <3>2
  <2>5. ReadWell(c, i, t)
    BY <1>1, <2>3, <2>4 DEF ReadWell
  <2> QED
    BY <2>2, <2>5 DEF t
<1> QED
  BY <1>2, <1>3

\* After the first n assignments of turn i, a target they do not give is as
\* before, and the others have the last of their values.
Within(c, i, n, s, t) ==
    \A k \in Keys :
        /\ (\A m \in 1 .. n : c[i].assigns[m].key # k) => t.current[k] = s.current[k]
        /\ \A m \in 1 .. n :
              c[i].assigns[m].key = k /\ (\A l \in 1 .. n : l > m => c[i].assigns[l].key # k) =>
                 t.current[k] # None /\ t.current[k].value = c[i].assigns[m].value

LEMMA AssignedWell ==
    ASSUME NEW c \in Seq(Said), NEW i \in 1 .. Len(c), ~c[i].asks, NEW s, ReadWell(c, i, s)
    PROVE  /\ ReadWell(c, i, Assigned(c, s, i))
           /\ Within(c, i, Len(c[i].assigns), s, Assigned(c, s, i))
<1> DEFINE n == Len(c[i].assigns)
<1>1. n \in Nat /\ n = Len(c[i].assigns) /\ s \in Seens
  BY Legible, LenProperties DEF ReadWell
<1> HIDE DEF n
<1>2. PICK h : AssignsTo(h, n, c, s, i)
  BY <1>1, AssignSteps
<1> DEFINE T == {k \in 0 .. n : ReadWell(c, i, h[k]) /\ Within(c, i, k, s, h[k])}
<1>3. 0 \in T
  BY <1>1, <1>2 DEF AssignsTo, Within
<1>4. ASSUME NEW k \in 0 .. n - 1, k \in T
      PROVE  k + 1 \in T
  <2> DEFINE y == k + 1
             a == c[i].assigns[y]
  <2>1. k \in 0 .. n /\ y \in 1 .. n /\ y \in 0 .. n /\ y - 1 = k /\ 1 .. y = 1 .. k \cup {y}
        /\ y \notin 1 .. k /\ \A m \in 1 .. k : y > m
    BY <1>1
  <2>2. ReadWell(c, i, h[k]) /\ Within(c, i, k, s, h[k])
    BY <1>4
  <2> HIDE DEF y
  <2>3. h[y] = ReadAssignment(c, h[k], i, y) /\ y \in 1 .. Len(c[i].assigns)
    BY <1>1, <1>2, <2>1 DEF AssignsTo
  <2>4. /\ ReadWell(c, i, h[y])
        /\ a.key \in Keys
        /\ h[y].current[a.key] # None /\ h[y].current[a.key].value = a.value
        /\ \A l \in Keys \ {a.key} : h[y].current[l] = h[k].current[l]
    BY <2>2, <2>3, AssignmentKeeps
  <2>5. Within(c, i, y, s, h[y])
    <3> SUFFICES ASSUME NEW l \in Keys
                 PROVE  /\ (\A m \in 1 .. y : c[i].assigns[m].key # l) => h[y].current[l] = s.current[l]
                        /\ \A m \in 1 .. y :
                              c[i].assigns[m].key = l
                              /\ (\A z \in 1 .. y : z > m => c[i].assigns[z].key # l) =>
                                 h[y].current[l] # None /\ h[y].current[l].value = c[i].assigns[m].value
      BY DEF Within
    <3>1. CASE l = a.key
      BY <2>1, <2>4, <3>1
    <3>2. CASE l # a.key
      BY <2>1, <2>2, <2>4, <3>2 DEF Within
    <3> QED
      BY <3>1, <3>2
  <2> QED
    BY <2>1, <2>4, <2>5 DEF y
<1>5. n \in T
  <2>1. n \in 0 .. n
    BY <1>1
  <2> HIDE DEF T
  <2> QED
    BY <1>1, <1>3, <1>4, <2>1, NumberInduction
<1> QED
  BY <1>1, <1>2, <1>5 DEF AssignsTo

LEMMA DroppedWell ==
    ASSUME NEW c \in Seq(Said), NEW i \in 1 .. Len(c), ~c[i].asks, NEW s, ReadWell(c, i, s)
    PROVE  /\ ReadWell(c, i, Dropped(c, s, i))
           /\ \A k \in Keys : ~Cancels(c, i, k) => Dropped(c, s, i).current[k] = s.current[k]
<1> DEFINE n == Len(c[i].cancels)
<1>1. n \in Nat /\ n = Len(c[i].cancels) /\ s \in Seens
      /\ \A k \in 1 .. n : c[i].cancels[k] \in Keys /\ Cancels(c, i, c[i].cancels[k])
  <2>1. c[i].cancels \in Seq(Keys)
    BY Legible
  <2>2. n \in Nat /\ DOMAIN c[i].cancels = 1 .. n /\ \A k \in 1 .. n : c[i].cancels[k] \in Keys
    BY <2>1, LenProperties
  <2> QED
    BY <2>2 DEF ReadWell, Cancels, ToSet
<1> HIDE DEF n
<1>2. PICK h : DropsTo(h, n, c, s, i)
  BY <1>1, DropSteps
<1> DEFINE Same(t) == \A l \in Keys : ~Cancels(c, i, l) => t.current[l] = s.current[l]
           T == {k \in 0 .. n : ReadWell(c, i, h[k]) /\ Same(h[k])}
<1>3. 0 \in T
  BY <1>1, <1>2 DEF DropsTo
<1>4. ASSUME NEW k \in 0 .. n - 1, k \in T
      PROVE  k + 1 \in T
  <2> DEFINE y == k + 1
             x == c[i].cancels[y]
  <2>1. k \in 0 .. n /\ y \in 1 .. n /\ y \in 0 .. n /\ y - 1 = k
    BY <1>1
  <2>2. ReadWell(c, i, h[k]) /\ Same(h[k])
    BY <1>4
  <2> HIDE DEF y
  <2>3. h[y] = ReadCancel(h[k], x) /\ x \in Keys /\ Cancels(c, i, x)
    BY <1>1, <1>2, <2>1 DEF DropsTo
  <2> HIDE DEF x
  <2>4. ReadWell(c, i, h[y]) /\ \A l \in Keys \ {x} : h[y].current[l] = h[k].current[l]
    BY <2>2, <2>3, CancelKeeps
  <2>5. Same(h[y])
    BY <2>2, <2>3, <2>4
  <2> QED
    BY <2>1, <2>4, <2>5 DEF y
<1>5. n \in T
  <2>1. n \in 0 .. n
    BY <1>1
  <2> HIDE DEF T
  <2> QED
    BY <1>1, <1>3, <1>4, <2>1, NumberInduction
<1> QED
  BY <1>1, <1>2, <1>5 DEF DropsTo

(***************************************************************************)
(* The last word.                                                          *)
(***************************************************************************)
Mentioned(c, j, k) ==
    ~c[j].asks /\ (Cancels(c, j, k) \/ \E n \in DOMAIN c[j].assigns : c[j].assigns[n].key = k)

\* Place m of turn j is the last place where it gives k a value.
LastPlace(c, j, k, m) ==
    Gives(c, j, m, k) /\ \A l \in DOMAIN c[j].assigns : l > m => c[j].assigns[l].key # k

\* Of the turns up to i, what the last one that mentions a target gives it stands.
LastStands(c, i, s) ==
    \A k \in Keys : \A j \in 1 .. i : \A m \in Nat :
        /\ Mentioned(c, j, k)
        /\ \A l \in 1 .. i : l > j => ~Mentioned(c, l, k)
        /\ ~Cancels(c, j, k)
        /\ LastPlace(c, j, k, m)
        => s.current[k] # None /\ s.current[k].value = c[j].assigns[m].value

LEMMA TurnRead ==
    ASSUME NEW c \in Seq(Said), NEW i \in Nat, i + 1 \in 1 .. Len(c),
           NEW s, ReadWell(c, i, s), LastStands(c, i, s)
    PROVE  ReadWell(c, i + 1, ReadTurn(c, s, i + 1)) /\ LastStands(c, i + 1, ReadTurn(c, s, i + 1))
<1> DEFINE y == i + 1
           t == ReadTurn(c, s, y)
<1>1. y \in 1 .. Len(c) /\ y \in Nat /\ y \in 1 .. y /\ i \in Nat /\ y > i
      /\ 1 .. y = 1 .. i \cup {y} /\ \A j \in 1 .. i : y > j
  OBVIOUS
<1>2. ReadWell(c, y, s)
  BY ReadWellLater
<1> HIDE DEF y
<1>3. CASE c[y].asks
  <2>1. t = s
    BY <1>3 DEF ReadTurn
  <2>2. LastStands(c, y, s)
    <3>1. \A k : ~Mentioned(c, y, k)
      BY <1>3 DEF Mentioned
    <3> QED
      BY <1>1, <3>1 DEF LastStands
  <2> QED
    BY <1>2, <2>1, <2>2 DEF y
<1>4. CASE ~c[y].asks
  <2> DEFINE u == Assigned(c, s, y)
  <2>1. t = Dropped(c, u, y)
    BY <1>4, WordsAre DEF ReadTurn
  <2> HIDE DEF u, t
  <2>2. ReadWell(c, y, u) /\ Within(c, y, Len(c[y].assigns), s, u)
    BY <1>1, <1>2, <1>4, AssignedWell DEF u
  <2>3. ReadWell(c, y, t) /\ \A k \in Keys : ~Cancels(c, y, k) => t.current[k] = u.current[k]
    BY <1>1, <1>4, <2>1, <2>2, DroppedWell
  <2>4. DOMAIN c[y].assigns = 1 .. Len(c[y].assigns)
    BY <1>1, Legible, LenProperties
  <2>5. LastStands(c, y, t)
    <3> SUFFICES ASSUME NEW k \in Keys, NEW j \in 1 .. y, NEW m \in Nat,
                        Mentioned(c, j, k),
                        \A l \in 1 .. y : l > j => ~Mentioned(c, l, k),
                        ~Cancels(c, j, k), LastPlace(c, j, k, m)
                 PROVE  t.current[k] # None /\ t.current[k].value = c[j].assigns[m].value
      BY DEF LastStands
    <3>1. CASE j = y
      <4>1. m \in 1 .. Len(c[y].assigns) /\ c[y].assigns[m].key = k
            /\ \A l \in 1 .. Len(c[y].assigns) : l > m => c[y].assigns[l].key # k
        BY <2>4, <3>1 DEF LastPlace, Gives
      <4>2. u.current[k] # None /\ u.current[k].value = c[y].assigns[m].value
        BY <2>2, <4>1 DEF Within
      <4> QED
        BY <2>3, <3>1, <4>2
    <3>2. CASE j # y
      <4>1. j \in 1 .. i /\ ~Mentioned(c, y, k) /\ y \in 1 .. y
        BY <1>1, <3>2
      <4>2. s.current[k] # None /\ s.current[k].value = c[j].assigns[m].value
        BY <1>1, <4>1 DEF LastStands
      <4>3. ~Cancels(c, y, k) /\ \A n \in 1 .. Len(c[y].assigns) : c[y].assigns[n].key # k
        BY <1>4, <2>4, <4>1 DEF Mentioned
      <4>4. u.current[k] = s.current[k]
        BY <2>2, <4>3 DEF Within
      <4> QED
        BY <2>3, <4>2, <4>3, <4>4
    <3> QED
      BY <3>1, <3>2
  <2> QED
    BY <2>3, <2>5 DEF y, t
<1> QED
  BY <1>3, <1>4

\* What a turn reads is typed even where nothing is known of what was read.
LEMMA TurnTyped ==
    ASSUME NEW c \in Seq(Said), NEW i \in 1 .. Len(c), NEW s \in Seens
    PROVE  ReadTurn(c, s, i) \in Seens
<1>1. Assigned(c, s, i) \in Seens
  <2> DEFINE n == Len(c[i].assigns)
  <2>1. n \in Nat
    BY Legible, LenProperties
  <2> HIDE DEF n
  <2>2. PICK h : AssignsTo(h, n, c, s, i)
    BY <2>1, AssignSteps DEF n
  <2>3. n \in 0 .. n
    BY <2>1
  <2> QED
    BY <2>2, <2>3 DEF AssignsTo
<1>2. Dropped(c, Assigned(c, s, i), i) \in Seens
  <2> DEFINE n == Len(c[i].cancels)
             u == Assigned(c, s, i)
  <2>1. n \in Nat
    BY Legible, LenProperties
  <2> HIDE DEF n, u
  <2>2. PICK h : DropsTo(h, n, c, u, i)
    BY <1>1, <2>1, DropSteps DEF n, u
  <2>3. n \in 0 .. n
    BY <2>1
  <2> QED
    BY <2>2, <2>3 DEF DropsTo, u
<1> QED
  BY <1>2, WordsAre DEF ReadTurn

ReadsTo(h, n, c) ==
    /\ h \in [0 .. n -> Seens]
    /\ h[0] = Unread
    /\ \A k \in 1 .. n : h[k] = ReadTurn(c, h[k - 1], k)
    /\ Reading(c) = h[n]

LEMMA ReadingSteps ==
    ASSUME NEW c \in Seq(Said), NEW n \in Nat, n = Len(c)
    PROVE  \E h : ReadsTo(h, n, c)
<1> DEFINE places == [j \in DOMAIN c |-> j]
           G == [x \in (1 .. n) \X Seens |-> ReadTurn(c, x[2], x[1])]
           It == Readings(c, places, 1 .. n)
<1>1. DOMAIN places = 1 .. n /\ \A k \in 1 .. n : places[k] = k
  BY LenProperties
<1>2. \A k \in 1 .. n, v \in Seens : ReadTurn(c, v, k) \in Seens
  BY TurnTyped
<1>3. G \in Steps(n, Seens) /\ Unread \in Seens
  BY <1>2 DEF Steps, Unread, Seens
<1>4. \A k \in 1 .. n, v \in Seens : G[<<k, v>>] = ReadTurn(c, v, k)
  OBVIOUS
<1> HIDE DEF G, It, places
<1>5. PICK g : Folds(g, n, Seens, Unread, G)
  BY <1>3, FoldFunctionExists
<1>6. IsReading(g, c, places, 1 .. n)
  <2> SUFFICES ASSUME NEW u \in SUBSET (1 .. n), u # {}
               PROVE  g[u] = ReadTurn(c, g[u \ {Max(u)}], places[Max(u)])
    BY <1>5 DEF Folds, IsReading
  <2>1. Max(u) \in 1 .. n
    BY MaxIsMember
  <2>2. g[u \ {Max(u)}] \in Seens
    BY <1>5 DEF Folds
  <2> QED
    BY <1>1, <1>4, <1>5, <2>1, <2>2 DEF Folds
<1>7. It = [u \in SUBSET (1 .. n) |-> IF u = {} THEN Unread
                  ELSE ReadTurn(c, It[u \ {Max(u)}], places[Max(u)])]
  <2>1. IsReading(It, c, places, 1 .. n)
    BY <1>6, ReadingsIs DEF It
  <2> QED
    BY <2>1, Zenon DEF IsReading
<1>8. FoldsLike(It, n, Seens, Unread, G)
  <2>1. It[{}] = Unread
    BY <1>7, Zenon
  <2>2. ASSUME NEW u \in SUBSET (1 .. n), u # {}, It[u \ {Max(u)}] \in Seens
        PROVE  It[u] = G[<<Max(u), It[u \ {Max(u)}]>>]
    <3>1. Max(u) \in 1 .. n
      BY <2>2, MaxIsMember
    <3>2. places[Max(u)] = Max(u)
      BY <1>1, <3>1
    <3>3. It[u] = ReadTurn(c, It[u \ {Max(u)}], places[Max(u)])
      BY <1>7, <2>2, Zenon
    <3>4. G[<<Max(u), It[u \ {Max(u)}]>>] = ReadTurn(c, It[u \ {Max(u)}], Max(u))
      BY <1>4, <2>2, <3>1
    <3> QED
      BY <3>2, <3>3, <3>4
  <2> QED
    BY <2>1, <2>2 DEF FoldsLike
<1>9. PICK h : PrefixSteps(h, n, Seens, Unread, G) /\ It[1 .. n] = h[n]
  BY <1>3, <1>8, FoldSteps
<1>10. Reading(c) = It[1 .. n]
  BY <1>1, ReadingUnfolds DEF It, places
<1>11. \A k \in 1 .. n : h[k] = ReadTurn(c, h[k - 1], k)
  <2> TAKE k \in 1 .. n
  <2>1. k - 1 \in 0 .. n
    OBVIOUS
  <2>2. h[k - 1] \in Seens
    BY <1>9, <2>1 DEF PrefixSteps
  <2> QED
    BY <1>4, <1>9, <2>2 DEF PrefixSteps
<1> QED
  BY <1>9, <1>10, <1>11 DEF PrefixSteps, ReadsTo

LEMMA ReadingIsWell ==
    ASSUME NEW c \in Seq(Said)
    PROVE  ReadWell(c, Len(c), Reading(c)) /\ LastStands(c, Len(c), Reading(c))
<1> DEFINE n == Len(c)
<1>1. n \in Nat /\ n = Len(c)
  BY LenProperties
<1> HIDE DEF n
<1>2. PICK h : ReadsTo(h, n, c)
  BY <1>1, ReadingSteps
<1> DEFINE T == {k \in 0 .. n : ReadWell(c, k, h[k]) /\ LastStands(c, k, h[k])}
<1>3. 0 \in T
  <2>1. h[0] = Unread /\ h[0] \in Seens /\ 0 \in 0 .. n /\ 1 .. 0 = {}
    BY <1>1, <1>2 DEF ReadsTo
  <2>2. Unread.masked = {} /\ \A k \in Keys : Unread.current[k] = None
    BY DEF Unread
  <2> QED
    BY <2>1, <2>2 DEF ReadWell, StandsWell, MaskedWell, LastStands
<1>4. ASSUME NEW k \in 0 .. n - 1, k \in T
      PROVE  k + 1 \in T
  <2>1. k \in Nat /\ k + 1 \in 1 .. n /\ k + 1 \in 0 .. n /\ (k + 1) - 1 = k
    BY <1>1
  <2>2. h[k + 1] = ReadTurn(c, h[k], k + 1)
    BY <1>2, <2>1 DEF ReadsTo
  <2>3. ReadWell(c, k, h[k]) /\ LastStands(c, k, h[k])
    BY <1>4
  <2> HIDE DEF T
  <2>4. ReadWell(c, k + 1, h[k + 1]) /\ LastStands(c, k + 1, h[k + 1])
    BY <1>1, <2>1, <2>2, <2>3, TurnRead
  <2> QED
    BY <2>1, <2>4 DEF T
<1>5. n \in T
  <2>1. n \in 0 .. n
    BY <1>1
  <2> HIDE DEF T
  <2> QED
    BY <1>1, <1>3, <1>4, <2>1, NumberInduction
<1> QED
  BY <1>1, <1>2, <1>5 DEF ReadsTo

\* The last word on a target is the value a reading holds.
LEMMA LastWordRead ==
    ASSUME NEW c \in Seq(Said), NEW k \in Keys, LastWord(c, k) # None
    PROVE  /\ Reading(c).current[k] # None
           /\ Reading(c).current[k].value = LastWord(c, k)
<1> DEFINE M == {i \in DOMAIN c : Mentioned(c, i, k)}
           last == Max({0} \cup M)
           given == {n \in DOMAIN c[last].assigns : c[last].assigns[n].key = k}
<1>1. DOMAIN c = 1 .. Len(c) /\ Len(c) \in Nat /\ M \in SUBSET (1 .. Len(c))
  BY LenProperties
<1>2. /\ last # 0
      /\ k \notin ToSet(c[last].cancels)
      /\ LastWord(c, k) = c[last].assigns[Max(given)].value
  BY Zenon DEF LastWord, Mentioned, Cancels
<1>3. last \in M /\ \A i \in M : i <= last
  <2>1. CASE M = {}
    <3>1. {0} \cup M = {0}
      BY <2>1
    <3>2. Max({0}) = 0
      BY DEF Max
    <3> QED
      BY <1>2, <3>1, <3>2
  <2>2. CASE M # {}
    <3> HIDE DEF M
    <3>1. Max(M) \in M /\ \A i \in M : i <= Max(M)
      BY <1>1, <2>2, MaxIsMember
    <3>2. \E y \in {0} \cup M : \A x \in {0} \cup M : y >= x
      <4>1. PICK y \in M : \A i \in M : i <= y
        BY <3>1
      <4>2. \A x \in {0} \cup M : y >= x
        BY <1>1, <4>1
      <4> QED
        BY <4>1, <4>2
    <3>3. Max({0} \cup M) \in {0} \cup M /\ \A x \in {0} \cup M : Max({0} \cup M) >= x
      BY <3>2 DEF Max
    <3> QED
      BY <1>1, <1>2, <3>3
  <2> QED
    BY <2>1, <2>2
<1>4. last \in 1 .. Len(c) /\ Mentioned(c, last, k) /\ ~Cancels(c, last, k)
  BY <1>1, <1>2, <1>3 DEF Cancels
<1>5. \A l \in 1 .. Len(c) : l > last => ~Mentioned(c, l, k)
  <2> HIDE DEF last
  <2> TAKE l \in 1 .. Len(c)
  <2> HAVE l > last
  <2>1. l \notin M
    BY <1>1, <1>3, <1>4
  <2> QED
    BY <1>1, <2>1
<1> HIDE DEF last
<1>6. Max(given) \in given /\ \A n \in given : n <= Max(given)
  <2>1. c[last].assigns \in Seq(Assignment)
    BY <1>4, Legible
  <2>2. Len(c[last].assigns) \in Nat /\ given \in SUBSET (1 .. Len(c[last].assigns))
    BY <2>1, LenProperties
  <2>3. given # {}
    BY <1>4 DEF Mentioned
  <2> HIDE DEF given
  <2> QED
    BY <2>2, <2>3, MaxIsMember
<1>7. LastPlace(c, last, k, Max(given)) /\ Max(given) \in Nat
  <2>1. DOMAIN c[last].assigns \in SUBSET Nat
    BY <1>4, Legible, LenProperties
  <2>2. Gives(c, last, Max(given), k) /\ Max(given) \in Nat
    BY <1>6, <2>1 DEF Gives
  <2>3. \A l \in DOMAIN c[last].assigns : l > Max(given) => c[last].assigns[l].key # k
    <3> TAKE l \in DOMAIN c[last].assigns
    <3> HAVE l > Max(given)
    <3>1. l \in Nat
      BY <2>1
    <3>2. l \notin given
      <4> HIDE DEF given
      <4> QED
        BY <1>6, <2>2, <3>1
    <3> QED
      BY <3>2
  <2> QED
    BY <2>2, <2>3 DEF LastPlace
<1> QED
  BY <1>2, <1>4, <1>5, <1>7, ReadingIsWell DEF LastStands

(***************************************************************************)
(* An intake that was accepted for a conversation.                         *)
(***************************************************************************)
Faithful(c, d) ==
    /\ \A k \in Keys :
         /\ LastWord(c, k) # None => d.fact[k] = LastWord(c, k)
         /\ LastWord(c, k) = None /\ k \in Reading(c).cancelled => d.fact[k] = None
    /\ \A i \in DOMAIN c : c[i].loose \subseteq Represented(d)
    /\ \A i \in DOMAIN c : \A n \in DOMAIN c[i].assigns :
         LET a == c[i].assigns[n]
             replaced == \E j \in DOMAIN c :
                 /\ ~c[j].asks
                 /\ \/ j >= i /\ a.key \in ToSet(c[j].cancels)
                    \/ j > i /\ \E m \in DOMAIN c[j].assigns : c[j].assigns[m].key = a.key
         IN c[i].asks \/ ~replaced => a.value \in Represented(d)

LEMMA AcceptedIsFaithful ==
    ASSUME NEW c \in Seq(Said), NEW d, Accepts(c, d)
    PROVE  Faithful(c, d)
<1> DEFINE R == Reading(c)
<1>1. /\ \A k \in R.cancelled : d.fact[k] = None
      /\ \A k \in Keys : R.current[k] # None => d.fact[k] = R.current[k].value
      /\ ActiveNumbers(c) \subseteq Represented(d)
  BY DEF Accepts
<1>2. DOMAIN c = 1 .. Len(c) /\ Len(c) \in Nat
  BY LenProperties
<1>3. ASSUME NEW k \in Keys
      PROVE  /\ LastWord(c, k) # None => d.fact[k] = LastWord(c, k)
             /\ LastWord(c, k) = None /\ k \in Reading(c).cancelled => d.fact[k] = None
  <2>1. LastWord(c, k) # None => d.fact[k] = LastWord(c, k)
    BY <1>1, LastWordRead
  <2> QED
    BY <1>1, <2>1
<1>4. \A i \in DOMAIN c : c[i].loose \subseteq ActiveNumbers(c)
  BY DEF ActiveNumbers
<1>5. ASSUME NEW i \in DOMAIN c, NEW n \in DOMAIN c[i].assigns, <<i, n>> \notin R.masked
      PROVE  c[i].assigns[n].value \in ActiveNumbers(c)
  <2> DEFINE Stated(j) == {c[j].assigns[m].value :
                             m \in {l \in DOMAIN c[j].assigns : <<j, l>> \notin R.masked}}
  <2>1. ActiveNumbers(c) = UNION {c[j].loose \cup Stated(j) : j \in DOMAIN c}
    BY DEF ActiveNumbers
  <2>2. c[i].assigns[n].value \in Stated(i)
    BY <1>5
  <2> HIDE DEF Stated
  <2> QED
    BY <2>1, <2>2
<1> HIDE DEF R
<1>6. MaskedWell(c, Len(c), R)
  BY ReadingIsWell DEF ReadWell, R
<1>7. ASSUME NEW i \in DOMAIN c, NEW n \in DOMAIN c[i].assigns,
             c[i].asks \/ ~Replaced(c, i, c[i].assigns[n].key, Len(c))
      PROVE  c[i].assigns[n].value \in Represented(d)
  <2>1. i \in Nat /\ n \in Nat
    BY <1>2, Legible, LenProperties
  <2>2. <<i, n>> \notin R.masked
    BY <1>6, <1>7, <2>1 DEF MaskedWell
  <2> QED
    BY <1>1, <1>5, <2>2
<1> QED
  BY <1>1, <1>2, <1>3, <1>4, <1>7 DEF Faithful, Replaced, Cancels

(***************************************************************************)
(* The intake of a session is one that was accepted for its conversation.  *)
(***************************************************************************)
IntakeInv ==
    /\ turns \in Seq(Said)
    /\ Len(turns) <= MaxTurns
    /\ intake # None => Accepts(turns, intake.draft)

LEMMA AnalysisAccepted ==
    ASSUME NEW c \in Seq(Said), c # <<>>, Len(c) <= MaxTurns, NEW i \in Analyses(c), i # None
    PROVE  Accepts(c, i.draft)
<1>1. Len(c) \in 1 .. MaxTurns
  BY SessionAssumption, LenProperties, EmptySeq
<1>2. c \in [1 .. Len(c) -> Said]
  BY LenProperties
<1>3. c \in Conversations
  BY <1>1, <1>2 DEF Conversations, Said
<1>4. PICK d \in Accepted[c] : i = [for |-> c, draft |-> d]
  BY DEF Analyses
<1>5. Accepts(c, d)
  BY <1>3, <1>4 DEF Accepted
<1> QED
  BY <1>4, <1>5

LEMMA IntakeStep ==
    ASSUME IntakeInv, [Next]_vars
    PROVE  IntakeInv'
<1>1. turns \in Seq(Said) /\ Len(turns) \in Nat /\ Len(turns) <= MaxTurns /\ MaxTurns \in Nat \ {0}
  BY SessionAssumption, LenProperties DEF IntakeInv
<1>2. ASSUME NEW t \in Said, AddTurn(t)
      PROVE  IntakeInv'
  <2>1. turns' = Append(turns, t) /\ intake' \in Analyses(turns') /\ Len(turns) < MaxTurns
    BY <1>2 DEF AddTurn, Analyse
  <2>2. turns' \in Seq(Said) /\ Len(turns') = Len(turns) + 1
    BY <1>1, <2>1, AppendProperties
  <2>3. turns' # <<>> /\ Len(turns') <= MaxTurns
    BY <1>1, <2>1, <2>2
  <2> QED
    BY <2>1, <2>2, <2>3, AnalysisAccepted DEF IntakeInv
<1>3. ASSUME NEW t \in Turns, Prompt(t)
      PROVE  IntakeInv'
  BY <1>2, <1>3 DEF Prompt, Said
<1>4. ASSUME NEW t \in SetTurns, SetFact(t)
      PROVE  IntakeInv'
  BY <1>2, <1>4 DEF SetFact, Said
<1>5. ASSUME NEW t \in Turns, Edit(t)
      PROVE  IntakeInv'
  <2>1. turns' = [turns EXCEPT ![Len(turns)] = t] /\ turns # <<>> /\ intake' \in Analyses(turns')
    BY <1>5 DEF Edit, Analyse
  <2>2. t \in Said
    BY DEF Said
  <2>3. turns' \in Seq(Said) /\ Len(turns') = Len(turns)
    BY <1>1, <2>1, <2>2, ExceptSeq
  <2>4. turns' # <<>> /\ Len(turns') <= MaxTurns
    BY <1>1, <2>1, <2>3, EmptySeq
  <2> QED
    BY <2>1, <2>3, <2>4, AnalysisAccepted DEF IntakeInv
<1>6. CASE Undo
  <2>1. turns # <<>> /\ turns' = Front(turns) /\ intake' = None
    BY <1>6 DEF Undo, Invalidate
  <2>2. Len(turns) > 0
    BY <1>1, <2>1, EmptySeq
  <2>3. turns' \in Seq(Said) /\ Len(turns') = Len(turns) - 1
    <3>1. turns' = SubSeq(turns, 1, Len(turns) - 1)
      BY <2>1 DEF Front
    <3>2. Len(turns) - 1 \in 0 .. Len(turns)
      BY <1>1, <2>2
    <3>3. \A i \in 1 .. Len(turns) - 1 : turns[i] \in Said
      BY <1>1, LenProperties
    <3>4. SubSeq(turns, 1, Len(turns) - 1) \in Seq(Said)
      BY <1>1, <3>2, <3>3, SubSeqProperties
    <3>5. Len(SubSeq(turns, 1, Len(turns) - 1)) = Len(turns) - 1
      <4> DEFINE m == Len(turns) - 1
      <4>1. m \in Nat /\ \A i \in 1 .. m : turns[i] \in Said
        BY <3>2, <3>3
      <4> HIDE DEF m
      <4>2. Len(SubSeq(turns, 1, m)) = IF 1 <= m THEN m - 1 + 1 ELSE 0
        BY <4>1, SubSeqProperties
      <4>3. Len(SubSeq(turns, 1, m)) = m
        BY <4>1, <4>2
      <4> QED
        BY <4>3 DEF m
    <3> QED
      BY <3>1, <3>4, <3>5
  <2> QED
    BY <1>1, <2>1, <2>3 DEF IntakeInv
<1>7. CASE New
  <2>1. turns' = <<>> /\ intake' = None
    BY <1>7 DEF New, Invalidate
  <2> QED
    BY <1>1, <2>1 DEF IntakeInv
<1>8. CASE Run
  <2>1. turns # <<>> /\ turns' = turns /\ intake' \in Analyses(turns)
    BY <1>8 DEF Run, Analyse
  <2> QED
    BY <1>1, <2>1, AnalysisAccepted DEF IntakeInv
<1>9. ASSUME NEW t \in Turns, NEW confirm \in BOOLEAN, NEW solve \in BOOLEAN,
             OneShot(t, confirm, solve)
      PROVE  IntakeInv'
  <2>1. turns' = <<t>> /\ intake' \in Analyses(<<t>>)
    BY <1>9 DEF OneShot
  <2>2. t \in Said
    BY DEF Said
  <2>3. <<t>> \in Seq(Said) /\ Len(<<t>>) = 1 /\ <<t>> # <<>>
    BY <2>2
  <2>4. turns' \in Seq(Said) /\ Len(turns') <= MaxTurns
    BY <1>1, <2>1, <2>3
  <2> QED
    BY <1>1, <2>3, <2>4, <2>1, <2>2, AnalysisAccepted DEF IntakeInv
<1>10. CASE UNCHANGED <<turns, intake>>
  BY <1>10 DEF IntakeInv
<1>11. ConfirmRevision \/ Feedback \/ Reject \/ Accept \/ Solve \/ Confirm
       \/ (\E m \in Modes : SetMode(m)) \/ UNCHANGED vars => UNCHANGED <<turns, intake>>
  BY DEF ConfirmRevision, Feedback, Reject, Accept, Solve, Confirm, SetMode, MoveCase, vars
<1> QED
  BY <1>3, <1>4, <1>5, <1>6, <1>7, <1>8, <1>9, <1>10, <1>11 DEF Next

\* An intake the controller accepts says what the user said, as it stands after
\* all turns: the last word on every target, nothing on a cancelled one, and no
\* number the user stands by is missing, whatever is written in how many turns
\* and whatever the model drafts.
THEOREM IntakeIsFaithfulCorrect == Spec => []IntakeIsFaithful
<1>1. Init => IntakeInv
  BY SessionAssumption DEF Init, IntakeInv
<1>2. IntakeInv /\ [Next]_vars => IntakeInv'
  BY IntakeStep
<1>3. IntakeInv => IntakeIsFaithful
  <2>1. IntakeInv /\ intake # None => Faithful(turns, intake.draft)
    BY AcceptedIsFaithful DEF IntakeInv
  <2> QED
    BY <2>1, Zenon DEF IntakeIsFaithful, LastWordStands, NothingLost, Faithful
<1> QED
  BY <1>1, <1>2, <1>3, PTL DEF Spec

-----------------------------------------------------------------------------
(***************************************************************************)
(* The evidence gaps.  Requests are normalised one by one, and what a step *)
(* of that fold keeps is kept to its end.                                  *)
(***************************************************************************)

Statuses == {"unused", "evidence_available", "stagnant", "superseded", "satisfied",
             "retrieval_unavailable"}
Ledgers  == [GapIds -> [status : Statuses, parent : {NoParent} \cup GapIds]]
Wanted   == [id : Nat, parent : {NoParent} \cup GapIds]

\* The identifiers issued to a batch so far.
Issued == {s \in Seq(Wanted) : \A j \in 1 .. Len(s) : s[j].id \in 1 .. MaxGaps + Len(s)}

TakenBy(s) == {s[j].id : j \in DOMAIN s}

\* A step of the fold, and the function the fold is computed with.
Settled(l, batch, settled, i) ==
    IF Repeats(batch, i) THEN settled
    ELSE Append(settled, NormalizedRequest(l, settled, batch[i]))

IsSettling(g, l, batch, places, D) ==
    g = [s \in SUBSET D |-> IF s = {} THEN <<>>
                            ELSE Settled(l, batch, g[s \ {Max(s)}], places[Max(s)])]

Settling(l, batch, places, D) == CHOOSE g : IsSettling(g, l, batch, places, D)

LEMMA SettledUnfolds ==
    ASSUME NEW l, NEW batch
    PROVE  LET places == [j \in DOMAIN batch |-> j]
           IN  NormalizedBatch(l, batch) = Settling(l, batch, places, DOMAIN places)[DOMAIN places]
BY Zenon DEF NormalizedBatch, FoldLeftDomain, FoldLeft, MapThenFoldSet, Settling, IsSettling, Settled

LEMMA SettlingIs ==
    ASSUME NEW l, NEW batch, NEW places, NEW D, NEW g, IsSettling(g, l, batch, places, D)
    PROVE  IsSettling(Settling(l, batch, places, D), l, batch, places, D)
BY Zenon DEF Settling

LEMMA BatchIs ==
    ASSUME NEW batch \in Batches
    PROVE  \E n \in Nat : batch \in [1 .. n -> Request] /\ DOMAIN batch = 1 .. n
BY GapsAssumption DEF Batches

\* What one request gets: an identifier that no request of the batch has, and
\* that no gap has if it refines a known one, whose parent it keeps.
LEMMA RequestGets ==
    ASSUME NEW l \in Ledgers, NEW s \in Issued, NEW r \in Request
    PROVE  LET w == NormalizedRequest(l, s, r)
           IN  /\ w \in Wanted
               /\ w.id \in 1 .. MaxGaps + Len(s) + 1
               /\ w.id \notin TakenBy(s)
               /\ r.parent \in Occupied(l) =>
                     w.parent = r.parent /\ w.id \notin Occupied(l)
               /\ w.parent \in {NoParent} \cup Occupied(l)
<1> DEFINE w == NormalizedRequest(l, s, r)
           S == Occupied(l) \cup TakenBy(s)
<1>1. MaxGaps \in Nat /\ Len(s) \in Nat /\ DOMAIN s = 1 .. Len(s)
  BY GapsAssumption, LenProperties DEF Issued
<1>2. TakenBy(s) \in SUBSET (1 .. MaxGaps + Len(s))
  BY <1>1 DEF TakenBy, Issued
<1>3. S \in SUBSET (1 .. MaxGaps + Len(s))
  BY <1>1, <1>2 DEF Occupied, GapIds
<1>4. NextGapId(S) \in 1 .. MaxGaps + Len(s) + 1 /\ NextGapId(S) \notin S
  <2>1. CASE S = {}
    BY <1>1, <2>1 DEF NextGapId
  <2>2. CASE S # {}
    <3> HIDE DEF S
    <3> DEFINE m == MaxGaps + Len(s)
    <3>0. m \in Nat /\ S \in SUBSET (1 .. m)
      BY <1>1, <1>3
    <3> HIDE DEF m
    <3>1. Max(S) \in S /\ \A i \in S : i <= Max(S)
      BY <2>2, <3>0, MaxIsMember
    <3>2. Max(S) \in 1 .. MaxGaps + Len(s)
      BY <1>3, <3>1
    <3>3. Max(S) + 1 \notin S
      BY <1>1, <1>3, <3>1, <3>2
    <3>4. NextGapId(S) = Max(S) + 1
      BY <2>2 DEF NextGapId
    <3> QED
      BY <1>1, <3>2, <3>3, <3>4
  <2> QED
    BY <2>1, <2>2
<1>5. /\ w.id = IF Collides(l, TakenBy(s), r) THEN NextGapId(S) ELSE r.id
      /\ w.parent = IF r.parent \in Occupied(l) THEN r.parent ELSE NoParent
      /\ w = [id |-> w.id, parent |-> w.parent]
  BY DEF NormalizedRequest, TakenBy
<1>6. r.id \in 1 .. MaxGaps
  BY GapsAssumption DEF Request
<1>7. NoParent \notin Occupied(l) /\ Occupied(l) \subseteq GapIds
  BY <1>1 DEF Occupied, GapIds, NoParent
<1> HIDE DEF w, S
<1>8. w.id \in 1 .. MaxGaps + Len(s) + 1
  BY <1>1, <1>4, <1>5, <1>6
<1>9. w.id \notin TakenBy(s) /\ (r.parent \in Occupied(l) => w.id \notin Occupied(l))
  <2>1. CASE Collides(l, TakenBy(s), r)
    BY <1>4, <1>5, <2>1 DEF S
  <2>2. CASE ~Collides(l, TakenBy(s), r)
    BY <1>5, <1>7, <2>2 DEF Collides
  <2> QED
    BY <2>1, <2>2
<1>10. w.parent \in {NoParent} \cup Occupied(l) /\ (r.parent \in Occupied(l) => w.parent = r.parent)
  BY <1>5
<1>11. w \in Wanted
  <2>1. w.id \in Nat /\ w.parent \in {NoParent} \cup GapIds
    BY <1>1, <1>7, <1>8, <1>10
  <2> QED
    BY <1>5, <2>1 DEF Wanted
<1> QED
  BY <1>8, <1>9, <1>10, <1>11 DEF w

LEMMA SettledTyped ==
    ASSUME NEW l \in Ledgers, NEW n \in Nat, NEW batch \in [1 .. n -> Request],
           NEW s \in Issued, NEW i \in 1 .. n
    PROVE  Settled(l, batch, s, i) \in Issued
<1> DEFINE w == NormalizedRequest(l, s, batch[i])
<1>1. batch[i] \in Request
  OBVIOUS
<1>2. w \in Wanted /\ w.id \in 1 .. MaxGaps + Len(s) + 1
  BY <1>1, RequestGets
<1>3. s \in Seq(Wanted) /\ Len(s) \in Nat /\ MaxGaps \in Nat
      /\ \A j \in 1 .. Len(s) : s[j].id \in 1 .. MaxGaps + Len(s)
  BY LenProperties, GapsAssumption DEF Issued
<1> HIDE DEF w
<1>4. /\ Append(s, w) \in Seq(Wanted) /\ Len(Append(s, w)) = Len(s) + 1
      /\ Append(s, w)[Len(s) + 1] = w
      /\ \A j \in 1 .. Len(s) : Append(s, w)[j] = s[j]
  BY <1>2, <1>3, AppendProperties
<1>5. Append(s, w) \in Issued
  <2> SUFFICES ASSUME NEW j \in 1 .. Len(s) + 1
               PROVE  Append(s, w)[j].id \in 1 .. MaxGaps + (Len(s) + 1)
    BY <1>4 DEF Issued
  <2>1. CASE j \in 1 .. Len(s)
    BY <1>3, <1>4, <2>1
  <2>2. CASE j = Len(s) + 1
    BY <1>2, <1>3, <1>4, <2>2
  <2> QED
    BY <1>3, <2>1, <2>2
<1> QED
  BY <1>5 DEF Settled, w

\* The batch is settled request by request.
LEMMA SettledSteps ==
    ASSUME NEW l \in Ledgers, NEW n \in Nat, NEW batch \in [1 .. n -> Request]
    PROVE  \E h \in [0 .. n -> Issued] :
              /\ h[0] = <<>>
              /\ \A k \in 1 .. n : h[k] = Settled(l, batch, h[k - 1], k)
              /\ NormalizedBatch(l, batch) = h[n]
<1> DEFINE places == [j \in DOMAIN batch |-> j]
           G == [x \in (1 .. n) \X Issued |-> Settled(l, batch, x[2], x[1])]
           It == Settling(l, batch, places, 1 .. n)
<1>1. DOMAIN places = 1 .. n /\ \A k \in 1 .. n : places[k] = k
  OBVIOUS
<1>2. <<>> \in Issued
  BY EmptySeq DEF Issued
<1>3. G \in Steps(n, Issued)
  BY SettledTyped DEF Steps
<1>4. \A i \in 1 .. n, v \in Issued : G[<<i, v>>] = Settled(l, batch, v, i)
  OBVIOUS
<1> HIDE DEF G, It, places
<1>5. PICK g : Folds(g, n, Issued, <<>>, G)
  BY <1>2, <1>3, FoldFunctionExists
<1>6. IsSettling(g, l, batch, places, 1 .. n)
  <2> SUFFICES ASSUME NEW s \in SUBSET (1 .. n), s # {}
               PROVE  g[s] = Settled(l, batch, g[s \ {Max(s)}], places[Max(s)])
    BY <1>5 DEF Folds, IsSettling
  <2>1. Max(s) \in 1 .. n
    BY MaxIsMember
  <2>2. g[s \ {Max(s)}] \in Issued
    BY <1>5 DEF Folds
  <2> QED
    BY <1>1, <1>4, <1>5, <2>1, <2>2 DEF Folds
<1>7. It = [s \in SUBSET (1 .. n) |-> IF s = {} THEN <<>>
                  ELSE Settled(l, batch, It[s \ {Max(s)}], places[Max(s)])]
  <2>1. IsSettling(It, l, batch, places, 1 .. n)
    BY <1>6, SettlingIs DEF It
  <2> QED
    BY <2>1, Zenon DEF IsSettling
<1>8. FoldsLike(It, n, Issued, <<>>, G)
  <2>1. It[{}] = <<>>
    BY <1>7, Zenon
  <2>2. ASSUME NEW s \in SUBSET (1 .. n), s # {}, It[s \ {Max(s)}] \in Issued
        PROVE  It[s] = G[<<Max(s), It[s \ {Max(s)}]>>]
    <3>1. Max(s) \in 1 .. n
      BY <2>2, MaxIsMember
    <3>2. places[Max(s)] = Max(s)
      BY <1>1, <3>1
    <3>3. It[s] = Settled(l, batch, It[s \ {Max(s)}], places[Max(s)])
      BY <1>7, <2>2, Zenon
    <3>4. G[<<Max(s), It[s \ {Max(s)}]>>] = Settled(l, batch, It[s \ {Max(s)}], Max(s))
      BY <1>4, <2>2, <3>1
    <3> QED
      BY <3>2, <3>3, <3>4
  <2> QED
    BY <2>1, <2>2 DEF FoldsLike
<1>9. PICK h : PrefixSteps(h, n, Issued, <<>>, G) /\ It[1 .. n] = h[n]
  BY <1>2, <1>3, <1>8, FoldSteps
<1>10. NormalizedBatch(l, batch) = It[1 .. n]
  BY <1>1, SettledUnfolds DEF It, places
<1>11. \A k \in 1 .. n : h[k] = Settled(l, batch, h[k - 1], k)
  <2> TAKE k \in 1 .. n
  <2>1. k - 1 \in 0 .. n
    OBVIOUS
  <2>2. h[k - 1] \in Issued
    BY <1>9, <2>1 DEF PrefixSteps
  <2> QED
    BY <1>4, <1>9, <2>2 DEF PrefixSteps
<1> QED
  BY <1>9, <1>10, <1>11 DEF PrefixSteps

\* The requests that are not repeated.
FreshTo(batch, k) == {i \in 1 .. k : ~Repeats(batch, i)}

\* What is settled of a batch after k of its requests: no identifier twice, none
\* of a known gap for a refinement, and q tells where each request went.
SettledWell(l, batch, s, k, q) ==
    /\ \A a, b \in 1 .. Len(s) : s[a].id = s[b].id => a = b
    /\ \A a \in 1 .. Len(s) :
          /\ s[a].parent \in {NoParent} \cup Occupied(l)
          /\ s[a].parent \in Occupied(l) => s[a].id \notin Occupied(l)
    /\ q \in [FreshTo(batch, k) -> 1 .. Len(s)]
    /\ \A i, j \in FreshTo(batch, k) : q[i] = q[j] => i = j
    /\ \A i \in FreshTo(batch, k) :
          batch[i].parent \in Occupied(l) => s[q[i]].parent = batch[i].parent

LEMMA SettledStaysWell ==
    ASSUME NEW l \in Ledgers, NEW n \in Nat, NEW batch \in [1 .. n -> Request],
           NEW k \in 0 .. n - 1, NEW s \in Issued, NEW q, SettledWell(l, batch, s, k, q)
    PROVE  \E r : SettledWell(l, batch, Settled(l, batch, s, k + 1), k + 1, r)
<1>1. k + 1 \in 1 .. n /\ FreshTo(batch, k + 1) = IF Repeats(batch, k + 1) THEN FreshTo(batch, k)
                                                  ELSE FreshTo(batch, k) \cup {k + 1}
  BY DEF FreshTo
<1>2. CASE Repeats(batch, k + 1)
  <2>1. SettledWell(l, batch, s, k + 1, q)
    BY <1>1, <1>2 DEF SettledWell
  <2> QED
    BY <1>2, <2>1 DEF Settled
<1>3. CASE ~Repeats(batch, k + 1)
  <2> DEFINE w == NormalizedRequest(l, s, batch[k + 1])
             t == Append(s, w)
             F == FreshTo(batch, k)
             r == [i \in F \cup {k + 1} |-> IF i = k + 1 THEN Len(s) + 1 ELSE q[i]]
  <2>1. batch[k + 1] \in Request
    BY <1>1
  <2>2. /\ w \in Wanted /\ w.id \notin TakenBy(s)
        /\ batch[k + 1].parent \in Occupied(l) =>
              w.parent = batch[k + 1].parent /\ w.id \notin Occupied(l)
        /\ w.parent \in {NoParent} \cup Occupied(l)
        /\ w.parent \in Occupied(l) => w.id \notin Occupied(l)
    <3>1. w.parent = IF batch[k + 1].parent \in Occupied(l) THEN batch[k + 1].parent ELSE NoParent
      BY DEF NormalizedRequest
    <3>2. NoParent \notin Occupied(l)
      BY GapsAssumption DEF NoParent, Occupied, GapIds
    <3> QED
      BY <2>1, <3>1, <3>2, RequestGets
  <2> HIDE DEF w
  <2>3. s \in Seq(Wanted) /\ Len(s) \in Nat
    BY LenProperties DEF Issued
  <2>4. /\ Len(t) = Len(s) + 1 /\ t[Len(s) + 1] = w
        /\ \A j \in 1 .. Len(s) : t[j] = s[j]
    BY <2>2, <2>3, AppendProperties
  <2>5. \A j \in 1 .. Len(s) : s[j].id # w.id
    <3>1. DOMAIN s = 1 .. Len(s)
      BY <2>3, LenProperties
    <3> QED
      BY <2>2, <3>1 DEF TakenBy
  <2>6. 1 .. Len(t) = 1 .. Len(s) \cup {Len(s) + 1}
    BY <2>3, <2>4
  <2> HIDE DEF t
  <2>7. \A a, b \in 1 .. Len(t) : t[a].id = t[b].id => a = b
    BY <2>4, <2>5, <2>6 DEF SettledWell
  <2>8. \A a \in 1 .. Len(t) :
          /\ t[a].parent \in {NoParent} \cup Occupied(l)
          /\ t[a].parent \in Occupied(l) => t[a].id \notin Occupied(l)
    BY <2>2, <2>4, <2>6 DEF SettledWell
  <2>9. /\ q \in [F -> 1 .. Len(s)] /\ k + 1 \notin F /\ Len(s) + 1 \notin 1 .. Len(s)
        /\ \A i, j \in F : q[i] = q[j] => i = j
        /\ \A i \in F : batch[i].parent \in Occupied(l) => s[q[i]].parent = batch[i].parent
    <3>1. k + 1 \notin F /\ Len(s) + 1 \notin 1 .. Len(s)
      BY <2>3 DEF FreshTo
    <3> QED
      BY <3>1 DEF SettledWell
  <2> HIDE DEF F
  <2>10. r \in [F \cup {k + 1} -> 1 .. Len(t)]
    BY <2>6, <2>9
  <2>11. \A i, j \in F \cup {k + 1} : r[i] = r[j] => i = j
    <3> TAKE i, j \in F \cup {k + 1}
    <3>1. r[k + 1] = Len(s) + 1 /\ \A x \in F : r[x] = q[x] /\ r[x] # Len(s) + 1
      BY <2>9
    <3> HIDE DEF r
    <3> QED
      BY <2>9, <3>1
  <2>12. ASSUME NEW i \in F \cup {k + 1}, batch[i].parent \in Occupied(l)
         PROVE  t[r[i]].parent = batch[i].parent
    <3>1. CASE i = k + 1
      BY <2>2, <2>4, <2>12, <3>1
    <3>2. CASE i \in F
      <4>1. r[i] = q[i] /\ q[i] \in 1 .. Len(s)
        BY <2>9, <3>2
      <4> QED
        BY <2>4, <2>9, <2>12, <3>2, <4>1
    <3> QED
      BY <3>1, <3>2
  <2>13. Settled(l, batch, s, k + 1) = t /\ FreshTo(batch, k + 1) = F \cup {k + 1}
    BY <1>1, <1>3 DEF Settled, t, w, F
  <2> HIDE DEF r
  <2>14. SettledWell(l, batch, t, k + 1, r)
    BY <2>7, <2>8, <2>10, <2>11, <2>12, <2>13 DEF SettledWell
  <2> QED
    BY <2>13, <2>14
<1> QED
  BY <1>2, <1>3

LEMMA BatchIsSettledWell ==
    ASSUME NEW l \in Ledgers, NEW n \in Nat, NEW batch \in [1 .. n -> Request]
    PROVE  /\ NormalizedBatch(l, batch) \in Seq(Wanted)
           /\ \E q : SettledWell(l, batch, NormalizedBatch(l, batch), n, q)
<1>1. PICK h \in [0 .. n -> Issued] :
              /\ h[0] = <<>>
              /\ \A k \in 1 .. n : h[k] = Settled(l, batch, h[k - 1], k)
              /\ NormalizedBatch(l, batch) = h[n]
  BY SettledSteps
<1> DEFINE T == {k \in 0 .. n : \E q : SettledWell(l, batch, h[k], k, q)}
<1>2. 0 \in T
  <2> DEFINE none == [i \in {} |-> 1]
  <2>1. FreshTo(batch, 0) = {} /\ Len(h[0]) = 0 /\ 1 .. Len(h[0]) = {}
    BY <1>1 DEF FreshTo
  <2>2. none \in [{} -> 1 .. Len(h[0])]
    OBVIOUS
  <2> HIDE DEF none
  <2>3. SettledWell(l, batch, h[0], 0, none)
    BY <2>1, <2>2 DEF SettledWell
  <2> QED
    BY <2>3
<1>3. ASSUME NEW k \in 0 .. n - 1, k \in T
      PROVE  k + 1 \in T
  <2>1. k \in 0 .. n /\ k + 1 \in 1 .. n /\ k + 1 \in 0 .. n /\ (k + 1) - 1 = k
    OBVIOUS
  <2>2. PICK q : SettledWell(l, batch, h[k], k, q)
    BY <1>3
  <2>3. h[k] \in Issued /\ h[k + 1] = Settled(l, batch, h[k], k + 1)
    BY <1>1, <2>1
  <2>4. \E r : SettledWell(l, batch, Settled(l, batch, h[k], k + 1), k + 1, r)
    BY <2>2, <2>3, SettledStaysWell
  <2> QED
    BY <2>1, <2>3, <2>4
<1>4. n \in T
  <2>1. n \in 0 .. n
    OBVIOUS
  <2> HIDE DEF T
  <2> QED
    BY <1>2, <1>3, <2>1, NumberInduction
<1> QED
  BY <1>1, <1>4 DEF Issued

(***************************************************************************)
(* A batch is retrieved.                                                   *)
(***************************************************************************)
Served(N, found, m, i) == Retrieved(m, N[i], i \in found)

IsServing(g, N, l, found, places, D) ==
    g = [s \in SUBSET D |-> IF s = {} THEN l
                            ELSE Served(N, found, g[s \ {Max(s)}], places[Max(s)])]

Serving(N, l, found, places, D) == CHOOSE g : IsServing(g, N, l, found, places, D)

LEMMA ServedUnfolds ==
    ASSUME NEW l, NEW N, NEW found
    PROVE  LET places == [j \in DOMAIN N |-> j]
           IN  RetrievedBatch(l, N, found) = Serving(N, l, found, places, DOMAIN places)[DOMAIN places]
BY Zenon DEF RetrievedBatch, FoldLeftDomain, FoldLeft, MapThenFoldSet, Serving, IsServing, Served

LEMMA ServingIs ==
    ASSUME NEW l, NEW N, NEW found, NEW places, NEW D, NEW g, IsServing(g, N, l, found, places, D)
    PROVE  IsServing(Serving(N, l, found, places, D), N, l, found, places, D)
BY Zenon DEF Serving

LEMMA RetrievedTyped ==
    ASSUME NEW m \in Ledgers, NEW r \in Wanted, NEW found \in BOOLEAN
    PROVE  Retrieved(m, r, found) \in Ledgers
<1>1. CASE ~Retrievable(m, r)
  BY <1>1 DEF Retrieved
<1>2. CASE Retrievable(m, r)
  <2> SUFFICES ASSUME NEW g \in GapIds
               PROVE  Retrieved(m, r, found)[g] \in [status : Statuses, parent : {NoParent} \cup GapIds]
    BY <1>2 DEF Retrieved, Ledgers
  <2>1. m[g] \in [status : Statuses, parent : {NoParent} \cup GapIds] /\ r.parent \in {NoParent} \cup GapIds
    BY DEF Ledgers, Wanted
  <2>2. CASE g = r.id
    BY <1>2, <2>1, <2>2 DEF Retrieved, Statuses
  <2>3. CASE g # r.id
    BY <1>2, <2>1, <2>3 DEF Retrieved, Statuses
  <2> QED
    BY <2>2, <2>3
<1> QED
  BY <1>1, <1>2

\* h goes through the ledgers a batch of n requests leaves one after the other.
ServesTo(h, n, l, N, found) ==
    /\ h \in [0 .. n -> Ledgers]
    /\ h[0] = l
    /\ \A k \in 1 .. n : h[k] = Served(N, found, h[k - 1], k)
    /\ RetrievedBatch(l, N, found) = h[n]

LEMMA ServedSteps ==
    ASSUME NEW l \in Ledgers, NEW n \in Nat, NEW N \in Seq(Wanted), Len(N) = n, NEW found
    PROVE  \E h : ServesTo(h, n, l, N, found)
<1> DEFINE places == [j \in DOMAIN N |-> j]
           G == [x \in (1 .. n) \X Ledgers |-> Served(N, found, x[2], x[1])]
           It == Serving(N, l, found, places, 1 .. n)
<1>1. DOMAIN places = 1 .. n /\ \A k \in 1 .. n : places[k] = k /\ N[k] \in Wanted
  OBVIOUS
<1>2. \A i \in 1 .. n, v \in Ledgers : Served(N, found, v, i) \in Ledgers
  <2> TAKE i \in 1 .. n, v \in Ledgers
  <2> DEFINE b == i \in found
  <2>1. b \in BOOLEAN /\ N[i] \in Wanted
    BY <1>1
  <2> HIDE DEF b
  <2>2. Retrieved(v, N[i], b) \in Ledgers
    BY <2>1, RetrievedTyped
  <2> QED
    BY <2>2 DEF Served, b
<1>3. G \in Steps(n, Ledgers)
  BY <1>2 DEF Steps
<1>4. \A i \in 1 .. n, v \in Ledgers : G[<<i, v>>] = Served(N, found, v, i)
  OBVIOUS
<1> HIDE DEF G, It, places
<1>5. PICK g : Folds(g, n, Ledgers, l, G)
  BY <1>3, FoldFunctionExists
<1>6. IsServing(g, N, l, found, places, 1 .. n)
  <2> SUFFICES ASSUME NEW s \in SUBSET (1 .. n), s # {}
               PROVE  g[s] = Served(N, found, g[s \ {Max(s)}], places[Max(s)])
    BY <1>5 DEF Folds, IsServing
  <2>1. Max(s) \in 1 .. n
    BY MaxIsMember
  <2>2. g[s \ {Max(s)}] \in Ledgers
    BY <1>5 DEF Folds
  <2> QED
    BY <1>1, <1>4, <1>5, <2>1, <2>2 DEF Folds
<1>7. It = [s \in SUBSET (1 .. n) |-> IF s = {} THEN l
                  ELSE Served(N, found, It[s \ {Max(s)}], places[Max(s)])]
  <2>1. IsServing(It, N, l, found, places, 1 .. n)
    BY <1>6, ServingIs DEF It
  <2> QED
    BY <2>1, Zenon DEF IsServing
<1>8. FoldsLike(It, n, Ledgers, l, G)
  <2>1. It[{}] = l
    BY <1>7, Zenon
  <2>2. ASSUME NEW s \in SUBSET (1 .. n), s # {}, It[s \ {Max(s)}] \in Ledgers
        PROVE  It[s] = G[<<Max(s), It[s \ {Max(s)}]>>]
    <3>1. Max(s) \in 1 .. n
      BY <2>2, MaxIsMember
    <3>2. places[Max(s)] = Max(s)
      BY <1>1, <3>1
    <3>3. It[s] = Served(N, found, It[s \ {Max(s)}], places[Max(s)])
      BY <1>7, <2>2, Zenon
    <3>4. G[<<Max(s), It[s \ {Max(s)}]>>] = Served(N, found, It[s \ {Max(s)}], Max(s))
      BY <1>4, <2>2, <3>1
    <3> QED
      BY <3>2, <3>3, <3>4
  <2> QED
    BY <2>1, <2>2 DEF FoldsLike
<1>9. PICK h : PrefixSteps(h, n, Ledgers, l, G) /\ It[1 .. n] = h[n]
  BY <1>3, <1>8, FoldSteps
<1>10. RetrievedBatch(l, N, found) = It[1 .. n]
  BY <1>1, ServedUnfolds DEF It, places
<1>11. \A k \in 1 .. n : h[k] = Served(N, found, h[k - 1], k)
  <2> TAKE k \in 1 .. n
  <2>1. k - 1 \in 0 .. n
    OBVIOUS
  <2>2. h[k - 1] \in Ledgers
    BY <1>9, <2>1 DEF PrefixSteps
  <2> QED
    BY <1>4, <1>9, <2>2 DEF PrefixSteps
<1> QED
  BY <1>9, <1>10, <1>11 DEF PrefixSteps, ServesTo

Ends == {"satisfied", "superseded"}

\* Whatever is retrieved, what was closed and can be asked for stays closed, and
\* nothing becomes unavailable.
LEMMA RetrievedKeeps ==
    ASSUME NEW l \in Ledgers, NEW m \in Ledgers, NEW r \in Wanted, NEW found \in BOOLEAN,
           \A g \in GapIds : l[g].status \in Ends => m[g] = l[g],
           \A g \in GapIds : m[g].status # "retrieval_unavailable"
    PROVE  /\ \A g \in GapIds : l[g].status \in Ends => Retrieved(m, r, found)[g] = l[g]
           /\ \A g \in GapIds : Retrieved(m, r, found)[g].status # "retrieval_unavailable"
<1>1. CASE ~Retrievable(m, r)
  BY <1>1 DEF Retrieved
<1>2. CASE Retrievable(m, r)
  <2>1. r.parent \in {NoParent} \cup GapIds /\ NoParent \notin GapIds
    BY GapsAssumption DEF Wanted, GapIds, NoParent
  <2> SUFFICES ASSUME NEW g \in GapIds
               PROVE  /\ l[g].status \in Ends => Retrieved(m, r, found)[g] = l[g]
                      /\ Retrieved(m, r, found)[g].status # "retrieval_unavailable"
    OBVIOUS
  <2>2. m[g] \in [status : Statuses, parent : {NoParent} \cup GapIds]
    BY DEF Ledgers
  <2>3. CASE g = r.id
    <3>1. m[g].status = "unused"
      BY <1>2, <2>3 DEF Retrievable, Unused
    <3>2. l[g].status \notin Ends
      BY <3>1 DEF Ends
    <3> QED
      BY <1>2, <2>3, <3>2 DEF Retrieved
  <2>4. CASE g # r.id /\ g = r.parent
    <3>1. m[g].status # "satisfied"
      BY <1>2, <2>1, <2>4 DEF Retrievable
    <3>2. Retrieved(m, r, found)[g] = [m[g] EXCEPT !.status = "superseded"]
      BY <1>2, <2>4 DEF Retrieved
    <3>3. l[g].status \in Ends => m[g].status = "superseded" /\ m[g] = l[g]
      BY <3>1 DEF Ends
    <3> QED
      BY <2>2, <3>2, <3>3
  <2>5. CASE g # r.id /\ g # r.parent
    BY <1>2, <2>5 DEF Retrieved
  <2> QED
    BY <2>3, <2>4, <2>5
<1> QED
  BY <1>1, <1>2

LEMMA BatchKeeps ==
    ASSUME NEW l \in Ledgers, NEW N \in Seq(Wanted), NEW found,
           \A g \in GapIds : l[g].status # "retrieval_unavailable"
    PROVE  /\ RetrievedBatch(l, N, found) \in Ledgers
           /\ \A g \in GapIds : l[g].status \in Ends => RetrievedBatch(l, N, found)[g] = l[g]
           /\ \A g \in GapIds : RetrievedBatch(l, N, found)[g].status # "retrieval_unavailable"
<1> DEFINE n == Len(N)
           Kept(m) == /\ \A g \in GapIds : l[g].status \in Ends => m[g] = l[g]
                      /\ \A g \in GapIds : m[g].status # "retrieval_unavailable"
<1>1. n \in Nat /\ Len(N) = n /\ \A k \in 1 .. n : N[k] \in Wanted
  BY LenProperties
<1> HIDE DEF n
<1>2. PICK h : ServesTo(h, n, l, N, found)
  BY <1>1, ServedSteps
<1> USE DEF ServesTo
<1> DEFINE T == {k \in 0 .. n : Kept(h[k])}
<1>3. 0 \in T
  BY <1>1, <1>2
<1>4. ASSUME NEW k \in 0 .. n - 1, k \in T
      PROVE  k + 1 \in T
  <2> DEFINE b == k + 1 \in found
  <2>1. k \in 0 .. n /\ k + 1 \in 1 .. n /\ k + 1 \in 0 .. n /\ (k + 1) - 1 = k /\ b \in BOOLEAN
    BY <1>1
  <2>2. h[k] \in Ledgers /\ N[k + 1] \in Wanted /\ h[k + 1] = Retrieved(h[k], N[k + 1], b)
    BY <1>1, <1>2, <2>1 DEF Served
  <2>3. Kept(h[k])
    BY <1>4
  <2> HIDE DEF b
  <2>4. Kept(Retrieved(h[k], N[k + 1], b))
    BY <2>1, <2>2, <2>3, RetrievedKeeps
  <2> QED
    BY <2>1, <2>2, <2>4
<1>5. n \in T
  <2>1. n \in 0 .. n
    BY <1>1
  <2> HIDE DEF T
  <2> QED
    BY <1>1, <1>3, <1>4, <2>1, NumberInduction
<1> QED
  BY <1>1, <1>2, <1>5

\* Of a well settled batch every refinement of a gap that is not satisfied is
\* retrieved under its own identifier.
LEMMA RefinementsRetrieved ==
    ASSUME NEW l \in Ledgers, NEW N \in Seq(Wanted), NEW found,
           \A a, b \in 1 .. Len(N) : N[a].id = N[b].id => a = b,
           \A a \in 1 .. Len(N) :
              /\ N[a].parent \in {NoParent} \cup Occupied(l)
              /\ N[a].parent \in Occupied(l) => N[a].id \notin Occupied(l)
              /\ N[a].id \in GapIds,
           NEW x \in 1 .. Len(N), N[x].parent \in Occupied(l),
           l[N[x].parent].status # "satisfied"
    PROVE  /\ RetrievedBatch(l, N, found)[N[x].id] # Unused
           /\ RetrievedBatch(l, N, found)[N[x].id].parent = N[x].parent
<1> DEFINE n == Len(N)
           p == N[x].parent
           c == N[x].id
           Waits(m)  == m[c] = Unused /\ m[p].status # "satisfied"
           Is(m)     == m[c] # Unused /\ m[c].parent = p
<1>1. n \in Nat /\ Len(N) = n /\ \A k \in 1 .. n : N[k] \in Wanted
  BY LenProperties
<1> HIDE DEF n
<1>2. PICK h : ServesTo(h, n, l, N, found)
  BY <1>1, ServedSteps
<1> USE DEF ServesTo
<1>3. /\ x \in 1 .. n /\ c \in GapIds /\ p \in GapIds /\ p # c /\ p # NoParent
      /\ c \notin Occupied(l) /\ l[c] = Unused
  <2>1. p \in Occupied(l) /\ c \notin Occupied(l) /\ c \in GapIds
    OBVIOUS
  <2>2. NoParent \notin GapIds
    BY GapsAssumption DEF GapIds, NoParent
  <2> QED
    BY <2>1, <2>2 DEF n, Occupied
<1>4. \A y \in 1 .. n : y # x => N[y].id # c /\ N[y].parent # c
  <2>1. c # NoParent
    BY <1>3, GapsAssumption DEF GapIds, NoParent
  <2> QED
    BY <1>3, <2>1 DEF n
<1> DEFINE T == {k \in 0 .. n : IF k < x THEN Waits(h[k]) ELSE Is(h[k])}
<1>5. 0 \in T
  BY <1>1, <1>2, <1>3
<1>6. ASSUME NEW k \in 0 .. n - 1, k \in T
      PROVE  k + 1 \in T
  <2> DEFINE b == k + 1 \in found
             y == k + 1
             m == h[k]
  <2>1. k \in 0 .. n /\ y \in 1 .. n /\ y \in 0 .. n /\ y - 1 = k /\ b \in BOOLEAN
    BY <1>1
  <2>2. m \in Ledgers /\ N[y] \in Wanted /\ h[y] = Retrieved(m, N[y], b)
    BY <1>1, <1>2, <2>1 DEF Served
  <2>3. k < x => Waits(m)
    BY <1>6
  <2>4. ~(k < x) => Is(m)
    BY <1>6
  <2>5. k < x <=> (y = x \/ y < x)
    BY <1>1, <1>3
  <2> HIDE DEF b, m, y
  <2>6. CASE y = x
    <3>1. Waits(m)
      BY <2>3, <2>5, <2>6
    <3>2. Retrievable(m, N[y])
      BY <2>6, <3>1 DEF Retrievable
    <3>3. h[y][c] = [status |-> IF b THEN "evidence_available" ELSE "stagnant", parent |-> p]
      BY <1>3, <2>2, <2>6, <3>2 DEF Retrieved
    <3>4. h[y][c].status # "unused" /\ h[y][c].parent = p
      BY <3>3
    <3>5. Is(h[y])
      BY <3>4 DEF Unused
    <3>6. ~(y < x)
      BY <1>3, <2>6
    <3> QED
      BY <2>1, <3>5, <3>6 DEF y
  <2>7. CASE y # x
    <3>1. N[y].id # c /\ N[y].parent # c
      BY <1>4, <2>1, <2>7
    <3>2. h[y][c] = m[c]
      BY <1>3, <2>2, <3>1 DEF Retrieved
    <3>3. m[p].status # "satisfied" => h[y][p].status # "satisfied"
      BY <1>3, <2>2 DEF Retrieved
    <3>4. k < x <=> y < x
      BY <2>5, <2>7
    <3>5. IF y < x THEN Waits(h[y]) ELSE Is(h[y])
      BY <2>3, <2>4, <3>2, <3>3, <3>4
    <3> QED
      BY <2>1, <3>5 DEF y
  <2> QED
    BY <2>6, <2>7
<1>7. n \in T
  <2>1. n \in 0 .. n
    BY <1>1
  <2> HIDE DEF T
  <2> QED
    BY <1>1, <1>5, <1>6, <2>1, NumberInduction
<1>8. ~(n < x)
  BY <1>1, <1>3
<1> QED
  BY <1>2, <1>7, <1>8

(***************************************************************************)
(* Every gap is served once.                                               *)
(***************************************************************************)
\* Retrieval goes on only while nothing was found unavailable.
GapsInv ==
    /\ ledger \in Ledgers
    /\ disabled \in BOOLEAN
    /\ ~disabled => \A g \in GapIds : ledger[g].status # "retrieval_unavailable"

LEMMA NoGapsTyped == NoGaps \in Ledgers /\ \A g \in GapIds : NoGaps[g] = Unused
  BY DEF NoGaps, Ledgers, Unused, Statuses

LEMMA SatisfiedKeeps ==
    ASSUME NEW l \in Ledgers
    PROVE  /\ Satisfied(l) \in Ledgers
           /\ \A g \in GapIds : l[g].status \in Closed => Satisfied(l)[g] = l[g]
           /\ \A g \in GapIds : l[g].status # "retrieval_unavailable" =>
                 Satisfied(l)[g].status # "retrieval_unavailable"
<1> SUFFICES ASSUME NEW g \in GapIds
             PROVE  /\ Satisfied(l)[g] \in [status : Statuses, parent : {NoParent} \cup GapIds]
                    /\ l[g].status \in Closed => Satisfied(l)[g] = l[g]
                    /\ l[g].status # "retrieval_unavailable" =>
                          Satisfied(l)[g].status # "retrieval_unavailable"
  BY DEF Satisfied, Ledgers
<1>1. l[g] \in [status : Statuses, parent : {NoParent} \cup GapIds]
  BY DEF Ledgers
<1> QED
  BY <1>1 DEF Satisfied, Closed, Statuses

LEMMA UnavailableKeeps ==
    ASSUME NEW l \in Ledgers
    PROVE  /\ Unavailable(l) \in Ledgers
           /\ \A g \in GapIds : l[g].status \in Ends => Unavailable(l)[g] = l[g]
<1> SUFFICES ASSUME NEW g \in GapIds
             PROVE  /\ Unavailable(l)[g] \in [status : Statuses, parent : {NoParent} \cup GapIds]
                    /\ l[g].status \in Ends => Unavailable(l)[g] = l[g]
  BY DEF Unavailable, Ledgers
<1>1. l[g] \in [status : Statuses, parent : {NoParent} \cup GapIds]
  BY DEF Ledgers
<1> QED
  BY <1>1 DEF Unavailable, Ends, Statuses

\* What the steps of an agent leave of the ledger.
LEMMA GatherKeeps ==
    ASSUME GapsInv, Gather
    PROVE  /\ ledger' \in Ledgers
           /\ \A g \in GapIds : ledger[g].status \in Closed => ledger'[g] = ledger[g]
           /\ \A g \in GapIds : ledger'[g].status # "retrieval_unavailable"
<1>1. ~disabled /\ \A g \in GapIds : ledger[g].status # "retrieval_unavailable"
  BY DEF Gather, CanGather, GapsInv
<1>2. PICK batch \in Batches :
         \E found : ledger' = RetrievedBatch(ledger, NormalizedBatch(ledger, batch), found)
  BY DEF Gather
<1>3. PICK n \in Nat : batch \in [1 .. n -> Request]
  BY BatchIs
<1>4. NormalizedBatch(ledger, batch) \in Seq(Wanted)
  BY <1>3, BatchIsSettledWell DEF GapsInv
<1>5. PICK found : ledger' = RetrievedBatch(ledger, NormalizedBatch(ledger, batch), found)
  BY <1>2
<1> DEFINE N == NormalizedBatch(ledger, batch)
<1> HIDE DEF N
<1>6. ledger \in Ledgers /\ N \in Seq(Wanted)
  BY <1>4 DEF N, GapsInv
<1>7. /\ RetrievedBatch(ledger, N, found) \in Ledgers
      /\ \A g \in GapIds : ledger[g].status \in Ends => RetrievedBatch(ledger, N, found)[g] = ledger[g]
      /\ \A g \in GapIds : RetrievedBatch(ledger, N, found)[g].status # "retrieval_unavailable"
  BY <1>1, <1>6, BatchKeeps
<1>8. \A g \in GapIds : ledger[g].status \in Closed => ledger[g].status \in Ends
  BY <1>1 DEF Closed, Ends
<1> QED
  BY <1>5, <1>7, <1>8 DEF N

LEMMA FailureKeeps ==
    ASSUME GapsInv, RetrievalFails
    PROVE  /\ ledger' \in Ledgers
           /\ \A g \in GapIds : ledger[g].status \in Closed => ledger'[g] = ledger[g]
<1>1. ~disabled /\ \A g \in GapIds : ledger[g].status # "retrieval_unavailable"
  BY DEF RetrievalFails, CanGather, GapsInv
<1>2. PICK batch \in Batches :
         \E k \in DOMAIN NormalizedBatch(ledger, batch) :
            ledger' = Unavailable(Retrieved(
                         RetrievedBatch(ledger, SubSeq(NormalizedBatch(ledger, batch), 1, k - 1), {}),
                         NormalizedBatch(ledger, batch)[k], FALSE))
  BY DEF RetrievalFails
<1>3. PICK n \in Nat : batch \in [1 .. n -> Request]
  BY BatchIs
<1>4. NormalizedBatch(ledger, batch) \in Seq(Wanted)
  BY <1>3, BatchIsSettledWell DEF GapsInv
<1> DEFINE N == NormalizedBatch(ledger, batch)
<1>5. PICK k \in DOMAIN N :
            ledger' = Unavailable(Retrieved(RetrievedBatch(ledger, SubSeq(N, 1, k - 1), {}), N[k], FALSE))
  BY <1>2
<1>6. ledger \in Ledgers /\ N \in Seq(Wanted)
  BY <1>4 DEF GapsInv
<1> HIDE DEF N
<1> DEFINE M == SubSeq(N, 1, k - 1)
           served == RetrievedBatch(ledger, M, {})
           last == Retrieved(served, N[k], FALSE)
<1>7. N[k] \in Wanted /\ k \in 1 .. Len(N)
  BY <1>6, LenProperties
<1>8. M \in Seq(Wanted)
  <2>1. k - 1 \in 0 .. Len(N)
    BY <1>6, <1>7, LenProperties
  <2>2. \A i \in 1 .. k - 1 : N[i] \in Wanted
    BY <1>6, <1>7, <2>1
  <2> QED
    BY <1>6, <2>1, <2>2, SubSeqProperties
<1> HIDE DEF M
<1>9. /\ served \in Ledgers
      /\ \A g \in GapIds : ledger[g].status \in Ends => served[g] = ledger[g]
      /\ \A g \in GapIds : served[g].status # "retrieval_unavailable"
  BY <1>1, <1>6, <1>8, BatchKeeps
<1> HIDE DEF served
<1>10. last \in Ledgers /\ \A g \in GapIds : ledger[g].status \in Ends => last[g] = ledger[g]
  BY <1>6, <1>7, <1>9, RetrievedTyped, RetrievedKeeps
<1> HIDE DEF last
<1>11. Unavailable(last) \in Ledgers
       /\ \A g \in GapIds : last[g].status \in Ends => Unavailable(last)[g] = last[g]
  BY <1>10, UnavailableKeeps
<1>12. ledger' = Unavailable(last)
  BY <1>5 DEF last, served, M
<1>13. \A g \in GapIds : ledger[g].status \in Closed => ledger[g].status \in Ends
  BY <1>1 DEF Closed, Ends
<1> QED
  BY <1>10, <1>11, <1>12, <1>13

LEMMA GapsStep ==
    ASSUME GapsInv, [GapsNext]_gvars
    PROVE  /\ GapsInv'
           /\ \A g \in GapIds : ledger[g].status \in Closed => ledger'[g] \in {ledger[g], Unused}
<1>1. CASE Gather
  BY <1>1, GatherKeeps DEF Gather, GapsInv
<1>2. CASE RetrievalFails
  BY <1>2, FailureKeeps DEF RetrievalFails, GapsInv
<1>3. CASE Proceed
  <2>1. ledger \in Ledgers /\ ledger' = Satisfied(ledger) /\ disabled' = disabled
    BY <1>3 DEF Proceed, GapsInv
  <2> QED
    BY <2>1, SatisfiedKeeps DEF GapsInv
<1>4. CASE NewRound
  <2>1. ledger' = NoGaps /\ disabled' = FALSE
    BY <1>4 DEF NewRound
  <2>2. Unused.status # "retrieval_unavailable"
    BY DEF Unused
  <2> QED
    BY <2>1, <2>2, NoGapsTyped DEF GapsInv
<1>5. CASE UNCHANGED gvars
  BY <1>5 DEF gvars, GapsInv
<1> QED
  BY <1>1, <1>2, <1>3, <1>4, <1>5 DEF GapsNext

LEMMA NothingAsked ==
    ASSUME NEW p, asked' = <<>>
    PROVE  Cardinality(Refining(asked', p)) = 0
<1>1. Refining(asked', p) = {}
  BY DEF Refining
<1> QED
  BY <1>1, FS_EmptySet

LEMMA ChildrenFinite ==
    ASSUME NEW p
    PROVE  IsFiniteSet(Children(p)) /\ Cardinality(Children(p)) \in Nat
<1>1. GapIds = 1 .. MaxGaps /\ MaxGaps \in Nat
  BY GapsAssumption DEF GapIds
<1>2. IsFiniteSet(GapIds)
  BY <1>1, FS_Interval
<1>3. Children(p) \subseteq GapIds
  BY DEF Children
<1> HIDE DEF Children
<1> QED
  BY <1>2, <1>3, FS_Subset, FS_CardinalityType

LEMMA RefinementsAreServed ==
    ASSUME GapsInv, Gather, NEW p \in Occupied(ledger), ledger[p].status # "satisfied"
    PROVE  Cardinality(Children(p)) >= Cardinality(Refining(asked', p))
<1>1. PICK batch \in Batches :
         /\ FitsBound(NormalizedBatch(ledger, batch))
         /\ asked' = batch
         /\ \E found : ledger' = RetrievedBatch(ledger, NormalizedBatch(ledger, batch), found)
  BY DEF Gather
<1>1a. PICK found : ledger' = RetrievedBatch(ledger, NormalizedBatch(ledger, batch), found)
  BY <1>1
<1>2. PICK n \in Nat : batch \in [1 .. n -> Request] /\ DOMAIN batch = 1 .. n
  BY BatchIs
<1> DEFINE N == NormalizedBatch(ledger, batch)
           R == Refining(batch, p)
<1>3. N \in Seq(Wanted) /\ ledger \in Ledgers
  BY <1>2, BatchIsSettledWell DEF GapsInv
<1>4. PICK q : SettledWell(ledger, batch, N, n, q)
  BY <1>2, <1>3, BatchIsSettledWell
<1>5. (\A a \in 1 .. Len(N) : N[a].id \in GapIds) /\ ledger' = RetrievedBatch(ledger, N, found)
  BY <1>1, <1>1a, <1>3 DEF FitsBound
<1> HIDE DEF N
<1>6. /\ \A a, b \in 1 .. Len(N) : N[a].id = N[b].id => a = b
      /\ \A a \in 1 .. Len(N) :
            /\ N[a].parent \in {NoParent} \cup Occupied(ledger)
            /\ N[a].parent \in Occupied(ledger) => N[a].id \notin Occupied(ledger)
            /\ N[a].id \in GapIds
  BY <1>4, <1>5 DEF SettledWell
<1>7. R \subseteq FreshTo(batch, n) /\ \A i \in R : batch[i].parent = p
  BY <1>2 DEF Refining, FreshTo
<1>8. \A i \in R : q[i] \in 1 .. Len(N) /\ N[q[i]].parent = p
  BY <1>4, <1>7 DEF SettledWell
<1>9. \A i, j \in R : q[i] = q[j] => i = j
  BY <1>4, <1>7 DEF SettledWell
<1> HIDE DEF R
<1> DEFINE f == [i \in R |-> N[q[i]].id]
<1>10. \A i, j \in R : f[i] = f[j] => i = j
  BY <1>6, <1>8, <1>9
<1>11. \A i \in R : f[i] \in Children(p)
  <2> TAKE i \in R
  <2> DEFINE x == q[i]
  <2>1. x \in 1 .. Len(N) /\ N[x].parent = p
    BY <1>8
  <2> HIDE DEF x
  <2>2. RetrievedBatch(ledger, N, found)[N[x].id] # Unused
        /\ RetrievedBatch(ledger, N, found)[N[x].id].parent = N[x].parent
    BY <1>3, <1>6, <2>1, RefinementsRetrieved
  <2>3. N[x].id \in GapIds /\ ledger[N[x].id] = Unused
    BY <1>6, <2>1 DEF Occupied
  <2>4. f[i] = N[x].id
    BY DEF x
  <2> QED
    BY <1>5, <2>1, <2>2, <2>3, <2>4 DEF Children
<1> HIDE DEF f
<1>12. f \in Injection(R, Children(p))
  BY <1>10, <1>11 DEF Injection, IsInjective, f
<1>13. Cardinality(R) <= Cardinality(Children(p)) /\ IsFiniteSet(R)
  BY <1>12, ChildrenFinite, FS_Injection DEF ExistsInjection
<1>14. Cardinality(R) \in Nat /\ Cardinality(Children(p)) \in Nat
  BY <1>13, ChildrenFinite, FS_CardinalityType
<1> QED
  BY <1>1, <1>13, <1>14 DEF R

\* Every refinement of a gap that is known and not satisfied gets a gap of its
\* own, and a closed gap stays closed until the next round, whatever identifiers
\* the model proposes and whenever retrieval fails.
THEOREM GapsServedOnceCorrect == GapsSpec => GapsServedOnce
<1>1. GapsInit => GapsInv
  <2>1. Unused.status # "retrieval_unavailable"
    BY DEF Unused
  <2> QED
    BY <2>1, NoGapsTyped DEF GapsInit, GapsInv
<1>2. GapsInv /\ [GapsNext]_gvars => GapsInv'
  BY GapsStep
<1>3. GapsInv /\ [GapsNext]_gvars =>
         [\A g \in GapIds : ledger[g].status \in Closed => ledger'[g] \in {ledger[g], Unused}]_gvars
  BY GapsStep
<1>4. GapsInv /\ [GapsNext]_gvars =>
         [\A p \in Occupied(ledger) :
            ledger[p].status # "satisfied" =>
               Cardinality(Children(p)) >= Cardinality(Refining(asked', p))]_gvars
  <2> SUFFICES ASSUME GapsInv, GapsNext, NEW p \in Occupied(ledger), ledger[p].status # "satisfied"
               PROVE  Cardinality(Children(p)) >= Cardinality(Refining(asked', p))
    OBVIOUS
  <2>1. CASE Gather
    BY <2>1, RefinementsAreServed
  <2>2. CASE ~Gather
    <3>1. asked' = <<>>
      BY <2>2 DEF GapsNext, RetrievalFails, Proceed, NewRound
    <3>2. Cardinality(Refining(asked', p)) = 0
      BY <3>1, NothingAsked
    <3> HIDE DEF Children, Refining
    <3> QED
      BY <3>2, ChildrenFinite
  <2> QED
    BY <2>1, <2>2
<1> QED
  BY <1>1, <1>2, <1>3, <1>4, PTL DEF GapsSpec, GapsServedOnce, RefinementsServed, ClosedGapsStay

-----------------------------------------------------------------------------
(***************************************************************************)
(* The mesh.  What the folds of the compilers return: selections, the stable*)
(* order, the closure over generated outputs.                              *)
(***************************************************************************)

Kept(S, out, x) == IF x \in S THEN Append(out, x) ELSE out
Extended(out, s, present) == out \o Inferred(s, present)
Order(calls) == FoldLeft(LAMBDA placed, i : Place(calls, placed), <<>>, calls)
Reached(candidates, dirty) ==
    FoldLeft(LAMBDA state, i : Pass(candidates, state), Untouched(dirty), candidates)

IsSelecting(g, seq, S) ==
    g = [s \in SUBSET DOMAIN seq |->
            IF s = {} THEN <<>> ELSE Kept(S, g[s \ {Max(s)}], seq[Max(s)])]

Selecting(seq, S) == CHOOSE g : IsSelecting(g, seq, S)

LEMMA SelectingUnfolds ==
    ASSUME NEW seq, NEW S
    PROVE  Select(seq, S) = Selecting(seq, S)[DOMAIN seq]
BY Zenon DEF Select, FoldLeft, MapThenFoldSet, Selecting, IsSelecting, Kept

LEMMA SelectingIs ==
    ASSUME NEW seq, NEW S, NEW g, IsSelecting(g, seq, S)
    PROVE  IsSelecting(Selecting(seq, S), seq, S)
BY Zenon DEF Selecting

SelectingTo(h, n, V, seq, S) ==
    /\ h \in [0 .. n -> V]
    /\ h[0] = <<>>
    /\ \A k \in 1 .. n : h[k] = Kept(S, h[k - 1], seq[k])
    /\ Select(seq, S) = h[n]

LEMMA SelectingSteps ==
    ASSUME NEW seq, NEW S, NEW V, NEW n \in Nat, DOMAIN seq = 1 .. n, <<>> \in V,
           \A k \in 1 .. n, v \in V : Kept(S, v, seq[k]) \in V
    PROVE  \E h : SelectingTo(h, n, V, seq, S)
<1> DEFINE G == [x \in (1 .. n) \X V |-> Kept(S, x[2], seq[x[1]])]
           It == Selecting(seq, S)
<1>1. G \in Steps(n, V)
  BY DEF Steps
<1>2. \A k \in 1 .. n, v \in V : G[<<k, v>>] = Kept(S, v, seq[k])
  OBVIOUS
<1> HIDE DEF G, It
<1>3. PICK g : Folds(g, n, V, <<>>, G)
  BY <1>1, FoldFunctionExists
<1>4. IsSelecting(g, seq, S)
  <2> SUFFICES ASSUME NEW u \in SUBSET (1 .. n), u # {}
               PROVE  g[u] = Kept(S, g[u \ {Max(u)}], seq[Max(u)])
    BY <1>3 DEF Folds, IsSelecting
  <2>1. Max(u) \in 1 .. n
    BY MaxIsMember
  <2>2. g[u \ {Max(u)}] \in V
    BY <1>3 DEF Folds
  <2> QED
    BY <1>2, <1>3, <2>1, <2>2 DEF Folds
<1>5. It = [u \in SUBSET DOMAIN seq |->
               IF u = {} THEN <<>> ELSE Kept(S, It[u \ {Max(u)}], seq[Max(u)])]
  <2>1. IsSelecting(It, seq, S)
    BY <1>4, SelectingIs DEF It
  <2> QED
    BY <2>1, Zenon DEF IsSelecting
<1>6. FoldsLike(It, n, V, <<>>, G)
  <2>1. It[{}] = <<>>
    BY <1>5, Zenon
  <2>2. ASSUME NEW u \in SUBSET (1 .. n), u # {}, It[u \ {Max(u)}] \in V
        PROVE  It[u] = G[<<Max(u), It[u \ {Max(u)}]>>]
    <3>1. Max(u) \in 1 .. n
      BY <2>2, MaxIsMember
    <3>2. u \in SUBSET DOMAIN seq
      OBVIOUS
    <3>3. It[u] = Kept(S, It[u \ {Max(u)}], seq[Max(u)])
      BY <1>5, <2>2, <3>2, Zenon
    <3>4. G[<<Max(u), It[u \ {Max(u)}]>>] = Kept(S, It[u \ {Max(u)}], seq[Max(u)])
      BY <1>2, <2>2, <3>1
    <3> QED
      BY <3>3, <3>4
  <2> QED
    BY <2>1, <2>2 DEF FoldsLike
<1>7. PICK h : PrefixSteps(h, n, V, <<>>, G) /\ It[1 .. n] = h[n]
  BY <1>1, <1>6, FoldSteps
<1>8. Select(seq, S) = It[1 .. n]
  BY SelectingUnfolds DEF It
<1>9. \A k \in 1 .. n : h[k] = Kept(S, h[k - 1], seq[k])
  <2> TAKE k \in 1 .. n
  <2>1. k - 1 \in 0 .. n
    OBVIOUS
  <2>2. h[k - 1] \in V
    BY <1>7, <2>1 DEF PrefixSteps
  <2> QED
    BY <1>2, <1>7, <2>2 DEF PrefixSteps
<1> QED
  BY <1>7, <1>8, <1>9 DEF PrefixSteps, SelectingTo

IsInferring(g, present) ==
    g = [s \in SUBSET DOMAIN ScopeOrder |->
            IF s = {} THEN <<>> ELSE Extended(g[s \ {Max(s)}], ScopeOrder[Max(s)], present)]

Inferring(present) == CHOOSE g : IsInferring(g, present)

LEMMA InferringUnfolds ==
    ASSUME NEW present
    PROVE  AutoConsumers(present) = Inferring(present)[DOMAIN ScopeOrder]
BY Zenon DEF AutoConsumers, FoldLeft, MapThenFoldSet, Inferring, IsInferring, Extended

LEMMA InferringIs ==
    ASSUME NEW present, NEW g, IsInferring(g, present)
    PROVE  IsInferring(Inferring(present), present)
BY Zenon DEF Inferring

InferringTo(h, n, V, present) ==
    /\ h \in [0 .. n -> V]
    /\ h[0] = <<>>
    /\ \A k \in 1 .. n : h[k] = Extended(h[k - 1], ScopeOrder[k], present)
    /\ AutoConsumers(present) = h[n]

LEMMA InferringSteps ==
    ASSUME NEW present, NEW V, NEW n \in Nat, DOMAIN ScopeOrder = 1 .. n, <<>> \in V,
           \A k \in 1 .. n, v \in V : Extended(v, ScopeOrder[k], present) \in V
    PROVE  \E h : InferringTo(h, n, V, present)
<1> DEFINE G == [x \in (1 .. n) \X V |-> Extended(x[2], ScopeOrder[x[1]], present)]
           It == Inferring(present)
<1>1. G \in Steps(n, V)
  BY DEF Steps
<1>2. \A k \in 1 .. n, v \in V : G[<<k, v>>] = Extended(v, ScopeOrder[k], present)
  OBVIOUS
<1> HIDE DEF G, It
<1>3. PICK g : Folds(g, n, V, <<>>, G)
  BY <1>1, FoldFunctionExists
<1>4. IsInferring(g, present)
  <2> SUFFICES ASSUME NEW u \in SUBSET (1 .. n), u # {}
               PROVE  g[u] = Extended(g[u \ {Max(u)}], ScopeOrder[Max(u)], present)
    BY <1>3 DEF Folds, IsInferring
  <2>1. Max(u) \in 1 .. n
    BY MaxIsMember
  <2>2. g[u \ {Max(u)}] \in V
    BY <1>3 DEF Folds
  <2> QED
    BY <1>2, <1>3, <2>1, <2>2 DEF Folds
<1>5. It = [u \in SUBSET DOMAIN ScopeOrder |->
               IF u = {} THEN <<>> ELSE Extended(It[u \ {Max(u)}], ScopeOrder[Max(u)], present)]
  <2>1. IsInferring(It, present)
    BY <1>4, InferringIs DEF It
  <2> QED
    BY <2>1, Zenon DEF IsInferring
<1>6. FoldsLike(It, n, V, <<>>, G)
  <2>1. It[{}] = <<>>
    BY <1>5, Zenon
  <2>2. ASSUME NEW u \in SUBSET (1 .. n), u # {}, It[u \ {Max(u)}] \in V
        PROVE  It[u] = G[<<Max(u), It[u \ {Max(u)}]>>]
    <3>1. Max(u) \in 1 .. n
      BY <2>2, MaxIsMember
    <3>2. u \in SUBSET DOMAIN ScopeOrder
      OBVIOUS
    <3>3. It[u] = Extended(It[u \ {Max(u)}], ScopeOrder[Max(u)], present)
      BY <1>5, <2>2, <3>2, Zenon
    <3>4. G[<<Max(u), It[u \ {Max(u)}]>>] = Extended(It[u \ {Max(u)}], ScopeOrder[Max(u)], present)
      BY <1>2, <2>2, <3>1
    <3> QED
      BY <3>3, <3>4
  <2> QED
    BY <2>1, <2>2 DEF FoldsLike
<1>7. PICK h : PrefixSteps(h, n, V, <<>>, G) /\ It[1 .. n] = h[n]
  BY <1>1, <1>6, FoldSteps
<1>8. AutoConsumers(present) = It[1 .. n]
  BY InferringUnfolds DEF It
<1>9. \A k \in 1 .. n : h[k] = Extended(h[k - 1], ScopeOrder[k], present)
  <2> TAKE k \in 1 .. n
  <2>1. k - 1 \in 0 .. n
    OBVIOUS
  <2>2. h[k - 1] \in V
    BY <1>7, <2>1 DEF PrefixSteps
  <2> QED
    BY <1>2, <1>7, <2>2 DEF PrefixSteps
<1> QED
  BY <1>7, <1>8, <1>9 DEF PrefixSteps, InferringTo

IsOrdering(g, calls) ==
    g = [s \in SUBSET DOMAIN calls |->
            IF s = {} THEN <<>> ELSE Place(calls, g[s \ {Max(s)}])]

Ordering(calls) == CHOOSE g : IsOrdering(g, calls)

LEMMA OrderingUnfolds ==
    ASSUME NEW calls
    PROVE  Order(calls) = Ordering(calls)[DOMAIN calls]
BY Zenon DEF Order, FoldLeft, MapThenFoldSet, Ordering, IsOrdering

LEMMA OrderingIs ==
    ASSUME NEW calls, NEW g, IsOrdering(g, calls)
    PROVE  IsOrdering(Ordering(calls), calls)
BY Zenon DEF Ordering

OrderingTo(h, n, V, calls) ==
    /\ h \in [0 .. n -> V]
    /\ h[0] = <<>>
    /\ \A k \in 1 .. n : h[k] = Place(calls, h[k - 1])
    /\ Order(calls) = h[n]

LEMMA OrderingSteps ==
    ASSUME NEW calls, NEW V, NEW n \in Nat, DOMAIN calls = 1 .. n, <<>> \in V,
           \A k \in 1 .. n, v \in V : Place(calls, v) \in V
    PROVE  \E h : OrderingTo(h, n, V, calls)
<1> DEFINE G == [x \in (1 .. n) \X V |-> Place(calls, x[2])]
           It == Ordering(calls)
<1>1. G \in Steps(n, V)
  BY DEF Steps
<1>2. \A k \in 1 .. n, v \in V : G[<<k, v>>] = Place(calls, v)
  OBVIOUS
<1> HIDE DEF G, It
<1>3. PICK g : Folds(g, n, V, <<>>, G)
  BY <1>1, FoldFunctionExists
<1>4. IsOrdering(g, calls)
  <2> SUFFICES ASSUME NEW u \in SUBSET (1 .. n), u # {}
               PROVE  g[u] = Place(calls, g[u \ {Max(u)}])
    BY <1>3 DEF Folds, IsOrdering
  <2>1. Max(u) \in 1 .. n
    BY MaxIsMember
  <2>2. g[u \ {Max(u)}] \in V
    BY <1>3 DEF Folds
  <2> QED
    BY <1>2, <1>3, <2>1, <2>2 DEF Folds
<1>5. It = [u \in SUBSET DOMAIN calls |->
               IF u = {} THEN <<>> ELSE Place(calls, It[u \ {Max(u)}])]
  <2>1. IsOrdering(It, calls)
    BY <1>4, OrderingIs DEF It
  <2> QED
    BY <2>1, Zenon DEF IsOrdering
<1>6. FoldsLike(It, n, V, <<>>, G)
  <2>1. It[{}] = <<>>
    BY <1>5, Zenon
  <2>2. ASSUME NEW u \in SUBSET (1 .. n), u # {}, It[u \ {Max(u)}] \in V
        PROVE  It[u] = G[<<Max(u), It[u \ {Max(u)}]>>]
    <3>1. Max(u) \in 1 .. n
      BY <2>2, MaxIsMember
    <3>2. u \in SUBSET DOMAIN calls
      OBVIOUS
    <3>3. It[u] = Place(calls, It[u \ {Max(u)}])
      BY <1>5, <2>2, <3>2, Zenon
    <3>4. G[<<Max(u), It[u \ {Max(u)}]>>] = Place(calls, It[u \ {Max(u)}])
      BY <1>2, <2>2, <3>1
    <3> QED
      BY <3>3, <3>4
  <2> QED
    BY <2>1, <2>2 DEF FoldsLike
<1>7. PICK h : PrefixSteps(h, n, V, <<>>, G) /\ It[1 .. n] = h[n]
  BY <1>1, <1>6, FoldSteps
<1>8. Order(calls) = It[1 .. n]
  BY OrderingUnfolds DEF It
<1>9. \A k \in 1 .. n : h[k] = Place(calls, h[k - 1])
  <2> TAKE k \in 1 .. n
  <2>1. k - 1 \in 0 .. n
    OBVIOUS
  <2>2. h[k - 1] \in V
    BY <1>7, <2>1 DEF PrefixSteps
  <2> QED
    BY <1>2, <1>7, <2>2 DEF PrefixSteps
<1> QED
  BY <1>7, <1>8, <1>9 DEF PrefixSteps, OrderingTo

IsVisiting(g, candidates, state) ==
    g = [s \in SUBSET DOMAIN candidates |->
            IF s = {} THEN state ELSE Visit(g[s \ {Max(s)}], candidates[Max(s)])]

Visiting(candidates, state) == CHOOSE g : IsVisiting(g, candidates, state)

LEMMA VisitingUnfolds ==
    ASSUME NEW candidates, NEW state
    PROVE  Pass(candidates, state) = Visiting(candidates, state)[DOMAIN candidates]
BY Zenon DEF Pass, FoldLeft, MapThenFoldSet, Visiting, IsVisiting

LEMMA VisitingIs ==
    ASSUME NEW candidates, NEW state, NEW g, IsVisiting(g, candidates, state)
    PROVE  IsVisiting(Visiting(candidates, state), candidates, state)
BY Zenon DEF Visiting

VisitingTo(h, n, V, candidates, state) ==
    /\ h \in [0 .. n -> V]
    /\ h[0] = state
    /\ \A k \in 1 .. n : h[k] = Visit(h[k - 1], candidates[k])
    /\ Pass(candidates, state) = h[n]

LEMMA VisitingSteps ==
    ASSUME NEW candidates, NEW state, NEW V, NEW n \in Nat, DOMAIN candidates = 1 .. n, state \in V,
           \A k \in 1 .. n, v \in V : Visit(v, candidates[k]) \in V
    PROVE  \E h : VisitingTo(h, n, V, candidates, state)
<1> DEFINE G == [x \in (1 .. n) \X V |-> Visit(x[2], candidates[x[1]])]
           It == Visiting(candidates, state)
<1>1. G \in Steps(n, V)
  BY DEF Steps
<1>2. \A k \in 1 .. n, v \in V : G[<<k, v>>] = Visit(v, candidates[k])
  OBVIOUS
<1> HIDE DEF G, It
<1>3. PICK g : Folds(g, n, V, state, G)
  BY <1>1, FoldFunctionExists
<1>4. IsVisiting(g, candidates, state)
  <2> SUFFICES ASSUME NEW u \in SUBSET (1 .. n), u # {}
               PROVE  g[u] = Visit(g[u \ {Max(u)}], candidates[Max(u)])
    BY <1>3 DEF Folds, IsVisiting
  <2>1. Max(u) \in 1 .. n
    BY MaxIsMember
  <2>2. g[u \ {Max(u)}] \in V
    BY <1>3 DEF Folds
  <2> QED
    BY <1>2, <1>3, <2>1, <2>2 DEF Folds
<1>5. It = [u \in SUBSET DOMAIN candidates |->
               IF u = {} THEN state ELSE Visit(It[u \ {Max(u)}], candidates[Max(u)])]
  <2>1. IsVisiting(It, candidates, state)
    BY <1>4, VisitingIs DEF It
  <2> QED
    BY <2>1, Zenon DEF IsVisiting
<1>6. FoldsLike(It, n, V, state, G)
  <2>1. It[{}] = state
    BY <1>5, Zenon
  <2>2. ASSUME NEW u \in SUBSET (1 .. n), u # {}, It[u \ {Max(u)}] \in V
        PROVE  It[u] = G[<<Max(u), It[u \ {Max(u)}]>>]
    <3>1. Max(u) \in 1 .. n
      BY <2>2, MaxIsMember
    <3>2. u \in SUBSET DOMAIN candidates
      OBVIOUS
    <3>3. It[u] = Visit(It[u \ {Max(u)}], candidates[Max(u)])
      BY <1>5, <2>2, <3>2, Zenon
    <3>4. G[<<Max(u), It[u \ {Max(u)}]>>] = Visit(It[u \ {Max(u)}], candidates[Max(u)])
      BY <1>2, <2>2, <3>1
    <3> QED
      BY <3>3, <3>4
  <2> QED
    BY <2>1, <2>2 DEF FoldsLike
<1>7. PICK h : PrefixSteps(h, n, V, state, G) /\ It[1 .. n] = h[n]
  BY <1>1, <1>6, FoldSteps
<1>8. Pass(candidates, state) = It[1 .. n]
  BY VisitingUnfolds DEF It
<1>9. \A k \in 1 .. n : h[k] = Visit(h[k - 1], candidates[k])
  <2> TAKE k \in 1 .. n
  <2>1. k - 1 \in 0 .. n
    OBVIOUS
  <2>2. h[k - 1] \in V
    BY <1>7, <2>1 DEF PrefixSteps
  <2> QED
    BY <1>2, <1>7, <2>2 DEF PrefixSteps
<1> QED
  BY <1>7, <1>8, <1>9 DEF PrefixSteps, VisitingTo

IsReaching(g, candidates, dirty) ==
    g = [s \in SUBSET DOMAIN candidates |->
            IF s = {} THEN Untouched(dirty) ELSE Pass(candidates, g[s \ {Max(s)}])]

Reaching(candidates, dirty) == CHOOSE g : IsReaching(g, candidates, dirty)

LEMMA ReachingUnfolds ==
    ASSUME NEW candidates, NEW dirty
    PROVE  Reached(candidates, dirty) = Reaching(candidates, dirty)[DOMAIN candidates]
BY Zenon DEF Reached, FoldLeft, MapThenFoldSet, Reaching, IsReaching

LEMMA ReachingIs ==
    ASSUME NEW candidates, NEW dirty, NEW g, IsReaching(g, candidates, dirty)
    PROVE  IsReaching(Reaching(candidates, dirty), candidates, dirty)
BY Zenon DEF Reaching

ReachingTo(h, n, V, candidates, dirty) ==
    /\ h \in [0 .. n -> V]
    /\ h[0] = Untouched(dirty)
    /\ \A k \in 1 .. n : h[k] = Pass(candidates, h[k - 1])
    /\ Reached(candidates, dirty) = h[n]

LEMMA ReachingSteps ==
    ASSUME NEW candidates, NEW dirty, NEW V, NEW n \in Nat, DOMAIN candidates = 1 .. n, Untouched(dirty) \in V,
           \A k \in 1 .. n, v \in V : Pass(candidates, v) \in V
    PROVE  \E h : ReachingTo(h, n, V, candidates, dirty)
<1> DEFINE G == [x \in (1 .. n) \X V |-> Pass(candidates, x[2])]
           It == Reaching(candidates, dirty)
<1>1. G \in Steps(n, V)
  BY DEF Steps
<1>2. \A k \in 1 .. n, v \in V : G[<<k, v>>] = Pass(candidates, v)
  OBVIOUS
<1> HIDE DEF G, It
<1>3. PICK g : Folds(g, n, V, Untouched(dirty), G)
  BY <1>1, FoldFunctionExists
<1>4. IsReaching(g, candidates, dirty)
  <2> SUFFICES ASSUME NEW u \in SUBSET (1 .. n), u # {}
               PROVE  g[u] = Pass(candidates, g[u \ {Max(u)}])
    BY <1>3 DEF Folds, IsReaching
  <2>1. Max(u) \in 1 .. n
    BY MaxIsMember
  <2>2. g[u \ {Max(u)}] \in V
    BY <1>3 DEF Folds
  <2> QED
    BY <1>2, <1>3, <2>1, <2>2 DEF Folds
<1>5. It = [u \in SUBSET DOMAIN candidates |->
               IF u = {} THEN Untouched(dirty) ELSE Pass(candidates, It[u \ {Max(u)}])]
  <2>1. IsReaching(It, candidates, dirty)
    BY <1>4, ReachingIs DEF It
  <2> QED
    BY <2>1, Zenon DEF IsReaching
<1>6. FoldsLike(It, n, V, Untouched(dirty), G)
  <2>1. It[{}] = Untouched(dirty)
    BY <1>5, Zenon
  <2>2. ASSUME NEW u \in SUBSET (1 .. n), u # {}, It[u \ {Max(u)}] \in V
        PROVE  It[u] = G[<<Max(u), It[u \ {Max(u)}]>>]
    <3>1. Max(u) \in 1 .. n
      BY <2>2, MaxIsMember
    <3>2. u \in SUBSET DOMAIN candidates
      OBVIOUS
    <3>3. It[u] = Pass(candidates, It[u \ {Max(u)}])
      BY <1>5, <2>2, <3>2, Zenon
    <3>4. G[<<Max(u), It[u \ {Max(u)}]>>] = Pass(candidates, It[u \ {Max(u)}])
      BY <1>2, <2>2, <3>1
    <3> QED
      BY <3>3, <3>4
  <2> QED
    BY <2>1, <2>2 DEF FoldsLike
<1>7. PICK h : PrefixSteps(h, n, V, Untouched(dirty), G) /\ It[1 .. n] = h[n]
  BY <1>1, <1>6, FoldSteps
<1>8. Reached(candidates, dirty) = It[1 .. n]
  BY ReachingUnfolds DEF It
<1>9. \A k \in 1 .. n : h[k] = Pass(candidates, h[k - 1])
  <2> TAKE k \in 1 .. n
  <2>1. k - 1 \in 0 .. n
    OBVIOUS
  <2>2. h[k - 1] \in V
    BY <1>7, <2>1 DEF PrefixSteps
  <2> QED
    BY <1>2, <1>7, <2>2 DEF PrefixSteps
<1> QED
  BY <1>7, <1>8, <1>9 DEF PrefixSteps, ReachingTo

(***************************************************************************)
(* Sequences without repetition.                                           *)
(***************************************************************************)
Distinct(s) == \A a, b \in 1 .. Len(s) : s[a] = s[b] => a = b

LEMMA Elements ==
    ASSUME NEW X, NEW s \in Seq(X)
    PROVE  /\ ToSet(s) \subseteq X
           /\ ToSet(s) = {s[k] : k \in 1 .. Len(s)}
           /\ DOMAIN s = 1 .. Len(s) /\ Len(s) \in Nat
BY LenProperties DEF ToSet

LEMMA Appended ==
    ASSUME NEW X, NEW s \in Seq(X), NEW x \in X
    PROVE  /\ Append(s, x) \in Seq(X)
           /\ ToSet(Append(s, x)) = ToSet(s) \cup {x}
           /\ Distinct(s) /\ x \notin ToSet(s) => Distinct(Append(s, x))
           /\ Len(Append(s, x)) = Len(s) + 1
           /\ Append(s, x)[Len(s) + 1] = x
           /\ \A i \in 1 .. Len(s) : Append(s, x)[i] = s[i]
<1> DEFINE t == Append(s, x)
<1>1. /\ t \in Seq(X) /\ Len(t) = Len(s) + 1 /\ Len(s) \in Nat
      /\ t[Len(s) + 1] = x /\ \A i \in 1 .. Len(s) : t[i] = s[i]
  BY AppendProperties, LenProperties
<1>2. ToSet(s) = {s[k] : k \in 1 .. Len(s)}
  BY Elements
<1>3. ToSet(t) = {t[k] : k \in 1 .. Len(t)}
  BY <1>1, Elements
<1>4. 1 .. Len(t) = 1 .. Len(s) \cup {Len(s) + 1}
  BY <1>1
<1> HIDE DEF t
<1>5. ToSet(t) = ToSet(s) \cup {x}
  <2>1. ToSet(t) = {t[k] : k \in 1 .. Len(s)} \cup {t[Len(s) + 1]}
    BY <1>3, <1>4
  <2>2. {t[k] : k \in 1 .. Len(s)} = {s[k] : k \in 1 .. Len(s)}
    BY <1>1
  <2> QED
    BY <1>1, <1>2, <2>1, <2>2
<1>6. Distinct(s) /\ x \notin ToSet(s) => Distinct(t)
  BY <1>1, <1>2, <1>4 DEF Distinct
<1> QED
  BY <1>1, <1>5, <1>6 DEF t

LEMMA Joined ==
    ASSUME NEW X, NEW s \in Seq(X), NEW t \in Seq(X)
    PROVE  /\ s \o t \in Seq(X)
           /\ ToSet(s \o t) = ToSet(s) \cup ToSet(t)
           /\ Len(s \o t) = Len(s) + Len(t)
           /\ \A i \in 1 .. Len(s) : (s \o t)[i] = s[i]
           /\ \A i \in 1 .. Len(t) : (s \o t)[Len(s) + i] = t[i]
           /\ Distinct(s) /\ Distinct(t) /\ ToSet(s) \cap ToSet(t) = {} => Distinct(s \o t)
<1> DEFINE u == s \o t
           n == Len(s)
           m == Len(t)
<1>1. /\ u \in Seq(X) /\ Len(u) = n + m /\ n \in Nat /\ m \in Nat
      /\ \A i \in 1 .. n + m : u[i] = IF i <= n THEN s[i] ELSE t[i - n]
  BY ConcatProperties, LenProperties
<1>2. /\ ToSet(s) = {s[k] : k \in 1 .. n} /\ ToSet(t) = {t[k] : k \in 1 .. m}
      /\ ToSet(u) = {u[k] : k \in 1 .. n + m}
  BY <1>1, Elements
<1> HIDE DEF u, n, m
<1>3. /\ \A i \in 1 .. n : i \in 1 .. n + m /\ u[i] = s[i]
      /\ \A i \in 1 .. m : n + i \in 1 .. n + m /\ u[n + i] = t[i]
  <2>1. \A i \in 1 .. n : i \in 1 .. n + m /\ i <= n
    BY <1>1
  <2>2. \A i \in 1 .. m : n + i \in 1 .. n + m /\ ~(n + i <= n) /\ (n + i) - n = i
    BY <1>1
  <2> QED
    BY <1>1, <2>1, <2>2
<1>4. \A k \in 1 .. n + m : \/ k \in 1 .. n
                            \/ \E i \in 1 .. m : k = n + i
  <2> TAKE k \in 1 .. n + m
  <2>1. CASE k <= n
    BY <1>1, <2>1
  <2>2. CASE ~(k <= n)
    <3>1. k - n \in 1 .. m /\ k = n + (k - n)
      BY <1>1, <2>2
    <3> QED
      BY <3>1
  <2> QED
    BY <2>1, <2>2
<1>5. ToSet(u) = ToSet(s) \cup ToSet(t)
  <2>1. ASSUME NEW x \in ToSet(u) PROVE x \in ToSet(s) \cup ToSet(t)
    <3>1. PICK k \in 1 .. n + m : x = u[k]
      BY <1>2
    <3> QED
      BY <1>2, <1>3, <1>4, <3>1
  <2>2. ASSUME NEW x \in ToSet(s) \cup ToSet(t) PROVE x \in ToSet(u)
    BY <1>2, <1>3
  <2> QED
    BY <2>1, <2>2
<1>6. ASSUME Distinct(s), Distinct(t), ToSet(s) \cap ToSet(t) = {}
      PROVE  Distinct(u)
  <2> SUFFICES ASSUME NEW a \in 1 .. n + m, NEW b \in 1 .. n + m, u[a] = u[b]
               PROVE  a = b
    BY <1>1 DEF Distinct
  <2>1. \A i \in 1 .. n, j \in 1 .. m : s[i] # t[j]
    BY <1>2, <1>6
  <2>2. CASE a \in 1 .. n /\ b \in 1 .. n
    BY <1>3, <1>6, <2>2 DEF Distinct, n
  <2>3. ASSUME NEW i \in 1 .. m, NEW j \in 1 .. m, a = n + i, b = n + j
        PROVE  a = b
    BY <1>3, <1>6, <2>3 DEF Distinct, m
  <2>4. ASSUME NEW j \in 1 .. m, a \in 1 .. n, b = n + j
        PROVE  FALSE
    BY <1>3, <2>1, <2>4
  <2>5. ASSUME NEW j \in 1 .. m, b \in 1 .. n, a = n + j
        PROVE  FALSE
    BY <1>3, <2>1, <2>5
  <2> QED
    BY <1>4, <2>2, <2>3, <2>4, <2>5
<1> QED
  BY <1>1, <1>3, <1>5, <1>6 DEF u, n, m

\* The elements of a prefix.
UpTo(s, k) == {s[j] : j \in 1 .. k}

LEMMA OneFurther ==
    ASSUME NEW s, NEW n \in Nat, NEW k \in 0 .. n - 1
    PROVE  /\ UpTo(s, k + 1) = UpTo(s, k) \cup {s[k + 1]}
           /\ k \in 0 .. n /\ k + 1 \in 1 .. n /\ k + 1 \in 0 .. n /\ (k + 1) - 1 = k
<1>1. 1 .. k + 1 = 1 .. k \cup {k + 1}
  OBVIOUS
<1>2. UpTo(s, k + 1) = UpTo(s, k) \cup {s[k + 1]}
  BY <1>1 DEF UpTo
<1> QED
  BY <1>2

LEMMA NoneYet == \A s : UpTo(s, 0) = {}
<1>1. 1 .. 0 = {}
  OBVIOUS
<1> QED
  BY <1>1 DEF UpTo

\* If a sequence repeats nothing, its next element is not one of its prefix.
LEMMA NextIsNew ==
    ASSUME NEW X, NEW s \in Seq(X), Distinct(s), NEW k \in 0 .. Len(s) - 1
    PROVE  s[k + 1] \notin UpTo(s, k)
<1>1. Len(s) \in Nat
  BY LenProperties
<1>2. k + 1 \in 1 .. Len(s) /\ \A j \in 1 .. k : j \in 1 .. Len(s) /\ j # k + 1
  BY <1>1
<1> QED
  BY <1>2 DEF Distinct, UpTo

(***************************************************************************)
(* Selections.                                                             *)
(***************************************************************************)
LEMMA Selection ==
    ASSUME NEW X, NEW seq \in Seq(X), NEW S
    PROVE  /\ Select(seq, S) \in Seq(X)
           /\ ToSet(Select(seq, S)) = ToSet(seq) \cap S
           /\ Distinct(seq) => Distinct(Select(seq, S))
<1> DEFINE n == Len(seq)
<1>1. /\ n \in Nat /\ DOMAIN seq = 1 .. n /\ n = Len(seq)
      /\ ToSet(seq) = UpTo(seq, n) /\ \A k \in 1 .. n : seq[k] \in X
  BY Elements, LenProperties DEF UpTo
<1> HIDE DEF n
<1>2. \A k \in 1 .. n, v \in Seq(X) : Kept(S, v, seq[k]) \in Seq(X)
  BY <1>1, Appended DEF Kept
<1>3. <<>> \in Seq(X)
  OBVIOUS
<1>4. PICK h : SelectingTo(h, n, Seq(X), seq, S)
  BY <1>1, <1>2, <1>3, SelectingSteps
<1> DEFINE Is(k) == /\ ToSet(h[k]) = UpTo(seq, k) \cap S
                    /\ Distinct(seq) => Distinct(h[k])
           T == {k \in 0 .. n : Is(k)}
<1>5. 0 \in T
  <2>1. h[0] = <<>> /\ 0 \in 0 .. n
    BY <1>1, <1>4 DEF SelectingTo
  <2>2. Distinct(h[0]) /\ ToSet(h[0]) = {}
    BY <2>1 DEF Distinct, ToSet
  <2> QED
    BY <2>1, <2>2, NoneYet
<1>6. ASSUME NEW k \in 0 .. n - 1, k \in T
      PROVE  k + 1 \in T
  <2> DEFINE x == seq[k + 1]
             v == h[k]
  <2>1. /\ UpTo(seq, k + 1) = UpTo(seq, k) \cup {x}
        /\ k \in 0 .. n /\ k + 1 \in 1 .. n /\ k + 1 \in 0 .. n /\ (k + 1) - 1 = k
    BY <1>1, OneFurther
  <2>2. Is(k)
    BY <1>6
  <2>3. h[k + 1] = Kept(S, v, x) /\ v \in Seq(X) /\ x \in X
    BY <1>1, <1>4, <2>1 DEF SelectingTo
  <2>4. Distinct(seq) => x \notin UpTo(seq, k)
    BY <1>1, NextIsNew
  <2> HIDE DEF x, v
  <2>5. CASE x \in S
    <3>1. h[k + 1] = Append(v, x)
      BY <2>3, <2>5 DEF Kept
    <3>2. ToSet(h[k + 1]) = ToSet(v) \cup {x}
          /\ (Distinct(v) /\ x \notin ToSet(v) => Distinct(h[k + 1]))
      BY <2>3, <3>1, Appended
    <3>3. ToSet(v) = UpTo(seq, k) \cap S /\ (Distinct(seq) => Distinct(v))
      BY <2>2 DEF v
    <3>4. Is(k + 1)
      BY <2>1, <2>4, <2>5, <3>2, <3>3
    <3> QED
      BY <2>1, <3>4
  <2>6. CASE x \notin S
    <3>1. h[k + 1] = v
      BY <2>3, <2>6 DEF Kept
    <3>2. ToSet(v) = UpTo(seq, k) \cap S /\ (Distinct(seq) => Distinct(v))
      BY <2>2 DEF v
    <3>3. Is(k + 1)
      BY <2>1, <2>6, <3>1, <3>2
    <3> QED
      BY <2>1, <3>3
  <2> QED
    BY <2>5, <2>6
<1>7. n \in T
  <2>1. n \in 0 .. n
    BY <1>1
  <2> HIDE DEF T
  <2> QED
    BY <1>1, <1>5, <1>6, <2>1, NumberInduction
<1> QED
  BY <1>1, <1>4, <1>7 DEF SelectingTo

(***************************************************************************)
(* The commands a plan can hold, and their order.                          *)
(***************************************************************************)
Consumers ==
    {Call("surfaceFeatures", Absent)} \cup
        {Call(c, s) : c \in {"blockMesh", "snappyHexMesh", "renumberMesh", "createBaffles"},
                      s \in Scopes}

\* Producers come before what awaits them in this order of commands.
Rank(i) == CASE i.command \in {"blockMesh", "surfaceFeatures"} -> 0
             [] i.command = "snappyHexMesh" -> 1
             [] OTHER -> 2

LEMMA ConsumerCases ==
    ASSUME NEW i \in Consumers
    PROVE  /\ i = Call(i.command, i.region)
           /\ \/ i.command = "surfaceFeatures" /\ i.region = Absent
              \/ /\ i.command \in {"blockMesh", "snappyHexMesh", "renumberMesh", "createBaffles"}
                 /\ i.region \in Scopes
BY DEF Consumers, Call

LEMMA ProducersRankLower ==
    ASSUME NEW p \in Consumers, NEW c \in Consumers, Signals(p) \cap Awaits(c) # {}
    PROVE  Rank(p) < Rank(c)
<1>1. CASE p.command \in {"renumberMesh", "createBaffles"}
  BY <1>1 DEF Signals
<1>2. CASE p.command = "surfaceFeatures"
  <2>1. Rank(p) = 0 /\ Signals(p) = {<<"features", Absent>>}
    BY <1>2 DEF Rank, Signals
  <2>2. <<"features", Absent>> \in Awaits(c)
    BY <2>1
  <2>3. c.command = "snappyHexMesh"
    BY <2>2, ConsumerCases DEF Awaits
  <2> QED
    BY <2>1, <2>3 DEF Rank
<1>3. CASE p.command = "blockMesh"
  <2>1. Rank(p) = 0
    BY <1>3 DEF Rank
  <2>2. <<"base", p.region>> \in Awaits(c)
    BY <1>3 DEF Signals
  <2>3. c.command # "blockMesh" /\ c.command # "surfaceFeatures"
    BY <2>2 DEF Awaits
  <2> QED
    BY <2>1, <2>3 DEF Rank
<1>4. CASE p.command = "snappyHexMesh"
  <2>1. Rank(p) = 1
    BY <1>4 DEF Rank
  <2>2. <<"snapped", p.region>> \in Awaits(c)
    BY <1>4 DEF Signals
  <2>3. c.command # "blockMesh" /\ c.command # "surfaceFeatures" /\ c.command # "snappyHexMesh"
    BY <2>2 DEF Awaits
  <2> QED
    BY <2>1, <2>3 DEF Rank
<1> QED
  BY <1>1, <1>2, <1>3, <1>4, ConsumerCases

LEMMA MinIsMember ==
    ASSUME NEW T \in SUBSET Nat, T # {}
    PROVE  Min(T) \in T /\ \A m \in T : Min(T) <= m
BY LeastNumber DEF Min

\* What is placed repeats nothing, and nothing is placed before its producers.
Placing(calls, placed, n, k) ==
    /\ placed \in Seq(1 .. n)
    /\ Len(placed) = k
    /\ Distinct(placed)
    /\ IsFiniteSet(ToSet(placed)) /\ Cardinality(ToSet(placed)) = k
    /\ \A j \in 1 .. k : Producers(calls, placed[j]) \subseteq {placed[i] : i \in 1 .. j - 1}

\* Something can be placed as long as something is left.
LEMMA SomethingToPlace ==
    ASSUME NEW calls \in Seq(Consumers), NEW placed, NEW k \in 0 .. Len(calls) - 1,
           Placing(calls, placed, Len(calls), k)
    PROVE  {c \in DOMAIN calls \ ToSet(placed) : Producers(calls, c) \subseteq ToSet(placed)} # {}
<1> DEFINE n == Len(calls)
           Left == (1 .. n) \ ToSet(placed)
           Ranks == {Rank(calls[c]) : c \in Left}
<1>1. n \in Nat /\ DOMAIN calls = 1 .. n /\ \A c \in 1 .. n : calls[c] \in Consumers
  BY LenProperties, ElementOfSeq
<1>2. Left # {}
  <2>1. IsFiniteSet(1 .. n) /\ Cardinality(1 .. n) = n
    BY <1>1, FS_Interval
  <2>2. Cardinality(ToSet(placed)) = k /\ k \in Nat /\ k < n
    BY <1>1 DEF Placing
  <2>3. SUFFICES ASSUME 1 .. n \subseteq ToSet(placed) PROVE FALSE
    OBVIOUS
  <2>4. Cardinality(1 .. n) <= Cardinality(ToSet(placed))
    BY <2>3, FS_Subset DEF Placing
  <2> QED
    BY <2>1, <2>2, <2>4
<1>3. \A i : Rank(i) \in Nat
  BY DEF Rank
<1>4. PICK r \in Ranks : \A m \in Ranks : r <= m
  <2>1. Ranks \in SUBSET Nat /\ Ranks # {}
    BY <1>2, <1>3
  <2> HIDE DEF Ranks
  <2> QED
    BY <2>1, LeastNumber
<1>5. PICK c \in Left : r = Rank(calls[c])
  BY <1>4
<1>6. ASSUME NEW p \in Producers(calls, c)
      PROVE  p \in ToSet(placed)
  <2>1. p \in 1 .. n /\ Signals(calls[p]) \cap Awaits(calls[c]) # {}
    BY <1>1, <1>6 DEF Producers
  <2>2. Rank(calls[p]) < Rank(calls[c])
    BY <1>1, <2>1, ProducersRankLower
  <2>3. ~(r <= Rank(calls[p]))
    BY <1>3, <1>5, <2>2
  <2>4. p \notin Left
    BY <1>4, <2>3
  <2> QED
    BY <2>1, <2>4
<1> QED
  BY <1>1, <1>5, <1>6

LEMMA PlacingSteps ==
    ASSUME NEW calls \in Seq(Consumers), NEW placed, NEW k \in 0 .. Len(calls) - 1,
           Placing(calls, placed, Len(calls), k)
    PROVE  Placing(calls, Place(calls, placed), Len(calls), k + 1)
<1> DEFINE n == Len(calls)
           Ready == {c \in DOMAIN calls \ ToSet(placed) :
                        Producers(calls, c) \subseteq ToSet(placed)}
           c == Min(Ready)
           out == Place(calls, placed)
<1>1. n \in Nat /\ DOMAIN calls = 1 .. n /\ n = Len(calls)
  BY LenProperties
<1>2. c \in Ready
  <2>1. Ready # {}
    BY SomethingToPlace
  <2>2. Ready \in SUBSET Nat
    BY <1>1
  <2> HIDE DEF Ready
  <2> QED
    BY <2>1, <2>2, MinIsMember
<1>3. c \in 1 .. n /\ c \notin ToSet(placed) /\ Producers(calls, c) \subseteq ToSet(placed)
  BY <1>1, <1>2
<1>4. out = Append(placed, c)
  BY DEF Place
<1> HIDE DEF n, c, out, Ready
<1>5. /\ placed \in Seq(1 .. n) /\ Len(placed) = k /\ Distinct(placed)
      /\ IsFiniteSet(ToSet(placed)) /\ Cardinality(ToSet(placed)) = k
      /\ \A j \in 1 .. k : Producers(calls, placed[j]) \subseteq {placed[i] : i \in 1 .. j - 1}
      /\ k \in Nat
  BY <1>1 DEF Placing
<1>6. /\ out \in Seq(1 .. n) /\ ToSet(out) = ToSet(placed) \cup {c} /\ Distinct(out)
      /\ Len(out) = k + 1 /\ out[k + 1] = c /\ \A i \in 1 .. k : out[i] = placed[i]
  <2> DEFINE X == 1 .. n
  <2>1. placed \in Seq(X) /\ c \in X
    BY <1>3, <1>5
  <2> HIDE DEF X
  <2>2. /\ out \in Seq(X) /\ ToSet(out) = ToSet(placed) \cup {c}
        /\ Distinct(placed) /\ c \notin ToSet(placed) => Distinct(out)
        /\ Len(out) = Len(placed) + 1 /\ out[Len(placed) + 1] = c
        /\ \A i \in 1 .. Len(placed) : out[i] = placed[i]
    BY <1>4, <2>1, Appended
  <2>3. out \in Seq(1 .. n)
    BY <2>2 DEF X
  <2>4. Len(placed) = k
    BY <1>5
  <2>5. Len(out) = k + 1 /\ out[k + 1] = c /\ \A i \in 1 .. k : out[i] = placed[i]
    BY <2>2, <2>4
  <2>6. Distinct(out)
    BY <1>3, <1>5, <2>2
  <2>7. ToSet(out) = ToSet(placed) \cup {c}
    BY <2>2
  <2> QED
    BY <2>3, <2>5, <2>6, <2>7
<1>7. IsFiniteSet(ToSet(out)) /\ Cardinality(ToSet(out)) = k + 1
  <2> DEFINE S == ToSet(placed)
  <2>1. c \notin S /\ IsFiniteSet(S) /\ Cardinality(S) = k /\ ToSet(out) = S \cup {c}
    BY <1>3, <1>5, <1>6
  <2> HIDE DEF S
  <2>2. IsFiniteSet(S \cup {c}) /\ Cardinality(S \cup {c}) = IF c \in S THEN Cardinality(S) ELSE Cardinality(S) + 1
    <3>1. IsFiniteSet(S)
      BY <2>1
    <3> QED
      BY <3>1, FS_AddElement, Zenon
  <2> QED
    BY <2>1, <2>2
<1>8. ASSUME NEW j \in 1 .. k + 1
      PROVE  Producers(calls, out[j]) \subseteq {out[i] : i \in 1 .. j - 1}
  <2>1. CASE j \in 1 .. k
    <3>1. out[j] = placed[j] /\ \A i \in 1 .. j - 1 : out[i] = placed[i]
      BY <1>5, <1>6, <2>1
    <3>2. {out[i] : i \in 1 .. j - 1} = {placed[i] : i \in 1 .. j - 1}
      BY <3>1
    <3> QED
      BY <1>5, <2>1, <3>1, <3>2
  <2>2. CASE j = k + 1
    <3>1. ToSet(placed) = {placed[i] : i \in 1 .. k}
      BY <1>5, Elements
    <3>2. {out[i] : i \in 1 .. k} = {placed[i] : i \in 1 .. k}
      BY <1>6
    <3>3. j - 1 = k
      BY <1>5, <2>2
    <3> QED
      BY <1>3, <1>6, <2>2, <3>1, <3>2, <3>3
  <2> QED
    BY <1>5, <2>1, <2>2
<1>9. Placing(calls, out, n, k + 1)
  BY <1>6, <1>7, <1>8 DEF Placing
<1> QED
  BY <1>9 DEF n, out

LEMMA OrderIs ==
    ASSUME NEW calls \in Seq(Consumers)
    PROVE  Placing(calls, Order(calls), Len(calls), Len(calls))
<1> DEFINE n == Len(calls)
           V == Seq((1 .. n) \cup {Min({})})
<1>1. n \in Nat /\ DOMAIN calls = 1 .. n /\ n = Len(calls)
  BY LenProperties
<1>2. <<>> \in V
  OBVIOUS
<1>3. \A k \in 1 .. n, v \in V : Place(calls, v) \in V
  <2> TAKE k \in 1 .. n, v \in V
  <2> DEFINE Ready == {c \in DOMAIN calls \ ToSet(v) : Producers(calls, c) \subseteq ToSet(v)}
  <2>1. Ready \in SUBSET (1 .. n)
    BY <1>1
  <2>2. Min(Ready) \in (1 .. n) \cup {Min({})}
    <3> HIDE DEF Ready
    <3>1. CASE Ready = {}
      <4>1. Min(Ready) = Min({})
        BY <3>1, Zenon
      <4> QED
        BY <4>1
    <3>2. CASE Ready # {}
      <4>1. Ready \in SUBSET Nat
        BY <1>1, <2>1
      <4>2. Min(Ready) \in Ready
        BY <3>2, <4>1, MinIsMember
      <4> QED
        BY <2>1, <4>2
    <3> QED
      BY <3>1, <3>2
  <2>3. Place(calls, v) = Append(v, Min(Ready))
    BY DEF Place
  <2> HIDE DEF Ready
  <2> QED
    BY <2>2, <2>3, AppendProperties
<1> HIDE DEF n, V
<1>4. PICK h : OrderingTo(h, n, V, calls)
  BY <1>1, <1>2, <1>3, OrderingSteps
<1> DEFINE T == {k \in 0 .. n : Placing(calls, h[k], n, k)}
<1>5. 0 \in T
  <2>1. h[0] = <<>> /\ 0 \in 0 .. n
    BY <1>1, <1>4 DEF OrderingTo
  <2>2. ToSet(<<>>) = {} /\ Distinct(<<>>) /\ Len(<<>>) = 0 /\ <<>> \in Seq(1 .. n)
    BY DEF Distinct, ToSet
  <2>3. Placing(calls, <<>>, n, 0)
    BY <2>2, FS_EmptySet DEF Placing
  <2> QED
    BY <2>1, <2>3
<1>6. ASSUME NEW k \in 0 .. n - 1, k \in T
      PROVE  k + 1 \in T
  <2>1. k + 1 \in 1 .. n /\ k + 1 \in 0 .. n /\ (k + 1) - 1 = k
    BY <1>1
  <2>2. h[k + 1] = Place(calls, h[k])
    BY <1>4, <2>1 DEF OrderingTo
  <2>3. Placing(calls, h[k], n, k)
    BY <1>6
  <2>4. Placing(calls, Place(calls, h[k]), n, k + 1)
    BY <1>1, <2>3, PlacingSteps
  <2> QED
    BY <2>1, <2>2, <2>4
<1>7. n \in T
  <2>1. n \in 0 .. n
    BY <1>1
  <2> HIDE DEF T
  <2> QED
    BY <1>1, <1>5, <1>6, <2>1, NumberInduction
<1> QED
  BY <1>1, <1>4, <1>7 DEF OrderingTo

\* The compiled order keeps the commands and puts producers first.
LEMMA Ordered ==
    ASSUME NEW calls \in Seq(Consumers)
    PROVE  /\ StableOrder(calls) \in Seq(Consumers)
           /\ ToSet(StableOrder(calls)) = ToSet(calls)
           /\ Distinct(calls) => Distinct(StableOrder(calls))
           /\ \A a, b \in DOMAIN StableOrder(calls) :
                 Signals(StableOrder(calls)[a]) \cap Awaits(StableOrder(calls)[b]) # {} => a < b
<1> DEFINE n == Len(calls)
           order == Order(calls)
           out == StableOrder(calls)
<1>1. n \in Nat /\ DOMAIN calls = 1 .. n /\ n = Len(calls)
      /\ \A c \in 1 .. n : calls[c] \in Consumers
  BY LenProperties, ElementOfSeq
<1>2. Placing(calls, order, n, n)
  BY OrderIs
<1>3. out = [k \in DOMAIN calls |-> calls[order[k]]]
  BY DEF StableOrder, Order
<1> HIDE DEF n, order, out
<1>4. /\ \A k \in 1 .. n : order[k] \in 1 .. n
      /\ \A a, b \in 1 .. n : order[a] = order[b] => a = b
      /\ ToSet(order) = {order[k] : k \in 1 .. n}
  BY <1>2, Elements, ElementOfSeq DEF Placing, Distinct
<1>5. \A k \in 1 .. n : out[k] = calls[order[k]]
  BY <1>1, <1>3
<1>6. out \in Seq(Consumers) /\ Len(out) = n /\ DOMAIN out = 1 .. n
  <2>1. out \in [1 .. n -> Consumers]
    BY <1>1, <1>3, <1>4
  <2>2. out \in Seq(Consumers)
    BY <1>1, <2>1
  <2> QED
    BY <1>1, <2>1, <2>2, LenProperties
<1>7. \A c \in 1 .. n : \E k \in 1 .. n : order[k] = c
  <2>1. ToSet(order) \in SUBSET (1 .. n)
    <3>1. \A c \in ToSet(order) : c \in 1 .. n
      BY <1>4
    <3> QED
      BY <3>1, Zenon
  <2>2. IsFiniteSet(1 .. n) /\ Cardinality(1 .. n) = n
    <3>1. n \in Nat
      BY <1>1
    <3>2. IsFiniteSet(1 .. n) /\ Cardinality(1 .. n) = IF 1 > n THEN 0 ELSE n - 1 + 1
      BY <3>1, FS_Interval
    <3> QED
      BY <3>1, <3>2
  <2>3. Cardinality(ToSet(order)) = n
    BY <1>2 DEF Placing
  <2>4. ToSet(order) = 1 .. n
    BY <2>1, <2>2, <2>3, FS_Subset
  <2> QED
    BY <1>4, <2>4
<1>8. ToSet(out) = ToSet(calls)
  <2>1. ToSet(out) = {out[k] : k \in 1 .. n} /\ ToSet(calls) = {calls[k] : k \in 1 .. n}
    BY <1>1, <1>6, Elements
  <2>2. \A k \in 1 .. n : out[k] \in ToSet(calls)
    BY <1>4, <1>5, <2>1
  <2>3. \A c \in 1 .. n : calls[c] \in ToSet(out)
    BY <1>5, <1>7, <2>1
  <2> QED
    BY <2>1, <2>2, <2>3
<1>9. Distinct(calls) => Distinct(out)
  BY <1>1, <1>4, <1>5, <1>6 DEF Distinct
<1>10. ASSUME NEW a \in 1 .. n, NEW b \in 1 .. n, Signals(out[a]) \cap Awaits(out[b]) # {}
       PROVE  a < b
  <2>1. calls[order[a]] \in Consumers /\ calls[order[b]] \in Consumers
    BY <1>1, <1>4
  <2>2. Signals(calls[order[a]]) \cap Awaits(calls[order[b]]) # {}
    BY <1>5, <1>10
  <2>3. order[a] # order[b]
    <3>1. Rank(calls[order[a]]) < Rank(calls[order[b]])
      BY <2>1, <2>2, ProducersRankLower
    <3>2. Rank(calls[order[a]]) \in Nat
      BY DEF Rank
    <3> QED
      BY <3>1, <3>2
  <2>4. order[a] \in Producers(calls, order[b])
    BY <1>1, <1>4, <2>2, <2>3 DEF Producers
  <2>5. PICK j \in 1 .. b - 1 : order[a] = order[j]
    BY <1>2, <2>4 DEF Placing
  <2>6. j \in 1 .. n /\ j < b
    BY <1>1
  <2> QED
    BY <1>4, <2>5, <2>6
<1> QED
  BY <1>6, <1>8, <1>9, <1>10 DEF out

(***************************************************************************)
(* What is inferred from the files.                                        *)
(***************************************************************************)
Inferable(present, scopes) ==
    {i \in Consumers : /\ i.command \in {"blockMesh", "snappyHexMesh"}
                       /\ i.region \in scopes
                       /\ RequiredDict(i) \subseteq present}

LEMMA Single ==
    ASSUME NEW X, NEW x \in X
    PROVE  /\ <<x>> \in Seq(X) /\ ToSet(<<x>>) = {x} /\ Distinct(<<x>>) /\ Len(<<x>>) = 1
           /\ <<x>>[1] = x
<1>1. <<x>> \in Seq(X) /\ Len(<<x>>) = 1 /\ <<x>>[1] = x /\ DOMAIN <<x>> = {1} /\ 1 .. 1 = {1}
  OBVIOUS
<1>2. Distinct(<<x>>)
  BY <1>1 DEF Distinct
<1>3. ToSet(<<x>>) = {x}
  BY <1>1 DEF ToSet
<1> QED
  BY <1>1, <1>2, <1>3

LEMMA Nothing ==
    ASSUME NEW X
    PROVE  /\ <<>> \in Seq(X) /\ ToSet(<<>>) = {} /\ Distinct(<<>>) /\ Len(<<>>) = 0
BY DEF ToSet, Distinct

LEMMA InferredIs ==
    ASSUME NEW s \in Scopes, NEW present
    PROVE  /\ Inferred(s, present) \in Seq(Consumers)
           /\ ToSet(Inferred(s, present)) = Inferable(present, {s})
           /\ Distinct(Inferred(s, present))
<1> DEFINE b == Call("blockMesh", s)
           c == Call("snappyHexMesh", s)
           B == IF BlockDict(s) \in present THEN <<b>> ELSE <<>>
           C == IF SnapDict(s) \in present THEN <<c>> ELSE <<>>
<1>1. /\ b \in Consumers /\ c \in Consumers /\ b # c
      /\ b.command = "blockMesh" /\ c.command = "snappyHexMesh"
      /\ b.region = s /\ c.region = s
  BY DEF Call, Consumers
<1>2. RequiredDict(b) = {BlockDict(s)} /\ RequiredDict(c) = {SnapDict(s)}
  BY <1>1 DEF RequiredDict
<1>3. \A i \in Consumers : i.region = s /\ i.command \in {"blockMesh", "snappyHexMesh"}
                              => i = b \/ i = c
  BY ConsumerCases
<1>4. Inferred(s, present) = B \o C
  BY DEF Inferred
<1> HIDE DEF b, c
<1>5. B \in Seq(Consumers) /\ Distinct(B)
      /\ ToSet(B) = IF BlockDict(s) \in present THEN {b} ELSE {}
  BY <1>1, Single, Nothing
<1>6. C \in Seq(Consumers) /\ Distinct(C)
      /\ ToSet(C) = IF SnapDict(s) \in present THEN {c} ELSE {}
  BY <1>1, Single, Nothing
<1> HIDE DEF B, C
<1>7. /\ B \o C \in Seq(Consumers) /\ ToSet(B \o C) = ToSet(B) \cup ToSet(C)
      /\ Distinct(B) /\ Distinct(C) /\ ToSet(B) \cap ToSet(C) = {} => Distinct(B \o C)
  BY <1>5, <1>6, Joined
<1>8. ToSet(B) \cap ToSet(C) = {}
  BY <1>1, <1>5, <1>6
<1>9. ToSet(B) \cup ToSet(C) = Inferable(present, {s})
  BY <1>1, <1>2, <1>3, <1>5, <1>6 DEF Inferable
<1> QED
  BY <1>4, <1>5, <1>6, <1>7, <1>8, <1>9

LEMMA ScopeOrderIs ==
    /\ ScopeOrder \in Seq(Scopes)
    /\ Distinct(ScopeOrder)
    /\ Len(ScopeOrder) \in Nat /\ DOMAIN ScopeOrder = 1 .. Len(ScopeOrder)
<1>1. ScopeOrder \in Seq(Scopes)
  BY MeshAssumption
<1>2. Distinct(ScopeOrder)
  BY <1>1, MeshAssumption, LenProperties DEF Distinct, IsInjective
<1> QED
  BY <1>1, <1>2, LenProperties

LEMMA AutoConsumersAre ==
    ASSUME NEW present
    PROVE  /\ AutoConsumers(present) \in Seq(Consumers)
           /\ ToSet(AutoConsumers(present)) = Inferable(present, Scopes)
           /\ Distinct(AutoConsumers(present))
<1> DEFINE n == Len(ScopeOrder)
<1>1. /\ n \in Nat /\ DOMAIN ScopeOrder = 1 .. n /\ n = Len(ScopeOrder)
      /\ \A k \in 1 .. n : ScopeOrder[k] \in Scopes
      /\ Scopes = UpTo(ScopeOrder, n)
  BY ScopeOrderIs, Elements DEF UpTo, Scopes
<1> HIDE DEF n
<1>2. \A k \in 1 .. n, v \in Seq(Consumers) : Extended(v, ScopeOrder[k], present) \in Seq(Consumers)
  BY <1>1, InferredIs, Joined DEF Extended
<1>3. <<>> \in Seq(Consumers)
  OBVIOUS
<1>4. PICK h : InferringTo(h, n, Seq(Consumers), present)
  BY <1>1, <1>2, <1>3, InferringSteps
<1> DEFINE Is(k) == ToSet(h[k]) = Inferable(present, UpTo(ScopeOrder, k)) /\ Distinct(h[k])
           T == {k \in 0 .. n : Is(k)}
<1>5. 0 \in T
  <2>1. h[0] = <<>> /\ 0 \in 0 .. n
    BY <1>1, <1>4 DEF InferringTo
  <2>2. Inferable(present, UpTo(ScopeOrder, 0)) = {}
    BY NoneYet DEF Inferable
  <2> QED
    BY <2>1, <2>2, Nothing
<1>6. ASSUME NEW k \in 0 .. n - 1, k \in T
      PROVE  k + 1 \in T
  <2> DEFINE s == ScopeOrder[k + 1]
             v == h[k]
             U == UpTo(ScopeOrder, k)
  <2>1. /\ UpTo(ScopeOrder, k + 1) = U \cup {s}
        /\ k \in 0 .. n /\ k + 1 \in 1 .. n /\ k + 1 \in 0 .. n /\ (k + 1) - 1 = k
    BY <1>1, OneFurther
  <2>2. Is(k)
    BY <1>6
  <2>3. h[k + 1] = v \o Inferred(s, present) /\ v \in Seq(Consumers) /\ s \in Scopes
    BY <1>1, <1>4, <2>1 DEF InferringTo, Extended
  <2>4. s \notin U
    BY <1>1, NextIsNew, ScopeOrderIs
  <2>5. ToSet(v) = Inferable(present, U) /\ Distinct(v)
    BY <2>2
  <2> HIDE DEF s, v, U
  <2>6. /\ ToSet(h[k + 1]) = ToSet(v) \cup Inferable(present, {s})
        /\ ToSet(v) \cap Inferable(present, {s}) = {} => Distinct(h[k + 1])
    <3> DEFINE t == Inferred(s, present)
    <3>1. t \in Seq(Consumers) /\ ToSet(t) = Inferable(present, {s}) /\ Distinct(t)
      BY <2>3, InferredIs
    <3>2. h[k + 1] = v \o t
      BY <2>3
    <3> HIDE DEF t
    <3>3. /\ ToSet(v \o t) = ToSet(v) \cup ToSet(t)
          /\ Distinct(v) /\ Distinct(t) /\ ToSet(v) \cap ToSet(t) = {} => Distinct(v \o t)
      <4>1. v \in Seq(Consumers) /\ t \in Seq(Consumers)
        BY <2>3, <3>1
      <4> QED
        BY <4>1, Joined
    <3> QED
      BY <2>5, <3>1, <3>2, <3>3
  <2>7. Inferable(present, U) \cup Inferable(present, {s}) = Inferable(present, U \cup {s})
    BY DEF Inferable
  <2>8. Inferable(present, U) \cap Inferable(present, {s}) = {}
    BY <2>4 DEF Inferable
  <2>9. Is(k + 1)
    BY <2>1, <2>5, <2>6, <2>7, <2>8
  <2> QED
    BY <2>1, <2>9
<1>7. n \in T
  <2>1. n \in 0 .. n
    BY <1>1
  <2> HIDE DEF T
  <2> QED
    BY <1>1, <1>5, <1>6, <2>1, NumberInduction
<1> QED
  BY <1>1, <1>4, <1>7 DEF InferringTo

\* The candidates of an edit: whatever reads a dictionary that is there.
Candidates(present) ==
    {i \in Consumers : /\ i.command \in {"blockMesh", "snappyHexMesh", "surfaceFeatures"}
                       /\ RequiredDict(i) \subseteq present}

LEMMA DeltaConsumersAre ==
    ASSUME NEW present
    PROVE  /\ DeltaConsumers(present) \in Seq(Consumers)
           /\ ToSet(DeltaConsumers(present)) = Candidates(present)
<1> DEFINE i == Call("surfaceFeatures", Absent)
           F == IF FeatureDict \in present THEN <<i>> ELSE <<>>
           A == AutoConsumers(present)
<1>1. i \in Consumers /\ i.command = "surfaceFeatures" /\ RequiredDict(i) = {FeatureDict}
  BY DEF Consumers, Call, RequiredDict
<1>2. \A j \in Consumers : j.command = "surfaceFeatures" => j = i
  BY ConsumerCases
<1>3. DeltaConsumers(present) = A \o F
  BY DEF DeltaConsumers
<1> HIDE DEF i
<1>4. F \in Seq(Consumers) /\ ToSet(F) = IF FeatureDict \in present THEN {i} ELSE {}
  BY <1>1, Single, Nothing
<1>5. A \in Seq(Consumers) /\ ToSet(A) = Inferable(present, Scopes)
  BY AutoConsumersAre
<1> HIDE DEF F, A
<1>6. A \o F \in Seq(Consumers) /\ ToSet(A \o F) = ToSet(A) \cup ToSet(F)
  BY <1>4, <1>5, Joined
<1>7. ToSet(A) \cup ToSet(F) = Candidates(present)
  <2>1. \A j \in Consumers : j.command \in {"blockMesh", "snappyHexMesh"} => j.region \in Scopes
    BY ConsumerCases
  <2> QED
    BY <1>1, <1>2, <1>4, <1>5, <2>1 DEF Inferable, Candidates
<1> QED
  BY <1>3, <1>6, <1>7

(***************************************************************************)
(* The closure over what the selected commands write.                      *)
(***************************************************************************)
Writes(S) == UNION {DeclaredOutputs(i) : i \in S}

Sweeps == [selected : Seq(Consumers), dirty : SUBSET Paths]

\* A state of the closure: commands of the candidates, each once, and all that
\* they write besides what the edit changed.
Closing(v, candidates, dirty) ==
    /\ v \in Sweeps
    /\ Distinct(v.selected)
    /\ ToSet(v.selected) \subseteq ToSet(candidates)
    /\ v.dirty = dirty \cup Writes(ToSet(v.selected))

Swept(v, candidates) ==
    \A c \in ToSet(candidates) :
        DeclaredInputs(c) \cap v.dirty # {} => c \in ToSet(v.selected)

LEMMA OutputsArePaths ==
    ASSUME NEW i \in Consumers
    PROVE  DeclaredOutputs(i) \subseteq Paths
<1>1. i.region \in Scopes => PolyMesh(i.region) \in Paths
  BY DEF Paths
<1>2. TriSurface \in Paths
  BY DEF Paths, Files
<1> QED
  BY <1>1, <1>2, ConsumerCases DEF DeclaredOutputs

LEMMA VisitTyped ==
    ASSUME NEW v \in Sweeps, NEW i \in Consumers
    PROVE  Visit(v, i) \in Sweeps
<1>1. CASE Visit(v, i) = v
  BY <1>1
<1>2. CASE Visit(v, i) = [selected |-> Append(v.selected, i), dirty |-> v.dirty \cup DeclaredOutputs(i)]
  <2>1. v.selected \in Seq(Consumers) /\ v.dirty \subseteq Paths
    BY DEF Sweeps
  <2>2. Append(v.selected, i) \in Seq(Consumers)
    BY <2>1, AppendProperties
  <2>3. v.dirty \cup DeclaredOutputs(i) \subseteq Paths
    BY <2>1, OutputsArePaths
  <2> QED
    BY <1>2, <2>2, <2>3 DEF Sweeps
<1> QED
  BY <1>1, <1>2 DEF Visit

LEMMA VisitKeeps ==
    ASSUME NEW v, NEW candidates \in Seq(Consumers), NEW dirty \in SUBSET Paths,
           Closing(v, candidates, dirty), NEW i \in ToSet(candidates)
    PROVE  /\ Closing(Visit(v, i), candidates, dirty)
           /\ ToSet(v.selected) \subseteq ToSet(Visit(v, i).selected)
           /\ ToSet(Visit(v, i).selected) = ToSet(v.selected) =>
                 /\ Visit(v, i) = v
                 /\ DeclaredInputs(i) \cap v.dirty # {} => i \in ToSet(v.selected)
<1>1. i \in Consumers
  BY Elements
<1>2. CASE i \in ToSet(v.selected) \/ DeclaredInputs(i) \cap v.dirty = {}
  <2>1. Visit(v, i) = v
    BY <1>2 DEF Visit
  <2> QED
    BY <1>2, <2>1
<1>3. CASE ~(i \in ToSet(v.selected) \/ DeclaredInputs(i) \cap v.dirty = {})
  <2> DEFINE w == Visit(v, i)
  <2>1. w = [selected |-> Append(v.selected, i), dirty |-> v.dirty \cup DeclaredOutputs(i)]
    BY <1>3 DEF Visit
  <2>2. w \in Sweeps
    BY <1>1, VisitTyped DEF Closing
  <2>3. w.selected = Append(v.selected, i) /\ w.dirty = v.dirty \cup DeclaredOutputs(i)
    BY <2>1
  <2> HIDE DEF w
  <2>4. v.selected \in Seq(Consumers) /\ Distinct(v.selected)
    BY DEF Closing, Sweeps
  <2>5. ToSet(w.selected) = ToSet(v.selected) \cup {i} /\ Distinct(w.selected)
    BY <1>1, <1>3, <2>3, <2>4, Appended
  <2>6. ToSet(w.selected) \subseteq ToSet(candidates)
    BY <2>5 DEF Closing
  <2>7. Writes(ToSet(v.selected) \cup {i}) = Writes(ToSet(v.selected)) \cup DeclaredOutputs(i)
    BY DEF Writes
  <2>8. w.dirty = dirty \cup Writes(ToSet(w.selected))
    BY <2>3, <2>5, <2>7 DEF Closing
  <2>9. Closing(w, candidates, dirty)
    BY <2>2, <2>5, <2>6, <2>8 DEF Closing
  <2> QED
    BY <1>3, <2>5, <2>9 DEF w
<1> QED
  BY <1>2, <1>3

\* A pass from a state to which nothing is to add changes nothing, any other adds.
LEMMA PassKeeps ==
    ASSUME NEW v, NEW candidates \in Seq(Consumers), NEW dirty \in SUBSET Paths,
           Closing(v, candidates, dirty)
    PROVE  /\ Closing(Pass(candidates, v), candidates, dirty)
           /\ ToSet(v.selected) \subseteq ToSet(Pass(candidates, v).selected)
           /\ Swept(v, candidates) => Pass(candidates, v) = v
           /\ ToSet(Pass(candidates, v).selected) = ToSet(v.selected) => Swept(v, candidates)
<1> DEFINE n == Len(candidates)
<1>1. /\ n \in Nat /\ DOMAIN candidates = 1 .. n /\ n = Len(candidates)
      /\ \A k \in 1 .. n : candidates[k] \in ToSet(candidates)
      /\ ToSet(candidates) = {candidates[k] : k \in 1 .. n}
      /\ \A k \in 1 .. n : candidates[k] \in Consumers
  BY Elements
<1> HIDE DEF n
<1>2. v \in Sweeps
  BY DEF Closing
<1>3. \A k \in 1 .. n, w \in Sweeps : Visit(w, candidates[k]) \in Sweeps
  BY <1>1, VisitTyped
<1>4. PICK h : VisitingTo(h, n, Sweeps, candidates, v)
  BY <1>1, <1>2, <1>3, VisitingSteps
<1> DEFINE Is(k) ==
             /\ Closing(h[k], candidates, dirty)
             /\ ToSet(v.selected) \subseteq ToSet(h[k].selected)
             /\ Swept(v, candidates) => h[k] = v
             /\ ToSet(h[k].selected) = ToSet(v.selected) =>
                   /\ h[k] = v
                   /\ \A j \in 1 .. k : DeclaredInputs(candidates[j]) \cap v.dirty # {}
                                           => candidates[j] \in ToSet(v.selected)
           T == {k \in 0 .. n : Is(k)}
<1>5. 0 \in T
  <2>1. h[0] = v /\ 0 \in 0 .. n /\ 1 .. 0 = {}
    BY <1>1, <1>4 DEF VisitingTo
  <2> QED
    BY <2>1
<1>6. ASSUME NEW k \in 0 .. n - 1, k \in T
      PROVE  k + 1 \in T
  <2> DEFINE i == candidates[k + 1]
             u == h[k]
             w == h[k + 1]
  <2>1. k \in 0 .. n /\ k + 1 \in 1 .. n /\ k + 1 \in 0 .. n /\ (k + 1) - 1 = k
        /\ 1 .. k + 1 = 1 .. k \cup {k + 1}
    BY <1>1
  <2>2. Is(k)
    BY <1>6
  <2>3. w = Visit(u, i) /\ i \in ToSet(candidates)
    BY <1>1, <1>4, <2>1 DEF VisitingTo
  <2>4. Closing(u, candidates, dirty)
    BY <2>2
  <2> HIDE DEF i, u, w
  <2>5. /\ Closing(w, candidates, dirty)
        /\ ToSet(u.selected) \subseteq ToSet(w.selected)
        /\ ToSet(w.selected) = ToSet(u.selected) =>
                 /\ w = u
                 /\ DeclaredInputs(i) \cap u.dirty # {} => i \in ToSet(u.selected)
    BY <2>3, <2>4, VisitKeeps
  <2>6. ToSet(v.selected) \subseteq ToSet(w.selected)
    BY <2>2, <2>5 DEF u
  <2>7. ASSUME Swept(v, candidates)
        PROVE  w = v
    <3>1. u = v
      BY <2>2, <2>7 DEF u
    <3>2. i \in ToSet(u.selected) \/ DeclaredInputs(i) \cap u.dirty = {}
      BY <2>3, <2>7, <3>1 DEF Swept
    <3> QED
      BY <2>3, <3>1, <3>2 DEF Visit
  <2>8. ASSUME ToSet(w.selected) = ToSet(v.selected)
        PROVE  /\ w = v
               /\ \A j \in 1 .. k + 1 : DeclaredInputs(candidates[j]) \cap v.dirty # {}
                                           => candidates[j] \in ToSet(v.selected)
    <3>1. ToSet(u.selected) = ToSet(v.selected)
      BY <2>2, <2>5, <2>8 DEF u
    <3>2. /\ u = v
          /\ \A j \in 1 .. k : DeclaredInputs(candidates[j]) \cap v.dirty # {}
                                  => candidates[j] \in ToSet(v.selected)
      BY <2>2, <3>1 DEF u
    <3>3. w = u /\ (DeclaredInputs(i) \cap u.dirty # {} => i \in ToSet(u.selected))
      BY <2>5, <2>8, <3>1
    <3> QED
      BY <2>1, <3>2, <3>3 DEF i
  <2>9. Is(k + 1)
    BY <2>5, <2>6, <2>7, <2>8 DEF w
  <2> QED
    BY <2>1, <2>9
<1>7. n \in T
  <2>1. n \in 0 .. n
    BY <1>1
  <2> HIDE DEF T
  <2> QED
    BY <1>1, <1>5, <1>6, <2>1, NumberInduction
<1>8. Pass(candidates, v) = h[n]
  BY <1>4 DEF VisitingTo
<1>9. Is(n)
  BY <1>7
<1>10. ToSet(h[n].selected) = ToSet(v.selected) => Swept(v, candidates)
  BY <1>1, <1>9 DEF Swept
<1> QED
  BY <1>8, <1>9, <1>10

LEMMA ReachedCloses ==
    ASSUME NEW candidates \in Seq(Consumers), NEW dirty \in SUBSET Paths
    PROVE  /\ Closing(Reached(candidates, dirty), candidates, dirty)
           /\ Swept(Reached(candidates, dirty), candidates)
<1> DEFINE n == Len(candidates)
           V == {v \in Sweeps : Closing(v, candidates, dirty)}
<1>1. /\ n \in Nat /\ DOMAIN candidates = 1 .. n /\ n = Len(candidates)
      /\ ToSet(candidates) = {candidates[k] : k \in 1 .. n}
  BY Elements
<1> HIDE DEF n
<1>2. Untouched(dirty) \in V
  <2>1. Untouched(dirty).selected = <<>> /\ Untouched(dirty).dirty = dirty
        /\ Untouched(dirty) \in Sweeps
    BY Nothing DEF Untouched, Sweeps
  <2>2. Writes({}) = {}
    BY DEF Writes
  <2> QED
    BY <2>1, <2>2, Nothing DEF Closing
<1>3. \A k \in 1 .. n, v \in V : Pass(candidates, v) \in V
  BY PassKeeps DEF Closing
<1>4. PICK h : ReachingTo(h, n, V, candidates, dirty)
  BY <1>1, <1>2, <1>3, ReachingSteps
<1>5. IsFiniteSet(ToSet(candidates)) /\ Cardinality(ToSet(candidates)) <= n
  <2>1. IsFiniteSet(1 .. n) /\ Cardinality(1 .. n) = n
    <3>1. n \in Nat
      BY <1>1
    <3>2. IsFiniteSet(1 .. n) /\ Cardinality(1 .. n) = IF 1 > n THEN 0 ELSE n - 1 + 1
      BY <3>1, FS_Interval
    <3> QED
      BY <3>1, <3>2
  <2>2. candidates \in Surjection(1 .. n, ToSet(candidates))
    BY <1>1 DEF Surjection
  <2>3. IsFiniteSet(ToSet(candidates)) /\ Cardinality(ToSet(candidates)) <= Cardinality(1 .. n)
    BY <2>1, <2>2, FS_Surjection
  <2> QED
    BY <2>1, <2>3
<1> DEFINE Size(k) == Cardinality(ToSet(h[k].selected))
           Is(k) == Swept(h[k], candidates) \/ k <= Size(k)
           T == {k \in 0 .. n : Is(k)}
<1>6. \A k \in 0 .. n : /\ Closing(h[k], candidates, dirty)
                        /\ IsFiniteSet(ToSet(h[k].selected)) /\ Size(k) \in Nat
  <2> TAKE k \in 0 .. n
  <2>1. h[k] \in V
    BY <1>4 DEF ReachingTo
  <2>2. ToSet(h[k].selected) \in SUBSET ToSet(candidates)
    BY <2>1 DEF Closing
  <2>3. IsFiniteSet(ToSet(h[k].selected))
    BY <1>5, <2>2, FS_Subset
  <2> QED
    BY <2>1, <2>3, FS_CardinalityType
<1>7. 0 \in T
  <2>1. 0 \in 0 .. n
    BY <1>1
  <2>2. Size(0) \in Nat
    BY <1>6, <2>1
  <2> QED
    BY <2>1, <2>2
<1>8. ASSUME NEW k \in 0 .. n - 1, k \in T
      PROVE  k + 1 \in T
  <2>1. k \in 0 .. n /\ k + 1 \in 1 .. n /\ k + 1 \in 0 .. n /\ (k + 1) - 1 = k
    BY <1>1
  <2>2. h[k + 1] = Pass(candidates, h[k])
    BY <1>4, <2>1 DEF ReachingTo
  <2>3. Closing(h[k], candidates, dirty)
    BY <1>6, <2>1
  <2> DEFINE A == ToSet(h[k].selected)
             B == ToSet(h[k + 1].selected)
  <2>4. /\ A \subseteq B
        /\ Swept(h[k], candidates) => h[k + 1] = h[k]
        /\ A = B => Swept(h[k], candidates)
    BY <2>2, <2>3, PassKeeps
  <2>5. IsFiniteSet(B) /\ Cardinality(A) = Size(k) /\ Cardinality(B) = Size(k + 1)
        /\ Size(k) \in Nat /\ Size(k + 1) \in Nat
    BY <1>6, <2>1
  <2>6. Is(k)
    BY <1>8
  <2> HIDE DEF A, B, Size
  <2>7. CASE Swept(h[k], candidates)
    BY <2>1, <2>4, <2>7
  <2>8. CASE ~Swept(h[k], candidates)
    <3>1. A # B /\ k <= Size(k)
      BY <2>4, <2>6, <2>8
    <3>2. Cardinality(A) <= Cardinality(B) /\ Cardinality(A) # Cardinality(B)
      BY <2>4, <2>5, <3>1, FS_Subset
    <3>3. k + 1 <= Size(k + 1)
      BY <2>1, <2>5, <3>1, <3>2
    <3> QED
      BY <2>1, <3>3
  <2> QED
    BY <2>7, <2>8
<1>9. n \in 0 .. n
  BY <1>1
<1>10. n \in T
  <2> HIDE DEF T
  <2> QED
    BY <1>1, <1>7, <1>8, <1>9, NumberInduction
<1>11. Closing(h[n], candidates, dirty)
  BY <1>6, <1>9
<1>12. Swept(h[n], candidates)
  <2>1. CASE n <= Size(n)
    <3>1. ToSet(h[n].selected) \in SUBSET ToSet(candidates)
      BY <1>11 DEF Closing
    <3>2. /\ Size(n) <= Cardinality(ToSet(candidates))
          /\ Size(n) = Cardinality(ToSet(candidates)) => ToSet(h[n].selected) = ToSet(candidates)
      BY <1>5, <3>1, FS_Subset
    <3>3. Cardinality(ToSet(candidates)) \in Nat /\ Size(n) \in Nat
      BY <1>5, <1>6, <1>9, FS_CardinalityType
    <3>4. Size(n) = Cardinality(ToSet(candidates))
      BY <1>1, <1>5, <2>1, <3>2, <3>3
    <3> QED
      BY <3>2, <3>4 DEF Swept
  <2> QED
    BY <1>10, <2>1
<1> QED
  BY <1>4, <1>11, <1>12 DEF ReachingTo

(***************************************************************************)
(* What the two compilers return.                                          *)
(***************************************************************************)
Asked == Consumers \cup {Call("checkMesh", s) : s \in Scopes}

LEMMA HintsAreAsked ==
    ASSUME NEW hints \in HintLists
    PROVE  hints \in Seq(Asked) /\ Distinct(hints)
<1>1. Hints \subseteq Asked
  BY HintsAssumption DEF Asked, Consumers
<1>2. CASE hints = <<>>
  BY <1>2, Nothing
<1>3. ASSUME NEW h \in Hints, hints = <<h>>
      PROVE  hints \in Seq(Asked) /\ Distinct(hints)
  BY <1>1, <1>3, Single
<1> QED
  BY <1>2, <1>3 DEF HintLists

LEMMA AskedCases ==
    \A i \in Asked : i \in Consumers <=> i.command # "checkMesh"
<1>1. \A i \in Consumers : i.command # "checkMesh"
  BY ConsumerCases
<1>2. \A s : Call("checkMesh", s).command = "checkMesh"
  BY DEF Call
<1> QED
  BY <1>1, <1>2 DEF Asked

LEMMA Retyped ==
    ASSUME NEW X, NEW Y, NEW s \in Seq(X), ToSet(s) \subseteq Y
    PROVE  s \in Seq(Y)
<1>1. s \in [1 .. Len(s) -> X] /\ Len(s) \in Nat /\ ToSet(s) = {s[k] : k \in 1 .. Len(s)}
  BY LenProperties, Elements
<1>2. s \in [1 .. Len(s) -> Y]
  BY <1>1
<1> QED
  BY <1>1, <1>2

LEMMA StandingIs ==
    ASSUME NEW seq \in Seq(Asked), NEW present
    PROVE  /\ Standing(seq, present) \in Seq(Consumers)
           /\ ToSet(Standing(seq, present)) =
                {i \in ToSet(seq) \cap Consumers : RequiredDict(i) \subseteq present}
           /\ Distinct(seq) => Distinct(Standing(seq, present))
<1> DEFINE S == {i \in ToSet(seq) : RequiredDict(i) \subseteq present /\ i.command # "checkMesh"}
           out == Select(seq, S)
<1>1. Standing(seq, present) = out
  BY DEF Standing
<1>2. S = {i \in ToSet(seq) \cap Consumers : RequiredDict(i) \subseteq present}
  BY AskedCases, Elements
<1> HIDE DEF S
<1>3. /\ out \in Seq(Asked) /\ ToSet(out) = ToSet(seq) \cap S
      /\ Distinct(seq) => Distinct(out)
  BY Selection
<1> HIDE DEF out
<1>4. ToSet(out) = S /\ S \subseteq Consumers
  BY <1>2, <1>3
<1>5. out \in Seq(Consumers)
  BY <1>3, <1>4, Retyped
<1> QED
  BY <1>1, <1>2, <1>3, <1>4, <1>5

LEMMA WithoutIs ==
    ASSUME NEW X, NEW seq \in Seq(X), NEW S
    PROVE  /\ Without(seq, S) \in Seq(X)
           /\ ToSet(Without(seq, S)) = ToSet(seq) \ S
           /\ Distinct(seq) => Distinct(Without(seq, S))
<1> DEFINE R == ToSet(seq) \ S
           out == Select(seq, R)
<1>1. Without(seq, S) = out
  BY DEF Without
<1>2. out \in Seq(X) /\ ToSet(out) = ToSet(seq) \cap R /\ (Distinct(seq) => Distinct(out))
  BY Selection
<1> HIDE DEF out
<1> QED
  BY <1>1, <1>2

\* Commands in an order to run them in, each once, with the dictionaries they need.
Compiled(calls, present) ==
    /\ calls \in Seq(Consumers)
    /\ Distinct(calls)
    /\ \A i \in ToSet(calls) : RequiredDict(i) \subseteq present
    /\ \A a, b \in DOMAIN calls : Signals(calls[a]) \cap Awaits(calls[b]) # {} => a < b

LEMMA OrderedCompiles ==
    ASSUME NEW calls \in Seq(Consumers), NEW present, Distinct(calls),
           \A i \in ToSet(calls) : RequiredDict(i) \subseteq present
    PROVE  Compiled(StableOrder(calls), present) /\ ToSet(StableOrder(calls)) = ToSet(calls)
<1> DEFINE out == StableOrder(calls)
<1>1. /\ out \in Seq(Consumers) /\ ToSet(out) = ToSet(calls) /\ (Distinct(calls) => Distinct(out))
      /\ \A a, b \in DOMAIN out : Signals(out[a]) \cap Awaits(out[b]) # {} => a < b
  BY Ordered
<1> HIDE DEF out
<1>2. Compiled(out, present)
  BY <1>1 DEF Compiled
<1> QED
  BY <1>1, <1>2 DEF out

LEMMA BuildCallsCompile ==
    ASSUME NEW bundle, NEW hints \in HintLists
    PROVE  /\ Compiled(BuildCalls(bundle, hints), bundle)
           /\ Inferable(bundle, Scopes) \subseteq ToSet(BuildCalls(bundle, hints))
<1> DEFINE rest == Without(AutoConsumers(bundle), ToSet(hints))
           all == hints \o rest
           calls == Standing(all, bundle)
<1>1. hints \in Seq(Asked) /\ Distinct(hints)
  BY HintsAreAsked
<1>2. /\ rest \in Seq(Asked) /\ Distinct(rest)
      /\ ToSet(rest) = Inferable(bundle, Scopes) \ ToSet(hints)
  <2> DEFINE A == AutoConsumers(bundle)
  <2>1. A \in Seq(Consumers) /\ Distinct(A) /\ ToSet(A) = Inferable(bundle, Scopes)
    BY AutoConsumersAre
  <2> HIDE DEF A
  <2>2. A \in Seq(Asked)
    <3>1. ToSet(A) \subseteq Asked
      BY <2>1 DEF Inferable, Asked
    <3> QED
      BY <2>1, <3>1, Retyped
  <2>3. /\ Without(A, ToSet(hints)) \in Seq(Asked)
        /\ ToSet(Without(A, ToSet(hints))) = ToSet(A) \ ToSet(hints)
        /\ Distinct(A) => Distinct(Without(A, ToSet(hints)))
    BY <2>2, WithoutIs
  <2> QED
    BY <2>1, <2>3 DEF A
<1> HIDE DEF rest
<1>3. /\ all \in Seq(Asked) /\ ToSet(all) = ToSet(hints) \cup ToSet(rest)
      /\ (ToSet(hints) \cap ToSet(rest) = {} => Distinct(all))
  BY <1>1, <1>2, Joined
<1>4. Distinct(all) /\ Inferable(bundle, Scopes) \subseteq ToSet(all)
  BY <1>2, <1>3
<1> HIDE DEF all
<1>5. /\ calls \in Seq(Consumers)
      /\ ToSet(calls) = {i \in ToSet(all) \cap Consumers : RequiredDict(i) \subseteq bundle}
      /\ Distinct(calls)
  BY <1>3, <1>4, StandingIs
<1>6. BuildCalls(bundle, hints) = StableOrder(calls)
  BY DEF BuildCalls, all, rest
<1> HIDE DEF calls
<1>7. \A i \in ToSet(calls) : RequiredDict(i) \subseteq bundle
  BY <1>5
<1>8. Compiled(StableOrder(calls), bundle) /\ ToSet(StableOrder(calls)) = ToSet(calls)
  BY <1>5, <1>7, OrderedCompiles
<1>9. Inferable(bundle, Scopes) \subseteq ToSet(calls)
  BY <1>4, <1>5 DEF Inferable
<1> QED
  BY <1>6, <1>8, <1>9

LEMMA DeltaCallsCompile ==
    ASSUME NEW present, NEW changed \in SUBSET Paths, NEW hints \in HintLists
    PROVE  /\ Compiled(DeltaCalls(present, changed, hints), present)
           /\ \A i \in Candidates(present) :
                 DeclaredInputs(i) \cap
                     (changed \cup Writes(ToSet(DeltaCalls(present, changed, hints)))) # {}
                   => i \in ToSet(DeltaCalls(present, changed, hints))
<1> DEFINE standing == Standing(hints, present)
           candidates == Without(DeltaConsumers(present), ToSet(standing))
           dirty == changed \cup UNION {DeclaredOutputs(standing[k]) : k \in DOMAIN standing}
           reached == Reached(candidates, dirty)
           more == reached.selected
           all == standing \o more
<1>1. /\ standing \in Seq(Consumers) /\ Distinct(standing)
      /\ \A i \in ToSet(standing) : RequiredDict(i) \subseteq present
  <2>1. hints \in Seq(Asked) /\ Distinct(hints)
    BY HintsAreAsked
  <2> QED
    BY <2>1, StandingIs
<1> HIDE DEF standing
<1>2. /\ candidates \in Seq(Consumers)
      /\ ToSet(candidates) = Candidates(present) \ ToSet(standing)
  <2> DEFINE D == DeltaConsumers(present)
  <2>1. D \in Seq(Consumers) /\ ToSet(D) = Candidates(present)
    BY DeltaConsumersAre
  <2> HIDE DEF D
  <2>2. /\ Without(D, ToSet(standing)) \in Seq(Consumers)
        /\ ToSet(Without(D, ToSet(standing))) = ToSet(D) \ ToSet(standing)
    BY <2>1, WithoutIs
  <2> QED
    BY <2>1, <2>2 DEF D
<1> HIDE DEF candidates
<1>3. dirty \in SUBSET Paths /\ dirty = changed \cup Writes(ToSet(standing))
  <2>1. /\ \A k \in DOMAIN standing : standing[k] \in Consumers
        /\ ToSet(standing) = {standing[k] : k \in DOMAIN standing}
    BY <1>1, Elements, ElementOfSeq
  <2>2. dirty = changed \cup Writes(ToSet(standing))
    BY <2>1 DEF Writes
  <2>3. \A k \in DOMAIN standing : DeclaredOutputs(standing[k]) \subseteq Paths
    BY <2>1, OutputsArePaths
  <2> QED
    BY <2>2, <2>3
<1> HIDE DEF dirty
<1>4. Closing(reached, candidates, dirty) /\ Swept(reached, candidates)
  BY <1>2, <1>3, ReachedCloses
<1> HIDE DEF reached
<1>5. /\ more \in Seq(Consumers) /\ Distinct(more)
      /\ ToSet(more) \subseteq ToSet(candidates)
      /\ reached.dirty = dirty \cup Writes(ToSet(more))
  BY <1>4 DEF Closing, Sweeps
<1>6. \A c \in ToSet(candidates) : DeclaredInputs(c) \cap reached.dirty # {} => c \in ToSet(more)
  BY <1>4 DEF Swept
<1> HIDE DEF more
<1>7. /\ all \in Seq(Consumers) /\ ToSet(all) = ToSet(standing) \cup ToSet(more)
      /\ (ToSet(standing) \cap ToSet(more) = {} => Distinct(all))
  BY <1>1, <1>5, Joined
<1>8. Distinct(all)
  BY <1>2, <1>5, <1>7
<1> HIDE DEF all
<1>9. \A i \in ToSet(all) : RequiredDict(i) \subseteq present
  BY <1>1, <1>2, <1>5, <1>7 DEF Candidates
<1>10. reached.dirty = changed \cup Writes(ToSet(all))
  <2>1. Writes(ToSet(all)) = Writes(ToSet(standing)) \cup Writes(ToSet(more))
    BY <1>7 DEF Writes
  <2> QED
    BY <1>3, <1>5, <2>1
<1>11. DeltaCalls(present, changed, hints) = StableOrder(all)
  BY DEF DeltaCalls, DeltaConsumersOf, Reach, Reached, all, more, reached, dirty, candidates, standing
<1>12. Compiled(StableOrder(all), present) /\ ToSet(StableOrder(all)) = ToSet(all)
  BY <1>7, <1>8, <1>9, OrderedCompiles
<1>13. ASSUME NEW i \in Candidates(present),
              DeclaredInputs(i) \cap (changed \cup Writes(ToSet(all))) # {}
       PROVE  i \in ToSet(all)
  BY <1>2, <1>6, <1>7, <1>10, <1>13
<1> QED
  BY <1>11, <1>12, <1>13

(***************************************************************************)
(* The members of a delta.  A mesh that can be checked was made by a       *)
(* blockMesh on record, whose dictionary is therefore in its digest; and   *)
(* evidence that passed speaks of the mesh and the dictionary its manifest *)
(* holds, so that a manifest that is the digest of now makes it current.   *)
(***************************************************************************)
Sound(m) == m \notin {Absent, Broken}

OperationsHold ==
    /\ \E S : operations \in Seq(S)
    /\ \A n \in DOMAIN operations : n \in operations[n].lineage

MadeBy(n, s) ==
    /\ n \in DOMAIN operations
    /\ s \in operations[n].regions
    /\ BlockDict(s) \in operations[n].inputs

MeshesHold ==
    /\ DOMAIN mesh = Scopes
    /\ \A s \in Scopes : Sound(mesh[s]) => \E n \in DOMAIN operations : MadeBy(n, s)

Passed(s) == evidence[s] # Absent /\ evidence[s].passed

EvidenceHolds ==
    /\ DOMAIN evidence = Scopes /\ DOMAIN manifest = Scopes
    /\ \A s \in Scopes : Passed(s) =>
          /\ Sound(evidence[s].of)
          /\ evidence[s].of = manifest[s].artifacts[PolyMesh(s)]
          /\ evidence[s].dict = manifest[s].artifacts[BlockDict(s)]

MeshInv == OperationsHold /\ MeshesHold /\ EvidenceHolds

LEMMA MeshInvInit == MeshInit => MeshInv
<1> SUFFICES ASSUME MeshInit PROVE MeshInv
  OBVIOUS
<1>1. OperationsHold
  <2>1. operations \in Seq({})
    BY DEF MeshInit
  <2> QED
    BY <2>1 DEF MeshInit, OperationsHold
<1>2. MeshesHold
  BY DEF MeshInit, MeshesHold, Sound
<1>3. EvidenceHolds
  BY DEF MeshInit, EvidenceHolds, Passed
<1> QED
  BY <1>1, <1>2, <1>3 DEF MeshInv

\* The digest of a sound mesh holds the mesh itself and its dictionary.
LEMMA DigestHolds ==
    ASSUME MeshInv, NEW s \in Scopes, Sound(mesh[s])
    PROVE  /\ Digest(s).artifacts[PolyMesh(s)] = mesh[s]
           /\ Digest(s).artifacts[BlockDict(s)] = content[BlockDict(s)]
<1>1. PICK n \in DOMAIN operations : MadeBy(n, s)
  BY DEF MeshInv, MeshesHold
<1>2. n \in Ancestry(operations, s)
  BY <1>1 DEF Ancestry, MadeBy, MeshInv, OperationsHold
<1>3. PolyMesh(s) \in Dependencies(operations, s)
  BY DEF Dependencies
<1>4. BlockDict(s) \in Dependencies(operations, s)
  BY <1>1, <1>2 DEF Dependencies, MadeBy
<1>5. Artifact(PolyMesh(s)) = mesh[s]
  BY DEF Artifact, PolyMesh
<1>6. Artifact(BlockDict(s)) = content[BlockDict(s)]
  BY DEF Artifact, BlockDict
<1> QED
  BY <1>3, <1>4, <1>5, <1>6 DEF Digest

LEMMA InvalidateKeeps ==
    ASSUME EvidenceHolds, InvalidateMesh
    PROVE  EvidenceHolds'
<1>1. PICK stale \in SUBSET Scopes :
         /\ evidence' = [s \in Scopes |-> IF s \in stale THEN Absent ELSE evidence[s]]
         /\ manifest' = [s \in Scopes |-> IF s \in stale THEN Absent ELSE manifest[s]]
  BY DEF InvalidateMesh
<1>2. ASSUME NEW s \in Scopes, Passed(s)'
      PROVE  UNCHANGED <<evidence[s], manifest[s]>>
  BY <1>1, <1>2 DEF Passed
<1> QED
  BY <1>1, <1>2 DEF EvidenceHolds, Passed

\* A command leaves a sound mesh only where a blockMesh has run, this or another.
LEMMA ConsumerKeeps ==
    ASSUME MeshInv, RunConsumer
    PROVE  MeshInv'
<1> DEFINE i == Head(plan)
           o == Operation(operations, i)
<1>1. operations' = Append(operations, o) /\ UNCHANGED content
  BY DEF RunConsumer
<1>2. Len(operations) + 1 \in o.lineage
  BY DEF Operation
<1>3. o.regions = Targets(i) /\ o.inputs = Inputs(i)
  BY DEF Operation
<1>4. PICK S : operations \in Seq(S)
  BY DEF MeshInv, OperationsHold
<1> HIDE DEF o
<1>5. /\ operations' \in Seq(S \cup {o})
      /\ DOMAIN operations' = DOMAIN operations \cup {Len(operations) + 1}
      /\ \A n \in DOMAIN operations : operations'[n] = operations[n]
      /\ operations'[Len(operations) + 1] = o
  <2>1. operations \in Seq(S \cup {o}) /\ Len(operations) \in Nat
    BY <1>4
  <2>2. Append(operations, o) \in Seq(S \cup {o})
    BY <2>1
  <2> QED
    BY <1>1, <2>1, <2>2
<1>6. OperationsHold'
  BY <1>2, <1>5 DEF OperationsHold, MeshInv
<1>7. MeshesHold'
  <2>1. /\ DOMAIN mesh' = Scopes
        /\ \A s \in Scopes : \/ mesh'[s] = mesh[s]
                             \/ mesh'[s] = Broken
                             \/ i.region = s /\ s # Absent /\ (Sound(mesh[s]) \/ i.command = "blockMesh")
    <3>1. CASE Succeeds(i)
      <4>1. CASE i.region = Absent
        BY <3>1, <4>1 DEF Succeeds, MeshInv, MeshesHold
      <4>2. CASE i.region # Absent
        <5>1. mesh' = [mesh EXCEPT ![i.region] = Made(i, i.region)]
          BY <3>1, <4>2 DEF Succeeds
        <5>2. i.command = "blockMesh" \/ Sound(mesh[i.region])
          BY <3>1, <4>2 DEF Succeeds, Sound
        <5> QED
          BY <4>2, <5>1, <5>2 DEF MeshInv, MeshesHold
      <4> QED
        BY <4>1, <4>2
    <3>2. CASE Fails(i)
      BY <3>2 DEF Fails, MeshInv, MeshesHold
    <3> QED
      BY <3>1, <3>2 DEF RunConsumer
  <2>2. ASSUME NEW s \in Scopes, Sound(mesh'[s])
        PROVE  \E n \in DOMAIN operations' : MadeBy(n, s)'
    <3>1. CASE Sound(mesh[s])
      <4>1. PICK n \in DOMAIN operations : MadeBy(n, s)
        BY <3>1 DEF MeshInv, MeshesHold
      <4> QED
        BY <1>5, <4>1 DEF MadeBy
    <3>2. CASE ~Sound(mesh[s])
      <4>1. i.region = s /\ s # Absent /\ i.command = "blockMesh"
        BY <2>1, <2>2, <3>2 DEF Sound
      <4>2. s \in Targets(i) /\ BlockDict(s) \in Inputs(i)
        BY <4>1 DEF Targets, Inputs, DeclaredInputs, RequiredDict
      <4> QED
        BY <1>3, <1>5, <4>2 DEF MadeBy
    <3> QED
      BY <3>1, <3>2
  <2> QED
    BY <2>1, <2>2 DEF MeshesHold
<1>8. EvidenceHolds'
  BY InvalidateKeeps DEF RunConsumer, MeshInv
<1> QED
  BY <1>6, <1>7, <1>8 DEF MeshInv

LEMMA CheckMeshKeeps ==
    ASSUME MeshInv, CheckMesh
    PROVE  MeshInv'
<1> DEFINE t == Head(plan).region
<1>1. UNCHANGED <<content, edges, mesh, operations>>
  BY DEF CheckMesh, disk
<1>2. OperationsHold' /\ MeshesHold'
  BY <1>1 DEF MeshInv, OperationsHold, MeshesHold, MadeBy
<1>3. CASE UNCHANGED <<evidence, manifest>>
  BY <1>2, <1>3 DEF MeshInv, EvidenceHolds, Passed
<1>4. ASSUME NEW passed \in BOOLEAN,
             passed => Sound(mesh[t]),
             evidence' = [evidence EXCEPT ![t] =
                             [passed |-> passed, of |-> mesh[t], dict |-> content[BlockDict(t)]]],
             manifest' = [manifest EXCEPT ![t] = IF passed THEN Digest(t) ELSE Absent]
      PROVE  EvidenceHolds'
  <2>1. DOMAIN evidence' = Scopes /\ DOMAIN manifest' = Scopes
    BY <1>4 DEF MeshInv, EvidenceHolds
  <2>2. ASSUME NEW s \in Scopes, Passed(s)'
        PROVE  /\ Sound(evidence'[s].of)
               /\ evidence'[s].of = manifest'[s].artifacts[PolyMesh(s)]
               /\ evidence'[s].dict = manifest'[s].artifacts[BlockDict(s)]
    <3>1. CASE s = t
      <4>1. /\ evidence'[s] = [passed |-> passed, of |-> mesh[s], dict |-> content[BlockDict(s)]]
            /\ manifest'[s] = IF passed THEN Digest(s) ELSE Absent
        BY <1>4, <3>1 DEF MeshInv, EvidenceHolds
      <4>2. passed /\ Sound(mesh[s])
        BY <1>4, <2>2, <3>1, <4>1 DEF Passed
      <4> QED
        BY <4>1, <4>2, DigestHolds
    <3>2. CASE s # t
      <4>1. UNCHANGED <<evidence[s], manifest[s]>>
        BY <1>4, <3>2 DEF MeshInv, EvidenceHolds
      <4> QED
        BY <2>2, <4>1 DEF MeshInv, EvidenceHolds, Passed
    <3> QED
      BY <3>1, <3>2
  <2> QED
    BY <2>1, <2>2 DEF EvidenceHolds, Passed
<1>5. EvidenceHolds'
  BY <1>3, <1>4 DEF CheckMesh, MeshInv, EvidenceHolds, Passed, Sound
<1> QED
  BY <1>2, <1>5 DEF MeshInv

LEMMA MeshInvStep == MeshInv /\ [MeshNext]_mvars => MeshInv'
<1> SUFFICES ASSUME MeshInv, [MeshNext]_mvars PROVE MeshInv'
  OBVIOUS
<1>1. ASSUME UNCHANGED <<mesh, operations>>
      PROVE  OperationsHold' /\ MeshesHold'
  BY <1>1 DEF MeshInv, OperationsHold, MeshesHold, MadeBy
<1>2. ASSUME UNCHANGED <<evidence, manifest>>
      PROVE  EvidenceHolds'
  BY <1>2 DEF MeshInv, EvidenceHolds, Passed
<1>3. ASSUME NEW b, NEW h, Author(b, h)
      PROVE  MeshInv'
  BY <1>1, <1>2, <1>3 DEF Author, MeshInv
<1>4. ASSUME NEW r, NEW d, NEW h, AcceptDelta(r, d, h)
      PROVE  MeshInv'
  BY <1>1, <1>2, <1>4 DEF AcceptDelta, MeshInv
<1>5. CASE DeliverWrites
  BY <1>1, <1>5, InvalidateKeeps DEF DeliverWrites, MeshInv, disk
<1>6. CASE RunConsumer
  BY <1>6, ConsumerKeeps
<1>7. CASE CheckMesh
  BY <1>7, CheckMeshKeeps
<1>8. CASE AbandonPlan
  BY <1>1, <1>2, <1>8 DEF AbandonPlan, MeshInv, disk
<1>9. CASE UNCHANGED mvars
  BY <1>1, <1>2, <1>9 DEF mvars, MeshInv
<1> QED
  BY <1>3, <1>4, <1>5, <1>6, <1>7, <1>8, <1>9 DEF MeshNext

\* Whatever failed or was abandoned, a case is finished only with evidence of
\* the meshes on disk and the dictionaries there now, for every set of scopes,
\* commands a model may ask for, edits and failures
\* (contracts/execution_scopes.py, current_mesh_evidence_failures).
THEOREM EvidenceIsCurrentCorrect == MeshSpec => []EvidenceIsCurrent
<1>1. MeshInv => EvidenceIsCurrent
  <2> SUFFICES ASSUME MeshInv, Finishable, NEW s \in Scopes
               PROVE  evidence[s].of = mesh[s] /\ evidence[s].dict = content[BlockDict(s)]
    BY DEF EvidenceIsCurrent
  <2>1. Passed(s) /\ manifest[s] = Digest(s)
    BY DEF Finishable, StaleScopes, Passed
  <2>2. /\ Sound(evidence[s].of)
        /\ evidence[s].of = manifest[s].artifacts[PolyMesh(s)]
        /\ evidence[s].dict = manifest[s].artifacts[BlockDict(s)]
    BY <2>1 DEF MeshInv, EvidenceHolds
  <2>3. Digest(s).artifacts[PolyMesh(s)] = mesh[s]
    <3>1. PolyMesh(s) \in Dependencies(operations, s)
      BY DEF Dependencies
    <3>2. Artifact(PolyMesh(s)) = mesh[s]
      BY DEF Artifact, PolyMesh
    <3> QED
      BY <3>1, <3>2 DEF Digest
  <2> QED
    BY <2>1, <2>2, <2>3, DigestHolds
<1> QED
  BY <1>1, MeshInvInit, MeshInvStep, PTL DEF MeshSpec

(***************************************************************************)
(* The plan.                                                               *)
(***************************************************************************)
Members == {Write} \cup Asked

\* A plan whose commands are each there once, are owed, have their dictionaries,
\* act on affected scopes only, and end with the snapping of what they feed.
Fits(q, due, scopes, present) ==
    /\ q \in Seq(Members)
    /\ \A j, k \in 1 .. Len(q) : q[j] \in Consumers /\ q[j] = q[k] => j = k
    /\ \A k \in 1 .. Len(q) : q[k] \in Consumers => q[k] \in due /\ RequiredDict(q[k]) \subseteq present
    /\ \A k \in 1 .. Len(q) : q[k] # Write => Targets(q[k]) \subseteq scopes
    /\ \A k \in 1 .. Len(q), s \in Scopes :
          /\ q[k] \in Consumers
          /\ SnapDict(s) \in present
          /\ Signals(q[k]) \cap Awaits(Call("snappyHexMesh", s)) # {}
          => \E j \in 1 .. Len(q) : k < j /\ q[j] = Call("snappyHexMesh", s)

LEMMA NothingFits == \A due, scopes, present : Fits(<<>>, due, scopes, present)
<1>1. <<>> \in Seq(Members) /\ Len(<<>>) = 0 /\ 1 .. 0 = {}
  OBVIOUS
<1> QED
  BY <1>1 DEF Fits

LEMMA FitsMoreOwed ==
    ASSUME NEW q, NEW due, NEW more, NEW scopes, NEW present,
           Fits(q, due, scopes, present), due \subseteq more
    PROVE  Fits(q, more, scopes, present)
BY DEF Fits

LEMMA TailFits ==
    ASSUME NEW q, NEW due, NEW scopes, NEW present, Fits(q, due, scopes, present), q # <<>>
    PROVE  Fits(Tail(q), due \ {Head(q)}, scopes, present)
<1> DEFINE t == Tail(q)
           n == Len(t)
<1>1. /\ t \in Seq(Members) /\ Len(t) = Len(q) - 1 /\ Len(q) \in Nat \ {0}
      /\ \A k \in 1 .. Len(t) : t[k] = q[k + 1]
      /\ Head(q) = q[1]
  <2>1. q \in Seq(Members)
    BY DEF Fits
  <2> QED
    BY <2>1, HeadTailProperties, EmptySeq
<1> HIDE DEF t
<1>2. /\ n \in Nat /\ Len(q) = n + 1
      /\ \A k \in 1 .. n : k + 1 \in 1 .. Len(q) /\ t[k] = q[k + 1]
      /\ 1 \in 1 .. Len(q)
  BY <1>1
<1> HIDE DEF n
<1>3. \A j, k \in 1 .. n : t[j] \in Consumers /\ t[j] = t[k] => j = k
  <2> SUFFICES ASSUME NEW j \in 1 .. n, NEW k \in 1 .. n, t[j] \in Consumers, t[j] = t[k]
               PROVE  j = k
    OBVIOUS
  <2>1. j + 1 = k + 1
    BY <1>2 DEF Fits
  <2> QED
    BY <1>2, <2>1
<1>4. \A k \in 1 .. n : t[k] \in Consumers =>
          t[k] \in due \ {Head(q)} /\ RequiredDict(t[k]) \subseteq present
  <2> SUFFICES ASSUME NEW k \in 1 .. n, t[k] \in Consumers
               PROVE  t[k] \in due \ {Head(q)} /\ RequiredDict(t[k]) \subseteq present
    OBVIOUS
  <2>1. t[k] # q[1]
    <3>1. t[k] = q[k + 1] /\ k + 1 \in 1 .. Len(q) /\ k + 1 # 1 /\ 1 \in 1 .. Len(q)
      BY <1>2
    <3> QED
      BY <3>1 DEF Fits
  <2> QED
    BY <1>1, <1>2, <2>1 DEF Fits
<1>5. \A k \in 1 .. n : t[k] # Write => Targets(t[k]) \subseteq scopes
  BY <1>2 DEF Fits
<1>6. ASSUME NEW k \in 1 .. n, NEW s \in Scopes,
             t[k] \in Consumers, SnapDict(s) \in present,
             Signals(t[k]) \cap Awaits(Call("snappyHexMesh", s)) # {}
      PROVE  \E j \in 1 .. n : k < j /\ t[j] = Call("snappyHexMesh", s)
  <2>1. k + 1 \in 1 .. Len(q) /\ t[k] = q[k + 1]
    BY <1>2
  <2>2. PICK j \in 1 .. Len(q) : k + 1 < j /\ q[j] = Call("snappyHexMesh", s)
    BY <1>6, <2>1 DEF Fits
  <2>3. j - 1 \in 1 .. n /\ k < j - 1 /\ (j - 1) + 1 = j
    BY <1>2, <2>2
  <2>4. t[j - 1] = Call("snappyHexMesh", s)
    BY <1>2, <2>2, <2>3
  <2> QED
    BY <2>3, <2>4
<1>7. Fits(t, due \ {Head(q)}, scopes, present)
  BY <1>1, <1>3, <1>4, <1>5, <1>6 DEF Fits, n
<1> QED
  BY <1>7 DEF t

\* What waits after the head is still owed when the head is done.
LEMMA HeadFeeds ==
    ASSUME NEW q, NEW due, NEW scopes, NEW present, Fits(q, due, scopes, present), q # <<>>,
           Head(q) \in Consumers, NEW s \in Scopes, SnapDict(s) \in present,
           Signals(Head(q)) \cap Awaits(Call("snappyHexMesh", s)) # {}
    PROVE  Call("snappyHexMesh", s) \in due \ {Head(q)}
<1>1. q \in Seq(Members) /\ Head(q) = q[1] /\ 1 \in 1 .. Len(q)
  <2>1. q \in Seq(Members)
    BY DEF Fits
  <2>2. Len(q) \in Nat \ {0}
    BY <2>1, EmptySeq
  <2> QED
    BY <2>1, <2>2
<1>2. PICK j \in 1 .. Len(q) : 1 < j /\ q[j] = Call("snappyHexMesh", s)
  BY <1>1 DEF Fits
<1>3. Call("snappyHexMesh", s) \in Consumers
  BY DEF Consumers
<1>4. q[j] \in due /\ q[j] # q[1]
  BY <1>1, <1>2, <1>3 DEF Fits
<1> QED
  BY <1>1, <1>2, <1>4

LEMMA ChecksAre ==
    ASSUME NEW S \in SUBSET Scopes
    PROVE  /\ Checks(S) \in Seq(Asked)
           /\ \A k \in 1 .. Len(Checks(S)) :
                 Checks(S)[k] \notin Consumers /\ Targets(Checks(S)[k]) \subseteq S
<1> DEFINE checked == Select(ScopeOrder, S)
           c == Checks(S)
<1>1. checked \in Seq(Scopes) /\ ToSet(checked) = ToSet(ScopeOrder) \cap S
  BY ScopeOrderIs, Selection
<1>2. c = [k \in DOMAIN checked |-> Call("checkMesh", checked[k])]
  BY DEF Checks
<1> HIDE DEF checked, c
<1>3. /\ DOMAIN checked = 1 .. Len(checked) /\ Len(checked) \in Nat
      /\ ToSet(checked) = {checked[k] : k \in 1 .. Len(checked)}
  BY <1>1, Elements
<1>4. \A k \in 1 .. Len(checked) : checked[k] \in Scopes /\ checked[k] \in S
  BY <1>1, <1>3
<1>5. \A s \in Scopes : Call("checkMesh", s) \in Asked
  BY DEF Asked
<1>6. c \in [1 .. Len(checked) -> Asked]
  BY <1>2, <1>3, <1>4, <1>5
<1>7. c \in Seq(Asked)
  BY <1>3, <1>6
<1>8. Len(c) = Len(checked)
  BY <1>3, <1>6, <1>7, LenProperties
<1>9. \A s \in Scopes : /\ Call("checkMesh", s) \notin Consumers
                        /\ Targets(Call("checkMesh", s)) = {s}
  <2>1. \A s \in Scopes : s # Absent
    BY MeshAssumption
  <2>2. \A s : Call("checkMesh", s).command = "checkMesh" /\ Call("checkMesh", s).region = s
    BY DEF Call
  <2> QED
    BY <1>5, <2>1, <2>2, AskedCases DEF Targets
<1>10. ASSUME NEW k \in 1 .. Len(c)
       PROVE  c[k] \notin Consumers /\ Targets(c[k]) \subseteq S
  <2>1. c[k] = Call("checkMesh", checked[k])
    BY <1>2, <1>3, <1>8
  <2> QED
    BY <1>4, <1>8, <1>9, <2>1
<1> QED
  BY <1>7, <1>10 DEF c

LEMMA FreshFits ==
    ASSUME NEW calls, NEW due, NEW scopes \in SUBSET Scopes, NEW present,
           Compiled(calls, present), ToSet(calls) \subseteq due,
           \A i \in ToSet(calls) : Targets(i) \subseteq scopes,
           \A s \in Scopes, i \in ToSet(calls) :
               /\ SnapDict(s) \in present
               /\ Signals(i) \cap Awaits(Call("snappyHexMesh", s)) # {}
               => Call("snappyHexMesh", s) \in ToSet(calls)
    PROVE  Fits(<<Write>> \o calls \o Checks(scopes), due, scopes, present)
<1> DEFINE n == Len(calls)
           w == <<Write>>
           c == Checks(scopes)
           m == Len(c)
           p == w \o calls
           q == p \o c
<1>1. /\ calls \in Seq(Consumers) /\ Distinct(calls)
      /\ \A i \in ToSet(calls) : RequiredDict(i) \subseteq present
      /\ \A a, b \in DOMAIN calls : Signals(calls[a]) \cap Awaits(calls[b]) # {} => a < b
  BY DEF Compiled
<1>2. /\ n \in Nat /\ DOMAIN calls = 1 .. n /\ n = Len(calls)
      /\ ToSet(calls) = {calls[k] : k \in 1 .. n}
      /\ \A k \in 1 .. n : calls[k] \in Consumers
  BY <1>1, Elements, ElementOfSeq
<1>3. calls \in Seq(Members)
  <2>1. ToSet(calls) \subseteq Members
    BY <1>2 DEF Members, Asked
  <2> QED
    BY <1>1, <2>1, Retyped
<1>4. /\ c \in Seq(Asked) /\ m \in Nat /\ m = Len(c)
      /\ \A k \in 1 .. m : c[k] \notin Consumers /\ Targets(c[k]) \subseteq scopes
  BY ChecksAre, LenProperties
<1> HIDE DEF n, c, m
<1>5. c \in Seq(Members)
  <2>1. ToSet(c) \subseteq Members
    BY <1>4, Elements DEF Members
  <2> QED
    BY <1>4, <2>1, Retyped
<1>6. /\ w \in Seq(Members) /\ Len(w) = 1 /\ w[1] = Write
  <2>1. Write \in Members
    BY DEF Members
  <2> QED
    BY <2>1, Single
<1> HIDE DEF w
<1>7. /\ p \in Seq(Members) /\ Len(p) = 1 + n
      /\ p[1] = Write /\ \A k \in 1 .. n : p[1 + k] = calls[k]
  <2>1. /\ p \in Seq(Members) /\ Len(p) = Len(w) + Len(calls)
        /\ \A k \in 1 .. Len(w) : p[k] = w[k]
        /\ \A k \in 1 .. Len(calls) : p[Len(w) + k] = calls[k]
    BY <1>3, <1>6, Joined
  <2>2. 1 \in 1 .. Len(w)
    BY <1>6
  <2> QED
    BY <1>2, <1>6, <2>1, <2>2
<1> HIDE DEF p
<1>8. /\ q \in Seq(Members) /\ Len(q) = (1 + n) + m
      /\ q[1] = Write
      /\ \A k \in 1 .. n : q[1 + k] = calls[k]
      /\ \A k \in 1 .. m : q[(1 + n) + k] = c[k]
  <2>1. /\ q \in Seq(Members) /\ Len(q) = Len(p) + Len(c)
        /\ \A k \in 1 .. Len(p) : q[k] = p[k]
        /\ \A k \in 1 .. Len(c) : q[Len(p) + k] = c[k]
    <3>1. p \in Seq(Members) /\ c \in Seq(Members)
      BY <1>5, <1>7
    <3> QED
      BY <3>1, Joined
  <2>2. 1 \in 1 .. Len(p) /\ \A k \in 1 .. n : 1 + k \in 1 .. Len(p)
    BY <1>2, <1>7
  <2>3. q[1] = Write /\ \A k \in 1 .. n : q[1 + k] = calls[k]
    BY <1>7, <2>1, <2>2
  <2>4. Len(q) = (1 + n) + m /\ \A k \in 1 .. m : q[(1 + n) + k] = c[k]
    BY <1>4, <1>7, <2>1
  <2> QED
    BY <2>1, <2>3, <2>4
<1> HIDE DEF q
<1>9. Write \notin Consumers
  BY ConsumerCases DEF Write
<1>10. ASSUME NEW k \in 1 .. Len(q)
       PROVE  \/ q[k] = Write
              \/ \E j \in 1 .. n : k = 1 + j /\ q[k] = calls[j]
              \/ q[k] \notin Consumers /\ Targets(q[k]) \subseteq scopes
  <2>1. CASE k = 1
    BY <1>8, <2>1
  <2>2. CASE k \in 2 .. 1 + n
    <3>1. k - 1 \in 1 .. n /\ k = 1 + (k - 1)
      BY <1>2, <2>2
    <3>2. q[k] = calls[k - 1]
      BY <1>8, <3>1
    <3> QED
      BY <3>1, <3>2
  <2>3. CASE k > 1 + n
    <3> DEFINE j == k - (1 + n)
    <3>1. j \in 1 .. m /\ k = (1 + n) + j
      BY <1>2, <1>4, <1>8, <2>3
    <3> HIDE DEF j
    <3>2. q[k] = c[j]
      BY <1>8, <3>1
    <3> QED
      BY <1>4, <3>1, <3>2
  <2>4. k = 1 \/ k \in 2 .. 1 + n \/ k > 1 + n
    BY <1>2
  <2> QED
    BY <2>1, <2>2, <2>3, <2>4
<1>11. ASSUME NEW k \in 1 .. Len(q), q[k] \in Consumers
       PROVE  \E j \in 1 .. n : k = 1 + j /\ q[k] = calls[j]
  BY <1>9, <1>10, <1>11
<1>12. ASSUME NEW j \in 1 .. Len(q), NEW k \in 1 .. Len(q), q[j] \in Consumers, q[j] = q[k]
       PROVE  j = k
  <2>1. PICK a \in 1 .. n : j = 1 + a /\ q[j] = calls[a]
    BY <1>11, <1>12
  <2>2. PICK b \in 1 .. n : k = 1 + b /\ q[k] = calls[b]
    BY <1>11, <1>12
  <2>3. a = b
    BY <1>1, <1>2, <1>12, <2>1, <2>2 DEF Distinct
  <2> QED
    BY <2>1, <2>2, <2>3
<1>13. ASSUME NEW k \in 1 .. Len(q), q[k] \in Consumers
       PROVE  q[k] \in due /\ RequiredDict(q[k]) \subseteq present
  BY <1>1, <1>2, <1>11, <1>13
<1>14. ASSUME NEW k \in 1 .. Len(q), q[k] # Write
       PROVE  Targets(q[k]) \subseteq scopes
  BY <1>2, <1>10, <1>14
<1>15. ASSUME NEW k \in 1 .. Len(q), NEW s \in Scopes, q[k] \in Consumers, SnapDict(s) \in present,
              Signals(q[k]) \cap Awaits(Call("snappyHexMesh", s)) # {}
       PROVE  \E j \in 1 .. Len(q) : k < j /\ q[j] = Call("snappyHexMesh", s)
  <2>1. PICK a \in 1 .. n : k = 1 + a /\ q[k] = calls[a]
    BY <1>11, <1>15
  <2>2. Call("snappyHexMesh", s) \in ToSet(calls)
    BY <1>2, <1>15, <2>1
  <2>3. PICK b \in 1 .. n : calls[b] = Call("snappyHexMesh", s)
    BY <1>2, <2>2
  <2>4. a < b
    BY <1>1, <1>2, <1>15, <2>1, <2>3
  <2>5. 1 + b \in 1 .. Len(q) /\ k < 1 + b
    BY <1>2, <1>4, <1>8, <2>1, <2>4
  <2> QED
    BY <1>8, <2>3, <2>5
<1>16. Fits(q, due, scopes, present)
  BY <1>8, <1>12, <1>13, <1>14, <1>15 DEF Fits
<1>17. q = <<Write>> \o calls \o Checks(scopes)
  BY DEF q, p, w, c
<1> QED
  BY <1>16, <1>17

(***************************************************************************)
(* The invariants the plan, the registry, the meshes and the edges keep.   *)
(***************************************************************************)
PlanHolds == Fits(plan, owed, affected, Present) /\ affected \subseteq Scopes

\* An operation writes the shared surface for every scope, a mesh for its own.
Registered(o, known) ==
    /\ o.lineage \subseteq known
    /\ o.inputs \subseteq Paths
    /\ o.outputs \subseteq {TriSurface} \cup {PolyMesh(s) : s \in Scopes}
    /\ o.regions \subseteq Scopes
    /\ TriSurface \in o.outputs => o.regions = Scopes
    /\ \A s \in Scopes : PolyMesh(s) \in o.outputs => s \in o.regions

Declared(ops, N) == \A m \in N : ops[m].inputs # Paths

TouchesOnly(ops, N, s) ==
    \A m \in N, r \in Scopes : PolyMesh(r) \in ops[m].inputs \cup ops[m].outputs => r = s

\* What an operation on a scope comes from touches no other scope's mesh, unless
\* a command that declares no reads is part of it.
RegistryHolds ==
    \A n \in DOMAIN operations :
        /\ Registered(operations[n], DOMAIN operations)
        /\ \A s \in operations[n].regions :
              Declared(operations, operations[n].lineage) =>
                  TouchesOnly(operations, operations[n].lineage, s)

Reuse == RegistryHolds /\ PlanHolds /\ before \subseteq Scopes /\ ReusedStaysCurrent

\* Where the mesh does not follow a dictionary, the command that reads it is owed.
BlockFollows(s) ==
    BlockDict(s) \in Present =>
        \/ Call("blockMesh", s) \in owed
        \/ ~Sound(mesh[s])
        \/ mesh[s].block = content[BlockDict(s)]

SnapFollows(s) ==
    SnapDict(s) \in Present =>
        \/ Call("snappyHexMesh", s) \in owed
        \/ ~Sound(mesh[s])
        \/ mesh[s].snap = <<content[SnapDict(s)], content[TriSurface], edges>>

EdgesFollow ==
    edges # Absent /\ FeatureDict \in Present =>
        \/ Call("surfaceFeatures", Absent) \in owed
        \/ edges = <<content[FeatureDict], content[TriSurface]>>

Follow ==
    /\ \A s \in Scopes : /\ Sound(mesh[s]) => DOMAIN mesh[s] = {"block", "snap", "touched"}
                         /\ BlockFollows(s)
                         /\ SnapFollows(s)
    /\ EdgesFollow
    /\ deltas \in Nat
    /\ deltas = 0 /\ Present = {} => edges = Absent

FollowInv == MeshInv /\ PlanHolds /\ Follow

-----------------------------------------------------------------------------
(***************************************************************************)
(* Reuse.  What a scope's operations read is left alone by every plan that *)
(* does not affect the scope.                                              *)
(***************************************************************************)

LEMMA PathKinds ==
    /\ \A s : PolyMesh(s).kind = "polyMesh" /\ PolyMesh(s).of = s
    /\ TriSurface.kind = "triSurface"
    /\ \A f \in Files : f.kind # "polyMesh"
    /\ \A p \in Paths : p \in Files \/ \E s \in Scopes : p = PolyMesh(s)
    /\ TriSurface \in Files
    /\ \A s \in Scopes : BlockDict(s) \in Files /\ SnapDict(s) \in Files
    /\ FeatureDict \in Files
<1>1. /\ \A s : PolyMesh(s).kind = "polyMesh" /\ PolyMesh(s).of = s
      /\ TriSurface.kind = "triSurface" /\ FeatureDict.kind = "surfaceFeaturesDict"
      /\ Properties.kind = "physicalProperties"
      /\ \A s : BlockDict(s).kind = "blockMeshDict" /\ SnapDict(s).kind = "snappyHexMeshDict"
  BY DEF PolyMesh, TriSurface, BlockDict, SnapDict, FeatureDict, Properties
<1>2. \A f \in Files : f.kind # "polyMesh"
  BY <1>1 DEF Files
<1>3. /\ \A p \in Paths : p \in Files \/ \E s \in Scopes : p = PolyMesh(s)
      /\ TriSurface \in Files /\ FeatureDict \in Files
      /\ \A s \in Scopes : BlockDict(s) \in Files /\ SnapDict(s) \in Files
  BY DEF Paths, Files
<1> QED
  BY <1>1, <1>2, <1>3

LEMMA PresentIs ==
    ASSUME NEW f \in Files
    PROVE  f \in Present <=> content[f] # Absent
BY DEF Present

(***************************************************************************)
(* The plan is kept.                                                       *)
(***************************************************************************)
LEMMA FeedsSnap ==
    ASSUME NEW i \in Consumers, NEW s \in Scopes,
           Signals(i) \cap Awaits(Call("snappyHexMesh", s)) # {}
    PROVE  \/ i.command = "blockMesh" /\ i.region = s
           \/ i.command = "surfaceFeatures"
<1>1. Awaits(Call("snappyHexMesh", s)) = {<<"base", s>>, <<"features", Absent>>}
  BY DEF Awaits, Call
<1>2. PICK x : x \in Signals(i) /\ x \in {<<"base", s>>, <<"features", Absent>>}
  BY <1>1
<1>3. CASE i.command = "blockMesh"
  BY <1>2, <1>3 DEF Signals
<1>4. CASE i.command = "snappyHexMesh"
  BY <1>2, <1>4 DEF Signals
<1>5. CASE i.command \notin {"blockMesh", "snappyHexMesh", "surfaceFeatures"}
  BY <1>2, <1>5 DEF Signals
<1> QED
  BY <1>3, <1>4, <1>5

LEMMA AuthorPlans ==
    ASSUME NEW b \in Bundles, NEW h \in HintLists, Author(b, h)
    PROVE  PlanHolds' /\ Present' = b /\ Inferable(b, Scopes) \subseteq owed'
<1> DEFINE calls == BuildCalls(b, h)
<1>1. plan' = <<Write>> \o calls \o Checks(Scopes) /\ affected' = Scopes /\ owed' = ToSet(calls)
  BY DEF Author
<1>2. Present' = b
  <2>1. PICK v \in Versions : content' = [f \in Files |-> IF f \in b THEN v ELSE Absent]
    BY DEF Author
  <2>2. v # Absent /\ b \subseteq Files
    BY MeshAssumption
  <2> QED
    BY <2>1, <2>2 DEF Present
<1>3. Compiled(calls, b) /\ Inferable(b, Scopes) \subseteq ToSet(calls)
  BY BuildCallsCompile
<1> HIDE DEF calls
<1>4. \A i \in ToSet(calls) : i \in Consumers
  BY <1>3, Elements DEF Compiled
<1>5. \A i \in ToSet(calls) : Targets(i) \subseteq Scopes
  BY <1>4, ConsumerCases DEF Targets
<1>6. \A s \in Scopes : SnapDict(s) \in b => Call("snappyHexMesh", s) \in ToSet(calls)
  <2> TAKE s \in Scopes
  <2>1. Call("snappyHexMesh", s) \in Consumers
    BY DEF Consumers
  <2>2. RequiredDict(Call("snappyHexMesh", s)) = {SnapDict(s)}
    BY DEF RequiredDict, Call
  <2>3. Call("snappyHexMesh", s).command = "snappyHexMesh" /\ Call("snappyHexMesh", s).region = s
    BY DEF Call
  <2> QED
    BY <1>3, <2>1, <2>2, <2>3 DEF Inferable
<1>7. Fits(<<Write>> \o calls \o Checks(Scopes), ToSet(calls), Scopes, b)
  BY <1>3, <1>5, <1>6, FreshFits
<1> QED
  BY <1>1, <1>2, <1>3, <1>7 DEF PlanHolds

\* What an edit compiles runs every command whose inputs it makes dirty.
LEMMA DeltaPlans ==
    ASSUME NEW r, NEW d, NEW h \in HintLists, AcceptDelta(r, d, h), r \subseteq Files, d \subseteq Files,
           r \cap d = {}
    PROVE  /\ PlanHolds'
           /\ Present' = (Present \ d) \cup r
           /\ \A i \in Candidates(Present') : i \in owed' \/ DeclaredInputs(i) \cap (r \cup d) = {}
<1> DEFINE present == (Present \ d) \cup r
           changed == r \cup d
           calls   == DeltaCalls(present, changed, h)
           scopes  == AffectedScopes(changed, calls)
<1>1. /\ plan' = <<Write>> \o calls \o Checks(scopes) /\ affected' = scopes
      /\ owed' = owed \cup ToSet(calls)
  BY DEF AcceptDelta
<1>2. Present' = present
  <2>1. PICK v \in [r -> Versions] :
          content' = [f \in Files |-> IF f \in d THEN Absent
                                      ELSE IF f \in r THEN v[f] ELSE content[f]]
    BY DEF AcceptDelta
  <2>2. \A f \in r : v[f] # Absent
    BY MeshAssumption
  <2> QED
    BY <2>1, <2>2 DEF Present
<1>3. changed \in SUBSET Paths
  BY DEF Paths
<1>4. /\ Compiled(calls, present)
      /\ \A i \in Candidates(present) :
            DeclaredInputs(i) \cap (changed \cup Writes(ToSet(calls))) # {} => i \in ToSet(calls)
  BY <1>3, DeltaCallsCompile
<1>5. \A i \in ToSet(calls) : \E k \in DOMAIN calls : calls[k] = i
  BY DEF ToSet
<1>6. \A i \in ToSet(calls) : Targets(i) \subseteq scopes
  <2>1. \A i \in ToSet(calls) : Targets(i) \subseteq Scopes
    BY <1>4, Elements, ConsumerCases DEF Targets, Compiled
  <2> QED
    BY <1>5, <2>1 DEF AffectedScopes
<1>7. scopes \in SUBSET Scopes
  BY DEF AffectedScopes
<1> HIDE DEF calls, scopes
<1>8. ASSUME NEW s \in Scopes, NEW i \in ToSet(calls), SnapDict(s) \in present,
             Signals(i) \cap Awaits(Call("snappyHexMesh", s)) # {}
      PROVE  Call("snappyHexMesh", s) \in ToSet(calls)
  <2> DEFINE c == Call("snappyHexMesh", s)
  <2>1. c \in Consumers /\ c.command = "snappyHexMesh" /\ c.region = s
    BY DEF Consumers, Call
  <2>2. c \in Candidates(present)
    BY <1>8, <2>1 DEF Candidates, RequiredDict
  <2>3. DeclaredInputs(c) = {SnapDict(s), PolyMesh(s), TriSurface}
    BY <2>1 DEF DeclaredInputs
  <2>4. i \in Consumers
    BY <1>4, Elements DEF Compiled
  <2> HIDE DEF c
  <2>5. DeclaredOutputs(i) \cap DeclaredInputs(c) # {}
    <3>1. CASE i.command = "blockMesh" /\ i.region = s
      <4>1. DeclaredOutputs(i) = {PolyMesh(s)}
        BY <3>1 DEF DeclaredOutputs
      <4> QED
        BY <2>3, <4>1
    <3>2. CASE i.command = "surfaceFeatures"
      <4>1. DeclaredOutputs(i) = {TriSurface}
        BY <3>2 DEF DeclaredOutputs
      <4> QED
        BY <2>3, <4>1
    <3> QED
      BY <1>8, <2>4, <3>1, <3>2, FeedsSnap
  <2>6. DeclaredInputs(c) \cap (changed \cup Writes(ToSet(calls))) # {}
    BY <2>5 DEF Writes
  <2>7. c \in ToSet(calls)
    BY <1>4, <2>2, <2>6
  <2> QED
    BY <2>7 DEF c
<1>9. Fits(<<Write>> \o calls \o Checks(scopes), owed \cup ToSet(calls), scopes, present)
  BY <1>4, <1>6, <1>7, <1>8, FreshFits
<1>10. ASSUME NEW i \in Candidates(present)
       PROVE  i \in owed' \/ DeclaredInputs(i) \cap changed = {}
  BY <1>1, <1>4
<1> QED
  BY <1>1, <1>2, <1>7, <1>9, <1>10 DEF PlanHolds

\* A step of the plan drops its head, or the plan with it.
LEMMA PlanGoesOn ==
    ASSUME PlanHolds, plan # <<>>, UNCHANGED <<content, affected>>,
           plan' \in {<<>>, Tail(plan)}, owed \ {Head(plan)} \subseteq owed'
    PROVE  PlanHolds'
<1>1. Present' = Present
  BY DEF Present
<1>2. Fits(Tail(plan), owed', affected, Present)
  <2>1. Fits(Tail(plan), owed \ {Head(plan)}, affected, Present)
    BY TailFits DEF PlanHolds
  <2> QED
    BY <2>1, FitsMoreOwed
<1>3. Fits(plan', owed', affected, Present)
  BY <1>2, NothingFits
<1> QED
  BY <1>1, <1>3 DEF PlanHolds

LEMMA HeadIs ==
    ASSUME PlanHolds, plan # <<>>
    PROVE  /\ Head(plan) \in Members
           /\ Head(plan).command \notin {"write", "checkMesh"} => Head(plan) \in Consumers
           /\ Head(plan) # Write => Targets(Head(plan)) \subseteq affected
           /\ Head(plan) \in Consumers => Head(plan) \in owed /\ RequiredDict(Head(plan)) \subseteq Present
<1>1. plan \in Seq(Members) /\ Head(plan) = plan[1] /\ 1 \in 1 .. Len(plan)
  <2>1. plan \in Seq(Members)
    BY DEF PlanHolds, Fits
  <2>2. Len(plan) \in Nat \ {0}
    BY <2>1, EmptySeq
  <2> QED
    BY <2>1, <2>2
<1>2. Head(plan) \in Members
  BY <1>1, ElementOfSeq
<1>3. Write.command = "write"
  BY DEF Write
<1> QED
  BY <1>1, <1>2, <1>3, AskedCases DEF PlanHolds, Fits, Members

(***************************************************************************)
(* The registry of operations is kept.                                     *)
(***************************************************************************)
LEMMA InputsOwn ==
    ASSUME NEW i \in Consumers, Inputs(i) # Paths, NEW s \in Targets(i), NEW r,
           PolyMesh(r) \in Inputs(i) \cup Outputs(i)
    PROVE  r = s
<1>1. DeclaredInputs(i) # {} /\ Inputs(i) = DeclaredInputs(i)
  BY DEF Inputs
<1>2. \A t : PolyMesh(t) # TriSurface /\ PolyMesh(t) # FeatureDict
             /\ \A u : PolyMesh(t) # BlockDict(u) /\ PolyMesh(t) # SnapDict(u)
  BY DEF PolyMesh, TriSurface, FeatureDict, BlockDict, SnapDict
<1>3. PolyMesh(r) = PolyMesh(s) => r = s
  BY DEF PolyMesh
<1>4. CASE i.command = "surfaceFeatures"
  <2>1. DeclaredInputs(i) = {FeatureDict, TriSurface} /\ DeclaredOutputs(i) = {TriSurface}
    BY <1>4 DEF DeclaredInputs, DeclaredOutputs
  <2> QED
    BY <1>1, <1>2, <2>1 DEF Outputs
<1>5. CASE i.command \in {"blockMesh", "snappyHexMesh", "renumberMesh", "createBaffles"}
           /\ i.region \in Scopes
  <2>1. i.region = s
    BY <1>5, MeshAssumption DEF Targets
  <2>2. i.command # "createBaffles"
    BY <1>1 DEF DeclaredInputs, RequiredDict
  <2>3. DeclaredInputs(i) \subseteq {BlockDict(s), SnapDict(s), PolyMesh(s), TriSurface}
    BY <1>5, <2>1, <2>2 DEF DeclaredInputs, RequiredDict
  <2>4. DeclaredOutputs(i) = {PolyMesh(s)}
    BY <1>5, <2>1, <2>2 DEF DeclaredOutputs
  <2> QED
    BY <1>1, <1>2, <1>3, <2>3, <2>4 DEF Outputs
<1> QED
  BY <1>4, <1>5, ConsumerCases

LEMMA OperationRegisters ==
    ASSUME NEW i \in Consumers
    PROVE  /\ Inputs(i) \subseteq Paths
           /\ Outputs(i) \subseteq {TriSurface} \cup {PolyMesh(s) : s \in Scopes}
           /\ Targets(i) \subseteq Scopes
           /\ TriSurface \in Outputs(i) => Targets(i) = Scopes
           /\ \A s \in Scopes : PolyMesh(s) \in Outputs(i) => s \in Targets(i)
<1>1. \A t : PolyMesh(t) # TriSurface
  BY DEF PolyMesh, TriSurface
<1>2. \A s, t : PolyMesh(s) = PolyMesh(t) => s = t
  BY DEF PolyMesh
<1>3. Targets(i) \subseteq Scopes
  BY ConsumerCases DEF Targets
<1>4. DeclaredInputs(i) \subseteq Paths
  <2>1. \A s \in Scopes : {BlockDict(s), SnapDict(s), PolyMesh(s)} \subseteq Paths
    BY DEF Paths, Files
  <2>2. {FeatureDict, TriSurface} \subseteq Paths
    BY DEF Paths, Files
  <2> QED
    BY <2>1, <2>2, ConsumerCases DEF DeclaredInputs, RequiredDict
<1>5. CASE i.command = "surfaceFeatures" /\ i.region = Absent
  <2>1. Outputs(i) = {TriSurface} /\ Targets(i) = Scopes
    BY <1>5 DEF DeclaredOutputs, Outputs, Targets
  <2> QED
    BY <1>1, <1>4, <2>1 DEF Inputs
<1>6. CASE i.command \in {"blockMesh", "snappyHexMesh", "renumberMesh", "createBaffles"}
           /\ i.region \in Scopes
  <2>1. Targets(i) = {i.region}
    BY <1>6, MeshAssumption DEF Targets
  <2>2. Outputs(i) = {PolyMesh(i.region)}
    BY <1>6, <2>1 DEF Outputs, DeclaredOutputs
  <2> QED
    BY <1>1, <1>2, <1>3, <1>4, <1>6, <2>1, <2>2 DEF Inputs
<1> QED
  BY <1>5, <1>6, ConsumerCases

LEMMA OneMore ==
    ASSUME OperationsHold, NEW o, operations' = Append(operations, o)
    PROVE  /\ DOMAIN operations' = DOMAIN operations \cup {Len(operations) + 1}
           /\ \A n \in DOMAIN operations : operations'[n] = operations[n]
           /\ operations'[Len(operations) + 1] = o
           /\ Len(operations) + 1 \notin DOMAIN operations
<1>1. PICK S : operations \in Seq(S)
  BY DEF OperationsHold
<1>2. operations \in Seq(S \cup {o}) /\ Len(operations) \in Nat
  BY <1>1
<1> QED
  BY <1>2

LEMMA ConsumerRegisters ==
    ASSUME OperationsHold, RegistryHolds, NEW i \in Consumers,
           operations' = Append(operations, Operation(operations, i))
    PROVE  RegistryHolds'
<1> DEFINE o == Operation(operations, i)
           new == Len(operations) + 1
           parents == {p \in DOMAIN operations : Inputs(i) \cap operations[p].outputs # {}}
<1>1. /\ o.inputs = Inputs(i) /\ o.outputs = Outputs(i) /\ o.regions = Targets(i)
      /\ o.lineage = {new} \cup UNION {operations[p].lineage : p \in parents}
  BY DEF Operation
<1>2. /\ DOMAIN operations' = DOMAIN operations \cup {new}
      /\ \A n \in DOMAIN operations : operations'[n] = operations[n]
      /\ operations'[new] = o
      /\ new \notin DOMAIN operations
  BY OneMore
<1> HIDE DEF o, new
<1>3. \A n \in DOMAIN operations : operations[n].lineage \subseteq DOMAIN operations
  BY DEF RegistryHolds, Registered
<1>4. Registered(o, DOMAIN operations')
  <2>1. o.lineage \subseteq DOMAIN operations'
    BY <1>1, <1>2, <1>3
  <2> QED
    BY <1>1, <2>1, OperationRegisters DEF Registered
<1>5. ASSUME NEW s \in o.regions, Declared(operations', o.lineage)
      PROVE  TouchesOnly(operations', o.lineage, s)
  <2>1. Inputs(i) # Paths
    BY <1>1, <1>2, <1>5 DEF Declared
  <2>2. s \in Targets(i) /\ s \in Scopes
    BY <1>1, OperationRegisters
  <2>3. ASSUME NEW p \in parents
        PROVE  TouchesOnly(operations, operations[p].lineage, s)
    <3>1. PICK x : x \in Inputs(i) /\ x \in operations[p].outputs
      BY <2>3
    <3>2. s \in operations[p].regions
      <4>1. CASE x = TriSurface
        BY <2>2, <3>1, <4>1 DEF RegistryHolds, Registered
      <4>2. ASSUME NEW r \in Scopes, x = PolyMesh(r)
            PROVE  s \in operations[p].regions
        <5>1. r = s
          BY <2>1, <2>2, <3>1, <4>2, InputsOwn
        <5> QED
          BY <2>2, <3>1, <4>2, <5>1 DEF RegistryHolds, Registered
      <4>3. x = TriSurface \/ \E r \in Scopes : x = PolyMesh(r)
        BY <3>1 DEF RegistryHolds, Registered
      <4> QED
        BY <4>1, <4>2, <4>3
    <3>3. \A m \in operations[p].lineage : m \in o.lineage /\ operations'[m] = operations[m]
      BY <1>1, <1>2, <1>3
    <3>4. Declared(operations, operations[p].lineage)
      BY <1>5, <3>3 DEF Declared
    <3> QED
      BY <3>2, <3>4 DEF RegistryHolds
  <2>4. ASSUME NEW m \in o.lineage, NEW r \in Scopes,
               PolyMesh(r) \in operations'[m].inputs \cup operations'[m].outputs
        PROVE  r = s
    <3>1. CASE m = new
      BY <1>1, <1>2, <2>1, <2>2, <2>4, <3>1, InputsOwn
    <3>2. ASSUME NEW p \in parents, m \in operations[p].lineage
          PROVE  r = s
      <4>1. operations'[m] = operations[m]
        BY <1>2, <1>3, <3>2
      <4> QED
        BY <2>3, <2>4, <3>2, <4>1 DEF TouchesOnly
    <3> QED
      BY <1>1, <3>1, <3>2
  <2> QED
    BY <2>4 DEF TouchesOnly
<1>6. ASSUME NEW n \in DOMAIN operations
      PROVE  /\ Registered(operations'[n], DOMAIN operations')
             /\ \A s \in operations'[n].regions :
                   Declared(operations', operations'[n].lineage) =>
                       TouchesOnly(operations', operations'[n].lineage, s)
  <2>1. operations'[n] = operations[n]
    BY <1>2
  <2>2. \A m \in operations[n].lineage : operations'[m] = operations[m]
    BY <1>2, <1>3
  <2>3. Registered(operations[n], DOMAIN operations')
    BY <1>2 DEF RegistryHolds, Registered
  <2>4. ASSUME NEW s \in operations[n].regions, Declared(operations', operations[n].lineage)
        PROVE  TouchesOnly(operations', operations[n].lineage, s)
    <3>1. Declared(operations, operations[n].lineage)
      BY <2>2, <2>4 DEF Declared
    <3>2. TouchesOnly(operations, operations[n].lineage, s)
      BY <3>1 DEF RegistryHolds
    <3> QED
      BY <2>2, <3>2 DEF TouchesOnly
  <2> QED
    BY <2>1, <2>3, <2>4
<1> QED
  BY <1>2, <1>4, <1>5, <1>6 DEF RegistryHolds

(***************************************************************************)
(* Digests.                                                                *)
(***************************************************************************)
LEMMA AncestorsAreKnown ==
    ASSUME RegistryHolds, NEW s \in Scopes
    PROVE  /\ Ancestry(operations, s) \subseteq DOMAIN operations
           /\ Dependencies(operations, s) \subseteq Paths
           /\ Declared(operations, Ancestry(operations, s)) =>
                 \A r \in Scopes : PolyMesh(r) \in Dependencies(operations, s) => r = s
<1> DEFINE own == {m \in DOMAIN operations :
                      s \in operations[m].regions \/ PolyMesh(s) \in operations[m].outputs}
<1>1. Ancestry(operations, s) = UNION {operations[n].lineage : n \in own}
  BY DEF Ancestry
<1>2. \A n \in own : s \in operations[n].regions
  BY DEF RegistryHolds, Registered
<1> HIDE DEF own
<1>3. own \subseteq DOMAIN operations
  BY DEF own
<1>4. Ancestry(operations, s) \subseteq DOMAIN operations
  BY <1>1, <1>3 DEF RegistryHolds, Registered
<1>5. Dependencies(operations, s) \subseteq Paths
  <2>1. PolyMesh(s) \in Paths
    BY DEF Paths
  <2>2. {TriSurface} \cup {PolyMesh(t) : t \in Scopes} \subseteq Paths
    BY DEF Paths, Files
  <2>3. \A n \in DOMAIN operations : operations[n].inputs \cup operations[n].outputs \subseteq Paths
    BY <2>2 DEF RegistryHolds, Registered
  <2> QED
    BY <1>4, <2>1, <2>3 DEF Dependencies
<1>6. ASSUME Declared(operations, Ancestry(operations, s)), NEW r \in Scopes,
             PolyMesh(r) \in Dependencies(operations, s)
      PROVE  r = s
  <2>1. CASE PolyMesh(r) = PolyMesh(s)
    BY <2>1 DEF PolyMesh
  <2>2. ASSUME NEW m \in Ancestry(operations, s),
               PolyMesh(r) \in operations[m].inputs \cup operations[m].outputs
        PROVE  r = s
    <3>1. PICK n \in own : m \in operations[n].lineage
      BY <1>1
    <3>2. Declared(operations, operations[n].lineage)
      BY <1>1, <1>6 DEF Declared
    <3>3. TouchesOnly(operations, operations[n].lineage, s)
      BY <1>2, <1>3, <3>2 DEF RegistryHolds
    <3> QED
      BY <2>2, <3>1, <3>3 DEF TouchesOnly
  <2> QED
    BY <1>6, <2>1, <2>2 DEF Dependencies
<1> QED
  BY <1>4, <1>5, <1>6

LEMMA DigestSame ==
    ASSUME NEW s \in Scopes,
           Ancestry(operations', s) = Ancestry(operations, s),
           Dependencies(operations', s) = Dependencies(operations, s),
           \A p \in Dependencies(operations, s) : Artifact(p)' = Artifact(p)
    PROVE  Digest(s)' = Digest(s)
BY DEF Digest

LEMMA ArtifactSame ==
    ASSUME NEW p \in Paths,
           p \in Files => content'[p] = content[p],
           edges' = edges,
           \A r \in Scopes : p = PolyMesh(r) => mesh'[r] = mesh[r]
    PROVE  Artifact(p)' = Artifact(p)
<1>1. CASE p \in Files
  BY <1>1, PathKinds DEF Artifact
<1>2. ASSUME NEW r \in Scopes, p = PolyMesh(r)
      PROVE  Artifact(p)' = Artifact(p)
  BY <1>2, PathKinds DEF Artifact
<1> QED
  BY <1>1, <1>2, PathKinds

\* Evidence whose digest does not change stays current.
LEMMA CurrentStays ==
    ASSUME NEW s \in Scopes, s \notin StaleScopes, Digest(s)' = Digest(s),
           EvidenceHolds, InvalidateMesh \/ UNCHANGED <<evidence[s], manifest[s]>>
    PROVE  s \notin StaleScopes'
<1>1. evidence[s] # Absent /\ evidence[s].passed /\ manifest[s] = Digest(s)
  BY DEF StaleScopes
<1>2. UNCHANGED <<evidence[s], manifest[s]>>
  <2>1. CASE InvalidateMesh
    BY <1>1, <2>1 DEF InvalidateMesh
  <2> QED
    BY <2>1
<1> QED
  BY <1>1, <1>2 DEF StaleScopes

ReuseInv == MeshInv /\ Reuse

\* A scope the edit reuses, all of whose operations declare what they read.
Reused(s) == s \in before \ affected /\ Declared(operations, Ancestry(operations, s))

LEMMA ReusedMeans ==
    ReusedStaysCurrent <=> \A s : Reused(s) => s \notin StaleScopes
BY DEF ReusedStaysCurrent, Reused, Declared

LEMMA ReuseInit == MeshInit => Reuse
<1> SUFFICES ASSUME MeshInit PROVE Reuse
  OBVIOUS
<1>1. RegistryHolds
  BY DEF MeshInit, RegistryHolds
<1>2. PlanHolds
  BY NothingFits DEF MeshInit, PlanHolds
<1>3. ReusedStaysCurrent
  BY DEF MeshInit, ReusedStaysCurrent
<1> QED
  BY <1>1, <1>2, <1>3 DEF MeshInit, Reuse

\* Where neither files nor operations change, nor do digests.
LEMMA DigestUnchanged ==
    ASSUME NEW s \in Scopes, UNCHANGED <<content, edges, mesh, operations>>
    PROVE  Digest(s)' = Digest(s)
BY DEF Digest, Artifact

LEMMA ReuseConsumer ==
    ASSUME ReuseInv, RunConsumer
    PROVE  Reuse'
<1> DEFINE i == Head(plan)
<1>1. /\ plan # <<>> /\ UNCHANGED <<content, affected, before>>
      /\ operations' = Append(operations, Operation(operations, i))
      /\ Succeeds(i) \/ Fails(i)
      /\ InvalidateMesh
  BY DEF RunConsumer
<1>2. i \in Consumers /\ Targets(i) \subseteq affected
  <2>1. i.command \notin {"write", "checkMesh"} /\ plan # <<>>
    BY DEF RunConsumer
  <2>2. i # Write
    BY <2>1 DEF Write
  <2> QED
    BY <2>1, <2>2, HeadIs DEF ReuseInv, Reuse
<1>3. RegistryHolds'
  BY <1>1, <1>2, ConsumerRegisters DEF ReuseInv, Reuse, MeshInv
<1>4. PlanHolds'
  <2>1. plan' \in {<<>>, Tail(plan)} /\ owed \ {i} \subseteq owed'
    BY <1>1 DEF Succeeds, Fails, Advance, Stop
  <2> QED
    BY <1>1, <2>1, PlanGoesOn DEF ReuseInv, Reuse
<1>5. ASSUME NEW s, Reused(s)'
      PROVE  s \notin StaleScopes'
  <2> DEFINE new == Len(operations) + 1
  <2>1. s \in before \ affected /\ s \in Scopes
    BY <1>1, <1>5 DEF Reused, ReuseInv, Reuse
  <2>2. s \notin Targets(i)
    BY <1>2, <2>1
  <2>3. i.region \in Scopes /\ i.region # Absent /\ s # i.region
    BY <1>2, <2>1, <2>2, ConsumerCases, MeshAssumption DEF Targets
  <2>4. /\ DOMAIN operations' = DOMAIN operations \cup {new}
        /\ \A n \in DOMAIN operations : operations'[n] = operations[n]
        /\ operations'[new] = Operation(operations, i)
        /\ new \notin DOMAIN operations
    BY <1>1, OneMore DEF ReuseInv, MeshInv
  <2>5. Operation(operations, i).regions = Targets(i) /\ Operation(operations, i).outputs = Outputs(i)
    BY DEF Operation
  <2> HIDE DEF new
  <2>6. {m \in DOMAIN operations' : s \in operations'[m].regions \/ PolyMesh(s) \in operations'[m].outputs}
          = {m \in DOMAIN operations : s \in operations[m].regions \/ PolyMesh(s) \in operations[m].outputs}
    <3>1. ~(s \in operations'[new].regions \/ PolyMesh(s) \in operations'[new].outputs)
      BY <1>2, <2>1, <2>2, <2>4, <2>5, OperationRegisters
    <3> QED
      BY <2>4, <3>1
  <2>7. Ancestry(operations', s) = Ancestry(operations, s)
    <3> DEFINE own == {m \in DOMAIN operations :
                         s \in operations[m].regions \/ PolyMesh(s) \in operations[m].outputs}
    <3>1. Ancestry(operations, s) = UNION {operations[n].lineage : n \in own}
      BY DEF Ancestry
    <3>2. Ancestry(operations', s) = UNION {operations'[n].lineage : n \in own}
      BY <2>6 DEF Ancestry
    <3>3. \A n \in own : operations'[n].lineage = operations[n].lineage
      BY <2>4
    <3> HIDE DEF own
    <3>4. {operations'[n].lineage : n \in own} = {operations[n].lineage : n \in own}
      BY <3>3
    <3> QED
      BY <3>1, <3>2, <3>4
  <2>8. Ancestry(operations, s) \subseteq DOMAIN operations
        /\ Dependencies(operations, s) \subseteq Paths
    BY <2>1, AncestorsAreKnown DEF ReuseInv, Reuse
  <2>9. \A m \in Ancestry(operations, s) : operations'[m] = operations[m]
    BY <2>4, <2>8
  <2>10. Dependencies(operations', s) = Dependencies(operations, s)
    <3> DEFINE N == Ancestry(operations, s)
    <3>1. \A n \in N : operations'[n].inputs \cup operations'[n].outputs
                          = operations[n].inputs \cup operations[n].outputs
      BY <2>9
    <3>2. Dependencies(operations', s) =
            {PolyMesh(s)} \cup UNION {operations'[n].inputs \cup operations'[n].outputs : n \in N}
      BY <2>7 DEF Dependencies
    <3>3. Dependencies(operations, s) =
            {PolyMesh(s)} \cup UNION {operations[n].inputs \cup operations[n].outputs : n \in N}
      BY DEF Dependencies
    <3> HIDE DEF N
    <3>4. {operations'[n].inputs \cup operations'[n].outputs : n \in N}
            = {operations[n].inputs \cup operations[n].outputs : n \in N}
      BY <3>1
    <3> QED
      BY <3>2, <3>3, <3>4
  <2>11. Declared(operations, Ancestry(operations, s))
    BY <1>5, <2>7, <2>9 DEF Reused, Declared
  <2>12. s \notin StaleScopes
    BY <2>1, <2>11, ReusedMeans DEF Reused, ReuseInv, Reuse
  <2>13. edges' = edges /\ mesh'[s] = mesh[s]
    BY <1>1, <2>1, <2>3 DEF Succeeds, Fails, ReuseInv, MeshInv, MeshesHold
  <2>14. \A p \in Dependencies(operations, s) : Artifact(p)' = Artifact(p)
    <3> TAKE p \in Dependencies(operations, s)
    <3>1. \A r \in Scopes : p = PolyMesh(r) => r = s
      BY <2>1, <2>11, AncestorsAreKnown DEF ReuseInv, Reuse
    <3>2. p \in Paths /\ \A r \in Scopes : p = PolyMesh(r) => mesh'[r] = mesh[r]
      BY <2>8, <2>13, <3>1
    <3> QED
      BY <1>1, <2>13, <3>2, ArtifactSame
  <2>15. Digest(s)' = Digest(s)
    BY <2>1, <2>7, <2>10, <2>14, DigestSame
  <2> QED
    BY <1>1, <2>1, <2>12, <2>15, CurrentStays DEF ReuseInv, MeshInv
<1>6. ReusedStaysCurrent'
  <2>1. \A s : Reused(s)' => s \notin StaleScopes'
    BY <1>5
  <2> QED
    BY <2>1 DEF ReusedStaysCurrent, Reused, Declared
<1> QED
  BY <1>1, <1>3, <1>4, <1>6 DEF Reuse, ReuseInv

LEMMA ReuseDelta ==
    ASSUME ReuseInv, NEW r, NEW d, NEW h \in HintLists, AcceptDelta(r, d, h),
           r \subseteq Files, d \subseteq Files, r \cap d = {}
    PROVE  Reuse'
<1>1. /\ UNCHANGED <<edges, mesh, operations, evidence, manifest>>
      /\ before' = Scopes \ StaleScopes
  BY DEF AcceptDelta
<1>2. RegistryHolds'
  BY <1>1 DEF ReuseInv, Reuse, RegistryHolds, Registered, Declared, TouchesOnly
<1>3. PlanHolds'
  BY DeltaPlans
<1>4. ASSUME NEW s, Reused(s)'
      PROVE  s \notin StaleScopes'
  <2>1. s \in Scopes /\ s \notin StaleScopes
    BY <1>1, <1>4 DEF Reused
  <2>2. (r \cup d) \cap Dependencies(operations, s) = {}
    <3>1. s \notin affected'
      BY <1>4 DEF Reused
    <3>2. affected' = AffectedScopes(r \cup d, DeltaCalls((Present \ d) \cup r, r \cup d, h))
      BY DEF AcceptDelta
    <3> QED
      BY <2>1, <3>1, <3>2 DEF AffectedScopes
  <2>3. Dependencies(operations, s) \subseteq Paths
    BY <2>1, AncestorsAreKnown DEF ReuseInv, Reuse
  <2>4. \A f \in Files : f \notin r \cup d => content'[f] = content[f]
    BY DEF AcceptDelta
  <2>5. \A p \in Dependencies(operations, s) : Artifact(p)' = Artifact(p)
    <3> TAKE p \in Dependencies(operations, s)
    <3>1. p \in Paths /\ (p \in Files => content'[p] = content[p])
      BY <2>2, <2>3, <2>4
    <3> QED
      BY <1>1, <3>1, ArtifactSame
  <2>6. Digest(s)' = Digest(s)
    BY <1>1, <2>1, <2>5, DigestSame
  <2> QED
    BY <1>1, <2>1, <2>6, CurrentStays DEF ReuseInv, MeshInv
<1>5. ReusedStaysCurrent'
  <2>1. \A s : Reused(s)' => s \notin StaleScopes'
    BY <1>4
  <2> QED
    BY <2>1 DEF ReusedStaysCurrent, Reused, Declared
<1> QED
  BY <1>1, <1>2, <1>3, <1>5 DEF Reuse, StaleScopes

\* A member that neither writes files nor is registered.
LEMMA ReuseRest ==
    ASSUME ReuseInv, PlanHolds', UNCHANGED <<disk, operations, affected, before>>,
           \A s \in Scopes \ affected : InvalidateMesh \/ UNCHANGED <<evidence[s], manifest[s]>>
    PROVE  Reuse'
<1>1. UNCHANGED <<content, edges, mesh, operations, affected, before>>
  BY DEF disk
<1>2. RegistryHolds'
  BY <1>1 DEF ReuseInv, Reuse, RegistryHolds, Registered, Declared, TouchesOnly
<1>3. ASSUME NEW s, Reused(s)'
      PROVE  s \notin StaleScopes'
  <2>1. Reused(s) /\ s \in Scopes \ affected
    BY <1>1, <1>3 DEF Reused, Declared, ReuseInv, Reuse
  <2>2. s \notin StaleScopes
    BY <2>1, ReusedMeans DEF ReuseInv, Reuse
  <2>3. Digest(s)' = Digest(s)
    BY <1>1, <2>1, DigestUnchanged
  <2>4. s \in Scopes /\ (InvalidateMesh \/ UNCHANGED <<evidence[s], manifest[s]>>)
    BY <2>1
  <2> QED
    BY <2>2, <2>3, <2>4, CurrentStays DEF ReuseInv, MeshInv
<1>4. ReusedStaysCurrent'
  <2>1. \A s : Reused(s)' => s \notin StaleScopes'
    BY <1>3
  <2> QED
    BY <2>1 DEF ReusedStaysCurrent, Reused, Declared
<1> QED
  BY <1>1, <1>2, <1>4 DEF Reuse, ReuseInv

LEMMA CheckKeepsOthers ==
    ASSUME PlanHolds, EvidenceHolds, CheckMesh, NEW s \in Scopes \ affected
    PROVE  UNCHANGED <<evidence[s], manifest[s]>>
<1> DEFINE t == Head(plan).region
<1>1. Head(plan) # Write /\ plan # <<>>
  BY DEF CheckMesh, Write
<1>2. Targets(Head(plan)) \subseteq affected
  BY <1>1, HeadIs
<1>3. s # t
  BY <1>2 DEF Targets
<1>4. \/ UNCHANGED <<evidence, manifest>>
      \/ \E e, m : evidence' = [evidence EXCEPT ![t] = e] /\ manifest' = [manifest EXCEPT ![t] = m]
  BY DEF CheckMesh
<1> HIDE DEF t
<1> QED
  BY <1>3, <1>4 DEF EvidenceHolds

\* The changes an edit can bring.
LEMMA DeltasAreFiles ==
    ASSUME NEW c \in UNION {kSubset(n, Files) : n \in 0 .. MaxChanges}, NEW d \in SUBSET c
    PROVE  c \ d \subseteq Files /\ d \subseteq Files /\ (c \ d) \cap d = {}
BY DEF kSubset

LEMMA ReuseStep == ReuseInv /\ [MeshNext]_mvars => ReuseInv'
<1> SUFFICES ASSUME ReuseInv, [MeshNext]_mvars PROVE Reuse'
  BY MeshInvStep DEF ReuseInv
<1>1. ASSUME NEW b \in Bundles, NEW h \in HintLists, Author(b, h)
      PROVE  Reuse'
  <2>1. PlanHolds'
    BY <1>1, AuthorPlans
  <2>2. UNCHANGED operations /\ before' = {}
    BY <1>1 DEF Author
  <2>3. RegistryHolds'
    BY <2>2 DEF ReuseInv, Reuse, RegistryHolds, Registered, Declared, TouchesOnly
  <2>4. ReusedStaysCurrent'
    BY <2>2 DEF ReusedStaysCurrent
  <2> QED
    BY <2>1, <2>2, <2>3, <2>4 DEF Reuse
<1>2. ASSUME NEW c \in UNION {kSubset(n, Files) : n \in 0 .. MaxChanges}, NEW d \in SUBSET c,
             NEW h \in HintLists, AcceptDelta(c \ d, d, h)
      PROVE  Reuse'
  BY <1>2, DeltasAreFiles, ReuseDelta
<1>3. CASE DeliverWrites
  <2>1. plan # <<>> /\ plan' = Tail(plan) /\ UNCHANGED <<disk, content, operations, affected, before, owed>>
        /\ InvalidateMesh
    BY <1>3 DEF DeliverWrites, Advance, disk
  <2>2. PlanHolds'
    BY <2>1, PlanGoesOn DEF ReuseInv, Reuse
  <2> QED
    BY <2>1, <2>2, ReuseRest
<1>4. CASE RunConsumer
  BY <1>4, ReuseConsumer
<1>5. CASE CheckMesh
  <2>1. plan # <<>> /\ plan' \in {<<>>, Tail(plan)}
        /\ UNCHANGED <<disk, content, operations, affected, before, owed>>
    BY <1>5 DEF CheckMesh, Advance, Stop, disk
  <2>2. PlanHolds'
    BY <2>1, PlanGoesOn DEF ReuseInv, Reuse
  <2>3. \A s \in Scopes \ affected : UNCHANGED <<evidence[s], manifest[s]>>
    BY <1>5, CheckKeepsOthers DEF ReuseInv, Reuse, MeshInv
  <2> QED
    BY <2>1, <2>2, <2>3, ReuseRest
<1>6. CASE AbandonPlan
  <2>1. plan # <<>> /\ plan' = <<>>
        /\ UNCHANGED <<disk, content, operations, affected, before, owed, evidence, manifest>>
    BY <1>6 DEF AbandonPlan, Stop, disk
  <2>2. PlanHolds'
    BY <2>1, PlanGoesOn DEF ReuseInv, Reuse
  <2> QED
    BY <2>1, <2>2, ReuseRest
<1>7. CASE UNCHANGED mvars
  <2>1. UNCHANGED <<disk, content, operations, affected, before, owed, evidence, manifest, plan>>
    BY <1>7 DEF mvars, disk
  <2>2. PlanHolds'
    BY <2>1 DEF ReuseInv, Reuse, PlanHolds, Present
  <2> QED
    BY <2>1, <2>2, ReuseRest
<1> QED
  BY <1>1, <1>2, <1>3, <1>4, <1>5, <1>6, <1>7 DEF MeshNext

\* A scope all of whose operations declare what they read keeps its current
\* evidence through every plan that reuses it, whatever the plan is, whatever
\* the edit changed and however the plan ends (contracts/mesh_dependencies.py,
\* contracts/execution_scopes.py, affected_mesh_scope_keys).
THEOREM ReusedStaysCurrentCorrect == MeshSpec => []ReusedStaysCurrent
<1>1. MeshInit => ReuseInv
  BY MeshInvInit, ReuseInit DEF ReuseInv
<1>2. ReuseInv => ReusedStaysCurrent
  BY DEF ReuseInv, Reuse
<1> QED
  BY <1>1, <1>2, ReuseStep, PTL DEF MeshSpec

-----------------------------------------------------------------------------
(***************************************************************************)
(* What the plan owes.  While a dictionary and what was made from it differ,*)
(* the command that closes the gap is owed, and the plan ends with it done.*)
(***************************************************************************)

Block(s) == Call("blockMesh", s)
Snap(s)  == Call("snappyHexMesh", s)
Features == Call("surfaceFeatures", Absent)

LEMMA CallsDiffer ==
    /\ \A s : /\ Block(s).command = "blockMesh" /\ Block(s).region = s
              /\ Snap(s).command = "snappyHexMesh" /\ Snap(s).region = s
    /\ Features.command = "surfaceFeatures" /\ Features.region = Absent
    /\ \A s \in Scopes : Block(s) \in Consumers /\ Snap(s) \in Consumers
    /\ Features \in Consumers
    /\ \A s : RequiredDict(Block(s)) = {BlockDict(s)} /\ RequiredDict(Snap(s)) = {SnapDict(s)}
    /\ RequiredDict(Features) = {FeatureDict}
<1>1. /\ \A s : /\ Block(s).command = "blockMesh" /\ Block(s).region = s
                /\ Snap(s).command = "snappyHexMesh" /\ Snap(s).region = s
      /\ Features.command = "surfaceFeatures" /\ Features.region = Absent
  BY DEF Block, Snap, Features, Call
<1>2. /\ \A s \in Scopes : Block(s) \in Consumers /\ Snap(s) \in Consumers
      /\ Features \in Consumers
  BY DEF Block, Snap, Features, Consumers
<1> QED
  BY <1>1, <1>2 DEF RequiredDict

LEMMA FollowInit == MeshInit => Follow /\ PlanHolds
<1> SUFFICES ASSUME MeshInit PROVE Follow /\ PlanHolds
  OBVIOUS
<1>1. Present = {}
  BY DEF MeshInit, Present
<1>2. PlanHolds
  BY NothingFits DEF MeshInit, PlanHolds
<1>3. Follow
  BY <1>1 DEF MeshInit, Follow, BlockFollows, SnapFollows, EdgesFollow, Sound
<1> QED
  BY <1>2, <1>3

LEMMA FollowAuthor ==
    ASSUME FollowInv, NEW b \in Bundles, NEW h \in HintLists, Author(b, h)
    PROVE  Follow'
<1>1. /\ Present' = b /\ Inferable(b, Scopes) \subseteq owed'
  BY AuthorPlans
<1>2. /\ UNCHANGED <<edges, mesh, deltas>>
      /\ deltas = 0 /\ Present = {}
  BY DEF Author
<1>3. edges = Absent
  BY <1>2 DEF FollowInv, Follow
<1>4. ASSUME NEW s \in Scopes
      PROVE  /\ BlockDict(s) \in b => Call("blockMesh", s) \in owed'
             /\ SnapDict(s) \in b => Call("snappyHexMesh", s) \in owed'
  <2>1. BlockDict(s) \in b => Block(s) \in Inferable(b, Scopes)
    BY CallsDiffer DEF Inferable
  <2>2. SnapDict(s) \in b => Snap(s) \in Inferable(b, Scopes)
    BY CallsDiffer DEF Inferable
  <2> QED
    BY <1>1, <2>1, <2>2 DEF Block, Snap
<1>5. \A s \in Scopes : BlockFollows(s)' /\ SnapFollows(s)'
  BY <1>1, <1>4 DEF BlockFollows, SnapFollows
<1>6. EdgesFollow'
  BY <1>2, <1>3 DEF EdgesFollow
<1> QED
  BY <1>2, <1>3, <1>5, <1>6 DEF FollowInv, Follow

LEMMA FollowDelta ==
    ASSUME FollowInv, NEW r, NEW d, NEW h \in HintLists, AcceptDelta(r, d, h),
           r \subseteq Files, d \subseteq Files, r \cap d = {}
    PROVE  Follow'
<1>1. /\ UNCHANGED <<edges, mesh>>
      /\ deltas' = deltas + 1
      /\ \A f \in Files : f \notin r \cup d => content'[f] = content[f]
      /\ owed \subseteq owed'
  BY DEF AcceptDelta
<1>2. /\ Present' = (Present \ d) \cup r
      /\ \A i \in Candidates(Present') : i \in owed' \/ DeclaredInputs(i) \cap (r \cup d) = {}
  BY DeltaPlans
<1>3. \A f \in Files \ (r \cup d) : (f \in Present' => f \in Present) /\ content'[f] = content[f]
  BY <1>1, <1>2
<1>4. ASSUME NEW s \in Scopes
      PROVE  BlockFollows(s)'
  <2> SUFFICES ASSUME BlockDict(s) \in Present', Block(s) \notin owed', Sound(mesh'[s])
               PROVE  mesh'[s].block = content'[BlockDict(s)]
    BY DEF BlockFollows, Sound, Block
  <2>1. Block(s) \in Candidates(Present')
    BY CallsDiffer DEF Candidates
  <2>2. DeclaredInputs(Block(s)) = {BlockDict(s)}
    BY CallsDiffer DEF DeclaredInputs
  <2>3. BlockDict(s) \in Files \ (r \cup d)
    BY <1>2, <2>1, <2>2, PathKinds
  <2>4. BlockFollows(s) /\ Block(s) \notin owed /\ BlockDict(s) \in Present
    BY <1>1, <1>3, <2>3 DEF FollowInv, Follow
  <2> QED
    BY <1>1, <2>3, <2>4 DEF BlockFollows, Sound, Block
<1>5. ASSUME NEW s \in Scopes
      PROVE  SnapFollows(s)'
  <2> SUFFICES ASSUME SnapDict(s) \in Present', Snap(s) \notin owed', Sound(mesh'[s])
               PROVE  mesh'[s].snap = <<content'[SnapDict(s)], content'[TriSurface], edges'>>
    BY DEF SnapFollows, Sound, Snap
  <2>1. Snap(s) \in Candidates(Present')
    BY CallsDiffer DEF Candidates
  <2>2. DeclaredInputs(Snap(s)) = {SnapDict(s), PolyMesh(s), TriSurface}
    BY CallsDiffer DEF DeclaredInputs
  <2>3. SnapDict(s) \in Files \ (r \cup d) /\ TriSurface \in Files \ (r \cup d)
    BY <1>2, <2>1, <2>2, PathKinds
  <2>4. SnapFollows(s) /\ Snap(s) \notin owed /\ SnapDict(s) \in Present
    BY <1>1, <1>3, <2>3 DEF FollowInv, Follow
  <2> QED
    BY <1>1, <2>3, <2>4 DEF SnapFollows, Sound, Snap
<1>6. EdgesFollow'
  <2> SUFFICES ASSUME edges' # Absent, FeatureDict \in Present', Features \notin owed'
               PROVE  edges' = <<content'[FeatureDict], content'[TriSurface]>>
    BY DEF EdgesFollow, Features
  <2>1. Features \in Candidates(Present')
    BY CallsDiffer DEF Candidates
  <2>2. DeclaredInputs(Features) = {FeatureDict, TriSurface}
    BY CallsDiffer DEF DeclaredInputs
  <2>3. FeatureDict \in Files \ (r \cup d) /\ TriSurface \in Files \ (r \cup d)
    BY <1>2, <2>1, <2>2, PathKinds
  <2>4. EdgesFollow /\ Features \notin owed /\ FeatureDict \in Present
    BY <1>1, <1>3, <2>3 DEF FollowInv, Follow
  <2> QED
    BY <1>1, <2>3, <2>4 DEF EdgesFollow, Features
<1>7. deltas' \in Nat /\ deltas' # 0
  BY <1>1 DEF FollowInv, Follow
<1>8. \A s \in Scopes : Sound(mesh'[s]) => DOMAIN mesh'[s] = {"block", "snap", "touched"}
  BY <1>1 DEF FollowInv, Follow, Sound
<1> QED
  BY <1>4, <1>5, <1>6, <1>7, <1>8 DEF Follow

\* Where nothing that is described or made changes, what is owed may only grow.
LEMMA FollowSame ==
    ASSUME FollowInv, UNCHANGED <<content, edges, deltas>>, owed \subseteq owed',
           \A s \in Scopes : mesh'[s] = mesh[s] \/ ~Sound(mesh'[s])
    PROVE  Follow'
<1>1. Present' = Present
  BY DEF Present
<1>2. \A s \in Scopes : /\ BlockFollows(s)' /\ SnapFollows(s)'
                        /\ Sound(mesh'[s]) => DOMAIN mesh'[s] = {"block", "snap", "touched"}
  <2> TAKE s \in Scopes
  <2>1. CASE ~Sound(mesh'[s])
    BY <2>1 DEF BlockFollows, SnapFollows, Sound
  <2>2. CASE mesh'[s] = mesh[s]
    BY <1>1, <2>2 DEF BlockFollows, SnapFollows, Sound, FollowInv, Follow
  <2> QED
    BY <2>1, <2>2
<1>3. EdgesFollow'
  BY <1>1 DEF EdgesFollow, FollowInv, Follow
<1> QED
  BY <1>1, <1>2, <1>3 DEF FollowInv, Follow

\* What a command that ended well leaves of the mesh it works on.
LEMMA MadeIs ==
    ASSUME FollowInv, NEW i \in Consumers, i.region \in Scopes,
           i.command = "blockMesh" \/ Sound(mesh[i.region])
    PROVE  /\ DOMAIN Made(i, i.region) = {"block", "snap", "touched"}
           /\ Made(i, i.region).block =
                 IF i.command = "blockMesh" THEN content[BlockDict(i.region)] ELSE mesh[i.region].block
           /\ i.command = "snappyHexMesh" =>
                 Made(i, i.region).snap = <<content[SnapDict(i.region)], content[TriSurface], edges>>
           /\ i.command \notin {"blockMesh", "snappyHexMesh"} =>
                 Made(i, i.region).snap = mesh[i.region].snap
<1> DEFINE s == i.region
           m == mesh[s]
<1>1. CASE i.command = "blockMesh"
  BY <1>1 DEF Made
<1>2. CASE i.command # "blockMesh"
  <2>1. DOMAIN m = {"block", "snap", "touched"}
    BY <1>2 DEF FollowInv, Follow
  <2> HIDE DEF m
  <2>2. CASE i.command = "snappyHexMesh"
    <3>1. Made(i, s) = [m EXCEPT !.snap = <<content[SnapDict(s)], content[TriSurface], edges>>]
      BY <2>2 DEF Made, m
    <3> QED
      BY <2>1, <2>2, <3>1 DEF m
  <2>3. CASE i.command # "snappyHexMesh"
    <3>1. Made(i, s) = [m EXCEPT !.touched = TRUE]
      BY <1>2, <2>3 DEF Made, m
    <3> QED
      BY <1>2, <2>1, <2>3, <3>1 DEF m
  <2> QED
    BY <2>2, <2>3
<1> QED
  BY <1>1, <1>2

LEMMA FollowConsumer ==
    ASSUME FollowInv, RunConsumer
    PROVE  Follow'
<1> DEFINE i == Head(plan)
<1>1. /\ plan # <<>> /\ UNCHANGED <<content, deltas>>
      /\ Succeeds(i) \/ Fails(i)
      /\ i \in Consumers
      /\ Fits(plan, owed, affected, Present)
  <2>1. i.command \notin {"write", "checkMesh"} /\ plan # <<>>
    BY DEF RunConsumer
  <2> QED
    BY <2>1, HeadIs DEF FollowInv, RunConsumer, PlanHolds
<1>2. Present' = Present
  BY <1>1 DEF Present
<1> HIDE DEF i
<1>3. CASE Fails(i)
  <2>1. edges' = edges /\ owed' = owed
    BY <1>3 DEF Fails
  <2>2. \A s \in Scopes : mesh'[s] = mesh[s] \/ ~Sound(mesh'[s])
    BY <1>3 DEF Fails, FollowInv, MeshInv, MeshesHold, Sound
  <2> QED
    BY <1>1, <2>1, <2>2, FollowSame
<1>4. ASSUME NEW s \in Scopes, SnapDict(s) \in Present,
             Signals(i) \cap Awaits(Snap(s)) # {}
      PROVE  Snap(s) \in owed \ {i}
  BY <1>1, <1>4, HeadFeeds DEF i, Snap
<1>5. CASE Succeeds(i) /\ i.region = Absent
  <2>1. i.command = "surfaceFeatures"
    <3>1. Absent \notin Scopes
      BY MeshAssumption
    <3> QED
      BY <1>1, <1>5, <3>1, ConsumerCases
  <2>2. /\ edges' = <<content[FeatureDict], content[TriSurface]>>
        /\ UNCHANGED mesh
        /\ owed' = owed \ {i}
    BY <1>5 DEF Succeeds
  <2>3. FeatureDict \in Present
    <3>1. RequiredDict(i) = {FeatureDict}
      BY <2>1 DEF RequiredDict
    <3> QED
      BY <1>1, <3>1, HeadIs DEF i, FollowInv
  <2>4. EdgesFollow'
    BY <1>1, <2>2 DEF EdgesFollow
  <2>5. ASSUME NEW s \in Scopes
        PROVE  BlockFollows(s)' /\ SnapFollows(s)'
    <3>1. Block(s) # i
      BY <2>1, CallsDiffer
    <3>2. SnapDict(s) \in Present => Snap(s) \in owed'
      <4>1. <<"features", Absent>> \in Signals(i) \cap Awaits(Snap(s))
        BY <2>1, CallsDiffer DEF Signals, Awaits
      <4> QED
        BY <1>4, <2>2, <4>1
    <3>3. BlockFollows(s)'
      BY <1>1, <1>2, <2>2, <3>1 DEF BlockFollows, FollowInv, Follow, Block, Sound
    <3>4. SnapFollows(s)'
      BY <1>2, <3>2 DEF SnapFollows, Snap
    <3> QED
      BY <3>3, <3>4
  <2>6. \A s \in Scopes : Sound(mesh'[s]) => DOMAIN mesh'[s] = {"block", "snap", "touched"}
    BY <2>2 DEF FollowInv, Follow, Sound
  <2> QED
    BY <1>1, <1>2, <2>3, <2>4, <2>5, <2>6 DEF FollowInv, Follow
<1>6. CASE Succeeds(i) /\ i.region # Absent
  <2>0. PICK t \in Scopes : t = i.region
    BY <1>1, <1>6, ConsumerCases
  <2>1. /\ t \in Scopes
        /\ i.region = t
        /\ i.command \in {"blockMesh", "snappyHexMesh", "renumberMesh", "createBaffles"}
    BY <1>1, <1>6, <2>0, ConsumerCases
  <2>2. /\ mesh' = [mesh EXCEPT ![t] = Made(i, t)]
        /\ edges' = edges
        /\ owed' = owed \ {i}
        /\ i.command = "blockMesh" \/ Sound(mesh[t])
    BY <1>6, <2>1 DEF Succeeds, Sound
  <2>3. /\ DOMAIN Made(i, t) = {"block", "snap", "touched"}
        /\ Made(i, t).block = IF i.command = "blockMesh" THEN content[BlockDict(t)] ELSE mesh[t].block
        /\ i.command = "snappyHexMesh" =>
              Made(i, t).snap = <<content[SnapDict(t)], content[TriSurface], edges>>
        /\ i.command \notin {"blockMesh", "snappyHexMesh"} => Made(i, t).snap = mesh[t].snap
    BY <1>1, <2>1, <2>2, MadeIs
  <2>4. /\ mesh'[t] = Made(i, t)
        /\ \A s \in Scopes : s # t => mesh'[s] = mesh[s]
    BY <2>1, <2>2 DEF FollowInv, MeshInv, MeshesHold
  <2>5. EdgesFollow'
    <3>1. Features # i
      BY <2>1, CallsDiffer
    <3> QED
      BY <1>1, <1>2, <2>2, <3>1 DEF EdgesFollow, Features, FollowInv, Follow
  <2>6. ASSUME NEW s \in Scopes, s # t
        PROVE  /\ BlockFollows(s)' /\ SnapFollows(s)'
               /\ Sound(mesh'[s]) => DOMAIN mesh'[s] = {"block", "snap", "touched"}
    <3>1. Block(s) # i /\ Snap(s) # i
      BY <2>1, <2>6, CallsDiffer
    <3>2. mesh'[s] = mesh[s]
      BY <2>4, <2>6
    <3> QED
      BY <1>1, <1>2, <2>2, <3>1, <3>2 DEF BlockFollows, SnapFollows, Block, Snap, FollowInv, Follow, Sound
  <2>7. BlockFollows(t)'
    <3>1. CASE i.command = "blockMesh"
      <4>1. mesh'[t].block = content'[BlockDict(t)]
        BY <1>1, <2>3, <2>4, <3>1
      <4> QED
        BY <4>1 DEF BlockFollows
    <3>2. CASE i.command # "blockMesh"
      <4>1. Block(t) # i /\ Sound(mesh[t])
        BY <2>1, <2>2, <3>2, CallsDiffer
      <4>2. mesh'[t].block = mesh[t].block
        BY <2>3, <2>4, <3>2
      <4>3. BlockFollows(t)
        BY <2>1 DEF FollowInv, Follow
      <4> QED
        BY <1>1, <1>2, <2>2, <4>1, <4>2, <4>3 DEF BlockFollows, Block, Sound
    <3> QED
      BY <3>1, <3>2
  <2>8. SnapFollows(t)'
    <3>1. CASE i.command = "blockMesh"
      <4>1. <<"base", t>> \in Signals(i) \cap Awaits(Snap(t))
        BY <2>1, <3>1, CallsDiffer DEF Signals, Awaits
      <4>2. SnapDict(t) \in Present => Snap(t) \in owed'
        BY <1>4, <2>1, <2>2, <4>1
      <4> QED
        BY <1>2, <4>2 DEF SnapFollows, Snap
    <3>2. CASE i.command = "snappyHexMesh"
      <4>1. mesh'[t].snap = <<content'[SnapDict(t)], content'[TriSurface], edges'>>
        BY <1>1, <2>2, <2>3, <2>4, <3>2
      <4> QED
        BY <4>1 DEF SnapFollows
    <3>3. CASE i.command \notin {"blockMesh", "snappyHexMesh"}
      <4>1. Snap(t) # i /\ Sound(mesh[t])
        BY <2>1, <2>2, <3>3, CallsDiffer
      <4>2. mesh'[t].snap = mesh[t].snap
        BY <2>3, <2>4, <3>3
      <4>3. SnapFollows(t)
        BY <2>1 DEF FollowInv, Follow
      <4> QED
        BY <1>1, <1>2, <2>2, <4>1, <4>2, <4>3 DEF SnapFollows, Snap, Sound
    <3> QED
      BY <3>1, <3>2, <3>3
  <2>9. ASSUME NEW s \in Scopes
        PROVE  /\ BlockFollows(s)' /\ SnapFollows(s)'
               /\ Sound(mesh'[s]) => DOMAIN mesh'[s] = {"block", "snap", "touched"}
    <3>1. CASE s = t
      BY <2>3, <2>4, <2>7, <2>8, <3>1
    <3>2. CASE s # t
      BY <2>6, <3>2
    <3> QED
      BY <3>1, <3>2
  <2> QED
    BY <1>1, <1>2, <2>2, <2>5, <2>9 DEF FollowInv, Follow, Sound
<1> QED
  BY <1>1, <1>3, <1>5, <1>6

LEMMA FollowStep == FollowInv /\ [MeshNext]_mvars => FollowInv'
<1> SUFFICES ASSUME FollowInv, [MeshNext]_mvars PROVE PlanHolds' /\ Follow'
  BY MeshInvStep DEF FollowInv
<1>1. ASSUME NEW b \in Bundles, NEW h \in HintLists, Author(b, h)
      PROVE  PlanHolds' /\ Follow'
  BY <1>1, AuthorPlans, FollowAuthor
<1>2. ASSUME NEW c \in UNION {kSubset(n, Files) : n \in 0 .. MaxChanges}, NEW d \in SUBSET c,
             NEW h \in HintLists, AcceptDelta(c \ d, d, h)
      PROVE  PlanHolds' /\ Follow'
  <2>1. c \ d \subseteq Files /\ d \subseteq Files /\ (c \ d) \cap d = {}
    BY DeltasAreFiles
  <2>2. PlanHolds'
    BY <1>2, <2>1, DeltaPlans
  <2>3. Follow'
    BY <1>2, <2>1, FollowDelta
  <2> QED
    BY <2>2, <2>3
<1>3. CASE RunConsumer
  <2>1. plan # <<>> /\ UNCHANGED <<content, affected>> /\ plan' \in {<<>>, Tail(plan)}
        /\ owed \ {Head(plan)} \subseteq owed'
    BY <1>3 DEF RunConsumer, Succeeds, Fails, Advance, Stop
  <2> QED
    BY <1>3, <2>1, FollowConsumer, PlanGoesOn DEF FollowInv
<1>4. ASSUME UNCHANGED <<content, edges, mesh, owed, affected, deltas>>,
             plan # <<>>, plan' \in {<<>>, Tail(plan)}
      PROVE  PlanHolds' /\ Follow'
  BY <1>4, FollowSame, PlanGoesOn DEF FollowInv
<1>5. CASE DeliverWrites
  <2>1. UNCHANGED <<content, edges, mesh, owed, affected, deltas>>
        /\ plan # <<>> /\ plan' \in {<<>>, Tail(plan)}
    BY <1>5 DEF DeliverWrites, Advance, disk
  <2> QED
    BY <1>4, <2>1
<1>6. CASE CheckMesh
  <2>1. UNCHANGED <<content, edges, mesh, owed, affected, deltas>>
        /\ plan # <<>> /\ plan' \in {<<>>, Tail(plan)}
    BY <1>6 DEF CheckMesh, Advance, Stop, disk
  <2> QED
    BY <1>4, <2>1
<1>7. CASE AbandonPlan
  <2>1. UNCHANGED <<content, edges, mesh, owed, affected, deltas>>
        /\ plan # <<>> /\ plan' \in {<<>>, Tail(plan)}
    BY <1>7 DEF AbandonPlan, Stop, disk
  <2> QED
    BY <1>4, <2>1
<1>8. CASE UNCHANGED mvars
  <2>1. UNCHANGED <<content, edges, mesh, owed, affected, deltas, plan>>
    BY <1>8 DEF mvars
  <2>2. PlanHolds'
    BY <2>1 DEF FollowInv, PlanHolds, Present
  <2> QED
    BY <2>1, <2>2, FollowSame
<1> QED
  BY <1>1, <1>2, <1>3, <1>5, <1>6, <1>7, <1>8 DEF MeshNext

\* If every command compiled since the first authoring ran to its end, the
\* meshes and the feature edges of a finished case are those its files describe:
\* the closure over generated outputs and the producer order miss nobody, for
\* every set of scopes, files and commands asked for
\* (contracts/execution_scopes.py, auto_consumers_for_delta;
\* case_build_graph.py, _stable_dependency_order).
THEOREM MeshFollowsFilesCorrect == MeshSpec => []MeshFollowsFiles
<1>1. MeshInit => FollowInv
  BY MeshInvInit, FollowInit DEF FollowInv
<1>2. FollowInv => MeshFollowsFiles
  <2> SUFFICES ASSUME FollowInv, Finishable, owed = {}
               PROVE  /\ \A s \in Scopes :
                           /\ content[BlockDict(s)] # Absent => mesh[s].block = content[BlockDict(s)]
                           /\ content[SnapDict(s)] # Absent =>
                                 mesh[s].snap = <<content[SnapDict(s)], content[TriSurface], edges>>
                      /\ edges # Absent /\ content[FeatureDict] # Absent =>
                           edges = <<content[FeatureDict], content[TriSurface]>>
    BY DEF MeshFollowsFiles
  <2>1. ASSUME NEW s \in Scopes
        PROVE  Sound(mesh[s])
    <3>1. Passed(s) /\ manifest[s] = Digest(s)
      BY DEF Finishable, StaleScopes, Passed
    <3>2. Sound(evidence[s].of) /\ evidence[s].of = manifest[s].artifacts[PolyMesh(s)]
      BY <3>1 DEF FollowInv, MeshInv, EvidenceHolds
    <3>3. Digest(s).artifacts[PolyMesh(s)] = mesh[s]
      <4>1. PolyMesh(s) \in Dependencies(operations, s)
        BY DEF Dependencies
      <4>2. Artifact(PolyMesh(s)) = mesh[s]
        BY DEF Artifact, PolyMesh
      <4> QED
        BY <4>1, <4>2 DEF Digest
    <3> QED
      BY <3>1, <3>2, <3>3
  <2>2. \A s \in Scopes : BlockFollows(s) /\ SnapFollows(s)
    BY DEF FollowInv, Follow
  <2>3. EdgesFollow
    BY DEF FollowInv, Follow
  <2> QED
    BY <2>1, <2>2, <2>3, PathKinds, PresentIs DEF BlockFollows, SnapFollows, EdgesFollow
<1> QED
  BY <1>1, <1>2, FollowStep, PTL DEF MeshSpec
=============================================================================
