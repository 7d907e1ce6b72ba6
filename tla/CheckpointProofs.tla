-------------------------- MODULE CheckpointProofs --------------------------
(***************************************************************************)
(* Sessions that die at any step and are resumed, for any number of native *)
(* processes, of writes and of sessions: a resumed session knows every     *)
(* side effect of the earlier ones, runs no solver on an old approval, and *)
(* a session that died between two actions can always be resumed.          *)
(***************************************************************************)
EXTENDS Checkpoint, FiniteSetTheorems, TLAPS

States == {"ENGINEERING", "SOLVE_READY", "ENGINEERING_REVIEW_REQUIRED", "SIMULATION",
           "RUNTIME_REPAIR", "POSTPROCESSING", "RESULT_REVIEW_REQUIRED", "FAILED"}
Positions == {"idle", "turn", "decided", "members", "member", "performed", "completed",
              "native", "solver", "captured", "retry", "post", "over", "dead", "restart",
              "journal", "moving", "sealed"}
Actions == [kind : {"member", "runtime", "restart"}, done : BOOLEAN, native : BOOLEAN]
Rows == [status : {"spawn_intent", "running", "done", "reconciled"},
         kind   : {"member", "solver", "post"}]
Memories == [state : States, approved : BOOLEAN, tx : BOOLEAN,
             pending : Actions \cup {NoAction}, seal : Nat \cup {NoSeal}, events : Nat,
             case : Nat, rows : Seq(Rows)]
Lefts == {<<>>, <<"write">>, <<"native">>, <<"write", "native">>}

TypeOK ==
    /\ mem \in Memories /\ store \in Memories
    /\ at \in Positions
    /\ case \in Nat /\ ledger \in Seq(Rows) /\ alive \in BOOLEAN
    /\ journal \in BOOLEAN /\ prepared \in Nat
    /\ left \in Lefts
    /\ session \in Nat /\ granted \in Nat /\ clean \in BOOLEAN

Intended(k) == [kind |-> k, done |-> FALSE, native |-> k # "restart"]

\* A member of a plan is in hand.
InPlan ==
    \/ at \in {"members", "member", "completed"}
    \/ at \in {"native", "performed"} /\ mem.pending # NoAction /\ mem.pending.kind = "member"

\* Only the last row is in flight, and only while a native run is watched.
RowsHold ==
    /\ \A i \in DOMAIN ledger : InFlight(ledger[i]) => i = Len(ledger) /\ at \in {"native", "dead"}
    /\ alive => ledger # <<>> /\ LastRow.status = "running"
    /\ at = "native" =>
           /\ ledger # <<>>
           /\ LastRow.kind = IF mem.pending = NoAction THEN "post"
                             ELSE IF mem.pending.kind = "runtime" THEN "solver" ELSE "member"

PendingHolds ==
    /\ at \in {"idle", "turn", "decided", "members", "retry", "captured", "post", "restart"} =>
           mem.pending = NoAction
    /\ at = "member" => mem.pending = Intended("member")
    /\ at = "solver" => mem.pending = Intended("runtime")
    /\ at = "native" => mem.pending \in {NoAction, Intended("member"), Intended("runtime")}
    /\ at = "performed" =>
           \/ mem.pending = Intended("runtime")
           \/ mem.pending # NoAction /\ mem.pending.kind = "member" /\ ~mem.pending.done
    /\ at = "completed" => mem.pending # NoAction /\ mem.pending.kind = "member"
    /\ at = "native" /\ InPlan => store.pending = Intended("member")
    /\ at = "member" => store.pending = Intended("member")

\* The process of a member has ended and its event is not there yet.
Unrecorded ==
    \/ at = "native" /\ LastRow.kind = "member" /\ LastRow.status = "done"
    \/ at \in {"performed", "completed"} /\ mem.pending.kind = "member" /\ mem.pending.native

EventsHold ==
    /\ at \notin {"over", "dead"} =>
           EndedMembers(ledger) = IF Unrecorded THEN mem.events + 1 ELSE mem.events
    /\ \/ store.pending # NoAction /\ store.pending.kind = "member" /\ ~store.pending.done
       \/ EndedMembers(ledger) = EventsOf(store)

CaseHolds ==
    /\ at # "dead" => mem.case = case /\ mem.seal <= case
    /\ store.case <= case /\ store.seal <= case
    /\ at \in {"idle", "turn", "decided", "retry", "solver", "captured", "post", "restart",
               "journal"} \/ (at \in {"native", "performed"} /\ ~InPlan) =>
           mem.seal \in {NoSeal, case}

\* A transaction is on disk until it is completed; a repair is none.
PlanHolds ==
    /\ at \notin {"over", "dead"} /\ mem.tx => store.tx /\ (InPlan \/ at = "decided")
    /\ at = "turn" => mem.state = "ENGINEERING"
    /\ InPlan \/ at = "decided" => mem.state = IF mem.tx THEN "ENGINEERING" ELSE "RUNTIME_REPAIR"

\* The first write of a repair takes the seal away.
RepairHolds ==
    InPlan /\ ~mem.tx =>
        /\ mem.seal < case
        /\ \/ mem.seal = NoSeal
           \/ at \in {"members", "performed"} /\ left \in {<<"write">>, <<"write", "native">>}
        /\ at = "performed" /\ mem.pending.native => mem.seal = NoSeal
        /\ at = "completed" => mem.seal = NoSeal

\* What is left of a plan is refused, or asks the user.
LeftHolds ==
    /\ left # <<>> =>
           /\ \/ InPlan \/ at \in {"over", "dead"}
              \/ at = "idle" /\ mem.state = "ENGINEERING_REVIEW_REQUIRED"
              \/ at = "restart" /\ mem.seal # case
           /\ \/ store.tx \/ store.case < case
              \/ store.state = "RUNTIME_REPAIR" /\ store.seal < case
    /\ InPlan /\ at \notin {"members", "completed"} => left # <<>>

RestartHolds ==
    /\ at \in {"journal", "moving", "sealed"} => store.pending = Intended("restart")
    /\ prepared # 3 \/ journal =>
           at \in {"journal", "moving", "dead"} /\ store.pending = Intended("restart")
    /\ at = "journal" => ~journal

ApprovalHolds ==
    /\ at # "dead" /\ mem.approved => granted = session
    /\ at = "solver" \/ (at = "native" /\ mem.pending = Intended("runtime")) => mem.approved

CleanHolds == at \in {"idle", "turn"} \/ (at = "dead" /\ clean) => Acceptable(store, FALSE)

Inv ==
    /\ TypeOK /\ RowsHold /\ PendingHolds /\ EventsHold /\ CaseHolds /\ PlanHolds
    /\ RepairHolds /\ LeftHolds /\ RestartHolds /\ ApprovalHolds /\ CleanHolds

(***************************************************************************)
(* Rows and the ended members among them.                                  *)
(***************************************************************************)
LEMMA EndedFinite ==
    ASSUME NEW rows \in Seq(Rows), NEW P \in SUBSET DOMAIN rows
    PROVE  IsFiniteSet(P)
<1>1. DOMAIN rows = 1 .. Len(rows) /\ Len(rows) \in Nat
  OBVIOUS
<1>2. IsFiniteSet(1 .. Len(rows))
  BY <1>1, FS_Interval
<1> QED
  BY <1>1, <1>2, FS_Subset

LEMMA EndedType ==
    ASSUME NEW rows \in Seq(Rows)
    PROVE  EndedMembers(rows) \in Nat
<1> DEFINE E == {i \in DOMAIN rows : rows[i].kind = "member" /\ rows[i].status = "done"}
<1>1. IsFiniteSet(E)
  BY EndedFinite
<1> QED
  BY <1>1, FS_CardinalityType DEF EndedMembers

LEMMA EndedAppend ==
    ASSUME NEW rows \in Seq(Rows), NEW r \in Rows, r.status # "done"
    PROVE  /\ EndedMembers(Append(rows, r)) = EndedMembers(rows)
           /\ Append(rows, r) \in Seq(Rows)
           /\ Last(Append(rows, r)) = r
           /\ Len(Append(rows, r)) = Len(rows) + 1
           /\ \A i \in DOMAIN rows : Append(rows, r)[i] = rows[i]
<1> DEFINE E(rs) == {i \in DOMAIN rs : rs[i].kind = "member" /\ rs[i].status = "done"}
<1>1. /\ DOMAIN Append(rows, r) = 1 .. (Len(rows) + 1) /\ DOMAIN rows = 1 .. Len(rows)
      /\ Append(rows, r)[Len(rows) + 1] = r /\ Len(Append(rows, r)) = Len(rows) + 1
      /\ \A i \in 1 .. Len(rows) : Append(rows, r)[i] = rows[i]
  OBVIOUS
<1>2. E(Append(rows, r)) = E(rows)
  BY <1>1
<1>3. EndedMembers(Append(rows, r)) = EndedMembers(rows)
  BY <1>2 DEF EndedMembers
<1>4. Last(Append(rows, r)) = r
  BY <1>1 DEF Last
<1>5. Append(rows, r) \in Seq(Rows)
  OBVIOUS
<1> QED
  BY <1>1, <1>3, <1>4, <1>5

\* The last row goes on.
LEMMA LastRowGoesOn ==
    ASSUME NEW rows \in Seq(Rows), rows # <<>>, Last(rows).status # "done",
           NEW status \in {"running", "done"},
           NEW next, next = [rows EXCEPT ![Len(rows)].status = status]
    PROVE  /\ next \in Seq(Rows) /\ next # <<>> /\ Len(next) = Len(rows)
           /\ Last(next).status = status /\ Last(next).kind = Last(rows).kind
           /\ \A i \in DOMAIN next \ {Len(next)} : next[i] = rows[i]
           /\ EndedMembers(next) = IF status = "done" /\ Last(rows).kind = "member"
                                   THEN EndedMembers(rows) + 1 ELSE EndedMembers(rows)
<1> DEFINE E(rs) == {i \in DOMAIN rs : rs[i].kind = "member" /\ rs[i].status = "done"}
<1> DEFINE n == Len(rows)
<1>1. n \in Nat /\ n > 0 /\ DOMAIN rows = 1 .. n /\ rows[n] \in Rows /\ Last(rows) = rows[n]
  BY DEF Last
<1>2. [rows[n] EXCEPT !.status = status] \in Rows
  BY <1>1 DEF Rows
<1>3. next = [rows EXCEPT ![n] = [rows[n] EXCEPT !.status = status]]
  OBVIOUS
<1>4. /\ next \in Seq(Rows) /\ DOMAIN next = 1 .. n /\ Len(next) = n
      /\ next[n] = [rows[n] EXCEPT !.status = status]
      /\ \A i \in 1 .. n : i # n => next[i] = rows[i]
  BY <1>1, <1>2, <1>3
<1>5. next[n].status = status /\ next[n].kind = rows[n].kind
  BY <1>1, <1>4 DEF Rows
<1>6. /\ status = "done" /\ rows[n].kind = "member" => E(next) = E(rows) \cup {n}
      /\ ~(status = "done" /\ rows[n].kind = "member") => E(next) = E(rows)
  BY <1>1, <1>4, <1>5
<1>7. n \notin E(rows) /\ IsFiniteSet(E(rows))
  BY <1>1, EndedFinite
<1>8. Cardinality(E(rows) \cup {n}) = Cardinality(E(rows)) + 1
  BY <1>7, FS_AddElement
<1>9. EndedMembers(next) = Cardinality(E(next)) /\ EndedMembers(rows) = Cardinality(E(rows))
  BY DEF EndedMembers
<1>10. Last(next) = next[n]
  BY <1>4 DEF Last
<1>11. next # <<>>
  BY <1>1, <1>4
<1> HIDE DEF E, n
<1>12. EndedMembers(next) = IF status = "done" /\ Last(rows).kind = "member"
                            THEN EndedMembers(rows) + 1 ELSE EndedMembers(rows)
  BY <1>1, <1>6, <1>8, <1>9
<1> QED
  BY <1>1, <1>4, <1>5, <1>10, <1>11, <1>12 DEF n

LEMMA ReconciledRows ==
    ASSUME ledger \in Seq(Rows)
    PROVE  /\ Reconciled \in Seq(Rows)
           /\ EndedMembers(Reconciled) = EndedMembers(ledger)
           /\ \A i \in DOMAIN Reconciled : ~InFlight(Reconciled[i])
<1> DEFINE E(rs) == {i \in DOMAIN rs : rs[i].kind = "member" /\ rs[i].status = "done"}
<1>1. /\ DOMAIN Reconciled = DOMAIN ledger /\ DOMAIN ledger = 1 .. Len(ledger)
      /\ Len(ledger) \in Nat
  BY DEF Reconciled
<1>2. ASSUME NEW i \in DOMAIN ledger
      PROVE  /\ Reconciled[i] \in Rows /\ ~InFlight(Reconciled[i])
             /\ InFlight(ledger[i]) => Reconciled[i].status = "reconciled"
             /\ ~InFlight(ledger[i]) => Reconciled[i] = ledger[i]
  <2>1. ledger[i] \in Rows
    BY <1>1, <1>2
  <2> QED
    BY <1>2, <2>1 DEF Reconciled, InFlight, Rows
<1>3. E(Reconciled) = E(ledger)
  BY <1>1, <1>2 DEF InFlight
<1>4. Reconciled \in [1 .. Len(ledger) -> Rows]
  BY <1>1, <1>2 DEF Reconciled
<1>5. EndedMembers(Reconciled) = EndedMembers(ledger)
  BY <1>3 DEF EndedMembers
<1>6. Reconciled \in Seq(Rows)
  BY <1>1, <1>4
<1> QED
  BY <1>1, <1>2, <1>5, <1>6

(***************************************************************************)
(* What a save leaves in checkpoint.json.                                  *)
(***************************************************************************)
LEMMA SavedFields ==
    ASSUME TypeOK, NEW m \in Memories
    PROVE  /\ Saved(m) \in Memories
           /\ Saved(m).state = m.state /\ Saved(m).approved = m.approved
           /\ Saved(m).tx = m.tx /\ Saved(m).pending = m.pending /\ Saved(m).seal = m.seal
           /\ Saved(m).events = m.events /\ Saved(m).case = case /\ Saved(m).rows = ledger
BY DEF TypeOK, Saved, Memories

LEMMA InitHolds == Init => Inv
<1>1. ASSUME Init PROVE TypeOK
  <2>1. <<>> \in Seq(Rows)
    OBVIOUS
  <2>2. Fresh \in Memories
    BY <2>1 DEF Fresh, Memories, States
  <2> QED
    BY <1>1, <2>1, <2>2 DEF Init, TypeOK, Positions, Lefts
<1>2. ASSUME Init PROVE EndedMembers(ledger) = 0
  <2>1. {i \in DOMAIN ledger : ledger[i].kind = "member" /\ ledger[i].status = "done"} = {}
    BY <1>2 DEF Init
  <2> QED
    BY <2>1, FS_EmptySet DEF EndedMembers
<1>3. ASSUME Init
      PROVE  RowsHold /\ PendingHolds /\ CaseHolds /\ PlanHolds /\ RepairHolds /\ LeftHolds
             /\ RestartHolds /\ ApprovalHolds
  BY <1>3
     DEF Init, Fresh, RowsHold, PendingHolds, CaseHolds, PlanHolds, RepairHolds, LeftHolds,
         RestartHolds, ApprovalHolds, InPlan, NoSeal
<1>4. ASSUME Init PROVE EventsHold
  BY <1>2, <1>4 DEF Init, Fresh, EventsHold, Unrecorded, EventsOf
<1>5. ASSUME Init PROVE CleanHolds
  BY <1>5
     DEF Init, Fresh, CleanHolds, Acceptable, InputsUnchanged, Interrupted, Uncertain,
         LedgerKnown, SealHolds, NoSeal
<1> QED
  BY <1>1, <1>3, <1>4, <1>5 DEF Inv

(***************************************************************************)
(* Where a session stands.                                                 *)
(***************************************************************************)
LEMMA NothingRuns ==
    ASSUME Inv, at \notin {"native", "dead"}
    PROVE  ~alive /\ \A i \in DOMAIN ledger : ~InFlight(ledger[i])
<1>1. \A i \in DOMAIN ledger : ~InFlight(ledger[i])
  BY DEF Inv, RowsHold
<1>2. alive => Len(ledger) \in DOMAIN ledger /\ InFlight(ledger[Len(ledger)])
  BY DEF Inv, TypeOK, RowsHold, LastRow, Last, InFlight
<1> QED
  BY <1>1, <1>2

\* Between two plans, nothing is in hand and the seal is of the case.
LEMMA BetweenPlans ==
    ASSUME Inv,
           at \in {"idle", "turn", "decided", "retry", "captured", "post", "restart"}
    PROVE  /\ mem.pending = NoAction /\ mem.seal \in {NoSeal, case} /\ mem.case = case
           /\ case \in Nat
           /\ EndedMembers(ledger) = mem.events /\ prepared = 3 /\ ~journal
           /\ at # "decided" => ~mem.tx
           /\ at \notin {"idle", "restart"} => left = <<>>
<1>1. ~InPlan /\ ~Unrecorded
  BY DEF InPlan, Unrecorded
<1>2. mem.pending = NoAction
  BY DEF Inv, PendingHolds
<1>3. mem.seal \in {NoSeal, case} /\ mem.case = case
  BY DEF Inv, CaseHolds
<1>4. EndedMembers(ledger) = mem.events
  BY <1>1 DEF Inv, EventsHold
<1>5. prepared = 3 /\ ~journal
  BY DEF Inv, RestartHolds
<1>6. at # "decided" => ~mem.tx
  BY <1>1 DEF Inv, PlanHolds
<1>7. at \notin {"idle", "restart"} => left = <<>>
  BY <1>1 DEF Inv, LeftHolds
<1>8. case \in Nat
  BY DEF Inv, TypeOK
<1> QED
  BY <1>2, <1>3, <1>4, <1>5, <1>6, <1>7, <1>8

LEMMA WithinPlan ==
    ASSUME Inv, InPlan
    PROVE  /\ mem.state = IF mem.tx THEN "ENGINEERING" ELSE "RUNTIME_REPAIR"
           /\ mem.tx => store.tx
           /\ mem.case = case /\ mem.seal <= case /\ case \in Nat
           /\ ~mem.tx => mem.seal < case
           /\ prepared = 3 /\ ~journal
<1>1. at \notin {"over", "dead", "journal", "moving"}
  BY DEF InPlan
<1>2. mem.case = case /\ mem.seal <= case /\ case \in Nat
  BY <1>1 DEF Inv, CaseHolds, TypeOK
<1>3. /\ mem.state = IF mem.tx THEN "ENGINEERING" ELSE "RUNTIME_REPAIR"
      /\ mem.tx => store.tx
  BY <1>1 DEF Inv, PlanHolds
<1>4. ~mem.tx => mem.seal < case
  BY DEF Inv, RepairHolds
<1>5. prepared = 3 /\ ~journal
  BY <1>1 DEF Inv, RestartHolds
<1> QED
  BY <1>2, <1>3, <1>4, <1>5

LEMMA AnAction ==
    ASSUME NEW a \in Actions
    PROVE  /\ a # NoAction
           /\ a.kind \in {"member", "runtime", "restart"} /\ a.done \in BOOLEAN
           /\ a.native \in BOOLEAN
           /\ [a EXCEPT !.done = TRUE] \in Actions
           /\ [a EXCEPT !.done = TRUE].kind = a.kind /\ [a EXCEPT !.done = TRUE].done
           /\ [a EXCEPT !.done = TRUE].native = a.native
BY CheckpointAssumption DEF Actions

LEMMA Intentions ==
    /\ Intended("member") = [kind |-> "member", done |-> FALSE, native |-> TRUE]
    /\ Intended("runtime") = [kind |-> "runtime", done |-> FALSE, native |-> TRUE]
    /\ Intended("restart") = [kind |-> "restart", done |-> FALSE, native |-> FALSE]
    /\ [kind |-> "member", done |-> FALSE, native |-> FALSE] \in Actions
    /\ Intended("member") \in Actions /\ Intended("runtime") \in Actions
    /\ Intended("restart") \in Actions
    /\ \A a \in Actions : a # NoAction
<1>1. /\ Intended("member") = [kind |-> "member", done |-> FALSE, native |-> TRUE]
      /\ Intended("runtime") = [kind |-> "runtime", done |-> FALSE, native |-> TRUE]
      /\ Intended("restart") = [kind |-> "restart", done |-> FALSE, native |-> FALSE]
  BY DEF Intended
<1>2. /\ [kind |-> "member", done |-> FALSE, native |-> FALSE] \in Actions
      /\ [kind |-> "member", done |-> FALSE, native |-> TRUE] \in Actions
      /\ [kind |-> "runtime", done |-> FALSE, native |-> TRUE] \in Actions
      /\ [kind |-> "restart", done |-> FALSE, native |-> FALSE] \in Actions
  BY DEF Actions
<1>3. /\ Intended("member") \in Actions /\ Intended("runtime") \in Actions
      /\ Intended("restart") \in Actions
  BY <1>1, <1>2
<1>4. \A a \in Actions : a # NoAction
  BY AnAction
<1> QED
  BY <1>1, <1>2, <1>3, <1>4

LEMMA Performed ==
    ASSUME Inv, at = "performed"
    PROVE  /\ mem.pending \in Actions /\ ~mem.pending.done
           /\ mem.pending.kind = "member" =>
                /\ InPlan /\ left # <<>>
                /\ ~mem.tx /\ mem.pending.native => mem.seal = NoSeal
                /\ EndedMembers(ledger) = IF mem.pending.native THEN mem.events + 1
                                          ELSE mem.events
           /\ mem.pending.kind # "member" =>
                /\ ~InPlan /\ mem.pending = Intended("runtime")
                /\ EndedMembers(ledger) = mem.events
<1>1. mem.pending \in Actions \cup {NoAction}
  BY DEF Inv, TypeOK, Memories
<1>2. \/ mem.pending = Intended("runtime")
      \/ mem.pending # NoAction /\ mem.pending.kind = "member" /\ ~mem.pending.done
  BY DEF Inv, PendingHolds
<1>3. mem.pending \in Actions /\ ~mem.pending.done
  BY <1>1, <1>2, Intentions
<1>4. InPlan <=> mem.pending.kind = "member"
  BY <1>3, Intentions DEF InPlan
<1>5. Unrecorded <=> mem.pending.kind = "member" /\ mem.pending.native
  BY DEF Unrecorded
<1>6. EndedMembers(ledger) = IF Unrecorded THEN mem.events + 1 ELSE mem.events
  BY DEF Inv, EventsHold
<1>7. InPlan /\ ~mem.tx /\ mem.pending.native => mem.seal = NoSeal
  BY DEF Inv, RepairHolds
<1>8. InPlan => left # <<>>
  BY DEF Inv, LeftHolds
<1> QED
  BY <1>2, <1>3, <1>4, <1>5, <1>6, <1>7, <1>8

LEMMA Watching ==
    ASSUME Inv, at = "native"
    PROVE  /\ ledger # <<>> /\ prepared = 3 /\ ~journal /\ mem.case = case /\ case \in Nat
           /\ mem.seal <= case /\ LastRow \in Rows
           /\ \/ mem.pending = NoAction /\ LastRow.kind = "post" /\ ~InPlan
              \/ /\ mem.pending = Intended("runtime") /\ LastRow.kind = "solver" /\ ~InPlan
                 /\ mem.approved
              \/ /\ mem.pending = Intended("member") /\ LastRow.kind = "member" /\ InPlan
                 /\ store.pending = Intended("member")
           /\ EndedMembers(ledger) = IF LastRow.kind = "member" /\ LastRow.status = "done"
                                     THEN mem.events + 1 ELSE mem.events
           /\ ~InPlan => mem.seal \in {NoSeal, case} /\ ~mem.tx /\ left = <<>>
<1>1. /\ ledger # <<>>
      /\ LastRow.kind = IF mem.pending = NoAction THEN "post"
                        ELSE IF mem.pending.kind = "runtime" THEN "solver" ELSE "member"
  BY DEF Inv, RowsHold
<1>2. /\ mem.pending \in {NoAction, Intended("member"), Intended("runtime")}
      /\ InPlan => store.pending = Intended("member")
  BY DEF Inv, PendingHolds
<1>3. /\ Intended("member") # NoAction /\ Intended("member").kind = "member"
      /\ Intended("runtime") # NoAction /\ Intended("runtime").kind = "runtime"
  BY Intentions
<1>4. InPlan <=> mem.pending # NoAction /\ mem.pending.kind = "member"
  BY DEF InPlan
<1>5. mem.pending = Intended("runtime") => mem.approved
  BY DEF Inv, ApprovalHolds
<1>6. EndedMembers(ledger) = IF LastRow.kind = "member" /\ LastRow.status = "done"
                             THEN mem.events + 1 ELSE mem.events
  <2>1. Unrecorded <=> LastRow.kind = "member" /\ LastRow.status = "done"
    BY DEF Unrecorded
  <2> QED
    BY <2>1 DEF Inv, EventsHold
<1>7. prepared = 3 /\ ~journal
  BY DEF Inv, RestartHolds
<1>8. /\ mem.case = case /\ case \in Nat /\ mem.seal <= case
      /\ ~InPlan => mem.seal \in {NoSeal, case}
  BY DEF Inv, CaseHolds, TypeOK
<1>9. LastRow \in Rows
  BY <1>1 DEF Inv, TypeOK, LastRow, Last
<1>10. ~InPlan => ~mem.tx /\ left = <<>>
  BY DEF Inv, PlanHolds, LeftHolds
<1>11. \/ mem.pending = NoAction /\ LastRow.kind = "post" /\ ~InPlan
       \/ /\ mem.pending = Intended("runtime") /\ LastRow.kind = "solver" /\ ~InPlan
          /\ mem.approved
       \/ /\ mem.pending = Intended("member") /\ LastRow.kind = "member" /\ InPlan
          /\ store.pending = Intended("member")
  BY <1>1, <1>2, <1>3, <1>4, <1>5
<1> QED
  BY <1>1, <1>6, <1>7, <1>8, <1>9, <1>10, <1>11

LEMMA InRestart ==
    ASSUME Inv, at \in {"journal", "moving", "sealed"}
    PROVE  /\ left = <<>> /\ ~mem.tx /\ store.pending = Intended("restart")
           /\ mem.case = case /\ case \in Nat /\ mem.seal <= case
           /\ mem.seal \in Nat \cup {NoSeal}
           /\ EndedMembers(ledger) = mem.events
<1>1. ~InPlan /\ ~Unrecorded
  BY DEF InPlan, Unrecorded
<1>2. left = <<>> /\ ~mem.tx
  BY <1>1 DEF Inv, LeftHolds, PlanHolds
<1>3. store.pending = Intended("restart")
  BY DEF Inv, RestartHolds
<1>4. mem.case = case /\ case \in Nat /\ mem.seal <= case /\ mem.seal \in Nat \cup {NoSeal}
  BY DEF Inv, CaseHolds, TypeOK, Memories
<1>5. EndedMembers(ledger) = mem.events
  BY <1>1 DEF Inv, EventsHold
<1> QED
  BY <1>2, <1>3, <1>4, <1>5

LEMMA LeftOver ==
    ASSUME left \in Lefts, left # <<>>
    PROVE  /\ Tail(left) \in Lefts
           /\ Head(left) = "native" => left = <<"native">>
           /\ Head(left) # "native" => left \in {<<"write">>, <<"write", "native">>}
<1>1. CASE left = <<"write">>
  BY <1>1, Tail(left) = <<>> DEF Lefts
<1>2. CASE left = <<"native">>
  BY <1>2, Tail(left) = <<>> DEF Lefts
<1>3. CASE left = <<"write", "native">>
  BY <1>3, Tail(left) = <<"native">> DEF Lefts
<1> QED
  BY <1>1, <1>2, <1>3 DEF Lefts

(***************************************************************************)
(* One lemma for each action of a session: what holds before it, what it changes, *)
(* and the parts of the invariant afterwards.                              *)
(***************************************************************************)

LEMMA BeforeModelTurnHolds ==
    ASSUME Inv, BeforeModelTurn
    PROVE  Inv'
<1>1. /\ at = "idle"
      /\ mem.state = "ENGINEERING" /\ ~mem.tx /\ left = <<>>
      /\ mem.pending = NoAction /\ mem.seal \in {NoSeal, case} /\ mem.case = case
      /\ EndedMembers(ledger) = mem.events /\ prepared = 3 /\ ~journal
      /\ case \in Nat
      /\ ~alive /\ \A i \in DOMAIN ledger : ~InFlight(ledger[i])
  BY NothingRuns, BetweenPlans DEF BeforeModelTurn, Idle, Inv, LeftHolds, InPlan
<1>2. /\ at' = "turn"
      /\ UNCHANGED <<case, ledger, alive, journal, prepared, left, session, granted, clean>>
  BY <1>1 DEF BeforeModelTurn, Go, disk
<1>3. /\ mem' \in Memories
      /\ mem'.state = mem.state /\ mem'.approved = mem.approved /\ mem'.tx = mem.tx
      /\ mem'.pending = mem.pending /\ mem'.seal = mem.seal /\ mem'.events = mem.events
      /\ mem'.case = mem.case
  BY <1>1 DEF Inv, BeforeModelTurn, Go, TypeOK, Memories, States, Actions
<1>4. /\ store' \in Memories
      /\ store'.state = mem'.state /\ store'.approved = mem'.approved
      /\ store'.tx = mem'.tx /\ store'.pending = mem'.pending /\ store'.seal = mem'.seal
      /\ store'.events = mem'.events /\ store'.case = case
      /\ store'.rows = ledger
  BY <1>1, <1>2, <1>3, SavedFields DEF Inv, BeforeModelTurn, Save, TypeOK
<1>5. TypeOK'
  BY <1>1, <1>2, <1>3, <1>4 DEF Inv, TypeOK, Positions, Lefts
<1>6. RowsHold' /\ PendingHolds' /\ EventsHold'
  BY <1>1, <1>2, <1>3, <1>4 DEF Inv, RowsHold, PendingHolds, EventsHold, EventsOf,
       Unrecorded, InPlan, Intended, LastRow
<1>7. CaseHolds' /\ PlanHolds'
  BY <1>1, <1>2, <1>3, <1>4 DEF Inv, CaseHolds, PlanHolds, InPlan, NoSeal
<1>8. RepairHolds' /\ LeftHolds'
  BY <1>1, <1>2, <1>3, <1>4 DEF Inv, RepairHolds, LeftHolds, InPlan, NoSeal
<1>9. RestartHolds' /\ ApprovalHolds'
  BY <1>1, <1>2, <1>3, <1>4 DEF Inv, RestartHolds, ApprovalHolds, Intended
<1>10. CleanHolds'
  BY <1>1, <1>2, <1>3, <1>4 DEF Inv, CleanHolds, Acceptable, InputsUnchanged, Interrupted,
       Uncertain, LedgerKnown, SealHolds, NoSeal
<1> QED
  BY <1>5, <1>6, <1>7, <1>8, <1>9, <1>10 DEF Inv

LEMMA TransactionStartHolds ==
    ASSUME Inv, TransactionStart
    PROVE  Inv'
<1>1. /\ at = "turn"
      /\ mem.state = "ENGINEERING" /\ ~mem.tx /\ left = <<>>
      /\ mem.pending = NoAction /\ mem.seal \in {NoSeal, case} /\ mem.case = case
      /\ EndedMembers(ledger) = mem.events /\ prepared = 3 /\ ~journal
      /\ case \in Nat
      /\ ~alive /\ \A i \in DOMAIN ledger : ~InFlight(ledger[i])
  BY NothingRuns, BetweenPlans DEF TransactionStart, Inv, PlanHolds
<1>2. /\ at' = "decided"
      /\ UNCHANGED <<case, ledger, alive, journal, prepared, left, session, granted, clean>>
  BY <1>1 DEF TransactionStart, Go, disk
<1>3. /\ mem' \in Memories
      /\ mem'.state = mem.state /\ mem'.approved = mem.approved /\ mem'.tx = TRUE
      /\ mem'.pending = mem.pending /\ mem'.seal = mem.seal /\ mem'.events = mem.events
      /\ mem'.case = mem.case
  BY <1>1 DEF Inv, TransactionStart, Go, TypeOK, Memories, States, Actions
<1>4. /\ store' \in Memories
      /\ store'.state = mem'.state /\ store'.approved = mem'.approved
      /\ store'.tx = mem'.tx /\ store'.pending = mem'.pending /\ store'.seal = mem'.seal
      /\ store'.events = mem'.events /\ store'.case = case
      /\ store'.rows = ledger
  BY <1>1, <1>2, <1>3, SavedFields DEF Inv, TransactionStart, Save, TypeOK
<1>5. TypeOK'
  BY <1>1, <1>2, <1>3, <1>4 DEF Inv, TypeOK, Positions, Lefts
<1>6. RowsHold' /\ PendingHolds' /\ EventsHold'
  BY <1>1, <1>2, <1>3, <1>4 DEF Inv, RowsHold, PendingHolds, EventsHold, EventsOf,
       Unrecorded, InPlan, Intended, LastRow
<1>7. CaseHolds' /\ PlanHolds'
  BY <1>1, <1>2, <1>3, <1>4 DEF Inv, CaseHolds, PlanHolds, InPlan, NoSeal
<1>8. RepairHolds' /\ LeftHolds'
  BY <1>1, <1>2, <1>3, <1>4 DEF Inv, RepairHolds, LeftHolds, InPlan, NoSeal
<1>9. RestartHolds' /\ ApprovalHolds'
  BY <1>1, <1>2, <1>3, <1>4 DEF Inv, RestartHolds, ApprovalHolds, Intended
<1>10. CleanHolds'
  BY <1>1, <1>2, <1>3, <1>4 DEF Inv, CleanHolds
<1> QED
  BY <1>5, <1>6, <1>7, <1>8, <1>9, <1>10 DEF Inv

LEMMA TurnWithoutDecisionHolds ==
    ASSUME Inv, TurnWithoutDecision
    PROVE  Inv'
<1>1. /\ at = "turn"
      /\ mem.state = "ENGINEERING" /\ ~mem.tx /\ left = <<>>
      /\ Acceptable(store, FALSE)
      /\ mem.pending = NoAction /\ mem.seal \in {NoSeal, case} /\ mem.case = case
      /\ EndedMembers(ledger) = mem.events /\ prepared = 3 /\ ~journal
      /\ case \in Nat
      /\ ~alive /\ \A i \in DOMAIN ledger : ~InFlight(ledger[i])
  BY NothingRuns, BetweenPlans DEF TurnWithoutDecision, Inv, PlanHolds, CleanHolds
<1>2. /\ at' = "idle"
      /\ UNCHANGED <<mem, store, case, ledger, alive, journal, prepared, left, session, granted, clean>>
  BY <1>1 DEF TurnWithoutDecision, Go, disk
<1>3. TypeOK'
  BY <1>1, <1>2 DEF Inv, TypeOK, Positions, Lefts
<1>4. RowsHold' /\ PendingHolds' /\ EventsHold'
  BY <1>1, <1>2 DEF Inv, RowsHold, PendingHolds, EventsHold, EventsOf, Unrecorded, InPlan,
       Intended, LastRow
<1>5. CaseHolds' /\ PlanHolds'
  BY <1>1, <1>2 DEF Inv, CaseHolds, PlanHolds, InPlan, NoSeal
<1>6. RepairHolds' /\ LeftHolds'
  BY <1>1, <1>2 DEF Inv, RepairHolds, LeftHolds, InPlan, NoSeal
<1>7. RestartHolds' /\ ApprovalHolds'
  BY <1>1, <1>2 DEF Inv, RestartHolds, ApprovalHolds, Intended
<1>8. CleanHolds'
  BY <1>1, <1>2 DEF Inv, CleanHolds, Acceptable, InputsUnchanged, Interrupted, Uncertain,
       LedgerKnown, SealHolds, NoSeal
<1> QED
  BY <1>3, <1>4, <1>5, <1>6, <1>7, <1>8 DEF Inv

LEMMA MemberIntentHolds ==
    ASSUME Inv, MemberIntent
    PROVE  Inv'
<1>1. /\ at = "members"
      /\ left # <<>> /\ left \in Lefts /\ EndedMembers(ledger) = mem.events
      /\ ~mem.tx => mem.seal = NoSeal \/ left \in {<<"write">>, <<"write", "native">>}
      /\ mem.state = IF mem.tx THEN "ENGINEERING" ELSE "RUNTIME_REPAIR"
      /\ mem.tx => store.tx
      /\ mem.case = case /\ mem.seal <= case /\ case \in Nat
      /\ ~mem.tx => mem.seal < case
      /\ prepared = 3 /\ ~journal
      /\ ~alive /\ \A i \in DOMAIN ledger : ~InFlight(ledger[i])
  BY NothingRuns, WithinPlan DEF MemberIntent, InPlan, Inv, TypeOK, RepairHolds, EventsHold,
       Unrecorded
<1>2. /\ at' = IF Head(left) = "native" THEN "member" ELSE "performed"
      /\ UNCHANGED <<case, ledger, alive, journal, prepared, left, session, granted, clean>>
  BY <1>1 DEF MemberIntent, Go, disk
<1>3. /\ mem' \in Memories
      /\ mem'.state = mem.state /\ mem'.approved = mem.approved /\ mem'.tx = mem.tx
      /\ mem'.pending = [kind |-> "member", done |-> FALSE, native |-> Head(left) = "native"]
      /\ mem'.seal = mem.seal /\ mem'.events = mem.events /\ mem'.case = mem.case
  BY <1>1 DEF Inv, MemberIntent, Go, TypeOK, Memories, States, Actions
<1>4. /\ store' \in Memories
      /\ store'.state = mem'.state /\ store'.approved = mem'.approved
      /\ store'.tx = mem'.tx /\ store'.pending = mem'.pending /\ store'.seal = mem'.seal
      /\ store'.events = mem'.events /\ store'.case = case
      /\ store'.rows = ledger
  BY <1>1, <1>2, <1>3, SavedFields DEF Inv, MemberIntent, Save, TypeOK
<1>5. /\ mem'.pending # NoAction /\ mem'.pending.kind = "member" /\ ~mem'.pending.done
      /\ \/ /\ at' = "member" /\ mem'.pending = Intended("member")
            /\ left = <<"native">> /\ (~mem.tx => mem.seal = NoSeal)
         \/ /\ at' = "performed" /\ ~mem'.pending.native
            /\ left \in {<<"write">>, <<"write", "native">>}
  <2>1. CASE Head(left) = "native"
    <3>1. at' = "member" /\ mem'.pending = Intended("member")
      BY <1>2, <1>3, <2>1, Intentions
    <3>2. left = <<"native">> /\ left \notin {<<"write">>, <<"write", "native">>}
      BY <1>1, <2>1, LeftOver
    <3>3. mem'.pending.kind = "member" /\ ~mem'.pending.done
      BY <3>1, Intentions
    <3>4. mem'.pending # NoAction
      BY <3>1, Intentions
    <3> QED
      BY <1>1, <3>1, <3>2, <3>3, <3>4
  <2>2. CASE Head(left) # "native"
    <3>1. /\ at' = "performed"
          /\ mem'.pending = [kind |-> "member", done |-> FALSE, native |-> FALSE]
      BY <1>2, <1>3, <2>2
    <3>2. left \in {<<"write">>, <<"write", "native">>}
      BY <1>1, <2>2, LeftOver
    <3>3. /\ mem'.pending.kind = "member"
          /\ ~mem'.pending.done /\ ~mem'.pending.native
      BY <3>1
    <3>4. mem'.pending # NoAction
      BY <3>1, Intentions
    <3> QED
      BY <3>1, <3>2, <3>3, <3>4
  <2> QED
    BY <2>1, <2>2
<1>6. TypeOK'
  BY <1>1, <1>2, <1>3, <1>4, <1>5 DEF Inv, TypeOK, Positions, Lefts
<1>7. RowsHold' /\ PendingHolds' /\ EventsHold'
  BY <1>1, <1>2, <1>3, <1>4, <1>5 DEF Inv, RowsHold, PendingHolds, EventsHold, EventsOf,
       Unrecorded, InPlan, Intended, LastRow
<1>8. CaseHolds' /\ PlanHolds'
  BY <1>1, <1>2, <1>3, <1>4, <1>5 DEF Inv, CaseHolds, PlanHolds, InPlan, NoSeal
<1>9. RepairHolds' /\ LeftHolds'
  BY <1>1, <1>2, <1>3, <1>4, <1>5 DEF Inv, RepairHolds, LeftHolds, InPlan, NoSeal
<1>10. RestartHolds' /\ ApprovalHolds'
  BY <1>1, <1>2, <1>3, <1>4, <1>5 DEF Inv, RestartHolds, ApprovalHolds, Intended
<1>11. CleanHolds'
  BY <1>1, <1>2, <1>3, <1>4, <1>5 DEF Inv, CleanHolds
<1> QED
  BY <1>6, <1>7, <1>8, <1>9, <1>10, <1>11 DEF Inv

LEMMA CommitBundleHolds ==
    ASSUME Inv, CommitBundle
    PROVE  Inv'
<1>1. /\ at = "decided"
      /\ left = <<>> /\ store.case <= case /\ store.seal <= case
      /\ store.case \in Nat /\ store.seal \in Nat \cup {NoSeal} /\ NoSeal = -1
      /\ mem.state = IF mem.tx THEN "ENGINEERING" ELSE "RUNTIME_REPAIR"
      /\ mem.tx => store.tx
      /\ mem.pending = NoAction /\ mem.seal \in {NoSeal, case} /\ mem.case = case
      /\ EndedMembers(ledger) = mem.events /\ prepared = 3 /\ ~journal
      /\ case \in Nat
      /\ ~alive /\ \A i \in DOMAIN ledger : ~InFlight(ledger[i])
  BY NothingRuns, BetweenPlans DEF CommitBundle, Inv, TypeOK, Memories, PlanHolds,
       CaseHolds, NoSeal
<1>2. /\ at' = "members"
      /\ left' \in Lefts \ {<<>>} /\ case' \in Nat /\ case' >= case
      /\ mem.state = "RUNTIME_REPAIR" => left' \in {<<"write">>, <<"write", "native">>}
      /\ left' # <<"native">> => case' > case
      /\ UNCHANGED <<store, ledger, alive, journal, prepared, session, granted, clean>>
  <2>1. left' \in Plans /\ case' = IF left' = <<"native">> THEN case ELSE case + 1
    BY DEF CommitBundle
  <2>2. /\ left' \in {<<"write">>, <<"write", "native">>, <<"native">>}
        /\ mem.state = "RUNTIME_REPAIR" => left' \in {<<"write">>, <<"write", "native">>}
    BY <2>1 DEF Plans
  <2>3. case' \in Nat /\ case' >= case /\ (left' # <<"native">> => case' > case)
    BY <1>1, <2>1
  <2>4. left' \in Lefts \ {<<>>}
    BY <2>2 DEF Lefts
  <2> QED
    BY <2>2, <2>3, <2>4 DEF CommitBundle, Go
<1>3. /\ mem' \in Memories
      /\ mem'.state = mem.state /\ mem'.approved = mem.approved /\ mem'.tx = mem.tx
      /\ mem'.pending = mem.pending /\ mem'.seal = mem.seal /\ mem'.events = mem.events
      /\ mem'.case = case'
  <2>1. mem' = [mem EXCEPT !.case = case'] /\ mem \in Memories /\ case' \in Nat
    BY <1>2 DEF Inv, TypeOK, CommitBundle, Go
  <2> QED
    BY <2>1 DEF Memories
<1>4. TypeOK'
  BY <1>1, <1>2, <1>3 DEF Inv, TypeOK, Positions, Lefts
<1>5. RowsHold' /\ PendingHolds' /\ EventsHold'
  BY <1>1, <1>2, <1>3 DEF Inv, RowsHold, PendingHolds, EventsHold, EventsOf, Unrecorded,
       InPlan, Intended, LastRow
<1>6. CaseHolds' /\ PlanHolds'
  BY <1>1, <1>2, <1>3 DEF Inv, CaseHolds, PlanHolds, InPlan, NoSeal
<1>7. RepairHolds' /\ LeftHolds'
  BY <1>1, <1>2, <1>3 DEF Inv, RepairHolds, LeftHolds, InPlan, NoSeal
<1>8. RestartHolds' /\ ApprovalHolds'
  BY <1>1, <1>2, <1>3 DEF Inv, RestartHolds, ApprovalHolds, Intended
<1>9. CleanHolds'
  BY <1>1, <1>2, <1>3 DEF Inv, CleanHolds
<1> QED
  BY <1>4, <1>5, <1>6, <1>7, <1>8, <1>9 DEF Inv

LEMMA MemberCompletedHolds ==
    ASSUME Inv, MemberCompleted
    PROVE  Inv'
<1>1. /\ at = "performed"
      /\ InPlan /\ left # <<>> /\ mem.pending.kind = "member" /\ mem.pending \in Actions
      /\ ~mem.tx /\ mem.pending.native => mem.seal = NoSeal
      /\ EndedMembers(ledger) = IF mem.pending.native THEN mem.events + 1 ELSE mem.events
      /\ mem.state = IF mem.tx THEN "ENGINEERING" ELSE "RUNTIME_REPAIR"
      /\ mem.tx => store.tx
      /\ mem.case = case /\ mem.seal <= case /\ case \in Nat
      /\ ~mem.tx => mem.seal < case
      /\ prepared = 3 /\ ~journal
      /\ ~alive /\ \A i \in DOMAIN ledger : ~InFlight(ledger[i])
  BY NothingRuns, WithinPlan, Performed DEF MemberCompleted
<1>2. /\ at' = "completed"
      /\ left' = Tail(left) /\ left' \in Lefts
      /\ UNCHANGED <<case, ledger, alive, journal, prepared, session, granted, clean>>
  <2>1. Tail(left) \in Lefts
    BY <1>1, LeftOver DEF Inv, TypeOK
  <2> QED
    BY <2>1 DEF MemberCompleted, Go, disk
<1>3. /\ mem' \in Memories
      /\ mem'.state = mem.state /\ mem'.approved = mem.approved /\ mem'.tx = mem.tx
      /\ mem'.pending = [mem.pending EXCEPT !.done = TRUE]
      /\ mem'.seal = IF mem.state = "RUNTIME_REPAIR" /\ ~mem.pending.native THEN NoSeal ELSE mem.seal
      /\ mem'.events = mem.events /\ mem'.case = mem.case
  BY <1>1 DEF Inv, MemberCompleted, Go, TypeOK, Memories, States, Actions
<1>4. /\ store' \in Memories
      /\ store'.state = mem'.state /\ store'.approved = mem'.approved
      /\ store'.tx = mem'.tx /\ store'.pending = mem'.pending /\ store'.seal = mem'.seal
      /\ store'.events = mem'.events /\ store'.case = case
      /\ store'.rows = ledger
  BY <1>1, <1>2, <1>3, SavedFields DEF Inv, MemberCompleted, Save, TypeOK
<1>5. /\ mem'.pending \in Actions /\ mem'.pending # NoAction
      /\ mem'.pending.kind = "member" /\ mem'.pending.done
      /\ mem'.pending.native = mem.pending.native
  BY <1>1, <1>3, AnAction
<1>6. TypeOK'
  BY <1>1, <1>2, <1>3, <1>4, <1>5 DEF Inv, TypeOK, Positions, Lefts
<1>7. RowsHold' /\ PendingHolds' /\ EventsHold'
  BY <1>1, <1>2, <1>3, <1>4, <1>5 DEF Inv, RowsHold, PendingHolds, EventsHold, EventsOf,
       Unrecorded, InPlan, Intended, LastRow
<1>8. CaseHolds' /\ PlanHolds'
  BY <1>1, <1>2, <1>3, <1>4, <1>5 DEF Inv, CaseHolds, PlanHolds, InPlan, NoSeal
<1>9. RepairHolds' /\ LeftHolds'
  BY <1>1, <1>2, <1>3, <1>4, <1>5 DEF Inv, RepairHolds, LeftHolds, InPlan, NoSeal
<1>10. RestartHolds' /\ ApprovalHolds'
  BY <1>1, <1>2, <1>3, <1>4, <1>5 DEF Inv, RestartHolds, ApprovalHolds, Intended
<1>11. CleanHolds'
  BY <1>1, <1>2, <1>3, <1>4, <1>5 DEF Inv, CleanHolds
<1> QED
  BY <1>6, <1>7, <1>8, <1>9, <1>10, <1>11 DEF Inv

LEMMA EventAppendedHolds ==
    ASSUME Inv, EventAppended
    PROVE  Inv'
<1>1. /\ at = "completed"
      /\ InPlan /\ mem.pending.kind = "member"
      /\ ~mem.tx => mem.seal = NoSeal
      /\ EndedMembers(ledger) = IF mem.pending.native THEN mem.events + 1 ELSE mem.events
      /\ mem.state = IF mem.tx THEN "ENGINEERING" ELSE "RUNTIME_REPAIR"
      /\ mem.tx => store.tx
      /\ mem.case = case /\ mem.seal <= case /\ case \in Nat
      /\ ~mem.tx => mem.seal < case
      /\ prepared = 3 /\ ~journal
      /\ ~alive /\ \A i \in DOMAIN ledger : ~InFlight(ledger[i])
  BY NothingRuns, WithinPlan DEF EventAppended, InPlan, Inv, PendingHolds, RepairHolds,
       EventsHold, Unrecorded
<1>2. /\ at' = "members"
      /\ UNCHANGED <<store, case, ledger, alive, journal, prepared, left, session, granted, clean>>
  BY <1>1 DEF EventAppended, Go, disk
<1>3. /\ mem' \in Memories
      /\ mem'.state = mem.state /\ mem'.approved = mem.approved /\ mem'.tx = mem.tx
      /\ mem'.pending = NoAction /\ mem'.seal = mem.seal
      /\ mem'.events = IF mem.pending.native THEN mem.events + 1 ELSE mem.events
      /\ mem'.case = mem.case
  <2>1. /\ mem \in Memories
        /\ mem' = [mem EXCEPT !.pending = NoAction,
                             !.events = IF mem.pending.native THEN mem.events + 1 ELSE mem.events]
    BY DEF Inv, TypeOK, EventAppended, Go
  <2>2. (IF mem.pending.native THEN mem.events + 1 ELSE mem.events) \in Nat
    BY <2>1 DEF Memories
  <2> QED
    BY <2>1, <2>2 DEF Memories
<1>4. TypeOK'
  BY <1>1, <1>2, <1>3 DEF Inv, TypeOK, Positions, Lefts
<1>5. RowsHold' /\ PendingHolds' /\ EventsHold'
  BY <1>1, <1>2, <1>3 DEF Inv, RowsHold, PendingHolds, EventsHold, EventsOf, Unrecorded,
       InPlan, Intended, LastRow
<1>6. CaseHolds' /\ PlanHolds'
  BY <1>1, <1>2, <1>3 DEF Inv, CaseHolds, PlanHolds, InPlan, NoSeal
<1>7. RepairHolds' /\ LeftHolds'
  BY <1>1, <1>2, <1>3 DEF Inv, RepairHolds, LeftHolds, InPlan, NoSeal
<1>8. RestartHolds' /\ ApprovalHolds'
  BY <1>1, <1>2, <1>3 DEF Inv, RestartHolds, ApprovalHolds, Intended
<1>9. CleanHolds'
  BY <1>1, <1>2, <1>3 DEF Inv, CleanHolds
<1> QED
  BY <1>4, <1>5, <1>6, <1>7, <1>8, <1>9 DEF Inv

LEMMA TransactionCompletedHolds ==
    ASSUME Inv, TransactionCompleted
    PROVE  Inv'
<1>1. /\ at = "members"
      /\ left = <<>> /\ mem.state = "ENGINEERING" /\ mem.tx
      /\ EndedMembers(ledger) = mem.events
      /\ mem.state = IF mem.tx THEN "ENGINEERING" ELSE "RUNTIME_REPAIR"
      /\ mem.tx => store.tx
      /\ mem.case = case /\ mem.seal <= case /\ case \in Nat
      /\ ~mem.tx => mem.seal < case
      /\ prepared = 3 /\ ~journal
      /\ ~alive /\ \A i \in DOMAIN ledger : ~InFlight(ledger[i])
  BY NothingRuns, WithinPlan DEF TransactionCompleted, InPlan, Inv, EventsHold, Unrecorded
<1>2. /\ at' = "idle"
      /\ UNCHANGED <<case, ledger, alive, journal, prepared, left, session, granted, clean>>
  BY <1>1 DEF TransactionCompleted, Go, disk
<1>3. /\ mem' \in Memories
      /\ mem'.state \in {"ENGINEERING", "SOLVE_READY", "ENGINEERING_REVIEW_REQUIRED"}
      /\ ~mem'.tx /\ mem'.pending = NoAction /\ mem'.seal \in {case, NoSeal}
      /\ mem'.approved = mem.approved /\ mem'.events = mem.events /\ mem'.case = mem.case
  <2>1. PICK s \in {"ENGINEERING", "SOLVE_READY", "ENGINEERING_REVIEW_REQUIRED"} :
            mem' = [mem EXCEPT !.tx = FALSE, !.pending = NoAction, !.state = s,
                               !.seal = IF s = "SOLVE_READY" THEN case ELSE NoSeal]
    BY DEF TransactionCompleted, Go, AfterTransaction, Inv, TypeOK, Memories
  <2>2. mem \in Memories
    BY DEF Inv, TypeOK
  <2> QED
    BY <1>1, <2>1, <2>2 DEF Memories, States
<1>4. /\ store' \in Memories
      /\ store'.state = mem'.state /\ store'.approved = mem'.approved
      /\ store'.tx = mem'.tx /\ store'.pending = mem'.pending /\ store'.seal = mem'.seal
      /\ store'.events = mem'.events /\ store'.case = case
      /\ store'.rows = ledger
  BY <1>1, <1>2, <1>3, SavedFields DEF Inv, TransactionCompleted, Save, TypeOK
<1>5. TypeOK'
  BY <1>1, <1>2, <1>3, <1>4 DEF Inv, TypeOK, Positions, Lefts
<1>6. RowsHold' /\ PendingHolds' /\ EventsHold'
  BY <1>1, <1>2, <1>3, <1>4 DEF Inv, RowsHold, PendingHolds, EventsHold, EventsOf,
       Unrecorded, InPlan, Intended, LastRow
<1>7. CaseHolds' /\ PlanHolds'
  BY <1>1, <1>2, <1>3, <1>4 DEF Inv, CaseHolds, PlanHolds, InPlan, NoSeal
<1>8. RepairHolds' /\ LeftHolds'
  BY <1>1, <1>2, <1>3, <1>4 DEF Inv, RepairHolds, LeftHolds, InPlan, NoSeal
<1>9. RestartHolds' /\ ApprovalHolds'
  BY <1>1, <1>2, <1>3, <1>4 DEF Inv, RestartHolds, ApprovalHolds, Intended
<1>10. CleanHolds'
  BY <1>1, <1>2, <1>3, <1>4 DEF Inv, CleanHolds, Acceptable, InputsUnchanged, Interrupted,
       Uncertain, LedgerKnown, SealHolds, NoSeal
<1> QED
  BY <1>5, <1>6, <1>7, <1>8, <1>9, <1>10 DEF Inv

LEMMA TransactionInterruptedHolds ==
    ASSUME Inv, TransactionInterrupted
    PROVE  Inv'
<1>1. /\ at \in {"decided", "members", "performed"} /\ mem.tx /\ store.tx
      /\ mem.seal <= case /\ case \in Nat /\ prepared = 3 /\ ~journal
      /\ \/ mem.pending # NoAction /\ mem.pending.kind = "member" /\ ~mem.pending.done
         \/ EndedMembers(ledger) = mem.events /\ mem.pending = NoAction
      /\ ~alive /\ \A i \in DOMAIN ledger : ~InFlight(ledger[i])
  <2>1. at \in {"decided", "members", "performed"} /\ mem.tx /\ store.tx
    BY DEF TransactionInterrupted, Inv, PlanHolds
  <2>2. mem.seal <= case /\ case \in Nat /\ prepared = 3 /\ ~journal
    BY <2>1 DEF Inv, TypeOK, CaseHolds, RestartHolds
  <2>3. InPlan \/ at = "decided"
    BY <2>1 DEF Inv, PlanHolds
  <2>4. CASE at = "performed"
    <3>1. mem.pending.kind = "member"
      BY <2>3, <2>4 DEF InPlan
    <3>2. mem.pending # NoAction /\ ~mem.pending.done
      BY <2>4, Performed, Intentions
    <3>3. ~alive /\ \A i \in DOMAIN ledger : ~InFlight(ledger[i])
      BY <2>4, NothingRuns
    <3>4. \/ mem.pending # NoAction /\ mem.pending.kind = "member" /\ ~mem.pending.done
          \/ EndedMembers(ledger) = mem.events /\ mem.pending = NoAction
      BY <3>1, <3>2
    <3> QED
      BY <2>1, <2>2, <3>3, <3>4
  <2>5. CASE at # "performed"
    <3>1. mem.pending = NoAction
      BY <2>1, <2>5 DEF Inv, PendingHolds
    <3>2. EndedMembers(ledger) = mem.events
      BY <2>1, <2>5 DEF Inv, EventsHold, Unrecorded
    <3> QED
      BY <2>1, <2>2, <3>1, <3>2, NothingRuns
  <2> QED
    BY <2>4, <2>5
<1>2. /\ at' = "over"
      /\ UNCHANGED <<case, ledger, alive, journal, prepared, left, session, granted, clean>>
  BY <1>1 DEF TransactionInterrupted, Go, disk
<1>3. /\ mem' \in Memories
      /\ mem'.state = "FAILED" /\ mem'.approved = mem.approved /\ mem'.tx = mem.tx
      /\ mem'.pending = mem.pending /\ mem'.seal = mem.seal /\ mem'.events = mem.events
      /\ mem'.case = mem.case
  BY <1>1 DEF Inv, TransactionInterrupted, Go, TypeOK, Memories, States, Actions
<1>4. /\ store' \in Memories
      /\ store'.state = mem.state /\ store'.approved = mem.approved /\ store'.tx = mem.tx
      /\ store'.pending = mem.pending /\ store'.seal = mem.seal
      /\ store'.events = mem.events /\ store'.case = case
      /\ store'.rows = ledger
  BY <1>1, <1>2, <1>3, SavedFields DEF Inv, TransactionInterrupted, Save, TypeOK
<1>5. TypeOK'
  BY <1>1, <1>2, <1>3, <1>4 DEF Inv, TypeOK, Positions, Lefts
<1>6. RowsHold' /\ PendingHolds' /\ EventsHold'
  BY <1>1, <1>2, <1>3, <1>4 DEF Inv, RowsHold, PendingHolds, EventsHold, EventsOf,
       Unrecorded, InPlan, Intended, LastRow
<1>7. CaseHolds' /\ PlanHolds'
  BY <1>1, <1>2, <1>3, <1>4 DEF Inv, CaseHolds, PlanHolds, InPlan, NoSeal
<1>8. RepairHolds' /\ LeftHolds'
  BY <1>1, <1>2, <1>3, <1>4 DEF Inv, RepairHolds, LeftHolds, InPlan, NoSeal
<1>9. RestartHolds' /\ ApprovalHolds'
  BY <1>1, <1>2, <1>3, <1>4 DEF Inv, RestartHolds, ApprovalHolds, Intended
<1>10. CleanHolds'
  BY <1>1, <1>2, <1>3, <1>4 DEF Inv, CleanHolds
<1> QED
  BY <1>5, <1>6, <1>7, <1>8, <1>9, <1>10 DEF Inv

LEMMA AnnounceHolds ==
    ASSUME Inv, Announce
    PROVE  Inv'
<1>1. /\ at = "native"
      /\ ledger # <<>> /\ LastRow \in Rows /\ prepared = 3 /\ ~journal
      /\ mem.case = case /\ case \in Nat /\ mem.seal <= case
      /\ \/ mem.pending = NoAction /\ LastRow.kind = "post" /\ ~InPlan
         \/ /\ mem.pending = Intended("runtime") /\ LastRow.kind = "solver" /\ ~InPlan
            /\ mem.approved
         \/ /\ mem.pending = Intended("member") /\ LastRow.kind = "member" /\ InPlan
            /\ store.pending = Intended("member")
      /\ EndedMembers(ledger) = IF LastRow.kind = "member" /\ LastRow.status = "done"
                                THEN mem.events + 1 ELSE mem.events
      /\ ~InPlan => mem.seal \in {NoSeal, case} /\ ~mem.tx /\ left = <<>>
      /\ InPlan => /\ mem.state = IF mem.tx THEN "ENGINEERING" ELSE "RUNTIME_REPAIR"
                   /\ mem.tx => store.tx
                   /\ ~mem.tx => mem.seal < case
  BY Watching, WithinPlan DEF Announce
<1>2. /\ at' = at
      /\ UNCHANGED <<mem, case, ledger, alive, journal, prepared, left, session, granted, clean>>
  BY <1>1 DEF Announce, Go, disk
<1>3. /\ store' \in Memories
      /\ store'.state = mem.state /\ store'.approved = mem.approved /\ store'.tx = mem.tx
      /\ store'.pending = mem.pending /\ store'.seal = mem.seal
      /\ store'.events = mem.events /\ store'.case = case
      /\ store'.rows = ledger
  BY <1>1, <1>2, SavedFields DEF Inv, Announce, Save, TypeOK
<1>4. /\ Intended("member") # NoAction /\ Intended("member").kind = "member"
      /\ Intended("runtime") # NoAction /\ Intended("runtime").kind = "runtime"
      /\ ~Intended("member").done /\ Intended("member").native
  BY Intentions
<1>5. TypeOK'
  BY <1>1, <1>2, <1>3, <1>4 DEF Inv, TypeOK, Positions, Lefts
<1>6. RowsHold' /\ PendingHolds' /\ EventsHold'
  BY <1>1, <1>2, <1>3, <1>4 DEF Inv, RowsHold, PendingHolds, EventsHold, EventsOf,
       Unrecorded, InPlan, Intended, LastRow
<1>7. CaseHolds' /\ PlanHolds'
  BY <1>1, <1>2, <1>3, <1>4 DEF Inv, CaseHolds, PlanHolds, InPlan, NoSeal
<1>8. RepairHolds'
  BY <1>1, <1>2, <1>3, <1>4 DEF Inv, RepairHolds, LeftHolds, InPlan, NoSeal
<1>9. LeftHolds'
  <2>1. InPlan' <=> InPlan
    BY <1>2 DEF InPlan
  <2>2. LeftHolds
    BY DEF Inv
  <2> QED
    BY <1>1, <1>2, <1>3, <2>1, <2>2 DEF LeftHolds
<1>10. RestartHolds' /\ ApprovalHolds'
  BY <1>1, <1>2, <1>3, <1>4 DEF Inv, RestartHolds, ApprovalHolds, Intended
<1>11. CleanHolds'
  BY <1>1, <1>2, <1>3, <1>4 DEF Inv, CleanHolds
<1> QED
  BY <1>5, <1>6, <1>7, <1>8, <1>9, <1>10, <1>11 DEF Inv

LEMMA SpawnHolds ==
    ASSUME Inv, Spawn
    PROVE  Inv'
<1>1. /\ at = "native"
      /\ LastRow.status = "spawn_intent"
      /\ ledger # <<>> /\ LastRow \in Rows /\ prepared = 3 /\ ~journal
      /\ mem.case = case /\ case \in Nat /\ mem.seal <= case
      /\ \/ mem.pending = NoAction /\ LastRow.kind = "post" /\ ~InPlan
         \/ /\ mem.pending = Intended("runtime") /\ LastRow.kind = "solver" /\ ~InPlan
            /\ mem.approved
         \/ /\ mem.pending = Intended("member") /\ LastRow.kind = "member" /\ InPlan
            /\ store.pending = Intended("member")
      /\ EndedMembers(ledger) = IF LastRow.kind = "member" /\ LastRow.status = "done"
                                THEN mem.events + 1 ELSE mem.events
      /\ ~InPlan => mem.seal \in {NoSeal, case} /\ ~mem.tx /\ left = <<>>
  BY Watching DEF Spawn
<1>2. /\ at' = "native"
      /\ alive' = TRUE
      /\ ledger' \in Seq(Rows) /\ ledger' # <<>>
      /\ LastRow'.status = "running" /\ LastRow'.kind = LastRow.kind
      /\ \A i \in DOMAIN ledger' : InFlight(ledger'[i]) => i = Len(ledger')
      /\ EndedMembers(ledger') = EndedMembers(ledger)
      /\ UNCHANGED <<mem, store, case, journal, prepared, left, session, granted, clean>>
  <2>1. /\ ledger \in Seq(Rows) /\ ledger # <<>> /\ Last(ledger).status # "done"
        /\ ledger' = [ledger EXCEPT ![Len(ledger)].status = "running"]
        /\ alive' = TRUE
        /\ UNCHANGED <<mem, store, case, journal, prepared, left, session, granted, clean, at>>
    BY <1>1 DEF Spawn, Advance, LastRow, Inv, TypeOK
  <2>2. /\ ledger' \in Seq(Rows) /\ ledger' # <<>> /\ Len(ledger') = Len(ledger)
        /\ Last(ledger').status = "running" /\ Last(ledger').kind = Last(ledger).kind
        /\ \A i \in DOMAIN ledger' \ {Len(ledger')} : ledger'[i] = ledger[i]
        /\ EndedMembers(ledger') = IF "running" = "done" /\ Last(ledger).kind = "member"
                                   THEN EndedMembers(ledger) + 1 ELSE EndedMembers(ledger)
    BY <2>1, LastRowGoesOn
  <2>3. \A i \in DOMAIN ledger : InFlight(ledger[i]) => i = Len(ledger)
    BY DEF Inv, RowsHold
  <2>4. DOMAIN ledger' = DOMAIN ledger /\ ledger'[Len(ledger')] = LastRow'
    BY <2>1 DEF LastRow, Last
  <2> QED
    BY <1>1, <2>1, <2>2, <2>3, <2>4 DEF LastRow
<1>3. /\ Intended("member") # NoAction /\ Intended("member").kind = "member"
      /\ Intended("runtime") # NoAction /\ Intended("runtime").kind = "runtime"
      /\ ~Intended("member").done /\ Intended("member").native
  BY Intentions
<1>4. TypeOK'
  BY <1>1, <1>2, <1>3 DEF Inv, TypeOK, Positions, Lefts
<1>5. RowsHold' /\ PendingHolds' /\ EventsHold'
  BY <1>1, <1>2, <1>3 DEF Inv, RowsHold, PendingHolds, EventsHold, EventsOf, Unrecorded,
       InPlan, Intended, LastRow
<1>6. CaseHolds' /\ PlanHolds'
  BY <1>1, <1>2, <1>3 DEF Inv, CaseHolds, PlanHolds, InPlan, NoSeal
<1>7. RepairHolds' /\ LeftHolds'
  BY <1>1, <1>2, <1>3 DEF Inv, RepairHolds, LeftHolds, InPlan, NoSeal
<1>8. RestartHolds' /\ ApprovalHolds'
  BY <1>1, <1>2, <1>3 DEF Inv, RestartHolds, ApprovalHolds, Intended
<1>9. CleanHolds'
  BY <1>1, <1>2, <1>3 DEF Inv, CleanHolds
<1> QED
  BY <1>4, <1>5, <1>6, <1>7, <1>8, <1>9 DEF Inv

LEMMA FinishHolds ==
    ASSUME Inv, Finish
    PROVE  Inv'
<1>1. /\ at = "native"
      /\ LastRow.status = "running"
      /\ ledger # <<>> /\ LastRow \in Rows /\ prepared = 3 /\ ~journal
      /\ mem.case = case /\ case \in Nat /\ mem.seal <= case
      /\ \/ mem.pending = NoAction /\ LastRow.kind = "post" /\ ~InPlan
         \/ /\ mem.pending = Intended("runtime") /\ LastRow.kind = "solver" /\ ~InPlan
            /\ mem.approved
         \/ /\ mem.pending = Intended("member") /\ LastRow.kind = "member" /\ InPlan
            /\ store.pending = Intended("member")
      /\ EndedMembers(ledger) = IF LastRow.kind = "member" /\ LastRow.status = "done"
                                THEN mem.events + 1 ELSE mem.events
      /\ ~InPlan => mem.seal \in {NoSeal, case} /\ ~mem.tx /\ left = <<>>
  BY Watching DEF Finish
<1>2. /\ at' = "native"
      /\ alive' = FALSE
      /\ ledger' \in Seq(Rows) /\ ledger' # <<>>
      /\ LastRow'.status = "done" /\ LastRow'.kind = LastRow.kind
      /\ \A i \in DOMAIN ledger' : ~InFlight(ledger'[i])
      /\ EndedMembers(ledger') = IF LastRow.kind = "member" THEN EndedMembers(ledger) + 1
                                 ELSE EndedMembers(ledger)
      /\ UNCHANGED <<mem, store, case, journal, prepared, left, session, granted, clean>>
  <2>1. /\ ledger \in Seq(Rows) /\ ledger # <<>> /\ Last(ledger).status # "done"
        /\ ledger' = [ledger EXCEPT ![Len(ledger)].status = "done"]
        /\ alive' = FALSE
        /\ UNCHANGED <<mem, store, case, journal, prepared, left, session, granted, clean, at>>
    BY <1>1 DEF Finish, Advance, LastRow, Inv, TypeOK
  <2>2. /\ ledger' \in Seq(Rows) /\ ledger' # <<>> /\ Len(ledger') = Len(ledger)
        /\ Last(ledger').status = "done" /\ Last(ledger').kind = Last(ledger).kind
        /\ \A i \in DOMAIN ledger' \ {Len(ledger')} : ledger'[i] = ledger[i]
        /\ EndedMembers(ledger') = IF "done" = "done" /\ Last(ledger).kind = "member"
                                   THEN EndedMembers(ledger) + 1 ELSE EndedMembers(ledger)
    BY <2>1, LastRowGoesOn
  <2>3. \A i \in DOMAIN ledger : InFlight(ledger[i]) => i = Len(ledger)
    BY DEF Inv, RowsHold
  <2>4. DOMAIN ledger' = DOMAIN ledger /\ ledger'[Len(ledger')] = LastRow'
    BY <2>1 DEF LastRow, Last
  <2> QED
    BY <1>1, <2>1, <2>2, <2>3, <2>4 DEF LastRow, InFlight
<1>3. /\ Intended("member") # NoAction /\ Intended("member").kind = "member"
      /\ Intended("runtime") # NoAction /\ Intended("runtime").kind = "runtime"
      /\ ~Intended("member").done /\ Intended("member").native
  BY Intentions
<1>4. TypeOK'
  BY <1>1, <1>2, <1>3 DEF Inv, TypeOK, Positions, Lefts
<1>5. RowsHold' /\ PendingHolds' /\ EventsHold'
  BY <1>1, <1>2, <1>3 DEF Inv, RowsHold, PendingHolds, EventsHold, EventsOf, Unrecorded,
       InPlan, Intended, LastRow
<1>6. CaseHolds' /\ PlanHolds'
  BY <1>1, <1>2, <1>3 DEF Inv, CaseHolds, PlanHolds, InPlan, NoSeal
<1>7. RepairHolds' /\ LeftHolds'
  BY <1>1, <1>2, <1>3 DEF Inv, RepairHolds, LeftHolds, InPlan, NoSeal
<1>8. RestartHolds' /\ ApprovalHolds'
  BY <1>1, <1>2, <1>3 DEF Inv, RestartHolds, ApprovalHolds, Intended
<1>9. CleanHolds'
  BY <1>1, <1>2, <1>3 DEF Inv, CleanHolds
<1> QED
  BY <1>4, <1>5, <1>6, <1>7, <1>8, <1>9 DEF Inv

LEMMA NativeReturnsHolds ==
    ASSUME Inv, NativeReturns
    PROVE  Inv'
<1>1. /\ at = "native"
      /\ LastRow.status = "done" /\ ~alive /\ \A i \in DOMAIN ledger : ~InFlight(ledger[i])
      /\ ledger # <<>> /\ LastRow \in Rows /\ prepared = 3 /\ ~journal
      /\ mem.case = case /\ case \in Nat /\ mem.seal <= case
      /\ \/ mem.pending = NoAction /\ LastRow.kind = "post" /\ ~InPlan
         \/ /\ mem.pending = Intended("runtime") /\ LastRow.kind = "solver" /\ ~InPlan
            /\ mem.approved
         \/ /\ mem.pending = Intended("member") /\ LastRow.kind = "member" /\ InPlan
            /\ store.pending = Intended("member")
      /\ EndedMembers(ledger) = IF LastRow.kind = "member" /\ LastRow.status = "done"
                                THEN mem.events + 1 ELSE mem.events
      /\ ~InPlan => mem.seal \in {NoSeal, case} /\ ~mem.tx /\ left = <<>>
  <2>1. at = "native" /\ LastRow.status = "done"
    BY DEF NativeReturns
  <2>2. ~alive
    BY <2>1 DEF Inv, RowsHold
  <2>3. \A i \in DOMAIN ledger : ~InFlight(ledger[i])
    BY <2>1 DEF Inv, RowsHold, LastRow, Last, InFlight
  <2> QED
    BY <2>1, <2>2, <2>3, Watching
<1>2. /\ at' = IF LastRow.kind = "post" THEN "post" ELSE "performed"
      /\ UNCHANGED <<mem, store, case, ledger, alive, journal, prepared, left, session, granted, clean>>
  BY <1>1 DEF NativeReturns, Go, disk
<1>3. /\ Intended("member") # NoAction /\ Intended("member").kind = "member"
      /\ Intended("runtime") # NoAction /\ Intended("runtime").kind = "runtime"
      /\ ~Intended("member").done /\ Intended("member").native
  BY Intentions
<1>4. TypeOK'
  BY <1>1, <1>2, <1>3 DEF Inv, TypeOK, Positions, Lefts
<1>5. RowsHold' /\ PendingHolds' /\ EventsHold'
  BY <1>1, <1>2, <1>3 DEF Inv, RowsHold, PendingHolds, EventsHold, EventsOf, Unrecorded,
       InPlan, Intended, LastRow
<1>6. CaseHolds' /\ PlanHolds'
  BY <1>1, <1>2, <1>3 DEF Inv, CaseHolds, PlanHolds, InPlan, NoSeal
<1>7. RepairHolds' /\ LeftHolds'
  BY <1>1, <1>2, <1>3 DEF Inv, RepairHolds, LeftHolds, InPlan, NoSeal
<1>8. RestartHolds' /\ ApprovalHolds'
  BY <1>1, <1>2, <1>3 DEF Inv, RestartHolds, ApprovalHolds, Intended
<1>9. CleanHolds'
  BY <1>1, <1>2, <1>3 DEF Inv, CleanHolds
<1> QED
  BY <1>4, <1>5, <1>6, <1>7, <1>8, <1>9 DEF Inv

LEMMA ReserveHolds ==
    ASSUME Inv, Reserve
    PROVE  Inv'
<1>1. /\ at \in {"member", "solver", "post"} /\ mem.case = case /\ case \in Nat
      /\ \/ at = "post" /\ mem.pending = NoAction /\ Row.kind = "post"
         \/ at = "solver" /\ mem.pending = Intended("runtime") /\ Row.kind = "solver"
         \/ at = "member" /\ mem.pending = Intended("member") /\ Row.kind = "member"
      /\ Row \in Rows /\ Row.status = "spawn_intent" /\ EndedMembers(ledger) = mem.events
      /\ ~alive /\ \A i \in DOMAIN ledger : ~InFlight(ledger[i])
  <2>1. at \in {"member", "solver", "post"}
    BY DEF Reserve
  <2>2. mem.case = case /\ case \in Nat
    BY <2>1 DEF Inv, CaseHolds, TypeOK
  <2>3. EndedMembers(ledger) = mem.events
    BY <2>1 DEF Inv, EventsHold, Unrecorded
  <2>4. \/ at = "post" /\ mem.pending = NoAction
        \/ at = "solver" /\ mem.pending = Intended("runtime")
        \/ at = "member" /\ mem.pending = Intended("member")
    BY <2>1 DEF Inv, PendingHolds
  <2>5. /\ Row.status = "spawn_intent"
        /\ Row.kind = IF at = "post" THEN "post"
                      ELSE IF mem.pending # NoAction /\ mem.pending.kind = "runtime"
                      THEN "solver" ELSE "member"
    BY DEF Row
  <2>6. Row \in Rows
    BY DEF Row, Rows
  <2> QED
    BY <2>1, <2>2, <2>3, <2>4, <2>5, <2>6, Intentions, NothingRuns
<1>2. /\ at' = "native"
      /\ ledger' \in Seq(Rows) /\ ledger' # <<>> /\ LastRow' = Row
      /\ \A i \in DOMAIN ledger' : InFlight(ledger'[i]) => i = Len(ledger')
      /\ EndedMembers(ledger') = EndedMembers(ledger)
      /\ UNCHANGED <<mem, store, case, alive, journal, prepared, left, session, granted, clean>>
  <2>1. /\ ledger \in Seq(Rows) /\ ledger' = Append(ledger, Row) /\ at' = "native"
        /\ UNCHANGED <<mem, store, case, alive, journal, prepared, left, session, granted, clean>>
    BY DEF Reserve, Inv, TypeOK
  <2>2. /\ EndedMembers(ledger') = EndedMembers(ledger) /\ ledger' \in Seq(Rows)
        /\ Last(ledger') = Row /\ Len(ledger') = Len(ledger) + 1
        /\ \A i \in DOMAIN ledger : ledger'[i] = ledger[i]
    BY <1>1, <2>1, EndedAppend
  <2>3. /\ DOMAIN ledger' = 1 .. (Len(ledger) + 1) /\ DOMAIN ledger = 1 .. Len(ledger)
        /\ Len(ledger) \in Nat /\ ledger' # <<>>
    BY <2>1, <2>2
  <2>4. \A i \in DOMAIN ledger' : i \in DOMAIN ledger \/ i = Len(ledger')
    BY <2>2, <2>3
  <2> QED
    BY <1>1, <2>1, <2>2, <2>3, <2>4 DEF LastRow
<1>3. /\ Intended("member") # NoAction /\ Intended("member").kind = "member"
      /\ Intended("runtime") # NoAction /\ Intended("runtime").kind = "runtime"
      /\ ~Intended("member").done /\ Intended("member").native
  BY Intentions
<1>4. TypeOK'
  BY <1>1, <1>2, <1>3 DEF Inv, TypeOK, Positions, Lefts
<1>5. RowsHold' /\ PendingHolds' /\ EventsHold'
  BY <1>1, <1>2, <1>3 DEF Inv, RowsHold, PendingHolds, EventsHold, EventsOf, Unrecorded,
       InPlan, Intended, LastRow
<1>6. CaseHolds' /\ PlanHolds'
  BY <1>1, <1>2, <1>3 DEF Inv, CaseHolds, PlanHolds, InPlan, NoSeal
<1>7. RepairHolds' /\ LeftHolds'
  BY <1>1, <1>2, <1>3 DEF Inv, RepairHolds, LeftHolds, InPlan, NoSeal
<1>8. RestartHolds' /\ ApprovalHolds'
  BY <1>1, <1>2, <1>3 DEF Inv, RestartHolds, ApprovalHolds, Intended
<1>9. CleanHolds'
  BY <1>1, <1>2, <1>3 DEF Inv, CleanHolds
<1> QED
  BY <1>4, <1>5, <1>6, <1>7, <1>8, <1>9 DEF Inv

LEMMA SolveHolds ==
    ASSUME Inv, Solve
    PROVE  Inv'
<1>1. /\ at = "idle"
      /\ mem.state = "SOLVE_READY" /\ ~mem.tx /\ left = <<>> /\ Acceptable(store, FALSE)
      /\ mem.pending = NoAction /\ mem.seal \in {NoSeal, case} /\ mem.case = case
      /\ EndedMembers(ledger) = mem.events /\ prepared = 3 /\ ~journal
      /\ case \in Nat
      /\ ~alive /\ \A i \in DOMAIN ledger : ~InFlight(ledger[i])
  BY NothingRuns, BetweenPlans DEF Solve, Idle, Inv, LeftHolds, InPlan, CleanHolds
<1>2. /\ at' = "idle"
      /\ granted' = session
      /\ UNCHANGED <<store, case, ledger, alive, journal, prepared, left, session, clean>>
  BY <1>1 DEF Solve, Go, disk
<1>3. /\ mem' \in Memories
      /\ mem'.state = "SIMULATION" /\ mem'.approved = TRUE /\ mem'.tx = mem.tx
      /\ mem'.pending = mem.pending /\ mem'.seal = mem.seal /\ mem'.events = mem.events
      /\ mem'.case = mem.case
  BY <1>1 DEF Inv, Solve, Go, TypeOK, Memories, States, Actions
<1>4. TypeOK'
  BY <1>1, <1>2, <1>3 DEF Inv, TypeOK, Positions, Lefts
<1>5. RowsHold' /\ PendingHolds' /\ EventsHold'
  BY <1>1, <1>2, <1>3 DEF Inv, RowsHold, PendingHolds, EventsHold, EventsOf, Unrecorded,
       InPlan, Intended, LastRow
<1>6. CaseHolds' /\ PlanHolds'
  BY <1>1, <1>2, <1>3 DEF Inv, CaseHolds, PlanHolds, InPlan, NoSeal
<1>7. RepairHolds' /\ LeftHolds'
  BY <1>1, <1>2, <1>3 DEF Inv, RepairHolds, LeftHolds, InPlan, NoSeal
<1>8. RestartHolds' /\ ApprovalHolds'
  BY <1>1, <1>2, <1>3 DEF Inv, RestartHolds, ApprovalHolds, Intended
<1>9. CleanHolds'
  BY <1>1, <1>2, <1>3 DEF Inv, CleanHolds, Acceptable, InputsUnchanged, Interrupted,
       Uncertain, LedgerKnown, SealHolds, NoSeal
<1> QED
  BY <1>4, <1>5, <1>6, <1>7, <1>8, <1>9 DEF Inv

LEMMA SolverIntentHolds ==
    ASSUME Inv, SolverIntent
    PROVE  Inv'
<1>1. /\ at \in {"idle", "retry"} /\ mem.state = "SIMULATION" /\ mem.approved
      /\ ~mem.tx /\ left = <<>> /\ granted = session
      /\ mem.pending = NoAction /\ mem.seal \in {NoSeal, case} /\ mem.case = case
      /\ EndedMembers(ledger) = mem.events /\ prepared = 3 /\ ~journal
      /\ case \in Nat
      /\ ~alive /\ \A i \in DOMAIN ledger : ~InFlight(ledger[i])
  BY NothingRuns, BetweenPlans DEF SolverIntent, Inv, LeftHolds, InPlan, ApprovalHolds
<1>2. /\ at' = "solver"
      /\ UNCHANGED <<case, ledger, alive, journal, prepared, left, session, granted, clean>>
  BY <1>1 DEF SolverIntent, Go, disk
<1>3. /\ mem' \in Memories
      /\ mem'.state = mem.state /\ mem'.approved = mem.approved /\ mem'.tx = mem.tx
      /\ mem'.pending = Intended("runtime") /\ mem'.seal = mem.seal
      /\ mem'.events = mem.events /\ mem'.case = mem.case
  <2>1. /\ mem \in Memories
        /\ mem' = [mem EXCEPT !.pending = [kind |-> "runtime", done |-> FALSE, native |-> TRUE]]
    BY DEF Inv, TypeOK, SolverIntent, Go
  <2>2. mem' = [mem EXCEPT !.pending = Intended("runtime")] /\ Intended("runtime") \in Actions
    BY <2>1, Intentions
  <2> QED
    BY <2>1, <2>2 DEF Memories
<1>4. /\ store' \in Memories
      /\ store'.state = mem'.state /\ store'.approved = mem'.approved
      /\ store'.tx = mem'.tx /\ store'.pending = mem'.pending /\ store'.seal = mem'.seal
      /\ store'.events = mem'.events /\ store'.case = case
      /\ store'.rows = ledger
  BY <1>1, <1>2, <1>3, SavedFields DEF Inv, SolverIntent, Save, TypeOK
<1>5. /\ Intended("member") # NoAction /\ Intended("member").kind = "member"
      /\ Intended("runtime") # NoAction /\ Intended("runtime").kind = "runtime"
      /\ ~Intended("member").done /\ Intended("member").native
  BY Intentions
<1>6. TypeOK'
  BY <1>1, <1>2, <1>3, <1>4, <1>5 DEF Inv, TypeOK, Positions, Lefts
<1>7. RowsHold' /\ PendingHolds' /\ EventsHold'
  BY <1>1, <1>2, <1>3, <1>4, <1>5 DEF Inv, RowsHold, PendingHolds, EventsHold, EventsOf,
       Unrecorded, InPlan, Intended, LastRow
<1>8. CaseHolds' /\ PlanHolds'
  BY <1>1, <1>2, <1>3, <1>4, <1>5 DEF Inv, CaseHolds, PlanHolds, InPlan, NoSeal
<1>9. RepairHolds' /\ LeftHolds'
  BY <1>1, <1>2, <1>3, <1>4, <1>5 DEF Inv, RepairHolds, LeftHolds, InPlan, NoSeal
<1>10. RestartHolds' /\ ApprovalHolds'
  BY <1>1, <1>2, <1>3, <1>4, <1>5 DEF Inv, RestartHolds, ApprovalHolds, Intended
<1>11. CleanHolds'
  BY <1>1, <1>2, <1>3, <1>4, <1>5 DEF Inv, CleanHolds
<1> QED
  BY <1>6, <1>7, <1>8, <1>9, <1>10, <1>11 DEF Inv

LEMMA SolverCapturedHolds ==
    ASSUME Inv, SolverCaptured
    PROVE  Inv'
<1>1. /\ at = "performed"
      /\ mem.pending = Intended("runtime") /\ ~InPlan /\ ~mem.tx /\ left = <<>>
      /\ mem.seal \in {NoSeal, case} /\ mem.case = case /\ case \in Nat
      /\ EndedMembers(ledger) = mem.events /\ prepared = 3 /\ ~journal
      /\ ~alive /\ \A i \in DOMAIN ledger : ~InFlight(ledger[i])
  <2>1. at = "performed" /\ mem.pending.kind = "runtime"
    BY DEF SolverCaptured
  <2>2. /\ mem.pending = Intended("runtime") /\ ~InPlan
        /\ EndedMembers(ledger) = mem.events
    BY <2>1, Performed
  <2>3. ~mem.tx /\ left = <<>>
    BY <2>1, <2>2 DEF Inv, PlanHolds, LeftHolds
  <2>4. mem.seal \in {NoSeal, case} /\ mem.case = case /\ case \in Nat
    BY <2>1, <2>2 DEF Inv, CaseHolds, TypeOK
  <2>5. prepared = 3 /\ ~journal
    BY <2>1 DEF Inv, RestartHolds
  <2> QED
    BY <2>1, <2>2, <2>3, <2>4, <2>5, NothingRuns
<1>2. /\ at' = "captured"
      /\ UNCHANGED <<case, ledger, alive, journal, prepared, left, session, granted, clean>>
  BY <1>1 DEF SolverCaptured, Go, disk
<1>3. /\ mem' \in Memories
      /\ mem'.state = mem.state /\ mem'.approved = mem.approved /\ mem'.tx = mem.tx
      /\ mem'.pending = NoAction /\ mem'.seal = mem.seal /\ mem'.events = mem.events
      /\ mem'.case = mem.case
  BY <1>1 DEF Inv, SolverCaptured, Go, TypeOK, Memories, States, Actions
<1>4. /\ store' \in Memories
      /\ store'.state = mem.state /\ store'.approved = mem.approved /\ store'.tx = mem.tx
      /\ store'.pending = [mem.pending EXCEPT !.done = TRUE] /\ store'.seal = mem.seal
      /\ store'.events = mem.events /\ store'.case = case
      /\ store'.rows = ledger
  <2>1. store' = Saved([mem EXCEPT !.pending.done = TRUE]) /\ mem \in Memories /\ TypeOK
    BY DEF SolverCaptured, Inv, TypeOK
  <2> DEFINE ended == [mem.pending EXCEPT !.done = TRUE]
  <2>2. mem.pending \in Actions
    BY <1>1, Intentions
  <2>3. ended \in Actions
    BY <2>2, AnAction
  <2>4. [mem EXCEPT !.pending.done = TRUE] = [mem EXCEPT !.pending = ended]
    OBVIOUS
  <2> HIDE DEF ended
  <2>5. /\ [mem EXCEPT !.pending = ended] \in Memories
        /\ [mem EXCEPT !.pending = ended].pending = ended
        /\ \A f \in {"state", "approved", "tx", "seal", "events"} :
               [mem EXCEPT !.pending = ended][f] = mem[f]
    BY <2>1, <2>3 DEF Memories
  <2> QED
    BY <2>1, <2>4, <2>5, SavedFields DEF ended
<1>5. /\ store'.pending # NoAction /\ store'.pending.kind = "runtime"
      /\ store'.pending.done
  BY <1>1, <1>4, Intentions, AnAction
<1>6. TypeOK'
  BY <1>1, <1>2, <1>3, <1>4, <1>5 DEF Inv, TypeOK, Positions, Lefts
<1>7. RowsHold' /\ PendingHolds' /\ EventsHold'
  BY <1>1, <1>2, <1>3, <1>4, <1>5 DEF Inv, RowsHold, PendingHolds, EventsHold, EventsOf,
       Unrecorded, InPlan, Intended, LastRow
<1>8. CaseHolds' /\ PlanHolds'
  BY <1>1, <1>2, <1>3, <1>4, <1>5 DEF Inv, CaseHolds, PlanHolds, InPlan, NoSeal
<1>9. RepairHolds' /\ LeftHolds'
  BY <1>1, <1>2, <1>3, <1>4, <1>5 DEF Inv, RepairHolds, LeftHolds, InPlan, NoSeal
<1>10. RestartHolds' /\ ApprovalHolds'
  BY <1>1, <1>2, <1>3, <1>4, <1>5 DEF Inv, RestartHolds, ApprovalHolds, Intended
<1>11. CleanHolds'
  BY <1>1, <1>2, <1>3, <1>4, <1>5 DEF Inv, CleanHolds
<1> QED
  BY <1>6, <1>7, <1>8, <1>9, <1>10, <1>11 DEF Inv

LEMMA SolverSucceedsHolds ==
    ASSUME Inv, SolverSucceeds
    PROVE  Inv'
<1>1. /\ at = "captured"
      /\ ~mem.tx /\ left = <<>>
      /\ mem.pending = NoAction /\ mem.seal \in {NoSeal, case} /\ mem.case = case
      /\ EndedMembers(ledger) = mem.events /\ prepared = 3 /\ ~journal
      /\ case \in Nat
      /\ ~alive /\ \A i \in DOMAIN ledger : ~InFlight(ledger[i])
  BY NothingRuns, BetweenPlans DEF SolverSucceeds
<1>2. /\ at' = "post"
      /\ UNCHANGED <<store, case, ledger, alive, journal, prepared, left, session, granted, clean>>
  BY <1>1 DEF SolverSucceeds, Go, disk
<1>3. /\ mem' \in Memories
      /\ mem'.state = "POSTPROCESSING" /\ mem'.approved = mem.approved
      /\ mem'.tx = mem.tx /\ mem'.pending = mem.pending /\ mem'.seal = mem.seal
      /\ mem'.events = mem.events /\ mem'.case = mem.case
  BY <1>1 DEF Inv, SolverSucceeds, Go, TypeOK, Memories, States, Actions
<1>4. TypeOK'
  BY <1>1, <1>2, <1>3 DEF Inv, TypeOK, Positions, Lefts
<1>5. RowsHold' /\ PendingHolds' /\ EventsHold'
  BY <1>1, <1>2, <1>3 DEF Inv, RowsHold, PendingHolds, EventsHold, EventsOf, Unrecorded,
       InPlan, Intended, LastRow
<1>6. CaseHolds' /\ PlanHolds'
  BY <1>1, <1>2, <1>3 DEF Inv, CaseHolds, PlanHolds, InPlan, NoSeal
<1>7. RepairHolds' /\ LeftHolds'
  BY <1>1, <1>2, <1>3 DEF Inv, RepairHolds, LeftHolds, InPlan, NoSeal
<1>8. RestartHolds' /\ ApprovalHolds'
  BY <1>1, <1>2, <1>3 DEF Inv, RestartHolds, ApprovalHolds, Intended
<1>9. CleanHolds'
  BY <1>1, <1>2, <1>3 DEF Inv, CleanHolds
<1> QED
  BY <1>4, <1>5, <1>6, <1>7, <1>8, <1>9 DEF Inv

LEMMA SolverFailsHolds ==
    ASSUME Inv, SolverFails
    PROVE  Inv'
<1>1. /\ at = "captured"
      /\ ~mem.tx /\ left = <<>>
      /\ mem.pending = NoAction /\ mem.seal \in {NoSeal, case} /\ mem.case = case
      /\ EndedMembers(ledger) = mem.events /\ prepared = 3 /\ ~journal
      /\ case \in Nat
      /\ ~alive /\ \A i \in DOMAIN ledger : ~InFlight(ledger[i])
  BY NothingRuns, BetweenPlans DEF SolverFails
<1>2. /\ at' = "decided"
      /\ UNCHANGED <<store, case, ledger, alive, journal, prepared, left, session, granted, clean>>
  BY <1>1 DEF SolverFails, Go, disk
<1>3. /\ mem' \in Memories
      /\ mem'.state = "RUNTIME_REPAIR" /\ mem'.approved = mem.approved
      /\ mem'.tx = mem.tx /\ mem'.pending = mem.pending /\ mem'.seal = mem.seal
      /\ mem'.events = mem.events /\ mem'.case = mem.case
  BY <1>1 DEF Inv, SolverFails, Go, TypeOK, Memories, States, Actions
<1>4. TypeOK'
  BY <1>1, <1>2, <1>3 DEF Inv, TypeOK, Positions, Lefts
<1>5. RowsHold' /\ PendingHolds' /\ EventsHold'
  BY <1>1, <1>2, <1>3 DEF Inv, RowsHold, PendingHolds, EventsHold, EventsOf, Unrecorded,
       InPlan, Intended, LastRow
<1>6. CaseHolds' /\ PlanHolds'
  BY <1>1, <1>2, <1>3 DEF Inv, CaseHolds, PlanHolds, InPlan, NoSeal
<1>7. RepairHolds' /\ LeftHolds'
  BY <1>1, <1>2, <1>3 DEF Inv, RepairHolds, LeftHolds, InPlan, NoSeal
<1>8. RestartHolds' /\ ApprovalHolds'
  BY <1>1, <1>2, <1>3 DEF Inv, RestartHolds, ApprovalHolds, Intended
<1>9. CleanHolds'
  BY <1>1, <1>2, <1>3 DEF Inv, CleanHolds
<1> QED
  BY <1>4, <1>5, <1>6, <1>7, <1>8, <1>9 DEF Inv

LEMMA PostProcessedHolds ==
    ASSUME Inv, PostProcessed
    PROVE  Inv'
<1>1. /\ at = "post"
      /\ ~mem.tx /\ left = <<>>
      /\ mem.pending = NoAction /\ mem.seal \in {NoSeal, case} /\ mem.case = case
      /\ EndedMembers(ledger) = mem.events /\ prepared = 3 /\ ~journal
      /\ case \in Nat
      /\ ~alive /\ \A i \in DOMAIN ledger : ~InFlight(ledger[i])
  BY NothingRuns, BetweenPlans DEF PostProcessed
<1>2. /\ at' = "idle"
      /\ UNCHANGED <<case, ledger, alive, journal, prepared, left, session, granted, clean>>
  BY <1>1 DEF PostProcessed, Go, disk
<1>3. /\ mem' \in Memories
      /\ mem'.state = "RESULT_REVIEW_REQUIRED" /\ mem'.approved = mem.approved
      /\ mem'.tx = mem.tx /\ mem'.pending = mem.pending /\ mem'.seal = mem.seal
      /\ mem'.events = mem.events /\ mem'.case = mem.case
  BY <1>1 DEF Inv, PostProcessed, Go, TypeOK, Memories, States, Actions
<1>4. /\ store' \in Memories
      /\ store'.state = mem'.state /\ store'.approved = mem'.approved
      /\ store'.tx = mem'.tx /\ store'.pending = mem'.pending /\ store'.seal = mem'.seal
      /\ store'.events = mem'.events /\ store'.case = case
      /\ store'.rows = ledger
  BY <1>1, <1>2, <1>3, SavedFields DEF Inv, PostProcessed, Save, TypeOK
<1>5. TypeOK'
  BY <1>1, <1>2, <1>3, <1>4 DEF Inv, TypeOK, Positions, Lefts
<1>6. RowsHold' /\ PendingHolds' /\ EventsHold'
  BY <1>1, <1>2, <1>3, <1>4 DEF Inv, RowsHold, PendingHolds, EventsHold, EventsOf,
       Unrecorded, InPlan, Intended, LastRow
<1>7. CaseHolds' /\ PlanHolds'
  BY <1>1, <1>2, <1>3, <1>4 DEF Inv, CaseHolds, PlanHolds, InPlan, NoSeal
<1>8. RepairHolds' /\ LeftHolds'
  BY <1>1, <1>2, <1>3, <1>4 DEF Inv, RepairHolds, LeftHolds, InPlan, NoSeal
<1>9. RestartHolds' /\ ApprovalHolds'
  BY <1>1, <1>2, <1>3, <1>4 DEF Inv, RestartHolds, ApprovalHolds, Intended
<1>10. CleanHolds'
  BY <1>1, <1>2, <1>3, <1>4 DEF Inv, CleanHolds, Acceptable, InputsUnchanged, Interrupted,
       Uncertain, LedgerKnown, SealHolds, NoSeal
<1> QED
  BY <1>5, <1>6, <1>7, <1>8, <1>9, <1>10 DEF Inv

LEMMA NoHandlerHolds ==
    ASSUME Inv, NoHandler
    PROVE  Inv'
<1>1. /\ at = "idle"
      /\ ~mem.tx /\ left = <<>>
      /\ mem.pending = NoAction /\ mem.seal \in {NoSeal, case} /\ mem.case = case
      /\ EndedMembers(ledger) = mem.events /\ prepared = 3 /\ ~journal
      /\ case \in Nat
      /\ ~alive /\ \A i \in DOMAIN ledger : ~InFlight(ledger[i])
  BY NothingRuns, BetweenPlans DEF NoHandler, Idle, Inv, LeftHolds, InPlan
<1>2. /\ at' = "over"
      /\ UNCHANGED <<case, ledger, alive, journal, prepared, left, session, granted, clean>>
  BY <1>1 DEF NoHandler, Go, disk
<1>3. /\ mem' \in Memories
      /\ mem'.state = "FAILED" /\ mem'.approved = mem.approved /\ mem'.tx = mem.tx
      /\ mem'.pending = mem.pending /\ mem'.seal = mem.seal /\ mem'.events = mem.events
      /\ mem'.case = mem.case
  BY <1>1 DEF Inv, NoHandler, Go, TypeOK, Memories, States, Actions
<1>4. /\ store' \in Memories
      /\ store'.state = mem'.state /\ store'.approved = mem'.approved
      /\ store'.tx = mem'.tx /\ store'.pending = mem'.pending /\ store'.seal = mem'.seal
      /\ store'.events = mem'.events /\ store'.case = case
      /\ store'.rows = ledger
  BY <1>1, <1>2, <1>3, SavedFields DEF Inv, NoHandler, Save, TypeOK
<1>5. TypeOK'
  BY <1>1, <1>2, <1>3, <1>4 DEF Inv, TypeOK, Positions, Lefts
<1>6. RowsHold' /\ PendingHolds' /\ EventsHold'
  BY <1>1, <1>2, <1>3, <1>4 DEF Inv, RowsHold, PendingHolds, EventsHold, EventsOf,
       Unrecorded, InPlan, Intended, LastRow
<1>7. CaseHolds' /\ PlanHolds'
  BY <1>1, <1>2, <1>3, <1>4 DEF Inv, CaseHolds, PlanHolds, InPlan, NoSeal
<1>8. RepairHolds' /\ LeftHolds'
  BY <1>1, <1>2, <1>3, <1>4 DEF Inv, RepairHolds, LeftHolds, InPlan, NoSeal
<1>9. RestartHolds' /\ ApprovalHolds'
  BY <1>1, <1>2, <1>3, <1>4 DEF Inv, RestartHolds, ApprovalHolds, Intended
<1>10. CleanHolds'
  BY <1>1, <1>2, <1>3, <1>4 DEF Inv, CleanHolds
<1> QED
  BY <1>5, <1>6, <1>7, <1>8, <1>9, <1>10 DEF Inv

LEMMA RepairRetriesHolds ==
    ASSUME Inv, RepairEnds, at' = "retry"
    PROVE  Inv'
<1>1. /\ at \in {"members", "decided"} /\ ~mem.tx /\ left = <<>>
      /\ mem.pending = NoAction /\ mem.seal \in {NoSeal, case} /\ mem.case = case
      /\ EndedMembers(ledger) = mem.events /\ prepared = 3 /\ ~journal
      /\ case \in Nat
      /\ ~alive /\ \A i \in DOMAIN ledger : ~InFlight(ledger[i])
  <2>1. /\ at \in {"members", "decided"} /\ mem.state = "RUNTIME_REPAIR"
        /\ left = <<>> \/ at = "decided"
    BY DEF RepairEnds
  <2>2. ~mem.tx
    BY <2>1 DEF Inv, PlanHolds, InPlan
  <2>3. CASE at = "decided"
    BY <2>2, <2>3, NothingRuns, BetweenPlans
  <2>4. CASE at = "members"
    <3>1. left = <<>> /\ left \notin {<<"write">>, <<"write", "native">>} /\ InPlan
      BY <2>1, <2>4 DEF InPlan
    <3>2. mem.seal = NoSeal
      BY <2>2, <2>4, <3>1 DEF Inv, RepairHolds
    <3>3. mem.pending = NoAction /\ EndedMembers(ledger) = mem.events
      BY <2>4 DEF Inv, PendingHolds, EventsHold, Unrecorded
    <3> QED
      BY <2>2, <2>4, <3>1, <3>2, <3>3, WithinPlan, NothingRuns
  <2> QED
    BY <2>1, <2>3, <2>4
<1>2. /\ UNCHANGED <<store, case, ledger, alive, journal, prepared, left, session, granted, clean>>
  BY DEF RepairEnds, Go, disk
<1>3. /\ mem' \in Memories
      /\ mem'.state = "SIMULATION" /\ mem'.approved = mem.approved /\ mem'.tx = mem.tx
      /\ mem'.pending = mem.pending /\ mem'.seal = case /\ mem'.events = mem.events
      /\ mem'.case = mem.case
  BY <1>1 DEF Inv, RepairEnds, Go, TypeOK, Memories, States, Actions
<1>4. TypeOK'
  BY <1>1, <1>2, <1>3 DEF Inv, TypeOK, Positions, Lefts
<1>5. RowsHold' /\ PendingHolds' /\ EventsHold'
  BY <1>1, <1>2, <1>3 DEF Inv, RowsHold, PendingHolds, EventsHold, EventsOf, Unrecorded,
       InPlan, Intended, LastRow
<1>6. CaseHolds' /\ PlanHolds'
  BY <1>1, <1>2, <1>3 DEF Inv, CaseHolds, PlanHolds, InPlan, NoSeal
<1>7. RepairHolds' /\ LeftHolds'
  BY <1>1, <1>2, <1>3 DEF Inv, RepairHolds, LeftHolds, InPlan, NoSeal
<1>8. RestartHolds' /\ ApprovalHolds'
  BY <1>1, <1>2, <1>3 DEF Inv, RestartHolds, ApprovalHolds, Intended
<1>9. CleanHolds'
  BY <1>1, <1>2, <1>3 DEF Inv, CleanHolds
<1> QED
  BY <1>4, <1>5, <1>6, <1>7, <1>8, <1>9 DEF Inv

LEMMA RepairGivesUpHolds ==
    ASSUME Inv, RepairEnds, at' = "idle"
    PROVE  Inv'
<1>1. /\ at \in {"members", "decided"} /\ ~mem.tx /\ left = <<>>
      /\ mem.pending = NoAction /\ mem.seal \in {NoSeal, case} /\ mem.case = case
      /\ EndedMembers(ledger) = mem.events /\ prepared = 3 /\ ~journal
      /\ case \in Nat
      /\ ~alive /\ \A i \in DOMAIN ledger : ~InFlight(ledger[i])
  <2>1. /\ at \in {"members", "decided"} /\ mem.state = "RUNTIME_REPAIR"
        /\ left = <<>> \/ at = "decided"
    BY DEF RepairEnds
  <2>2. ~mem.tx
    BY <2>1 DEF Inv, PlanHolds, InPlan
  <2>3. CASE at = "decided"
    BY <2>2, <2>3, NothingRuns, BetweenPlans
  <2>4. CASE at = "members"
    <3>1. left = <<>> /\ left \notin {<<"write">>, <<"write", "native">>} /\ InPlan
      BY <2>1, <2>4 DEF InPlan
    <3>2. mem.seal = NoSeal
      BY <2>2, <2>4, <3>1 DEF Inv, RepairHolds
    <3>3. mem.pending = NoAction /\ EndedMembers(ledger) = mem.events
      BY <2>4 DEF Inv, PendingHolds, EventsHold, Unrecorded
    <3> QED
      BY <2>2, <2>4, <3>1, <3>2, <3>3, WithinPlan, NothingRuns
  <2> QED
    BY <2>1, <2>3, <2>4
<1>2. /\ UNCHANGED <<case, ledger, alive, journal, prepared, left, session, granted, clean>>
  BY DEF RepairEnds, Go, disk
<1>3. /\ mem' \in Memories
      /\ mem'.state = "ENGINEERING_REVIEW_REQUIRED" /\ mem'.approved = mem.approved
      /\ mem'.tx = mem.tx /\ mem'.pending = mem.pending /\ mem'.seal = mem.seal
      /\ mem'.events = mem.events /\ mem'.case = mem.case
  BY <1>1 DEF Inv, RepairEnds, Go, TypeOK, Memories, States, Actions
<1>4. /\ store' \in Memories
      /\ store'.state = mem'.state /\ store'.approved = mem'.approved
      /\ store'.tx = mem'.tx /\ store'.pending = mem'.pending /\ store'.seal = mem'.seal
      /\ store'.events = mem'.events /\ store'.case = case
      /\ store'.rows = ledger
  BY <1>1, <1>2, <1>3, SavedFields DEF Inv, RepairEnds, Go, Save, TypeOK
<1>5. TypeOK'
  BY <1>1, <1>2, <1>3, <1>4 DEF Inv, TypeOK, Positions, Lefts
<1>6. RowsHold' /\ PendingHolds' /\ EventsHold'
  BY <1>1, <1>2, <1>3, <1>4 DEF Inv, RowsHold, PendingHolds, EventsHold, EventsOf,
       Unrecorded, InPlan, Intended, LastRow
<1>7. CaseHolds' /\ PlanHolds'
  BY <1>1, <1>2, <1>3, <1>4 DEF Inv, CaseHolds, PlanHolds, InPlan, NoSeal
<1>8. RepairHolds' /\ LeftHolds'
  BY <1>1, <1>2, <1>3, <1>4 DEF Inv, RepairHolds, LeftHolds, InPlan, NoSeal
<1>9. RestartHolds' /\ ApprovalHolds'
  BY <1>1, <1>2, <1>3, <1>4 DEF Inv, RestartHolds, ApprovalHolds, Intended
<1>10. CleanHolds'
  BY <1>1, <1>2, <1>3, <1>4 DEF Inv, CleanHolds, Acceptable, InputsUnchanged, Interrupted,
       Uncertain, LedgerKnown, SealHolds, NoSeal
<1> QED
  BY <1>5, <1>6, <1>7, <1>8, <1>9, <1>10 DEF Inv

LEMMA RestartIntentHolds ==
    ASSUME Inv, RestartIntent
    PROVE  Inv'
<1>1. /\ at = "restart"
      /\ ~mem.tx /\ left = <<>> /\ mem.seal = case
      /\ mem.pending = NoAction /\ mem.seal \in {NoSeal, case} /\ mem.case = case
      /\ EndedMembers(ledger) = mem.events /\ prepared = 3 /\ ~journal
      /\ case \in Nat
      /\ ~alive /\ \A i \in DOMAIN ledger : ~InFlight(ledger[i])
  BY NothingRuns, BetweenPlans DEF RestartIntent, Inv, LeftHolds, InPlan
<1>2. /\ at' = "journal"
      /\ prepared' = 0
      /\ UNCHANGED <<case, ledger, alive, journal, left, session, granted, clean>>
  BY <1>1 DEF RestartIntent, Go, disk
<1>3. /\ mem' \in Memories
      /\ mem'.state = mem.state /\ mem'.approved = mem.approved /\ mem'.tx = mem.tx
      /\ mem'.pending = Intended("restart") /\ mem'.seal = mem.seal
      /\ mem'.events = mem.events /\ mem'.case = mem.case
  <2>1. /\ mem \in Memories
        /\ mem' = [mem EXCEPT !.pending = [kind |-> "restart", done |-> FALSE, native |-> FALSE]]
    BY DEF Inv, TypeOK, RestartIntent, Go
  <2>2. mem' = [mem EXCEPT !.pending = Intended("restart")] /\ Intended("restart") \in Actions
    BY <2>1, Intentions
  <2> QED
    BY <2>1, <2>2 DEF Memories
<1>4. /\ store' \in Memories
      /\ store'.state = mem'.state /\ store'.approved = mem'.approved
      /\ store'.tx = mem'.tx /\ store'.pending = mem'.pending /\ store'.seal = mem'.seal
      /\ store'.events = mem'.events /\ store'.case = case
      /\ store'.rows = ledger
  BY <1>1, <1>2, <1>3, SavedFields DEF Inv, RestartIntent, Save, TypeOK
<1>5. Intended("restart") # NoAction /\ Intended("restart").kind = "restart"
  BY Intentions
<1>6. TypeOK'
  BY <1>1, <1>2, <1>3, <1>4, <1>5 DEF Inv, TypeOK, Positions, Lefts
<1>7. RowsHold' /\ PendingHolds' /\ EventsHold'
  BY <1>1, <1>2, <1>3, <1>4, <1>5 DEF Inv, RowsHold, PendingHolds, EventsHold, EventsOf,
       Unrecorded, InPlan, Intended, LastRow
<1>8. CaseHolds' /\ PlanHolds'
  BY <1>1, <1>2, <1>3, <1>4, <1>5 DEF Inv, CaseHolds, PlanHolds, InPlan, NoSeal
<1>9. RepairHolds' /\ LeftHolds'
  BY <1>1, <1>2, <1>3, <1>4, <1>5 DEF Inv, RepairHolds, LeftHolds, InPlan, NoSeal
<1>10. RestartHolds' /\ ApprovalHolds'
  BY <1>1, <1>2, <1>3, <1>4, <1>5 DEF Inv, RestartHolds, ApprovalHolds, Intended
<1>11. CleanHolds'
  BY <1>1, <1>2, <1>3, <1>4, <1>5 DEF Inv, CleanHolds
<1> QED
  BY <1>6, <1>7, <1>8, <1>9, <1>10, <1>11 DEF Inv

LEMMA RestartRefusedHolds ==
    ASSUME Inv, RestartRefused
    PROVE  Inv'
<1>1. /\ at \in {"journal", "restart"} /\ case \in Nat
  BY DEF RestartRefused, Inv, TypeOK
<1>2. /\ at' = "dead"
      /\ clean' = FALSE
      /\ mem' = mem
      /\ UNCHANGED <<mem, store, case, ledger, alive, journal, prepared, left, session, granted>>
  BY <1>1 DEF RestartRefused, Go, disk
<1>3. TypeOK'
  BY <1>1, <1>2 DEF Inv, TypeOK, Positions, Lefts
<1>4. RowsHold' /\ PendingHolds' /\ EventsHold'
  BY <1>1, <1>2 DEF Inv, RowsHold, PendingHolds, EventsHold, EventsOf, Unrecorded, InPlan,
       Intended, LastRow
<1>5. CaseHolds' /\ PlanHolds'
  BY <1>1, <1>2 DEF Inv, CaseHolds, PlanHolds, InPlan, NoSeal
<1>6. RepairHolds' /\ LeftHolds'
  BY <1>1, <1>2 DEF Inv, RepairHolds, LeftHolds, InPlan, NoSeal
<1>7. RestartHolds' /\ ApprovalHolds'
  BY <1>1, <1>2 DEF Inv, RestartHolds, ApprovalHolds, Intended
<1>8. CleanHolds'
  BY <1>1, <1>2 DEF Inv, CleanHolds
<1> QED
  BY <1>3, <1>4, <1>5, <1>6, <1>7, <1>8 DEF Inv

LEMMA JournalWrittenHolds ==
    ASSUME Inv, JournalWritten
    PROVE  Inv'
<1>1. /\ at = "journal"
      /\ left = <<>> /\ ~mem.tx /\ store.pending = Intended("restart")
      /\ mem.case = case /\ case \in Nat /\ mem.seal <= case
      /\ mem.seal \in Nat \cup {NoSeal}
      /\ EndedMembers(ledger) = mem.events
      /\ ~alive /\ \A i \in DOMAIN ledger : ~InFlight(ledger[i])
  BY NothingRuns, InRestart DEF JournalWritten
<1>2. /\ at' = "moving"
      /\ journal' = TRUE
      /\ UNCHANGED <<mem, store, case, ledger, alive, prepared, left, session, granted, clean>>
  BY <1>1 DEF JournalWritten, Go, disk
<1>3. TypeOK'
  BY <1>1, <1>2 DEF Inv, TypeOK, Positions, Lefts
<1>4. RowsHold' /\ PendingHolds' /\ EventsHold'
  BY <1>1, <1>2 DEF Inv, RowsHold, PendingHolds, EventsHold, EventsOf, Unrecorded, InPlan,
       Intended, LastRow
<1>5. CaseHolds' /\ PlanHolds'
  BY <1>1, <1>2 DEF Inv, CaseHolds, PlanHolds, InPlan, NoSeal
<1>6. RepairHolds' /\ LeftHolds'
  BY <1>1, <1>2 DEF Inv, RepairHolds, LeftHolds, InPlan, NoSeal
<1>7. RestartHolds' /\ ApprovalHolds'
  BY <1>1, <1>2 DEF Inv, RestartHolds, ApprovalHolds, Intended
<1>8. CleanHolds'
  BY <1>1, <1>2 DEF Inv, CleanHolds
<1> QED
  BY <1>3, <1>4, <1>5, <1>6, <1>7, <1>8 DEF Inv

LEMMA OutputsMovedHolds ==
    ASSUME Inv, OutputsMoved
    PROVE  Inv'
<1>1. /\ at = "moving"
      /\ left = <<>> /\ ~mem.tx /\ store.pending = Intended("restart")
      /\ mem.case = case /\ case \in Nat /\ mem.seal <= case
      /\ mem.seal \in Nat \cup {NoSeal}
      /\ EndedMembers(ledger) = mem.events
      /\ ~alive /\ \A i \in DOMAIN ledger : ~InFlight(ledger[i])
  BY NothingRuns, InRestart DEF OutputsMoved
<1>2. /\ at' = "moving"
      /\ prepared' = 1
      /\ UNCHANGED <<mem, store, case, ledger, alive, journal, left, session, granted, clean>>
  BY <1>1 DEF OutputsMoved, Go, disk
<1>3. TypeOK'
  BY <1>1, <1>2 DEF Inv, TypeOK, Positions, Lefts
<1>4. RowsHold' /\ PendingHolds' /\ EventsHold'
  BY <1>1, <1>2 DEF Inv, RowsHold, PendingHolds, EventsHold, EventsOf, Unrecorded, InPlan,
       Intended, LastRow
<1>5. CaseHolds' /\ PlanHolds'
  BY <1>1, <1>2 DEF Inv, CaseHolds, PlanHolds, InPlan, NoSeal
<1>6. RepairHolds' /\ LeftHolds'
  BY <1>1, <1>2 DEF Inv, RepairHolds, LeftHolds, InPlan, NoSeal
<1>7. RestartHolds' /\ ApprovalHolds'
  BY <1>1, <1>2 DEF Inv, RestartHolds, ApprovalHolds, Intended
<1>8. CleanHolds'
  BY <1>1, <1>2 DEF Inv, CleanHolds
<1> QED
  BY <1>3, <1>4, <1>5, <1>6, <1>7, <1>8 DEF Inv

LEMMA ControlWrittenHolds ==
    ASSUME Inv, ControlWritten
    PROVE  Inv'
<1>1. /\ at = "moving"
      /\ left = <<>> /\ ~mem.tx /\ store.pending = Intended("restart")
      /\ mem.case = case /\ case \in Nat /\ mem.seal <= case
      /\ mem.seal \in Nat \cup {NoSeal}
      /\ EndedMembers(ledger) = mem.events
      /\ ~alive /\ \A i \in DOMAIN ledger : ~InFlight(ledger[i])
      /\ store.case <= case /\ store.seal <= case
      /\ store.case \in Nat /\ store.seal \in Nat \cup {NoSeal} /\ NoSeal = -1
  BY NothingRuns, InRestart DEF ControlWritten, Inv, TypeOK, Memories, CaseHolds, NoSeal
<1>2. /\ at' = "moving"
      /\ prepared' = 2 /\ case' = case + 1
      /\ UNCHANGED <<store, ledger, alive, journal, left, session, granted, clean>>
  BY <1>1 DEF ControlWritten, Go, disk
<1>3. /\ mem' \in Memories
      /\ mem'.state = mem.state /\ mem'.approved = mem.approved /\ mem'.tx = mem.tx
      /\ mem'.pending = mem.pending /\ mem'.seal = mem.seal /\ mem'.events = mem.events
      /\ mem'.case = case'
  <2>1. mem' = [mem EXCEPT !.case = case + 1] /\ mem \in Memories /\ case + 1 \in Nat
    BY <1>1, <1>2 DEF Inv, TypeOK, ControlWritten, Go
  <2> QED
    BY <1>2, <2>1 DEF Memories
<1>4. TypeOK'
  BY <1>1, <1>2, <1>3 DEF Inv, TypeOK, Positions, Lefts
<1>5. RowsHold' /\ PendingHolds' /\ EventsHold'
  BY <1>1, <1>2, <1>3 DEF Inv, RowsHold, PendingHolds, EventsHold, EventsOf, Unrecorded,
       InPlan, Intended, LastRow
<1>6. CaseHolds' /\ PlanHolds'
  BY <1>1, <1>2, <1>3 DEF Inv, CaseHolds, PlanHolds, InPlan, NoSeal
<1>7. RepairHolds' /\ LeftHolds'
  BY <1>1, <1>2, <1>3 DEF Inv, RepairHolds, LeftHolds, InPlan, NoSeal
<1>8. RestartHolds' /\ ApprovalHolds'
  BY <1>1, <1>2, <1>3 DEF Inv, RestartHolds, ApprovalHolds, Intended
<1>9. CleanHolds'
  BY <1>1, <1>2, <1>3 DEF Inv, CleanHolds
<1> QED
  BY <1>4, <1>5, <1>6, <1>7, <1>8, <1>9 DEF Inv

LEMMA ReceiptVerifiedHolds ==
    ASSUME Inv, ReceiptVerified
    PROVE  Inv'
<1>1. /\ at = "moving"
      /\ left = <<>> /\ ~mem.tx /\ store.pending = Intended("restart")
      /\ mem.case = case /\ case \in Nat /\ mem.seal <= case
      /\ mem.seal \in Nat \cup {NoSeal}
      /\ EndedMembers(ledger) = mem.events
      /\ ~alive /\ \A i \in DOMAIN ledger : ~InFlight(ledger[i])
  BY NothingRuns, InRestart DEF ReceiptVerified
<1>2. /\ at' = "sealed"
      /\ prepared' = 3 /\ journal' = FALSE
      /\ UNCHANGED <<mem, store, case, ledger, alive, left, session, granted, clean>>
  BY <1>1 DEF ReceiptVerified, Go, disk
<1>3. TypeOK'
  BY <1>1, <1>2 DEF Inv, TypeOK, Positions, Lefts
<1>4. RowsHold' /\ PendingHolds' /\ EventsHold'
  BY <1>1, <1>2 DEF Inv, RowsHold, PendingHolds, EventsHold, EventsOf, Unrecorded, InPlan,
       Intended, LastRow
<1>5. CaseHolds' /\ PlanHolds'
  BY <1>1, <1>2 DEF Inv, CaseHolds, PlanHolds, InPlan, NoSeal
<1>6. RepairHolds' /\ LeftHolds'
  BY <1>1, <1>2 DEF Inv, RepairHolds, LeftHolds, InPlan, NoSeal
<1>7. RestartHolds' /\ ApprovalHolds'
  BY <1>1, <1>2 DEF Inv, RestartHolds, ApprovalHolds, Intended
<1>8. CleanHolds'
  BY <1>1, <1>2 DEF Inv, CleanHolds
<1> QED
  BY <1>3, <1>4, <1>5, <1>6, <1>7, <1>8 DEF Inv

LEMMA RestartPreparedHolds ==
    ASSUME Inv, RestartPrepared
    PROVE  Inv'
<1>1. /\ at = "sealed"
      /\ left = <<>> /\ ~mem.tx /\ store.pending = Intended("restart")
      /\ mem.case = case /\ case \in Nat /\ mem.seal <= case
      /\ mem.seal \in Nat \cup {NoSeal}
      /\ EndedMembers(ledger) = mem.events
      /\ ~alive /\ \A i \in DOMAIN ledger : ~InFlight(ledger[i])
      /\ prepared = 3 /\ ~journal
  BY NothingRuns, InRestart DEF RestartPrepared, Inv, RestartHolds
<1>2. /\ at' = "idle"
      /\ UNCHANGED <<case, ledger, alive, journal, prepared, left, session, granted, clean>>
  BY <1>1 DEF RestartPrepared, Go, disk
<1>3. /\ mem' \in Memories
      /\ mem'.state = "SOLVE_READY" /\ mem'.approved = FALSE /\ mem'.tx = mem.tx
      /\ mem'.pending = NoAction /\ mem'.seal = case /\ mem'.events = mem.events
      /\ mem'.case = mem.case
  BY <1>1 DEF Inv, RestartPrepared, Go, TypeOK, Memories, States, Actions
<1>4. /\ store' \in Memories
      /\ store'.state = mem'.state /\ store'.approved = mem'.approved
      /\ store'.tx = mem'.tx /\ store'.pending = mem'.pending /\ store'.seal = mem'.seal
      /\ store'.events = mem'.events /\ store'.case = case
      /\ store'.rows = ledger
  BY <1>1, <1>2, <1>3, SavedFields DEF Inv, RestartPrepared, Save, TypeOK
<1>5. TypeOK'
  BY <1>1, <1>2, <1>3, <1>4 DEF Inv, TypeOK, Positions, Lefts
<1>6. RowsHold' /\ PendingHolds' /\ EventsHold'
  BY <1>1, <1>2, <1>3, <1>4 DEF Inv, RowsHold, PendingHolds, EventsHold, EventsOf,
       Unrecorded, InPlan, Intended, LastRow
<1>7. CaseHolds' /\ PlanHolds'
  BY <1>1, <1>2, <1>3, <1>4 DEF Inv, CaseHolds, PlanHolds, InPlan, NoSeal
<1>8. RepairHolds' /\ LeftHolds'
  BY <1>1, <1>2, <1>3, <1>4 DEF Inv, RepairHolds, LeftHolds, InPlan, NoSeal
<1>9. RestartHolds' /\ ApprovalHolds'
  BY <1>1, <1>2, <1>3, <1>4 DEF Inv, RestartHolds, ApprovalHolds, Intended
<1>10. CleanHolds'
  BY <1>1, <1>2, <1>3, <1>4 DEF Inv, CleanHolds, Acceptable, InputsUnchanged, Interrupted,
       Uncertain, LedgerKnown, SealHolds, NoSeal
<1> QED
  BY <1>5, <1>6, <1>7, <1>8, <1>9, <1>10 DEF Inv

LEMMA CrashHolds ==
    ASSUME Inv, Crash
    PROVE  Inv'
<1>1. /\ at # "dead" /\ case \in Nat
  BY DEF Crash, Inv, TypeOK
<1>2. /\ at' = "dead"
      /\ clean' = (at \in {"idle", "turn"})
      /\ UNCHANGED <<mem, store, case, ledger, alive, journal, prepared, left, session, granted>>
  BY <1>1 DEF Crash, Go, disk
<1>3. TypeOK'
  BY <1>1, <1>2 DEF Inv, TypeOK, Positions, Lefts
<1>4. RowsHold' /\ PendingHolds' /\ EventsHold'
  BY <1>1, <1>2 DEF Inv, RowsHold, PendingHolds, EventsHold, EventsOf, Unrecorded, InPlan,
       Intended, LastRow
<1>5. CaseHolds' /\ PlanHolds'
  BY <1>1, <1>2 DEF Inv, CaseHolds, PlanHolds, InPlan, NoSeal
<1>6. RepairHolds' /\ LeftHolds'
  BY <1>1, <1>2 DEF Inv, RepairHolds, LeftHolds, InPlan, NoSeal
<1>7. RestartHolds' /\ ApprovalHolds'
  BY <1>1, <1>2 DEF Inv, RestartHolds, ApprovalHolds, Intended
<1>8. CleanHolds'
  BY <1>1, <1>2 DEF Inv, CleanHolds, Acceptable, InputsUnchanged, Interrupted, Uncertain,
       LedgerKnown, SealHolds, NoSeal
<1> QED
  BY <1>3, <1>4, <1>5, <1>6, <1>7, <1>8 DEF Inv

LEMMA OutsideHolds ==
    ASSUME Inv, Outside
    PROVE  Inv'
<1>1. /\ at = "dead"
      /\ case \in Nat /\ store.case \in Nat /\ store.seal \in Nat \cup {NoSeal} /\ NoSeal = -1
  BY DEF Outside, Inv, TypeOK, Memories, NoSeal
<1>2. /\ at' = "dead"
      /\ \/ alive' = FALSE /\ UNCHANGED <<case, clean>>
         \/ case' = case + 1 /\ clean' = FALSE /\ UNCHANGED alive
      /\ UNCHANGED <<mem, store, ledger, journal, prepared, left, session, granted>>
  BY <1>1 DEF Outside, Go, disk
<1>3. TypeOK'
  <2>1. case' \in Nat
    BY <1>1, <1>2
  <2>2. alive' \in BOOLEAN
    BY <1>2 DEF Inv, TypeOK
  <2>3. clean' \in BOOLEAN
    BY <1>2 DEF Inv, TypeOK
  <2> QED
    BY <1>2, <2>1, <2>2, <2>3 DEF Inv, TypeOK, Positions
<1>4. RowsHold' /\ PendingHolds' /\ EventsHold'
  BY <1>1, <1>2 DEF Inv, RowsHold, PendingHolds, EventsHold, EventsOf, Unrecorded, InPlan,
       Intended, LastRow
<1>5. CaseHolds' /\ PlanHolds'
  BY <1>1, <1>2 DEF Inv, CaseHolds, PlanHolds, InPlan, NoSeal
<1>6. RepairHolds' /\ LeftHolds'
  BY <1>1, <1>2 DEF Inv, RepairHolds, LeftHolds, InPlan, NoSeal
<1>7. RestartHolds' /\ ApprovalHolds'
  BY <1>1, <1>2 DEF Inv, RestartHolds, ApprovalHolds, Intended
<1>8. CleanHolds'
  BY <1>1, <1>2 DEF Inv, CleanHolds, Acceptable, InputsUnchanged, Interrupted, Uncertain,
       LedgerKnown, SealHolds, NoSeal
<1> QED
  BY <1>3, <1>4, <1>5, <1>6, <1>7, <1>8 DEF Inv

LEMMA LoadHolds ==
    ASSUME Inv, NEW reconcile \in BOOLEAN, Load(reconcile)
    PROVE  Inv'
<1>1. /\ at = "dead" /\ at' = IF reconcile THEN "restart" ELSE "idle"
      /\ store.case = case /\ ~store.tx /\ ~journal /\ ~Uncertain(store, reconcile)
      /\ LedgerKnown(store, reconcile) /\ store.seal \in {NoSeal, case}
      /\ UNCHANGED <<store, case, alive, journal, prepared, left, granted, clean>>
      /\ session' = session + 1
  BY DEF Load, Go, Acceptable, InputsUnchanged, Interrupted, SealHolds
<1>2. /\ store \in Memories /\ case \in Nat /\ session \in Nat /\ ledger \in Seq(Rows)
      /\ store.pending \in Actions \cup {NoAction} /\ store.events \in Nat
  BY DEF Inv, TypeOK, Memories
<1>3. store.pending # Intended("restart") /\ store.pending # Intended("member")
  BY <1>1, Intentions DEF Uncertain
<1>4. prepared = 3
  BY <1>3 DEF Inv, RestartHolds
<1>5. EndedMembers(ledger) = EventsOf(store)
  <2>1. ~(store.pending # NoAction /\ store.pending.kind = "member" /\ ~store.pending.done)
    BY <1>1 DEF Uncertain
  <2> QED
    BY <2>1 DEF Inv, EventsHold
<1>6. EventsOf(store) \in Nat
  BY <1>2 DEF EventsOf
<1>7. /\ ledger' \in Seq(Rows) /\ EndedMembers(ledger') = EndedMembers(ledger)
      /\ \A i \in DOMAIN ledger' : ~InFlight(ledger'[i])
      /\ ~reconcile => ledger' = ledger /\ store.rows = ledger
  <2>1. CASE reconcile
    <3>1. ledger' = Reconciled
      BY <2>1 DEF Load
    <3> QED
      BY <1>2, <2>1, <3>1, ReconciledRows
  <2>2. CASE ~reconcile
    <3>1. ledger' = ledger
      BY <2>2 DEF Load
    <3> QED
      BY <1>1, <1>2, <2>2, <3>1 DEF LedgerKnown
  <2> QED
    BY <2>1, <2>2
<1>8. ~alive
  <2>1. CASE reconcile
    <3>1. \A i \in DOMAIN ledger : InFlight(ledger[i]) => ~alive
      BY <1>1, <2>1 DEF LedgerKnown, Reconcilable, Gone
    <3>2. alive => Len(ledger) \in DOMAIN ledger /\ InFlight(ledger[Len(ledger)])
      BY <1>2 DEF Inv, RowsHold, LastRow, Last, InFlight
    <3> QED
      BY <3>1, <3>2
  <2>2. CASE ~reconcile
    <3>1. \A i \in DOMAIN ledger : ~InFlight(ledger[i])
      BY <1>7, <2>2
    <3>2. alive => Len(ledger) \in DOMAIN ledger /\ InFlight(ledger[Len(ledger)])
      BY <1>2 DEF Inv, RowsHold, LastRow, Last, InFlight
    <3> QED
      BY <3>1, <3>2
  <2> QED
    BY <2>1, <2>2
<1>9. /\ mem' \in Memories
      /\ mem'.state = StateOf(store.state) /\ ~mem'.approved /\ ~mem'.tx
      /\ mem'.pending = NoAction /\ mem'.seal = store.seal
      /\ mem'.events = EventsOf(store) /\ mem'.case = case
  <2>1. mem' = [store EXCEPT !.approved = FALSE, !.state = StateOf(store.state),
                             !.events = EventsOf(store), !.pending = NoAction]
    BY <1>2 DEF Load, Go, Regated, Memories
  <2>2. StateOf(store.state) \in States
    BY <1>2 DEF StateOf, Memories, States
  <2> QED
    BY <1>1, <1>2, <1>6, <2>1, <2>2 DEF Memories
<1>10. left # <<>> =>
           mem'.state = "ENGINEERING_REVIEW_REQUIRED" /\ mem'.seal # case
  <2> SUFFICES ASSUME left # <<>>
               PROVE  mem'.state = "ENGINEERING_REVIEW_REQUIRED" /\ mem'.seal # case
    OBVIOUS
  <2>1. store.state = "RUNTIME_REPAIR" /\ store.seal < case
    BY <1>1, <1>2 DEF Inv, LeftHolds
  <2> QED
    BY <1>1, <1>2, <1>9, <2>1 DEF StateOf, NoSeal
<1>11. TypeOK'
  BY <1>1, <1>2, <1>7, <1>9 DEF Inv, TypeOK, Positions
<1>12. RowsHold' /\ PendingHolds'
  BY <1>1, <1>7, <1>8, <1>9 DEF RowsHold, PendingHolds, InPlan
<1>13. EventsHold'
  BY <1>1, <1>5, <1>7, <1>9 DEF EventsHold, Unrecorded, EventsOf
<1>14. CaseHolds'
  BY <1>1, <1>2, <1>9 DEF CaseHolds, InPlan, NoSeal
<1>15. PlanHolds' /\ RepairHolds'
  BY <1>1, <1>9 DEF PlanHolds, RepairHolds, InPlan
<1>16. LeftHolds'
  BY <1>1, <1>2, <1>10 DEF Inv, LeftHolds, InPlan
<1>17. RestartHolds' /\ ApprovalHolds'
  BY <1>1, <1>4, <1>9 DEF RestartHolds, ApprovalHolds
<1>18. CleanHolds'
  <2> SUFFICES ASSUME at' = "idle"
               PROVE  Acceptable(store, FALSE)'
    BY <1>1 DEF CleanHolds
  <2>1. ~reconcile /\ Acceptable(store, FALSE)
    BY <1>1 DEF Load
  <2> QED
    BY <1>1, <1>7, <2>1
       DEF Acceptable, InputsUnchanged, Interrupted, Uncertain, LedgerKnown, SealHolds
<1> QED
  BY <1>11, <1>12, <1>13, <1>14, <1>15, <1>16, <1>17, <1>18 DEF Inv

(***************************************************************************)
(* The invariant, and what a resumed session may rely on.                  *)
(***************************************************************************)
LEMMA StutterHolds ==
    ASSUME Inv, UNCHANGED vars
    PROVE  Inv'
BY DEF vars, disk, Inv, TypeOK, RowsHold, PendingHolds, EventsHold, CaseHolds, PlanHolds,
       RepairHolds, LeftHolds, RestartHolds, ApprovalHolds, CleanHolds, InPlan, Unrecorded,
       LastRow, Acceptable, InputsUnchanged, Interrupted, Uncertain, LedgerKnown, SealHolds,
       Reconcilable, Gone

LEMMA StepHolds ==
    ASSUME Inv, [Next]_vars
    PROVE  Inv'
<1>1. CASE Engineering
  BY <1>1, BeforeModelTurnHolds, TransactionStartHolds, TurnWithoutDecisionHolds,
     CommitBundleHolds, MemberIntentHolds, MemberCompletedHolds, EventAppendedHolds,
     TransactionCompletedHolds, TransactionInterruptedHolds
     DEF Engineering
<1>2. CASE Native
  BY <1>2, ReserveHolds, AnnounceHolds, SpawnHolds, FinishHolds, NativeReturnsHolds DEF Native
<1>3. CASE Runtime
  <2>1. ASSUME RepairEnds PROVE at' \in {"retry", "idle"}
    BY <2>1 DEF RepairEnds, Go
  <2> QED
    BY <1>3, <2>1, SolveHolds, SolverIntentHolds, SolverCapturedHolds, SolverSucceedsHolds,
       SolverFailsHolds, RepairRetriesHolds, RepairGivesUpHolds, PostProcessedHolds,
       NoHandlerHolds
       DEF Runtime
<1>4. CASE Restart
  BY <1>4, RestartIntentHolds, RestartRefusedHolds, JournalWrittenHolds, OutputsMovedHolds,
     ControlWrittenHolds, ReceiptVerifiedHolds, RestartPreparedHolds
     DEF Restart
<1>5. CASE Resume
  BY <1>5, CrashHolds, OutsideHolds, LoadHolds DEF Resume
<1> QED
  BY <1>1, <1>2, <1>3, <1>4, <1>5, StutterHolds DEF Next

LEMMA Invariance == Spec => []Inv
<1>1. Inv /\ [Next]_vars => Inv'
  BY StepHolds
<1> QED
  BY InitHolds, <1>1, PTL DEF Spec

\* A session that takes a new decision knows every side effect of the sessions
\* before it, and leaves no plan and no restart preparation half done: whatever
\* step they died at (CheckpointStore.load and the saves it relies on).
THEOREM NothingInDoubtCorrect == Spec => []NothingInDoubt
<1>1. ASSUME Inv PROVE NothingUnknown
  BY <1>1, NothingRuns, BetweenPlans DEF NothingUnknown, Idle
<1>2. ASSUME Inv PROVE NothingHalfDone
  <2>1. Idle => ~InPlan
    BY DEF Idle, InPlan
  <2> QED
    BY <1>2, <2>1, BetweenPlans DEF NothingHalfDone, Idle, Inv, LeftHolds
<1>3. Inv => NothingInDoubt
  BY <1>1, <1>2 DEF NothingInDoubt
<1> QED
  BY <1>3, Invariance, PTL

\* Whatever was saved and resumed, a solver only starts on an approval the user
\* gave in this very session (checkpoint.py drops the approval, RuntimeOrchestrator
\* asks for it).
THEOREM ApprovedHereCorrect == Spec => []ApprovedHere
<1>1. ASSUME Inv PROVE ApprovedHere
  <2>1. at = "native" /\ LastRow.kind = "solver" => mem.approved
    BY <1>1, Watching
  <2> QED
    BY <1>1, <2>1 DEF ApprovedHere, Inv, ApprovalHolds
<1> QED
  BY <1>1, Invariance, PTL

\* A session that died between two actions left a checkpoint that load accepts as
\* it is, unless the case was edited since (CheckpointStore.save and load).
THEOREM CleanIsResumableCorrect == Spec => []CleanIsResumable
<1>1. Inv => CleanIsResumable
  BY DEF Inv, CleanHolds, CleanIsResumable
<1> QED
  BY <1>1, Invariance, PTL
=============================================================================
