---------------------------- MODULE EvidenceGaps ----------------------------
(***************************************************************************)
(* The ledger of evidence gaps of one phase (engineering/agent.py): the    *)
(* model names what is missing and proposes identifiers, Python owns the   *)
(* identifiers and the life of every gap, and each gap is retrieved once.  *)
(***************************************************************************)
EXTENDS Integers, Sequences, FiniteSetsExt, SequencesExt

CONSTANTS
    CycleLimit,  \* max_prepare_retrieval_cycles or max_runtime_retrieval_cycles
    Proposed,    \* bound: identifiers the model proposes
    MaxGaps,     \* bound: identifiers of the ledger (the code has G01 to G9999)
    MaxBatch     \* bound: gaps of one request (the code has 4)

ASSUME CycleLimitAssumption == CycleLimit \in Nat \ {0}
ASSUME GapsAssumption == MaxGaps \in Nat /\ Proposed \in 1 .. MaxGaps /\ MaxBatch \in Nat

VARIABLES
    ledger,     \* _evidence_gap_ledger of the phase
    cycles,     \* _retrieval_cycles
    disabled,   \* _evidence_retrieval_disabled
    asked       \* history: the requests of this step

gvars == <<ledger, cycles, disabled, asked>>

GapIds == 1 .. MaxGaps
NoParent == 0
Unused == [status |-> "unused", parent |-> NoParent]
NoGaps == [g \in GapIds |-> Unused]
Occupied(l) == {g \in GapIds : l[g] # Unused}

\* What the model asks for: an identifier, the gap it refines, and the topic.
Request == [id : 1 .. Proposed, parent : {NoParent} \cup 1 .. Proposed, topic : 1 .. 2]
Batches == UNION {[1 .. n -> Request] : n \in 1 .. MaxBatch}

(***************************************************************************)
(* Identifiers: _normalize_evidence_gap_batch.                             *)
(***************************************************************************)
NextGapId(taken) == IF taken = {} THEN 1 ELSE Max(taken) + 1

\* The slip of looking for collisions in the ledger alone.
CollidesWithLedger(l, taken, r) == r.parent # NoParent /\ r.id \in Occupied(l)

\* A proposed identifier is taken in this batch, or is that of a known gap
\* though the request is a refinement, be it of itself.
Collides(l, taken, r) == r.id \in taken \/ (r.parent # NoParent /\ r.id \in Occupied(l))

\* One request under the identifiers Python gives it, next to those of the same
\* batch that are settled.  A parent nobody knows is cleared.
NormalizedRequest(l, settled, r) ==
    LET taken == {settled[i].id : i \in DOMAIN settled}
    IN  [id     |-> IF Collides(l, taken, r) THEN NextGapId(Occupied(l) \cup taken) ELSE r.id,
         parent |-> IF r.parent \in Occupied(l) THEN r.parent ELSE NoParent]

\* An exact duplicate within one batch is noise.
Repeats(batch, i) == \E j \in 1 .. i - 1 : batch[j] = batch[i]

NormalizedBatch(l, batch) ==
    LET Settle(settled, i) ==
            IF Repeats(batch, i) THEN settled
            ELSE Append(settled, NormalizedRequest(l, settled, batch[i]))
    IN FoldLeftDomain(Settle, <<>>, batch)

\* The identifiers a batch needs stay within the bound.
FitsBound(batch) == \A i \in DOMAIN batch : batch[i].id \in GapIds

(***************************************************************************)
(* Retrieval: _gather_evidence, _mark_evidence_gaps_satisfied and          *)
(* _disable_evidence_retrieval.                                            *)
(***************************************************************************)
\* A gap is retrieved once, and a satisfied gap is not refined.
Retrievable(l, r) ==
    /\ l[r.id] = Unused
    /\ r.parent # NoParent => l[r.parent].status # "satisfied"

\* One retrieval, which found something new or did not.
Retrieved(l, r, found) ==
    IF ~Retrievable(l, r) THEN l
    ELSE [g \in GapIds |->
            CASE g = r.id     -> [status |-> IF found THEN "evidence_available" ELSE "stagnant",
                                  parent |-> r.parent]
              [] g = r.parent -> [l[g] EXCEPT !.status = "superseded"]
              [] OTHER        -> l[g]]

RetrievedBatch(l, batch, found) ==
    FoldLeftDomain(LAMBDA m, i : Retrieved(m, batch[i], i \in found), l, batch)

\* The agent goes on without more retrieval.
Satisfied(l) ==
    [g \in GapIds |-> IF l[g].status = "evidence_available"
                      THEN [l[g] EXCEPT !.status = "satisfied"] ELSE l[g]]

\* Retrieval itself failed.
Unavailable(l) ==
    [g \in GapIds |-> IF l[g].status \in {"evidence_available", "stagnant"}
                      THEN [l[g] EXCEPT !.status = "retrieval_unavailable"] ELSE l[g]]

CanGather == ~disabled /\ cycles < CycleLimit

\* A batch that is blocked altogether costs no cycle.
Gather ==
    /\ CanGather
    /\ \E batch \in Batches :
        LET needed == NormalizedBatch(ledger, batch)
        IN  /\ FitsBound(needed)
            /\ asked' = batch
            /\ \E found \in SUBSET DOMAIN needed :
                ledger' = RetrievedBatch(ledger, needed, found)
    /\ cycles' = IF ledger' # ledger THEN cycles + 1 ELSE cycles
    /\ UNCHANGED disabled

\* The catalogue or the references fail in the middle of a batch.
RetrievalFails ==
    /\ CanGather
    /\ \E batch \in Batches :
        LET needed == NormalizedBatch(ledger, batch)
        IN  /\ FitsBound(needed)
            /\ asked' = <<>>
            /\ \E k \in DOMAIN needed :
                LET served == RetrievedBatch(ledger, SubSeq(needed, 1, k - 1), {})
                IN  /\ Retrievable(served, needed[k])
                    /\ ledger' = Unavailable(Retrieved(served, needed[k], FALSE))
    /\ cycles' = CycleLimit
    /\ disabled' = TRUE

\* A design, a case plan or a repair was accepted.
Proceed ==
    /\ ledger' = Satisfied(ledger)
    /\ asked' = <<>>
    /\ UNCHANGED <<cycles, disabled>>

\* prepare and repair_runtime start with an empty ledger.
NewRound ==
    /\ ledger' = NoGaps
    /\ cycles' = 0
    /\ disabled' = FALSE
    /\ asked' = <<>>

GapsInit ==
    /\ ledger = NoGaps
    /\ cycles = 0
    /\ disabled = FALSE
    /\ asked = <<>>

GapsNext == Gather \/ RetrievalFails \/ Proceed \/ NewRound

GapsSpec == GapsInit /\ [][GapsNext]_gvars

(***************************************************************************)
(* Properties.                                                             *)
(***************************************************************************)
\* Every different request of a batch that refines a known gap gets a gap of
\* its own, whatever identifiers the model proposed: the gap itself, one of
\* another gap, one of the same batch or one that Python has just issued.
Refining(batch, p) == {i \in DOMAIN batch : batch[i].parent = p /\ ~Repeats(batch, i)}

Children(p) == {g \in GapIds : ledger[g] = Unused /\ ledger'[g] # Unused /\ ledger'[g].parent = p}

RefinementsServed ==
    [][\A p \in Occupied(ledger) :
        ledger[p].status # "satisfied" => Cardinality(Children(p)) >= Cardinality(Refining(asked', p))]_gvars

\* Until the next round a closed gap stays as it was closed: what the agent went
\* on with is not opened again, and what could not be retrieved does not look
\* satisfied.
Closed == {"satisfied", "superseded", "retrieval_unavailable"}

ClosedGapsStay ==
    [][\A g \in GapIds : ledger[g].status \in Closed => ledger'[g] \in {ledger[g], Unused}]_gvars

\* A gap gets one retrieval, its refinements get theirs, and then it is closed.
GapsServedOnce == RefinementsServed /\ ClosedGapsStay
=============================================================================
