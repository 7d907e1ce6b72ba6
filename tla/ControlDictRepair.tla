-------------------------- MODULE ControlDictRepair --------------------------
(***************************************************************************)
(* Entry-level authorization of runtime repairs of system/controlDict      *)
(* (contracts/execution.py, check_repair_delta), over a sequence of        *)
(* candidates under one approval.  A candidate that was authorized may     *)
(* still not be committed, and somebody else may edit the file.            *)
(***************************************************************************)
EXTENDS Integers

CONSTANTS
    MaxValue,   \* largest value of a numerical entry
    Frozen,     \* entries a confirmed requirement is bound to
    MaxEdits    \* bound: foreign edits

Scalars  == {"deltaT", "maxDeltaT", "maxCo"}
Mutable  == Scalars \cup {"adjustTimeStep"}
Entries  == Mutable \cup {"endTime"}       \* endTime: any other entry

ASSUME MaxValueAssumption == MaxValue \in Nat \ {0}
ASSUME FrozenAssumption == Frozen \subseteq Entries
ASSUME MaxEditsAssumption == MaxEdits \in Nat

Missing == 0
Off == 0
On  == 1

\* Missing adjustTimeStep means off to the solver; every literal boolean is one.
Dicts == {c \in [Entries -> 0 .. MaxValue] :
            /\ c["adjustTimeStep"] \in {Off, On}
            /\ c["deltaT"] # Missing
            /\ c["endTime"] # Missing}

VARIABLES
    approved,    \* controlDict as /solve approved it
    control,     \* controlDict on disk
    authorized,  \* authorized_repair_hashes, or <<>>
    base,        \* authorized_repair_base_hashes, or <<>>
    baseline,    \* repair_baselines, or <<>>
    edits        \* history: foreign edits so far

rvars == <<approved, control, authorized, base, baseline, edits>>

Nothing == <<>>

RepairsTypeOK ==
    /\ approved \in Dicts
    /\ control \in Dicts
    /\ authorized \in Dicts \cup {Nothing}
    /\ base \in Dicts \cup {Nothing}
    /\ baseline \in Dicts \cup {Nothing}
    /\ edits \in 0 .. MaxEdits

RepairsInit ==
    /\ approved \in Dicts
    /\ control = approved
    /\ authorized = Nothing
    /\ base = Nothing
    /\ baseline = Nothing
    /\ edits = 0

(***************************************************************************)
(* check_repair_delta for one candidate of a controlDict c.                *)
(***************************************************************************)
\* The slip of authorizing a delta over whatever is on disk ...
AnythingKnown(c, proposed) == proposed \in Dicts

Known(c, proposed) ==
    \/ c \in {approved, authorized}
    \/ proposed = authorized /\ c = base

Changed(c, proposed) == {e \in Entries : proposed[e] # c[e]}

Original(c) == IF baseline = Nothing THEN c ELSE baseline

\* Python's `a or b' on an entry that may be missing.
Either(a, b) == IF a # Missing THEN a ELSE b

\* The bound in force before the candidate and in the original; only
\* maxDeltaT may be introduced, below the fixed step.
Bound(c, e) == IF e = "maxDeltaT" THEN Either(c[e], c["deltaT"]) ELSE c[e]

Reduces(c, proposed, e) ==
    /\ proposed[e] # Missing
    /\ Bound(c, e) # Missing
    /\ Bound(Original(c), e) # Missing
    /\ proposed[e] <= Bound(c, e)
    /\ proposed[e] <= Bound(Original(c), e)

Adaptive(c, proposed) ==
    proposed["adjustTimeStep"] = On =>
        /\ proposed["maxDeltaT"] # Missing
        /\ proposed["maxDeltaT"] <= Bound(Original(c), "maxDeltaT")

Authorized(c, proposed) ==
    /\ Known(c, proposed)
    /\ Changed(c, proposed) \cap Frozen = {}
    /\ Changed(c, proposed) \subseteq Mutable
    /\ \A e \in Changed(c, proposed) \cap Scalars : Reduces(c, proposed, e)
    /\ "adjustTimeStep" \in Changed(c, proposed) => Adaptive(c, proposed)

Record(proposed) ==
    /\ authorized' = proposed
    /\ base' = control
    /\ baseline' = Original(control)

\* A candidate is authorized and committed.
Repair ==
    /\ \E proposed \in Dicts \ {control} :
        /\ Authorized(control, proposed)
        /\ Record(proposed)
        /\ control' = proposed
    /\ UNCHANGED <<approved, edits>>

\* A candidate is authorized and then not committed: the budget or the tool
\* chain refused it after the check.
RepairRefused ==
    /\ \E proposed \in Dicts \ {control} :
        /\ Authorized(control, proposed)
        /\ Record(proposed)
    /\ UNCHANGED <<approved, control, edits>>

ForeignEdit ==
    /\ edits < MaxEdits
    /\ edits' = edits + 1
    /\ control' \in Dicts \ {control}
    /\ UNCHANGED <<approved, authorized, base, baseline>>

RepairsNext == Repair \/ RepairRefused \/ ForeignEdit

RepairsSpec == RepairsInit /\ [][RepairsNext]_rvars

(***************************************************************************)
(* Properties.                                                             *)
(***************************************************************************)
\* No sequence of repairs, committed or not, with foreign edits between them,
\* produces a controlDict outside the first approval: what is not numerical
\* control or is frozen stays, no bound grows, and none is introduced above
\* the approved fixed step.
Within(c) ==
    /\ \A e \in (Entries \ Mutable) \cup Frozen : c[e] = approved[e]
    /\ \A e \in Scalars :
        \/ c[e] = approved[e]
        \/ c[e] # Missing /\ c[e] <= Bound(approved, e)

RepairsStayWithinApproval == [][authorized' # authorized => Within(authorized')]_rvars

\* "Rechecking the same uncommitted candidate is deliberately idempotent": as
\* long as the file is the one the candidate was made for, it is authorized
\* again.
RecheckIsIdempotent ==
    authorized # Nothing /\ control = base => Authorized(control, authorized)

\* What both rest on: the baseline is the approved file, and the last candidate
\* stays authorized over the file it was made for, whatever is on disk now.
AuthorizedHolds ==
    /\ authorized = Nothing <=> base = Nothing
    /\ authorized = Nothing <=> baseline = Nothing
    /\ authorized # Nothing =>
        /\ baseline = approved
        /\ Within(authorized)
        /\ Authorized(base, authorized)
=============================================================================
