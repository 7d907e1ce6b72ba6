------------------------- MODULE ExecutionApproval -------------------------
(***************************************************************************)
(* What the /solve approval of a sealed case authorizes                    *)
(* (contracts/execution.py, class ExecutionApproval).                      *)
(*                                                                         *)
(* The module is constant-level: every operator is a function of its       *)
(* arguments.  A case is a function from input files to contents, where 0  *)
(* is "no such file".  The content of system/controlDict stands for its    *)
(* time-step bound, so that "only reduce" is the order on contents; the    *)
(* entry-by-entry rule is the subject of ControlDictRepair.  A hash is     *)
(* modelled by the content it identifies.                                  *)
(***************************************************************************)
EXTENDS Integers

CONSTANTS
    Inputs,        \* case input files an agent authors
    MaxContent,    \* largest content of a file
    Plans,         \* engineering plans
    ContractOf,    \* the part of a plan that /solve freezes: execution
                   \* topology and confirmed physics
    None           \* Python's None

ASSUME InputsAssumption ==
    /\ "blockMeshDict" \in Inputs
    /\ "polyMesh" \notin Inputs

ASSUME MaxContentAssumption == MaxContent \in Nat \ {0}

ASSUME PlansAssumption == None \notin Plans

Absent == 0

\* Every file under 0/, constant/ and system/ is sealed, the native mesh too.
Files    == Inputs \cup {"polyMesh"}
Contents == 0 .. MaxContent
Case     == [Files -> Contents]

Contracts == {ContractOf[p] : p \in Plans}

ASSUME NoneIsNotData ==
    /\ None \notin Contents
    /\ None \notin Contracts

CaseSeal == [plan : Plans, files : Case]

MaybeContent == Contents \cup {None}

Approval == [contract  : Contracts,
             files     : Case,
             hashes    : [Files -> MaybeContent],
             bases     : [Files -> MaybeContent],
             baselines : [Files -> MaybeContent]]

Unset == [f \in Files |-> None]

(***************************************************************************)
(* The two kinds of file an automatic runtime repair may touch.            *)
(***************************************************************************)
PathKind(f) ==
    CASE f = "fvSolution"  -> "numerical_dictionary"
      [] f = "controlDict" -> "control_dict"
      [] OTHER             -> "none"

Seal(p, d) == [plan |-> p, files |-> d]

\* verify_seal: the plan and every execution input are the sealed ones.
SealHolds(s, p, d) == s # None /\ s.plan = p /\ s.files = d

Issue(p, s) ==
    [contract  |-> ContractOf[p],
     files     |-> s.files,
     hashes    |-> Unset,
     bases     |-> Unset,
     baselines |-> Unset]

PlanApproved(a, p) == a.contract = ContractOf[p]

(***************************************************************************)
(* check_repair_delta, one path of the candidate delta.  The bytes on disk *)
(* must be approved ones, unless this very candidate was checked before;   *)
(* a controlDict bound may only shrink, from its last accepted value and   *)
(* from its first approved one.                                            *)
(***************************************************************************)
KnownBaseline(a, d, f, new) ==
    \/ d[f] \in {a.files[f], a.hashes[f]}
    \/ new = a.hashes[f] /\ d[f] = a.bases[f]

\* The slip of checking that the entry is a bound, not that it shrinks.
AnyBound(a, d, f, new) == new # Absent

OnlyReduces(a, d, f, new) ==
    /\ new <= d[f]
    /\ a.baselines[f] # None => new <= a.baselines[f]

PathAuthorized(a, d, f, new) ==
    /\ PathKind(f) # "none"
    /\ d[f] # Absent
    /\ KnownBaseline(a, d, f, new)
    /\ new # d[f] /\ PathKind(f) = "control_dict" => OnlyReduces(a, d, f, new)

DeltaAuthorized(a, d, delta) ==
    \A f \in DOMAIN delta : PathAuthorized(a, d, f, delta[f])

\* The approval after an accepted delta: all of the candidate, or (on a
\* rejection) none of it.
Authorize(a, d, delta) ==
    LET changed == {f \in DOMAIN delta : delta[f] # d[f]}
    IN  [a EXCEPT
          !.hashes    = [f \in Files |-> IF f \in changed THEN delta[f] ELSE @[f]],
          !.bases     = [f \in Files |-> IF f \in changed THEN d[f] ELSE @[f]],
          !.baselines = [f \in Files |->
              IF f \in changed /\ PathKind(f) = "control_dict" /\ @[f] = None
              THEN d[f] ELSE @[f]]]

\* check_repair_files: the coarse check of a whole seal after the mutation.
FilesApproved(a, files) ==
    \A f \in Files :
        \/ files[f] = a.files[f]
        \/ /\ PathKind(f) # "none"
           /\ files[f] # Absent
           /\ a.hashes[f] = files[f]

(***************************************************************************)
(* What the approval is worth to the user: the inputs a solver may read    *)
(* when `approved' was approved.                                           *)
(***************************************************************************)
WithinApproval(approved, files) ==
    \A f \in Files :
        \/ files[f] = approved[f]
        \/ PathKind(f) = "numerical_dictionary"
        \/ PathKind(f) = "control_dict" /\ files[f] <= approved[f]
=============================================================================
