--------------------------- MODULE SolutionLibrary ---------------------------
(* The revisions of one solution (solution_library.py over the `solutions`  *)
(* table of canonical_store.py), written by several processes while the     *)
(* repair record the solution is taken from moves on beside them, as        *)
(* RepairPromise says and RepairRecords implements. A process checks the    *)
(* record, saves a revision, and recommends the first one in a second       *)
(* statement; it may die between any two.                                   *)
EXTENDS RepairPromise, FiniteSetsExt

CONSTANTS
    MaxRecordVersion,   \* bound: the record does not change beyond this version
    Authors,            \* the processes
    Texts,              \* what a recipe may say
    MaxRevision         \* bound: revisions of the solution

ASSUME MaxRevisionIsNat == MaxRevision \in Nat

VARIABLES
    solutions,    \* the revisions
    recommended,  \* the revision whose column is set, 0 for none
    job           \* what each author is doing

libraryVars == <<solutions, recommended, job>>
vars == <<promiseVars, libraryVars>>

(* `source` is the number of the verification that the document cites, 0    *)
(* for a note (source kind MANUAL).                                         *)
Document == [status : {"VERIFIED", "UNVERIFIED"}, source : Nat, text : Texts]
NoJob == [step |-> "idle"]
Jobs == [step : {"idle"}] \cup
        [step : {"saving", "recommending"}, revision : 1..MaxRevision, document : Document]

Init == /\ PromiseInit
        /\ solutions = <<>>
        /\ recommended = 0
        /\ job = [a \in Authors |-> NoJob]

StartSaving(a, document) ==
    /\ \E n \in 1..MaxRevision :
          job' = [job EXCEPT ![a] = [step |-> "saving", revision |-> n, document |-> document]]
    /\ UNCHANGED <<solutions, recommended>>

(* Variant: any verdict of a record that succeeded will do. *)
Resolved_Any == DOMAIN row.verifications

(* solidify_solution: only from a record that closed as a success, citing   *)
(* its last verdict that says RESOLVED.                                     *)
Resolved == {k \in DOMAIN row.verifications : row.verifications[k].outcome = "RESOLVED"}

Solidify(a) ==
    /\ job[a].step = "idle"
    /\ row.status = "SUCCEEDED"
    /\ Resolved # {}
    /\ \E text \in Texts :
          StartSaving(a, [status |-> "VERIFIED", source |-> Max(Resolved), text |-> text])

ImportUnverified(a) ==
    /\ job[a].step = "idle"
    /\ \E text \in Texts :
          StartSaving(a, [status |-> "UNVERIFIED", source |-> 0, text |-> text])

(* save_solution: the same bytes again are taken for saved, other bytes     *)
(* under a used number and a number that leaves a gap are refused.          *)
Saved(n, document) ==
    IF n \in DOMAIN solutions /\ solutions[n] = document THEN {solutions}
    ELSE IF n = Len(solutions) + 1 THEN {Append(solutions, document)} ELSE {}

(* What solidify_solution does next with what it saved.                     *)
Recommends(a) ==
    /\ job[a].document.status = "VERIFIED"
    /\ job[a].revision = 1
    /\ recommended # 1

SaveSolution(a) ==
    /\ job[a].step = "saving"
    /\ solutions' \in Saved(job[a].revision, job[a].document)
    /\ job' = [job EXCEPT ![a] = IF Recommends(a) THEN [job[a] EXCEPT !.step = "recommending"]
                                 ELSE NoJob]
    /\ UNCHANGED recommended

(* recommend_solution                                                       *)
Recommend(a) ==
    /\ job[a].step = "recommending"
    /\ recommended' = job[a].revision
    /\ job' = [job EXCEPT ![a] = NoJob]
    /\ UNCHANGED solutions

(* A refusal of save_solution, or the end of the process.                   *)
Abandon(a) ==
    /\ job[a].step # "idle"
    /\ job' = [job EXCEPT ![a] = NoJob]
    /\ UNCHANGED <<solutions, recommended>>

Write(a) == Solidify(a) \/ ImportUnverified(a) \/ SaveSolution(a) \/ Recommend(a) \/ Abandon(a)

Next == \/ row.version < MaxRecordVersion /\ PromiseNext /\ UNCHANGED libraryVars
        \/ \E a \in Authors : Write(a) /\ UNCHANGED promiseVars

Spec == Init /\ [][Next]_vars
-----------------------------------------------------------------------------
(* A VERIFIED revision cites a verdict of a record that is still closed as  *)
(* a success, whose verdict rests on the fault having been absent; and only *)
(* a VERIFIED revision is recommended, whatever notes were imported under   *)
(* which numbers meanwhile (solution_library.py:253-272, 294-310).          *)
Stands(document) ==
    document.status = "VERIFIED" =>
        /\ row.status = "SUCCEEDED"
        /\ document.source \in DOMAIN row.verifications
        /\ row.verifications[document.source].outcome = "RESOLVED"
        /\ row.verifications[document.source].answered \in absentAfter

VerifiedStands ==
    /\ \A n \in DOMAIN solutions : Stands(solutions[n])
    /\ recommended > 0 => solutions[recommended].status = "VERIFIED"

=============================================================================
