---------------------------- MODULE RepairPromise ----------------------------
(* What repair_state.py promises of one record: every operation happens at  *)
(* one moment on the row as it is, and a verdict that closes the record     *)
(* rests on a look at the fault made after the result it answers came in.   *)
EXTENDS RepairData

VARIABLES
    row,           \* the row of action_plans
    fault,         \* does the store still produce the pack's fingerprints?
    absentAfter,   \* history: results since whose import it was absent
    presentAfter   \* history: results since whose import it was present

promiseVars == <<row, fault, absentAfter, presentAfter>>

PromiseInit ==
    /\ row = NoRow
    /\ fault \in BOOLEAN
    /\ absentAfter = {}
    /\ presentAfter = {}

Remember ==
    /\ absentAfter' = absentAfter \cup IF fault' THEN {} ELSE Imported(row')
    /\ presentAfter' = presentAfter \cup IF fault' THEN Imported(row') ELSE {}

Witnessed(verdict, result, absent, present) ==
    /\ verdict = "RESOLVED" => result \in absent
    /\ verdict = "UNRESOLVED" => result \in present

(* The rows that may follow.                                                *)
Allowed(r, absent, present) ==
    Approvals(r) \cup Declarations(r) \cup Imports(r) \cup Closings(r) \cup
    UNION {Verifications(r, v) : v \in {w \in Verdicts : Witnessed(w, r.pending, absent, present)}}

Begin == \E draft \in Drafts(row) :
    row' = Bumped(row, draft) /\ UNCHANGED fault

Change == \E draft \in Allowed(row, absentAfter, presentAfter) :
    row' = Bumped(row, draft) /\ UNCHANGED fault

Turn == fault' = ~fault /\ UNCHANGED row

PromiseNext == (Begin \/ Change \/ Turn) /\ Remember
PromiseSpec == PromiseInit /\ [][PromiseNext]_promiseVars
=============================================================================
