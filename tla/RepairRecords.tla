---------------------------- MODULE RepairRecords ----------------------------
(* Several command-line processes change one repair record. Each was given  *)
(* the version its user saw, reads the row itself, works out the new row    *)
(* and hands it to CanonicalStore.save_action_plan with that version; a     *)
(* process may die anywhere. The SELECT and the UPDATE of save_action_plan  *)
(* are one step here: the UPDATE names the version, so it writes nothing    *)
(* when the row has moved in between, and the insert is kept single by the  *)
(* primary key.                                                             *)
EXTENDS RepairPromise

CONSTANTS
    Callers,
    MaxVersion   \* bound: no operation starts on a row of this version

ASSUME MaxVersionIsNat == MaxVersion \in Nat

VARIABLE call      \* what each process is doing

recordVars == <<promiseVars, call>>

Idle == [step |-> "idle", expected |-> 0, verdict |-> "UNVERIFIABLE", draft |-> NoRow]
Call == [step : {"idle", "looked", "judged", "saving"}, expected : Nat,
         verdict : Verdicts, draft : Row]

RecordInit ==
    /\ PromiseInit
    /\ call = [c \in Callers |-> Idle]

(* `record`: no version is passed, the row is inserted when it is missing.  *)
RecordPack(c) ==
    /\ call[c].step = "idle"
    /\ \E draft \in Drafts(row) : row' = Bumped(row, draft)
    /\ UNCHANGED <<fault, call>>
    /\ Remember

(* `show`: the version the caller will pass.                                *)
Look(c) ==
    /\ call[c].step = "idle"
    /\ row.version \in 1..(MaxVersion - 1)
    /\ call' = [call EXCEPT ![c] = [Idle EXCEPT !.step = "looked", !.expected = row.version]]
    /\ UNCHANGED promiseVars

Prepare(c, draft) ==
    /\ call' = [call EXCEPT ![c] = [Idle EXCEPT !.step = "saving", !.draft = draft,
                                                !.expected = call[c].expected]]
    /\ UNCHANGED promiseVars

Approve(c) ==
    /\ call[c].step = "looked"
    /\ \E draft \in Approvals(row) : Prepare(c, draft)

DeclareHandoff(c) ==
    /\ call[c].step = "looked"
    /\ \E draft \in Declarations(row) : Prepare(c, draft)

ImportResult(c) ==
    /\ call[c].step = "looked"
    /\ \E draft \in Imports(row) : Prepare(c, draft)

RecordOutcome(c) ==
    /\ call[c].step = "looked"
    /\ \E draft \in Closings(row) : Prepare(c, draft)

(* verify_record: the issues are read first, and may be unreadable, with a  *)
(* source that does not answer, or cut short.                               *)
ReadIssues(c) ==
    /\ call[c].step = "looked"
    /\ \E verdict \in {"UNVERIFIABLE", IF fault THEN "UNRESOLVED" ELSE "RESOLVED"} :
          call' = [call EXCEPT ![c] = [Idle EXCEPT !.step = "judged", !.verdict = verdict,
                                                   !.expected = call[c].expected]]
    /\ UNCHANGED promiseVars

(* record_verification reads the row again.                                 *)
RecordVerification(c) ==
    /\ call[c].step = "judged"
    /\ \E draft \in Verifications(row, call[c].verdict) : Prepare(c, draft)

(* Variants: the version is not compared; it is compared with the one that  *)
(* the operation read itself.                                               *)
Current_Ignored(c) == TRUE
Current_OwnRead(c) == call[c].draft.version = row.version

(* save_action_plan refuses unless the row has the version the caller gave. *)
Current(c) == call[c].expected = row.version

Save(c) ==
    /\ call[c].step = "saving"
    /\ Current(c)
    /\ row' = Bumped(row, call[c].draft)
    /\ call' = [call EXCEPT ![c] = Idle]
    /\ UNCHANGED fault
    /\ Remember

(* The call ends without a write: it was refused here or before, or its     *)
(* process died.                                                            *)
GiveUp(c) ==
    /\ call[c].step # "idle"
    /\ call' = [call EXCEPT ![c] = Idle]
    /\ UNCHANGED promiseVars

(* The fault goes away or comes back.                                       *)
FaultTurns == Turn /\ Remember /\ UNCHANGED call

Step(c) == \/ RecordPack(c) \/ Look(c) \/ Approve(c) \/ DeclareHandoff(c) \/ ImportResult(c)
           \/ RecordOutcome(c) \/ ReadIssues(c) \/ RecordVerification(c) \/ Save(c) \/ GiveUp(c)

RecordNext == FaultTurns \/ \E c \in Callers : Step(c)
RecordSpec == RecordInit /\ [][RecordNext]_recordVars
-----------------------------------------------------------------------------
RecordTypeOK ==
    /\ row \in Row
    /\ fault \in BOOLEAN
    /\ absentAfter \subseteq Results
    /\ presentAfter \subseteq Results
    /\ call \in [Callers -> Call]

(* "Every mutation is a compare-and-swap": no operation that succeeded is   *)
(* lost under another one, so that the history has an event for every       *)
(* version, and the approval, the results and the verdicts are there if and *)
(* only if it tells of them (repair_state.py with save_action_plan).        *)
Told(event) == \E k \in DOMAIN row.history : row.history[k] = event
NothingLost ==
    /\ row.version > 0 => Len(row.history) = row.version - 1
    /\ (row.grant # None) <=> Told("APPROVED")
    /\ (Imported(row) # {}) <=> Told("EXTERNAL_RESULT_IMPORTED")
    /\ (row.verifications # <<>>) <=> Told("VERIFICATION_RECORDED")

(* A record that closed as a success was approved, and was closed either by *)
(* evidence a caller can cite or by a verdict on the last result that came  *)
(* in, which claimed a success, when the fault had been absent after that   *)
(* result was imported: verify_record reads the issues, then the row, then  *)
(* writes, and another result may be imported between any two of these.     *)
SuccessIsEarned ==
    row.status = "SUCCEEDED" =>
        /\ row.grant # None
        /\ row.evidence = "strong"
        /\ row.history[Len(row.history)] = "VERIFICATION_RECORDED" =>
              LET last == row.verifications[Len(row.verifications)]
              IN  /\ last.outcome = "RESOLVED"
                  /\ row.results[last.answered] = "SUCCEEDED"
                  /\ last.answered \in absentAfter

(* "A closed record is history": nothing that was read before the record    *)
(* was closed is written into it after (repair_state.py).                   *)
ClosedIsFrozen == [][row.status \in TERMINAL_STATUSES => row' = row]_recordVars

(* Reading, deciding and writing with the caller's version behaves as if    *)
(* every operation happened at one moment.                                  *)
ImplementsPromise == PromiseSpec
=============================================================================
