----------------------------- MODULE RepairData -----------------------------
(* The row of one repair record and what each operation on it would write,  *)
(* as sets of rows: packages/client-neutral-core/scripts/repair_state.py    *)
(* with the verdicts of repair_verification.py. An operation that refuses   *)
(* has no row to write. The moment an operation takes from the clock is     *)
(* stood for by the version of the row it read: the row is written only     *)
(* while it has that version, so the two are ordered alike.                 *)
EXTENDS Naturals, Sequences

CONSTANTS
    Results,     \* the ids of result documents
    Targets,     \* the versions of the software a handoff may name
    Grants,      \* the valid grants of the trusted record that cover the plan
    None         \* the null of a field

ASSUME NoneIsApart == None \notin Results \cup Targets \cup Grants
ASSUME ClaimedIsNotNone == None \notin {"SUCCEEDED", "FAILED"}

RECORDABLE_STATUSES == {"WAITING_APPROVAL", "BLOCKED"}
OUTCOMES == {"SUCCEEDED", "FAILED", "BLOCKED"}
TERMINAL_STATUSES == OUTCOMES
HANDOFF_CLAIMS == {"copiedByUser", "userDeclaredHandoff"}

(* What a result document claims; FAILED stands for BLOCKED too, which is   *)
(* treated alike.                                                           *)
Claimed == {"SUCCEEDED", "FAILED"}

(* Evidence is strong when its level is one of CLOSING_EVIDENCE_LEVELS and  *)
(* it names at least one reference.                                         *)
Evidence == {"none", "weak", "strong"}

Verdicts == {"RESOLVED", "UNRESOLVED", "UNVERIFIABLE"}

Events == {"APPROVED", "HANDOFF_DECLARED", "EXTERNAL_RESULT_IMPORTED",
           "OUTCOME_RECORDED", "VERIFICATION_RECORDED"}
Handoff == [target : Targets \cup {None}, declaredAt : Nat]
NoHandoff == [target |-> None, declaredAt |-> 0]
Verification == [outcome : Verdicts, answered : Results]

STATUSES == RECORDABLE_STATUSES \cup {"ABSENT", "APPROVED"} \cup OUTCOMES
GrantOrNone == Grants \cup {None}
ResultOrNone == Results \cup {None}
HandoffRecord == [HANDOFF_CLAIMS -> Handoff]
ExternalResults == [Results -> Claimed \cup {None}]
VerificationLog == Seq(Verification)
EventLog == Seq(Events)

(* Version 0 is the row that is not there.                                  *)
Row == [version : Nat, status : STATUSES, grant : GrantOrNone, handoff : HandoffRecord,
        results : ExternalResults, pending : ResultOrNone, verifications : VerificationLog,
        evidence : Evidence, history : EventLog]

NoRow == [version |-> 0, status |-> "ABSENT", grant |-> None,
          handoff |-> [k \in HANDOFF_CLAIMS |-> NoHandoff],
          results |-> [r \in Results |-> None], pending |-> None,
          verifications |-> <<>>, evidence |-> "none",
          history |-> <<>>]

Imported(row) == {r \in Results : row.results[r] # None}
Logged(row, event) == [row EXCEPT !.history = Append(row.history, event)]

(* record_pack: a draft, with the status the projection gave the pack. The  *)
(* same draft again changes nothing, and another row is a conflict because  *)
(* no version is passed.                                                    *)
Drafts(row) ==
    {[NoRow EXCEPT !.status = s] : s \in {t \in RECORDABLE_STATUSES : row.version = 0}}

Approvals(row) ==
    {[Logged(row, "APPROVED") EXCEPT !.status = "APPROVED", !.grant = g] :
        g \in {h \in Grants : row.status = "WAITING_APPROVAL"}}

(* Variant: a closed record takes another statement. *)
Declarations_Anytime(row) ==
    {[Logged(row, "HANDOFF_DECLARED") EXCEPT
         !.handoff = [row.handoff EXCEPT ![d[1]] = [target |-> d[2], declaredAt |-> row.version]]] :
        d \in {e \in HANDOFF_CLAIMS \X (Targets \cup {None}) : row.version > 0}}

(* declare_handoff. A statement that repeats the claim, target, channel and *)
(* recipient writes nothing; one that names the same target over another    *)
(* channel or to another recipient is new, and so is its moment. Channels   *)
(* and recipients are not kept: any target may be declared again.           *)
Declarations(row) ==
    {[Logged(row, "HANDOFF_DECLARED") EXCEPT
         !.handoff = [row.handoff EXCEPT ![d[1]] = [target |-> d[2], declaredAt |-> row.version]]] :
        d \in {e \in HANDOFF_CLAIMS \X (Targets \cup {None}) :
                  /\ row.version > 0
                  /\ row.status \notin TERMINAL_STATUSES}}

LatestHandoff(row) ==
    CHOOSE h \in {row.handoff[k] : k \in HANDOFF_CLAIMS} :
        \A k \in HANDOFF_CLAIMS : row.handoff[k].declaredAt <= h.declaredAt

(* A document answers the latest handoff: it names that handoff's version   *)
(* and was produced no earlier.                                             *)
Binds(doc, row) ==
    LET handoff == LatestHandoff(row)
    IN  /\ handoff.declaredAt > 0
        /\ handoff.target # None
        /\ doc.target = handoff.target
        /\ doc.producedAt >= handoff.declaredAt
        /\ doc.resultId \notin Imported(row)

Imports(row) ==
    {[Logged(row, "EXTERNAL_RESULT_IMPORTED") EXCEPT
         !.results = [row.results EXCEPT ![doc.resultId] = doc.claimed],
         !.pending = doc.resultId] :
        doc \in {d \in [resultId : Results, claimed : Claimed,
                        target : Targets, producedAt : 0..row.version] :
                    row.status = "APPROVED" /\ Binds(d, row)}}

(* record_outcome: a caller's own closing; a success needs strong evidence  *)
(* that names something.                                                    *)
Closings(row) ==
    {[Logged(row, "OUTCOME_RECORDED") EXCEPT !.status = o[1], !.evidence = o[2]] :
        o \in {p \in OUTCOMES \X {"weak", "strong"} :
                  /\ row.status = "APPROVED"
                  /\ p[1] = "SUCCEEDED" => p[2] = "strong"}}

Closed(row, verdict) ==
    IF verdict = "RESOLVED" /\ row.results[row.pending] = "SUCCEEDED" THEN "SUCCEEDED"
    ELSE IF verdict = "UNVERIFIABLE" THEN row.status ELSE "FAILED"

(* record_verification: the verdict is the answer to the result that is     *)
(* pending in the row; one that could not tell leaves it pending.           *)
Verifications(row, verdict) ==
    {[Logged(row, "VERIFICATION_RECORDED") EXCEPT
         !.verifications = Append(row.verifications, [outcome |-> v, answered |-> row.pending]),
         !.status = Closed(row, v),
         !.evidence = IF v = "UNVERIFIABLE" THEN row.evidence ELSE "strong",
         !.pending = IF v = "UNVERIFIABLE" THEN row.pending ELSE None] :
        v \in {w \in {verdict} : row.status = "APPROVED" /\ row.pending # None}}

(* save_action_plan, the UPDATE: the version grows by one.                  *)
Bumped(row, draft) == [draft EXCEPT !.version = row.version + 1]
=============================================================================
