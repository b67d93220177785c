---------------------------- MODULE RepairProofs ----------------------------
(* Proofs about RepairRecords, for any callers, results and bound: the      *)
(* compare-and-set with the caller's version makes every operation atomic,  *)
(* no operation is lost, a closed record stays as it is, and a success is   *)
(* earned. And about SolutionLibrary, which takes its record's moves from   *)
(* the promise that RepairRecords implements: a VERIFIED solution stands.   *)
EXTENDS RepairRecords, SolutionLibrary, TLAPS

-----------------------------------------------------------------------------
(* Rows *)

(* An event is added to a history. *)
LEMMA AppendEvent ==
    ASSUME NEW h \in EventLog, NEW e \in Events, NEW new, new = Append(h, e)
    PROVE  /\ new \in EventLog
           /\ Len(new) = Len(h) + 1
           /\ new[Len(new)] = e
           /\ \A x : (\E k \in DOMAIN new : new[k] = x)
                       <=> (x = e \/ \E k \in DOMAIN h : h[k] = x)
BY DEF EventLog

LEMMA LastOfAppend ==
    ASSUME NEW S, NEW q \in Seq(S), NEW x \in S, NEW new, new = Append(q, x)
    PROVE  new # <<>> /\ new[Len(new)] = x
OBVIOUS

LEMMA LoggedEvent ==
    ASSUME NEW r \in Row, NEW e \in Events
    PROVE  Append(r.history, e) \in EventLog
<1>1. r.history \in EventLog
  BY DEF Row
<1>2. QED
  BY <1>1 DEF EventLog

(* The fields of a row have their types, and fields of those types make a   *)
(* row.                                                                     *)
LEMMA RowParts ==
    ASSUME NEW r \in Row
    PROVE  /\ r.version \in Nat /\ r.version + 1 \in Nat
           /\ r.status \in STATUSES /\ r.grant \in GrantOrNone
           /\ r.handoff \in HandoffRecord /\ r.results \in ExternalResults
           /\ r.pending \in ResultOrNone /\ r.verifications \in VerificationLog
           /\ r.evidence \in Evidence /\ r.history \in EventLog
BY DEF Row

LEMMA MadeRow ==
    ASSUME NEW n \in Nat, NEW s \in STATUSES, NEW g \in GrantOrNone,
           NEW hand \in HandoffRecord, NEW results \in ExternalResults,
           NEW p \in ResultOrNone, NEW ver \in VerificationLog,
           NEW e \in Evidence, NEW h \in EventLog, NEW new,
           new = [version |-> n, status |-> s, grant |-> g, handoff |-> hand,
                  results |-> results, pending |-> p, verifications |-> ver,
                  evidence |-> e, history |-> h]
    PROVE  /\ new \in Row
           /\ new.version = n /\ new.status = s /\ new.grant = g
           /\ new.results = results /\ new.pending = p
           /\ new.verifications = ver /\ new.evidence = e /\ new.history = h
BY DEF Row

(* What every operation on a stored row has in common. *)
Follows(r, new, event) ==
    /\ r \in Row
    /\ new \in Row
    /\ new.version = r.version + 1
    /\ new.history = Append(r.history, event)

Kept(r, new) ==
    /\ new.grant = r.grant
    /\ new.results = r.results
    /\ new.verifications = r.verifications

(* The empty row is a row. *)
LEMMA NoRowIsRow == NoRow \in Row /\ Imported(NoRow) = {}
<1>1. NoHandoff \in Handoff
  BY DEF NoHandoff, Handoff
<1> DEFINE hand == [k \in HANDOFF_CLAIMS |-> NoHandoff]
           results == [r \in Results |-> None]
<1>2. hand \in HandoffRecord
  BY <1>1 DEF HandoffRecord
<1>3. results \in ExternalResults /\ \A r \in Results : results[r] = None
  BY DEF ExternalResults
<1>4. /\ <<>> \in VerificationLog /\ <<>> \in EventLog /\ "ABSENT" \in STATUSES
      /\ None \in GrantOrNone /\ None \in ResultOrNone /\ "none" \in Evidence
  BY DEF VerificationLog, EventLog, STATUSES, GrantOrNone, ResultOrNone, Evidence
<1>5. NoRow = [version |-> 0, status |-> "ABSENT", grant |-> None, handoff |-> hand,
               results |-> results, pending |-> None, verifications |-> <<>>,
               evidence |-> "none", history |-> <<>>]
  BY DEF NoRow
<1> HIDE DEF hand, results
<1>6. NoRow \in Row /\ NoRow.results = results
  BY <1>2, <1>3, <1>4, <1>5 DEF Row
<1>7. QED
  BY <1>3, <1>6 DEF Imported

(* record_pack inserts version 1 of a row without a history. *)
LEMMA RecordedRow ==
    ASSUME NEW r \in Row, NEW d \in Drafts(r), NEW new, new = Bumped(r, d)
    PROVE  /\ r.version = 0
           /\ new \in Row
           /\ new.version = 1
           /\ new.status \in RECORDABLE_STATUSES
           /\ new.history = <<>> /\ new.verifications = <<>>
           /\ new.grant = None /\ new.pending = None
           /\ Imported(new) = {}
<1>1. PICK s \in RECORDABLE_STATUSES :
         r.version = 0 /\ d = [NoRow EXCEPT !.status = s]
  BY DEF Drafts
<1>2. d \in Row /\ d.status = s /\ d.history = <<>> /\ d.verifications = <<>>
        /\ d.grant = None /\ d.pending = None /\ d.results = NoRow.results
  <2>1. s \in STATUSES
    BY DEF STATUSES
  <2>2. QED
    BY <1>1, <2>1, NoRowIsRow DEF NoRow, Row
<1>3. new = [d EXCEPT !.version = 1]
  BY <1>1 DEF Bumped
<1>4. new \in Row /\ new.version = 1 /\ new.status = s /\ new.history = <<>>
        /\ new.verifications = <<>> /\ new.grant = None /\ new.pending = None
        /\ new.results = NoRow.results
  BY <1>2, <1>3 DEF Row
<1>5. Imported(new) = {}
  BY <1>4, NoRowIsRow DEF Imported
<1>6. QED
  BY <1>1, <1>4, <1>5

(* save_action_plan writes the draft, one version up.                       *)
LEMMA BumpedFields ==
    ASSUME NEW r \in Row, NEW d \in Row, NEW new, new = Bumped(r, d)
    PROVE  /\ new \in Row
           /\ new.version = r.version + 1 /\ new.status = d.status /\ new.grant = d.grant
           /\ new.results = d.results /\ new.pending = d.pending
           /\ new.verifications = d.verifications /\ new.evidence = d.evidence
           /\ new.history = d.history
BY DEF Bumped, Row

(* approve_pack *)
LEMMA ApprovedRow ==
    ASSUME NEW r \in Row, NEW d \in Approvals(r), NEW new, new = Bumped(r, d)
    PROVE  /\ d \in Row
           /\ Follows(r, new, "APPROVED")
           /\ r.status = "WAITING_APPROVAL"
           /\ new.status = "APPROVED"
           /\ new.grant \in Grants
           /\ new.results = r.results
           /\ new.verifications = r.verifications
           /\ new.pending = r.pending
<1>1. PICK g \in Grants : /\ r.status = "WAITING_APPROVAL"
                          /\ d = [Logged(r, "APPROVED") EXCEPT !.status = "APPROVED", !.grant = g]
  BY DEF Approvals
<1> DEFINE h == Append(r.history, "APPROVED")
<1>2. h \in EventLog
  BY LoggedEvent DEF Events
<1> HIDE DEF h
<1>3. d = [version |-> r.version, status |-> "APPROVED", grant |-> g, handoff |-> r.handoff,
             results |-> r.results, pending |-> r.pending, verifications |-> r.verifications,
             evidence |-> r.evidence, history |-> h]
  BY <1>1 DEF Logged, h, Row
<1>4. "APPROVED" \in STATUSES /\ g \in GrantOrNone
  BY DEF STATUSES, GrantOrNone
<1>5. /\ d \in Row
      /\ d.version = r.version /\ d.status = "APPROVED"
      /\ d.grant = g /\ d.results = r.results
      /\ d.pending = r.pending /\ d.verifications = r.verifications
      /\ d.evidence = r.evidence /\ d.history = h
  BY <1>2, <1>3, <1>4, RowParts, MadeRow
<1>b. /\ new \in Row
      /\ new.version = r.version + 1 /\ new.status = "APPROVED"
      /\ new.grant = g /\ new.results = r.results
      /\ new.pending = r.pending /\ new.verifications = r.verifications
      /\ new.evidence = r.evidence /\ new.history = h
  BY <1>5, BumpedFields
<1>6. QED
  BY <1>b, <1>1, <1>5 DEF Follows, h

(* declare_handoff *)
LEMMA DeclaredRow ==
    ASSUME NEW r \in Row, NEW d \in Declarations(r), NEW new, new = Bumped(r, d)
    PROVE  /\ d \in Row
           /\ Follows(r, new, "HANDOFF_DECLARED")
           /\ r.version > 0
           /\ r.status \notin TERMINAL_STATUSES
           /\ new.status = r.status
           /\ Kept(r, new)
           /\ new.pending = r.pending
<1>1. PICK k \in HANDOFF_CLAIMS, t \in Targets \cup {None} :
         /\ r.version > 0
         /\ r.status \notin TERMINAL_STATUSES
         /\ d = [Logged(r, "HANDOFF_DECLARED") EXCEPT
                   !.handoff = [r.handoff EXCEPT ![k] = [target |-> t, declaredAt |-> r.version]]]
  BY DEF Declarations
<1> DEFINE h == Append(r.history, "HANDOFF_DECLARED")
           hand == [r.handoff EXCEPT ![k] = [target |-> t, declaredAt |-> r.version]]
<1>2. h \in EventLog
  BY LoggedEvent DEF Events
<1>3. hand \in HandoffRecord
  BY DEF Row, HandoffRecord, Handoff
<1> HIDE DEF h, hand
<1>4. d = [version |-> r.version, status |-> r.status, grant |-> r.grant, handoff |-> hand,
             results |-> r.results, pending |-> r.pending, verifications |-> r.verifications,
             evidence |-> r.evidence, history |-> h]
  BY <1>1 DEF Logged, h, hand, Row
<1>5. /\ d \in Row
      /\ d.version = r.version /\ d.status = r.status
      /\ d.grant = r.grant /\ d.results = r.results
      /\ d.pending = r.pending /\ d.verifications = r.verifications
      /\ d.evidence = r.evidence /\ d.history = h
  BY <1>2, <1>3, <1>4, RowParts, MadeRow
<1>b. /\ new \in Row
      /\ new.version = r.version + 1 /\ new.status = r.status
      /\ new.grant = r.grant /\ new.results = r.results
      /\ new.pending = r.pending /\ new.verifications = r.verifications
      /\ new.evidence = r.evidence /\ new.history = h
  BY <1>5, BumpedFields
<1>6. QED
  BY <1>b, <1>1, <1>5 DEF Follows, Kept, h

(* import_external_result *)
LEMMA ImportedRow ==
    ASSUME NEW r \in Row, NEW d \in Imports(r), NEW new, new = Bumped(r, d)
    PROVE  /\ d \in Row
           /\ Follows(r, new, "EXTERNAL_RESULT_IMPORTED")
           /\ r.status = "APPROVED"
           /\ new.status = r.status
           /\ new.grant = r.grant
           /\ new.verifications = r.verifications
           /\ new.pending \in Results
           /\ Imported(new) = Imported(r) \cup {new.pending}
<1>1. PICK i \in Results, c \in Claimed :
         /\ r.status = "APPROVED"
         /\ d = [Logged(r, "EXTERNAL_RESULT_IMPORTED") EXCEPT
                   !.results = [r.results EXCEPT ![i] = c], !.pending = i]
  BY DEF Imports
<1> DEFINE h == Append(r.history, "EXTERNAL_RESULT_IMPORTED")
           results == [r.results EXCEPT ![i] = c]
<1>2. h \in EventLog
  BY LoggedEvent DEF Events
<1>3. /\ results \in ExternalResults
      /\ results[i] = c
      /\ \A j \in Results \ {i} : results[j] = r.results[j]
  BY DEF Row, ExternalResults
<1> HIDE DEF h, results
<1>4. d = [version |-> r.version, status |-> r.status, grant |-> r.grant, handoff |-> r.handoff,
             results |-> results, pending |-> i, verifications |-> r.verifications,
             evidence |-> r.evidence, history |-> h]
  BY <1>1 DEF Logged, h, results, Row
<1>5. i \in ResultOrNone
  BY DEF ResultOrNone
<1>6. /\ d \in Row
      /\ d.version = r.version /\ d.status = r.status
      /\ d.grant = r.grant /\ d.results = results
      /\ d.pending = i /\ d.verifications = r.verifications
      /\ d.evidence = r.evidence /\ d.history = h
  BY <1>2, <1>3, <1>4, <1>5, RowParts, MadeRow
<1>b. /\ new \in Row
      /\ new.version = r.version + 1 /\ new.status = r.status
      /\ new.grant = r.grant /\ new.results = results
      /\ new.pending = i /\ new.verifications = r.verifications
      /\ new.evidence = r.evidence /\ new.history = h
  BY <1>6, BumpedFields
<1>7. Imported(new) = Imported(r) \cup {i}
  BY <1>3, <1>b, ClaimedIsNotNone DEF Imported, Claimed
<1>8. QED
  BY <1>b, <1>1, <1>6, <1>7 DEF Follows, h

(* record_outcome *)
LEMMA ClosedRow ==
    ASSUME NEW r \in Row, NEW d \in Closings(r), NEW new, new = Bumped(r, d)
    PROVE  /\ d \in Row
           /\ Follows(r, new, "OUTCOME_RECORDED")
           /\ r.status = "APPROVED"
           /\ new.status \in OUTCOMES
           /\ new.status = "SUCCEEDED" => new.evidence = "strong"
           /\ Kept(r, new)
           /\ new.pending = r.pending
<1>1. PICK s \in OUTCOMES, e \in {"weak", "strong"} :
         /\ r.status = "APPROVED"
         /\ s = "SUCCEEDED" => e = "strong"
         /\ d = [Logged(r, "OUTCOME_RECORDED") EXCEPT !.status = s, !.evidence = e]
  BY DEF Closings
<1> DEFINE h == Append(r.history, "OUTCOME_RECORDED")
<1>2. h \in EventLog
  BY LoggedEvent DEF Events
<1> HIDE DEF h
<1>3. d = [version |-> r.version, status |-> s, grant |-> r.grant, handoff |-> r.handoff,
             results |-> r.results, pending |-> r.pending, verifications |-> r.verifications,
             evidence |-> e, history |-> h]
  BY <1>1 DEF Logged, h, Row
<1>4. e \in Evidence /\ s \in STATUSES
  BY DEF Evidence, STATUSES
<1>5. /\ d \in Row
      /\ d.version = r.version /\ d.status = s
      /\ d.grant = r.grant /\ d.results = r.results
      /\ d.pending = r.pending /\ d.verifications = r.verifications
      /\ d.evidence = e /\ d.history = h
  BY <1>2, <1>3, <1>4, RowParts, MadeRow
<1>b. /\ new \in Row
      /\ new.version = r.version + 1 /\ new.status = s
      /\ new.grant = r.grant /\ new.results = r.results
      /\ new.pending = r.pending /\ new.verifications = r.verifications
      /\ new.evidence = e /\ new.history = h
  BY <1>5, BumpedFields
<1>6. QED
  BY <1>b, <1>1, <1>5 DEF Follows, Kept, h

(* record_verification *)
LEMMA VerifiedRow ==
    ASSUME NEW r \in Row, NEW v \in Verdicts, NEW d \in Verifications(r, v),
           NEW new, new = Bumped(r, d)
    PROVE  /\ d \in Row
           /\ Follows(r, new, "VERIFICATION_RECORDED")
           /\ r.status = "APPROVED"
           /\ r.pending \in Results
           /\ new.status \in {"APPROVED", "SUCCEEDED", "FAILED"}
           /\ v = "RESOLVED" => new.status # "APPROVED"
           /\ new.status = "SUCCEEDED" => /\ v = "RESOLVED"
                                          /\ r.results[r.pending] = "SUCCEEDED"
                                          /\ new.evidence = "strong"
           /\ new.grant = r.grant
           /\ new.results = r.results
           /\ new.verifications = Append(r.verifications, [outcome |-> v, answered |-> r.pending])
           /\ new.pending \in {r.pending, None}
<1> DEFINE ver == Append(r.verifications, [outcome |-> v, answered |-> r.pending])
           h == Append(r.history, "VERIFICATION_RECORDED")
           s == Closed(r, v)
           e == IF v = "UNVERIFIABLE" THEN r.evidence ELSE "strong"
           p == IF v = "UNVERIFIABLE" THEN r.pending ELSE None
<1>1. /\ r.status = "APPROVED" /\ r.pending # None
      /\ d = [Logged(r, "VERIFICATION_RECORDED") EXCEPT
                !.verifications = ver, !.status = s, !.evidence = e, !.pending = p]
  BY DEF Verifications
<1>2. r.pending \in Results
  BY <1>1 DEF Row, ResultOrNone
<1>3. ver \in VerificationLog /\ h \in EventLog
  <2>1. ver \in VerificationLog
    BY <1>2 DEF Row, Verification, VerificationLog
  <2>2. h \in EventLog
    BY LoggedEvent DEF Events
  <2>3. QED
    BY <2>1, <2>2
<1>4. /\ s \in {"APPROVED", "SUCCEEDED", "FAILED"}
      /\ s = "SUCCEEDED" => v = "RESOLVED" /\ r.results[r.pending] = "SUCCEEDED"
      /\ v = "RESOLVED" => s # "APPROVED"
  BY <1>1 DEF Closed
<1>5. e \in Evidence /\ p \in {r.pending, None} /\ (v = "RESOLVED" => e = "strong")
  BY DEF Row, Evidence
<1> HIDE DEF ver, h, s, e, p
<1>6. d = [version |-> r.version, status |-> s, grant |-> r.grant, handoff |-> r.handoff,
             results |-> r.results, pending |-> p, verifications |-> ver,
             evidence |-> e, history |-> h]
  BY <1>1 DEF Logged, h, Row
<1>7. s \in STATUSES /\ p \in ResultOrNone
  BY <1>4, <1>5, RowParts DEF STATUSES, OUTCOMES, ResultOrNone
<1>8. /\ d \in Row
      /\ d.version = r.version /\ d.status = s
      /\ d.grant = r.grant /\ d.results = r.results
      /\ d.pending = p /\ d.verifications = ver
      /\ d.evidence = e /\ d.history = h
  BY <1>3, <1>5, <1>6, <1>7, RowParts, MadeRow
<1>b. /\ new \in Row
      /\ new.version = r.version + 1 /\ new.status = s
      /\ new.grant = r.grant /\ new.results = r.results
      /\ new.pending = p /\ new.verifications = ver
      /\ new.evidence = e /\ new.history = h
  BY <1>8, BumpedFields
<1>9. QED
  BY <1>b, <1>1, <1>2, <1>4, <1>5, <1>8 DEF Follows, h, ver

-----------------------------------------------------------------------------
(* The inductive invariant *)

(* A row that is there has a status, an approved one has a grant, and what  *)
(* is pending was imported.                                                 *)
RowSound ==
    /\ row.status = "ABSENT" <=> row.version = 0
    /\ row.status = "APPROVED" => row.grant # None
    /\ row.pending # None => row.pending \in Imported(row)

(* What is true of the fault now counts for every imported result.          *)
FaultSeen ==
    /\ ~fault => Imported(row) \subseteq absentAfter
    /\ fault => Imported(row) \subseteq presentAfter

(* As long as the row has the version that the caller saw, the verdict it   *)
(* computed and the row it wants to write are right for the row as it is.   *)
VerdictHolds(c) ==
    /\ call[c].verdict = "RESOLVED" => Imported(row) \subseteq absentAfter
    /\ call[c].verdict = "UNRESOLVED" => Imported(row) \subseteq presentAfter

InFlight ==
    \A c \in Callers :
        /\ call[c].expected <= row.version
        /\ call[c].step = "judged" /\ Current(c) => VerdictHolds(c)
        /\ call[c].step = "saving" /\ Current(c)
             => call[c].draft \in Allowed(row, absentAfter, presentAfter)

Sound == NothingLost /\ SuccessIsEarned /\ RowSound
RecordInv == RecordTypeOK /\ FaultSeen /\ InFlight /\ Sound

(* The ghosts only grow, and are sets of results.                           *)
LEMMA RememberGrows ==
    ASSUME RecordTypeOK, Remember
    PROVE  /\ absentAfter' \subseteq Results /\ presentAfter' \subseteq Results
           /\ absentAfter \subseteq absentAfter' /\ presentAfter \subseteq presentAfter'
           /\ FaultSeen'
BY DEF RecordTypeOK, Remember, FaultSeen, Imported

(* What may be written only grows with what was seen of the fault.          *)
LEMMA AllowedGrows ==
    ASSUME NEW r, NEW a, NEW b, NEW p, NEW q, a \subseteq b, p \subseteq q,
           NEW d \in Allowed(r, a, p)
    PROVE  d \in Allowed(r, b, q)
<1>1. CASE d \in Approvals(r) \cup Declarations(r) \cup Imports(r) \cup Closings(r)
  BY <1>1 DEF Allowed
<1>2. CASE \E v \in Verdicts : Witnessed(v, r.pending, a, p) /\ d \in Verifications(r, v)
  <2>1. PICK v \in Verdicts : Witnessed(v, r.pending, a, p) /\ d \in Verifications(r, v)
    BY <1>2
  <2>2. Witnessed(v, r.pending, b, q)
    BY <2>1 DEF Witnessed
  <2>3. QED
    BY <2>1, <2>2 DEF Allowed
<1>3. QED
  BY <1>1, <1>2 DEF Allowed

(* A change that may follow leaves the row sound, and starts from one that  *)
(* is open.                                                                 *)
LEMMA ChangeIsSound ==
    ASSUME RecordTypeOK, Sound, NEW d \in Allowed(row, absentAfter, presentAfter),
           row' = Bumped(row, d), absentAfter \subseteq absentAfter'
    PROVE  /\ row' \in Row
           /\ row'.version = row.version + 1
           /\ row.status \in {"WAITING_APPROVAL", "APPROVED"}
           /\ Sound'
<1> DEFINE happened(h, e) == \E k \in DOMAIN h : h[k] = e
<1>0. row \in Row /\ row.history \in EventLog /\ row.version \in Nat
        /\ row.verifications \in VerificationLog
  BY RowParts DEF RecordTypeOK
<1>l. ASSUME NEW e \in Events, Follows(row, row', e), row.status # "ABSENT"
      PROVE  /\ row' \in Row /\ row'.version = row.version + 1 /\ row'.version > 0
             /\ Len(row'.history) = row'.version - 1
             /\ row'.history[Len(row'.history)] = e
             /\ \A x : happened(row'.history, x) <=> (x = e \/ happened(row.history, x))
  <2>1. /\ Len(row'.history) = Len(row.history) + 1
        /\ row'.history[Len(row'.history)] = e
        /\ \A x : happened(row'.history, x) <=> (x = e \/ happened(row.history, x))
    BY <1>0, <1>l, AppendEvent DEF Follows
  <2>2. Len(row.history) = row.version - 1 /\ row.version > 0
    BY <1>0, <1>l DEF Sound, NothingLost, RowSound
  <2>3. QED
    BY <1>0, <1>l, <2>1, <2>2 DEF Follows
<1>1. CASE d \in Approvals(row)
  <2>1. PICK r, new : r = row /\ new = row'
    OBVIOUS
  <2>2. /\ Follows(row, row', "APPROVED")
        /\ row.status = "WAITING_APPROVAL" /\ row'.status = "APPROVED"
        /\ row'.grant \in Grants /\ row'.results = row.results
        /\ row'.verifications = row.verifications /\ row'.pending = row.pending
    BY <1>0, <1>1, <2>1, ApprovedRow
  <2>3. "APPROVED" \in Events
    BY DEF Events
  <2>4. Imported(row') = Imported(row)
    BY <2>2 DEF Imported
  <2>5. NothingLost'
    BY <1>l, <2>2, <2>3, <2>4, NoneIsApart DEF Sound, NothingLost, Told, RowSound
  <2>6. SuccessIsEarned'
    BY <1>l, <2>2, <2>3, <2>4 DEF Sound, RowSound, SuccessIsEarned, OUTCOMES
  <2>7. RowSound'
    BY <1>l, <2>2, <2>3, <2>4, NoneIsApart DEF Sound, RowSound, OUTCOMES
  <2>8. QED
    BY <1>l, <2>2, <2>3, <2>4, <2>5, <2>6, <2>7 DEF Sound
<1>2. CASE d \in Declarations(row)
  <2>1. PICK r, new : r = row /\ new = row'
    OBVIOUS
  <2>2. /\ Follows(row, row', "HANDOFF_DECLARED")
        /\ row.version > 0 /\ row.status \notin TERMINAL_STATUSES
        /\ row'.status = row.status /\ Kept(row, row') /\ row'.pending = row.pending
    BY <1>0, <1>2, <2>1, DeclaredRow
  <2>3. "HANDOFF_DECLARED" \in Events
    BY DEF Events
  <2>4. Imported(row') = Imported(row)
    BY <2>2 DEF Imported, Kept
  <2>5. row.status \in {"WAITING_APPROVAL", "APPROVED"}
    BY <1>0, <2>2 DEF Row, STATUSES, TERMINAL_STATUSES, OUTCOMES, RECORDABLE_STATUSES, Sound, RowSound
  <2>6. NothingLost'
    BY <1>l, <2>2, <2>3, <2>4, <2>5 DEF Kept, Sound, NothingLost, Told, RowSound
  <2>7. SuccessIsEarned'
    BY <1>l, <2>2, <2>3, <2>4, <2>5 DEF Kept, Sound, RowSound, SuccessIsEarned, OUTCOMES
  <2>8. RowSound'
    BY <1>l, <2>2, <2>3, <2>4, <2>5 DEF Kept, Sound, RowSound, OUTCOMES
  <2>9. QED
    BY <1>l, <2>2, <2>3, <2>4, <2>5, <2>6, <2>7, <2>8 DEF Sound
<1>3. CASE d \in Imports(row)
  <2>1. PICK r, new : r = row /\ new = row'
    OBVIOUS
  <2>2. /\ Follows(row, row', "EXTERNAL_RESULT_IMPORTED")
        /\ row.status = "APPROVED" /\ row'.status = row.status /\ row'.grant = row.grant
        /\ row'.verifications = row.verifications
        /\ row'.pending \in Results
        /\ Imported(row') = Imported(row) \cup {row'.pending}
    BY <1>0, <1>3, <2>1, ImportedRow
  <2>3. "EXTERNAL_RESULT_IMPORTED" \in Events
    BY DEF Events
  <2>4. NothingLost'
    BY <1>l, <2>2, <2>3 DEF Sound, NothingLost, Told, RowSound
  <2>5. SuccessIsEarned'
    BY <1>l, <2>2, <2>3 DEF Sound, RowSound, SuccessIsEarned, OUTCOMES
  <2>6. RowSound'
    BY <1>l, <2>2, <2>3 DEF Sound, RowSound, OUTCOMES
  <2>7. QED
    BY <1>l, <2>2, <2>3, <2>4, <2>5, <2>6 DEF Sound
<1>4. CASE d \in Closings(row)
  <2>1. PICK r, new : r = row /\ new = row'
    OBVIOUS
  <2>2. /\ Follows(row, row', "OUTCOME_RECORDED")
        /\ row.status = "APPROVED" /\ row'.status \in OUTCOMES
        /\ row'.status = "SUCCEEDED" => row'.evidence = "strong"
        /\ Kept(row, row') /\ row'.pending = row.pending
    BY <1>0, <1>4, <2>1, ClosedRow
  <2>3. "OUTCOME_RECORDED" \in Events
    BY DEF Events
  <2>4. Imported(row') = Imported(row)
    BY <2>2 DEF Imported, Kept
  <2>5. NothingLost'
    BY <1>l, <2>2, <2>3, <2>4 DEF Kept, Sound, NothingLost, Told, RowSound
  <2>6. SuccessIsEarned'
    BY <1>l, <2>2, <2>3, <2>4 DEF Kept, Sound, RowSound, SuccessIsEarned, OUTCOMES
  <2>7. RowSound'
    BY <1>l, <2>2, <2>3, <2>4 DEF Kept, Sound, RowSound, OUTCOMES
  <2>8. QED
    BY <1>l, <2>2, <2>3, <2>4, <2>5, <2>6, <2>7 DEF Sound
<1>5. CASE \E v \in Verdicts : /\ Witnessed(v, row.pending, absentAfter, presentAfter)
                             /\ d \in Verifications(row, v)
  <2>1. PICK v \in Verdicts : /\ Witnessed(v, row.pending, absentAfter, presentAfter)
                             /\ d \in Verifications(row, v)
    BY <1>5
  <2>2. PICK r, new : r = row /\ new = row'
    OBVIOUS
  <2>3. /\ Follows(row, row', "VERIFICATION_RECORDED")
        /\ row.status = "APPROVED" /\ row.pending \in Results
        /\ row'.status \in {"APPROVED", "SUCCEEDED", "FAILED"}
        /\ row'.status = "SUCCEEDED" => /\ v = "RESOLVED"
                                       /\ row.results[row.pending] = "SUCCEEDED"
                                       /\ row'.evidence = "strong"
        /\ row'.grant = row.grant /\ row'.results = row.results
        /\ row'.verifications
             = Append(row.verifications, [outcome |-> v, answered |-> row.pending])
        /\ row'.pending \in {row.pending, None}
    BY <1>0, <2>1, <2>2, VerifiedRow
  <2>4. "VERIFICATION_RECORDED" \in Events
    BY DEF Events
  <2>5. Imported(row') = Imported(row)
    BY <2>3 DEF Imported
  <2>6. /\ row'.verifications # <<>>
        /\ row'.verifications[Len(row'.verifications)]
             = [outcome |-> v, answered |-> row.pending]
    <3>1. [outcome |-> v, answered |-> row.pending] \in Verification
      BY <2>3 DEF Verification
    <3>2. QED
      BY <1>0, <2>3, <3>1, LastOfAppend DEF VerificationLog
  <2>7. v = "RESOLVED" => row.pending \in absentAfter'
    BY <2>1 DEF Witnessed
  <2>8. NothingLost'
    <3>1. /\ Len(row'.history) = row'.version - 1
          /\ \A x : happened(row'.history, x) <=> (x = "VERIFICATION_RECORDED" \/ happened(row.history, x))
      BY <1>l, <2>3, <2>4 DEF Sound, RowSound
    <3>2. /\ (row.grant # None) <=> happened(row.history, "APPROVED")
          /\ (Imported(row) # {}) <=> happened(row.history, "EXTERNAL_RESULT_IMPORTED")
      BY DEF Sound, NothingLost, Told
    <3> HIDE DEF happened
    <3>3. /\ (row'.grant # None) <=> happened(row'.history, "APPROVED")
          /\ (Imported(row') # {}) <=> happened(row'.history, "EXTERNAL_RESULT_IMPORTED")
          /\ (row'.verifications # <<>>) <=> happened(row'.history, "VERIFICATION_RECORDED")
      BY <2>3, <2>5, <2>6, <3>1, <3>2
    <3>4. QED
      BY <3>1, <3>3 DEF NothingLost, Told, happened
  <2>9. SuccessIsEarned'
    BY <2>3, <2>6, <2>7 DEF Sound, RowSound, SuccessIsEarned
  <2>10. RowSound'
    BY <1>l, <2>3, <2>4, <2>5 DEF Sound, RowSound
  <2>11. QED
    BY <1>l, <2>3, <2>4, <2>8, <2>9, <2>10 DEF Sound
<1>6. QED
  BY <1>1, <1>2, <1>3, <1>4, <1>5 DEF Allowed

(* record_pack leaves the row sound. *)
LEMMA DraftIsSound ==
    ASSUME RecordTypeOK, Sound, NEW d \in Drafts(row), row' = Bumped(row, d)
    PROVE  /\ row' \in Row
           /\ row.version = 0
           /\ row'.version = 1
           /\ Sound'
<1>1. PICK r, new : r = row /\ new = row'
  OBVIOUS
<1>2. /\ row.version = 0 /\ row' \in Row /\ row'.version = 1
      /\ row'.status \in RECORDABLE_STATUSES
      /\ row'.history = <<>> /\ row'.verifications = <<>>
      /\ row'.grant = None /\ row'.pending = None /\ Imported(row') = {}
  BY <1>1, RecordedRow DEF RecordTypeOK
<1>3. NothingLost'
  BY <1>2 DEF NothingLost, Told
<1>4. SuccessIsEarned' /\ RowSound'
  BY <1>2 DEF SuccessIsEarned, RowSound, RECORDABLE_STATUSES
<1>5. QED
  BY <1>2, <1>3, <1>4 DEF Sound

(* A row at the same version is right for what is prepared from it, however *)
(* much more is seen of the fault.                                          *)
LEMMA InFlightKept ==
    ASSUME InFlight, UNCHANGED <<row, call>>,
           absentAfter \subseteq absentAfter', presentAfter \subseteq presentAfter'
    PROVE  InFlight'
<1> SUFFICES ASSUME NEW c \in Callers
             PROVE  /\ call'[c].expected <= row'.version
                    /\ call'[c].step = "judged" /\ Current(c)' => VerdictHolds(c)'
                    /\ call'[c].step = "saving" /\ Current(c)'
                         => call'[c].draft \in Allowed(row', absentAfter', presentAfter')
  BY DEF InFlight
<1>1. call'[c].expected <= row'.version
  BY DEF InFlight
<1>2. call'[c].step = "judged" /\ Current(c)' => VerdictHolds(c)'
  BY DEF InFlight, VerdictHolds, Current
<1>3. ASSUME call'[c].step = "saving", Current(c)'
      PROVE  call'[c].draft \in Allowed(row', absentAfter', presentAfter')
  <2>1. call[c].draft \in Allowed(row, absentAfter, presentAfter)
    BY <1>3 DEF InFlight, Current
  <2>2. PICK r, a, b, p, q, d : /\ r = row /\ a = absentAfter /\ b = absentAfter'
                                /\ p = presentAfter /\ q = presentAfter' /\ d = call[c].draft
    OBVIOUS
  <2>3. d \in Allowed(r, b, q)
    BY <2>1, <2>2, AllowedGrows
  <2>4. QED
    BY <2>2, <2>3
<1>4. QED
  BY <1>1, <1>2, <1>3

(* Nothing that was prepared from an older row can be saved.                *)
LEMMA InFlightStale ==
    ASSUME RecordTypeOK, InFlight, row' \in Row, row'.version = row.version + 1,
           \A c \in Callers : call'[c] = call[c] \/ call'[c] = Idle
    PROVE  InFlight'
<1>1. row.version \in Nat
  BY RowParts DEF RecordTypeOK
<1>2. ASSUME NEW c \in Callers
      PROVE  call'[c].expected <= row'.version /\ ~Current(c)'
  <2>1. call[c].expected \in Nat /\ call[c].expected <= row.version
    BY DEF RecordTypeOK, Call, InFlight
  <2>2. Idle.expected = 0
    BY DEF Idle
  <2>3. call'[c].expected \in Nat /\ call'[c].expected <= row.version
    BY <1>1, <2>1, <2>2
  <2>4. QED
    BY <1>1, <2>3 DEF Current
<1>3. QED
  BY <1>2 DEF InFlight

(* A call that is replaced by one that is right for the row as it is.       *)
LEMMA InFlightReplaced ==
    ASSUME RecordTypeOK, InFlight, UNCHANGED promiseVars, NEW c \in Callers, NEW new \in Call,
           call' = [call EXCEPT ![c] = new],
           new.expected <= row.version,
           new.step = "judged" /\ new.expected = row.version
             => /\ new.verdict = "RESOLVED" => Imported(row) \subseteq absentAfter
                /\ new.verdict = "UNRESOLVED" => Imported(row) \subseteq presentAfter,
           new.step = "saving" /\ new.expected = row.version
             => new.draft \in Allowed(row, absentAfter, presentAfter)
    PROVE  RecordTypeOK' /\ InFlight'
<1>1. /\ call' \in [Callers -> Call]
      /\ call'[c] = new
      /\ \A x \in Callers \ {c} : call'[x] = call[x]
  BY DEF RecordTypeOK
<1>2. RecordTypeOK'
  BY <1>1 DEF RecordTypeOK, promiseVars
<1>3. InFlight'
  BY <1>1 DEF InFlight, VerdictHolds, Current, promiseVars
<1>4. QED
  BY <1>2, <1>3

(* Every row that an operation prepares is a row.                           *)
LEMMA DraftIsRow ==
    ASSUME NEW r \in Row, NEW a, NEW p, NEW d \in Allowed(r, a, p)
    PROVE  d \in Row
<1>1. PICK new : new = Bumped(r, d)
  OBVIOUS
<1>2. CASE d \in Approvals(r)
  BY <1>1, <1>2, ApprovedRow
<1>3. CASE d \in Declarations(r)
  BY <1>1, <1>3, DeclaredRow
<1>4. CASE d \in Imports(r)
  BY <1>1, <1>4, ImportedRow
<1>5. CASE d \in Closings(r)
  BY <1>1, <1>5, ClosedRow
<1>6. CASE \E v \in Verdicts : d \in Verifications(r, v)
  BY <1>1, <1>6, VerifiedRow
<1>7. QED
  BY <1>2, <1>3, <1>4, <1>5, <1>6 DEF Allowed

-----------------------------------------------------------------------------
(* The steps *)

LEMMA IdleIsCall == Idle \in Call /\ Idle.expected = 0 /\ Idle.step = "idle"
BY NoRowIsRow DEF Idle, Call, Verdicts

(* A step of a call that touches nothing else keeps what is said of the     *)
(* rest.                                                                    *)
LEMMA LocalStep ==
    ASSUME FaultSeen, Sound, UNCHANGED promiseVars
    PROVE  FaultSeen' /\ Sound'
BY DEF FaultSeen, Sound, promiseVars, NothingLost, Told, SuccessIsEarned, RowSound

(* An operation has read the row and prepared a row that may follow it.     *)
LEMMA PrepareKeeps ==
    ASSUME RecordInv, NEW c \in Callers, NEW d \in Allowed(row, absentAfter, presentAfter),
           Prepare(c, d)
    PROVE  RecordInv'
<1> DEFINE new == [Idle EXCEPT !.step = "saving", !.draft = d, !.expected = call[c].expected]
<1>1. RecordTypeOK /\ InFlight /\ FaultSeen /\ Sound /\ call[c] \in Call /\ row \in Row
  BY DEF RecordInv, RecordTypeOK
<1>2. call[c].expected \in Nat /\ call[c].expected <= row.version
  BY <1>1 DEF Call, InFlight
<1>3. d \in Row
  <2>1. PICK r, a, p : r = row /\ a = absentAfter /\ p = presentAfter
    OBVIOUS
  <2>2. QED
    BY <1>1, <2>1, DraftIsRow
<1>4. /\ new \in Call /\ new.step = "saving" /\ new.draft = d
      /\ new.expected = call[c].expected
  BY <1>2, <1>3, NoRowIsRow DEF Idle, Call, Verdicts
<1>5. call' = [call EXCEPT ![c] = new] /\ UNCHANGED promiseVars
  BY DEF Prepare
<1> HIDE DEF new
<1>6. RecordTypeOK' /\ InFlight'
  BY <1>1, <1>2, <1>4, <1>5, InFlightReplaced
<1>7. QED
  BY <1>1, <1>5, <1>6, LocalStep DEF RecordInv

LEMMA LookKeeps ==
    ASSUME RecordInv, NEW c \in Callers, Look(c)
    PROVE  RecordInv'
<1> DEFINE new == [Idle EXCEPT !.step = "looked", !.expected = row.version]
<1>1. RecordTypeOK /\ InFlight /\ FaultSeen /\ Sound /\ row.version \in Nat
  <2>1. RecordTypeOK /\ InFlight /\ FaultSeen /\ Sound
    BY DEF RecordInv
  <2>2. QED
    BY <2>1, RowParts DEF RecordTypeOK
<1>2. new \in Call /\ new.step = "looked" /\ new.expected = row.version
  BY <1>1, NoRowIsRow DEF Idle, Call, Verdicts
<1>3. call' = [call EXCEPT ![c] = new] /\ UNCHANGED promiseVars
  BY DEF Look
<1> HIDE DEF new
<1>4. new.expected <= row.version /\ new.step \notin {"judged", "saving"}
  BY <1>1, <1>2
<1>5. RecordTypeOK' /\ InFlight'
  BY <1>1, <1>2, <1>3, <1>4, InFlightReplaced
<1>6. QED
  BY <1>1, <1>3, <1>5, LocalStep DEF RecordInv

(* The verdict is right for all results imported by now.                    *)
LEMMA ReadIssuesKeeps ==
    ASSUME RecordInv, NEW c \in Callers, ReadIssues(c)
    PROVE  RecordInv'
<1>1. PICK v \in {"UNVERIFIABLE", IF fault THEN "UNRESOLVED" ELSE "RESOLVED"} :
         call' = [call EXCEPT ![c] = [Idle EXCEPT !.step = "judged", !.verdict = v,
                                                  !.expected = call[c].expected]]
  BY DEF ReadIssues
<1> DEFINE new == [Idle EXCEPT !.step = "judged", !.verdict = v, !.expected = call[c].expected]
<1>2. RecordTypeOK /\ InFlight /\ FaultSeen /\ Sound /\ call[c] \in Call
  BY DEF RecordInv, RecordTypeOK
<1>3. call[c].expected \in Nat /\ call[c].expected <= row.version
  BY <1>2 DEF Call, InFlight
<1>4. /\ new \in Call /\ new.step = "judged" /\ new.verdict = v
      /\ new.expected = call[c].expected
  BY <1>3, NoRowIsRow DEF Idle, Call, Verdicts
<1>5. /\ v = "RESOLVED" => Imported(row) \subseteq absentAfter
      /\ v = "UNRESOLVED" => Imported(row) \subseteq presentAfter
  BY <1>2 DEF FaultSeen
<1>6. call' = [call EXCEPT ![c] = new] /\ UNCHANGED promiseVars
  BY <1>1 DEF ReadIssues
<1> HIDE DEF new
<1>7. RecordTypeOK' /\ InFlight'
  BY <1>2, <1>3, <1>4, <1>5, <1>6, InFlightReplaced
<1>8. QED
  BY <1>2, <1>6, <1>7, LocalStep DEF RecordInv

LEMMA GiveUpKeeps ==
    ASSUME RecordInv, NEW c \in Callers, GiveUp(c)
    PROVE  RecordInv'
<1>1. RecordTypeOK /\ InFlight /\ FaultSeen /\ Sound /\ row.version \in Nat
  <2>1. RecordTypeOK /\ InFlight /\ FaultSeen /\ Sound
    BY DEF RecordInv
  <2>2. QED
    BY <2>1, RowParts DEF RecordTypeOK
<1>2. call' = [call EXCEPT ![c] = Idle] /\ UNCHANGED promiseVars
  BY DEF GiveUp
<1>3. Idle.expected <= row.version /\ Idle.step \notin {"judged", "saving"}
  BY <1>1, IdleIsCall
<1>4. RecordTypeOK' /\ InFlight'
  BY <1>1, <1>2, <1>3, IdleIsCall, InFlightReplaced
<1>5. QED
  BY <1>1, <1>2, <1>4, LocalStep DEF RecordInv

(* Whether a verdict is witnessed follows from what the read saw.           *)
LEMMA RecordVerificationKeeps ==
    ASSUME RecordInv, NEW c \in Callers, RecordVerification(c)
    PROVE  RecordInv'
<1> DEFINE v == call[c].verdict
<1>1. RecordTypeOK /\ InFlight /\ FaultSeen /\ Sound /\ call[c] \in Call
  BY DEF RecordInv, RecordTypeOK
<1>2. v \in Verdicts /\ call[c].step = "judged" /\ call[c].expected <= row.version
        /\ call[c].expected \in Nat
  BY <1>1 DEF Call, RecordVerification, InFlight
<1>3. PICK d \in Verifications(row, v) : Prepare(c, d)
  BY DEF RecordVerification
<1>4. row.pending \in Imported(row) /\ d \in Row
  <2>1. PICK r, new, w : r = row /\ new = Bumped(row, d) /\ w = v
    OBVIOUS
  <2>2. d \in Row /\ row.pending \in Results
    BY <1>1, <1>2, <1>3, <2>1, VerifiedRow DEF RecordTypeOK
  <2>3. QED
    BY <1>1, <2>2, NoneIsApart DEF Sound, RowSound
<1>5. Current(c) => d \in Allowed(row, absentAfter, presentAfter)
  <2>1. SUFFICES ASSUME Current(c) PROVE d \in Allowed(row, absentAfter, presentAfter)
    OBVIOUS
  <2>2. VerdictHolds(c)
    BY <1>1, <1>2, <2>1 DEF InFlight
  <2>3. Witnessed(v, row.pending, absentAfter, presentAfter)
    BY <1>4, <2>2 DEF VerdictHolds, Witnessed
  <2>4. QED
    BY <1>2, <1>3, <2>3 DEF Allowed
<1> HIDE DEF v
<1> DEFINE new == [Idle EXCEPT !.step = "saving", !.draft = d, !.expected = call[c].expected]
<1>6. /\ new \in Call /\ new.step = "saving" /\ new.draft = d
      /\ new.expected = call[c].expected
  BY <1>2, <1>4, NoRowIsRow DEF Idle, Call, Verdicts
<1>7. call' = [call EXCEPT ![c] = new] /\ UNCHANGED promiseVars
  BY <1>3 DEF Prepare
<1> HIDE DEF new
<1>8. RecordTypeOK' /\ InFlight'
  BY <1>1, <1>2, <1>5, <1>6, <1>7, InFlightReplaced DEF Current
<1>9. QED
  BY <1>1, <1>7, <1>8, LocalStep DEF RecordInv

(* What is saved is a change that may follow.                               *)
LEMMA SaveIsAChange ==
    ASSUME RecordInv, NEW c \in Callers, Save(c)
    PROVE  /\ call[c].draft \in Allowed(row, absentAfter, presentAfter)
           /\ row' = Bumped(row, call[c].draft)
           /\ row.status \notin TERMINAL_STATUSES
           /\ Change /\ Remember
           /\ RecordInv'
<1>1. RecordTypeOK /\ InFlight /\ FaultSeen /\ Sound /\ call \in [Callers -> Call]
        /\ fault \in BOOLEAN
  BY DEF RecordInv, RecordTypeOK
<1>2. /\ call[c].draft \in Allowed(row, absentAfter, presentAfter)
      /\ row' = Bumped(row, call[c].draft) /\ fault' = fault /\ Remember
      /\ call' = [call EXCEPT ![c] = Idle]
  BY <1>1 DEF InFlight, Save
<1>3. /\ absentAfter' \subseteq Results /\ presentAfter' \subseteq Results
      /\ absentAfter \subseteq absentAfter' /\ presentAfter \subseteq presentAfter'
      /\ FaultSeen'
  BY <1>1, <1>2, RememberGrows
<1>4. PICK d : d = call[c].draft
  OBVIOUS
<1>5. /\ row' \in Row /\ row'.version = row.version + 1
      /\ row.status \in {"WAITING_APPROVAL", "APPROVED"}
      /\ Sound'
  BY <1>1, <1>2, <1>3, <1>4, ChangeIsSound
<1>6. /\ call' \in [Callers -> Call]
      /\ \A x \in Callers : call'[x] = call[x] \/ call'[x] = Idle
  BY <1>1, <1>2, IdleIsCall
<1>7. InFlight'
  BY <1>1, <1>5, <1>6, InFlightStale
<1>8. RecordTypeOK'
  BY <1>1, <1>2, <1>3, <1>5, <1>6 DEF RecordTypeOK
<1>9. Change
  BY <1>2 DEF Change
<1>10. QED
  BY <1>2, <1>3, <1>5, <1>7, <1>8, <1>9 DEF RecordInv, TERMINAL_STATUSES, OUTCOMES

LEMMA RecordPackKeeps ==
    ASSUME RecordInv, NEW c \in Callers, RecordPack(c)
    PROVE  Begin /\ Remember /\ row.status \notin TERMINAL_STATUSES /\ RecordInv'
<1>1. RecordTypeOK /\ InFlight /\ FaultSeen /\ Sound /\ call \in [Callers -> Call]
        /\ fault \in BOOLEAN
  BY DEF RecordInv, RecordTypeOK
<1>2. PICK d \in Drafts(row) : row' = Bumped(row, d)
  BY DEF RecordPack
<1>3. fault' = fault /\ call' = call /\ Remember
  BY DEF RecordPack
<1>4. /\ absentAfter' \subseteq Results /\ presentAfter' \subseteq Results
      /\ FaultSeen'
  BY <1>1, <1>3, RememberGrows
<1>5. row' \in Row /\ row.version = 0 /\ row'.version = 1 /\ Sound'
  BY <1>1, <1>2, DraftIsSound
<1>6. InFlight'
  BY <1>1, <1>3, <1>5, InFlightStale
<1>7. RecordTypeOK'
  BY <1>1, <1>3, <1>4, <1>5 DEF RecordTypeOK
<1>8. Begin /\ row.status \notin TERMINAL_STATUSES
  BY <1>1, <1>2, <1>3, <1>5 DEF Begin, Sound, RowSound, TERMINAL_STATUSES, OUTCOMES
<1>9. QED
  BY <1>3, <1>4, <1>5, <1>6, <1>7, <1>8 DEF RecordInv

LEMMA FaultTurnsKeeps ==
    ASSUME RecordInv, FaultTurns
    PROVE  Turn /\ Remember /\ row' = row /\ RecordInv'
<1>1. RecordTypeOK /\ InFlight /\ FaultSeen /\ Sound /\ fault \in BOOLEAN
  BY DEF RecordInv, RecordTypeOK
<1>2. row' = row /\ call' = call /\ fault' = ~fault /\ Remember /\ Turn
  BY DEF FaultTurns, Turn
<1>3. /\ absentAfter' \subseteq Results /\ presentAfter' \subseteq Results
      /\ absentAfter \subseteq absentAfter' /\ presentAfter \subseteq presentAfter'
      /\ FaultSeen'
  BY <1>1, <1>2, RememberGrows
<1>4. InFlight'
  BY <1>1, <1>2, <1>3, InFlightKept
<1>5. RecordTypeOK'
  BY <1>1, <1>2, <1>3 DEF RecordTypeOK
<1>6. Sound'
  BY <1>1, <1>2, <1>3 DEF Sound, NothingLost, Told, SuccessIsEarned, RowSound
<1>7. QED
  BY <1>2, <1>3, <1>4, <1>5, <1>6 DEF RecordInv

-----------------------------------------------------------------------------
(* The theorems *)

LEMMA InitHolds == RecordInit => RecordInv
<1> SUFFICES ASSUME RecordInit PROVE RecordInv
  OBVIOUS
<1>1. row = NoRow /\ fault \in BOOLEAN /\ absentAfter = {} /\ presentAfter = {}
        /\ call = [c \in Callers |-> Idle]
  BY DEF RecordInit, PromiseInit
<1>2. RecordTypeOK
  BY <1>1, NoRowIsRow, IdleIsCall DEF RecordTypeOK
<1>3. FaultSeen
  BY <1>1, NoRowIsRow DEF FaultSeen
<1>4. InFlight
  <2>1. row.version = 0
    BY <1>1 DEF NoRow
  <2>2. QED
    BY <1>1, <2>1, IdleIsCall DEF InFlight
<1>5. Sound
  BY <1>1, NoRowIsRow DEF Sound, NothingLost, Told, SuccessIsEarned, RowSound, NoRow
<1>6. QED
  BY <1>2, <1>3, <1>4, <1>5 DEF RecordInv

(* Every step keeps the invariant, is a step of the promise or none, and    *)
(* leaves a closed row alone.                                               *)
LEMMA StepHolds ==
    RecordInv /\ [RecordNext]_recordVars
      => /\ RecordInv'
         /\ [PromiseNext]_promiseVars
         /\ row.status \in TERMINAL_STATUSES => row' = row
<1> SUFFICES ASSUME RecordInv, [RecordNext]_recordVars
             PROVE  /\ RecordInv'
                    /\ [PromiseNext]_promiseVars
                    /\ row.status \in TERMINAL_STATUSES => row' = row
  OBVIOUS
<1> DEFINE Local == UNCHANGED promiseVars /\ RecordInv'
<1>0. ASSUME Local
      PROVE  [PromiseNext]_promiseVars /\ row' = row
  BY <1>0 DEF promiseVars
<1>1. CASE FaultTurns
  BY <1>1, FaultTurnsKeeps DEF PromiseNext
<1>2. ASSUME NEW c \in Callers, RecordPack(c)
      PROVE  RecordInv' /\ PromiseNext /\ row.status \notin TERMINAL_STATUSES
  BY <1>2, RecordPackKeeps DEF PromiseNext
<1>3. ASSUME NEW c \in Callers, Look(c)
      PROVE  Local
  BY <1>3, LookKeeps DEF Look
<1>4. ASSUME NEW c \in Callers, Approve(c)
      PROVE  Local
  BY <1>4, PrepareKeeps DEF Approve, Prepare, Allowed
<1>5. ASSUME NEW c \in Callers, DeclareHandoff(c)
      PROVE  Local
  BY <1>5, PrepareKeeps DEF DeclareHandoff, Prepare, Allowed
<1>6. ASSUME NEW c \in Callers, ImportResult(c)
      PROVE  Local
  BY <1>6, PrepareKeeps DEF ImportResult, Prepare, Allowed
<1>7. ASSUME NEW c \in Callers, RecordOutcome(c)
      PROVE  Local
  BY <1>7, PrepareKeeps DEF RecordOutcome, Prepare, Allowed
<1>8. ASSUME NEW c \in Callers, ReadIssues(c)
      PROVE  Local
  BY <1>8, ReadIssuesKeeps DEF ReadIssues
<1>9. ASSUME NEW c \in Callers, RecordVerification(c)
      PROVE  Local
  BY <1>9, RecordVerificationKeeps DEF RecordVerification, Prepare
<1>10. ASSUME NEW c \in Callers, Save(c)
       PROVE  RecordInv' /\ PromiseNext /\ row.status \notin TERMINAL_STATUSES
  BY <1>10, SaveIsAChange DEF PromiseNext
<1>11. ASSUME NEW c \in Callers, GiveUp(c)
       PROVE  Local
  BY <1>11, GiveUpKeeps DEF GiveUp
<1>12. CASE UNCHANGED recordVars
  <2>1. UNCHANGED promiseVars /\ UNCHANGED call
    BY <1>12 DEF recordVars
  <2>2. RecordTypeOK' /\ InFlight'
    BY <2>1 DEF RecordInv, RecordTypeOK, InFlight, VerdictHolds, Current, promiseVars
  <2>3. QED
    BY <2>1, <2>2, <1>0, LocalStep DEF RecordInv
<1>13. QED
  BY <1>0, <1>1, <1>2, <1>3, <1>4, <1>5, <1>6, <1>7, <1>8, <1>9, <1>10, <1>11, <1>12
     DEF RecordNext, Step

(* The inductive invariant. *)
THEOREM RepairInvariant == RecordSpec => []RecordInv
<1>1. RecordInit => RecordInv
  BY InitHolds
<1>2. RecordInv /\ [RecordNext]_recordVars => RecordInv'
  BY StepHolds
<1>3. QED
  BY <1>1, <1>2, PTL DEF RecordSpec

(* The types of the row and of the calls. *)
THEOREM RepairTypes == RecordSpec => []RecordTypeOK
<1>1. RecordInv => RecordTypeOK
  BY DEF RecordInv
<1>2. QED
  BY <1>1, RepairInvariant, PTL

(* No operation that succeeded is lost under another (save_action_plan). *)
THEOREM RepairLosesNothing == RecordSpec => []NothingLost
<1>1. RecordInv => NothingLost
  BY DEF RecordInv, Sound
<1>2. QED
  BY <1>1, RepairInvariant, PTL

(* A success was approved and rests on evidence (record_verification). *)
THEOREM RepairSuccessIsEarned == RecordSpec => []SuccessIsEarned
<1>1. RecordInv => SuccessIsEarned
  BY DEF RecordInv, Sound
<1>2. QED
  BY <1>1, RepairInvariant, PTL

(* A closed record stays as it is (repair_state.py). *)
THEOREM RepairClosedIsFrozen == RecordSpec => ClosedIsFrozen
<1>1. RecordInv /\ [RecordNext]_recordVars
        => [row.status \in TERMINAL_STATUSES => row' = row]_recordVars
  BY StepHolds
<1>2. QED
  BY <1>1, RepairInvariant, PTL DEF RecordSpec, ClosedIsFrozen

(* Every operation happens at one moment. *)
THEOREM RepairImplementsPromise == RecordSpec => ImplementsPromise
<1>1. RecordInit => PromiseInit
  BY DEF RecordInit
<1>2. RecordInv /\ [RecordNext]_recordVars => [PromiseNext]_promiseVars
  BY StepHolds
<1>3. QED
  BY <1>1, <1>2, RepairInvariant, PTL DEF RecordSpec, ImplementsPromise, PromiseSpec
-----------------------------------------------------------------------------
(* The solutions taken from a record (SolutionLibrary) *)

(* A verdict that says RESOLVED closes its record, so it is the last one,   *)
(* and the row is not written any more; it answers a result since whose     *)
(* import the fault has been absent.                                        *)
Settled(r, absent) ==
    /\ r.status = "ABSENT" <=> r.version = 0
    /\ \A k \in DOMAIN r.verifications :
          r.verifications[k].outcome = "RESOLVED"
            => /\ r.status \in {"SUCCEEDED", "FAILED"}
               /\ k = Len(r.verifications)
               /\ r.verifications[k].answered \in absent

RecordSettled == row \in Row /\ Settled(row, absentAfter)

(* What a process is about to save stands already, and what it is about to  *)
(* recommend is the first revision, saved as VERIFIED.                      *)
Shelf ==
    /\ solutions \in Seq(Document)
    /\ \A n \in DOMAIN solutions : Stands(solutions[n])
    /\ recommended \in {0, 1}

FirstVerified == 1 \in DOMAIN solutions /\ solutions[1].status = "VERIFIED"

JobStands(j) ==
    /\ j.step # "idle" => j.revision \in Nat \ {0} /\ j.document \in Document
    /\ j.step = "saving" => Stands(j.document)
    /\ j.step = "recommending" => j.revision = 1 /\ FirstVerified

LibraryInv ==
    /\ RecordSettled
    /\ Shelf
    /\ recommended = 1 => FirstVerified
    /\ job \in [Authors -> Jobs]
    /\ \A a \in Authors : JobStands(job[a])
(* A row that may follow is settled, and the row it follows was open.       *)
LEMMA DraftSettles ==
    ASSUME NEW r \in Row, NEW absent, NEW more, Settled(r, absent),
           NEW d \in Drafts(r), NEW new, new = Bumped(r, d)
    PROVE  new \in Row /\ r.status = "ABSENT" /\ Settled(new, more)
<1>1. /\ r.version = 0 /\ new \in Row /\ new.version = 1
      /\ new.status \in RECORDABLE_STATUSES /\ new.verifications = <<>>
  BY RecordedRow
<1>2. QED
  BY <1>1 DEF Settled, RECORDABLE_STATUSES

(* An operation that appends no verdict keeps an open row settled.          *)
LEMMA SameVerdictsSettle ==
    ASSUME NEW r \in Row, NEW absent, NEW more, Settled(r, absent),
           NEW new \in Row, new.version = r.version + 1, new.status # "ABSENT",
           new.verifications = r.verifications,
           r.status \in {"WAITING_APPROVAL", "APPROVED"}
    PROVE  Settled(new, more)
<1>1. new.version # 0
  BY RowParts
<1>2. QED
  BY <1>1 DEF Settled

LEMMA VerdictSettles ==
    ASSUME NEW r \in Row, NEW absent, NEW more, absent \subseteq more, Settled(r, absent),
           NEW v \in Verdicts, r.pending \in Results, v = "RESOLVED" => r.pending \in absent,
           NEW new \in Row, new.version = r.version + 1,
           r.status = "APPROVED", new.status \in {"APPROVED", "SUCCEEDED", "FAILED"},
           v = "RESOLVED" => new.status # "APPROVED",
           new.verifications = Append(r.verifications, [outcome |-> v, answered |-> r.pending])
    PROVE  Settled(new, more)
<1>1. r.verifications \in Seq(Verification) /\ new.version # 0
  BY RowParts DEF VerificationLog
<1> DEFINE x == [outcome |-> v, answered |-> r.pending]
<1>2. x \in Verification /\ x.outcome = v /\ x.answered = r.pending
  BY DEF Verification
<1> HIDE DEF x
<1>3. /\ Len(new.verifications) = Len(r.verifications) + 1
      /\ DOMAIN new.verifications = 1..(Len(r.verifications) + 1)
      /\ new.verifications[Len(r.verifications) + 1] = x
      /\ \A k \in DOMAIN r.verifications : new.verifications[k] = r.verifications[k]
      /\ DOMAIN r.verifications = 1..Len(r.verifications)
      /\ Len(r.verifications) \in Nat
  BY <1>1, <1>2 DEF x
<1>4. \A k \in DOMAIN r.verifications : r.verifications[k].outcome # "RESOLVED"
  BY DEF Settled
<1>5. ASSUME NEW k \in DOMAIN new.verifications, new.verifications[k].outcome = "RESOLVED"
      PROVE  k = Len(new.verifications) /\ v = "RESOLVED" /\ new.verifications[k] = x
  <2>1. k \notin DOMAIN r.verifications
    BY <1>3, <1>4, <1>5
  <2>2. k = Len(r.verifications) + 1
    BY <1>3, <2>1
  <2>3. QED
    BY <1>2, <1>3, <1>5, <2>2
<1>6. QED
  BY <1>1, <1>2, <1>5 DEF Settled

LEMMA ChangeSettles ==
    ASSUME NEW r \in Row, NEW absent, NEW more, NEW present, absent \subseteq more,
           Settled(r, absent), NEW d \in Allowed(r, absent, present),
           NEW new, new = Bumped(r, d)
    PROVE  /\ new \in Row
           /\ r.status \in {"WAITING_APPROVAL", "APPROVED"}
           /\ Settled(new, more)
<1>0. r.version \in Nat /\ r.status \in STATUSES
  BY RowParts
<1>1. CASE d \in Approvals(r)
  <2>1. /\ new \in Row /\ new.version = r.version + 1 /\ r.status = "WAITING_APPROVAL"
        /\ new.status = "APPROVED" /\ new.verifications = r.verifications
    BY <1>1, ApprovedRow DEF Follows
  <2>2. QED
    BY <2>1, SameVerdictsSettle
<1>2. CASE d \in Declarations(r)
  <2>1. /\ new \in Row /\ new.version = r.version + 1 /\ r.version > 0
        /\ r.status \notin TERMINAL_STATUSES /\ new.status = r.status
        /\ new.verifications = r.verifications
    BY <1>2, DeclaredRow DEF Follows, Kept
  <2>2. r.status # "ABSENT"
    BY <1>0, <2>1 DEF Settled
  <2>3. r.status \in {"WAITING_APPROVAL", "APPROVED"}
    BY <1>0, <2>1, <2>2 DEF STATUSES, RECORDABLE_STATUSES, TERMINAL_STATUSES, OUTCOMES
  <2>4. QED
    BY <2>1, <2>2, <2>3, SameVerdictsSettle
<1>3. CASE d \in Imports(r)
  <2>1. /\ new \in Row /\ new.version = r.version + 1 /\ r.status = "APPROVED"
        /\ new.status = r.status /\ new.verifications = r.verifications
    BY <1>3, ImportedRow DEF Follows
  <2>2. QED
    BY <2>1, SameVerdictsSettle
<1>4. CASE d \in Closings(r)
  <2>1. /\ new \in Row /\ new.version = r.version + 1 /\ r.status = "APPROVED"
        /\ new.status \in OUTCOMES /\ new.verifications = r.verifications
    BY <1>4, ClosedRow DEF Follows, Kept
  <2>2. QED
    BY <2>1, SameVerdictsSettle DEF OUTCOMES
<1>5. CASE \E v \in Verdicts : Witnessed(v, r.pending, absent, present) /\ d \in Verifications(r, v)
  <2>1. PICK v \in Verdicts : Witnessed(v, r.pending, absent, present) /\ d \in Verifications(r, v)
    BY <1>5
  <2>2. /\ new \in Row /\ new.version = r.version + 1 /\ r.status = "APPROVED"
        /\ r.pending \in Results
        /\ new.status \in {"APPROVED", "SUCCEEDED", "FAILED"}
        /\ v = "RESOLVED" => new.status # "APPROVED"
        /\ new.verifications = Append(r.verifications, [outcome |-> v, answered |-> r.pending])
    BY <2>1, VerifiedRow DEF Follows
  <2>3. v = "RESOLVED" => r.pending \in absent
    BY <2>1 DEF Witnessed
  <2>4. QED
    BY <2>2, <2>3, VerdictSettles
<1>6. QED
  BY <1>1, <1>2, <1>3, <1>4, <1>5 DEF Allowed

(* The record goes on: a row that closed as a success is not written, and   *)
(* what was once absent is remembered, so that what stood stands.           *)
LEMMA PromiseKeepsStanding ==
    ASSUME RecordSettled, PromiseNext
    PROVE  RecordSettled' /\ \A doc : Stands(doc) => Stands(doc)'
<1>1. row \in Row /\ Settled(row, absentAfter) /\ absentAfter \subseteq absentAfter'
  BY DEF RecordSettled, PromiseNext, Remember
<1>2. ASSUME row' \in Row, Settled(row', absentAfter'), row' = row \/ row.status # "SUCCEEDED"
      PROVE  RecordSettled' /\ \A doc : Stands(doc) => Stands(doc)'
  BY <1>1, <1>2 DEF RecordSettled, Stands
<1>3. CASE Begin
  <2>1. PICK d \in Drafts(row) : row' = Bumped(row, d)
    BY <1>3 DEF Begin
  <2>2. row' \in Row /\ row.status = "ABSENT" /\ Settled(row', absentAfter')
    BY <1>1, <2>1, DraftSettles
  <2>3. QED
    BY <1>2, <2>2
<1>4. CASE Change
  <2>1. PICK d \in Allowed(row, absentAfter, presentAfter) : row' = Bumped(row, d)
    BY <1>4 DEF Change
  <2>2. /\ row' \in Row /\ row.status \in {"WAITING_APPROVAL", "APPROVED"}
        /\ Settled(row', absentAfter')
    BY <1>1, <2>1, ChangeSettles
  <2>3. QED
    BY <1>2, <2>2
<1>5. CASE Turn
  <2>1. row' = row
    BY <1>5 DEF Turn
  <2>2. Settled(row', absentAfter')
    BY <1>1, <2>1 DEF Settled
  <2>3. QED
    BY <1>1, <1>2, <2>1, <2>2
<1>6. QED
  BY <1>3, <1>4, <1>5 DEF PromiseNext

LEMMA RecordMovesKeep ==
    ASSUME LibraryInv, PromiseNext, UNCHANGED libraryVars
    PROVE  LibraryInv'
<1>1. RecordSettled' /\ \A doc : Stands(doc) => Stands(doc)'
  BY PromiseKeepsStanding DEF LibraryInv
<1>2. solutions' = solutions /\ recommended' = recommended /\ job' = job
  BY DEF libraryVars
<1>3. Shelf'
  BY <1>1, <1>2 DEF LibraryInv, Shelf
<1>4. \A a \in Authors : JobStands(job[a])'
  BY <1>1, <1>2 DEF LibraryInv, JobStands, FirstVerified
<1>5. QED
  BY <1>1, <1>2, <1>3, <1>4 DEF LibraryInv, FirstVerified
(* Of a settled record, only the last verdict says RESOLVED.                *)
LEMMA LastResolved ==
    ASSUME RecordSettled, Resolved # {}
    PROVE  Max(Resolved) \in Resolved /\ Max(Resolved) \in Nat
<1>1. row.verifications \in Seq(Verification) /\ Settled(row, absentAfter)
  BY RowParts DEF RecordSettled, VerificationLog
<1> DEFINE n == Len(row.verifications)
<1>2. n \in Nat
  BY <1>1
<1>3. Resolved = {n}
  BY <1>1 DEF Resolved, Settled
<1> HIDE DEF n
<1>4. Max(Resolved) = n
  BY <1>2, <1>3 DEF Max
<1>5. QED
  BY <1>2, <1>3, <1>4

(* An author changes its own job and nothing else.                          *)
LEMMA JobReplaced ==
    ASSUME LibraryInv, UNCHANGED promiseVars, UNCHANGED <<solutions, recommended>>,
           NEW a \in Authors, NEW j \in Jobs, JobStands(j), job' = [job EXCEPT ![a] = j]
    PROVE  LibraryInv'
<1>1. /\ row' = row /\ absentAfter' = absentAfter
      /\ solutions' = solutions /\ recommended' = recommended
  BY DEF promiseVars
<1>2. RecordSettled' /\ Shelf' /\ (FirstVerified' <=> FirstVerified)
  BY <1>1 DEF LibraryInv, RecordSettled, Shelf, Stands, FirstVerified
<1>3. /\ job' \in [Authors -> Jobs]
      /\ job'[a] = j
      /\ \A b \in Authors \ {a} : job'[b] = job[b]
  BY DEF LibraryInv
<1>4. ASSUME NEW b \in Authors PROVE JobStands(job[b])'
  <2>1. JobStands(job'[b])
    BY <1>3 DEF LibraryInv
  <2>2. QED
    BY <1>1, <1>2, <2>1 DEF JobStands, Stands
<1>5. QED
  BY <1>1, <1>2, <1>3, <1>4 DEF LibraryInv

LEMMA NoJobStands == NoJob \in Jobs /\ JobStands(NoJob)
BY DEF NoJob, Jobs, JobStands

LEMMA StartKeeps ==
    ASSUME LibraryInv, UNCHANGED promiseVars, NEW a \in Authors,
           NEW document \in Document, Stands(document), StartSaving(a, document)
    PROVE  LibraryInv'
<1>1. PICK n \in 1..MaxRevision :
         job' = [job EXCEPT ![a] = [step |-> "saving", revision |-> n, document |-> document]]
  BY DEF StartSaving
<1> DEFINE j == [step |-> "saving", revision |-> n, document |-> document]
<1>2. j \in Jobs
  BY DEF Jobs
<1>3. n \in Nat \ {0}
  BY MaxRevisionIsNat
<1>4. JobStands(j)
  BY <1>3 DEF JobStands
<1>5. job' = [job EXCEPT ![a] = j] /\ UNCHANGED <<solutions, recommended>>
  BY <1>1 DEF StartSaving
<1> HIDE DEF j
<1>6. QED
  BY <1>2, <1>4, <1>5, JobReplaced

LEMMA SolidifyKeeps ==
    ASSUME LibraryInv, UNCHANGED promiseVars, NEW a \in Authors, Solidify(a)
    PROVE  LibraryInv'
<1>1. PICK text \in Texts :
         StartSaving(a, [status |-> "VERIFIED", source |-> Max(Resolved), text |-> text])
  BY DEF Solidify
<1>2. RecordSettled /\ Max(Resolved) \in Resolved /\ Max(Resolved) \in Nat
  BY LastResolved DEF LibraryInv, Solidify
<1> DEFINE k == Max(Resolved)
           document == [status |-> "VERIFIED", source |-> k, text |-> text]
<1>3. /\ row.status = "SUCCEEDED" /\ k \in DOMAIN row.verifications
      /\ row.verifications[k].outcome = "RESOLVED"
  BY <1>2 DEF Solidify, Resolved
<1> HIDE DEF k
<1>4. row.verifications[k].answered \in absentAfter
  BY <1>2, <1>3 DEF RecordSettled, Settled
<1>5. document \in Document
  BY <1>2 DEF Document, k
<1>6. Stands(document)
  BY <1>3, <1>4 DEF Stands
<1>7. StartSaving(a, document)
  BY <1>1 DEF k
<1> HIDE DEF document
<1>8. QED
  BY <1>5, <1>6, <1>7, StartKeeps

LEMMA ImportKeeps ==
    ASSUME LibraryInv, UNCHANGED promiseVars, NEW a \in Authors, ImportUnverified(a)
    PROVE  LibraryInv'
<1>1. PICK text \in Texts :
         StartSaving(a, [status |-> "UNVERIFIED", source |-> 0, text |-> text])
  BY DEF ImportUnverified
<1> DEFINE document == [status |-> "UNVERIFIED", source |-> 0, text |-> text]
<1>2. document \in Document /\ Stands(document)
  BY DEF Document, Stands
<1>3. StartSaving(a, document)
  BY <1>1
<1> HIDE DEF document
<1>4. QED
  BY <1>2, <1>3, StartKeeps

(* A revision that is saved is there, the others stay.                      *)
LEMMA SavedRevisions ==
    ASSUME NEW n \in Nat \ {0}, NEW document \in Document, solutions \in Seq(Document),
           NEW new \in Saved(n, document)
    PROVE  /\ new \in Seq(Document)
           /\ n \in DOMAIN new /\ new[n] = document
           /\ DOMAIN solutions \subseteq DOMAIN new
           /\ \A k \in DOMAIN solutions : new[k] = solutions[k]
           /\ \A k \in DOMAIN new : k = n \/ k \in DOMAIN solutions
<1>1. CASE n \in DOMAIN solutions /\ solutions[n] = document
  <2>1. new = solutions
    BY <1>1 DEF Saved
  <2>2. QED
    BY <1>1, <2>1
<1>2. CASE ~(n \in DOMAIN solutions /\ solutions[n] = document) /\ n = Len(solutions) + 1
  <2>1. new = Append(solutions, document)
    BY <1>2 DEF Saved
  <2>2. QED
    BY <1>2, <2>1
<1>3. QED
  BY <1>1, <1>2 DEF Saved

LEMMA SaveSolutionKeeps ==
    ASSUME LibraryInv, UNCHANGED promiseVars, NEW a \in Authors, SaveSolution(a)
    PROVE  LibraryInv'
<1> DEFINE n == job[a].revision
           document == job[a].document
<1>1. /\ job \in [Authors -> Jobs] /\ job[a] \in Jobs /\ job[a].step = "saving"
      /\ n \in Nat \ {0} /\ document \in Document /\ Stands(document)
      /\ solutions \in Seq(Document)
  BY DEF LibraryInv, JobStands, SaveSolution, Shelf
<1>2. /\ solutions' \in Saved(n, document) /\ recommended' = recommended
      /\ row' = row /\ absentAfter' = absentAfter
  BY DEF SaveSolution, promiseVars
<1>3. /\ solutions' \in Seq(Document)
      /\ n \in DOMAIN solutions' /\ solutions'[n] = document
      /\ DOMAIN solutions \subseteq DOMAIN solutions'
      /\ \A k \in DOMAIN solutions : solutions'[k] = solutions[k]
      /\ \A k \in DOMAIN solutions' : k = n \/ k \in DOMAIN solutions
  <2> HIDE DEF n, document
  <2>1. QED
    BY <1>1, <1>2, SavedRevisions
<1>4. FirstVerified => FirstVerified'
  BY <1>3 DEF FirstVerified
<1>5. Shelf' /\ RecordSettled'
  <2>1. Shelf /\ RecordSettled
    BY DEF LibraryInv
  <2> HIDE DEF n, document
  <2>2. \A k \in DOMAIN solutions' : Stands(solutions'[k])
    BY <1>1, <1>3, <2>1 DEF Shelf
  <2>3. QED
    BY <1>2, <1>3, <2>1, <2>2 DEF Shelf, Stands, RecordSettled
<1> DEFINE next == [job[a] EXCEPT !.step = "recommending"]
<1>6. /\ next.step = "recommending" /\ next.revision = n /\ next.document = document
      /\ next \in Jobs
  BY <1>1 DEF Jobs
<1>7. ASSUME Recommends(a) PROVE n = 1 /\ FirstVerified'
  BY <1>3, <1>7 DEF Recommends, FirstVerified
<1>8. ASSUME NEW b \in Authors, NEW j \in Jobs, job' = [job EXCEPT ![a] = j],
             j.step \in {"idle", "recommending"},
             j.step = "recommending" => /\ j.revision = 1 /\ j.document \in Document
                                        /\ FirstVerified'
      PROVE  job' \in [Authors -> Jobs] /\ JobStands(job[b])'
  <2>1. job' \in [Authors -> Jobs] /\ job'[b] = IF b = a THEN j ELSE job[b]
    BY <1>1, <1>8
  <2>2. CASE b = a
    BY <1>8, <2>1, <2>2 DEF JobStands
  <2>3. CASE b # a
    <3>1. JobStands(job[b])
      BY DEF LibraryInv
    <3>2. QED
      BY <1>2, <1>4, <2>1, <2>3, <3>1 DEF JobStands, Stands
  <2>4. QED
    BY <2>1, <2>2, <2>3
<1>9. job' \in [Authors -> Jobs] /\ \A b \in Authors : JobStands(job[b])'
  <2>1. ASSUME NEW b \in Authors PROVE job' \in [Authors -> Jobs] /\ JobStands(job[b])'
    <3>1. CASE Recommends(a)
      <4>1. job' = [job EXCEPT ![a] = next]
        BY <3>1 DEF SaveSolution
      <4> HIDE DEF n, document, next
      <4>2. QED
        BY <1>1, <1>6, <1>7, <1>8, <3>1, <4>1
    <3>2. CASE ~Recommends(a)
      <4>1. job' = [job EXCEPT ![a] = NoJob] /\ NoJob.step = "idle" /\ NoJob \in Jobs
        BY <3>2, NoJobStands DEF SaveSolution, NoJob
      <4>2. QED
        BY <1>8, <4>1
    <3>3. QED
      BY <3>1, <3>2
  <2>2. Authors # {}
    OBVIOUS
  <2>3. QED
    BY <2>1, <2>2
<1>10. QED
  BY <1>2, <1>4, <1>5, <1>9 DEF LibraryInv

LEMMA RecommendKeeps ==
    ASSUME LibraryInv, UNCHANGED promiseVars, NEW a \in Authors, Recommend(a)
    PROVE  LibraryInv'
<1>1. /\ job \in [Authors -> Jobs] /\ job[a].revision = 1 /\ FirstVerified
  BY DEF LibraryInv, JobStands, Recommend
<1>2. /\ recommended' = 1 /\ solutions' = solutions /\ job' = [job EXCEPT ![a] = NoJob]
      /\ row' = row /\ absentAfter' = absentAfter
  BY <1>1 DEF Recommend, promiseVars
<1>3. RecordSettled' /\ Shelf' /\ FirstVerified'
  BY <1>1, <1>2 DEF LibraryInv, RecordSettled, Shelf, Stands, FirstVerified
<1>4. job' \in [Authors -> Jobs]
  BY <1>1, <1>2, NoJobStands
<1>5. ASSUME NEW b \in Authors PROVE JobStands(job[b])'
  <2>1. JobStands(job'[b])
    <3>1. job'[b] = NoJob \/ job'[b] = job[b]
      BY <1>1, <1>2
    <3>2. QED
      BY <3>1, NoJobStands DEF LibraryInv
  <2>2. QED
    BY <1>2, <1>3, <2>1 DEF JobStands, Stands
<1>6. QED
  BY <1>2, <1>3, <1>4, <1>5 DEF LibraryInv

LEMMA AbandonKeeps ==
    ASSUME LibraryInv, UNCHANGED promiseVars, NEW a \in Authors, Abandon(a)
    PROVE  LibraryInv'
BY NoJobStands, JobReplaced DEF Abandon

LEMMA LibraryInit == Init => LibraryInv
<1> SUFFICES ASSUME Init PROVE LibraryInv
  OBVIOUS
<1>1. row = NoRow /\ solutions = <<>> /\ recommended = 0 /\ job = [a \in Authors |-> NoJob]
  BY DEF Init, PromiseInit
<1>2. RecordSettled
  BY <1>1, NoRowIsRow DEF RecordSettled, Settled, NoRow
<1>3. Shelf
  BY <1>1 DEF Shelf
<1>4. QED
  BY <1>1, <1>2, <1>3, NoJobStands DEF LibraryInv

LEMMA LibraryStep == LibraryInv /\ [Next]_vars => LibraryInv'
<1> SUFFICES ASSUME LibraryInv, [Next]_vars PROVE LibraryInv'
  OBVIOUS
<1>1. CASE PromiseNext /\ UNCHANGED libraryVars
  BY <1>1, RecordMovesKeep
<1>2. ASSUME NEW a \in Authors, Write(a), UNCHANGED promiseVars PROVE LibraryInv'
  BY <1>2, SolidifyKeeps, ImportKeeps, SaveSolutionKeeps, RecommendKeeps, AbandonKeeps DEF Write
<1>3. CASE UNCHANGED vars
  <2>1. /\ row' = row /\ absentAfter' = absentAfter /\ solutions' = solutions
        /\ recommended' = recommended /\ job' = job
    BY <1>3 DEF vars, promiseVars, libraryVars
  <2>2. QED
    BY <2>1 DEF LibraryInv, RecordSettled, Shelf, Stands, FirstVerified, JobStands
<1>4. QED
  BY <1>1, <1>2, <1>3 DEF Next

(* A VERIFIED solution rests on a verdict that saw the fault absent, and    *)
(* only such a solution is recommended, whoever writes beside and dies      *)
(* between save_solution and recommend_solution (solution_library.py).      *)
THEOREM VerifiedSolutionsStand == Spec => []VerifiedStands
<1>1. Init => LibraryInv
  BY LibraryInit
<1>2. LibraryInv /\ [Next]_vars => LibraryInv'
  BY LibraryStep
<1>3. LibraryInv => VerifiedStands
  BY DEF LibraryInv, Shelf, FirstVerified, VerifiedStands
<1>4. QED
  BY <1>1, <1>2, <1>3, PTL DEF Spec
=============================================================================
