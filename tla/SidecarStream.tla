--------------------------- MODULE SidecarStream ----------------------------
(***************************************************************************)
(* How what is written to the canonical store reaches the Observer's       *)
(* screen.  The sidecar's watcher compares fingerprints of the store and   *)
(* publishes an event under the next revision, which it then records       *)
(* (sidecar.py); a handler thread sends the events of the hub to the       *)
(* browser (sse_revision.py); the browser answers an event by reading the  *)
(* snapshot, one read at a time (api.ts).  Connections break, reads fail,  *)
(* and the sidecar dies and is started again.                              *)
(*                                                                         *)
(* The store's contents are a version number: every write makes the next   *)
(* version.  The fingerprint holds numbers of rows, highest row numbers,   *)
(* newest timestamps and tallies, so it shows a write only if the write    *)
(* leaves one of these changed.                                            *)
(***************************************************************************)
EXTENDS RevisionHub

CONSTANTS
    Verdict,        \* what a snapshot may say of transport and coverage
    MaxData,        \* bound on writes to the store
    MaxTrouble,     \* bound on crashes and on calls that fail
    MaxWire         \* frames in transit above which the handler waits

ASSUME BoundsAreNatural == {MaxData, MaxTrouble, MaxWire} \subseteq Nat

VARIABLES
    data,           \* version of the store's contents
    stamped,        \* the newest version that left its trace in the fingerprint
    last_revision,  \* sse_state.last_revision in the store
    watcher,        \* where the watcher is, "down" when the sidecar is dead
    current,        \* the fingerprint the watcher is publishing
    last_fingerprint,
    hub,
    revision,       \* WorkflowSidecar._revision
    handler,        \* where the stream's handler thread is
    cursor,         \* client.last_event_id, on the server
    wire,           \* frames on their way to the browser
    lastEventId,    \* the browser's own cursor
    reading,        \* the read in flight: "no", "asked", "answered" or "failed"
    answer,         \* the snapshot in its answer
    followUp,       \* whether another read is to follow it
    snap,           \* the snapshot on the screen, or None
    received,       \* history: the newest version the browser was sent
    error,          \* whether the screen shows an error
    trouble

store == <<data, stamped, last_revision>>
watching == <<watcher, current, last_fingerprint>>
sidecar == <<watching, hub, revision>>
stream == <<handler, cursor, wire>>
browser == <<lastEventId, reading, answer, followUp, snap, received, error>>
vars == <<store, sidecar, stream, browser, trouble>>

Version == 0..MaxData

Init ==
    /\ data = 0 /\ stamped = 0 /\ last_revision = 0
    /\ watcher = "down" /\ current = 0 /\ last_fingerprint = 0
    /\ hub = SeededHub(0) /\ revision = 0
    /\ handler = "none" /\ cursor = None /\ wire = <<>>
    /\ lastEventId = None
    /\ reading = "no" /\ answer = None /\ followUp = FALSE /\ snap = None /\ received = -1 /\ error = FALSE
    /\ trouble = 0

Up == watcher # "down"
v3_snapshot(verdict) == [revision |-> revision, version |-> data, verdict |-> verdict]
Trouble == trouble < MaxTrouble /\ trouble' = trouble + 1

-----------------------------------------------------------------------------
(* The store, and the life of the sidecar *)

Write ==
    /\ data < MaxData
    /\ data' = data + 1
    /\ stamped' = data + 1
    /\ UNCHANGED <<last_revision, sidecar, stream, browser, trouble>>

(* A row is changed in place and no timestamp with it: a project's status, *)
(* a project registered again, a solution recommended.                     *)
UpdateInPlace ==
    /\ data < MaxData
    /\ data' = data + 1
    /\ UNCHANGED <<stamped, last_revision, sidecar, stream, browser, trouble>>

(* Two fingerprints are equal when no write in between left its trace.     *)
Fingerprint == stamped

Start ==
    /\ ~Up
    /\ hub' = SeededHub(last_revision)
    /\ revision' = last_revision
    /\ last_fingerprint' = Fingerprint
    /\ watcher' = "wait"
    /\ UNCHANGED <<store, current, stream, browser, trouble>>

Unconnected == handler' = "none" /\ wire' = <<>> /\ UNCHANGED cursor

Crash ==
    /\ Up
    /\ Trouble
    /\ watcher' = "down"
    /\ Unconnected
    /\ reading' = IF reading = "asked" THEN "failed" ELSE reading
    /\ error' = (error \/ handler # "none")
    /\ UNCHANGED <<store, current, last_fingerprint, hub, revision,
                   lastEventId, answer, followUp, snap, received>>

-----------------------------------------------------------------------------
(* The watcher: _watch and publish_observed *)

Look ==
    /\ watcher = "wait"
    /\ Fingerprint # last_fingerprint
    /\ current' = Fingerprint
    /\ watcher' = "publish"
    /\ UNCHANGED <<store, last_fingerprint, hub, revision, stream, browser, trouble>>

Publish ==
    /\ watcher = "publish"
    /\ hub' = Published(hub)
    /\ watcher' = "assign"
    /\ UNCHANGED <<store, current, last_fingerprint, revision, stream, browser, trouble>>

Assign ==
    /\ watcher = "assign"
    /\ revision' = hub.sequence
    /\ watcher' = "record"
    /\ UNCHANGED <<store, current, last_fingerprint, hub, stream, browser, trouble>>

(* Variant: the fingerprint is taken anew once the event is published. *)
Record_TakenAnew ==
    /\ watcher = "record"
    /\ last_revision' = revision
    /\ last_fingerprint' = Fingerprint
    /\ watcher' = "wait"
    /\ UNCHANGED <<data, stamped, current, hub, revision, stream, browser, trouble>>

Record ==
    /\ watcher = "record"
    /\ last_revision' = revision
    /\ last_fingerprint' = current
    /\ watcher' = "wait"
    /\ UNCHANGED <<data, stamped, current, hub, revision, stream, browser, trouble>>

(* record_revision, or the projection before it, raises: the watcher tries *)
(* the same fingerprint again.                                             *)
PublishFails ==
    /\ watcher \in {"publish", "record"}
    /\ Trouble
    /\ watcher' = "wait"
    /\ UNCHANGED <<store, current, last_fingerprint, hub, revision, stream, browser>>

-----------------------------------------------------------------------------
(* The browser's reads: tick and fetchSnapshot *)

(* Variant: a read that is wanted while another one runs is forgotten. *)
Tick_Dropped ==
    /\ reading' = IF reading = "no" THEN "asked" ELSE reading
    /\ UNCHANGED followUp

Tick ==
    IF reading = "no"
    THEN reading' = "asked" /\ followUp' = FALSE
    ELSE followUp' = TRUE /\ UNCHANGED reading

Answer(verdict) ==
    /\ reading = "asked"
    /\ reading' = IF Up THEN "answered" ELSE "failed"
    /\ answer' = IF Up THEN v3_snapshot(verdict) ELSE None
    /\ UNCHANGED <<store, sidecar, stream, lastEventId, followUp, snap, received, error, trouble>>

AnswerFails ==
    /\ reading = "asked"
    /\ Trouble
    /\ reading' = "failed"
    /\ UNCHANGED <<store, sidecar, stream, lastEventId, answer, followUp, snap, received, error>>

(* What apply compares is not the contents: the verdict stands for what a  *)
(* snapshot says of transport, freshness, coverage and source watermark.   *)
Signature(snapshot) == <<snapshot.revision, snapshot.verdict>>

(* apply: a snapshot with a lower revision is refused, and one with the    *)
(* signature of the one on the screen changes nothing.                     *)
Apply(snapshot) ==
    LET refused == snap # None /\ snapshot.revision < snap.revision
        unchanged == snap # None /\ Signature(snapshot) = Signature(snap)
    IN  /\ snap' = IF refused \/ unchanged THEN snap ELSE snapshot
        /\ error' = refused
        /\ received' = Later(received, snapshot.version)

FinishRead ==
    /\ reading \in {"answered", "failed"}
    /\ IF reading = "failed"
       THEN error' = TRUE /\ UNCHANGED <<snap, received>>
       ELSE Apply(answer)
    /\ reading' = IF followUp THEN "asked" ELSE "no"
    /\ answer' = None /\ followUp' = FALSE
    /\ UNCHANGED <<store, sidecar, stream, lastEventId, trouble>>

(* The timer of the surface: a first read, and a safety net afterwards. *)
Timer ==
    /\ Tick
    /\ UNCHANGED <<store, sidecar, stream, lastEventId, answer, snap, received, error, trouble>>

-----------------------------------------------------------------------------
(* The stream: the handler of /api/v1/events, and EventSource *)

(* The browser opens the stream with its own cursor, and reads. *)
Connect ==
    /\ Up /\ handler = "none"
    /\ handler' = "accepted"
    /\ cursor' = lastEventId
    /\ wire' = <<>>
    /\ Tick
    /\ UNCHANGED <<store, sidecar, lastEventId, answer, snap, received, error, trouble>>

Send(frames, then) ==
    /\ wire' = wire \o frames
    /\ handler' = then

(* What the hub has for the client, or else the step that makes up a frame. *)
SendNews(otherwise) ==
    /\ cursor' = hub.sequence
    /\ Send(FramesFor(hub, cursor), IF FramesFor(hub, cursor) = <<>> THEN otherwise ELSE "stream")
    /\ UNCHANGED <<store, sidecar, browser, trouble>>

FirstFrames == handler = "accepted" /\ SendNews("snapshot")

SendSnapshot(verdict) ==
    /\ handler = "snapshot"
    /\ Send(<<[event |-> "snapshot", id |-> revision, snapshot |-> v3_snapshot(verdict)]>>, "stream")
    /\ UNCHANGED <<store, sidecar, cursor, browser, trouble>>

NextFrames == handler = "stream" /\ Len(wire) < MaxWire /\ SendNews("heartbeat")

(* The number is read again, without the hub's lock. *)
SendHeartbeat ==
    /\ handler = "heartbeat"
    /\ Send(<<Frame("heartbeat", hub.sequence)>>, "stream")
    /\ UNCHANGED <<store, sidecar, cursor, browser, trouble>>

Deliver ==
    /\ wire # <<>>
    /\ wire' = Tail(wire)
    /\ lastEventId' = Head(wire).id
    /\ CASE Head(wire).event = "snapshot" ->
              Apply(Head(wire).snapshot) /\ UNCHANGED <<reading, followUp>>
         [] Head(wire).event \in {"observed", "resync_required"} ->
              Tick /\ UNCHANGED <<snap, received, error>>
         [] Head(wire).event = "heartbeat" -> UNCHANGED <<reading, followUp, snap, received, error>>
    /\ UNCHANGED <<store, sidecar, handler, cursor, answer, trouble>>

(* The stream breaks: what was on its way is lost, and onError reports it. *)
Disconnect ==
    /\ handler # "none"
    /\ Unconnected
    /\ error' = TRUE
    /\ UNCHANGED <<store, sidecar, lastEventId, reading, answer, followUp, snap, received, trouble>>

(* EventSource tries to connect while there is no sidecar. *)
ConnectRefused ==
    /\ ~Up /\ ~error
    /\ error' = TRUE
    /\ UNCHANGED <<store, sidecar, stream, lastEventId, reading, answer, followUp, snap, received, trouble>>

-----------------------------------------------------------------------------
Watcher == Look \/ Publish \/ Assign \/ Record
Handler ==
    \/ FirstFrames \/ NextFrames \/ SendHeartbeat
    \/ \E verdict \in Verdict : SendSnapshot(verdict)
Reader == FinishRead \/ \E verdict \in Verdict : Answer(verdict)

Next ==
    \/ Write \/ UpdateInPlace \/ Start \/ Crash
    \/ Watcher \/ PublishFails
    \/ Reader \/ AnswerFails \/ Timer
    \/ Connect \/ ConnectRefused \/ Handler \/ Deliver \/ Disconnect

Spec == Init /\ [][Next]_vars

(* Threads run, a dead sidecar is started again, EventSource reconnects.   *)
(* The surface's timer is a safety net and is not counted on.              *)
Fairness ==
    /\ WF_vars(Start) /\ WF_vars(Watcher) /\ WF_vars(Handler) /\ WF_vars(Reader)
    /\ WF_vars(Connect) /\ WF_vars(Deliver)

FairSpec == Spec /\ Fairness

-----------------------------------------------------------------------------
(* Properties *)

(* The version whose publication the watcher has begun or ended last. *)
Announced == IF watcher \in {"assign", "record"} THEN current ELSE last_fingerprint

(* When the stream has told the browser everything and no read is running, *)
(* the browser was sent what was announced, or it shows an error: no event *)
(* falls between the read on opening, the first frames and the reads that  *)
(* are coalesced (frames_for, the handler, tick).                          *)
QuietMeansCurrent ==
    /\ handler \in {"stream", "heartbeat"} /\ cursor = hub.sequence
    /\ wire = <<>> /\ reading = "no"
    => received >= Announced \/ error

(* When nothing more is written, the browser comes to have been sent the   *)
(* last write that left a trace in the fingerprint, and whatever was       *)
(* changed in place before it, or shows an error, though connections       *)
(* break, publications fail and the sidecar loses revisions when it dies   *)
(* (newest_changes, publish_observed, frames_for, tick).  What is changed  *)
(* in place after that is announced by nobody, and what is sent need not   *)
(* be shown (Apply).                                                       *)
StampedWritesArrive == <>[](received >= stamped \/ error)

-----------------------------------------------------------------------------
(* What the source says of itself and the code does not keep *)

(* "a delayed older projection must never replace the newer facts already  *)
(* on screen".                                                             *)
NeverReplacedByOlder ==
    [][snap # None => snap'.version >= snap.version]_vars

(* newest_changes: "the highest rowid still catches a mutation whose       *)
(* author forgot to bump a timestamp".  It catches none that changes a row *)
(* in place (UpdateInPlace), and what the surface's timer reads is the     *)
(* same as before to Apply, so that it is not shown either.                *)
EveryWriteIsShown == <>[]((snap # None /\ snap.version >= data) \/ error)
=============================================================================
