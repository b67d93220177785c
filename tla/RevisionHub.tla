---------------------------- MODULE RevisionHub -----------------------------
(***************************************************************************)
(* The value of SseRevisionHub (sse_revision.py): the sequence number of   *)
(* the last event and the bounded history of events for replay.  Events    *)
(* are numbered one after the other, so the history is an interval, and    *)
(* what an event says does not matter here: it sends its reader back to    *)
(* the snapshot.                                                           *)
(***************************************************************************)
EXTENDS Integers, Sequences

CONSTANTS
    HISTORY,        \* events kept for replay: 1000 in the source
    None            \* Python None, JavaScript null

ASSUME HistoryIsPositive == HISTORY \in Nat \ {0}
ASSUME NoneIsNoRevision == None \notin Nat

(* A hub that a restarted sidecar seeds has a number and no history. *)
SeededHub(revision) == [sequence |-> revision, oldest |-> revision + 1]

Available(hub) == hub.oldest..hub.sequence

Later(m, n) == IF m > n THEN m ELSE n

Published(hub) ==
    [sequence |-> hub.sequence + 1, oldest |-> Later(hub.oldest, hub.sequence + 2 - HISTORY)]

Frame(event, id) == [event |-> event, id |-> id]

Replay(hub, cursor) ==
    [i \in 1..(hub.sequence + 1 - Later(hub.oldest, cursor + 1)) |->
        Frame("observed", Later(hub.oldest, cursor + 1) + i - 1)]

(* The cursor is not one the history can continue from.  A cursor of zero  *)
(* is exempt when the history is not empty.                                *)
NeedsResync(hub, cursor) ==
    \/ cursor > hub.sequence
    \/ Available(hub) = {} /\ cursor # hub.sequence
    \/ cursor < hub.sequence /\ cursor \notin Available(hub) /\ cursor # 0

(* frames_for; the cursor is at the hub's sequence number afterwards. *)
FramesFor(hub, cursor) ==
    IF cursor = None THEN <<>>
    ELSE IF NeedsResync(hub, cursor) THEN <<Frame("resync_required", hub.sequence)>>
    ELSE Replay(hub, cursor)
=============================================================================
