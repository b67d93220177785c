--------------------------- MODULE MCInboxIngest ----------------------------
(* Finite instances of InboxIngest: a log whose events are all different,  *)
(* one in which an event comes again, and one in which it comes again with *)
(* another payload.                                                        *)
EXTENDS InboxIngest

CONSTANTS e1, e2, e3, p1, p2

SomeLogs == {<<<<e1, p1>>, <<e2, p1>>, <<e3, p2>>>>,
             <<<<e1, p1>>, <<e2, p1>>, <<e1, p1>>, <<e3, p1>>>>,
             <<<<e1, p1>>, <<e2, p1>>, <<e1, p2>>, <<e3, p1>>>>}
=============================================================================
