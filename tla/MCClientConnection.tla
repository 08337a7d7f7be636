------------------------- MODULE MCClientConnection -------------------------
EXTENDS ClientConnection
CONSTANTS a, b

(* One sends requests without replies and checks them; the other sends
   requests with replies, and collects these and the events. *)
Kinds == [t \in Thread |-> IF t = a THEN {"checked"} ELSE {"reply"}]
Shared == [t \in Thread |->
  IF t = a THEN {"check"}
  ELSE {"wait_reply", "poll_reply", "discard_reply", "wait_event", "poll_event"}]
=============================================================================
