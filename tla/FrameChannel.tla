---------------------------- MODULE FrameChannel ----------------------------
(***************************************************************************)
(* What the receive side of src/tools/push_client/push_client.go promises  *)
(* its caller, with the bytes left out: the server sends a sequence of     *)
(* payloads, of which the first `complete` reach the client whole before   *)
(* the connection ends.  The client hands them on one at a time, in order, *)
(* and stops only once it has handed on all of them.                       *)
(***************************************************************************)
EXTENDS Naturals, Sequences

CONSTANTS Payloads,   \* the payloads the server may send
          MaxFrames   \* bound: payloads the server sends

VARIABLES
  sent,        \* the payloads the server sent
  complete,    \* how many of them arrived whole
  delivered,   \* the payloads handed on so far
  closed       \* the receiver has stopped

vars == <<sent, complete, delivered, closed>>

Init ==
  /\ sent \in UNION {[1..n -> Payloads] : n \in 0..MaxFrames}
  /\ complete \in 0..Len(sent)
  /\ delivered = <<>>
  /\ closed = FALSE

\* Hand on the next payload that arrived whole.
Deliver ==
  /\ ~closed
  /\ Len(delivered) < complete
  /\ delivered' = Append(delivered, sent[Len(delivered) + 1])
  /\ UNCHANGED <<sent, complete, closed>>

\* Stop, with nothing that arrived whole held back.
Stop ==
  /\ ~closed
  /\ Len(delivered) = complete
  /\ closed' = TRUE
  /\ UNCHANGED <<sent, complete, delivered>>

Next == Deliver \/ Stop

Spec == Init /\ [][Next]_vars /\ WF_vars(Next)

=============================================================================
