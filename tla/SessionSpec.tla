---------------------------- MODULE SessionSpec -----------------------------
(***************************************************************************)
(* What one push session promises, whatever goroutines implement it: the   *)
(* connection opens at most once and closes for good; each message the     *)
(* client accepts is classified against the one accepted before it (next   *)
(* in line, a gap, or not newer); its ack and the heartbeats join a queue   *)
(* of at most MaxInFlight frames, which reach the connection in order,     *)
(* each written once or lost to a failed write, never reordered or made    *)
(* up.  PushClient implements this (PushClient.tla, SessionRefined).       *)
(***************************************************************************)
EXTENDS Naturals, Sequences

CONSTANTS SeqVals,       \* sequence numbers a message may carry
          MaxInFlight    \* frames queued and not yet written

VARIABLES
  phase,     \* "idle" (not dialled), "open", "closed"
  accepted,  \* the sequence numbers accepted, in order
  counts,    \* messages per class: next in line, gap, not newer
  queue,     \* frames accepted for writing and not yet written
  wire       \* frames written to the connection

vars == <<phase, accepted, counts, queue, wire>>

Classes == {"succ", "warn", "err"}

\* The class of message s after the one numbered prev (0 before the first).
Classify(prev, s) ==
  IF prev >= s THEN "err" ELSE IF s - prev = 1 THEN "succ" ELSE "warn"

Last(seq) == IF seq = <<>> THEN 0 ELSE seq[Len(seq)]

Ack(s) == [type |-> "ack", seq |-> s]
Heartbeat == [type |-> "noop"]

Init ==
  /\ phase = "idle"
  /\ accepted = <<>>
  /\ counts = [k \in Classes |-> 0]
  /\ queue = <<>>
  /\ wire = <<>>

\* The connection is dialled: it opens, or the session is over at once.
Open ==
  /\ phase = "idle"
  /\ phase' \in {"open", "closed"}
  /\ UNCHANGED <<accepted, counts, queue, wire>>

\* A message is accepted, classified, and its ack queued.
Accept(s) ==
  /\ phase = "open"
  /\ Len(queue) < MaxInFlight
  /\ accepted' = Append(accepted, s)
  /\ counts' = [counts EXCEPT ![Classify(Last(accepted), s)] = @ + 1]
  /\ queue' = Append(queue, Ack(s))
  /\ UNCHANGED <<phase, wire>>

\* A heartbeat is queued.
Beat ==
  /\ phase = "open"
  /\ Len(queue) < MaxInFlight
  /\ queue' = Append(queue, Heartbeat)
  /\ UNCHANGED <<phase, accepted, counts, wire>>

\* The oldest queued frame is written; the session may end with it.
Emit ==
  /\ phase = "open"
  /\ queue # <<>>
  /\ wire' = Append(wire, Head(queue))
  /\ queue' = Tail(queue)
  /\ phase' \in {"open", "closed"}
  /\ UNCHANGED <<accepted, counts>>

\* The oldest queued frame is lost to a failed write.
Lose ==
  /\ queue # <<>>
  /\ queue' = Tail(queue)
  /\ UNCHANGED <<phase, accepted, counts, wire>>

Close ==
  /\ phase = "open"
  /\ phase' = "closed"
  /\ UNCHANGED <<accepted, counts, queue, wire>>

Next == Open \/ (\E s \in SeqVals : Accept(s)) \/ Beat \/ Emit \/ Lose \/ Close

Spec == Init /\ [][Next]_vars

=============================================================================
