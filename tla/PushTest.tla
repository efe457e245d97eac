------------------------------ MODULE PushTest ------------------------------
(***************************************************************************)
(* The receive side of one scenario client of                              *)
(* src/tools/golang_perf_test/push_test/push.go: handleClient starts a     *)
(* recvMsgAndSendAck goroutine for case 2 and one more per message of      *)
(* testCase5, all on the same net.Conn and the same ClientInfo.  Each      *)
(* makes its own bufio.Reader, decodes one frame, runs handleMsg, builds   *)
(* an ack from client.Seq and writes it.                                   *)
(*                                                                         *)
(* The server's bytes are units: the header line of frame k, hd(k), and    *)
(* its body with the trailing CRLF, bd(k).  A bufio fill takes one or more *)
(* of the units that have arrived and keeps them in that reader's buffer.  *)
(* A unit other than the expected one fails the decode (a body line taken  *)
(* as a header parses as length 0 and no bare CRLF follows; a header taken *)
(* as a body fails the trailer check).                                     *)
(***************************************************************************)
EXTENDS Naturals, Sequences, SequencesExt

CONSTANTS Goroutines,   \* the recvMsgAndSendAck goroutines handleClient starts
          MaxMsgs       \* bound: messages the server pushes on the connection

hd(k) == [part |-> "hd", k |-> k]
bd(k) == [part |-> "bd", k |-> k]
Units == {hd(k) : k \in 1..MaxMsgs} \cup {bd(k) : k \in 1..MaxMsgs}

VARIABLES
  started,    \* goroutines handleClient has started
  pushed,     \* messages the server has pushed
  socket,     \* units arrived and not yet taken by any reader
  open,       \* the conn is not Close()d
  pc,         \* pc[g]: "head", "body", "handle", "store", "ack", "done"
  buf,        \* buf[g]: units in g's bufio.Reader, not yet consumed
  cur,        \* cur[g]: the frame whose header g read (0: not a header)
  kind,       \* kind[g]: the counter g's handleMsg picked from client.Seq
  cl,         \* the shared ClientInfo: Seq and the counters
  handledBy,  \* history: handledBy[g], the frame g's handleMsg accepted, or 0
  wire        \* history: the acks written, [g, seq] in order

vars == <<started, pushed, socket, open, pc, buf, cur, kind, cl, handledBy, wire>>

-----------------------------------------------------------------------------

\* reader.Read / ReadString on an empty buffer: a fill takes the first n
\* units that have arrived; the reader returns the first, keeps the rest.
Fill(g, u) ==
  /\ socket # <<>>
  /\ u = Head(socket)
  /\ \E n \in 1..Len(socket) :
       /\ buf' = [buf EXCEPT ![g] = SubSeq(socket, 2, n)]
       /\ socket' = SubSeq(socket, n + 1, Len(socket))

\* The next unit from the reader's own buffer.
Buffered(g, u) ==
  /\ buf[g] # <<>>
  /\ u = Head(buf[g])
  /\ buf' = [buf EXCEPT ![g] = Tail(@)]
  /\ UNCHANGED socket

\* A read that fails: nothing left to read and the conn is closed.
ReadFails(g) == buf[g] = <<>> /\ socket = <<>> /\ ~open

\* go recvMsgAndSendAck(conn, client)
Start(g) ==
  /\ g \notin started
  /\ open
  /\ started' = started \cup {g}
  /\ pc' = [pc EXCEPT ![g] = "head"]
  /\ UNCHANGED <<pushed, socket, open, buf, cur, kind, cl, handledBy, wire>>

\* sendUserMsg: the server pushes the next message on the connection.
Push ==
  /\ pushed < MaxMsgs
  /\ open
  /\ pushed' = pushed + 1
  /\ socket' = socket \o <<hd(pushed + 1), bd(pushed + 1)>>
  /\ UNCHANGED <<started, open, pc, buf, cur, kind, cl, handledBy, wire>>

\* conn.Close(): case 6, or exit() after a failed case.
Close ==
  /\ open
  /\ open' = FALSE
  /\ UNCHANGED <<started, pushed, socket, pc, buf, cur, kind, cl, handledBy, wire>>

\* Mutant of ReadHeader: a read error does not return.
ReadHeaderNoEOF(g) ==
  /\ pc[g] = "head"
  /\ \E u \in Units :
       /\ Fill(g, u)
       /\ cur' = [cur EXCEPT ![g] = IF u.part = "hd" THEN u.k ELSE 0]
       /\ pc' = [pc EXCEPT ![g] = "body"]
  /\ UNCHANGED <<started, pushed, open, kind, cl, handledBy, wire>>

\* recvMsgRoutine: reader := bufio.NewReader(conn), empty; line, err :=
\* reader.ReadString('\n') and the header checks; an error returns nil, and handleMsg(nil) fails: the goroutine ends.
ReadHeader(g) ==
  /\ pc[g] = "head"
  /\ \/ \E u \in Units :
          /\ Fill(g, u)
          /\ cur' = [cur EXCEPT ![g] = IF u.part = "hd" THEN u.k ELSE 0]
          /\ pc' = [pc EXCEPT ![g] = "body"]
     \/ /\ ReadFails(g)
        /\ pc' = [pc EXCEPT ![g] = "done"]
        /\ UNCHANGED <<buf, socket, cur>>
  /\ UNCHANGED <<started, pushed, open, kind, cl, handledBy, wire>>

\* The body read and the trailer check: only the body of the frame whose
\* header was read decodes; anything else, or a read error, returns nil.
ReadBody(g) ==
  /\ pc[g] = "body"
  /\ \/ \E u \in Units :
          /\ Buffered(g, u) \/ (buf[g] = <<>> /\ Fill(g, u))
          /\ pc' = [pc EXCEPT ![g] = IF cur[g] # 0 /\ u = bd(cur[g])
                                       THEN "handle" ELSE "done"]
     \/ /\ ReadFails(g)
        /\ pc' = [pc EXCEPT ![g] = "done"]
        /\ UNCHANGED <<buf, socket>>
  /\ UNCHANGED <<started, pushed, open, cur, kind, cl, handledBy, wire>>

\* handleMsg, first half: seqId := client.Seq and the comparison that picks
\* the counter.  Other goroutines run handleMsg on the same ClientInfo
\* without a lock, so client.Seq may change before this one stores.
HandleRead(g) ==
  /\ pc[g] = "handle"
  /\ kind' = [kind EXCEPT ![g] =
                IF cl.Seq >= cur[g] THEN "ErrMsgId"
                ELSE IF cur[g] - cl.Seq = 1 THEN "SuccMsgId" ELSE "WarnMsgId"]
  /\ pc' = [pc EXCEPT ![g] = "store"]
  /\ UNCHANGED <<started, pushed, socket, open, buf, cur, cl, handledBy, wire>>

\* Mutant of HandleStore: stores the next expected number.
HandleStoreNextSeq(g) ==
  /\ pc[g] = "store"
  /\ cl' = [cl EXCEPT ![kind[g]] = @ + 1, !.Seq = cur[g] + 1, !.MsgId = @ + 1]
  /\ handledBy' = [handledBy EXCEPT ![g] = cur[g]]
  /\ pc' = [pc EXCEPT ![g] = "ack"]
  /\ UNCHANGED <<started, pushed, socket, open, buf, cur, kind, wire>>

\* handleMsg, second half: the counter picked, client.Seq = msg.Seq,
\* client.MsgId++ (each a one-statement update, taken as atomic).
HandleStore(g) ==
  /\ pc[g] = "store"
  /\ cl' = [cl EXCEPT ![kind[g]] = @ + 1, !.Seq = cur[g], !.MsgId = @ + 1]
  /\ handledBy' = [handledBy EXCEPT ![g] = cur[g]]
  /\ pc' = [pc EXCEPT ![g] = "ack"]
  /\ UNCHANGED <<started, pushed, socket, open, buf, cur, kind, wire>>

\* buildMsg(MsgTypeAck, client): the ack carries client.Seq as it is when
\* built (push.go never builds a heartbeat); tagged with its goroutine.
buildMsg(g) == [g |-> g, seq |-> cl.Seq]

\* buildMsg(MsgTypeAck, client) reads client.Seq now; sendMsgRoutine writes
\* the frame in one conn.Write (net.Conn serialises writers); on success
\* AckSuccId++.  A write on a closed conn fails.
SendAck(g) ==
  /\ pc[g] = "ack"
  /\ IF open
       THEN /\ wire' = Append(wire, buildMsg(g))
            /\ cl' = [cl EXCEPT !.AckSuccId = @ + 1]
       ELSE UNCHANGED <<wire, cl>>
  /\ pc' = [pc EXCEPT ![g] = "done"]
  /\ UNCHANGED <<started, pushed, socket, open, buf, cur, kind, handledBy>>

Init ==
  /\ started = {}
  /\ pushed = 0
  /\ socket = <<>>
  /\ open = TRUE
  /\ pc = [g \in Goroutines |-> "idle"]
  /\ buf = [g \in Goroutines |-> <<>>]
  /\ cur = [g \in Goroutines |-> 0]
  /\ kind = [g \in Goroutines |-> "SuccMsgId"]
  /\ cl = [Seq |-> 0, MsgId |-> 0, ErrMsgId |-> 0, SuccMsgId |-> 0,
           WarnMsgId |-> 0, AckSuccId |-> 0]
  /\ handledBy = [g \in Goroutines |-> 0]
  /\ wire = <<>>

Recv(g) == ReadHeader(g) \/ ReadBody(g) \/ HandleRead(g) \/ HandleStore(g)
           \/ SendAck(g)

Next ==
  \/ Push \/ Close
  \/ \E g \in Goroutines : Start(g) \/ Recv(g)

\* The scheduler runs every runnable goroutine.
Spec == Init /\ [][Next]_vars /\ \A g \in Goroutines : WF_vars(Recv(g))

-----------------------------------------------------------------------------
(* Properties                                                              *)

TypeOK ==
  /\ started \subseteq Goroutines /\ pushed \in 0..MaxMsgs
  /\ socket \in Seq(Units) /\ open \in BOOLEAN
  /\ pc \in [Goroutines -> {"idle", "head", "body", "handle", "store", "ack",
                          "done"}]
  /\ buf \in [Goroutines -> Seq(Units)]
  /\ cur \in [Goroutines -> 0..MaxMsgs]
  /\ kind \in [Goroutines -> {"ErrMsgId", "SuccMsgId", "WarnMsgId"}]
  /\ cl \in [{"Seq", "MsgId", "ErrMsgId", "SuccMsgId", "WarnMsgId",
              "AckSuccId"} -> Nat]
  /\ handledBy \in [Goroutines -> 0..MaxMsgs]
  /\ wire \in Seq([g : Goroutines, seq : 0..MaxMsgs])

\* Once handleClient closes the conn (case 6, or exit() on a failed case),
\* every recvMsgAndSendAck goroutine it started returns: none is left
\* blocked in a read.
ReadersReturnOnClose ==
  ~open ~> \A g \in Goroutines : g \in started => pc[g] = "done"

\* Each ack a goroutine writes carries the number of the message that
\* goroutine's handleMsg accepted (buildMsg reads the shared client.Seq).
AckCarriesOwnSeq == \A i \in 1..Len(wire) : wire[i].seq = handledBy[wire[i].g]

=============================================================================
