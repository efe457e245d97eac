----------------------------- MODULE PushClient -----------------------------
(***************************************************************************)
(* One simulated client of src/tools/push_client/push_client.go: the three *)
(* goroutines handleClient, sendMsgRoutine and recvMsgRoutine that share a *)
(* ClientInfo, a net.Conn and the unbuffered channels SendCh, RecvCh and   *)
(* ExitCh, and exit() that tears the client down.                          *)
(*                                                                         *)
(* An unbuffered channel is a rendezvous: a send and its receive are one   *)
(* step.  A send on, or a close of, a closed channel panics, and a panic   *)
(* in a goroutine ends the process (main's recover covers main only): the  *)
(* state predicate Panicked says so.  Receives from a closed channel are   *)
(* not modelled: exit() closes the channels only after handleClient has    *)
(* returned and with sendMsgRoutine either returned or the caller.         *)
(* The server is the environment: each frame it sends carries a sequence   *)
(* number of SeqVals or a payload that is not a Msg (Bad); any read or     *)
(* write may fail.                                                         *)
(***************************************************************************)
EXTENDS Naturals, Sequences, SequencesExt

CONSTANTS Clients,        \* user names of the simulated clients
          SeqVals,        \* sequence numbers the server may put in a Msg
          MaxFrames,      \* bound: frames the server sends per connection
          MaxHeartbeats,  \* bound: heartbeat timeouts per client
          Bad,            \* a frame body that json.Unmarshal rejects
          NoData          \* an empty buffer

ASSUME SeqVals \subseteq Nat /\ MaxFrames \in Nat /\ MaxHeartbeats \in Nat

Payloads == SeqVals \cup {Bad}

\* A frame the client writes: built by buildMsg.
Frames == [type : {"ack"}, seq : Nat] \cup [type : {"noop"}]

VARIABLES
  cl,        \* cl[c]: the ClientInfo counters, Seq, Status and BreakLoop
  hc,        \* program counter of handleClient
  sr,        \* program counter of sendMsgRoutine
  rr,        \* program counter of recvMsgRoutine
  hbuf,      \* frame handleClient is sending on SendCh
  sbuf,      \* data sendMsgRoutine received from SendCh
  rbuf,      \* body recvMsgRoutine is sending on RecvCh
  connOpen,  \* the net.Conn is open (dialled and not yet Close()d)
  chClosed,  \* exit() has closed ExitCh, RecvCh and SendCh
  wire,      \* history: frames written to the connection
  handled,   \* history: sequence numbers handleMsg accepted as a Msg
  nread      \* frames read by recvMsgRoutine (bounded by MaxFrames)

vars == <<cl, hc, sr, rr, hbuf, sbuf, rbuf, connOpen, chClosed,
          wire, handled, nread>>

Counter == {"MsgId", "ErrMsgId", "SuccMsgId", "WarnMsgId", "LoginStatusId",
            "UnConnectId", "SendHeartBeatRecvSuccId", "AckSuccId",
            "LoginErrId", "JsonErr"}

NewClient == [k \in Counter \cup {"Status", "Seq", "BreakLoop"} |->
                CASE k = "Status"    -> ""
                  [] k = "BreakLoop" -> FALSE
                  [] OTHER           -> 0]

-----------------------------------------------------------------------------
(* Helpers, one per function of the source.                                *)

\* Mutant of handleMsg: stores the next expected number instead of msg.Seq.
handleMsgNextSeq(info, s) ==
  LET k == IF info.Seq >= s THEN "ErrMsgId"
           ELSE IF s - info.Seq = 1 THEN "SuccMsgId"
           ELSE "WarnMsgId"
  IN [info EXCEPT ![k] = @ + 1, !.Seq = s + 1, !.MsgId = @ + 1]

\* Mutant of handleMsg: a repeated number is not counted as an error.
handleMsgStrictErr(info, s) ==
  LET k == IF info.Seq > s THEN "ErrMsgId"
           ELSE IF s - info.Seq = 1 THEN "SuccMsgId"
           ELSE "WarnMsgId"
  IN [info EXCEPT ![k] = @ + 1, !.Seq = s, !.MsgId = @ + 1]

\* handleMsg on a body that unmarshals: classify against Seq, then store it.
handleMsg(info, s) ==
  LET k == IF info.Seq >= s THEN "ErrMsgId"
           ELSE IF s - info.Seq = 1 THEN "SuccMsgId"
           ELSE "WarnMsgId"
  IN [info EXCEPT ![k] = @ + 1, !.Seq = s, !.MsgId = @ + 1]

\* buildMsg: an ack carries the client's current Seq, a heartbeat nothing.
buildMsg(type, info) ==
  IF type = "ack" THEN [type |-> "ack", seq |-> info.Seq] ELSE [type |-> "noop"]

\* exit(): BreakLoop, conn.Close(), UnConnectId++, then close(ExitCh),
\* close(RecvCh), close(SendCh); closing an already closed channel panics.
exit(c, info) ==
  /\ cl' = [cl EXCEPT ![c] = [info EXCEPT !.BreakLoop = TRUE,
                                          !.UnConnectId = @ + 1]]
  /\ connOpen' = [connOpen EXCEPT ![c] = FALSE]
  /\ chClosed' = [chClosed EXCEPT ![c] = TRUE]

Set(f, c, v) == [f EXCEPT ![c] = v]

-----------------------------------------------------------------------------
(* handleClient                                                            *)

\* net.DialTCP succeeds or fails; on failure handleClient just returns.
Dial(c) ==
  /\ hc[c] = "dial"
  /\ \/ /\ hc' = Set(hc, c, "login")
        /\ connOpen' = Set(connOpen, c, TRUE)
     \/ /\ hc' = Set(hc, c, "done")
        /\ UNCHANGED connOpen
  /\ UNCHANGED <<cl, sr, rr, hbuf, sbuf, rbuf, chClosed, wire,
                 handled, nread>>

\* sendLoginMsg: on success count the login and start both routines; on
\* failure count it and exit() before any routine runs.
Login(c) ==
  /\ hc[c] = "login"
  /\ \/ /\ cl' = Set(cl, c, [cl[c] EXCEPT !.LoginStatusId = @ + 1,
                                          !.Status = "msg"])
        /\ hc' = Set(hc, c, "loop")
        /\ sr' = Set(sr, c, "wait")
        /\ rr' = Set(rr, c, "read")
        /\ UNCHANGED <<connOpen, chClosed>>
     \/ /\ exit(c, [cl[c] EXCEPT !.LoginErrId = @ + 1])
        /\ hc' = Set(hc, c, "done")
        /\ UNCHANGED <<sr, rr>>
  /\ UNCHANGED <<hbuf, sbuf, rbuf, wire, handled, nread>>

\* select, case time.After: the timer is made anew on each entry to the
\* select, so it fires only while no other case is ready (100 s of silence).
\* The status is not "login", so queue a heartbeat.
Timeout(c) ==
  /\ hc[c] = "loop"
  /\ rr[c] \notin {"deliver", "exit"} /\ sr[c] # "exit"
  /\ cl[c].SendHeartBeatRecvSuccId < MaxHeartbeats
  /\ cl[c].Status # "login"
  /\ hc' = Set(hc, c, "send")
  /\ hbuf' = Set(hbuf, c, buildMsg("noop", cl[c]))
  /\ UNCHANGED <<cl, sr, rr, sbuf, rbuf, connOpen, chClosed, wire,
                 handled, nread>>

\* Mutant of RecvMsg: the ack is built from the ClientInfo before handleMsg.
RecvMsgAckBeforeHandle(c) ==
  /\ hc[c] = "loop"
  /\ rr[c] = "deliver"
  /\ rr' = Set(rr, c, "read")
  /\ LET buf  == rbuf[c]
         info == handleMsg(cl[c], buf)
     IN IF cl[c].Status # "msg"
          THEN /\ hc' = Set(hc, c, "done")
               /\ UNCHANGED <<cl, hbuf, handled>>
        ELSE IF buf \in SeqVals
          THEN /\ cl' = Set(cl, c, info)
               /\ hbuf' = Set(hbuf, c, buildMsg("ack", cl[c]))
               /\ hc' = Set(hc, c, "send")
               /\ handled' = Set(handled, c, Append(handled[c], buf))
          ELSE /\ cl' = Set(cl, c, [cl[c] EXCEPT !.JsonErr = @ + 1])
               /\ UNCHANGED <<hc, hbuf, handled>>
  /\ UNCHANGED <<sr, sbuf, rbuf, connOpen, chClosed, wire, nread>>

\* select, case <-RecvCh: the body recvMsgRoutine sends.  With Status "msg",
\* handleMsg; a Msg is acked with buildMsg, any other body counts a JsonErr.
\* Any other Status makes handleClient return.
RecvMsg(c) ==
  /\ hc[c] = "loop"
  /\ rr[c] = "deliver"
  /\ rr' = Set(rr, c, "read")
  /\ LET buf  == rbuf[c]
         info == handleMsg(cl[c], buf)
     IN IF cl[c].Status # "msg"
          THEN /\ hc' = Set(hc, c, "done")
               /\ UNCHANGED <<cl, hbuf, handled>>
        ELSE IF buf \in SeqVals
          THEN /\ cl' = Set(cl, c, info)
               /\ hbuf' = Set(hbuf, c, buildMsg("ack", info))
               /\ hc' = Set(hc, c, "send")
               /\ handled' = Set(handled, c, Append(handled[c], buf))
          ELSE /\ cl' = Set(cl, c, [cl[c] EXCEPT !.JsonErr = @ + 1])
               /\ UNCHANGED <<hc, hbuf, handled>>
  /\ UNCHANGED <<sr, sbuf, rbuf, connOpen, chClosed, wire, nread>>

\* client.SendCh <- frame: the rendezvous with sendMsgRoutine's receive.
HandOff(c) ==
  /\ hc[c] = "send"
  /\ sr[c] = "wait"
  /\ ~chClosed[c]
  /\ hc' = Set(hc, c, "count")
  /\ sr' = Set(sr, c, "write")
  /\ sbuf' = Set(sbuf, c, hbuf[c])
  /\ UNCHANGED <<cl, rr, hbuf, rbuf, connOpen, chClosed, wire, handled, nread>>

\* The statement after the send: SendHeartBeatRecvSuccId += 1 or
\* AckSuccId += 1.  sendMsgRoutine may already have written the frame.
Count(c) ==
  /\ hc[c] = "count"
  /\ LET k == IF hbuf[c].type = "ack" THEN "AckSuccId"
                                      ELSE "SendHeartBeatRecvSuccId"
     IN cl' = Set(cl, c, [cl[c] EXCEPT ![k] = @ + 1])
  /\ hc' = Set(hc, c, "loop")
  /\ UNCHANGED <<sr, rr, hbuf, sbuf, rbuf, connOpen, chClosed, wire, handled,
                 nread>>

\* Mutant of ExitFromSend: handleClient tears the client down itself.
ExitFromSendCallsExit(c) ==
  /\ hc[c] = "loop"
  /\ sr[c] = "exit"
  /\ ~chClosed[c]
  /\ sr' = Set(sr, c, "done")
  /\ exit(c, cl[c])
  /\ hc' = Set(hc, c, "done")
  /\ UNCHANGED <<rr, hbuf, sbuf, rbuf, wire, handled, nread>>

\* select, case <-ExitCh, sent by a routine that then returns: set BreakLoop
\* and return.  sendMsgRoutine sends it after a failed write.
ExitFromSend(c) ==
  /\ hc[c] = "loop"
  /\ sr[c] = "exit"
  /\ ~chClosed[c]
  /\ sr' = Set(sr, c, "done")
  /\ cl' = Set(cl, c, [cl[c] EXCEPT !.BreakLoop = TRUE])
  /\ hc' = Set(hc, c, "done")
  /\ UNCHANGED <<rr, hbuf, sbuf, rbuf, connOpen, chClosed, wire, handled,
                 nread>>

\* The same case, sent by recvMsgRoutine after a failed read.
ExitFromRecv(c) ==
  /\ hc[c] = "loop"
  /\ rr[c] = "exit"
  /\ ~chClosed[c]
  /\ rr' = Set(rr, c, "done")
  /\ cl' = Set(cl, c, [cl[c] EXCEPT !.BreakLoop = TRUE])
  /\ hc' = Set(hc, c, "done")
  /\ UNCHANGED <<sr, hbuf, sbuf, rbuf, connOpen, chClosed, wire, handled,
                 nread>>

-----------------------------------------------------------------------------
(* sendMsgRoutine and writeMsg                                             *)

\* Mutant of Write: a failed write is ignored and the frame dropped.
WriteIgnoringError(c) ==
  /\ sr[c] = "write"
  /\ \/ /\ connOpen[c]
        /\ wire' = Set(wire, c, Append(wire[c], sbuf[c]))
        /\ IF cl[c].BreakLoop
             THEN /\ exit(c, cl[c])
                  /\ sr' = Set(sr, c, "done")
             ELSE /\ sr' = Set(sr, c, "wait")
                  /\ UNCHANGED <<cl, connOpen, chClosed>>
     \/ /\ sr' = Set(sr, c, "wait")
        /\ UNCHANGED <<cl, connOpen, chClosed, wire>>
  /\ UNCHANGED <<hc, rr, hbuf, sbuf, rbuf, handled, nread>>

\* writeMsg of the frame taken from SendCh, then the BreakLoop check (exit()
\* and return).  On a closed connection, after io.EOF, or on the sixth error
\* (MaxSendMsgErrCount retries) writeMsg fails and the routine sends on
\* ExitCh.
Write(c) ==
  /\ sr[c] = "write"
  /\ \/ /\ connOpen[c]
        /\ wire' = Set(wire, c, Append(wire[c], sbuf[c]))
        /\ IF cl[c].BreakLoop
             THEN /\ exit(c, cl[c])
                  /\ sr' = Set(sr, c, "done")
             ELSE /\ sr' = Set(sr, c, "wait")
                  /\ UNCHANGED <<cl, connOpen, chClosed>>
     \/ /\ sr' = Set(sr, c, "exit")
        /\ UNCHANGED <<cl, connOpen, chClosed, wire>>
  /\ UNCHANGED <<hc, rr, hbuf, sbuf, rbuf, handled, nread>>

-----------------------------------------------------------------------------
(* recvMsgRoutine                                                          *)

\* One well-formed frame: header, body, trailing CRLF.  Then the BreakLoop
\* check: exit() and return, or hand the body to handleClient on RecvCh.
ReadFrame(c) ==
  /\ rr[c] = "read"
  /\ connOpen[c]
  /\ nread[c] < MaxFrames
  /\ nread' = Set(nread, c, nread[c] + 1)
  /\ \E p \in Payloads :
       IF cl[c].BreakLoop
         THEN /\ exit(c, cl[c])
              /\ rr' = Set(rr, c, "done")
              /\ UNCHANGED rbuf
         ELSE /\ rr' = Set(rr, c, "deliver")
              /\ rbuf' = Set(rbuf, c, p)
              /\ UNCHANGED <<cl, connOpen, chClosed>>
  /\ UNCHANGED <<hc, sr, hbuf, sbuf, wire, handled>>

\* io.EOF, a read error (always, once the connection is closed), a header
\* without CRLF or not split in two by "\r", or a bad trailer: the routine
\* sends on ExitCh.
ReadFail(c) ==
  /\ rr[c] = "read"
  /\ rr' = Set(rr, c, "exit")
  /\ UNCHANGED <<cl, hc, sr, hbuf, sbuf, rbuf, connOpen, chClosed, wire,
                 handled, nread>>

-----------------------------------------------------------------------------

Init ==
  /\ cl = [c \in Clients |-> NewClient]
  /\ hc = [c \in Clients |-> "dial"]
  /\ sr = [c \in Clients |-> "idle"]
  /\ rr = [c \in Clients |-> "idle"]
  /\ hbuf = [c \in Clients |-> [type |-> "noop"]]
  /\ sbuf = [c \in Clients |-> [type |-> "noop"]]
  /\ rbuf = [c \in Clients |-> NoData]
  /\ connOpen = [c \in Clients |-> FALSE]
  /\ chClosed = [c \in Clients |-> FALSE]
  /\ wire = [c \in Clients |-> <<>>]
  /\ handled = [c \in Clients |-> <<>>]
  /\ nread = [c \in Clients |-> 0]

HandleClient(c) ==
  \/ Dial(c) \/ Login(c) \/ Timeout(c) \/ RecvMsg(c) \/ HandOff(c) \/ Count(c)
  \/ ExitFromSend(c) \/ ExitFromRecv(c)

Next == \E c \in Clients : HandleClient(c) \/ Write(c) \/ ReadFrame(c) \/ ReadFail(c)

\* The Go scheduler runs every runnable goroutine; the server owes nothing,
\* so a read carries no fairness and a write only that it completes.
Fairness == \A c \in Clients : WF_vars(HandleClient(c)) /\ WF_vars(Write(c))

Spec == Init /\ [][Next]_vars /\ Fairness

-----------------------------------------------------------------------------
(* Properties                                                              *)

TypeOK ==
  /\ \A c \in Clients :
       /\ DOMAIN cl[c] = Counter \cup {"Status", "Seq", "BreakLoop"}
       /\ \A k \in Counter : cl[c][k] \in Nat
       /\ cl[c].Status \in {"", "msg"} /\ cl[c].Seq \in {0} \cup SeqVals
       /\ cl[c].BreakLoop \in BOOLEAN
  /\ hc \in [Clients -> {"dial", "login", "loop", "send", "count", "done"}]
  /\ sr \in [Clients -> {"idle", "wait", "write", "exit", "done"}]
  /\ rr \in [Clients -> {"idle", "read", "deliver", "exit", "done"}]
  /\ hbuf \in [Clients -> Frames] /\ sbuf \in [Clients -> Frames]
  /\ rbuf \in [Clients -> Payloads \cup {NoData}]
  /\ connOpen \in [Clients -> BOOLEAN] /\ chClosed \in [Clients -> BOOLEAN]
  /\ wire \in [Clients -> Seq(Frames)]
  /\ handled \in [Clients -> Seq(SeqVals)]
  /\ nread \in [Clients -> 0..MaxFrames]

\* The process has panicked: exit() ran twice for a client (its second
\* close(ExitCh) panics; UnConnectId counts exit() calls), or a goroutine is
\* blocked sending on a channel exit() has closed.
Panicked ==
  \E c \in Clients :
    \/ cl[c].UnConnectId > 1
    \/ chClosed[c] /\ (rr[c] \in {"deliver", "exit"} \/ sr[c] = "exit"
                                                     \/ hc[c] = "send")

\* No goroutine panics: the BreakLoop handshake between the three routines
\* lets exactly one of them run exit(), and only once nobody can still send.
NoPanic == ~Panicked

AckSeqs(w) == LET acks == SelectSeq(w, LAMBDA f : f.type = "ack")
              IN [i \in 1..Len(acks) |-> acks[i].seq]

\* The acks handleClient sends through sendMsgRoutine reach the connection
\* in the order handleMsg accepted the messages, each carrying the sequence
\* number of the message it acknowledges (buildMsg reads client.Seq).
AckFollowsHandled == \A c \in Clients : IsPrefix(AckSeqs(wire[c]), handled[c])

\* Frames counted as sent (AckSuccId + SendHeartBeatRecvSuccId) less the
\* frames on the connection.
CountedAhead(c) ==
  cl[c].AckSuccId + cl[c].SendHeartBeatRecvSuccId - Len(wire[c])

\* handleClient counts a frame after handing it to sendMsgRoutine, which
\* writes it on its own schedule: the counters run at most one frame ahead
\* of the connection, and then only while sendMsgRoutine holds that frame
\* (writing it, or reporting its failed write), and at most one frame
\* behind, and then only between the hand-off and the count.
InFlightAtMostOne ==
  \A c \in Clients :
    /\ CountedAhead(c) \in {-1, 0, 1}
    /\ CountedAhead(c) = 1 => sr[c] \in {"write", "exit", "done"}
    /\ CountedAhead(c) = -1 => hc[c] = "count"

-----------------------------------------------------------------------------
(* Refinement: each client implements the abstract session.                *)

\* The session's state seen in the goroutines: the connection's phase; the
\* frames in flight, the one sendMsgRoutine is writing before the one
\* handleClient is handing over; the classification counters.
SessionPhase(c) == IF connOpen[c] THEN "open"
                   ELSE IF hc[c] = "dial" THEN "idle" ELSE "closed"
InFlight(c) == (IF sr[c] = "write" THEN <<sbuf[c]>> ELSE <<>>)
               \o (IF hc[c] = "send" THEN <<hbuf[c]>> ELSE <<>>)

Session(c) == INSTANCE SessionSpec
                WITH MaxInFlight <- 2,
                     phase <- SessionPhase(c),
                     accepted <- handled[c],
                     counts <- [succ |-> cl[c].SuccMsgId,
                                warn |-> cl[c].WarnMsgId,
                                err |-> cl[c].ErrMsgId],
                     queue <- InFlight(c),
                     wire <- wire[c]

\* Every client's goroutines together behave as one abstract session: the
\* connection opens once and closes for good, handleMsg classifies each
\* message against the one accepted before it, and the frames handleClient
\* hands to sendMsgRoutine reach the wire in order, each at most once, at
\* most two in flight.
\* (\A c : Session(c)!Spec, with the quantifier moved inside for TLC.)
SessionRefined ==
  /\ \A c \in Clients : Session(c)!Init
  /\ [][\A c \in Clients : [Session(c)!Next]_(Session(c)!vars)]_vars

\* After a read or a write of the connection fails, the client eventually
\* closes it in exit() (spec: a fatal condition closes the transport and
\* counts a disconnect).
FailureClosesConn ==
  \A c \in Clients : (rr[c] = "exit" \/ sr[c] = "exit") ~> ~connOpen[c]

\* A frame handleClient sends on SendCh is eventually taken by
\* sendMsgRoutine: handleClient never blocks forever in a hand-off.
HandOffCompletes == \A c \in Clients : (hc[c] = "send") ~> (hc[c] = "loop")

=============================================================================
