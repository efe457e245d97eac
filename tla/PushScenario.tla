---------------------------- MODULE PushScenario ----------------------------
(***************************************************************************)
(* One scripted client of src/tools/golang_perf_test/push_test/push.go:    *)
(* handleClient runs cases 1-25 in order on one ClientInfo, dialling a new *)
(* connection at cases 1, 8, 14 (three times) and 19 and starting          *)
(* recvMsgAndSendAck goroutines on the current one; every failed case      *)
(* returns, and the deferred exitTest sets Status to "closed".  main polls *)
(* Status until the client is closed.                                      *)
(*                                                                         *)
(* Each goroutine reads client.Status once, at the top of recvMsgRoutine:  *)
(* "login" makes it run testrecv on the login response first and then set  *)
(* Status to "msg"; otherwise it reads one frame.  The server's side is    *)
(* what the client observes: a login request is answered "ok" or "err",    *)
(* a published message may be pushed on a logged-in connection, and every  *)
(* HTTP side-channel call may pass or fail.  The bytes are abstracted to   *)
(* items (a response, a frame); bufio and framing are in PushTest and      *)
(* FrameCodec.  time.Sleep orders nothing, and is left out.               *)
(***************************************************************************)
EXTENDS Naturals, Sequences, SequencesExt

CONSTANT Case5Rounds    \* iterations of testCase5's loop (5 in the code)

-----------------------------------------------------------------------------
(* handleClient's script, one step per call that changes state or may fail *)

Dial        == [op |-> "dial"]             \* connectServer; nil: return
Go          == [op |-> "go"]               \* go recvMsgAndSendAck(conn, client)
CloseConnDropped == [op |-> "check"]       \* mutant of CloseConn: the Close is left out
CloseConn   == [op |-> "close"]            \* conn.Close()
Check       == [op |-> "check"]            \* an HTTP call whose failure returns
Resp        == [op |-> "resp"]             \* recvLoginRespMsg; failure: exit
Write(x)    == [op |-> "write", exit |-> x]  \* writeMsg(login); failure: return
Pub(x)      == [op |-> "pub", exit |-> x]  \* sendUserMsg; failure: return
SetStatus(v) == [op |-> "status", v |-> v]
End         == [op |-> "end"]              \* client.Status = MsgTypeClosed

\* testCase5: go recvMsgAndSendAck; sendUserMsg, Case5Rounds times.
Case5 == FlattenSeq([i \in 1..Case5Rounds |-> <<Go, Pub(FALSE)>>])

\* testCase7: sendUserMsg, then getUserOfflineMsg.
Case7 == <<Pub(FALSE), Check>>

\* verifyTtl: a publish whose result is dropped (the conn is closed by then,
\* so nothing is pushed), then the offline query twice; cases 20-24 call it
\* four times and case 25 unsubscribes, all one step.
VerifyTtl == Check

\* Cases 1-7 on the conn testCase1 dials and logs in on.
Cases1To7 ==
     << Dial, Write(TRUE), Resp,                 \* case 1 (testCase1)
        SetStatus("msg"), Go, Pub(TRUE),         \* case 2, exit on failure
        Check >>                                 \* case 3 offline check
  \o Case5 \o << Check,                          \* case 5
        CloseConn >>                             \* case 6
  \o Case7

\* Cases 8-13: a reconnect whose login response recvMsgRoutine reads.
Cases8To13 ==
     << SetStatus("login"), Dial, Go, Write(FALSE), \* case 8
        Check >>                                 \* case 9
  \o Case5 \o << Check,                          \* case 10
        Go, Check,                               \* case 11 (testCase12)
        Pub(TRUE), Check,                        \* case 12, exit on failure
        CloseConn, Pub(FALSE) >>                 \* case 13

\* Cases 14-19: four more reconnects, three of them back to back.
Cases14To19 ==
     << Dial, SetStatus("login"), Go, Write(FALSE), Check, \* case 14
        CloseConn, Dial, SetStatus("login"), Go, Write(FALSE),
        CloseConn, Dial, SetStatus("login"), Go, Write(FALSE),
        Check, Pub(FALSE), Check,                \* cases 15, 16
        Go, Pub(FALSE), Check,                   \* case 17
        CloseConn, Pub(FALSE), Check,            \* case 18
        Dial, SetStatus("login"), Go, Write(FALSE) >> \* case 19

\* Cases 19-25 after the last login, and the end of the script.
Cases20To25 ==
     << Check,                                   \* cases 19, 20
        CloseConn, VerifyTtl, Pub(FALSE), Check, \* cases 20-25
        End >>

\* handleClient, the whole script.
Script == Cases1To7 \o Cases8To13 \o Cases14To19 \o Cases20To25

OpCount(o) == Len(SelectSeq(Script, LAMBDA s : s.op = o))
Conns == 1..OpCount("dial")
Gs    == 1..OpCount("go")

VARIABLES
  hpc,        \* handleClient: index of its next step in Script
  ret,        \* handleClient has returned
  status,     \* client.Status: "", "msg", "login", "closed"
  cur,        \* index of the conn handleClient holds (0: none yet)
  open,       \* open[k]: conn k is not closed
  owed,       \* owed[k]: a login request on k awaits the server's answer
  loggedIn,   \* loggedIn[k]: the server accepted the login on k
  sock,       \* sock[k]: items arrived on k and not yet read
  unconnect,  \* client.UnConnectId
  gpc,        \* gpc[g]: "idle", "top", "login", "setmsg", "frame", "done"
  gconn,      \* gconn[g]: the conn goroutine g was started on
  mainDone    \* main's wait loop has seen the client closed

vars == <<hpc, ret, status, cur, open, owed, loggedIn, sock, unconnect,
          gpc, gconn, mainDone>>

-----------------------------------------------------------------------------
(* handleClient                                                            *)

Step == Script[hpc]
Next1 == hpc' = hpc + 1

\* A failed case returns; the deferred exitTest sets Status to "closed".
Return ==
  /\ ret' = TRUE
  /\ status' = "closed"

\* conn.Close(): the reads of the goroutines on the conn fail, and those not
\* about to write Status return (their remaining steps touch nothing shared,
\* so they are taken here); bytes not yet read are gone.
CloseCur ==
  /\ open' = [open EXCEPT ![cur] = FALSE]
  /\ sock' = [sock EXCEPT ![cur] = <<>>]
  /\ gpc' = [g \in Gs |-> IF gconn[g] = cur /\ gpc[g] \in {"top", "login", "frame"}
                           THEN "done" ELSE gpc[g]]

\* exit(conn, client): BreakLoop (read by nothing in push.go), conn.Close(),
\* UnConnectId++.
ExitConn ==
  /\ CloseCur
  /\ unconnect' = unconnect + 1

\* Mutant of DoDial: a nil conn is not checked and the script goes on.
DoDialNoNilCheck ==
  /\ ~ret /\ Step.op = "dial"
  /\ \/ /\ cur' = cur + 1
        /\ open' = [open EXCEPT ![cur + 1] = TRUE]
     \/ /\ cur' = 0
        /\ UNCHANGED open
  /\ Next1
  /\ UNCHANGED <<ret, status, owed, loggedIn, sock, unconnect, gpc, gconn, mainDone>>

\* connectServer: net.Dial gives a new conn, or nil and the case fails.
DoDial ==
  /\ ~ret /\ Step.op = "dial"
  /\ LET k == cur + 1 IN
       \/ /\ cur' = k
          /\ open' = [open EXCEPT ![k] = TRUE]
          /\ Next1
          /\ UNCHANGED <<ret, status>>
       \/ /\ Return
          /\ UNCHANGED <<hpc, cur, open>>
  /\ UNCHANGED <<owed, loggedIn, sock, unconnect, gpc, gconn, mainDone>>

\* writeMsg of the login request: written, or failed (EOF, or a sixth
\* error) and the case returns, after exit(conn) in testCase1.
DoWrite ==
  /\ ~ret /\ Step.op = "write"
  /\ \/ /\ owed' = [owed EXCEPT ![cur] = TRUE]
        /\ Next1
        /\ UNCHANGED <<ret, status, open, unconnect, sock, gpc>>
     \/ /\ Return
        /\ IF Step.exit THEN ExitConn ELSE UNCHANGED <<open, unconnect, sock, gpc>>
        /\ UNCHANGED <<hpc, owed>>
  /\ UNCHANGED <<cur, loggedIn, gconn, mainDone>>

\* recvLoginRespMsg: testrecv on a fresh reader takes the response; a
\* response other than 200 OK fails testCase1: exit(conn), return.
DoResp ==
  /\ ~ret /\ Step.op = "resp"
  /\ sock[cur] # <<>>
  /\ IF Head(sock[cur]) = "ok"
       THEN /\ sock' = [sock EXCEPT ![cur] = Tail(@)]
            /\ Next1
            /\ UNCHANGED <<ret, status, open, unconnect, gpc>>
       ELSE Return /\ ExitConn /\ UNCHANGED hpc
  /\ UNCHANGED <<cur, owed, loggedIn, gconn, mainDone>>

DoStatus ==
  /\ ~ret /\ Step.op = "status"
  /\ status' = Step.v
  /\ Next1
  /\ UNCHANGED <<ret, cur, open, owed, loggedIn, sock, unconnect, gpc, gconn,
                 mainDone>>

\* go recvMsgAndSendAck(conn, client): the next goroutine, on the current conn.
DoGo ==
  /\ ~ret /\ Step.op = "go"
  /\ LET g == Len(SelectSeq(SubSeq(Script, 1, hpc), LAMBDA s : s.op = "go")) IN /\ gpc' = [gpc EXCEPT ![g] = "top"]
        /\ gconn' = [gconn EXCEPT ![g] = cur]
  /\ Next1
  /\ UNCHANGED <<ret, status, cur, open, owed, loggedIn, sock, unconnect,
                 mainDone>>

DoClose ==
  /\ ~ret /\ Step.op = "close"
  /\ CloseCur
  /\ Next1
  /\ UNCHANGED <<ret, status, cur, owed, loggedIn, unconnect, gconn, mainDone>>

\* sendUserMsg: the server may push the message on the user's logged-in
\* conn; a failed post returns (after exit(conn) in cases 2 and 12).
DoPub ==
  /\ ~ret /\ Step.op = "pub"
  /\ \/ /\ \/ UNCHANGED sock
             \/ /\ open[cur] /\ loggedIn[cur]
                /\ sock' = [sock EXCEPT ![cur] = Append(@, "frame")]
        /\ Next1
        /\ UNCHANGED <<ret, status, open, unconnect, gpc>>
     \/ /\ Return
        /\ IF Step.exit THEN ExitConn ELSE UNCHANGED <<open, unconnect, sock, gpc>>
        /\ UNCHANGED hpc
  /\ UNCHANGED <<cur, owed, loggedIn, gconn, mainDone>>

\* getUserOfflineMsg, optChannelMsg, testCase12, verifyTtl: the expected
\* answer, or the case returns.
DoCheck ==
  /\ ~ret /\ Step.op = "check"
  /\ \/ Next1 /\ UNCHANGED <<ret, status>>
     \/ Return /\ UNCHANGED hpc
  /\ UNCHANGED <<cur, open, owed, loggedIn, sock, unconnect, gpc, gconn,
                 mainDone>>

\* All cases passed: client.Status = MsgTypeClosed, then return.
DoEnd ==
  /\ ~ret /\ Step.op = "end"
  /\ Return
  /\ UNCHANGED <<hpc, cur, open, owed, loggedIn, sock, unconnect, gpc, gconn,
                 mainDone>>

HandleClient == DoDial \/ DoWrite \/ DoResp \/ DoStatus \/ DoGo \/ DoClose
                  \/ DoPub \/ DoCheck \/ DoEnd

-----------------------------------------------------------------------------
(* recvMsgAndSendAck goroutines                                            *)

\* recvMsgRoutine's loop top: client.Status, read once, picks the path.
Top(g) ==
  /\ gpc[g] = "top"
  /\ gpc' = [gpc EXCEPT ![g] = IF status = "login" THEN "login" ELSE "frame"]
  /\ UNCHANGED <<hpc, ret, status, cur, open, owed, loggedIn, sock, unconnect,
                 gconn, mainDone>>

\* testrecv(reader) (a read error, on a closed conn, is in CloseCur; the
\* goroutine returns and handleMsg(nil) fails, no ack).  A 200 OK response
\* returns true; another response false.  A frame is read as a header line
\* and a non-empty line after it, and the loop goes on.
Login(g) ==
  /\ gpc[g] = "login"
  /\ LET k == gconn[g] IN
       /\ sock[k] # <<>>
       /\ sock' = [sock EXCEPT ![k] = Tail(@)]
       /\ gpc' = [gpc EXCEPT ![g] = CASE Head(sock[k]) = "ok"  -> "setmsg"
                                      [] Head(sock[k]) = "err" -> "done"
                                      [] OTHER                 -> "login"]
  /\ UNCHANGED <<hpc, ret, status, cur, open, owed, loggedIn, unconnect,
                 gconn, mainDone>>

\* client.Status = MsgTypeMsg after testrecv succeeds.
SetMsg(g) ==
  /\ gpc[g] = "setmsg"
  /\ status' = "msg"
  /\ gpc' = [gpc EXCEPT ![g] = "frame"]
  /\ UNCHANGED <<hpc, ret, cur, open, owed, loggedIn, sock, unconnect,
                 gconn, mainDone>>

\* One frame, handleMsg, the ack written; a login response read as a frame
\* (its status line parses as length 0 and a header line is no bare CRLF)
\* returns nil.  (A read error is in CloseCur.)
Frame(g) ==
  /\ gpc[g] = "frame"
  /\ LET k == gconn[g] IN
       /\ sock[k] # <<>>
       /\ sock' = [sock EXCEPT ![k] = Tail(@)]
  /\ gpc' = [gpc EXCEPT ![g] = "done"]
  /\ UNCHANGED <<hpc, ret, status, cur, open, owed, loggedIn, unconnect,
                 gconn, mainDone>>

Recv(g) == Top(g) \/ Login(g) \/ SetMsg(g) \/ Frame(g)

-----------------------------------------------------------------------------
(* The server and main                                                     *)

\* The server answers a login request on an open conn.
Respond(k) ==
  /\ owed[k] /\ open[k]
  /\ \E r \in {"ok", "err"} :
       /\ sock' = [sock EXCEPT ![k] = Append(@, r)]
       /\ loggedIn' = [loggedIn EXCEPT ![k] = (r = "ok")]
  /\ owed' = [owed EXCEPT ![k] = FALSE]
  /\ UNCHANGED <<hpc, ret, status, cur, open, unconnect, gpc, gconn, mainDone>>

\* main: for { if client1.Status == MsgTypeClosed && ... { break }; sleep }
MainPoll ==
  /\ ~mainDone
  /\ status = "closed"
  /\ mainDone' = TRUE
  /\ UNCHANGED <<hpc, ret, status, cur, open, owed, loggedIn, sock, unconnect,
                 gpc, gconn>>

Init ==
  /\ hpc = 1
  /\ ret = FALSE
  /\ status = ""
  /\ cur = 0
  /\ open = [k \in Conns |-> FALSE]
  /\ owed = [k \in Conns |-> FALSE]
  /\ loggedIn = [k \in Conns |-> FALSE]
  /\ sock = [k \in Conns |-> <<>>]
  /\ unconnect = 0
  /\ gpc = [g \in Gs |-> "idle"]
  /\ gconn = [g \in Gs |-> 0]
  /\ mainDone = FALSE

Next ==
  \/ HandleClient
  \/ \E g \in Gs : Recv(g)
  \/ \E k \in Conns : Respond(k)
  \/ MainPoll

\* The scheduler runs every runnable goroutine; main's loop polls every two
\* seconds.  The push server is assumed to answer every login: testrecv has
\* no read deadline (SetReadDeadline is commented out), so a silent server
\* blocks handleClient for ever, and MainExits is checked on the runs where
\* it does not.
Spec == /\ Init /\ [][Next]_vars
        /\ WF_vars(HandleClient) /\ WF_vars(MainPoll)
        /\ \A g \in Gs : WF_vars(Recv(g))
        /\ \A k \in Conns : WF_vars(Respond(k))

-----------------------------------------------------------------------------
(* Properties                                                              *)

TypeOK ==
  /\ hpc \in 1..Len(Script) /\ ret \in BOOLEAN
  /\ status \in {"", "msg", "login", "closed"}
  /\ cur \in 0..OpCount("dial") /\ (~ret /\ hpc > 1 => cur \in Conns)
  /\ open \in [Conns -> BOOLEAN] /\ owed \in [Conns -> BOOLEAN]
  /\ loggedIn \in [Conns -> BOOLEAN]
  /\ sock \in [Conns -> Seq({"ok", "err", "frame"})]
  /\ unconnect \in 0..1
  /\ gpc \in [Gs -> {"idle", "top", "login", "setmsg", "frame", "done"}]
  /\ \A g \in Gs : gpc[g] # "idle" => gconn[g] \in Conns

\* The client holds one transport at a time: handleClient closes a conn
\* before it dials the next (spec: the transport is replaced, never shared,
\* across reconnects).
OneConnOpen == \A j, k \in Conns : open[j] /\ open[k] => j = k

\* Every recvMsgAndSendAck goroutine on a closed conn returns, whatever read
\* it is blocked in (testrecv's or the frame's).
ReadersReturnOnClose ==
  \A g \in Gs : (gpc[g] # "idle" /\ ~open[gconn[g]]) ~> gpc[g] = "done"

\* main's wait loop ends: every run of handleClient, passed or failed, leaves
\* client.Status "closed" for main to see (spec: every fatal path leaves the
\* ClientState in a terminal status).
MainExits == <>mainDone

====
