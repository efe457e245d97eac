----------------------------- MODULE Handshake ------------------------------
(***************************************************************************)
(* The login-response check of src/tools/push_client/push_client.go,       *)
(* recvLoginRespMsg (push.go's testrecv is the same loop): read lines with *)
(* a fresh bufio.Reader until a line holding CRLF is followed by a bare    *)
(* CRLF line, then accept iff the first line read contains                 *)
(* "HTTP/1.1 200 OK".                                                      *)
(*                                                                         *)
(* The server's bytes are a sequence of lines, each abstracted to its      *)
(* kind: the status line (Ok or Err), a header, the bare CRLF ending the   *)
(* response, then the frames the server pushes after it (a hex header      *)
(* line and a body line, each ending in CRLF).  Lines arrive over time;    *)
(* bufio fills its buffer with whatever has arrived, so it may hold lines  *)
(* past the ones ReadString returned.  The server may stop anywhere, even  *)
(* before its first line or inside the response; after its last line it   *)
(* either closes the connection (EOF) or stays silent (a read blocks).     *)
(***************************************************************************)
EXTENDS Naturals, Sequences, SequencesExt

CONSTANTS MaxHeaders,   \* bound: header lines in the response
          MaxPushed     \* bound: frames the server sends right after it

Ok == "HTTP/1.1 200 OK"   \* a status line containing LoginRespVerify
Err == "HTTP/1.1 500"     \* any other status line
Hdr == "header"           \* a header line, "Name: value\r\n"
Crlf == "\r\n"            \* the bare line ending the response
FHead == "hex"            \* a frame's length line
FBody == "body"           \* a frame's payload and trailing CRLF

Lines == {Ok, Err, Hdr, Crlf, FHead, FBody}

\* Every stream a server may send: a response with 0..MaxHeaders headers,
\* followed by 0..MaxPushed frames.
Responses == { <<s>> \o h \o <<Crlf>> : s \in {Ok, Err},
                                         h \in BoundedSeq({Hdr}, MaxHeaders) }
Pushed == { FlattenSeq([i \in 1..n |-> <<FHead, FBody>>]) : n \in 0..MaxPushed }

VARIABLES
  stream,    \* the lines the server sends, in order
  closes,    \* the server closes the connection after its last line
  arrived,   \* lines of stream that have reached the socket
  pulled,    \* lines the bufio.Reader has taken from the socket
  pos,       \* lines ReadString has returned
  line,      \* the first line read ("" before the first)
  pc         \* "prefix", "after", or the verdict "true" / "false"

vars == <<stream, closes, arrived, pulled, pos, line, pc>>

-----------------------------------------------------------------------------

\* reader.ReadString('\n') returns the next line: from bufio's buffer, or
\* after a fill that takes at least that line and at most all that arrived.
CanRead == pos < arrived
NextLine == stream[pos + 1]
ReadString ==
  /\ pos' = pos + 1
  /\ pulled' \in IF pos < pulled THEN {pulled} ELSE (pos + 1)..arrived

\* ReadString fails with io.EOF: every line consumed and the peer closed.
AtEOF == closes /\ pos = Len(stream) /\ arrived = Len(stream)

\* The server's bytes reach the socket.
Arrive ==
  /\ arrived < Len(stream)
  /\ arrived' = arrived + 1
  /\ UNCHANGED <<stream, closes, pulled, pos, line, pc>>

\* Mutant of ReadPrefix: reads a line before it has reached the socket.
ReadPrefixNoWait ==
  /\ pc = "prefix"
  /\ pos < Len(stream)
  /\ pos' = pos + 1
  /\ pulled' = IF pulled > pos THEN pulled ELSE pos + 1
  /\ line' = IF line = "" THEN NextLine ELSE line
  /\ pc' = "after"
  /\ UNCHANGED <<stream, closes, arrived>>

\* Mutant of ReadPrefix: every line read replaces the one kept.
ReadPrefixKeepsLast ==
  /\ pc = "prefix"
  /\ \/ /\ CanRead
        /\ ReadString
        /\ line' = NextLine
        /\ pc' = "after"
     \/ /\ AtEOF
        /\ pc' = "false"
        /\ UNCHANGED <<pulled, pos, line>>
  /\ UNCHANGED <<stream, closes, arrived>>

\* Mutant of ReadPrefix: an error on the first read is not returned.
ReadPrefixIgnoringEOF ==
  /\ pc = "prefix"
  /\ CanRead
  /\ ReadString
  /\ line' = IF line = "" THEN NextLine ELSE line
  /\ pc' = "after"
  /\ UNCHANGED <<stream, closes, arrived>>

\* linePrefix, err := reader.ReadString('\n'): keep the first line; a line
\* holding CRLF (every line kind here) sets flag and goes on to lineAftfix.
\* An error, EOF or not, returns false.
ReadPrefix ==
  /\ pc = "prefix"
  /\ \/ /\ CanRead
        /\ ReadString
        /\ line' = IF line = "" THEN NextLine ELSE line
        /\ pc' = "after"
     \/ /\ AtEOF
        /\ pc' = "false"
        /\ UNCHANGED <<pulled, pos, line>>
  /\ UNCHANGED <<stream, closes, arrived>>

\* lineAftfix, err := reader.ReadString('\n'): a bare CRLF ends the loop with
\* the verdict on the first line; any other line clears flag and the loop
\* reads a new pair.  An error returns false.
ReadAfter ==
  /\ pc = "after"
  /\ \/ /\ CanRead
        /\ ReadString
        /\ pc' = IF NextLine # Crlf THEN "prefix"
                 ELSE IF line = Ok THEN "true" ELSE "false"
     \/ /\ AtEOF
        /\ pc' = "false"
        /\ UNCHANGED <<pulled, pos>>
  /\ UNCHANGED <<stream, closes, arrived, line>>

Init ==
  \* the lines the server sent before it stopped (SequencesExt's Prefixes)
  /\ stream \in UNION { Prefixes(r \o p) : r \in Responses, p \in Pushed }
  /\ closes \in BOOLEAN
  /\ arrived = 0
  /\ pulled = 0
  /\ pos = 0
  /\ line = ""
  /\ pc = "prefix"

Next == Arrive \/ ReadPrefix \/ ReadAfter

\* The goroutine runs when a line is there to read; TCP delivers what the
\* server sent.
Spec == Init /\ [][Next]_vars /\ WF_vars(ReadPrefix \/ ReadAfter) /\ WF_vars(Arrive)

-----------------------------------------------------------------------------
(* Properties                                                              *)

TypeOK ==
  /\ stream \in Seq(Lines) /\ closes \in BOOLEAN
  /\ arrived \in 0..Len(stream) /\ pulled \in pos..arrived
  /\ line \in Lines \cup {""}
  /\ pc \in {"prefix", "after", "true", "false"}

Done == pc \in {"true", "false"}

\* When the server closes the connection, recvLoginRespMsg returns: it never
\* waits for ever on a finished stream.
ReturnsOnClose == closes => <>Done

\* The server sent its response up to the bare CRLF.
HasResp == \E n \in 1..Len(stream) : stream[n] = Crlf

\* The bare CRLF that ends the response: the line after its headers.
RespLen == CHOOSE n \in 1..Len(stream) : stream[n] = Crlf /\
                                          \A m \in 1..(n - 1) : stream[m] # Crlf

\* recvLoginRespMsg never accepts a response cut off before its bare CRLF;
\* with an even number of header lines (the pairs the loop reads line up
\* with the response) it stops exactly at the response's end, however the
\* lines arrive, and accepts iff the status line is 200 OK.  (An odd count
\* is the documented fragility: the loop reads on.)
VerdictOnEvenHeaders ==
  Done => IF ~HasResp THEN pc = "false"
          ELSE (RespLen - 2) % 2 = 0 => /\ pos = RespLen
                                        /\ (pc = "true") = (stream[1] = Ok)

\* On success the frames the server sent after the response are still to
\* be read by recvMsgRoutine: the discarded bufio.Reader holds none of them.
NoPushedLineLost == pc = "true" => pulled = pos

=============================================================================
