----------------------------- MODULE FrameCodec -----------------------------
(***************************************************************************)
(* The frame format of src/tools/push_client/push_client.go:               *)
(*   hex(len(payload)) CRLF payload CRLF                                   *)
(* Encode is buildMsg's framing; the decoder is recvMsgRoutine's loop, byte *)
(* by byte: ReadString('\n') for the header, the CRLF and split checks,     *)
(* ParseUint(hex) whose error is ignored (length 0), the body read by       *)
(* repeated reader.Read calls that may each return fewer bytes than asked,  *)
(* and the trailer check.  The server sends the frames of `sent`; the       *)
(* connection may close at any byte (cut).                                  *)
(***************************************************************************)
EXTENDS Naturals, Sequences, FiniteSets, SequencesExt

CONSTANTS Payloads,      \* the payloads the server may frame (byte sequences)
          MaxFrames      \* bound: frames the server sends

CR == "\r"
LF == "\n"
HexDigits == <<"0", "1", "2", "3", "4", "5", "6", "7",
               "8", "9", "a", "b", "c", "d", "e", "f">>

-----------------------------------------------------------------------------
(* Conversions                                                             *)

\* strconv.FormatInt(n, 16): lowercase digits, most significant first.
RECURSIVE ToHex(_)
ToHex(n) == IF n < 16 THEN <<HexDigits[n + 1]>>
            ELSE ToHex(n \div 16) \o <<HexDigits[(n % 16) + 1]>>

\* The value of one digit, upper or lower case; -1 for a non-digit.
DigitValue(b) ==
  LET i == IF \E j \in 1..16 : HexDigits[j] = b
             THEN CHOOSE j \in 1..16 : HexDigits[j] = b ELSE 0
      u == <<"A", "B", "C", "D", "E", "F">>
  IN IF i > 0 THEN i - 1
     ELSE IF \E j \in 1..6 : u[j] = b THEN 9 + CHOOSE j \in 1..6 : u[j] = b
     ELSE -1

RECURSIVE HexValue(_, _)
HexValue(s, acc) == IF s = <<>> THEN acc
                    ELSE HexValue(Tail(s), 16 * acc + DigitValue(Head(s)))

\* toReadLen, _ := strconv.ParseUint(s, 16, 32): an empty string or a
\* non-digit is a syntax error, ignored by the caller: length 0.  (A value
\* past 32 bits, the range error whose result is 2^32-1, needs nine digits:
\* beyond both the encoder and TLC's integers.)
ParseHex(s) ==
  IF s # <<>> /\ \A i \in 1..Len(s) : DigitValue(s[i]) >= 0
    THEN HexValue(s, 0) ELSE 0

\* buildMsg: header, CRLF, content, CRLF.
Encode(p) == ToHex(Len(p)) \o <<CR, LF>> \o p \o <<CR, LF>>

EncodeAll(ps) == FlattenSeq([i \in 1..Len(ps) |-> Encode(ps[i])])

-----------------------------------------------------------------------------

VARIABLES
  sent,       \* the payloads the server framed
  stream,     \* the bytes that reach the client before the connection ends
  pos,        \* bytes consumed
  phase,      \* "header", "body" (body, then trailer), or "closed" (returned)
  need,       \* body bytes still to read
  body,       \* body bytes read so far
  delivered   \* bodies handed on (to RecvCh)

vars == <<sent, stream, pos, phase, need, body, delivered>>

Rest == SubSeq(stream, pos + 1, Len(stream))

\* reader.ReadString('\n'): the bytes up to and including the next LF, or
\* <<>> when the stream ends first (io.EOF).
LineEnd == IF \E i \in 1..Len(Rest) : Rest[i] = LF
             THEN CHOOSE i \in 1..Len(Rest) : Rest[i] = LF /\
                    \A j \in 1..(i - 1) : Rest[j] # LF
             ELSE 0
Line == SubSeq(Rest, 1, LineEnd)

Close ==
  /\ phase' = "closed"
  /\ UNCHANGED <<sent, stream, pos, need, body, delivered>>

\* Read the header line: it must hold CRLF and split on "\r" into exactly
\* two parts; its first part is the length.  Any failure ends the routine.
ReadHeader ==
  /\ phase = "header"
  /\ IF /\ LineEnd >= 2
        /\ Line[LineEnd - 1] = CR
        /\ Cardinality({i \in 1..LineEnd : Line[i] = CR}) = 1
       THEN /\ pos' = pos + LineEnd
            /\ need' = ParseHex(SubSeq(Line, 1, LineEnd - 2))
            /\ body' = <<>>
            /\ phase' = "body"
            /\ UNCHANGED <<sent, stream, delivered>>
       ELSE Close

\* Mutant of ReadBody: on EOF the bytes read so far are handed on.
ReadBodyDeliverPartial ==
  /\ phase = "body"
  /\ need > 0
  /\ IF pos < Len(stream)
       THEN \E k \in 1..Min({need, Len(stream) - pos}) :
              /\ body' = body \o SubSeq(stream, pos + 1, pos + k)
              /\ pos' = pos + k
              /\ need' = need - k
              /\ UNCHANGED <<sent, stream, phase, delivered>>
       ELSE /\ delivered' = Append(delivered, body)
            /\ phase' = "closed"
            /\ UNCHANGED <<sent, stream, pos, need, body>>

\* Mutant of ReadBody: the read is not limited to the bytes still owed.
ReadBodyPastLen ==
  /\ phase = "body"
  /\ need > 0
  /\ IF pos < Len(stream)
       THEN \E k \in 1..(Len(stream) - pos) :
              /\ body' = body \o SubSeq(stream, pos + 1, pos + k)
              /\ pos' = pos + k
              /\ need' = need - k
              /\ UNCHANGED <<sent, stream, phase, delivered>>
       ELSE Close

\* for bodyLen < readLen: reader.Read returns 1..need bytes of those
\* available, or io.EOF when none are left.
ReadBody ==
  /\ phase = "body"
  /\ need > 0
  /\ IF pos < Len(stream)
       THEN \E k \in 1..Min({need, Len(stream) - pos}) :
              /\ body' = body \o SubSeq(stream, pos + 1, pos + k)
              /\ pos' = pos + k
              /\ need' = need - k
              /\ UNCHANGED <<sent, stream, phase, delivered>>
       ELSE Close

\* verify, err := reader.ReadString('\n'): it must be exactly CRLF; then the
\* body is handed on and the loop reads the next header.
ReadTrailer ==
  /\ phase = "body"
  /\ need = 0
  /\ IF LineEnd = 2 /\ Line = <<CR, LF>>
       THEN /\ pos' = pos + 2
            /\ delivered' = Append(delivered, body)
            /\ phase' = "header"
            /\ UNCHANGED <<sent, stream, need, body>>
       ELSE Close

Init ==
  /\ sent \in BoundedSeq(Payloads, MaxFrames)
  /\ stream \in { SubSeq(EncodeAll(sent), 1, cut) :
                    cut \in 0..Len(EncodeAll(sent)) }
  /\ pos = 0
  /\ phase = "header"
  /\ need = 0
  /\ body = <<>>
  /\ delivered = <<>>

Next == ReadHeader \/ ReadBody \/ ReadTrailer

\* The goroutine runs while it has bytes to read or an EOF to see.
Spec == Init /\ [][Next]_vars /\ WF_vars(Next)

-----------------------------------------------------------------------------
(* Properties                                                              *)

TypeOK ==
  /\ sent \in Seq(Payloads) /\ stream \in Seq(STRING)
  /\ pos \in 0..Len(stream) /\ need \in Nat /\ body \in Seq(STRING)
  /\ phase \in {"header", "body", "closed"}
  /\ delivered \in Seq(Seq(STRING))

\* The longest prefix of sent whose frames lie wholly in the stream.
CompleteFrames ==
  LET n == CHOOSE k \in 0..Len(sent) :
             /\ Len(EncodeAll(SubSeq(sent, 1, k))) <= Len(stream)
             /\ \/ k = Len(sent)
                \/ Len(EncodeAll(SubSeq(sent, 1, k + 1))) > Len(stream)
  IN SubSeq(sent, 1, n)

\* The decoder as the channel it implements: the frames that arrived whole
\* are the ones it owes.
Channel == INSTANCE FrameChannel
             WITH complete <- Len(CompleteFrames),
                  closed <- (phase = "closed")

\* recvMsgRoutine implements an in-order channel of the payloads the server
\* sent: however reader.Read splits the bytes and wherever the connection is
\* cut, it hands on exactly the next payload, never a partial or slipped
\* one, never returns while a frame that arrived whole is unread, and does
\* return.
ChannelRefined == Channel!Spec

=============================================================================
