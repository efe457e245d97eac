# TLA+ models of the ipush test clients

This directory holds TLA+ models of the push-protocol client engine in
`src/tools/`, the TLC configurations that check them, and `PROJECT.json`, which
maps every model definition to the source lines it translates and lists the runs,
mutants, findings and hazards.

## 1. The system

`src/` contains three Go programs, all of them clients of an ipush server:

| file | what it is |
|---|---|
| `src/tools/push_client/push_client.go` | the load client: N simulated users, one connection each, three goroutines per user, a `/stats` HTTP endpoint |
| `src/tools/golang_perf_test/push_test/push.go` | the scenario tester: two users driven through "case 1..25" (login, push, ack, offline messages, channels, TTL), reconnecting several times |
| `src/tools/golang_perf_test/send_push_client/sendRooter.go` | a bulk HTTP publisher: POST in a loop and count the replies |

### Components, their state and operations

* **Frame codec.** `buildMsg` encodes `hex(len) CRLF payload CRLF`;
  `recvMsgRoutine` decodes: read a line, require CRLF, split on `\r` into two
  parts, `ParseUint(hex)` (a parse error is silently length 0), read exactly that
  many bytes, require a CRLF trailer. No state beyond the `bufio.Reader`'s buffer.
* **Handshake verifier.** `sendLoginMsg` writes `GET /connect?uid=..`;
  `recvLoginRespMsg`/`testrecv` reads lines in pairs until the second line of a
  pair is a bare CRLF, then accepts iff the *first* line read contains
  `HTTP/1.1 200 OK`. State: the first line, the "saw CRLF" flag.
* **Sequence tracker.** `handleMsg`: unmarshal, compare `msg.Seq` with
  `client.Seq` (`>=` -> `ErrMsgId`, `+1` -> `SuccMsgId`, else `WarnMsgId`), then
  `client.Seq = msg.Seq`, `MsgId++`.
* **Connection session (push_client).** Per user a `ClientInfo` (counters, `Seq`,
  `Status`, `BreakLoop`, `Conn`) and three unbuffered channels `SendCh`, `RecvCh`,
  `ExitCh`, shared by three goroutines:
  * `handleClient`: dial, login (success: `LoginStatusId++`, `Status="msg"`,
    start the two routines; failure: `LoginErrId++`, `exit`), then a `select`
    loop over a 100 s `time.After` (send a heartbeat on `SendCh`,
    `SendHeartBeatRecvSuccId++`), `RecvCh` (`handleMsg`, then an ack on `SendCh`
    and `AckSuccId++`, or `JsonErr++`) and `ExitCh` (`BreakLoop=true`, return);
  * `sendMsgRoutine`: take a frame from `SendCh`, `writeMsg` it (partial writes
    resumed, up to five errors retried, `io.EOF` fatal); on failure send on
    `ExitCh` and return; after a write, if `BreakLoop` then `exit` and return;
  * `recvMsgRoutine`: decode a frame; on any error send on `ExitCh` and return;
    if `BreakLoop` then `exit` and return; else send the body on `RecvCh`;
  * `exit`: `BreakLoop=true`, `conn.Close()`, `UnConnectId++`, close all three
    channels (a second close panics the process).
* **Connection session (push.go).** No send goroutine: `recvMsgAndSendAck`
  reads one frame (first the login response if `Status=="login"`), runs
  `handleMsg`, writes an ack built from `client.Seq`. The scenario starts it as
  a goroutine many times on the same connection (`testCase5` five times), so
  several readers, each with its own `bufio.Reader`, share one socket and one
  `ClientInfo`.
* **Client registry and aggregator.** `clientInfoMap` (user -> `*ClientInfo`),
  filled by `main` while already-started `handleClient` goroutines run and read
  it on heartbeat; `statsClientInfo` (single user / dump to file / totals that
  skip clients with `Status=="closed"`), served only after the insertion loop.
* **Scenario driver and bulk publisher.** push.go's `handleClient` runs cases
  1-25 in order, reconnecting (cases 1, 8-10, 12, 18), switching
  `Status` to `"login"` so that the next receive goroutine reads the login
  answer, and making HTTP calls (publish, sub/unsub, offline query);
  `sendRooter.go` only posts and counts.

### Interactions and what is hard

Goroutines of one client interact through unbuffered channels (a send blocks
until the receive) and through unsynchronised shared fields (`BreakLoop`,
`Seq`, `Status`); the socket is shared by a reader and a writer. The hard
behaviours are: teardown (who runs `exit`, who is left blocked), a write failing
while another frame is being handed over, read failures racing acks in flight,
counters updated before the I/O they count, several readers on one socket
(push.go), reading the map while it is written, and the line/frame parsers on
inputs the server may legally send.

### What makes each component correct

* codec: `Decode(Encode(p)) = p`; a stream of frames decodes to the frames sent;
  truncation ends the session, never a hang or a wrong frame;
* handshake: accept iff the response's status line is `200 OK`, whatever its
  header count; never read past the response;
* tracker: each message classified exactly once against its predecessor;
* session: acks leave in the order of the messages with their numbers; counters
  agree with the wire; no panic; every failure leads to `exit` (socket closed,
  disconnect counted, all goroutines gone); nobody blocks for ever;
* registry: no concurrent map write and read; totals equal the sum of the
  clients' counters.

## 2. Plan

In order of importance:

1. **`PushClient`** (done): the three goroutines and `exit` of
   push_client.go, one action per select case, channel hand-off and routine
   step; handshake and codec abstracted to their outcomes.
2. **`Handshake`** (done): `testrecv` over a bounded stream of lines (status line ok
   or not, 0..2 header lines, end of stream): its return when the peer
   closes, and the frames a dropped login reader loses.
3. **`FrameCodec`** (done): `Encode`/`Decode` as RECURSIVE operators over a small
   byte alphabet, hex conversion included; a receive loop over the
   concatenation of encoded frames, possibly truncated; the refinement of
   the abstract channel `FrameChannel`; the parse-error-as-zero edge.
4. **`SessionSpec`** (done) (abstract) and refinement: the session promises "messages
   classified in order, acked in order, at most two frames in flight";
   `PushClient` shown to implement it with `INSTANCE ... WITH`.
5. **`Registry`** (done): `main`'s insertion loop and `statsClientInfo` composed
   with `PushClient` for two clients: the map read/write race, and totals vs.
   counters (closed clients: `Status` is never set to `"closed"` in
   push_client.go); the other `/stats` orders and the `writeStatsToFile`
   goroutine, whose panics end the process.
6. **`PushTest`** (done for cases 2-6): push.go's concurrent `recvMsgAndSendAck` goroutines on one
   connection with separate readers: ack numbers and framing under
   interleaving.
7. **`PushScenario`** (done): push.go's whole `handleClient` script (cases
   1-25, six connections, 18 goroutines), the `Status="login"` branch of
   `recvMsgRoutine`, the deferred `exitTest` and `main`'s wait loop.

Still open:
* the cross-connection stale `Status` write and the two `testrecv` readers on
  one connection (hazards at push.go:931 and :516), reachable in
  `PushScenario` but without a run of their own;
* `writeMsg`'s retry loop in detail (partial writes, up to five errors). It is
  now abstracted to its outcome in `PushClient`;
* two clients of `PushClient` together under `client_safety`'s properties.
  The clients share only the map, which `Registry` covers.

## 3. Modules and runs so far

### `PushClient.tla` (push_client.go, lines 72-512)

State (functions over the constant set `Clients`):

| variable | code |
|---|---|
| `cl[c]` | the `ClientInfo` record: the ten counters, `Seq`, `Status`, `BreakLoop` |
| `hc[c]`, `sr[c]`, `rr[c]` | where `handleClient`, `sendMsgRoutine`, `recvMsgRoutine` are |
| `hbuf`, `sbuf`, `rbuf` | the value each goroutine is sending / holds |
| `connOpen[c]` | the `net.Conn` is dialled and not `Close()`d |
| `chClosed[c]` | `exit` has closed the three channels |
| `wire[c]`, `handled[c]`, `nread[c]` | history: frames written; sequence numbers `handleMsg` accepted; frames read |

Actions: `Dial`, `Login`, `Timeout`, `RecvMsg`, `HandOff`, `Count`, `ExitFromSend`,
`ExitFromRecv` (handleClient), `Write` (sendMsgRoutine + writeMsg + BreakLoop
check + exit), `ReadFrame`, `ReadFail` (recvMsgRoutine). An unbuffered channel
send and its receive are one step (`HandOff`); the counter increment on the
next line is a step of its own (`Count`), so `sendMsgRoutine` may write the
frame before it is counted. The `time.After` case is enabled only while
no other case is ready, because the timer is re-created on each entry to the
`select` and only wins after 100 s of silence. A send on a closed channel, or a
second `exit`, is a panic: the state predicate `Panicked`. Receives from a closed
channel are not modelled: `exit` runs only after `handleClient` has returned,
and when `recvMsgRoutine` runs it `sendMsgRoutine` has already returned (the
`client_safety` run shows `NoPanic`, which depends on this).

Abstractions: the server is the environment. A frame body is a sequence number
from `SeqVals` or `Bad` (fails to unmarshal). A read may fail at any time, and
always once the socket is closed. A write may fail (io.EOF, or more than
five errors), and always fails on a closed socket. The login exchange is one
step with two outcomes (modelled in detail by the planned `Handshake`). The
data race on `BreakLoop` is taken as sequentially consistent: each read sees
the latest write.

Fairness: weak fairness on every `handleClient` step and on `Write`. The Go
scheduler eventually runs a runnable goroutine, and a write returns. Reads get
none, because the server owes the client nothing.

Bounds (`MCPushClient.tla`): one client (clients share nothing but the map,
which is for `Registry`); `SeqVals = {1,2,3}` and `MaxFrames = 4` give a
message in order, a repeat and a gap in one session, and a frame arriving
while an earlier ack is still being written; `MaxHeartbeats = 2` lets two
heartbeats and the acks interleave on `SendCh`. 105,704 distinct states.

| run | cfg | expect | shows |
|---|---|---|---|
| `client_safety` | `MCPushClient.cfg` | pass | `TypeOK`; `NoPanic` (no double `exit`, no send on a closed channel); `AckFollowsHandled` (acks on the wire are a prefix of the accepted messages' numbers, in order); `InFlightAtMostOne` (ack+heartbeat counters are at most one frame ahead of the frames written, and only while `sendMsgRoutine` holds that frame, and at most one behind, and only between the `SendCh` hand-off and the increment); `SessionRefined` (the client implements `SessionSpec`, below) |
| `failure_closes_conn` | `MCPushClient_FailureClosesConn.cfg` | violation | after a read failure the connection is never closed and `UnConnectId` never counts it: `sendMsgRoutine` is left blocked on `SendCh` |
| `handoff_deadlock` | `MCPushClient_HandOffCompletes.cfg` | violation | a write failure while `handleClient` hands over the next ack: both block for ever on each other's channel |

`CHECK_DEADLOCK FALSE` in all of them: a client whose server stays silent
really does block in a read for ever, so a state with no enabled step is a
normal outcome.

Each property of `client_safety` has a mutant in `PROJECT.json`, a plausible
bug that TLC catches:
* `handleMsg` storing the next expected number;
* the ack built before `handleMsg`;
* `handleClient` calling `exit` itself on `ExitCh`;
* `writeMsg` errors ignored;
* `seqId > msg.Seq` for `>=`, which only `SessionRefined` sees.

### `SessionSpec.tla` and the refinement `SessionRefined`

`SessionSpec` is what one session promises, with no goroutines in it. Its
state:
* `phase`: `idle`, then `open` or straight to `closed`; `closed` is final;
* `accepted`: message numbers, in order;
* `counts`: messages per class;
* `queue`: frames waiting to be written, at most `MaxInFlight`;
* `wire`: frames written.

Its actions:
* `Open`;
* `Accept(s)`: classify `s` against the last accepted number, which is 0
  before the first, and queue its ack;
* `Beat`: queue a heartbeat;
* `Emit`: write the oldest frame; the session may end at the same step;
* `Lose`: the oldest frame's write fails;
* `Close`.

`PushClient` maps onto it per client (`Session(c)`):
* `phase` comes from `connOpen`, and from whether `handleClient` has dialled;
* `accepted` is `handled`;
* `counts` are `SuccMsgId`, `WarnMsgId` and `ErrMsgId`;
* `queue` is the frame `sendMsgRoutine` is writing, followed by the one
  `handleClient` is handing over;
* `wire` is `wire`.

The counter increment, the `ExitCh` cases and reads are stuttering steps; the
`SendCh` hand-off moves a frame within `queue`.
`MaxInFlight = 2`. The run `client_safety` checks `SessionRefined` as a
PROPERTY over its 105,704 states.

`SessionRefined` conjoins the instances' Init and puts their next-state
relations inside one `[]`, because TLC cannot quantify over `[][A]_v`. With no
fairness in `SessionSpec`, this is the same formula.

Its mutant, `seqId > msg.Seq` for `>=` in `handleMsg`, counts a repeated
message as a gap. The safety invariants of `client_safety` do not see it; the
refinement does.

### `Handshake.tla` (push_client.go `recvLoginRespMsg`, lines 231-290)

The server's bytes are a sequence of lines, each abstracted to its kind:
status line `Ok` or `Err`, header `Hdr`, the bare `Crlf`, and after it the
pushed frames (`FHead`, `FBody`). Init takes every response with 0..`MaxHeaders`
headers followed by 0..`MaxPushed` frames, cut off anywhere (the server may
stop before its first line or inside the response), and either a closing or
a silent peer.

| variable | code |
|---|---|
| `stream`, `closes` | what the server sends; whether it then closes |
| `arrived` | lines that reached the socket (`Arrive`, the network) |
| `pulled` | lines the `bufio.Reader` took from the socket: a fill takes at least the line asked for and at most everything that arrived |
| `pos` | lines `ReadString` returned |
| `line`, `pc` | the first line kept; the loop position (`prefix`/`after`) or the verdict |

Actions: `ReadPrefix` (the first `ReadString` of the pair, or its EOF error),
`ReadAfter` (the second: a bare CRLF ends with the verdict, anything else
restarts the pair), and `Arrive`. Fairness: weak fairness on the reads (the
goroutine runs when there is a line) and on `Arrive` (TCP delivers what was
sent).

Bounds (`MCHandshake.tla`): `MaxHeaders = 4` gives even and odd header
counts, each twice, which is the case the pairing loop tells apart (with an odd count the
bare CRLF falls in the first slot of a pair and the loop reads past the
response; the spec calls this a known fragility to preserve, so no run
checks that case, and `VerdictOnEvenHeaders` checks the even one);
`MaxPushed = 2` gives two frames right behind the response, more lines than
one fill needs. 7,673 distinct states.

| run | cfg | expect | shows |
|---|---|---|---|
| `handshake_returns` | `MCHandshake.cfg` | pass | `TypeOK`; `VerdictOnEvenHeaders` (a response cut before its bare CRLF is never accepted; with an even number of header lines the loop stops exactly at the response's end, and accepts iff the status is 200 OK); `ReturnsOnClose` (a closing peer always ends the loop) |
| `handshake_loses_frames` | `MCHandshake_NoPushedLineLost.cfg` | violation | a frame the server pushes right after the response is buffered by the login reader, which is then dropped |

Mutants: `line` overwritten by every line read instead of kept from the
first (`VerdictOnEvenHeaders`); the first read's EOF not returned on
(`ReturnsOnClose`: a server that closes before the response ends leaves the
loop waiting); a line read before it has arrived (`TypeOK`).

### `FrameCodec.tla` (push_client.go `buildMsg` lines 381-384, `recvMsgRoutine` lines 447-512)

Bytes are one-character strings. `ToHex` (`FormatInt(n,16)`) is RECURSIVE,
as is `HexValue`. `ParseHex` is `ParseUint(s,16,32)` with its error ignored: an
empty or non-hex header is length 0. `Encode` is `buildMsg`'s framing.

The state is the frames the server sent (`sent`) and the bytes that reach the
client (`stream`, the encoding of `sent` cut at any byte, then EOF). Beside
these are the decoder's `pos`, `phase` (`header`, `body`, `closed`), `need`
(`readLen - bodyLen`), `body` (`buf[:bodyLen]`) and `delivered` (the bodies
sent on `RecvCh`).

Actions:
* `ReadHeader`: `ReadString`, the `Contains("\r\n")` and `Split` checks,
  `ParseUint`.
* `ReadBody`: one `reader.Read`, returning 1..`need` of the available bytes,
  or EOF.
* `ReadTrailer`: the `verify` read and its check.

Every failure is `Close`, the send on `ExitCh` and return. Weak fairness on
`Next`: the goroutine runs while there are bytes or an EOF to read.

Bounds (`MCFrameCodec.tla`): up to two frames. The payloads are every body of
up to two bytes over `x`, CR and LF (bodies containing the delimiters), plus
one 16-byte body, whose length `10` takes two hex digits. 23,363 distinct
states.

| run | cfg | expect | shows |
|---|---|---|---|
The abstract specification `FrameChannel.tla` is what the decoder promises
its caller, with no bytes in it. The server sent `sent`, and the first
`complete` of those payloads arrived whole. `Deliver` hands on the next one;
`Stop` is allowed only once all of them have been handed on. Weak fairness
on its `Next` makes it stop eventually. `ChannelRefined` checks
`FrameChannel!Spec` under the mapping `complete <- Len(CompleteFrames)`,
`closed <- phase = "closed"`; `sent` and `delivered` map to themselves.
`ReadHeader` and `ReadBody` are stuttering steps of the channel.
`ReadTrailer` is a `Deliver`, and the close on EOF is the `Stop`.

| run | cfg | expect | shows |
|---|---|---|---|
| `codec_frames` | `MCFrameCodec.cfg` | pass | `TypeOK`; `ChannelRefined`: however reads split and wherever the stream is cut, the decoder hands on exactly the next payload sent, never a partial or slipped one. It never returns while a frame that arrived whole is unread, and it does return |

Mutants:
* the bytes read so far handed on at an EOF in the body (`ChannelRefined`);
* a read not limited to the owed bytes (`TypeOK`).

The parse-error-as-zero path is modelled but no run reaches it, because a
server that follows the format never writes such a header. A nine-digit header
(the ParseUint range error, a 4 GiB `make`) is beyond TLC's integers. Both are
listed as hazards.

### `Registry.tla` (push_client.go `main` lines 106-145, `statsClientInfo` lines 147-204, `writeStatsToFile` lines 204-229)

`Registry` EXTENDS `PushClient` and adds `main` and the `/stats` handler.
* **main.** `main` walks `ClientOrder`. `InsertBegin`/`InsertEnd` bracket the
  assignment `clientInfoMap[..] = client`: a Go map write is not atomic. At the
  end of `InsertEnd`, `go handleClient` starts the client. A client's
  goroutines (`ClientStep`) run only once it is in `inMap`. The 10 s sleeps are
  timing and are abstracted: any interleaving is allowed.
* **The scan.** After the loop, the handler for the order
  `StatsTotalStatsInfo` is `ScanBegin`, then `ScanVisit(c)` once per key in any
  order, then `ScanEnd`, while the clients keep running.
* **The other orders.** `Answer` is an order answered without a state
  change: an unreadable or unparsable body, `single` (one map lookup, one
  client's fields or "no user"), or a type the switch does not name.
  `OrderTotal` starts a `writeStatsToFile` goroutine (`writers` counts them
  per step). `WriterOpen` is `os.OpenFile`: its error is a `panic` in that
  goroutine, outside `main`'s `recover`, so the process ends (`crashed`).
  `WriterWrite` is the range and the write: with an empty map, `err.Error()`
  on a nil error also panics. Every action is guarded by `~crashed`.

Bounds (`MCRegistry.tla`):
* two clients, so one can run while the other is being inserted;
* one frame of number 1 per client and one heartbeat;
* two orders, so a scan can follow a scan, run beside a writer goroutine, or
  be cut off by the writer's panic.

1,212,487 distinct states, about 20 s. No fairness: these are safety properties.

| run | cfg | expect | shows |
|---|---|---|---|
| `registry_scan` | `MCRegistry.cfg` | pass | `RTypeOK` (the handler's sums, fresh for each range, stay within the clients that exist); the run shows every step of `main`, the handler, the writer goroutines and the clients reachable together |
| `registry_map_race` | `MCRegistry_NoMapReadDuringWrite.cfg` | violation | the first client times out and reads `clientInfoMap` while `main` writes the second client's entry |

Mutant: the sums not zeroed at the start of a range (`RTypeOK`). The totals
themselves mix moments by design (the spec asks only for a best-effort
snapshot), so no property is stated about them.

### `PushTest.tla` (push.go `recvMsgAndSendAck`, `recvMsgRoutine`, `handleMsg`)

This covers cases 2-6 of push.go's `handleClient` on one connection.
`Start(g)` is a `go recvMsgAndSendAck` (case 2, then one per message in
`testCase5`). `Push` is the server pushing the message that `sendUserMsg`
published. `Close` is `conn.Close()` (case 6, or `exit` on a failed case).

The server's bytes are units: `hd(k)`, the header line of frame k, and `bd(k)`,
its body with the trailing CRLF. A goroutine's reader is new, so its first
read is a fill (`Fill`). A fill takes one or more of the units that have
arrived and keeps all but the first in that goroutine's buffer (`buf[g]`). The
body read takes from that buffer (`Buffered`) or fills again.

Decoding fails on anything other than `hd(k)` followed by `bd(k)`:
* a body line taken as a header parses as length 0, and no bare CRLF follows;
* a header taken as a body fails the trailer check.

This is an abstraction: the real body read may take more than one unit
before it fails.

The goroutine then runs these steps:
* `HandleRead` is the first half of `handleMsg` on the shared `ClientInfo`:
  `seqId := client.Seq` and the comparison that picks the counter;
* `HandleStore` is the second half: the counter, `client.Seq = msg.Seq`,
  `MsgId++`. Another goroutine may store between the two, so a message is
  classified against a stale `Seq`, and `Seq` can move back. Each one-line
  increment is taken as atomic;
* `SendAck` is `buildMsg` (the operator of that name: an ack carrying
  `client.Seq` as it is at that point), then the write;
* the goroutine returns.

Fairness: weak fairness on each goroutine's steps. Bounds (`MCPushTest.tla`):
four goroutines and three messages. Two readers can then race for one
frame, one reader can take several, and a third `handleMsg` can run between
another's read of `client.Seq` and its store. 392,309 distinct states.

| run | cfg | expect | shows |
|---|---|---|---|
| `pushtest_close` | `MCPushTest.cfg` | pass | `TypeOK`; `ReadersReturnOnClose` (after `conn.Close()` every started goroutine returns) |
| `pushtest_ack_seq` | `MCPushTest_AckCarriesOwnSeq.cfg` | violation | goroutine 1 handles message 1; goroutine 2 handles message 2 before goroutine 1 builds its ack; both acks carry 2 |

Mutants: `handleMsg`'s store writing the next number (`TypeOK`); the EOF return
dropped from the header read (`ReadersReturnOnClose`).

### `PushScenario.tla` (push.go `handleClient` lines 441-743, `recvMsgRoutine`, `testrecv`, `main`)

`handleClient` is a straight-line script with an early return after every
failed case. The module writes it as `Script`, a sequence of steps in the
code's order (`Cases1To7` ... `Cases20To25`, with `Case5` for `testCase5`'s
loop), and `hpc` walks it. One action per kind of step:

| step | action | code |
|---|---|---|
| `Dial` | `DoDial` | `connectServer`; nil returns |
| `Write(x)` | `DoWrite` | `writeMsg` of the login request; a failure returns, after `exit(conn)` in case 1 |
| `Resp` | `DoResp` | case 1's `recvLoginRespMsg`; a non-200 answer: `exit(conn)`, return |
| `SetStatus(v)` | `DoStatus` | `client.Status = ...` |
| `Go` | `DoGo` | `go recvMsgAndSendAck(conn, client)` |
| `CloseConn` | `DoClose` | `conn.Close()` |
| `Pub(x)` | `DoPub` | `sendUserMsg`: may push a frame on a logged-in conn; a failure returns, after `exit(conn)` in cases 2 and 12 |
| `Check` | `DoCheck` | offline query, sub/unsub, `verifyTtl`: pass or return |
| `End` | `DoEnd` | `client.Status = "closed"`, return |

`Case7` and `VerifyTtl` stand for the helper functions `testCase7` and
`verifyTtl`. `verifyTtl` drops the result of its publish, and by then the
conn is closed, so it is one `Check`.

Every return runs the deferred `exitTest` (`Return`: `Status = "closed"`).
Consecutive HTTP checks with nothing between them are one `Check`: they can
only pass or return.

A goroutine (`gpc[g]`, `gconn[g]`) reads `Status` at the top of
`recvMsgRoutine` (`Top`). On `"login"` it runs `testrecv` (`Login`) and then
writes `Status = "msg"` (`SetMsg`); otherwise it reads one frame and acks it
(`Frame`). Each connection has a socket of items: `"ok"`/`"err"` for the login
answer, which the server sends after a login write (`Respond`), and `"frame"`
for pushed messages. `MainPoll` is `main`'s loop.

`conn.Close()` (`CloseCur`) also ends the goroutines blocked on that
connection in `top`, `login` or `frame`. Their remaining steps fail a read and
touch nothing shared, so taking them at the close removes only interleavings
nobody can observe. Only a goroutine about to write `Status` outlives its
connection. (`pushtest_close` checks that blocked readers do return on a
close.)

Fairness: weak fairness on the script (HTTP calls return), on each goroutine,
on the server's answer to a login, and on `main`'s poll. The server's answer
is an assumption, not something the code ensures: `testrecv` has no read
deadline (`push.go:810` is commented out), so a silent server blocks
`handleClient` for ever. No property claims that `handleClient` returns;
`MainExits` is checked on the runs where the server does answer. Bound:
`Case5Rounds = 5`, as in the code. The pass run reaches 3,227,365 distinct
states in about a minute.

| run | cfg | expect | shows |
|---|---|---|---|
| `scenario_reconnects` | `MCPushScenario.cfg` | pass | `TypeOK`; `OneConnOpen` (every reconnect closes the previous conn first) |
| `scenario_main_exits` | `MCPushScenario_MainExits.cfg` | violation | case 8 logs in on a new conn; the case 9 check fails and `exitTest` sets `"closed"`; the case 8 goroutine's `testrecv` then gets the answer and sets `"msg"`; `main` never sees `"closed"` again |

Mutants: a nil conn not checked after a dial (`TypeOK`); the `conn.Close()`
steps left out (`OneConnOpen`).

## 4. Findings

* **Read failure leaks the client** (`push_client.go:454`): `recvMsgRoutine`
  reports on `ExitCh` and returns, `handleClient` returns, and `sendMsgRoutine`
  waits on `SendCh` for ever. The socket stays open and the disconnect is never
  counted, although the spec says a fatal condition closes the transport and
  increments disconnect-count.
* **Hand-off deadlock** (`push_client.go:414`): a failed write is reported by a
  blocking send on `ExitCh` while `handleClient` is blocked sending on `SendCh`.
* **Decode error does not end the session** (`push_client.go:353`, read off
  the code): `handleClient` counts `JsonErr` and goes on, although the spec
  closes the session on a payload decode error.
* **Concurrent map read and write** (`push_client.go:339` vs. `:137`): a
  heartbeat timeout reads `clientInfoMap` while `main` is still inserting
  clients. Go aborts the process on this. With the default 10000 clients,
  `main`'s loop sleeps about 100 s, which is as long as the heartbeat timeout.
* **Closed clients never tallied** (`push_client.go:186`, read off the code):
  the total scan filters on `Status == "closed"`, which no code ever sets, so
  finished sessions stay in the sums.
* **Acks carry another message's number** (push.go:767): concurrent
  `recvMsgAndSendAck` goroutines share `client.Seq` between `handleMsg` and
  `buildMsg`.
* **main never exits after a failed case** (push.go:931): a goroutine started
  on a reconnect writes `Status = "msg"` when its `testrecv` succeeds, even
  after `handleClient` has failed a case and its deferred `exitTest` has set
  `"closed"`; `main` waits for `"closed"` for ever.
* **Frames lost after login** (`push_client.go:244`): `recvLoginRespMsg`'s
  `bufio.Reader` may buffer bytes past the response; `recvMsgRoutine` makes a
  new reader on the same connection, and those bytes are gone.

## 5. Not modelled

* The HTTP side channel: the server's answers to publish, sub/unsub and the
  offline query are outside the repository; `PushScenario` takes each call as
  passing or failing, and a publish as possibly pushing a frame.
* `sendRooter.go`: one goroutine posting in a loop and counting the replies in
  a local map; nothing is shared, nothing is concurrent, and there is no
  protocol state (the spec puts it out of scope). Its model would restate
  three counter increments. As written it does not build either: it calls
  `fmt.Println` without importing `fmt`.
* push.go's `statsClientInfo` and `writeStatsToFile`: no handler is ever
  registered for them in push.go (its `main` never calls `http.HandleFunc`),
  so they are dead code.
* `writeStatsToFile`'s error branch (`push_client.go:223`): with an empty
  map it logs `err.Error()` on a nil error and panics. `WriterWrite` models
  it, but only `-n 0` reaches it, and then there are no sessions to check.
* Log output, file dump formatting, flag parsing.
* `Atoi` of the configured port: a configuration error before any state exists.
* The text the `/stats` orders return and the contents of the stats file.
  `Registry` keeps only their control: which order, the writer goroutine,
  and its panics.
* A header of nine or more hex digits: `ParseUint`'s range error yields
  2^32-1 and a 4 GiB `make`. This is beyond TLC's 32-bit integers and needs a
  server that breaks the format.
* `writeMsg`'s internal retries (see the plan); in `PushScenario` a login
  write is written or fails.
