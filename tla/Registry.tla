------------------------------ MODULE Registry ------------------------------
(***************************************************************************)
(* The client registry of src/tools/push_client/push_client.go composed    *)
(* with the clients of PushClient: main inserts each ClientInfo into       *)
(* clientInfoMap and starts its handleClient goroutine, one client after   *)
(* another; only then does it serve /stats, whose "stats" order sums the   *)
(* counters of every client not closed while the clients run on, and whose *)
(* "total" order starts a writeStatsToFile goroutine.  A panic in that     *)
(* goroutine is outside main's recover: the process ends (crashed).        *)
(*                                                                         *)
(* A map assignment is not atomic: main is between the two steps InsertBegin *)
(* and InsertEnd while it writes.  handleClient reads the map on each      *)
(* heartbeat timeout (Timeout).  The range over the map visits every key   *)
(* once, in any order, one client per step.                                *)
(***************************************************************************)
EXTENDS PushClient, FiniteSets

CONSTANTS ClientOrder,   \* the order main creates the clients in (i = 0..n-1)
          MaxOrders       \* bound: /stats orders served

ASSUME ClientOrder \in Seq(Clients) /\ Len(ClientOrder) = Cardinality(Clients)

VARIABLES
  mainPc,    \* "insert", "write" (inside clientInfoMap[..] = client), "serve"
  i,         \* main's loop index, 1-based
  inMap,     \* keys of clientInfoMap, each with its goroutine started
  scanPc,    \* the stats handler: "idle" or "visit" (ranging over the map)
  visited,   \* keys the range has visited
  acc,       \* the handler's sums: userNums, accepted (err+warn+succ), closed
  report,    \* the last totals written back, or [users |-> -1] before one
  orders,     \* orders served
  writers,   \* writeStatsToFile goroutines at each step: [open, write]
  crashed    \* a goroutine panicked: the process has ended

regVars == <<mainPc, i, inMap, scanPc, visited, acc, report, orders, writers,
            crashed>>
allVars == <<vars, regVars>>

\* ErrMsgId + WarnMsgId + SuccMsgId of one client.
Accepted(c) == cl[c].ErrMsgId + cl[c].WarnMsgId + cl[c].SuccMsgId

NoReport == [users |-> -1, accepted |-> 0, closed |-> 0]

-----------------------------------------------------------------------------
(* main                                                                    *)

\* client := &ClientInfo{...}, then the map assignment begins.
InsertBegin ==
  /\ mainPc = "insert"
  /\ mainPc' = "write"
  /\ UNCHANGED <<vars, i, inMap, scanPc, visited, acc, report, orders,
                 writers, crashed>>

\* The assignment ends; go handleClient(i, ...); the loop goes on, or main
\* registers /stats and serves.
InsertEnd ==
  /\ mainPc = "write"
  /\ inMap' = inMap \cup {ClientOrder[i]}
  /\ i' = i + 1
  /\ mainPc' = IF i = Len(ClientOrder) THEN "serve" ELSE "insert"
  /\ UNCHANGED <<vars, scanPc, visited, acc, report, orders,
                 writers, crashed>>

-----------------------------------------------------------------------------
(* statsClientInfo, order StatsTotalStatsInfo                              *)

\* Mutant of ScanBegin: the sums are not zeroed for the new range.
ScanBeginNoReset ==
  /\ mainPc = "serve"
  /\ scanPc = "idle"
  /\ orders < MaxOrders
  /\ scanPc' = "visit"
  /\ visited' = {}
  /\ acc' = [acc EXCEPT !.users = IF @ < 0 THEN 0 ELSE @]
  /\ orders' = orders + 1
  /\ UNCHANGED <<vars, mainPc, i, inMap, report, writers, crashed>>

\* net/http runs each request in its own goroutine.  Two "stats" ranges keep
\* their sums in locals and share nothing, so they are taken one after the
\* other; the other orders may run during a range.
ScanBegin ==
  /\ mainPc = "serve"
  /\ scanPc = "idle"
  /\ orders < MaxOrders
  /\ scanPc' = "visit"
  /\ visited' = {}
  /\ acc' = [users |-> 0, accepted |-> 0, closed |-> 0]
  /\ orders' = orders + 1
  /\ UNCHANGED <<vars, mainPc, i, inMap, report, writers, crashed>>

\* One iteration of the range: count the user; a client with Status
\* "closed" is tallied and skipped, any other has its counters summed.
ScanVisit(c) ==
  /\ scanPc = "visit"
  /\ c \in inMap \ visited
  /\ visited' = visited \cup {c}
  /\ acc' = IF cl[c].Status = "closed"
              THEN [acc EXCEPT !.users = @ + 1, !.closed = @ + 1]
              ELSE [acc EXCEPT !.users = @ + 1, !.accepted = @ + Accepted(c)]
  /\ UNCHANGED <<vars, mainPc, i, inMap, scanPc, report, orders,
                 writers, crashed>>

\* The range is over: the totals are written to the response.
ScanEnd ==
  /\ scanPc = "visit"
  /\ visited = inMap
  /\ report' = acc
  /\ scanPc' = "idle"
  /\ UNCHANGED <<vars, mainPc, i, inMap, visited, acc, orders, writers,
                 crashed>>

-----------------------------------------------------------------------------
(* statsClientInfo, the other orders, and writeStatsToFile                 *)

\* An order answered without touching state: the body cannot be read or
\* unmarshalled ("order is error!"), the type is "single" (the lookup
\* clientInfoMap[msg.UserName] and one client's fields, or "no user"), or
\* the switch names no such type (an empty response).
Answer ==
  /\ mainPc = "serve"
  /\ orders < MaxOrders
  /\ orders' = orders + 1
  /\ UNCHANGED <<vars, mainPc, i, inMap, scanPc, visited, acc, report,
                 writers, crashed>>

\* Order StatsTotalUserInfo: go writeStatsToFile(fileName), then the reply.
OrderTotal ==
  /\ mainPc = "serve"
  /\ orders < MaxOrders
  /\ writers' = [writers EXCEPT !.open = @ + 1]
  /\ orders' = orders + 1
  /\ UNCHANGED <<vars, mainPc, i, inMap, scanPc, visited, acc, report,
                 crashed>>

\* os.OpenFile; on an error, panic(err) in this goroutine ends the process.
WriterOpen ==
  /\ writers.open > 0
  /\ \/ /\ writers' = [writers EXCEPT !.open = @ - 1, !.write = @ + 1]
        /\ UNCHANGED crashed
     \/ /\ crashed' = TRUE
        /\ UNCHANGED writers
  /\ UNCHANGED <<vars, mainPc, i, inMap, scanPc, visited, acc, report,
                 orders>>

\* The range formats every client's counters (text only), then
\* w.WriteString: an empty map leaves the buffer empty, c = 0 with a nil
\* err, and err.Error() panics; otherwise the text is written and flushed,
\* or the failed write is logged, and the goroutine returns.
WriterWrite ==
  /\ writers.write > 0
  /\ IF inMap = {}
       THEN /\ crashed' = TRUE
            /\ UNCHANGED writers
       ELSE /\ writers' = [writers EXCEPT !.write = @ - 1]
            /\ UNCHANGED crashed
  /\ UNCHANGED <<vars, mainPc, i, inMap, scanPc, visited, acc, report,
                 orders>>

-----------------------------------------------------------------------------

\* A client's goroutines run once main has started handleClient.
ClientStep(c) ==
  /\ c \in inMap
  /\ HandleClient(c) \/ Write(c) \/ ReadFrame(c) \/ ReadFail(c)
  /\ UNCHANGED regVars

RInit ==
  /\ Init
  /\ mainPc = IF ClientOrder = <<>> THEN "serve" ELSE "insert"
  /\ i = 1
  /\ inMap = {}
  /\ scanPc = "idle"
  /\ visited = {}
  /\ acc = NoReport
  /\ report = NoReport
  /\ orders = 0
  /\ writers = [open |-> 0, write |-> 0]
  /\ crashed = FALSE

\* Every goroutine of the process stops once one has panicked.
RNext ==
  /\ ~crashed
  /\ \/ InsertBegin \/ InsertEnd
     \/ ScanBegin \/ (\E c \in Clients : ScanVisit(c)) \/ ScanEnd
     \/ Answer \/ OrderTotal \/ WriterOpen \/ WriterWrite
     \/ \E c \in Clients : ClientStep(c)

RSpec == RInit /\ [][RNext]_allVars

-----------------------------------------------------------------------------
(* Properties                                                              *)

RTypeOK ==
  /\ mainPc \in {"insert", "write", "serve"}
  /\ i \in 1..(Len(ClientOrder) + 1)
  /\ inMap \subseteq Clients /\ visited \subseteq inMap
  /\ scanPc \in {"idle", "visit"}
  /\ acc \in [users : -1..Cardinality(Clients), accepted : Nat,
               closed : 0..Cardinality(Clients)]
  /\ report \in [users : -1..Cardinality(Clients), accepted : Nat,
                  closed : 0..Cardinality(Clients)]
  /\ orders \in 0..MaxOrders
  /\ writers \in [{"open", "write"} -> 0..MaxOrders]
  /\ crashed \in BOOLEAN

\* No handleClient reads clientInfoMap while main writes it (spec: the key
\* set is written once at startup and never races with a read; Go aborts
\* the process on a concurrent map read and write).
NoMapReadDuringWrite ==
  [][mainPc = "write" => \A c \in Clients : ~Timeout(c)]_allVars

=============================================================================
