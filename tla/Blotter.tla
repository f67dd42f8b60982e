------------------------------- MODULE Blotter -------------------------------
(***************************************************************************)
(* The client's blotter: what the trader is shown of the orders sent, as    *)
(* the UI thread records intents and the network thread applies execution   *)
(* reports.  sendNewOrder checks the session, writes the order and only      *)
(* then records the intent, so the exchange's reports race with it.         *)
(*                                                                         *)
(* The exchange is reduced to the reports it makes of one order, as the     *)
(* execution publisher words them (its inside is module Partition); reports *)
(* of one order come from one worker and keep their order on the wire.      *)
(* ClOrdIDs are 1..MaxOrders; the core numbers the orders it accepts from 1 *)
(* too, in a space of its own.                                              *)
(*                                                                         *)
(* This client only sends new orders.  Its orders may still be cancelled    *)
(* and replaced: the gateway takes an amendment of any order from any       *)
(* session, reports what became of the order to its owner and refuses the   *)
(* amendment, where it does, to the session that sent it.                   *)
(***************************************************************************)
EXTENDS Integers, Sequences, FiniteSets, SequencesExt

CONSTANTS
  MaxOrders,       \* bound on the orders the trader sends
  Quantity,        \* the size of every order, and the most it is replaced by
  MaxPrice,        \* the prices an order is replaced with are 1..MaxPrice
  MaxConnections,  \* bound on the sessions the client opens
  MaxReplacements  \* bound on the replacements other sessions make

ASSUME BlotterAssumption ==
  /\ MaxOrders \in Nat \ {0} /\ Quantity \in Nat \ {0} /\ MaxPrice \in Nat
  /\ MaxConnections \in Nat \ {0} /\ MaxReplacements \in Nat

VARIABLES
  connection,  \* the client's newest session
  active,      \* whether it is Active
  ui,          \* what the UI thread is doing, and with which order
  sent,        \* how many ClOrdIDs were used
  requests,    \* orders on their way to the exchange
  market,      \* the exchange's view of every order
  coreId,      \* the id the core gave it, 0: none
  trades,      \* trades made so far
  wire,        \* reports on their way to the client
  orders,      \* mOrders: the open rows by ClOrdID
  keys,        \* mSeenExecutionKeys
  history,     \* mHistory
  handled,     \* history: the reports given to processExecution
  late,        \* history: orders whose intent was recorded after their last report
  replacements \* history: the reports of replacements made

blotterVars == <<connection, active, ui, sent, requests, market, coreId, trades, wire,
                 orders, keys, history, handled, late, replacements>>

ClOrdId == 1..MaxOrders

(* A report names an order by the ClOrdID the client chose or, in a         *)
(* rejection, by the core's id.  The text tells the execution ids apart:    *)
(* exec_<core id> for the first three, exec_trade_<trade id>_<side>,        *)
(* exec_reject_<core id>.  The price matters in a replacement only: no      *)
(* other two reports differ in nothing else (0).                            *)
Name == [space : {"client", "core"}, id : Nat]
Row  == [status : {"New", "PartiallyFilled"}, remaining : 0..Quantity]
NoRow == [status |-> "none"]
ExecutionReport ==
  [text : {"NEW", "REPLACED", "CANCELED", "TRADE", "REJECT"}, number : Nat, name : Name,
   status : {"New", "PartiallyFilled", "Filled", "Cancelled", "Rejected"},
   price : 0..MaxPrice, leaves : 0..Quantity]
Idle == [pc |-> "idle", id |-> 0]

BlotterTypeOK ==
  /\ connection \in 0..MaxConnections /\ active \in BOOLEAN
  /\ ui \in [pc : {"idle", "write", "record"}, id : 0..MaxOrders] /\ sent \in 0..MaxOrders
  /\ requests \in Seq(ClOrdId) /\ coreId \in [ClOrdId -> Nat] /\ trades \in Nat
  /\ market \in [ClOrdId -> [status : {"none", "live", "done"}, remaining : 0..Quantity,
                             due : 0..Quantity, session : 0..MaxConnections]]
  /\ wire \in Seq(ExecutionReport)
  /\ orders \in [ClOrdId -> Row \cup {NoRow}]
  /\ keys \subseteq ExecutionReport /\ history \in Seq(ExecutionReport)
  /\ handled \in Seq(ExecutionReport) /\ late \subseteq ClOrdId
  /\ replacements \in Seq(ExecutionReport)

BlotterInit ==
  /\ connection = 0 /\ active = FALSE /\ ui = Idle /\ sent = 0
  /\ requests = << >> /\ wire = << >> /\ trades = 0
  /\ market = [o \in ClOrdId |-> [status |-> "none", remaining |-> Quantity, due |-> 0,
                                  session |-> 0]]
  /\ coreId = [o \in ClOrdId |-> 0]
  /\ orders = [o \in ClOrdId |-> NoRow]
  /\ keys = {} /\ history = << >> /\ handled = << >> /\ late = {} /\ replacements = << >>

exchangeVars == <<requests, market, coreId, trades, replacements>>
modelVars    == <<orders, keys, history, handled, late>>

-----------------------------------------------------------------------------
(* The session.                                                             *)

Connect ==
  /\ ~active /\ connection < MaxConnections
  /\ connection' = connection + 1 /\ active' = TRUE
  /\ UNCHANGED <<ui, sent, exchangeVars, wire, modelVars>>

(* The connection ends on either side: what is on its way is lost.          *)
Disconnect ==
  /\ active /\ active' = FALSE
  /\ requests' = << >> /\ wire' = << >>
  /\ UNCHANGED <<connection, ui, sent, market, coreId, trades, replacements, modelVars>>

-----------------------------------------------------------------------------
(* The UI thread.                                                           *)

(* trySubmitOrder and the first check of sendNewOrder.                      *)
trySubmitOrder ==
  /\ ui.pc = "idle" /\ active /\ sent < MaxOrders
  /\ sent' = sent + 1 /\ ui' = [pc |-> "write", id |-> sent + 1]
  /\ UNCHANGED <<connection, active, exchangeVars, wire, modelVars>>

(* sendMessage checks the state again and drops the message silently if the *)
(* session was lost meanwhile.                                              *)
sendMessage ==
  /\ ui.pc = "write" /\ ui' = [ui EXCEPT !.pc = "record"]
  /\ requests' = IF active THEN Append(requests, ui.id) ELSE requests
  /\ UNCHANGED <<connection, active, sent, market, coreId, trades, replacements, wire,
                 modelVars>>

(* Where the reports of an order are among those the client has handled.    *)
Reported(o) == {i \in DOMAIN handled : handled[i].name = [space |-> "client", id |-> o]}

(* Mutant of recordOrderIntent: only a row a report has made is completed.  *)
MutRecordOrderIntent ==
  /\ ui.pc = "record" /\ ui' = Idle
  /\ orders' = IF orders[ui.id] = NoRow THEN orders
               ELSE [orders EXCEPT ![ui.id] = [status |-> "New", remaining |-> Quantity]]
  /\ late' = IF Reported(ui.id) = {} THEN late ELSE late \cup {ui.id}
  /\ UNCHANGED <<connection, active, sent, exchangeVars, wire, keys, history, handled>>

(* The row is created or overwritten, whatever reports have done to it.     *)
recordOrderIntent ==
  /\ ui.pc = "record" /\ ui' = Idle
  /\ orders' = [orders EXCEPT ![ui.id] = [status |-> "New", remaining |-> Quantity]]
  /\ late' = IF Reported(ui.id) = {} THEN late ELSE late \cup {ui.id}
  /\ UNCHANGED <<connection, active, sent, exchangeVars, wire, keys, history, handled>>

-----------------------------------------------------------------------------
(* The exchange.                                                            *)

(* FixServer::onExecutionReport finds the session of the order, or drops    *)
(* the report.                                                              *)
Publish(o, report) ==
  wire' = IF active /\ market'[o].session = connection THEN Append(wire, report) ELSE wire

Report(text, number, o, status, price, leaves) ==
  [text |-> text, number |-> number, name |-> [space |-> "client", id |-> o],
   status |-> status, price |-> price, leaves |-> leaves]

NextCoreId == Cardinality({o \in ClOrdId : coreId[o] # 0}) + 1

unchangedByExchange == <<connection, active, ui, sent, modelVars>>

(* publishExecution with action NEW.                                        *)
Accept ==
  /\ requests # << >> /\ requests' = Tail(requests)
  /\ LET o == Head(requests) IN
     /\ market' = [market EXCEPT ![o] = [status |-> "live", remaining |-> Quantity,
                                         due |-> 0, session |-> connection]]
     /\ coreId' = [coreId EXCEPT ![o] = NextCoreId]
     /\ Publish(o, Report("NEW", NextCoreId, o, "New", 0, Quantity))
  /\ UNCHANGED <<trades, replacements, unchangedByExchange>>

(* publishRejection: the ClOrdID it reports is the core's id.               *)
Reject ==
  /\ requests # << >> /\ requests' = Tail(requests)
  /\ LET o == Head(requests) IN
     /\ market' = [market EXCEPT ![o] = [status |-> "done", remaining |-> 0,
                                         due |-> 0, session |-> connection]]
     /\ coreId' = [coreId EXCEPT ![o] = NextCoreId]
     /\ Publish(o, [text |-> "REJECT", number |-> NextCoreId, status |-> "Rejected",
                    name |-> [space |-> "core", id |-> NextCoreId], price |-> 0,
                    leaves |-> 0])
  /\ UNCHANGED <<trades, replacements, unchangedByExchange>>

(* The gateway refuses what it cannot convert (a market order: it carries   *)
(* no price) with a reject that is no execution report; the client only     *)
(* logs it.                                                                 *)
Bounce ==
  /\ requests # << >> /\ requests' = Tail(requests)
  /\ market' = [market EXCEPT ![Head(requests)] = [status |-> "done", remaining |-> 0,
                                                   due |-> 0, session |-> connection]]
  /\ UNCHANGED <<coreId, trades, replacements, wire, unchangedByExchange>>

(* Mutant of Match: a trade may exceed what is left of the order.           *)
MutMatch(o, q, k) ==
  /\ market[o].status = "live" /\ market[o].due = 0
  /\ market' = [market EXCEPT ![o].remaining = @ - q, ![o].due = k]
  /\ UNCHANGED <<requests, coreId, trades, replacements, wire, unchangedByExchange>>

(* A pass of the matcher, of this order or of one it rests against, takes q *)
(* of it in trades of which k are due to be reported: those of a resting    *)
(* order may be skipped, when the other order was filled and removed by an  *)
(* earlier report of the same pass.                                         *)
Match(o, q, k) ==
  /\ market[o].status = "live" /\ market[o].due = 0 /\ q <= market[o].remaining
  /\ market' = [market EXCEPT ![o].remaining = @ - q, ![o].due = k]
  /\ UNCHANGED <<requests, coreId, trades, replacements, wire, unchangedByExchange>>

(* publishTrade, after the pass: every report shows what the whole pass has *)
(* left of the order, and the one that says it is filled is the last.       *)
Settle(o) ==
  /\ market[o].due > 0 /\ trades' = trades + 1
  /\ LET left == market[o].remaining IN
     /\ market' = [market EXCEPT ![o].due = IF left = 0 THEN 0 ELSE @ - 1,
                                 ![o].status = IF left = 0 THEN "done" ELSE "live"]
     /\ Publish(o, Report("TRADE", trades + 1, o,
                          IF left = 0 THEN "Filled" ELSE "PartiallyFilled", 0, left))
  /\ UNCHANGED <<requests, coreId, replacements, unchangedByExchange>>

(* publishExecution with action CANCELED, under the execution id of NEW; an *)
(* order that is not in the book cannot be cancelled.                       *)
Cancel(o) ==
  /\ market[o].status = "live" /\ market[o].due = 0 /\ market[o].remaining > 0
  /\ market' = [market EXCEPT ![o].status = "done", ![o].remaining = 0]
  /\ Publish(o, Report("CANCELED", coreId[o], o, "Cancelled", 0, market[o].remaining))
  /\ UNCHANGED <<requests, coreId, trades, replacements, unchangedByExchange>>

(* publishExecution with action REPLACED, under that id again and as often  *)
(* as the order is replaced.  One replaced to nothing is removed without a  *)
(* further report.                                                          *)
Modify(o, q, p) ==
  /\ market[o].status = "live" /\ market[o].due = 0
  /\ Len(replacements) < MaxReplacements
  /\ market' = [market EXCEPT ![o].remaining = q,
                              ![o].status = IF q = 0 THEN "done" ELSE "live"]
  /\ LET report == Report("REPLACED", coreId[o], o, "New", p, q)
     IN  Publish(o, report) /\ replacements' = Append(replacements, report)
  /\ UNCHANGED <<requests, coreId, trades, unchangedByExchange>>

-----------------------------------------------------------------------------
(* The network thread.                                                      *)

(* Mutant of executionKey: the execution id and the ClOrdID alone.          *)
MutExecutionKey(report) ==
  <<IF report.text \in {"TRADE", "REJECT"} THEN report.text ELSE "exec",
    report.number, report.name>>

(* Execution id, ClOrdID, status, amounts, price and text.                  *)
executionKey(report) == report

Ends(status) == status \in {"Filled", "Cancelled", "Rejected"}

(* Mutant of Updated: the row keeps the quantity it started with.           *)
MutUpdated(report) == [status |-> report.status, remaining |-> Quantity]

Updated(report) == [status |-> report.status, remaining |-> report.leaves]

(* A report seen before is ignored; any other one makes or updates the row  *)
(* of its ClOrdID, enters the history and, if final, removes the row.  The  *)
(* row a rejection makes under the core's id is gone in the same step.      *)
processExecution ==
  /\ wire # << >> /\ wire' = Tail(wire)
  /\ LET report == Head(wire) IN
     /\ handled' = Append(handled, report)
     /\ late' = IF report.name.space = "core" THEN late ELSE late \ {report.name.id}
     /\ IF executionKey(report) \in keys THEN UNCHANGED <<orders, keys, history>>
        ELSE /\ keys' = keys \cup {executionKey(report)}
             /\ history' = Append(history, report)
             /\ orders' = IF report.name.space = "core" THEN orders
                          ELSE [orders EXCEPT ![report.name.id] =
                                  IF Ends(report.status) THEN NoRow
                                  ELSE Updated(report)]
  /\ UNCHANGED <<connection, active, ui, sent, exchangeVars>>

-----------------------------------------------------------------------------
BlotterNext ==
  \/ Connect \/ Disconnect
  \/ trySubmitOrder \/ sendMessage \/ recordOrderIntent
  \/ Accept \/ Reject \/ Bounce
  \/ \E o \in ClOrdId :
       \/ Settle(o) \/ Cancel(o)
       \/ \E q \in 1..Quantity : \E k \in 0..q : Match(o, q, k)
       \/ \E q \in 0..Quantity, p \in 1..MaxPrice : Modify(o, q, p)
  \/ processExecution

BlotterSpec == BlotterInit /\ [][BlotterNext]_blotterVars

-----------------------------------------------------------------------------
(* The replacements reported more than once, word for word: one order       *)
(* replaced twice with the same price and quantity.                         *)
Repeated == {replacements[i] : i \in {j \in DOMAIN replacements :
               \E k \in DOMAIN replacements : k # j /\ replacements[k] = replacements[j]}}

Modified == {replacements[i].name.id : i \in DOMAIN replacements}

(* The blotter never hides exposure: an order that is live at the exchange   *)
(* has a row as soon as the UI thread has left it, whether the intent or a   *)
(* report came first and whether or not the session that sent it survives,   *)
(* and unless another session replaced it (the row shows what was sent until *)
(* the replacement is handled) it shows at least the remaining quantity.     *)
ExposureNeverHidden ==
  \A o \in ClOrdId :
    market[o].status = "live" /\ ui.id # o =>
      /\ orders[o] # NoRow
      /\ o \notin Modified => orders[o].remaining >= market[o].remaining

(* Deduplication drops nothing but repeated replacements: the exchange       *)
(* reuses one execution id for an order's acceptance, its replacements and   *)
(* its cancellation, and yet, until an order is replaced twice with the same *)
(* price and quantity, every report the client was given is in the history,  *)
(* in order.                                                                 *)
HistoryComplete == Repeated = {} => history = handled

RowOf(report) ==
  IF Ends(report.status) THEN NoRow
  ELSE [status |-> report.status, remaining |-> report.leaves]

(* A row follows its reports: it shows the last report handled, and is gone  *)
(* once that was final - except for an order whose intent was recorded after *)
(* its last report, which shows as new until the next one, and for one whose *)
(* last report is a repeated replacement, which the client may have ignored. *)
RowsFollowReports ==
  \A o \in ClOrdId \ late : \A i \in Reported(o) :
    (\A j \in Reported(o) : j <= i) /\ handled[i] \notin Repeated =>
      orders[o] = RowOf(handled[i])

-----------------------------------------------------------------------------
(* The inductive strengthening.                                             *)

(* The reports the client has handled or will be given.                     *)
OnRecord == keys \cup {wire[i] : i \in DOMAIN wire}

(* An order not yet at the exchange has its intent recorded, or the UI       *)
(* thread is still at it; it waits in requests at most once.                *)
IntentsInv ==
  /\ ui.pc = "idle" => ui = Idle
  /\ ui.pc # "idle" => ui.id = sent /\ sent > 0
  /\ ui.pc = "write" => market[ui.id].status = "none"
  /\ \A i \in DOMAIN requests :
       /\ requests[i] <= sent /\ market[requests[i]].status = "none"
       /\ ui.pc = "write" => requests[i] # ui.id
       /\ \A j \in DOMAIN requests : requests[i] = requests[j] => i = j
  /\ \A o \in ClOrdId :
       /\ o > sent => market[o].status = "none"
       /\ market[o].status = "none" =>
            /\ coreId[o] = 0
            /\ o <= sent /\ ui.id # o => orders[o] = [status |-> "New", remaining |-> Quantity]

(* No two reports but repeated replacements have the same key: an order is  *)
(* accepted once, cancelled once and rejected once, and trades and core ids *)
(* have numbers.  No report of a live order is final, and unless it was     *)
(* replaced each reports at least what remains.                             *)
ReportsInv ==
  /\ keys = {history[i] : i \in DOMAIN history}
  /\ \A i \in DOMAIN wire : wire[i] \in keys => wire[i] \in Repeated
  /\ \A i, j \in DOMAIN wire : wire[i] = wire[j] => i = j \/ wire[i] \in Repeated
  /\ \A i \in DOMAIN replacements : replacements[i].name.id \in ClOrdId
  /\ \A r \in OnRecord :
       /\ r.text = "TRADE" => r.number <= trades
       /\ r.text = "REPLACED" => \E i \in DOMAIN replacements : replacements[i] = r
       /\ r.text = "REJECT" => r.name.space = "core" /\ r.number < NextCoreId
       /\ r.text # "REJECT" =>
            /\ r.name.space = "client" /\ r.name.id \in ClOrdId
            /\ market[r.name.id].status # "none"
            /\ market[r.name.id].status = "live" =>
                 /\ ~Ends(r.status)
                 /\ r.name.id \notin Modified =>
                      r.leaves >= market[r.name.id].remaining

(* Trades are due of live orders only.                                      *)
DueInv == \A o \in ClOrdId : market[o].due > 0 => market[o].status = "live"

BlotterInv ==
  /\ BlotterTypeOK /\ IntentsInv /\ ReportsInv /\ DueInv
  /\ ExposureNeverHidden /\ HistoryComplete /\ RowsFollowReports

-----------------------------------------------------------------------------
(* What the documentation claims and the code does not do.                  *)

(* A row shows the last report handled, a repeated one too: "Late or         *)
(* duplicate ExecutionReports are processed robustly by overriding the       *)
(* row's state" (client_blotter/README.md).                                  *)
DuplicatesOverride ==
  \A o \in ClOrdId \ late : \A i \in Reported(o) :
    (\A j \in Reported(o) : j <= i) => orders[o] = RowOf(handled[i])

(* An order whose rejection the client has handled is no longer open.       *)
RejectedOrdersLeave ==
  \A i \in DOMAIN handled : handled[i].status = "Rejected" =>
    \A o \in ClOrdId \ {ui.id} : coreId[o] = handled[i].number => orders[o] = NoRow
=============================================================================
