------------------------------ MODULE FixServer ------------------------------
(***************************************************************************)
(* The FIX gateway of the exchange: FixServer, its FixSessions, the         *)
(* FixSessionManager and the sequence and client tables behind it.          *)
(*                                                                         *)
(* Threads: the one io_context thread accepts, reads and answers; the       *)
(* partitions' worker threads deliver execution reports and market data     *)
(* increments through the same sessions; the database worker runs the       *)
(* queued table updates.  A sequence                                        *)
(* number is taken under the manager's mutex and the message is written     *)
(* afterwards, so taking and writing are two steps.  Adjacent critical      *)
(* sections of one handler are one step: only the number taken is visible   *)
(* to another thread.                                                       *)
(*                                                                         *)
(* The trading core is reduced to what the gateway sees of it: commands are *)
(* queued, an order is queued, then live, then done, and reports come back  *)
(* on worker threads (the whole of it is module Partition).                 *)
(***************************************************************************)
EXTENDS FixWire

CONSTANTS
  Registered,   \* the SenderCompIDs in the clients table
  Workers,      \* the partitions' worker threads
  MaxTasks,     \* bound: no handler runs with this many tasks queued
  MaxIncrements, \* bound on the number of market data increments ever published
  MaxRestarts   \* bound on how often the gateway is restarted

ASSUME ServerAssumption ==
  /\ Registered \subseteq Clients
  /\ MaxRestarts \in Nat /\ MaxIncrements \in Nat /\ MaxTasks \in Nat \ {0}

VARIABLES
  sessions,     \* mSessions: the registered connections
  sessionId,    \* the session number of each accepted connection, 0: none
  nextSession,  \* mNextSessionId
  compOf,       \* mConnectionToCompId
  state,        \* mSessionStates
  valid,        \* mValidClients
  dbTasks,      \* sequence updates queued for the database worker
  seqRows,      \* the FIX_Sequences table
  io,           \* what the io thread is doing
  sending,      \* per worker: a numbered report it has not written yet
  commands,     \* commands submitted to the core
  orders,       \* what the core knows of each order
  executed,     \* the new orders each connection has had submitted
  subscribed,   \* the connections whose sessions the market data publisher lists
  targets,      \* per worker: the subscribers it has still to send an increment to
  increments,   \* increments published so far
  restarts      \* how often the gateway was restarted

marketVars == <<subscribed, targets, increments>>
coreVars   == <<commands, orders, executed, marketVars>>
tableVars  == <<dbTasks, seqRows>>
serverVars == <<sessions, sessionId, nextSession, compOf, state, valid,
                tableVars, io, sending, coreVars, restarts>>

Seqs == [in : Nat, out : Nat]
SessionState == [known : BOOLEAN, in : Nat, out : Nat, on : BOOLEAN]
Core == [status : {"unknown", "queued", "live", "done"}, session : Nat]
Command == [type : {"NewOrder", "Cancel", "Replace"}, ref : Ref, session : Nat]

SeqTask == [comp : Clients \cup {NoClient}, in : Nat, out : Nat]
IoState == [pc : {"idle", "handle", "write", "cleanup", "close"}, conn : Conn \cup {0},
            buf : Seq(UpMessage), reply : Seq(DownMessage), hangup : BOOLEAN]
Sending == [conn : Conn \cup {0}, message : Seq(DownMessage)]

NoTask  == [comp |-> NoClient, in |-> 0, out |-> 0]   \* loadValidClients
IdleIo  == [pc |-> "idle", conn |-> 0, buf |-> << >>, reply |-> << >>, hangup |-> FALSE]
NoState == [known |-> FALSE, in |-> 0, out |-> 1, on |-> FALSE]
NotSending == [conn |-> 0, message |-> << >>]

ServerTypeOK ==
  /\ sessions \subseteq Conn
  /\ sessionId \in [Conn -> Nat] /\ nextSession \in Nat
  /\ \A j, k \in sessions : sessionId[j] = sessionId[k] => j = k
  /\ compOf \in [Conn -> Clients \cup {NoClient}]
  /\ state \in [Clients -> SessionState]
  /\ valid \subseteq Clients
  /\ dbTasks \in Seq(SeqTask)
  /\ seqRows \in [Clients -> Seqs]
  /\ io \in IoState
  /\ sending \in [Workers -> Sending]
  /\ commands \in Seq(Command) /\ orders \in [Ref -> Core]
  /\ executed \in [Conn -> Seq(Ref)]
  /\ subscribed \subseteq Conn /\ targets \in [Workers -> SUBSET Conn]
  /\ increments \in 0..MaxIncrements
  /\ restarts \in 0..MaxRestarts

(* loadValidClients is queued, nothing else has happened.                   *)
ServerInit ==
  /\ sessions = {} /\ nextSession = 1
  /\ compOf = [k \in Conn |-> NoClient]
  /\ state = [c \in Clients |-> NoState]
  /\ valid = {}
  /\ dbTasks = <<NoTask>>
  /\ io = IdleIo
  /\ sending = [t \in Workers |-> NotSending]
  /\ commands = << >>
  /\ sessionId = [k \in Conn |-> 0]
  /\ seqRows = [c \in Clients |-> [in |-> 0, out |-> 1]]
  /\ orders = [r \in Ref |-> [status |-> "unknown", session |-> 0]]
  /\ executed = [k \in Conn |-> << >>]
  /\ subscribed = {} /\ targets = [t \in Workers |-> {}] /\ increments = 0
  /\ restarts = 0

-----------------------------------------------------------------------------
(* FixSessionManager.                                                       *)

Task(c, st) == [comp |-> c, in |-> st.in, out |-> st.out]

(* What getSequenceNumbers, queued behind every update, will read.          *)
getSequenceNumbers(c) ==
  LET mine == {i \in DOMAIN dbTasks : dbTasks[i].comp = c}
      last == CHOOSE i \in mine : \A j \in mine : j <= i
  IN  IF mine = {} THEN seqRows[c]
      ELSE [in |-> dbTasks[last].in, out |-> dbTasks[last].out]

(* The session state authenticate leaves: kept from the last logon, or read *)
(* from the table.                                                          *)
authenticate(c) ==
  IF state[c].known THEN [state[c] EXCEPT !.on = TRUE]
  ELSE [known |-> TRUE, in |-> getSequenceNumbers(c).in,
        out |-> getSequenceNumbers(c).out, on |-> TRUE]

(* A gap or a repetition leaves the state alone; no caller acts on it.      *)
validateSequence(st, n) == IF n = st.in + 1 THEN [st EXCEPT !.in = n] ELSE st

(* Mutant of useNextOutboundSequence: the number is not consumed.           *)
MutUseNextOutboundSequence(st) == st

(* The state after a number was taken; the number is st.out.                *)
useNextOutboundSequence(st) == [st EXCEPT !.out = @ + 1]

NextNumber(k) == IF compOf[k] = NoClient THEN 1 ELSE state[compOf[k]].out

(* Mutant of Persisted: only a message that takes a number updates the row. *)
MutPersisted(c, old, validated, final) ==
  IF final # validated THEN <<Task(c, final)>> ELSE << >>

(* The updates validateSequence and then useNextOutboundSequence queue.     *)
Persisted(c, old, validated, final) ==
  (IF validated # old THEN <<Task(c, validated)>> ELSE << >>)
    \o (IF final # validated THEN <<Task(c, final)>> ELSE << >>)

-----------------------------------------------------------------------------
(* The io thread.                                                           *)

(* Mutant of Accept: the session number is not advanced.                    *)
MutAccept(k) ==
  /\ io.pc = "idle"
  /\ srvEnd[k] = "pending"
  /\ srvEnd' = [srvEnd EXCEPT ![k] = "open"]
  /\ sessionId' = [sessionId EXCEPT ![k] = nextSession]
  /\ sessions' = sessions \cup {k}
  /\ UNCHANGED <<up, down, cliEnd, broken, nextSession, compOf, state, valid, tableVars, io,
                 sending, coreVars, restarts>>

(* doAccept: the session is registered under the next number and starts     *)
(* reading.                                                                 *)
Accept(k) ==
  /\ io.pc = "idle"
  /\ srvEnd[k] = "pending"
  /\ srvEnd' = [srvEnd EXCEPT ![k] = "open"]
  /\ sessionId' = [sessionId EXCEPT ![k] = nextSession]
  /\ nextSession' = nextSession + 1
  /\ sessions' = sessions \cup {k}
  /\ UNCHANGED <<up, down, cliEnd, broken, compOf, state, valid, tableVars, io,
                 sending, coreVars, restarts>>

(* async_read_some completes with the first n messages.                     *)
Receive(k) ==
  /\ io.pc = "idle"
  /\ k \in sessions /\ srvEnd[k] = "open" /\ k \notin broken
  /\ \E n \in 1..Len(up[k]) :
       /\ io' = [IdleIo EXCEPT !.pc = "handle", !.conn = k, !.buf = SubSeq(up[k], 1, n)]
       /\ up' = [up EXCEPT ![k] = SubSeq(@, n + 1, Len(@))]
  /\ UNCHANGED <<down, cliEnd, srvEnd, broken, sessions, sessionId, nextSession, compOf,
                 state, valid, tableVars, sending, coreVars, restarts>>

(* Mutant of ReadError: the session is closed but stays registered.         *)
MutReadError(k) ==
  /\ io.pc = "idle"
  /\ k \in sessions /\ UpEnded(k) /\ srvEnd[k] # "closed"
  /\ CloseServer(k)
  /\ UNCHANGED <<down, cliEnd, broken, sessions, sessionId, nextSession, compOf, state, valid,
                 tableVars, io, sending, coreVars, restarts>>

(* async_read_some fails: unregisterSession, which ends its subscriptions.  *)
(* What the manager holds about the connection stays.                       *)
ReadError(k) ==
  /\ io.pc = "idle"
  /\ k \in sessions /\ UpEnded(k)
  /\ sessions' = sessions \ {k}
  /\ subscribed' = subscribed \ {k}
  /\ CloseServer(k)
  /\ UNCHANGED <<down, cliEnd, broken, sessionId, nextSession, compOf, state, valid,
                 tableVars, io, sending, commands, orders, executed, targets, increments,
                 restarts>>

(* The io thread is at message m of connection k.                           *)
At(k, m) == io.pc = "handle" /\ io.conn = k /\ m = Head(io.buf)

(* Bound: there is room for another update.                                 *)
Room == Len(dbTasks) < MaxTasks

(* The frame is erased from the buffer; an empty buffer ends the loop.      *)
HandledIo == IF Len(io.buf) = 1 THEN IdleIo
             ELSE [io EXCEPT !.buf = Tail(@), !.pc = "handle", !.reply = << >>, !.hangup = FALSE]

Reply(type, seq, hangup) ==
  io' = [io EXCEPT !.pc = "write", !.hangup = hangup,
                   !.reply = <<[type |-> type, seq |-> seq, ref |-> 0]>>]

(* Mutant of RefuseLogon: the logon is ignored and the socket stays open.   *)
MutRefuseLogon(k, m) ==
  /\ At(k, m) /\ m.type = "Logon" /\ m.comp \notin valid
  /\ io' = HandledIo
  /\ UNCHANGED <<wireVars, sessions, sessionId, nextSession, compOf, state, valid,
                 tableVars, sending, coreVars, restarts>>

(* Logon of a SenderCompID that is not (or not yet) in mValidClients.       *)
RefuseLogon(k, m) ==
  /\ At(k, m) /\ m.type = "Logon" /\ m.comp \notin valid
  /\ Reply("Logout", 1, TRUE)
  /\ UNCHANGED <<wireVars, sessions, sessionId, nextSession, compOf, state, valid,
                 tableVars, sending, coreVars, restarts>>

(* Logon: the number is checked and the result ignored.                     *)
AcceptLogon(k, m) ==
  /\ At(k, m) /\ m.type = "Logon" /\ m.comp \in valid /\ Room
  /\ compOf' = [compOf EXCEPT ![k] = m.comp]
  /\ LET old == authenticate(m.comp)
         checked == validateSequence(old, m.seq)
         final == useNextOutboundSequence(checked)
     IN  /\ state' = [state EXCEPT ![m.comp] = final]
         /\ dbTasks' = dbTasks \o Persisted(m.comp, old, checked, final)
         /\ Reply("Logon", checked.out, FALSE)
  /\ UNCHANGED <<wireVars, sessions, sessionId, nextSession, valid, seqRows, sending,
                 coreVars, restarts>>

(* Logout, from a connection that is logged on or not: the number is taken  *)
(* before the CompID is marked as logged off.                               *)
HandleLogout(k, m) ==
  /\ At(k, m) /\ m.type = "Logout" /\ Room
  /\ Reply("Logout", NextNumber(k), TRUE)
  /\ IF compOf[k] = NoClient
     THEN UNCHANGED <<state, dbTasks>>
     ELSE LET c == compOf[k]
              final == useNextOutboundSequence(state[c])
          IN  /\ state' = [state EXCEPT ![c] = [final EXCEPT !.on = FALSE]]
              /\ dbTasks' = dbTasks \o Persisted(c, state[c], state[c], final)
  /\ UNCHANGED <<wireVars, sessions, sessionId, nextSession, compOf, valid, seqRows,
                 sending, coreVars, restarts>>

LoggedOn(k) == compOf[k] # NoClient /\ state[compOf[k]].on

(* Anything else before the logon closes the socket; the rest of the buffer *)
(* is still handled.                                                        *)
RefuseMessage(k, m) ==
  /\ At(k, m) /\ m.type \notin {"Logon", "Logout"} /\ ~LoggedOn(k)
  /\ CloseServer(k)
  /\ io' = HandledIo
  /\ UNCHANGED <<down, cliEnd, broken, sessions, sessionId, nextSession, compOf, state,
                 valid, tableVars, sending, coreVars, restarts>>

(* The types the io thread answers itself, and with what.                   *)
Answer == [TestRequest |-> "Heartbeat", BadOrder |-> "BusinessReject",
           MarketData |-> "MarketData"]

(* A market data request subscribes and is answered by a snapshot.  (A      *)
(* worker may number an increment between the two: the snapshot then takes  *)
(* the number after it.  Here it takes its own first; on the wire the two   *)
(* numbers come in either order both ways.)                                 *)
HandleAnswered(k, m) ==
  /\ At(k, m) /\ LoggedOn(k) /\ m.type \in DOMAIN Answer /\ Room
  /\ LET c == compOf[k]
         checked == validateSequence(state[c], m.seq)
         final == useNextOutboundSequence(checked)
     IN  /\ state' = [state EXCEPT ![c] = final]
         /\ dbTasks' = dbTasks \o Persisted(c, state[c], checked, final)
         /\ Reply(Answer[m.type], checked.out, FALSE)
  /\ subscribed' = IF m.type = "MarketData" THEN subscribed \cup {k} ELSE subscribed
  /\ UNCHANGED <<wireVars, sessions, sessionId, nextSession, compOf, valid, seqRows,
                 sending, commands, orders, executed, targets, increments, restarts>>

Checked(k, m) ==
  LET c == compOf[k]
      checked == validateSequence(state[c], m.seq)
  IN  /\ state' = [state EXCEPT ![c] = checked]
      /\ dbTasks' = dbTasks \o Persisted(c, state[c], checked, checked)

(* What is not answered: Heartbeat, ResendRequest, SequenceReset and        *)
(* unknown types, and a market data request that ends a subscription.       *)
HandleIgnored(k, m) ==
  /\ At(k, m) /\ LoggedOn(k) /\ m.type \in {"Heartbeat", "Other", "Unsubscribe"} /\ Room
  /\ Checked(k, m)
  /\ io' = HandledIo
  /\ subscribed' = IF m.type = "Unsubscribe" THEN subscribed \ {k} ELSE subscribed
  /\ UNCHANGED <<wireVars, sessions, sessionId, nextSession, compOf, valid, seqRows,
                 sending, commands, orders, executed, targets, increments, restarts>>

(* Mutant of HandleNewOrder: the frame stays in the read buffer.            *)
MutHandleNewOrder(k, m) ==
  /\ At(k, m) /\ LoggedOn(k) /\ m.type = "NewOrder" /\ Room
  /\ Checked(k, m)
  /\ orders' = [orders EXCEPT ![m.ref] = [status |-> "queued", session |-> sessionId[k]]]
  /\ commands' = Append(commands, [type |-> "NewOrder", ref |-> m.ref, session |-> sessionId[k]])
  /\ executed' = [executed EXCEPT ![k] = Append(@, m.ref)]
  /\ UNCHANGED <<wireVars, sessions, sessionId, nextSession, compOf, valid, seqRows, io,
                 sending, marketVars, restarts>>

(* Mutant of HandleNewOrder: the command is never submitted.                *)
MutDropNewOrder(k, m) ==
  /\ At(k, m) /\ LoggedOn(k) /\ m.type = "NewOrder" /\ Room
  /\ Checked(k, m)
  /\ io' = HandledIo
  /\ UNCHANGED <<wireVars, sessions, sessionId, nextSession, compOf, valid, seqRows,
                 sending, coreVars, restarts>>

(* NewOrderSingle: the order carries the session number as its client id.   *)
HandleNewOrder(k, m) ==
  /\ At(k, m) /\ LoggedOn(k) /\ m.type = "NewOrder" /\ Room
  /\ Checked(k, m)
  /\ io' = HandledIo
  /\ orders' = [orders EXCEPT ![m.ref] = [status |-> "queued", session |-> sessionId[k]]]
  /\ commands' = Append(commands, [type |-> "NewOrder", ref |-> m.ref, session |-> sessionId[k]])
  /\ executed' = [executed EXCEPT ![k] = Append(@, m.ref)]
  /\ UNCHANGED <<wireVars, sessions, sessionId, nextSession, compOf, valid, seqRows,
                 sending, marketVars, restarts>>

(* Cancel and replace requests by ClOrdID: only an order the core manages   *)
(* is found; a request for any other is logged and forgotten.               *)
HandleAmend(k, m) ==
  /\ At(k, m) /\ LoggedOn(k) /\ m.type \in {"Cancel", "Replace"} /\ Room
  /\ Checked(k, m)
  /\ io' = HandledIo
  /\ commands' = IF orders[m.ref].status = "live"
                 THEN Append(commands, [type |-> m.type, ref |-> m.ref, session |-> sessionId[k]])
                 ELSE commands
  /\ UNCHANGED <<wireVars, sessions, sessionId, nextSession, compOf, valid, seqRows,
                 sending, orders, executed, marketVars, restarts>>

(* doWrite of the answer; a logout or a refused logon goes on to close.     *)
IoWrite ==
  /\ io.pc = "write"
  /\ WriteDown(io.conn, Head(io.reply))
  /\ io' = IF ~io.hangup THEN HandledIo
           ELSE [io EXCEPT !.pc = IF Head(io.buf).type = "Logout" THEN "cleanup" ELSE "close"]
  /\ UNCHANGED <<up, cliEnd, srvEnd, broken, sessions, sessionId, nextSession, compOf, state,
                 valid, tableVars, sending, coreVars, restarts>>

cleanupConnection ==
  /\ io.pc = "cleanup"
  /\ compOf' = [compOf EXCEPT ![io.conn] = NoClient]
  /\ io' = [io EXCEPT !.pc = "close"]
  /\ UNCHANGED <<wireVars, sessions, sessionId, nextSession, state, valid, tableVars,
                 sending, coreVars, restarts>>

IoClose ==
  /\ io.pc = "close"
  /\ CloseServer(io.conn)
  /\ io' = HandledIo
  /\ UNCHANGED <<down, cliEnd, broken, sessions, sessionId, nextSession, compOf, state,
                 valid, tableVars, sending, coreVars, restarts>>

-----------------------------------------------------------------------------
(* The worker threads.                                                      *)

(* The send functions of FixSession up to the write: the message takes the  *)
(* next number of the session.                                              *)
Send(t, k, type, ref) ==
  /\ sending' = [sending EXCEPT ![t] = [conn |-> k, message |->
                   <<[type |-> type, seq |-> NextNumber(k), ref |-> ref]>>]]
  /\ IF compOf[k] = NoClient THEN UNCHANGED <<state, dbTasks>>
     ELSE LET c == compOf[k]
              final == useNextOutboundSequence(state[c])
          IN  /\ state' = [state EXCEPT ![c] = final]
              /\ dbTasks' = dbTasks \o Persisted(c, state[c], state[c], final)

(* FixServer::onExecutionReport: the session is looked up by number, a      *)
(* report for a session that is gone is dropped.                            *)
onExecutionReport(t, session, ref) ==
  LET found == {k \in sessions : sessionId[k] = session}
  IN  IF found = {} THEN UNCHANGED <<state, dbTasks, sending>>
      ELSE \E k \in found : Send(t, k, "Report", ref)

(* The worker has written its last message and gone through its last list.  *)
Free(t) == sending[t] = NotSending /\ targets[t] = {}

(* The core takes the next command: a new order goes live or is refused, a  *)
(* cancel ends a live order, and each is reported.                          *)
ProcessCommand(t) ==
  /\ Free(t) /\ commands # << >> /\ Room
  /\ LET cmd == Head(commands)
         order == orders[cmd.ref]
     IN  /\ \E s \in CASE cmd.type = "NewOrder" -> {"live", "done"}
                       [] cmd.type = "Cancel"   -> {"done"}
                       [] cmd.type = "Replace"  -> {order.status} :
              orders' = [orders EXCEPT ![cmd.ref].status = s]
         /\ onExecutionReport(t, IF order.status = "done" THEN cmd.session ELSE order.session, cmd.ref)
  /\ commands' = Tail(commands)
  /\ UNCHANGED <<wireVars, sessions, sessionId, nextSession, compOf, valid, seqRows, io,
                 executed, marketVars, restarts>>

(* A live order is filled by somebody else's order.                         *)
MatchOrder(t, ref) ==
  /\ Free(t) /\ orders[ref].status = "live" /\ Room
  /\ orders' = [orders EXCEPT ![ref].status = "done"]
  /\ onExecutionReport(t, orders[ref].session, ref)
  /\ UNCHANGED <<wireVars, sessions, sessionId, nextSession, compOf, valid, seqRows, io,
                 commands, executed, marketVars, restarts>>

(* The book of a partition has changed, by whoever's order: the publisher   *)
(* takes a copy of its list of sessions.                                    *)
publishIncremental(t) ==
  /\ Free(t) /\ subscribed # {} /\ increments < MaxIncrements
  /\ targets' = [targets EXCEPT ![t] = subscribed]
  /\ increments' = increments + 1
  /\ UNCHANGED <<wireVars, sessions, sessionId, nextSession, compOf, state, valid, tableVars,
                 io, sending, commands, orders, executed, subscribed, restarts>>

(* FixServer::onMarketDataIncrementalRefresh for the next session of the    *)
(* copy; one that is gone is skipped, one that has unsubscribed is not.     *)
SendIncrement(t) ==
  /\ sending[t] = NotSending /\ Room
  /\ \E k \in targets[t] :
       /\ targets' = [targets EXCEPT ![t] = @ \ {k}]
       /\ IF k \in sessions THEN Send(t, k, "MarketData", 0)
          ELSE UNCHANGED <<state, dbTasks, sending>>
  /\ UNCHANGED <<wireVars, sessions, sessionId, nextSession, compOf, valid, seqRows, io,
                 commands, orders, executed, subscribed, increments, restarts>>

WorkerWrite(t) ==
  /\ sending[t] # NotSending
  /\ WriteDown(sending[t].conn, Head(sending[t].message))
  /\ sending' = [sending EXCEPT ![t] = NotSending]
  /\ UNCHANGED <<up, cliEnd, srvEnd, broken, sessions, sessionId, nextSession, compOf, state,
                 valid, tableVars, io, coreVars, restarts>>

-----------------------------------------------------------------------------
(* The database worker runs the next task: loadValidClients calls back with *)
(* the clients table, updateSequenceNumbers writes the row.                 *)
RunTask ==
  /\ dbTasks # << >>
  /\ dbTasks' = Tail(dbTasks)
  /\ LET task == Head(dbTasks)
     IN  IF task.comp = NoClient
         THEN valid' = Registered /\ UNCHANGED seqRows
         ELSE /\ seqRows' = [seqRows EXCEPT ![task.comp] = [in |-> task.in, out |-> task.out]]
              /\ UNCHANGED valid
  /\ UNCHANGED <<wireVars, sessions, sessionId, nextSession, compOf, state, io, sending,
                 coreVars, restarts>>

(* The process is killed and started again: queued tasks and commands are   *)
(* gone, live orders that were saved come back from the orders table with   *)
(* the session number they had.                                            *)
Restart ==
  /\ restarts < MaxRestarts
  /\ restarts' = restarts + 1
  /\ sessions' = {} /\ nextSession' = 1
  /\ compOf' = [k \in Conn |-> NoClient]
  /\ state' = [c \in Clients |-> NoState]
  /\ valid' = {}
  /\ dbTasks' = <<NoTask>>
  /\ io' = IdleIo
  /\ sending' = [t \in Workers |-> NotSending]
  /\ commands' = << >>
  /\ srvEnd' = [k \in Conn |-> IF srvEnd[k] = "none" THEN "none" ELSE "closed"]
  /\ up' = [k \in Conn |-> << >>]
  /\ sessionId' = [k \in Conn |-> 0]
  /\ \E saved \in SUBSET {r \in Ref : orders[r].status = "live"} :
       orders' = [r \in Ref |-> IF orders[r].status \in {"queued", "live"} /\ r \notin saved
                                THEN [orders[r] EXCEPT !.status = "done"] ELSE orders[r]]
  /\ subscribed' = {} /\ targets' = [t \in Workers |-> {}]
  /\ UNCHANGED <<down, cliEnd, broken, seqRows, executed, increments>>

IoStep ==
  \/ \E k \in Conn : Accept(k) \/ Receive(k) \/ ReadError(k)
  \/ \E k \in Conn : \E m \in {io.buf[i] : i \in DOMAIN io.buf} :
       \/ RefuseLogon(k, m) \/ AcceptLogon(k, m) \/ HandleLogout(k, m)
       \/ RefuseMessage(k, m) \/ HandleAnswered(k, m) \/ HandleIgnored(k, m)
       \/ HandleNewOrder(k, m) \/ HandleAmend(k, m)
  \/ IoWrite \/ cleanupConnection \/ IoClose

WorkerStep(t) ==
  \/ ProcessCommand(t) \/ \E ref \in Ref : MatchOrder(t, ref)
  \/ publishIncremental(t) \/ SendIncrement(t) \/ WorkerWrite(t)

ServerNext == IoStep \/ RunTask \/ Restart \/ \E t \in Workers : WorkerStep(t)
=============================================================================
