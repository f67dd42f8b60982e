------------------------------- MODULE FixLink -------------------------------
(***************************************************************************)
(* Clients and the FIX gateway joined by their connections: what holds of   *)
(* the two ends together.                                                   *)
(***************************************************************************)
EXTENDS FixServer, FixClient

linkVars == <<wireVars, serverVars, clientVars>>

LinkInit == WireInit /\ ServerInit /\ ClientInit

LinkNext ==
  \/ ServerNext /\ UNCHANGED clientVars
  \/ ClientNext /\ UNCHANGED serverVars
  \/ (\E k \in Conn : Break(k)) /\ UNCHANGED <<serverVars, clientVars>>

LinkSpec == LinkInit /\ [][LinkNext]_linkVars

(* Every thread is scheduled: the io_context loops, the database worker, the *)
(* partitions' workers, and the UI thread once it is inside a send.          *)
LinkFairness ==
  /\ WF_linkVars(IoStep /\ UNCHANGED clientVars)
  /\ WF_linkVars(RunTask /\ UNCHANGED clientVars)
  /\ \A t \in Workers : WF_linkVars(WorkerStep(t) /\ UNCHANGED clientVars)
  /\ \A c \in Clients : /\ WF_linkVars(NetStep(c) /\ UNCHANGED serverVars)
                        /\ WF_linkVars(UiSends(c) /\ UNCHANGED serverVars)

FairLinkSpec == LinkSpec /\ LinkFairness

-----------------------------------------------------------------------------
(* Every variable holds a value of its type.                                *)
LinkTypeOK == WireTypeOK /\ ServerTypeOK /\ ClientTypeOK

(* The gateway submits each new order once and in the order in which the    *)
(* client wrote it, although a repeated or missing sequence number stops    *)
(* nothing: FixSession::handleFixMessage ignores what validateSequence      *)
(* returns, and the client's two threads do repeat numbers.                 *)
ExecutedInOrder ==
  \A k \in Conn :
    /\ Len(executed[k]) <= Len(written[k])
    /\ executed[k] = SubSeq(written[k], 1, Len(executed[k]))

(* While the gateway is not restarted, a client never meets a number below  *)
(* the one it expects on a connection it still uses (which would end the    *)
(* session): neither the lost updates between its two threads nor the       *)
(* numbers of replaced session objects in the .seq file, a reset to 1/1 or  *)
(* a broken connection can bring that about.  It holds while only the io    *)
(* thread sends; FixSession takes a number and writes the message in two    *)
(* steps, so a worker's report may overtake an answer (run wire_order).     *)
NeverTooLow ==
  restarts = 0 =>
    \A c \in Clients :
      net[c].pc = "sender" /\ cliEnd[net[c].conn] = "open"
        => Head(net[c].buf).seq >= net[c].in

(* The sequence table, once the queued updates have run, holds exactly the  *)
(* numbers the session manager has in memory: whichever thread took the     *)
(* last number, no later update overtakes it, and a restart that loses no   *)
(* update goes on where the last process stopped.                           *)
TrailMatches ==
  \A c \in Clients : state[c].known =>
    getSequenceNumbers(c) = [in |-> state[c].in, out |-> state[c].out]

(* The client has written a message of this type and waits for the answer.  *)
Waiting(k, type) ==
  \E c \in Clients : ui[c].pc = "after" /\ ui[c].conn = k /\ Head(ui[c].buf).type = type

(* Every logon and every logout a client sends is answered or the client's  *)
(* socket is closed, whatever breaks in between.                            *)
Answered ==
  \A k \in Conn : \A type \in {"Logon", "Logout"} :
    Waiting(k, type) ~>
      (cliEnd[k] = "closed" \/ \E i \in DOMAIN handled[k] : handled[k][i] = type)

(* A session whose client is gone is unregistered in the end, so that       *)
(* reports and market data for it stop.                                     *)
SessionsReleased ==
  \A k \in Conn : (k \in sessions /\ cliEnd[k] = "closed") ~> (k \notin sessions)

-----------------------------------------------------------------------------
(* The inductive strengthening.                                             *)

(* What the gateway's threads hold between two steps.                       *)
GatewayThreads ==
  /\ io.pc # "idle" => io.conn \in Conn /\ io.buf # << >>
  /\ io.pc = "write" => io.reply # << >>
  /\ io.pc \in {"write", "cleanup", "close"} => Head(io.buf).type # "NewOrder"
  /\ \A t \in Workers : sending[t] # NotSending =>
       sending[t].conn \in Conn /\ sending[t].message # << >>
  /\ \A k \in sessions : sessionId[k] < nextSession

(* What the threads of a client hold between two steps.                     *)
ClientThreads ==
  \A c \in Clients :
    /\ ui[c].pc # "idle" =>
         /\ ui[c].conn \in Conn /\ owner[ui[c].conn] = c /\ ui[c].buf # << >>
         /\ cliEnd[ui[c].conn] # "none"
    /\ net[c].pc # "idle" => /\ net[c].conn \in Conn /\ owner[net[c].conn] = c
                             /\ cliEnd[net[c].conn] # "none"
    /\ net[c].pc \in {"expected", "sender", "set"} => net[c].buf # << >>
    /\ current[c] # 0 => owner[current[c]] = c

(* What a connection that is not there yet, or not any more, carries; and   *)
(* no order is written before the session has left the state Connected.     *)
WireInv ==
  /\ io.pc # "idle" => cliEnd[io.conn] # "none"
  /\ \A k \in Conn :
       /\ cliEnd[k] = "none" =>
            /\ status[k] \in {"Disconnected", "Connecting"}
            /\ written[k] = << >> /\ up[k] = << >>
       /\ srvEnd[k] = "none" => cliEnd[k] = "none"
       /\ srvEnd[k] = "closed" => up[k] = << >>
       /\ status[k] = "Connected" => written[k] = << >>
  /\ \A c \in Clients : ui[c].pc \in {"number", "target", "set"} =>
       /\ Head(ui[c].buf).type = "Logon" => written[ui[c].conn] = << >>
       /\ Head(ui[c].buf).type = "NewOrder" => status[ui[c].conn] # "Connected"

(* What the gateway has read, or will read, of connection k.                *)
InFlight(k) == (IF io.pc # "idle" /\ io.conn = k THEN io.buf ELSE << >>) \o up[k]

NewOrders(s) == {i \in DOMAIN s : s[i].type = "NewOrder"}

(* The new orders of s continue, in their order and without a gap, where    *)
(* the executed ones end among the written ones.                            *)
Continues(s, done, sent) ==
  /\ \A i \in NewOrders(s) : \E n \in DOMAIN sent : n > Len(done) /\ sent[n] = s[i].ref
  /\ \A i, j \in NewOrders(s) : i < j => s[i].ref < s[j].ref
  /\ \A i \in NewOrders(s), n \in DOMAIN sent :
       n > Len(done) /\ sent[n] <= s[i].ref => \E j \in NewOrders(s) : s[j].ref = sent[n]

(* A logon never follows a new order.                                       *)
LogonFirst(s) == \A i \in NewOrders(s), j \in DOMAIN s : i < j => s[j].type # "Logon"

(* The gateway has refused a message of k: it executes none of the rest.    *)
Refused(k) ==
  /\ srvEnd[k] = "closed" /\ ~LoggedOn(k)
  /\ \A i \in DOMAIN InFlight(k) : InFlight(k)[i].type # "Logon"

(* The connection loses nothing of what the client writes.                  *)
Carries(k) == cliEnd[k] # "closed" /\ srvEnd[k] # "closed" /\ k \notin broken

(* Every order that was written and not executed is in s.                   *)
AllIn(s, done, sent) ==
  \A n \in DOMAIN sent : n > Len(done) => \E i \in NewOrders(s) : s[i].ref = sent[n]

(* What was executed begins what was written; what is in flight follows.    *)
InLine(k) ==
  /\ Len(executed[k]) <= Len(written[k])
  /\ \A i \in DOMAIN executed[k] : executed[k][i] = written[k][i]
  /\ \A m, n \in DOMAIN written[k] : m < n => written[k][m] < written[k][n]
  /\ LogonFirst(InFlight(k))
  /\ Refused(k) \/ Continues(InFlight(k), executed[k], written[k])
  /\ Carries(k) => AllIn(InFlight(k), executed[k], written[k])

OrdersInLine == \A k \in Conn : InLine(k)

(* Every order carries a reference above those written before it.           *)
RefsInv ==
  /\ \A k \in Conn : \A n \in DOMAIN written[k] : written[k][n] <= refs
  /\ \A c \in Clients : ui[c].pc \in {"number", "target", "set"} =>
       LET m == Head(ui[c].buf)
       IN m.type = "NewOrder" =>
            /\ m.ref <= refs
            /\ \A n \in DOMAIN written[ui[c].conn] : written[ui[c].conn][n] < m.ref

LinkInv ==
  /\ LinkTypeOK /\ GatewayThreads /\ ClientThreads
  /\ WireInv /\ RefsInv /\ OrdersInLine /\ TrailMatches

-----------------------------------------------------------------------------
(* The numbers a client meets.                                              *)

(* Who holds a message for connection k, numbered and not yet written.      *)
IoSends(k)        == io.pc = "write" /\ io.conn = k
WorkerSends(t, k) == sending[t] # NotSending /\ sending[t].conn = k

(* No two threads are between taking a number and writing the message to    *)
(* one connection: what a lock held over both would guarantee.              *)
OneSender ==
  \A k \in Conn : \A t \in Workers : WorkerSends(t, k) =>
    ~IoSends(k) /\ \A u \in Workers : WorkerSends(u, k) => u = t

(* What the client has still to take from connection k.                     *)
Reads(k) ==
  /\ owner[k] \in Clients
  /\ net[owner[k]].pc \in {"expected", "sender", "set"} /\ net[owner[k]].conn = k
ToRead(k) == (IF Reads(k) THEN net[owner[k]].buf ELSE << >>) \o down[k]

(* The numbers of s rise, from n on, as far as the first Logout, which no   *)
(* number is checked of.                                                    *)
Rising(s, n) ==
  \A j \in DOMAIN s : (\A i \in 1..j : s[i].type # "Logout") =>
    n <= s[j].seq /\ \A i \in 1..(j - 1) : s[i].seq < s[j].seq

(* Nothing that is written to k from now on belongs to the session.         *)
LogoutIn(s) == \E i \in DOMAIN s : s[i].type = "Logout"
Ended(k)    == ~Carries(k) \/ LogoutIn(ToRead(k))

(* The numbers the client has, or one of its threads will store, as the one *)
(* it expects next on k.                                                    *)
Expected(k) ==
  {mem[k].in}
    \cup {ui[c].in : c \in {d \in Clients : ui[d].pc = "set" /\ ui[d].conn = k}}
    \cup {net[c].in : c \in {d \in Clients : net[d].pc \in {"sender", "write"} /\ net[d].conn = k}}

(* The number of message m is taken, and higher than all before it on k.    *)
Follows(k, m) ==
  m.type # "Logout" =>
    /\ m.seq < state[owner[k]].out
    /\ ~Ended(k) => /\ \A n \in Expected(k) : n <= m.seq
                    /\ \A i \in DOMAIN ToRead(k) : ToRead(k)[i].seq < m.seq

(* The gateway's numbers only grow: a session state is made from a row that *)
(* is not below its initial one.                                            *)
RowsPositive ==
  /\ \A c \in Clients : /\ state[c].out >= 1 /\ (~state[c].known => state[c].out = 1)
                        /\ seqRows[c].out >= 1
  /\ \A i \in DOMAIN dbTasks : dbTasks[i].comp # NoClient => dbTasks[i].out >= 1

(* Every message names the client it comes from, so that a connection only  *)
(* ever takes the numbers of its own client.                                *)
OwnNames ==
  /\ \A k \in Conn : /\ \A i \in DOMAIN up[k] : up[k][i].comp = owner[k]
                     /\ compOf[k] \in {NoClient, owner[k]}
                     /\ compOf[k] # NoClient => state[compOf[k]].out > 1
  /\ \A c \in Clients : ui[c].pc # "idle" => Head(ui[c].buf).comp = c
  /\ io.pc # "idle" => \A i \in DOMAIN io.buf : io.buf[i].comp = owner[io.conn]

(* Sockets, sessions and session objects belong together.                   *)
SocketsInv ==
  /\ \A k \in Conn :
       /\ owner[k] = NoClient => cliEnd[k] = "none"
       /\ cliEnd[k] = "none" => srvEnd[k] = "none" /\ down[k] = << >>
       /\ cliEnd[k] = "open" => status[k] # "Disconnected"
       /\ k \in sessions => srvEnd[k] \in {"open", "closed"}
  /\ io.pc # "idle" => io.conn \in sessions
  /\ \A t \in Workers : sending[t] # NotSending => cliEnd[sending[t].conn] # "none"

(* A handler that hangs up has sent a Logout before it forgets the CompID.  *)
HangUps ==
  /\ io.pc = "write" /\ io.hangup => Head(io.reply).type = "Logout"
  /\ io.pc \in {"cleanup", "close"} => Ended(io.conn)

(* Increments are, or may be, sent to connection k.                         *)
Subscriber(k) == k \in subscribed \/ \E t \in Workers : k \in targets[t]

(* A worker that has found the session of k finds one that has a CompID or  *)
(* is at its end.                                                           *)
Serving(k) == (compOf[k] # NoClient \/ Ended(k)) /\ state[owner[k]].out > 1

(* That is so of whoever orders or subscribes.                              *)
Serves(s) == s < nextSession /\ \A k \in sessions : sessionId[k] = s => Serving(k)
SessionsServe ==
  /\ nextSession >= 1 /\ \A k \in sessions : sessionId[k] >= 1
  /\ \A k \in sessions : Subscriber(k) => Serving(k)
  /\ \A k \in Conn : srvEnd[k] \in {"none", "pending"} => ~Subscriber(k)
  /\ \A r \in Ref : Serves(orders[r].session)
  /\ \A i \in DOMAIN commands : Serves(commands[i].session)

(* Of connection k: what its client expects, what it has to read and what   *)
(* is about to be written to it are in order, below the number taken next.  *)
InTurn(k) ==
  owner[k] # NoClient =>
    /\ \A n \in Expected(k) : n >= 1 /\ n <= state[owner[k]].out
    /\ \A i \in DOMAIN ToRead(k) :
         ToRead(k)[i].type # "Logout" => ToRead(k)[i].seq < state[owner[k]].out
    /\ cliEnd[k] # "closed" => \A n \in Expected(k) : Rising(ToRead(k), n)
    /\ IoSends(k) => Follows(k, Head(io.reply))
    /\ \A t \in Workers : WorkerSends(t, k) => Follows(k, Head(sending[t].message))

ClientNumbers ==
  \A c \in Clients : /\ file[c].in >= 1 /\ file[c].in <= state[c].out
                     /\ net[c].pc \in {"sender", "set"} => Head(net[c].buf).type # "Logout"

Numbers ==
  /\ RowsPositive /\ OwnNames /\ SocketsInv /\ HangUps /\ SessionsServe /\ ClientNumbers
  /\ \A k \in Conn : InTurn(k)

(* A restart loses the updates that are queued, and with them the order.    *)
NumbersInv == restarts = 0 => Numbers

(* No client sends an order or subscribes to market data, so that the       *)
(* workers have nothing to send.                                            *)
NoTraffic == "NewOrder" \notin AppTypes /\ "MarketData" \notin AppTypes
NothingFrom(s) == \A i \in DOMAIN s : s[i].type \notin {"NewOrder", "MarketData"}
NoReports ==
  /\ commands = << >> /\ \A t \in Workers : Free(t)
  /\ \A r \in Ref : orders[r].status = "unknown"
  /\ subscribed = {}
  /\ NothingFrom(io.buf) /\ \A k \in Conn : NothingFrom(up[k])
  /\ \A c \in Clients : NothingFrom(ui[c].buf)

-----------------------------------------------------------------------------
(* What the code says of itself and does not do.                            *)

(* "Logon Acknowledged by server. Session is active.": once the answer has  *)
(* been handled the session object is Active until it is closed or logs out. *)
AckMeansActive ==
  \A k \in Conn :
    (/\ cliEnd[k] = "open"
     /\ \E i \in DOMAIN handled[k] : handled[k][i] = "Logon"
     /\ ui[owner[k]] = Idle)
    => status[k] \in {"Active", "LoggingOut"}
=============================================================================
