------------------------------ MODULE FixClient ------------------------------
(***************************************************************************)
(* The client's side of a FIX session: FixClientSession, its SeqNumStore    *)
(* and the connection panel that drives it.                                 *)
(*                                                                         *)
(* Two threads of one client process share a session object: the UI thread  *)
(* sends (logon, logout, orders, requests) and the network thread reads and *)
(* sends heartbeats.  SeqNumStore locks each get and each set, but a sender *)
(* is get, get, set and write and a reader get, get and set: each get is a  *)
(* step, the set is one with the write that follows it.                     *)
(* The panel makes a new session object for every connection, so connection *)
(* k and session object k are one; the object that was replaced lives until *)
(* its last handler has run, and both save their numbers in one file.       *)
(***************************************************************************)
EXTENDS FixWire

CONSTANTS
  AppTypes,      \* the application messages the UI sends
  MaxHeartbeats  \* bound on the number of heartbeats

ASSUME ClientAssumption ==
  /\ AppTypes \subseteq UpType \ {"Logon", "Logout", "Heartbeat"}
  /\ MaxHeartbeats \in Nat

VARIABLES
  owner,       \* the client process that opened each connection
  current,     \* the panel's session object, 0: none
  status,      \* mState of each session object
  mem,         \* the SeqNumStore of each session object
  file,        \* the .seq file of each client
  ui,          \* what the UI thread is doing
  net,         \* what the network thread is doing
  reading,     \* the objects with a read outstanding
  timer,       \* the objects whose heartbeat timer is armed
  failed,      \* the objects with a write that failed and whose handler has not run
  beats,       \* heartbeats sent so far
  refs,        \* application messages sent so far
  written,     \* the new orders written on each connection
  handled      \* the messages each session object has acted upon

clientVars == <<owner, current, status, mem, file, ui, net, reading, timer, failed, beats,
                refs, written, handled>>

FixClientState == {"Disconnected", "Connecting", "Connected", "LogonSent", "Active",
                   "LoggingOut"}

Store  == [in : Nat, out : Nat]
Fresh  == [in |-> 1, out |-> 1]
UiState  == [pc : {"idle", "number", "target", "set", "after"}, conn : Conn \cup {0},
             in : Nat, out : Nat, buf : Seq(UpMessage)]
NetState == [pc : {"idle", "expected", "sender", "set", "target", "write"},
             conn : Conn \cup {0}, in : Nat, out : Nat, buf : Seq(DownMessage)]
Idle   == [pc |-> "idle", conn |-> 0, in |-> 0, out |-> 0, buf |-> << >>]

ClientTypeOK ==
  /\ owner \in [Conn -> Clients \cup {NoClient}]
  /\ current \in [Clients -> Conn \cup {0}]
  /\ status \in [Conn -> FixClientState]
  /\ mem \in [Conn -> Store] /\ file \in [Clients -> Store]
  /\ ui \in [Clients -> UiState] /\ net \in [Clients -> NetState]
  /\ reading \subseteq Conn /\ timer \subseteq Conn /\ failed \subseteq Conn
  /\ beats \in 0..MaxHeartbeats /\ refs \in 0..MaxSends
  /\ written \in [Conn -> Seq(Ref)]
  /\ handled \in [Conn -> Seq(DownType)]

ClientInit ==
  /\ owner = [k \in Conn |-> NoClient]
  /\ current = [c \in Clients |-> 0]
  /\ status = [k \in Conn |-> "Disconnected"]
  /\ mem = [k \in Conn |-> Fresh] /\ file = [c \in Clients |-> Fresh]
  /\ ui = [c \in Clients |-> Idle] /\ net = [c \in Clients |-> Idle]
  /\ reading = {} /\ timer = {} /\ failed = {} /\ beats = 0 /\ refs = 0
  /\ written = [k \in Conn |-> << >>]
  /\ handled = [k \in Conn |-> << >>]

-----------------------------------------------------------------------------
(* SeqNumStore::setSeqNums, with the save under the same lock.              *)
setSeqNums(k, in, out) ==
  /\ mem' = [mem EXCEPT ![k] = [in |-> in, out |-> out]]
  /\ file' = [file EXCEPT ![owner[k]] = [in |-> in, out |-> out]]

(* disconnect; does nothing to an object that is Disconnected already.  A   *)
(* connection attempt that is under way goes on.                            *)
disconnect(k) ==
  IF status[k] = "Disconnected" THEN UNCHANGED <<status, timer, cliEnd, down>>
  ELSE /\ status' = [status EXCEPT ![k] = "Disconnected"]
       /\ timer' = timer \ {k}
       /\ IF cliEnd[k] = "open" THEN CloseClient(k) ELSE UNCHANGED <<cliEnd, down>>

(* doWrite: on a socket that is closed the write fails, and its handler is  *)
(* left to the network thread (the handlers of one object count as one).    *)
doWrite(k, m) ==
  IF cliEnd[k] = "open" THEN WriteUp(k, m) /\ UNCHANGED failed
  ELSE failed' = failed \cup {k} /\ UNCHANGED up

PanelStatus(c) == IF current[c] = 0 THEN "Disconnected" ELSE status[current[c]]
Message(c, type, seq, ref) == [type |-> type, seq |-> seq, comp |-> c, ref |-> ref]

-----------------------------------------------------------------------------
(* The UI thread.                                                           *)

(* The Connect button: a fresh session object loads the file and resolves.  *)
Connect(c, k) ==
  /\ ui[c] = Idle /\ PanelStatus(c) = "Disconnected"
  /\ owner[k] = NoClient /\ \A j \in 1..(k - 1) : owner[j] # NoClient
  /\ owner' = [owner EXCEPT ![k] = c]
  /\ current' = [current EXCEPT ![c] = k]
  /\ mem' = [mem EXCEPT ![k] = file[c]]
  /\ status' = [status EXCEPT ![k] = "Connecting"]
  /\ UNCHANGED <<wireVars, file, ui, net, reading, timer, failed, beats, refs, written, handled>>

(* The Disconnect (Force) button.                                           *)
ForceDisconnect(c) ==
  /\ ui[c] = Idle /\ PanelStatus(c) # "Disconnected"
  /\ disconnect(current[c])
  /\ UNCHANGED <<up, srvEnd, broken, owner, current, mem, file, ui, net, reading, failed, beats, refs,
                 written, handled>>

(* A send starts: the button is pressed and getNextSenderSeqNum is read.    *)
Start(c, type, out, ref) ==
  ui' = [ui EXCEPT ![c] = [Idle EXCEPT !.pc = "target", !.conn = current[c],
                                       !.buf = <<Message(c, type, out, ref)>>]]

(* sendLogon; with the box ticked it first resets the numbers to 1/1, and   *)
(* reads the one it takes afterwards.                                       *)
sendLogon(c, forceReset) ==
  /\ ui[c] = Idle /\ PanelStatus(c) = "Connected"
  /\ IF forceReset
     THEN /\ setSeqNums(current[c], 1, 1)
          /\ ui' = [ui EXCEPT ![c] = [Idle EXCEPT !.pc = "number", !.conn = current[c],
                                                  !.buf = <<Message(c, "Logon", 1, 0)>>]]
     ELSE Start(c, "Logon", mem[current[c]].out, 0) /\ UNCHANGED <<mem, file>>
  /\ UNCHANGED <<wireVars, owner, current, status, net, reading, timer, failed, beats, refs, written, handled>>

(* getNextSenderSeqNum after the reset.                                     *)
UiReadSender(c) ==
  /\ ui[c].pc = "number"
  /\ ui' = [ui EXCEPT ![c].pc = "target",
                      ![c].buf = <<[Head(@) EXCEPT !.seq = mem[ui[c].conn].out]>>]
  /\ UNCHANGED <<wireVars, owner, current, status, mem, file, net, reading, timer, failed, beats, refs,
                 written, handled>>

sendLogout(c) ==
  /\ ui[c] = Idle /\ PanelStatus(c) = "Active"
  /\ Start(c, "Logout", mem[current[c]].out, 0)
  /\ UNCHANGED <<wireVars, owner, current, status, mem, file, net, reading, timer, failed, beats, refs,
                 written, handled>>

(* sendNewOrder, sendMarketDataRequest and sendMessage; a cancel or replace  *)
(* names an earlier message.                                                *)
sendMessage(c, type) ==
  /\ ui[c] = Idle /\ PanelStatus(c) = "Active"
  /\ type \in AppTypes /\ refs < MaxSends
  /\ refs' = refs + 1
  /\ \E ref \in IF type \in {"Cancel", "Replace"} THEN 1..refs ELSE {refs + 1} :
       Start(c, type, mem[current[c]].out, ref)
  /\ UNCHANGED <<wireVars, owner, current, status, mem, file, net, reading, timer, failed, beats,
                 written, handled>>

(* getNextTargetSeqNum.                                                     *)
UiReadTarget(c) ==
  /\ ui[c].pc = "target"
  /\ ui' = [ui EXCEPT ![c].pc = "set", ![c].in = mem[ui[c].conn].in]
  /\ UNCHANGED <<wireVars, owner, current, status, mem, file, net, reading, timer, failed, beats, refs,
                 written, handled>>

(* setSeqNums and the write; sendLogon and sendLogout still have their      *)
(* state to set.                                                            *)
UiWrite(c) ==
  /\ ui[c].pc = "set"
  /\ LET k == ui[c].conn
         m == Head(ui[c].buf)
     IN  /\ setSeqNums(k, ui[c].in, m.seq + 1)
         /\ doWrite(k, m)
         /\ written' = IF m.type = "NewOrder" THEN [written EXCEPT ![k] = Append(@, m.ref)]
                       ELSE written
         /\ ui' = [ui EXCEPT ![c] = IF m.type \in {"Logon", "Logout"}
                                    THEN [@ EXCEPT !.pc = "after"] ELSE Idle]
  /\ UNCHANGED <<down, cliEnd, srvEnd, broken, owner, current, status, net, reading, timer,
                 beats, refs, handled>>

(* changeState(LogonSent) or changeState(LoggingOut), whatever the state    *)
(* has become since the write.                                              *)
UiAfter(c) ==
  /\ ui[c].pc = "after"
  /\ status' = [status EXCEPT ![ui[c].conn] =
                  IF Head(ui[c].buf).type = "Logon" THEN "LogonSent" ELSE "LoggingOut"]
  /\ ui' = [ui EXCEPT ![c] = Idle]
  /\ UNCHANGED <<wireVars, owner, current, mem, file, net, reading, timer, failed, beats, refs, written, handled>>

-----------------------------------------------------------------------------
(* The network thread.                                                      *)

(* async_connect completes: the connection is in the exchange's accept      *)
(* queue, and the object starts reading, disconnected meanwhile or not.     *)
Connected(c, k) ==
  /\ net[c] = Idle /\ owner[k] = c /\ cliEnd[k] = "none"
  /\ cliEnd' = [cliEnd EXCEPT ![k] = "open"]
  /\ srvEnd' = [srvEnd EXCEPT ![k] = "pending"]
  /\ status' = [status EXCEPT ![k] = "Connected"]
  /\ reading' = reading \cup {k}
  /\ UNCHANGED <<up, down, broken, owner, current, mem, file, ui, net, timer, failed, beats, refs,
                 written, handled>>

(* The name does not resolve, nobody listens, or the socket was closed.     *)
ConnectFails(c, k) ==
  /\ net[c] = Idle /\ owner[k] = c /\ cliEnd[k] = "none"
  /\ srvEnd' = [srvEnd EXCEPT ![k] = "closed"]
  /\ cliEnd' = [cliEnd EXCEPT ![k] = "closed"]
  /\ status' = [status EXCEPT ![k] = "Disconnected"]
  /\ UNCHANGED <<up, down, broken, owner, current, mem, file, ui, net, reading, timer, failed, beats, refs,
                 written, handled>>

(* async_read_some completes with the first n messages.                     *)
NetReceive(c, k) ==
  /\ net[c] = Idle /\ owner[k] = c /\ cliEnd[k] = "open" /\ k \notin broken
  /\ \E n \in 1..Len(down[k]) :
       /\ net' = [net EXCEPT ![c] = [Idle EXCEPT !.pc = "expected", !.conn = k,
                                                 !.buf = SubSeq(down[k], 1, n)]]
       /\ down' = [down EXCEPT ![k] = SubSeq(@, n + 1, Len(@))]
  /\ UNCHANGED <<up, cliEnd, srvEnd, broken, owner, current, status, mem, file, ui, reading, timer,
                 failed, beats, refs, written, handled>>

(* async_read_some fails; it is not started again.                          *)
NetReadError(c, k) ==
  /\ net[c] = Idle /\ owner[k] = c /\ k \in reading /\ DownEnded(k)
  /\ reading' = reading \ {k}
  /\ disconnect(k)
  /\ UNCHANGED <<up, srvEnd, broken, owner, current, mem, file, ui, net, failed, beats, refs,
                 written, handled>>

(* The handler of a write that failed.                                      *)
WriteFailed(c, k) ==
  /\ net[c] = Idle /\ owner[k] = c /\ k \in failed
  /\ failed' = failed \ {k}
  /\ disconnect(k)
  /\ UNCHANGED <<up, srvEnd, broken, owner, current, mem, file, ui, net, reading, beats, refs,
                 written, handled>>

NetDone(c) == IF Len(net[c].buf) = 1 THEN Idle
              ELSE [Idle EXCEPT !.pc = "expected", !.conn = net[c].conn, !.buf = Tail(net[c].buf)]

(* getNextTargetSeqNum at the head of handleProtocolMessage.                *)
NetReadExpected(c) ==
  /\ net[c].pc = "expected" /\ Head(net[c].buf).type # "Logout"
  /\ net' = [net EXCEPT ![c].pc = "sender", ![c].in = mem[net[c].conn].in]
  /\ UNCHANGED <<wireVars, owner, current, status, mem, file, ui, reading, timer, failed, beats, refs,
                 written, handled>>

TooLow(seq, expected) == seq < expected

(* The number is too low: the session is given up.                          *)
NetTooLow(c) ==
  /\ net[c].pc = "sender" /\ TooLow(Head(net[c].buf).seq, net[c].in)
  /\ disconnect(net[c].conn)
  /\ net' = [net EXCEPT ![c] = NetDone(c)]
  /\ UNCHANGED <<up, srvEnd, broken, owner, current, mem, file, ui, reading, failed, beats, refs, written, handled>>

(* getNextSenderSeqNum, as argument of setSeqNums.                          *)
NetReadSender(c) ==
  /\ net[c].pc = "sender" /\ ~TooLow(Head(net[c].buf).seq, net[c].in)
  /\ net' = [net EXCEPT ![c].pc = "set", ![c].out = mem[net[c].conn].out]
  /\ UNCHANGED <<wireVars, owner, current, status, mem, file, ui, reading, timer, failed, beats, refs,
                 written, handled>>

(* The number expected next follows the message, across a gap too, and the  *)
(* message is dispatched; the logon answer makes the session active and     *)
(* arms the heartbeat timer.                                                *)
NetHandle(c) ==
  /\ net[c].pc = "set"
  /\ LET k == net[c].conn
         m == Head(net[c].buf)
     IN  /\ setSeqNums(k, m.seq + 1, net[c].out)
         /\ handled' = [handled EXCEPT ![k] = Append(@, m.type)]
         /\ status' = IF m.type = "Logon" THEN [status EXCEPT ![k] = "Active"] ELSE status
         /\ timer' = IF m.type = "Logon" THEN timer \cup {k} ELSE timer
  /\ net' = [net EXCEPT ![c] = NetDone(c)]
  /\ UNCHANGED <<wireVars, owner, current, ui, reading, failed, beats, refs, written>>

(* Logout: no number is checked.                                            *)
NetLogout(c) ==
  /\ net[c].pc = "expected" /\ Head(net[c].buf).type = "Logout"
  /\ disconnect(net[c].conn)
  /\ handled' = [handled EXCEPT ![net[c].conn] = Append(@, "Logout")]
  /\ net' = [net EXCEPT ![c] = NetDone(c)]
  /\ UNCHANGED <<up, srvEnd, broken, owner, current, mem, file, ui, reading, failed, beats, refs, written>>

(* The heartbeat timer fires.  An object that is not Active stops beating.  *)
TimerFires(c, k) ==
  /\ net[c] = Idle /\ owner[k] = c /\ k \in timer
  /\ IF status[k] = "Active"
     THEN /\ beats < MaxHeartbeats
          /\ net' = [net EXCEPT ![c] = [Idle EXCEPT !.pc = "target", !.conn = k, !.out = mem[k].out]]
          /\ beats' = beats + 1
          /\ UNCHANGED timer
     ELSE timer' = timer \ {k} /\ UNCHANGED <<net, beats>>
  /\ UNCHANGED <<wireVars, owner, current, status, mem, file, ui, reading, failed, refs, written, handled>>

(* The rest of the heartbeat: getNextTargetSeqNum, setSeqNums and the write. *)
NetReadTarget(c) ==
  /\ net[c].pc = "target"
  /\ net' = [net EXCEPT ![c].pc = "write", ![c].in = mem[net[c].conn].in]
  /\ UNCHANGED <<wireVars, owner, current, status, mem, file, ui, reading, timer, failed, beats, refs,
                 written, handled>>

NetBeat(c) ==
  /\ net[c].pc = "write"
  /\ setSeqNums(net[c].conn, net[c].in, net[c].out + 1)
  /\ doWrite(net[c].conn, Message(c, "Heartbeat", net[c].out, 0))
  /\ net' = [net EXCEPT ![c] = Idle]
  /\ UNCHANGED <<down, cliEnd, srvEnd, broken, owner, current, status, ui, reading, timer,
                 beats, refs, written, handled>>

UiSends(c) == UiReadSender(c) \/ UiReadTarget(c) \/ UiWrite(c) \/ UiAfter(c)

UiStep(c) ==
  \/ \E k \in Conn : Connect(c, k)
  \/ ForceDisconnect(c)
  \/ \E forceReset \in BOOLEAN : sendLogon(c, forceReset)
  \/ sendLogout(c)
  \/ \E type \in AppTypes : sendMessage(c, type)
  \/ UiSends(c)

NetStep(c) ==
  \/ \E k \in Conn : Connected(c, k) \/ ConnectFails(c, k) \/ NetReceive(c, k)
                       \/ NetReadError(c, k) \/ WriteFailed(c, k) \/ TimerFires(c, k)
  \/ NetReadExpected(c) \/ NetTooLow(c) \/ NetReadSender(c) \/ NetHandle(c)
  \/ NetLogout(c) \/ NetReadTarget(c) \/ NetBeat(c)

ClientNext == \E c \in Clients : UiStep(c) \/ NetStep(c)
=============================================================================
