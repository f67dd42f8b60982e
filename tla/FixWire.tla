------------------------------- MODULE FixWire -------------------------------
(***************************************************************************)
(* The TCP connections between FIX clients and the exchange, and the        *)
(* messages on them.                                                        *)
(*                                                                         *)
(* A connection delivers in order and without duplicates, and may break at  *)
(* any time, which loses what is in transit in both directions.  Each       *)
(* async_write puts one whole message on the connection when it is started. *)
(* How bytes become messages is the subject of module Framing.              *)
(***************************************************************************)
EXTENDS Integers, Sequences, FiniteSets

CONSTANTS
  Clients,     \* the SenderCompIDs
  NoClient,    \* the CompID of a connection that has none
  MaxConns,    \* bound on the number of connections ever opened
  MaxSends     \* bound on the number of application messages ever sent

ASSUME WireAssumption ==
  /\ MaxConns \in Nat /\ MaxSends \in Nat
  /\ NoClient \notin Clients

Conn == 1..MaxConns
Ref  == 1..MaxSends        \* application messages (ClOrdIDs), in the order they are sent

VARIABLES
  up,      \* up[k]: messages on their way to the exchange
  down,    \* down[k]: messages on their way to the client
  cliEnd,  \* the client's socket: "none", "open" or "closed"
  srvEnd,  \* the exchange's socket: "none", "pending" in the accept queue, ...
  broken   \* the connections that have failed

wireVars == <<up, down, cliEnd, srvEnd, broken>>

(* What a client sends.  "BadOrder" is a NewOrderSingle the converter       *)
(* refuses, "Unsubscribe" the market data request that ends a subscription, *)
(* "Other" a message the exchange logs and ignores.                         *)
UpType == {"Logon", "Logout", "Heartbeat", "NewOrder", "BadOrder", "Cancel",
           "Replace", "MarketData", "Unsubscribe", "TestRequest", "Other"}
DownType == {"Logon", "Logout", "Heartbeat", "Report", "MarketData", "BusinessReject"}

UpMessage   == {m \in [type : UpType, seq : Nat, comp : Clients, ref : Ref \cup {0}] :
                  m.type \in {"NewOrder", "Cancel", "Replace"} => m.ref \in Ref}
DownMessage == [type : DownType, seq : Nat, ref : Ref \cup {0}]

WireTypeOK ==
  /\ up \in [Conn -> Seq(UpMessage)]
  /\ down \in [Conn -> Seq(DownMessage)]
  /\ cliEnd \in [Conn -> {"none", "open", "closed"}]
  /\ srvEnd \in [Conn -> {"none", "pending", "open", "closed"}]
  /\ broken \subseteq Conn

WireInit ==
  /\ up = [k \in Conn |-> << >>] /\ down = [k \in Conn |-> << >>]
  /\ cliEnd = [k \in Conn |-> "none"] /\ srvEnd = [k \in Conn |-> "none"]
  /\ broken = {}

(* async_write on an end that is still open; a broken connection swallows it. *)
WriteUp(k, m) ==
  up' = IF k \in broken \/ srvEnd[k] = "closed" THEN up ELSE [up EXCEPT ![k] = Append(@, m)]
WriteDown(k, m) ==
  down' = IF k \in broken \/ cliEnd[k] # "open" \/ srvEnd[k] # "open"
          THEN down ELSE [down EXCEPT ![k] = Append(@, m)]

(* A read fails: the own end was closed, the connection broke, or the peer  *)
(* closed and everything it wrote has been read.                            *)
UpEnded(k)   == srvEnd[k] = "closed" \/ k \in broken \/ (cliEnd[k] = "closed" /\ up[k] = << >>)
DownEnded(k) == cliEnd[k] = "closed" \/ k \in broken \/ (srvEnd[k] = "closed" /\ down[k] = << >>)

(* Closing an end discards what it has not read yet.                        *)
CloseClient(k) ==
  /\ cliEnd' = [cliEnd EXCEPT ![k] = "closed"]
  /\ down' = [down EXCEPT ![k] = << >>]
CloseServer(k) ==
  /\ srvEnd' = [srvEnd EXCEPT ![k] = "closed"]
  /\ up' = [up EXCEPT ![k] = << >>]

(* The network fails.                                                       *)
Break(k) ==
  /\ cliEnd[k] = "open" /\ k \notin broken
  /\ broken' = broken \cup {k}
  /\ up' = [up EXCEPT ![k] = << >>] /\ down' = [down EXCEPT ![k] = << >>]
  /\ UNCHANGED <<cliEnd, srvEnd>>
=============================================================================
