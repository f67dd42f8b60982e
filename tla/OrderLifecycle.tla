--------------------------- MODULE OrderLifecycle ---------------------------
(***************************************************************************)
(* What the exchange promises a client about an order, and nothing of how:  *)
(* the succession of execution reports the client may see.  The state is    *)
(* what the reports have said of each order so far.                         *)
(*                                                                         *)
(* An order is accepted or rejected once.  A rejected, filled or cancelled  *)
(* order never opens again, and all a client can still hear about it is     *)
(* that an amendment came too late.  Between two replacements its leaves    *)
(* never grow.                                                              *)
(***************************************************************************)
EXTENDS Naturals

CONSTANT Ids
VARIABLE told    \* told[i]: whether order i is open, with what leaves, and
                 \* how many amendments of it have been answered

(* No order has been reported on.                                           *)
LifeInit ==
  told = [i \in Ids |-> [state |-> "nothing", leaves |-> 0, answers |-> 0]]

(* The report b may follow the report a of the same order.                  *)
Accepted(a, b)  == /\ a.state = "nothing" /\ b.state = "open"
                   /\ b.answers = a.answers
Rejected(a, b)  == a.state = "nothing" /\ b = [a EXCEPT !.state = "rejected"]
Cancelled(a, b) == /\ a.state = "open" /\ b.state = "closed"
                   /\ b.leaves <= a.leaves /\ b.answers = a.answers + 1
Replaced(a, b)  == /\ a.state = "open" /\ b.state = "open"
                   /\ b.answers = a.answers + 1
Refused(a, b)   == b = [a EXCEPT !.answers = @ + 1]
Filled(a, b)    == /\ a.state = "open" /\ b.leaves <= a.leaves
                   /\ b.state = IF b.leaves = 0 THEN "closed" ELSE "open"
                   /\ b.answers = a.answers

(* A report on order i alone.                                               *)
ReportOne(i) ==
  /\ told' = [told EXCEPT ![i] = told'[i]]
  /\ \/ Accepted(told[i], told'[i])
     \/ Rejected(told[i], told'[i])
     \/ Cancelled(told[i], told'[i])
     \/ Replaced(told[i], told'[i])
     \/ Refused(told[i], told'[i])

(* A trade is reported to both of its orders, as the pass it was made in     *)
(* has left them: the later trades of a pass repeat the leaves of the first. *)
ReportTrade(i, j) ==
  /\ told' = [told EXCEPT ![i] = told'[i], ![j] = told'[j]]
  /\ Filled(told[i], told'[i]) /\ Filled(told[j], told'[j])

LifeNext == \E i \in Ids : ReportOne(i) \/ \E j \in Ids \ {i} : ReportTrade(i, j)

LifeSpec == LifeInit /\ [][LifeNext]_told
=============================================================================
