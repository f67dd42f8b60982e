---------------------------- MODULE BlotterProofs ----------------------------
(***************************************************************************)
(* What the trader is shown, proved with TLAPS for any number of orders,    *)
(* order size, sessions and replacements: the blotter never hides a live    *)
(* order, deduplication drops nothing but repeated replacements, and a row  *)
(* follows its reports.                                                     *)
(***************************************************************************)
EXTENDS Blotter, FiniteSetTheorems, SequenceTheorems, TLAPS

(* A queue of reports and the queue after its first report was taken, or    *)
(* after another was appended.                                              *)
LEMMA QueueTaken ==
  ASSUME NEW S, NEW q \in Seq(S), q # << >>
  PROVE  /\ Head(q) \in S /\ Tail(q) \in Seq(S)
         /\ 1 \in DOMAIN q /\ Head(q) = q[1]
         /\ \A i \in DOMAIN Tail(q) : i + 1 \in DOMAIN q /\ Tail(q)[i] = q[i + 1]
         /\ \A i \in DOMAIN Tail(q) : i \in Nat /\ i >= 1
<1>1. /\ Len(q) \in Nat /\ Len(q) > 0 /\ DOMAIN q = 1..Len(q) /\ Head(q) = q[1]
      /\ Head(q) \in S /\ Tail(q) \in Seq(S)
      /\ DOMAIN Tail(q) = 1..(Len(q) - 1)
      /\ \A i \in 1..(Len(q) - 1) : Tail(q)[i] = q[i + 1]
  BY HeadTailProperties, LenProperties, EmptySeq
<1>2. QED
  BY <1>1

LEMMA QueueAppended ==
  ASSUME NEW S, NEW q \in Seq(S), NEW x \in S
  PROVE  /\ Append(q, x) \in Seq(S) /\ Len(q) \in Nat /\ DOMAIN q = 1..Len(q)
         /\ DOMAIN Append(q, x) = DOMAIN q \cup {Len(q) + 1}
         /\ Len(q) + 1 \notin DOMAIN q
         /\ \A i \in DOMAIN q : Append(q, x)[i] = q[i] /\ i < Len(q) + 1
         /\ Append(q, x)[Len(q) + 1] = x
<1>1. /\ Append(q, x) \in Seq(S) /\ Len(q) \in Nat /\ DOMAIN q = 1..Len(q)
      /\ DOMAIN Append(q, x) = 1..(Len(q) + 1)
      /\ \A i \in 1..Len(q) : Append(q, x)[i] = q[i]
      /\ Append(q, x)[Len(q) + 1] = x
  BY AppendProperties, LenProperties
<1>2. QED
  BY <1>1

LEMMA EmptyQueue ==
  ASSUME NEW S
  PROVE  << >> \in Seq(S) /\ DOMAIN << >> = {}
BY EmptySeq

LEMMA ClientName ==
  ASSUME NEW o \in ClOrdId
  PROVE  [space |-> "client", id |-> o] \in Name
<1>1. o \in Nat
  BY BlotterAssumption DEF ClOrdId
<1>2. QED
  BY <1>1 DEF Name

(* A replacement published is one more of them.                            *)
LEMMA ReplacementAdded ==
  ASSUME replacements \in Seq(ExecutionReport), NEW r \in ExecutionReport,
         replacements' = Append(replacements, r)
  PROVE  /\ replacements' \in Seq(ExecutionReport)
         /\ Repeated \subseteq Repeated' /\ Modified' = Modified \cup {r.name.id}
         /\ \A i \in DOMAIN replacements' :
              replacements'[i] = r \/ \E j \in DOMAIN replacements : replacements'[i] = replacements[j]
         /\ \A x : (x = r \/ \E j \in DOMAIN replacements : replacements[j] = x) =>
                  \E i \in DOMAIN replacements' : replacements'[i] = x
         /\ (\E i \in DOMAIN replacements : replacements[i] = r) => r \in Repeated'
<1> DEFINE n == Len(replacements) + 1
<1>1. /\ replacements' \in Seq(ExecutionReport)
      /\ DOMAIN replacements' = DOMAIN replacements \cup {n} /\ n \notin DOMAIN replacements
      /\ \A i \in DOMAIN replacements : replacements'[i] = replacements[i]
      /\ replacements'[n] = r
  BY QueueAppended
<1> HIDE DEF n
<1>2. Repeated \subseteq Repeated'
  BY <1>1 DEF Repeated
<1>3. Modified' = Modified \cup {r.name.id}
  BY <1>1 DEF Modified
<1>4. ASSUME NEW i \in DOMAIN replacements, replacements[i] = r PROVE r \in Repeated'
  BY <1>1, <1>4 DEF Repeated
<1>5. QED
  BY <1>1, <1>2, <1>3, <1>4

(* A report with a new key, or one that repeats a replacement, keeps the    *)
(* other keys apart, delivered or not.                                      *)
LEMMA PublishKeeps ==
  ASSUME BlotterTypeOK, ReportsInv, NEW o, NEW r \in ExecutionReport,
         r \in OnRecord => r \in Repeated', Repeated \subseteq Repeated',
         Publish(o, r), UNCHANGED <<keys, history>>
  PROVE  /\ wire' \in Seq(ExecutionReport)
         /\ OnRecord' \subseteq OnRecord \cup {r}
         /\ keys' = {history'[i] : i \in DOMAIN history'}
         /\ \A i \in DOMAIN wire' : wire'[i] \in keys' => wire'[i] \in Repeated'
         /\ \A i, j \in DOMAIN wire' : wire'[i] = wire'[j] => i = j \/ wire'[i] \in Repeated'
<1>1. wire \in Seq(ExecutionReport)
  BY DEF BlotterTypeOK
<1>2. CASE wire' = wire
  BY <1>1, <1>2 DEF ReportsInv, OnRecord
<1>3. CASE wire' = Append(wire, r)
  <2> DEFINE n == Len(wire) + 1
  <2>1. /\ wire' \in Seq(ExecutionReport)
        /\ DOMAIN wire' = DOMAIN wire \cup {n}
        /\ \A i \in DOMAIN wire : wire'[i] = wire[i]
        /\ wire'[n] = r
    BY <1>1, <1>3, QueueAppended
  <2> HIDE DEF n
  <2>2. r \in keys \/ (\E i \in DOMAIN wire : wire[i] = r) => r \in Repeated'
    BY DEF OnRecord
  <2>3. QED
    BY <2>1, <2>2 DEF ReportsInv, OnRecord
<1>4. QED
  BY <1>2, <1>3 DEF Publish

LEMMA OnRecordType ==
  ASSUME BlotterTypeOK, NEW r \in OnRecord
  PROVE  r \in ExecutionReport /\ r.number \in Nat /\ r.leaves \in 0..Quantity
<1>1. keys \subseteq ExecutionReport /\ wire \in Seq(ExecutionReport)
  BY DEF BlotterTypeOK
<1>2. \A i \in DOMAIN wire : wire[i] \in ExecutionReport
  BY <1>1, ElementOfSeq, LenProperties
<1>3. r \in ExecutionReport
  BY <1>1, <1>2 DEF OnRecord
<1>4. QED
  BY <1>3 DEF ExecutionReport

(* The core's ids: the next one is a new one.                               *)
Numbered == {o \in ClOrdId : coreId[o] # 0}

LEMMA NumberedFinite ==
  IsFiniteSet(Numbered) /\ Cardinality(Numbered) \in Nat /\ NextCoreId \in Nat
<1>1. IsFiniteSet(ClOrdId)
  BY FS_Interval, BlotterAssumption DEF ClOrdId
<1>2. IsFiniteSet(Numbered)
  BY <1>1, FS_Subset DEF Numbered
<1>3. Cardinality(Numbered) \in Nat
  BY <1>2, FS_CardinalityType
<1>4. QED
  BY <1>2, <1>3 DEF NextCoreId, Numbered

LEMMA NextNumbered ==
  ASSUME coreId \in [ClOrdId -> Nat], NEW o \in ClOrdId, coreId[o] = 0,
         coreId' = [coreId EXCEPT ![o] = NextCoreId]
  PROVE  /\ coreId' \in [ClOrdId -> Nat]
         /\ NextCoreId' = NextCoreId + 1
<1>1. NextCoreId \in Nat /\ NextCoreId = Cardinality(Numbered) + 1
      /\ IsFiniteSet(Numbered) /\ Cardinality(Numbered) \in Nat
  BY NumberedFinite DEF NextCoreId, Numbered
<1>2. NextCoreId # 0
  BY <1>1
<1>3. Numbered' = Numbered \cup {o} /\ o \notin Numbered
  BY <1>1, <1>2 DEF Numbered
<1>4. Cardinality(Numbered \cup {o}) = Cardinality(Numbered) + 1
  BY <1>1, <1>3, FS_AddElement
<1>5. NextCoreId' = Cardinality(Numbered') + 1
  BY DEF NextCoreId, Numbered
<1>6. QED
  BY <1>1, <1>3, <1>4, <1>5

-----------------------------------------------------------------------------
(* One lemma per thread.                                                    *)

LEMMA SessionStep ==
  ASSUME BlotterInv, Connect \/ Disconnect \/ UNCHANGED blotterVars
  PROVE  BlotterInv'
<1> USE DEF BlotterInv
<1>1. /\ connection' \in 0..MaxConnections /\ active' \in BOOLEAN
      /\ UNCHANGED <<ui, sent, market, coreId, trades, replacements, orders, keys, history,
                     handled, late>>
  <2>1. /\ connection \in 0..MaxConnections /\ active \in BOOLEAN
        /\ MaxConnections \in Nat
    BY BlotterAssumption DEF BlotterTypeOK
  <2>2. connection' \in 0..MaxConnections
    BY <2>1 DEF Connect, Disconnect, blotterVars
  <2>3. active' \in BOOLEAN
    BY <2>1, Zenon DEF Connect, Disconnect, blotterVars
  <2>4. QED
    BY <2>2, <2>3 DEF Connect, Disconnect, exchangeVars, modelVars, blotterVars
<1>2. \/ UNCHANGED <<requests, wire>>
      \/ requests' = << >> /\ wire' = << >>
  BY DEF Connect, Disconnect, exchangeVars, blotterVars
<1>3. requests' \in Seq(ClOrdId) /\ wire' \in Seq(ExecutionReport)
  BY <1>2, EmptyQueue DEF BlotterTypeOK
<1>4. /\ \A i \in DOMAIN requests' : i \in DOMAIN requests /\ requests'[i] = requests[i]
      /\ \A i \in DOMAIN wire' : i \in DOMAIN wire /\ wire'[i] = wire[i]
  BY <1>2, EmptyQueue
<1>5. BlotterTypeOK'
  BY <1>1, <1>3 DEF BlotterTypeOK
<1>6. IntentsInv'
  BY <1>1, <1>4 DEF IntentsInv
<1>6a. Repeated' = Repeated /\ Modified' = Modified
  BY <1>1 DEF Repeated, Modified
<1>7. ReportsInv' /\ DueInv'
  <2>1. OnRecord' \subseteq OnRecord /\ NextCoreId' = NextCoreId
    BY <1>1, <1>4 DEF OnRecord, NextCoreId
  <2>2. QED
    BY <1>1, <1>4, <1>6a, <2>1 DEF ReportsInv, DueInv
<1>8. ExposureNeverHidden' /\ HistoryComplete'
  BY <1>1, <1>6a DEF ExposureNeverHidden, HistoryComplete
<1>9. RowsFollowReports'
  BY <1>1, <1>6a DEF RowsFollowReports, Reported, RowOf
<1>10. QED
  BY <1>5, <1>6, <1>7, <1>8, <1>9

(* What only the network thread and the exchange change stays true when     *)
(* they are not involved.                                                   *)
LEMMA UiKeepsReports ==
  ASSUME ReportsInv, DueInv,
         UNCHANGED <<keys, history, wire, trades, replacements, coreId, market>>
  PROVE  ReportsInv' /\ DueInv' /\ Repeated' = Repeated /\ Modified' = Modified
<1>1. /\ OnRecord' = OnRecord /\ NextCoreId' = NextCoreId
      /\ Repeated' = Repeated /\ Modified' = Modified
  BY DEF OnRecord, NextCoreId, Repeated, Modified
<1>2. QED
  BY <1>1 DEF ReportsInv, DueInv

LEMMA UiStep ==
  ASSUME BlotterInv, trySubmitOrder \/ sendMessage \/ recordOrderIntent
  PROVE  BlotterInv'
<1> USE DEF BlotterInv
<1>0. /\ sent \in Nat /\ MaxOrders \in Nat /\ ClOrdId = 1..MaxOrders
      /\ ui \in [pc : {"idle", "write", "record"}, id : 0..MaxOrders]
      /\ requests \in Seq(ClOrdId)
  BY BlotterAssumption DEF BlotterTypeOK, ClOrdId
<1>1. /\ UNCHANGED <<connection, active, market, coreId, trades, replacements, wire, keys,
                     history, handled>>
  BY DEF trySubmitOrder, sendMessage, recordOrderIntent, exchangeVars, modelVars
<1>2. /\ ReportsInv' /\ DueInv' /\ HistoryComplete'
      /\ Repeated' = Repeated /\ Modified' = Modified
  BY <1>1, UiKeepsReports DEF HistoryComplete
<1>3. Reported(ui.id)' = Reported(ui.id)' /\ \A o : Reported(o)' = Reported(o)
  BY <1>1 DEF Reported
<1>4. CASE trySubmitOrder
  <2>1. /\ ui.pc = "idle" /\ sent < MaxOrders /\ sent' = sent + 1
        /\ ui' = [pc |-> "write", id |-> sent + 1]
        /\ UNCHANGED <<requests, orders, late>>
    BY <1>4 DEF trySubmitOrder, exchangeVars, modelVars
  <2>2. sent + 1 \in ClOrdId /\ ui.id = 0
    BY <1>0, <2>1 DEF IntentsInv, Idle
  <2>3. BlotterTypeOK'
    <3>1. /\ ui' \in [pc : {"idle", "write", "record"}, id : 0..MaxOrders]
          /\ sent' \in 0..MaxOrders
      BY <1>0, <2>1
    <3>2. QED
      BY <1>1, <2>1, <3>1 DEF BlotterTypeOK
  <2>4. IntentsInv'
    <3>1. market[sent + 1].status = "none"
      <4>1. sent + 1 > sent
        BY <1>0
      <4>2. QED
        BY <2>2, <4>1 DEF IntentsInv
    <3>2. \A i \in DOMAIN requests : requests[i] \in ClOrdId /\ requests[i] <= sent
      BY <1>0, ElementOfSeq, LenProperties DEF IntentsInv
    <3>3. ASSUME NEW i \in DOMAIN requests
          PROVE  /\ requests[i] <= sent' /\ market[requests[i]].status = "none"
                 /\ requests[i] # ui'.id
                 /\ \A j \in DOMAIN requests : requests[i] = requests[j] => i = j
      BY <1>0, <2>1, <3>2 DEF IntentsInv
    <3>4. ASSUME NEW o \in ClOrdId
          PROVE  /\ o > sent' => market[o].status = "none"
                 /\ market[o].status = "none" =>
                     /\ coreId[o] = 0
                     /\ o <= sent' /\ ui'.id # o =>
                          orders[o] = [status |-> "New", remaining |-> Quantity]
      <4>1. o \in Nat /\ (o > sent' => o > sent) /\ (o <= sent' /\ ui'.id # o => o <= sent)
        BY <1>0, <2>1
      <4>2. ui.id # o
        BY <1>0, <2>2
      <4>3. QED
        BY <4>1, <4>2 DEF IntentsInv
    <3>5. QED
      BY <1>0, <1>1, <2>1, <3>1, <3>3, <3>4 DEF IntentsInv
  <2>5. ExposureNeverHidden'
    <3>1. \A o \in ClOrdId : ui.id # o
      BY <1>0, <2>2
    <3>2. QED
      BY <1>1, <1>2, <2>1, <3>1 DEF ExposureNeverHidden
  <2>6. RowsFollowReports'
    BY <1>1, <1>2, <1>3, <2>1 DEF RowsFollowReports, RowOf
  <2>7. QED
    BY <1>2, <2>3, <2>4, <2>5, <2>6
<1>5. CASE sendMessage
  <2>1. /\ ui.pc = "write" /\ ui' = [ui EXCEPT !.pc = "record"]
        /\ requests' = requests \/ requests' = Append(requests, ui.id)
        /\ UNCHANGED <<sent, orders, late>>
    BY <1>5 DEF sendMessage, modelVars
  <2>2. ui'.pc = "record" /\ ui'.id = ui.id /\ ui.id = sent /\ ui.id \in ClOrdId
    BY <1>0, <2>1 DEF IntentsInv
  <2>3. /\ requests' \in Seq(ClOrdId)
        /\ \A i, j \in DOMAIN requests' : requests'[i] = requests'[j] => i = j
        /\ \A i \in DOMAIN requests' :
             requests'[i] <= sent /\ market[requests'[i]].status = "none"
    <3>1. CASE requests' = requests
      BY <1>0, <3>1 DEF IntentsInv
    <3>2. CASE requests' = Append(requests, ui.id)
      <4> DEFINE n == Len(requests) + 1
      <4>1. /\ requests' \in Seq(ClOrdId)
            /\ DOMAIN requests' = DOMAIN requests \cup {n}
            /\ \A i \in DOMAIN requests : requests'[i] = requests[i]
            /\ requests'[n] = ui.id
        BY <1>0, <2>2, <3>2, QueueAppended
      <4> HIDE DEF n
      <4>2. \A i \in DOMAIN requests : requests[i] # ui.id
        BY <2>1 DEF IntentsInv
      <4>3. ui.id <= sent /\ market[ui.id].status = "none"
        BY <1>0, <2>1, <2>2 DEF IntentsInv
      <4>4. QED
        BY <4>1, <4>2, <4>3 DEF IntentsInv
    <3>3. QED
      BY <2>1, <3>1, <3>2
  <2>4. ui' \in [pc : {"idle", "write", "record"}, id : 0..MaxOrders]
    BY <1>0, <2>1
  <2>5. BlotterTypeOK'
    BY <1>1, <2>1, <2>3, <2>4 DEF BlotterTypeOK
  <2>6. IntentsInv'
    BY <1>1, <2>1, <2>2, <2>3 DEF IntentsInv
  <2>7. ExposureNeverHidden' /\ RowsFollowReports'
    BY <1>1, <1>2, <1>3, <2>1, <2>2 DEF ExposureNeverHidden, RowsFollowReports, RowOf
  <2>8. QED
    BY <1>2, <2>5, <2>6, <2>7
<1>6. CASE recordOrderIntent
  <2> DEFINE row == [status |-> "New", remaining |-> Quantity]
  <2>1. /\ ui.pc = "record" /\ ui' = Idle
        /\ orders' = [orders EXCEPT ![ui.id] = row]
        /\ late' = IF Reported(ui.id) = {} THEN late ELSE late \cup {ui.id}
        /\ UNCHANGED <<sent, requests>>
    BY <1>6 DEF recordOrderIntent, exchangeVars
  <2>2. ui.id = sent /\ ui.id \in ClOrdId /\ ui'.id = 0 /\ ui'.pc = "idle"
    BY <1>0, <2>1 DEF IntentsInv, Idle
  <2>3. row \in Row /\ row # NoRow /\ row.remaining = Quantity
    <3>1. row \in Row
      BY BlotterAssumption DEF Row
    <3>2. row.status = "New" /\ NoRow.status = "none"
      BY DEF NoRow
    <3>3. QED
      BY <3>1, <3>2
  <2>4. orders'[ui.id] = row /\ \A o \in ClOrdId : o # ui.id => orders'[o] = orders[o]
    BY <2>1, <2>2 DEF BlotterTypeOK
  <2>5. BlotterTypeOK'
    <3>1. orders' \in [ClOrdId -> Row \cup {NoRow}]
      BY <2>1, <2>3 DEF BlotterTypeOK
    <3>2. ui' \in [pc : {"idle", "write", "record"}, id : 0..MaxOrders]
      BY <1>0, <2>1 DEF Idle
    <3>3. late' \subseteq ClOrdId
      BY <2>1, <2>2 DEF BlotterTypeOK
    <3>4. QED
      BY <1>1, <2>1, <3>1, <3>2, <3>3 DEF BlotterTypeOK
  <2>6. IntentsInv'
    BY <1>1, <2>1, <2>2, <2>4 DEF IntentsInv
  <2>7. ExposureNeverHidden'
    <3>1. \A o \in ClOrdId : market[o].remaining <= Quantity
      BY BlotterAssumption DEF BlotterTypeOK
    <3>2. ASSUME NEW o \in ClOrdId, market[o].status = "live"
          PROVE  /\ orders'[o] # NoRow
                 /\ o \notin Modified => orders'[o].remaining >= market[o].remaining
      <4>1. CASE o = ui.id
        BY <2>3, <2>4, <3>1, <4>1, BlotterAssumption DEF BlotterTypeOK
      <4>2. CASE o # ui.id
        BY <2>4, <3>2, <4>2 DEF ExposureNeverHidden
      <4>3. QED
        BY <4>1, <4>2
    <3>3. QED
      BY <1>1, <1>2, <3>2 DEF ExposureNeverHidden
  <2>8. RowsFollowReports'
    <3> SUFFICES ASSUME NEW o \in ClOrdId, o \notin late', NEW i \in Reported(o),
                        \A j \in Reported(o) : j <= i, handled[i] \notin Repeated
                 PROVE  orders'[o] = RowOf(handled[i])
      BY <1>1, <1>2, <1>3 DEF RowsFollowReports, RowOf
    <3>1. o # ui.id /\ o \notin late
      BY <2>1
    <3>2. QED
      BY <2>4, <3>1 DEF RowsFollowReports
  <2>9. QED
    BY <1>2, <2>5, <2>6, <2>7, <2>8
<1>7. QED
  BY <1>4, <1>5, <1>6

(* The exchange takes the first request: what it leaves of the requests.    *)
LEMMA RequestTaken ==
  ASSUME BlotterInv, requests # << >>, requests' = Tail(requests)
  PROVE  LET o == Head(requests)
         IN /\ o \in ClOrdId /\ o <= sent /\ market[o].status = "none" /\ coreId[o] = 0
            /\ ui.pc = "write" => ui.id # o
            /\ requests' \in Seq(ClOrdId)
            /\ \A i, j \in DOMAIN requests' : requests'[i] = requests'[j] => i = j
            /\ \A i \in DOMAIN requests' :
                 /\ requests'[i] # o
                 /\ \E k \in DOMAIN requests : requests'[i] = requests[k]
<1> DEFINE o == Head(requests)
<1>1. requests \in Seq(ClOrdId)
  BY DEF BlotterInv, BlotterTypeOK
<1>2. /\ o \in ClOrdId /\ requests' \in Seq(ClOrdId) /\ 1 \in DOMAIN requests
      /\ o = requests[1]
      /\ \A i \in DOMAIN requests' :
           /\ i + 1 \in DOMAIN requests /\ requests'[i] = requests[i + 1]
           /\ i \in Nat /\ i >= 1
  BY <1>1, QueueTaken
<1>3. \A i, j \in DOMAIN requests : requests[i] = requests[j] => i = j
  BY DEF BlotterInv, IntentsInv
<1>4. \A i \in DOMAIN requests' : i + 1 # 1 /\ \A j \in DOMAIN requests' : i + 1 = j + 1 => i = j
  BY <1>2
<1>5. /\ o <= sent /\ market[o].status = "none" /\ coreId[o] = 0
      /\ ui.pc = "write" => ui.id # o
  BY <1>2 DEF BlotterInv, IntentsInv
<1>6. QED
  BY <1>2, <1>3, <1>4, <1>5

(* A step of the exchange that takes a request.                             *)
LEMMA RequestStep ==
  ASSUME BlotterInv, Accept \/ Reject \/ Bounce
  PROVE  BlotterInv'
<1> USE DEF BlotterInv
<1> DEFINE o == Head(requests)
           accepted == [text |-> "NEW", number |-> NextCoreId,
                        name |-> [space |-> "client", id |-> o],
                        status |-> "New", price |-> 0, leaves |-> Quantity]
           rejected == [text |-> "REJECT", number |-> NextCoreId, status |-> "Rejected",
                        name |-> [space |-> "core", id |-> NextCoreId], price |-> 0,
                        leaves |-> 0]
<1>1. /\ requests # << >> /\ requests' = Tail(requests)
      /\ UNCHANGED <<connection, active, ui, sent, trades, replacements, orders, keys, history,
                     handled, late>>
  BY DEF Accept, Reject, Bounce, unchangedByExchange, modelVars
<1>1a. Repeated' = Repeated /\ Modified' = Modified
  BY <1>1 DEF Repeated, Modified
<1>2. /\ o \in ClOrdId /\ o <= sent /\ market[o].status = "none" /\ coreId[o] = 0
      /\ ui.pc = "write" => ui.id # o
      /\ requests' \in Seq(ClOrdId)
      /\ \A i, j \in DOMAIN requests' : requests'[i] = requests'[j] => i = j
      /\ \A i \in DOMAIN requests' :
           /\ requests'[i] # o
           /\ \E k \in DOMAIN requests : requests'[i] = requests[k]
  BY <1>1, RequestTaken
<1>3. \E st \in {"live", "done"}, n \in {0, Quantity} :
        /\ market' = [market EXCEPT ![o] = [status |-> st, remaining |-> n,
                                            due |-> 0, session |-> connection]]
  BY DEF Accept, Reject, Bounce
<1>4. /\ market' \in [ClOrdId -> [status : {"none", "live", "done"},
                                  remaining : 0..Quantity, due : 0..Quantity, session : 0..MaxConnections]]
      /\ market'[o].status \in {"live", "done"} /\ market'[o].remaining <= Quantity
      /\ market'[o].due = 0
      /\ \A x \in ClOrdId : x # o => market'[x] = market[x]
  <2>1. PICK st \in {"live", "done"}, n \in {0, Quantity} :
          market' = [market EXCEPT ![o] = [status |-> st, remaining |-> n,
                                           due |-> 0, session |-> connection]]
    BY <1>3
  <2>2. /\ market \in [ClOrdId -> [status : {"none", "live", "done"},
                                   remaining : 0..Quantity, due : 0..Quantity, session : 0..MaxConnections]]
        /\ connection \in 0..MaxConnections
    BY DEF BlotterTypeOK
  <2>3. n \in 0..Quantity /\ Quantity \in Nat
    BY BlotterAssumption
  <2> DEFINE entry == [status |-> st, remaining |-> n, due |-> 0, session |-> connection]
  <2>4. entry \in [status : {"none", "live", "done"}, remaining : 0..Quantity,
                   due : 0..Quantity, session : 0..MaxConnections]
    BY <2>2, <2>3
  <2>5. entry.status = st /\ entry.remaining = n /\ entry.due = 0
    OBVIOUS
  <2> HIDE DEF entry, o
  <2>6. market' = [market EXCEPT ![o] = entry]
    BY <2>1 DEF entry
  <2>7. QED
    BY <1>2, <2>2, <2>3, <2>4, <2>5, <2>6
<1>5. NextCoreId \in Nat /\ coreId \in [ClOrdId -> Nat]
  BY NumberedFinite DEF BlotterTypeOK
<1>6. \/ coreId' = coreId
      \/ coreId' = [coreId EXCEPT ![o] = NextCoreId]
  BY DEF Accept, Reject, Bounce
<1>7. /\ coreId' \in [ClOrdId -> Nat]
      /\ NextCoreId' \in {NextCoreId, NextCoreId + 1}
      /\ \A x \in ClOrdId : x # o => coreId'[x] = coreId[x]
  <2>1. CASE coreId' = coreId
    BY <1>5, <2>1 DEF NextCoreId
  <2>2. CASE coreId' = [coreId EXCEPT ![o] = NextCoreId]
    BY <1>2, <1>5, <2>2, NextNumbered
  <2>3. QED
    BY <1>6, <2>1, <2>2
<1> HIDE DEF o
<1>8. IntentsInv'
  <2>1. \A i \in DOMAIN requests' :
          /\ requests'[i] <= sent /\ market'[requests'[i]].status = "none"
          /\ ui.pc = "write" => requests'[i] # ui.id
    <3> SUFFICES ASSUME NEW i \in DOMAIN requests'
                 PROVE  /\ requests'[i] <= sent /\ market'[requests'[i]].status = "none"
                        /\ ui.pc = "write" => requests'[i] # ui.id
      OBVIOUS
    <3>1. PICK k \in DOMAIN requests : requests'[i] = requests[k]
      BY <1>2
    <3>2. requests'[i] \in ClOrdId
      BY <1>2, ElementOfSeq, LenProperties
    <3>3. market'[requests'[i]] = market[requests[k]]
      BY <1>2, <1>4, <3>1, <3>2
    <3>4. QED
      BY <3>1, <3>3 DEF IntentsInv
  <2>2. sent \in 0..MaxOrders /\ ui \in [pc : {"idle", "write", "record"}, id : 0..MaxOrders]
    BY DEF BlotterTypeOK
  <2>3. ui.pc = "write" => market'[ui.id].status = "none"
    <3>1. ui.pc = "write" => ui.id \in ClOrdId /\ ui.id # o
      BY <1>2, <2>2 DEF IntentsInv, ClOrdId
    <3>2. QED
      BY <1>4, <3>1 DEF IntentsInv
  <2>4. ASSUME NEW x \in ClOrdId
        PROVE  /\ x > sent => market'[x].status = "none"
               /\ market'[x].status = "none" =>
                    /\ coreId'[x] = 0
                    /\ x <= sent /\ ui.id # x =>
                         orders[x] = [status |-> "New", remaining |-> Quantity]
    <3>1. CASE x = o
      <4>1. ~(x > sent)
        BY <1>2, <2>2, <3>1 DEF ClOrdId
      <4>2. QED
        BY <1>4, <3>1, <4>1
    <3>2. CASE x # o
      BY <1>4, <1>7, <3>2 DEF IntentsInv
    <3>3. QED
      BY <3>1, <3>2
  <2>5. QED
    BY <1>1, <1>2, <2>1, <2>3, <2>4 DEF IntentsInv
<1>9. ExposureNeverHidden'
  <2> SUFFICES ASSUME NEW x \in ClOrdId, market'[x].status = "live", ui.id # x
               PROVE  /\ orders[x] # NoRow
                      /\ x \notin Modified => orders[x].remaining >= market'[x].remaining
    BY <1>1, <1>1a DEF ExposureNeverHidden
  <2>1. CASE x = o
    <3>1. orders[x] = [status |-> "New", remaining |-> Quantity]
      BY <1>2, <2>1 DEF IntentsInv
    <3>2. orders[x].status = "New" /\ orders[x].remaining = Quantity /\ NoRow.status = "none"
      BY <3>1 DEF NoRow
    <3>3. market'[x].remaining \in 0..Quantity /\ Quantity \in Nat
      BY <1>4, BlotterAssumption
    <3>4. QED
      BY <3>2, <3>3
  <2>2. CASE x # o
    BY <1>4, <2>2 DEF ExposureNeverHidden
  <2>3. QED
    BY <2>1, <2>2
<1>10. HistoryComplete' /\ RowsFollowReports' /\ DueInv'
  <2>1. \A x : Reported(x)' = Reported(x)
    BY <1>1 DEF Reported
  <2>2. HistoryComplete' /\ RowsFollowReports'
    BY <1>1, <1>1a, <2>1 DEF HistoryComplete, RowsFollowReports, RowOf
  <2>3. DueInv'
    <3> SUFFICES ASSUME NEW x \in ClOrdId, market'[x].due > 0
                 PROVE  market'[x].status = "live"
      BY DEF DueInv
    <3>1. x # o /\ market'[x] = market[x]
      BY <1>4
    <3>2. QED
      BY <3>1 DEF DueInv
  <2>4. QED
    BY <2>2, <2>3
<1>11. ASSUME NEW r \in ExecutionReport,
              r.text = "REJECT" => r.name.space = "core" /\ r.number < NextCoreId',
              r.text # "REJECT" =>
                /\ r.text = "NEW" /\ r.name.space = "client" /\ r.name.id = o
                /\ ~Ends(r.status) /\ r.leaves = Quantity,
              r \notin OnRecord, Publish(o, r)
       PROVE  wire' \in Seq(ExecutionReport) /\ ReportsInv'
  <2>1. /\ wire' \in Seq(ExecutionReport)
        /\ OnRecord' \subseteq OnRecord \cup {r}
        /\ keys' = {history'[i] : i \in DOMAIN history'}
        /\ \A i \in DOMAIN wire' : wire'[i] \in keys' => wire'[i] \in Repeated'
        /\ \A i, j \in DOMAIN wire' : wire'[i] = wire'[j] => i = j \/ wire'[i] \in Repeated'
    BY <1>1, <1>1a, <1>11, PublishKeeps
  <2>2. ASSUME NEW x \in OnRecord'
        PROVE  /\ x.text = "TRADE" => x.number <= trades
               /\ x.text = "REPLACED" => \E i \in DOMAIN replacements : replacements[i] = x
               /\ x.text = "REJECT" => x.name.space = "core" /\ x.number < NextCoreId'
               /\ x.text # "REJECT" =>
                    /\ x.name.space = "client" /\ x.name.id \in ClOrdId
                    /\ market'[x.name.id].status # "none"
                    /\ market'[x.name.id].status = "live" =>
                         /\ ~Ends(x.status)
                         /\ x.name.id \notin Modified =>
                              x.leaves >= market'[x.name.id].remaining
    <3>1. CASE x = r
      <4>1. market'[o].remaining \in 0..Quantity /\ Quantity \in Nat
        BY <1>2, <1>4, BlotterAssumption
      <4>2. QED
        BY <1>2, <1>4, <1>11, <3>1, <4>1
    <3>2. CASE x \in OnRecord
      <4>1. x \in ExecutionReport /\ x.number \in Nat
        BY <3>2, OnRecordType
      <4>2. x.number < NextCoreId => x.number < NextCoreId'
        BY <1>5, <1>7, <4>1
      <4>3. x.text # "REJECT" => x.name.id # o
        BY <1>2, <3>2 DEF ReportsInv
      <4>4. QED
        BY <1>4, <3>2, <4>2, <4>3 DEF ReportsInv
    <3>3. QED
      BY <2>1, <3>1, <3>2
  <2>3. QED
    BY <1>1, <1>1a, <2>1, <2>2 DEF ReportsInv
<1>12. wire' \in Seq(ExecutionReport) /\ ReportsInv'
  <2>1. CASE Accept
    <3>1. accepted = Report("NEW", NextCoreId, o, "New", 0, Quantity)
      BY DEF Report
    <3>2. Quantity \in 0..Quantity /\ 0 \in 0..MaxPrice
      BY BlotterAssumption
    <3>3. /\ accepted \in ExecutionReport
          /\ accepted.text = "NEW" /\ accepted.name.space = "client"
          /\ accepted.name.id = o /\ accepted.status = "New" /\ accepted.leaves = Quantity
      BY <1>2, <1>5, <3>1, <3>2, ClientName DEF Report, ExecutionReport
    <3>4. Publish(o, accepted)
      BY <2>1, <3>1 DEF Accept, o
    <3> HIDE DEF accepted
    <3>5. accepted \notin OnRecord
      BY <1>2, <3>3 DEF ReportsInv
    <3>6. QED
      BY <1>11, <3>3, <3>4, <3>5 DEF Ends
  <2>2. CASE Reject
    <3>1. [space |-> "core", id |-> NextCoreId] \in Name /\ 0 \in 0..Quantity /\ 0 \in 0..MaxPrice
      BY <1>5, BlotterAssumption DEF Name
    <3>2. /\ rejected \in ExecutionReport /\ rejected.text = "REJECT"
          /\ rejected.name.space = "core" /\ rejected.number = NextCoreId
      BY <1>5, <3>1 DEF ExecutionReport
    <3>3. Publish(o, rejected)
      BY <2>2 DEF Reject, o
    <3> HIDE DEF rejected
    <3>4. rejected \notin OnRecord
      <4>1. ~(NextCoreId < NextCoreId)
        BY <1>5
      <4>2. QED
        BY <3>2, <4>1 DEF ReportsInv
    <3>5. NextCoreId < NextCoreId'
      <4>1. coreId' = [coreId EXCEPT ![o] = NextCoreId]
        BY <2>2 DEF Reject, o
      <4>2. NextCoreId' = NextCoreId + 1
        BY <1>2, <1>5, <4>1, NextNumbered
      <4>3. QED
        BY <1>5, <4>2
    <3>6. QED
      BY <1>11, <3>2, <3>3, <3>4, <3>5
  <2>3. CASE Bounce
    <3>1. wire' = wire /\ OnRecord' = OnRecord /\ coreId' = coreId
      BY <1>1, <2>3 DEF Bounce, OnRecord
    <3>2. NextCoreId' = NextCoreId
      BY <3>1 DEF NextCoreId
    <3>3. \A x \in OnRecord : x.text # "REJECT" => x.name.id # o
      BY <1>2 DEF ReportsInv
    <3>4. wire' \in Seq(ExecutionReport)
      BY <3>1 DEF BlotterTypeOK
    <3>5. ASSUME NEW x \in OnRecord, x.text # "REJECT"
          PROVE  x.name.id \in ClOrdId /\ market'[x.name.id] = market[x.name.id]
      BY <1>4, <3>3, <3>5 DEF ReportsInv
    <3>6. QED
      BY <1>1, <1>1a, <3>1, <3>2, <3>4, <3>5 DEF ReportsInv
  <2>4. QED
    BY <2>1, <2>2, <2>3
<1>13. BlotterTypeOK'
  BY <1>1, <1>2, <1>4, <1>7, <1>12 DEF BlotterTypeOK
<1>14. QED
  BY <1>8, <1>9, <1>10, <1>12, <1>13

(* A step of the exchange on one live order, o: what is left of it may grow *)
(* only by a replacement, and trades stay due only of a live order.         *)
OrderChanged(o) ==
  /\ market' \in [ClOrdId -> [status : {"none", "live", "done"}, remaining : 0..Quantity,
                              due : 0..Quantity, session : 0..MaxConnections]]
  /\ market'[o].status \in {"live", "done"}
  /\ market'[o].due > 0 => market'[o].status = "live"
  /\ o \notin Modified' => market'[o].remaining <= market[o].remaining
  /\ \A x \in ClOrdId : x # o => market'[x] = market[x]
  /\ Modified \subseteq Modified' /\ Repeated \subseteq Repeated'
  /\ UNCHANGED <<connection, active, ui, sent, requests, coreId, orders, keys, history,
                 handled, late>>

(* What the client and the requests have to do with it.                     *)
LEMMA OrderStep ==
  ASSUME BlotterInv, NEW o \in ClOrdId, market[o].status = "live", OrderChanged(o)
  PROVE  /\ IntentsInv' /\ DueInv'
         /\ ExposureNeverHidden' /\ HistoryComplete' /\ RowsFollowReports'
<1> USE DEF BlotterInv
<1>0. /\ market \in [ClOrdId -> [status : {"none", "live", "done"}, remaining : 0..Quantity,
                                 due : 0..Quantity, session : 0..MaxConnections]]
      /\ Quantity \in Nat
      /\ UNCHANGED <<ui, sent, requests, coreId, orders, keys, history, handled, late>>
      /\ market'[o].status # "none"
      /\ \A x \in ClOrdId : x # o => market'[x] = market[x]
  BY BlotterAssumption DEF BlotterTypeOK, OrderChanged
<1>1. IntentsInv'
  <2>1. \A i \in DOMAIN requests : requests[i] \in ClOrdId /\ requests[i] # o
    <3>1. requests \in Seq(ClOrdId)
      BY DEF BlotterTypeOK
    <3>2. QED
      BY <3>1, ElementOfSeq, LenProperties DEF IntentsInv
  <2>2. ui.pc = "write" => ui.id \in ClOrdId /\ ui.id # o
    <3>1. ui \in [pc : {"idle", "write", "record"}, id : 0..MaxOrders]
      BY DEF BlotterTypeOK
    <3>2. QED
      BY <3>1 DEF IntentsInv, ClOrdId
  <2>3. \A x \in ClOrdId : x > sent => x # o
    BY DEF IntentsInv
  <2>4. QED
    BY <1>0, <2>1, <2>2, <2>3 DEF IntentsInv
<1>2. DueInv'
  BY <1>0 DEF DueInv, OrderChanged
<1>3. ExposureNeverHidden'
  <2> SUFFICES ASSUME NEW x \in ClOrdId, market'[x].status = "live", ui.id # x
               PROVE  /\ orders[x] # NoRow
                      /\ x \notin Modified' => orders[x].remaining >= market'[x].remaining
    BY <1>0 DEF ExposureNeverHidden
  <2>1. /\ market[x].status = "live"
        /\ x \notin Modified' => market'[x].remaining <= market[x].remaining
    <3>1. CASE x = o
      BY <3>1 DEF OrderChanged
    <3>2. CASE x # o
      BY <1>0, <3>2
    <3>3. QED
      BY <3>1, <3>2
  <2>2. /\ orders[x] # NoRow
        /\ x \notin Modified' => orders[x].remaining >= market[x].remaining
    BY <2>1 DEF ExposureNeverHidden, OrderChanged
  <2>3. orders[x].remaining \in 0..Quantity
    BY <2>2 DEF BlotterTypeOK, Row
  <2>4. market'[x].remaining \in 0..Quantity /\ market[x].remaining \in 0..Quantity
    BY <1>0 DEF OrderChanged
  <2>5. QED
    BY <1>0, <2>1, <2>2, <2>3, <2>4
<1>4. HistoryComplete' /\ RowsFollowReports'
  <2>1. \A x : Reported(x)' = Reported(x)
    BY <1>0 DEF Reported
  <2>2. Repeated \subseteq Repeated'
    BY DEF OrderChanged
  <2>3. QED
    BY <1>0, <2>1, <2>2 DEF HistoryComplete, RowsFollowReports, RowOf
<1>5. QED
  BY <1>1, <1>2, <1>3, <1>4

(* What the reports have to do with it: one more of that order at most.     *)
LEMMA OrderReports ==
  ASSUME BlotterInv, NEW o \in ClOrdId, market[o].status = "live", OrderChanged(o),
         trades' \in Nat, trades <= trades',
         \A i \in DOMAIN wire' : wire'[i] \in keys' => wire'[i] \in Repeated',
         \A i, j \in DOMAIN wire' : wire'[i] = wire'[j] => i = j \/ wire'[i] \in Repeated',
         \A i \in DOMAIN replacements' : replacements'[i].name.id \in ClOrdId,
         \A x : (\E i \in DOMAIN replacements : replacements[i] = x) =>
                  \E i \in DOMAIN replacements' : replacements'[i] = x,
         \A x \in OnRecord' :
           \/ x \in OnRecord
           \/ /\ x.text # "REJECT" /\ x.name.space = "client" /\ x.name.id = o
              /\ x.text = "TRADE" => x.number <= trades'
              /\ x.text = "REPLACED" => \E i \in DOMAIN replacements' : replacements'[i] = x
              /\ market'[o].status = "live" =>
                   /\ ~Ends(x.status)
                   /\ o \notin Modified' => x.leaves >= market'[o].remaining
  PROVE  ReportsInv'
<1> USE DEF BlotterInv
<1>0. /\ market \in [ClOrdId -> [status : {"none", "live", "done"}, remaining : 0..Quantity,
                                 due : 0..Quantity, session : 0..MaxConnections]]
      /\ Quantity \in Nat /\ trades \in Nat /\ UNCHANGED <<keys, history>>
      /\ NextCoreId' = NextCoreId
      /\ market'[o].status # "none"
      /\ market'[o].remaining \in 0..Quantity
  BY BlotterAssumption DEF BlotterTypeOK, OrderChanged, NextCoreId
<1>1. ASSUME NEW x \in OnRecord'
      PROVE  /\ x.text = "TRADE" => x.number <= trades'
             /\ x.text = "REPLACED" => \E i \in DOMAIN replacements' : replacements'[i] = x
             /\ x.text = "REJECT" => x.name.space = "core" /\ x.number < NextCoreId
             /\ x.text # "REJECT" =>
                  /\ x.name.space = "client" /\ x.name.id \in ClOrdId
                  /\ market'[x.name.id].status # "none"
                  /\ market'[x.name.id].status = "live" =>
                       /\ ~Ends(x.status)
                       /\ x.name.id \notin Modified' =>
                            x.leaves >= market'[x.name.id].remaining
  <2>1. CASE x \notin OnRecord
    BY <1>0, <1>1, <2>1
  <2>2. CASE x \in OnRecord
    <3>1. x.number \in Nat /\ x.leaves \in 0..Quantity
      BY <2>2, OnRecordType
    <3>2. x.text = "TRADE" => x.number <= trades'
      BY <1>0, <2>2, <3>1 DEF ReportsInv
    <3>3. x.text = "REPLACED" => \E i \in DOMAIN replacements' : replacements'[i] = x
      BY <2>2 DEF ReportsInv
    <3>4. CASE x.text # "REJECT" /\ x.name.id = o
      <4>1. /\ ~Ends(x.status)
            /\ o \notin Modified' => x.leaves >= market[o].remaining
        BY <2>2, <3>4 DEF ReportsInv, OrderChanged
      <4>2. o \notin Modified' => x.leaves >= market'[o].remaining
        BY <1>0, <3>1, <4>1 DEF OrderChanged
      <4>3. QED
        BY <1>0, <2>2, <3>2, <3>3, <3>4, <4>1, <4>2 DEF ReportsInv
    <3>5. CASE ~(x.text # "REJECT" /\ x.name.id = o)
      <4>1. x.text # "REJECT" => /\ x.name.id \in ClOrdId /\ x.name.id # o
                                 /\ market'[x.name.id] = market[x.name.id]
        BY <2>2, <3>5 DEF ReportsInv, OrderChanged
      <4>2. x.name.id \notin Modified' => x.name.id \notin Modified
        BY DEF OrderChanged
      <4>3. QED
        BY <2>2, <3>2, <3>3, <4>1, <4>2 DEF ReportsInv
    <3>6. QED
      BY <3>4, <3>5
  <2>3. QED
    BY <2>1, <2>2
<1>2. keys' = {history'[i] : i \in DOMAIN history'}
  BY <1>0 DEF ReportsInv
<1>3. QED
  BY <1>0, <1>1, <1>2 DEF ReportsInv

LEMMA NoReplacement ==
  ASSUME UNCHANGED replacements
  PROVE  Modified' = Modified /\ Repeated' = Repeated
BY DEF Modified, Repeated

LEMMA MatchStep ==
  ASSUME BlotterInv, NEW o \in ClOrdId, NEW q \in 1..Quantity, NEW k \in 0..q, Match(o, q, k)
  PROVE  BlotterInv'
<1> USE DEF BlotterInv
<1> DEFINE n == market[o].remaining - q
<1>1. /\ market[o].status = "live" /\ q <= market[o].remaining
      /\ market' = [market EXCEPT ![o].remaining = n, ![o].due = k]
      /\ UNCHANGED <<connection, active, ui, sent, requests, coreId, trades, replacements, wire,
                     orders, keys, history, handled, late>>
  BY DEF Match, unchangedByExchange, modelVars
<1>2. /\ market \in [ClOrdId -> [status : {"none", "live", "done"}, remaining : 0..Quantity,
                                 due : 0..Quantity, session : 0..MaxConnections]]
      /\ n \in 0..Quantity /\ n <= market[o].remaining /\ k \in 0..Quantity
  <2>1. market \in [ClOrdId -> [status : {"none", "live", "done"}, remaining : 0..Quantity,
                                due : 0..Quantity, session : 0..MaxConnections]]
    BY DEF BlotterTypeOK
  <2>2. market[o].remaining \in 0..Quantity /\ Quantity \in Nat /\ q \in Nat
    BY <2>1, BlotterAssumption
  <2>3. n \in 0..Quantity /\ n <= market[o].remaining
    BY <1>1, <2>2
  <2>4. k \in 0..Quantity
    BY <2>2
  <2>5. QED
    BY <2>1, <2>3, <2>4
<1> HIDE DEF n
<1>3. /\ market' \in [ClOrdId -> [status : {"none", "live", "done"}, remaining : 0..Quantity,
                                  due : 0..Quantity, session : 0..MaxConnections]]
      /\ market'[o].status = "live" /\ market'[o].remaining = n
      /\ \A x \in ClOrdId : x # o => market'[x] = market[x]
  BY <1>1, <1>2
<1>4. OrderChanged(o)
  BY <1>1, <1>2, <1>3, NoReplacement DEF OrderChanged
<1>5. IntentsInv' /\ DueInv' /\ ExposureNeverHidden' /\ HistoryComplete' /\ RowsFollowReports'
  BY <1>1, <1>4, OrderStep
<1>6. OnRecord' = OnRecord /\ trades \in Nat /\ Repeated' = Repeated
  BY <1>1, NoReplacement DEF OnRecord, BlotterTypeOK
<1>7. trades' \in Nat /\ trades <= trades'
  BY <1>1, <1>6
<1>8. /\ \A i \in DOMAIN wire' : wire'[i] \in keys' => wire'[i] \in Repeated'
      /\ \A i, j \in DOMAIN wire' : wire'[i] = wire'[j] => i = j \/ wire'[i] \in Repeated'
      /\ \A i \in DOMAIN replacements' : replacements'[i].name.id \in ClOrdId
  BY <1>1, <1>6 DEF ReportsInv
<1>9. ReportsInv'
  BY <1>1, <1>4, <1>6, <1>7, <1>8, OrderReports
<1>10. BlotterTypeOK'
  BY <1>1, <1>3 DEF BlotterTypeOK
<1>11. QED
  BY <1>5, <1>9, <1>10

(* A trade settled or a cancellation: a report with a key of its own.       *)
LEMMA FreshReport ==
  ASSUME BlotterInv, NEW o \in ClOrdId, market[o].status = "live", OrderChanged(o),
         trades' \in Nat, trades <= trades', UNCHANGED replacements,
         NEW r \in ExecutionReport, r \notin OnRecord, Publish(o, r),
         r.text \in {"CANCELED", "TRADE"}, r.name.space = "client", r.name.id = o,
         r.text = "TRADE" => r.number <= trades',
         market'[o].status = "live" => ~Ends(r.status) /\ r.leaves >= market'[o].remaining
  PROVE  BlotterInv'
<1> USE DEF BlotterInv
<1>1. /\ UNCHANGED <<connection, active, ui, sent, requests, coreId, orders, keys, history,
                     handled, late>>
      /\ market' \in [ClOrdId -> [status : {"none", "live", "done"}, remaining : 0..Quantity,
                                  due : 0..Quantity, session : 0..MaxConnections]]
      /\ Repeated' = Repeated
  BY NoReplacement DEF OrderChanged
<1>2. IntentsInv' /\ DueInv' /\ ExposureNeverHidden' /\ HistoryComplete' /\ RowsFollowReports'
  BY OrderStep
<1>3. /\ wire' \in Seq(ExecutionReport)
      /\ OnRecord' \subseteq OnRecord \cup {r}
      /\ \A i \in DOMAIN wire' : wire'[i] \in keys' => wire'[i] \in Repeated'
      /\ \A i, j \in DOMAIN wire' : wire'[i] = wire'[j] => i = j \/ wire'[i] \in Repeated'
  BY <1>1, PublishKeeps
<1>4. \A i \in DOMAIN replacements' : replacements'[i].name.id \in ClOrdId
  BY DEF ReportsInv
<1>5. r.text # "REJECT" /\ r.text # "REPLACED"
  OBVIOUS
<1>6. ReportsInv'
  BY <1>3, <1>4, <1>5, OrderReports
<1>7. BlotterTypeOK'
  BY <1>1, <1>3 DEF BlotterTypeOK
<1>8. QED
  BY <1>2, <1>6, <1>7

LEMMA SettleStep ==
  ASSUME BlotterInv, NEW o \in ClOrdId, Settle(o)
  PROVE  BlotterInv'
<1> USE DEF BlotterInv
<1> DEFINE left == market[o].remaining
           st == IF left = 0 THEN "done" ELSE "live"
           d == IF left = 0 THEN 0 ELSE market[o].due - 1
           said == IF left = 0 THEN "Filled" ELSE "PartiallyFilled"
           number == trades + 1
           r == Report("TRADE", number, o, said, 0, left)
<1>1. /\ market[o].due > 0 /\ trades' = number /\ Publish(o, r)
      /\ market' = [market EXCEPT ![o].due = d, ![o].status = st]
      /\ UNCHANGED <<connection, active, ui, sent, requests, coreId, replacements,
                     orders, keys, history, handled, late>>
  BY DEF Settle, unchangedByExchange, modelVars
<1>2. /\ market \in [ClOrdId -> [status : {"none", "live", "done"}, remaining : 0..Quantity,
                                 due : 0..Quantity, session : 0..MaxConnections]]
      /\ market[o].status = "live" /\ left \in 0..Quantity /\ Quantity \in Nat
      /\ trades \in Nat
  BY <1>1, BlotterAssumption DEF BlotterTypeOK, DueInv
<1>3. d \in 0..Quantity /\ (d > 0 => st = "live")
  BY <1>1, <1>2
<1>4. /\ said \in {"PartiallyFilled", "Filled"} /\ st \in {"live", "done"}
      /\ st = "live" => ~Ends(said)
  BY DEF Ends
<1>5. number \in Nat /\ trades <= number /\ ~(number <= trades) /\ 0 \in 0..MaxPrice
  BY <1>2, BlotterAssumption
<1> HIDE DEF left, st, d, said, number
<1>6. /\ r \in ExecutionReport /\ r.text = "TRADE" /\ r.name.space = "client" /\ r.name.id = o
      /\ r.status = said /\ r.number = number /\ r.leaves = left
  BY <1>2, <1>4, <1>5, ClientName DEF Report, ExecutionReport
<1> HIDE DEF r
<1>7. r \notin OnRecord
  BY <1>5, <1>6 DEF ReportsInv
<1>8. /\ market' \in [ClOrdId -> [status : {"none", "live", "done"}, remaining : 0..Quantity,
                                  due : 0..Quantity, session : 0..MaxConnections]]
      /\ market'[o].status = st /\ market'[o].remaining = left /\ market'[o].due = d
      /\ \A x \in ClOrdId : x # o => market'[x] = market[x]
  <2>1. market[o].remaining = left
    BY DEF left
  <2>2. QED
    BY <1>1, <1>2, <1>3, <1>4, <2>1
<1>9. OrderChanged(o)
  <2>1. market'[o].remaining <= market[o].remaining
    BY <1>2, <1>8 DEF left
  <2>2. QED
    BY <1>1, <1>3, <1>4, <1>8, <2>1, NoReplacement DEF OrderChanged
<1>10. r.number <= trades' /\ r.leaves >= market'[o].remaining
  BY <1>1, <1>2, <1>5, <1>6, <1>8
<1>11. QED
  BY <1>1, <1>2, <1>4, <1>5, <1>6, <1>7, <1>8, <1>9, <1>10, FreshReport

LEMMA CancelStep ==
  ASSUME BlotterInv, NEW o \in ClOrdId, Cancel(o)
  PROVE  BlotterInv'
<1> USE DEF BlotterInv
<1> DEFINE left == market[o].remaining
           number == coreId[o]
           r == Report("CANCELED", number, o, "Cancelled", 0, left)
<1>1. /\ market[o].status = "live" /\ market[o].due = 0 /\ Publish(o, r)
      /\ market' = [market EXCEPT ![o].status = "done", ![o].remaining = 0]
      /\ UNCHANGED <<connection, active, ui, sent, requests, coreId, trades, replacements,
                     orders, keys, history, handled, late>>
  BY DEF Cancel, unchangedByExchange, modelVars
<1>2. /\ market \in [ClOrdId -> [status : {"none", "live", "done"}, remaining : 0..Quantity,
                                 due : 0..Quantity, session : 0..MaxConnections]]
      /\ left \in 0..Quantity /\ 0 \in 0..Quantity /\ number \in Nat /\ trades \in Nat
      /\ 0 \in 0..MaxPrice
  BY BlotterAssumption DEF BlotterTypeOK
<1> HIDE DEF left, number
<1>3. /\ r \in ExecutionReport /\ r.text = "CANCELED" /\ r.name.space = "client"
      /\ r.name.id = o /\ r.status = "Cancelled"
  BY <1>2, ClientName DEF Report, ExecutionReport
<1> HIDE DEF r
<1>4. r \notin OnRecord
  BY <1>1, <1>3 DEF ReportsInv, Ends
<1>5. /\ market' \in [ClOrdId -> [status : {"none", "live", "done"}, remaining : 0..Quantity,
                                  due : 0..Quantity, session : 0..MaxConnections]]
      /\ market'[o].status = "done" /\ market'[o].remaining = 0 /\ market'[o].due = 0
      /\ \A x \in ClOrdId : x # o => market'[x] = market[x]
  BY <1>1, <1>2
<1>6. OrderChanged(o)
  <2>1. market'[o].remaining <= market[o].remaining
    BY <1>2, <1>5 DEF left
  <2>2. QED
    BY <1>1, <1>5, <2>1, NoReplacement DEF OrderChanged
<1>7. trades' \in Nat /\ trades <= trades'
  BY <1>1, <1>2
<1>8. QED
  BY <1>1, <1>3, <1>4, <1>5, <1>6, <1>7, FreshReport

(* A replacement is the one report that may repeat another.                 *)
LEMMA ModifyStep ==
  ASSUME BlotterInv, NEW o \in ClOrdId, NEW q \in 0..Quantity, NEW p \in 1..MaxPrice,
         Modify(o, q, p)
  PROVE  BlotterInv'
<1> USE DEF BlotterInv
<1> DEFINE st == IF q = 0 THEN "done" ELSE "live"
           number == coreId[o]
           r == Report("REPLACED", number, o, "New", p, q)
<1>1. /\ market[o].status = "live" /\ market[o].due = 0 /\ Publish(o, r)
      /\ market' = [market EXCEPT ![o].remaining = q, ![o].status = st]
      /\ replacements' = Append(replacements, r)
      /\ UNCHANGED <<connection, active, ui, sent, requests, coreId, trades,
                     orders, keys, history, handled, late>>
  BY DEF Modify, unchangedByExchange, modelVars
<1>2. /\ market \in [ClOrdId -> [status : {"none", "live", "done"}, remaining : 0..Quantity,
                                 due : 0..Quantity, session : 0..MaxConnections]]
      /\ number \in Nat /\ trades \in Nat /\ p \in 0..MaxPrice /\ st \in {"live", "done"}
      /\ replacements \in Seq(ExecutionReport)
  BY BlotterAssumption DEF BlotterTypeOK
<1> HIDE DEF st, number
<1>3. /\ r \in ExecutionReport /\ r.text = "REPLACED" /\ r.name.space = "client"
      /\ r.name.id = o /\ r.status = "New" /\ r.leaves = q
  BY <1>2, ClientName DEF Report, ExecutionReport
<1> HIDE DEF r
<1>4. /\ replacements' \in Seq(ExecutionReport)
      /\ Repeated \subseteq Repeated' /\ Modified' = Modified \cup {o}
      /\ \A i \in DOMAIN replacements' :
           replacements'[i] = r \/ \E j \in DOMAIN replacements : replacements'[i] = replacements[j]
      /\ \A x : (x = r \/ \E j \in DOMAIN replacements : replacements[j] = x) =>
               \E i \in DOMAIN replacements' : replacements'[i] = x
      /\ (\E i \in DOMAIN replacements : replacements[i] = r) => r \in Repeated'
  BY <1>1, <1>2, <1>3, ReplacementAdded
<1>5. r \in OnRecord => r \in Repeated'
  BY <1>3, <1>4 DEF ReportsInv
<1>6. /\ wire' \in Seq(ExecutionReport)
      /\ OnRecord' \subseteq OnRecord \cup {r}
      /\ \A i \in DOMAIN wire' : wire'[i] \in keys' => wire'[i] \in Repeated'
      /\ \A i, j \in DOMAIN wire' : wire'[i] = wire'[j] => i = j \/ wire'[i] \in Repeated'
  BY <1>1, <1>3, <1>4, <1>5, PublishKeeps
<1>7. /\ market' \in [ClOrdId -> [status : {"none", "live", "done"}, remaining : 0..Quantity,
                                  due : 0..Quantity, session : 0..MaxConnections]]
      /\ market'[o].status = st /\ market'[o].due = 0
      /\ \A x \in ClOrdId : x # o => market'[x] = market[x]
  BY <1>1, <1>2
<1>8. OrderChanged(o)
  BY <1>1, <1>2, <1>4, <1>7 DEF OrderChanged
<1>9. IntentsInv' /\ DueInv' /\ ExposureNeverHidden' /\ HistoryComplete' /\ RowsFollowReports'
  BY <1>1, <1>8, OrderStep
<1>10. \A i \in DOMAIN replacements' : replacements'[i].name.id \in ClOrdId
  BY <1>3, <1>4 DEF ReportsInv
<1>11. ~Ends(r.status) /\ o \in Modified' /\ r.text # "REJECT" /\ r.text # "TRADE"
  BY <1>3, <1>4 DEF Ends
<1>12. trades' \in Nat /\ trades <= trades'
  BY <1>1, <1>2
<1>13. ReportsInv'
  BY <1>1, <1>3, <1>4, <1>6, <1>8, <1>10, <1>11, <1>12, OrderReports
<1>14. BlotterTypeOK'
  BY <1>1, <1>4, <1>6, <1>7 DEF BlotterTypeOK
<1>15. QED
  BY <1>9, <1>13, <1>14

(* The network thread handles a report: if its key is a new one, the row    *)
(* and the history follow it, and otherwise it repeats a replacement.       *)
LEMMA NetworkStep ==
  ASSUME BlotterInv, processExecution
  PROVE  BlotterInv'
<1> USE DEF BlotterInv
<1> DEFINE r == Head(wire)
           o == r.name.id
           n == Len(handled) + 1
<1>0. /\ wire \in Seq(ExecutionReport) /\ handled \in Seq(ExecutionReport)
      /\ history \in Seq(ExecutionReport) /\ wire # << >> /\ wire' = Tail(wire)
      /\ orders \in [ClOrdId -> Row \cup {NoRow}] /\ late \subseteq ClOrdId
      /\ keys \subseteq ExecutionReport
  BY DEF BlotterTypeOK, processExecution
<1>1. /\ r \in ExecutionReport /\ wire' \in Seq(ExecutionReport) /\ r = wire[1]
      /\ 1 \in DOMAIN wire
      /\ \A i \in DOMAIN wire' : /\ i + 1 \in DOMAIN wire /\ wire'[i] = wire[i + 1]
                                 /\ i \in Nat /\ i >= 1
  BY <1>0, QueueTaken
<1>2. (r \in keys => r \in Repeated) /\ r \in OnRecord
  BY <1>1 DEF ReportsInv, OnRecord
<1>3. /\ handled' = Append(handled, r)
      /\ late' = IF r.name.space = "core" THEN late ELSE late \ {o}
      /\ r \in keys => UNCHANGED <<orders, keys, history>>
      /\ r \notin keys =>
           /\ keys' = keys \cup {r}
           /\ history' = Append(history, r)
           /\ orders' = IF r.name.space = "core" THEN orders
                        ELSE [orders EXCEPT ![o] = IF Ends(r.status) THEN NoRow ELSE Updated(r)]
      /\ UNCHANGED <<connection, active, ui, sent, requests, market, coreId, trades, replacements>>
  BY DEF processExecution, executionKey, exchangeVars
<1>3a. Repeated' = Repeated /\ Modified' = Modified
  BY <1>3, NoReplacement
<1> HIDE DEF r
<1>4. /\ handled' \in Seq(ExecutionReport)
      /\ DOMAIN handled' = DOMAIN handled \cup {n} /\ n \notin DOMAIN handled
      /\ \A i \in DOMAIN handled : handled'[i] = handled[i] /\ i < n
      /\ handled'[n] = r
  BY <1>0, <1>1, <1>3, QueueAppended
<1>5. /\ r.name.space \in {"client", "core"}
      /\ r.status \in {"New", "PartiallyFilled", "Filled", "Cancelled", "Rejected"}
      /\ r.leaves \in 0..Quantity /\ r.name \in Name
  BY <1>1 DEF ExecutionReport, Name
<1>6. r.name.space = "client" => r.text # "REJECT" /\ o \in ClOrdId
  BY <1>2 DEF ReportsInv
<1>7. ~Ends(r.status) => /\ Updated(r) \in Row /\ Updated(r) # NoRow
                         /\ Updated(r).remaining = r.leaves
  <2>1. Updated(r).status = r.status /\ Updated(r).remaining = r.leaves
    BY DEF Updated
  <2>2. NoRow.status = "none"
    BY DEF NoRow
  <2>3. ~Ends(r.status) => Updated(r) \in Row
    BY <1>5 DEF Updated, Row, Ends
  <2>4. QED
    BY <1>5, <2>1, <2>2, <2>3
<1> HIDE DEF o, n
<1>8. /\ orders' \in [ClOrdId -> Row \cup {NoRow}]
      /\ r.name.space = "client" /\ r \notin keys =>
           /\ orders'[o] = IF Ends(r.status) THEN NoRow ELSE Updated(r)
           /\ \A x \in ClOrdId : x # o => orders'[x] = orders[x]
      /\ r.name.space = "core" \/ r \in keys => orders' = orders
  <2> DEFINE new == IF Ends(r.status) THEN NoRow ELSE Updated(r)
  <2>1. new \in Row \cup {NoRow}
    BY <1>7
  <2>2. orders' = IF r.name.space = "core" \/ r \in keys THEN orders
                  ELSE [orders EXCEPT ![o] = new]
    BY <1>3
  <2> HIDE DEF new
  <2>3. QED
    BY <1>0, <1>5, <1>6, <2>1, <2>2 DEF new
<1>9. BlotterTypeOK'
  <2>1. keys' \subseteq ExecutionReport /\ history' \in Seq(ExecutionReport)
    <3>1. Append(history, r) \in Seq(ExecutionReport)
      BY <1>0, <1>1, QueueAppended
    <3>2. QED
      BY <1>0, <1>1, <1>3, <3>1
  <2>2. late' \subseteq ClOrdId
    BY <1>0, <1>3
  <2>3. QED
    BY <1>1, <1>3, <1>4, <1>8, <2>1, <2>2 DEF BlotterTypeOK
<1>10. IntentsInv'
  <2>1. ASSUME NEW x \in ClOrdId, market[x].status = "none" PROVE orders'[x] = orders[x]
    <3>1. r.name.space = "client" => o # x
      BY <1>2, <1>6, <2>1 DEF ReportsInv, o
    <3>2. QED
      BY <1>5, <1>8, <3>1
  <2>2. QED
    BY <1>3, <2>1 DEF IntentsInv
<1>11. ExposureNeverHidden'
  <2> SUFFICES ASSUME NEW x \in ClOrdId, market[x].status = "live", ui.id # x
               PROVE  /\ orders'[x] # NoRow
                      /\ x \notin Modified => orders'[x].remaining >= market[x].remaining
    BY <1>3, <1>3a DEF ExposureNeverHidden
  <2>1. CASE r.name.space = "client" /\ x = o /\ r \notin keys
    <3>1. ~Ends(r.status) /\ (x \notin Modified => r.leaves >= market[x].remaining)
      BY <1>2, <1>6, <2>1 DEF ReportsInv, o
    <3>2. QED
      BY <1>7, <1>8, <2>1, <3>1
  <2>2. CASE ~(r.name.space = "client" /\ x = o /\ r \notin keys)
    BY <1>5, <1>8, <2>2 DEF ExposureNeverHidden
  <2>3. QED
    BY <2>1, <2>2
<1>12. HistoryComplete'
  <2> SUFFICES ASSUME Repeated = {} PROVE history' = handled'
    BY <1>3a DEF HistoryComplete
  <2>1. history = handled /\ r \notin keys
    BY <1>2 DEF HistoryComplete
  <2>2. QED
    BY <1>3, <2>1
<1>13. ReportsInv' /\ DueInv'
  <2>1. keys' = {history'[i] : i \in DOMAIN history'}
    <3>1. keys = {history[i] : i \in DOMAIN history}
      BY DEF ReportsInv
    <3>2. CASE r \in keys
      BY <1>3, <3>1, <3>2
    <3>3. CASE r \notin keys
      <4> DEFINE m == Len(history) + 1
      <4>1. /\ history' = Append(history, r) /\ keys' = keys \cup {r}
            /\ DOMAIN history' = DOMAIN history \cup {m}
            /\ \A i \in DOMAIN history : history'[i] = history[i]
            /\ history'[m] = r
        <5>1. history' = Append(history, r) /\ keys' = keys \cup {r}
          BY <1>3, <3>3
        <5>2. /\ DOMAIN Append(history, r) = DOMAIN history \cup {m}
              /\ \A i \in DOMAIN history : Append(history, r)[i] = history[i]
              /\ Append(history, r)[m] = r
          BY <1>0, <1>1, QueueAppended
        <5>3. QED
          BY <5>1, <5>2
      <4> HIDE DEF m
      <4>2. QED
        BY <3>1, <4>1
    <3>4. QED
      BY <3>2, <3>3
  <2>2. \A i \in DOMAIN wire' : i + 1 # 1 /\ \A j \in DOMAIN wire' : i + 1 = j + 1 => i = j
    BY <1>1
  <2>3. \A i \in DOMAIN wire' : wire'[i] \in keys \/ wire'[i] = r => wire'[i] \in Repeated
    BY <1>1, <2>2 DEF ReportsInv
  <2>4. \A i, j \in DOMAIN wire' : wire'[i] = wire'[j] => i = j \/ wire'[i] \in Repeated
    BY <1>1, <2>2 DEF ReportsInv
  <2>5. OnRecord' \subseteq OnRecord /\ keys' \subseteq keys \cup {r}
    BY <1>1, <1>2, <1>3 DEF OnRecord
  <2>6. NextCoreId' = NextCoreId
    BY <1>3 DEF NextCoreId
  <2>7. QED
    BY <1>3, <1>3a, <2>1, <2>3, <2>4, <2>5, <2>6 DEF ReportsInv, DueInv
<1>14. RowsFollowReports'
  <2> SUFFICES ASSUME NEW x \in ClOrdId, x \notin late', NEW i \in Reported(x)',
                      \A j \in Reported(x)' : j <= i, handled'[i] \notin Repeated
               PROVE  orders'[x] = RowOf(handled'[i])
    BY <1>3a DEF RowsFollowReports, RowOf
  <2>1. CASE r.name = [space |-> "client", id |-> x]
    <3>1. r.name.space = "client" /\ o = x
      BY <2>1 DEF o
    <3>2. n \in Reported(x)'
      BY <1>4, <2>1 DEF Reported
    <3>3. i = n
      <4>1. i \in DOMAIN handled' /\ n <= i
        BY <3>2 DEF Reported
      <4>2. n \in Nat
        BY <1>0, LenProperties DEF n
      <4>3. \A k \in DOMAIN handled : k \in Nat
        BY <1>0, LenProperties
      <4>4. QED
        BY <1>4, <4>1, <4>2, <4>3
    <3>4. r \notin keys
      BY <1>2, <1>4, <3>3
    <3>5. QED
      BY <1>4, <1>8, <3>1, <3>3, <3>4 DEF Updated, RowOf
  <2>2. CASE r.name # [space |-> "client", id |-> x]
    <3>1. Reported(x)' = Reported(x)
      BY <1>4, <2>2 DEF Reported
    <3>2. i \in DOMAIN handled /\ handled'[i] = handled[i]
      BY <1>4, <3>1 DEF Reported
    <3>3. r.name.space = "client" => x # o
      <4>1. r.name = [space |-> r.name.space, id |-> o]
        BY <1>5 DEF Name, o
      <4>2. QED
        BY <2>2, <4>1
    <3>4. orders'[x] = orders[x] /\ x \notin late
      BY <1>3, <1>5, <1>8, <3>3
    <3>5. QED
      BY <3>1, <3>2, <3>4 DEF RowsFollowReports, RowOf
  <2>3. QED
    BY <2>1, <2>2
<1>15. QED
  BY <1>9, <1>10, <1>11, <1>12, <1>13, <1>14

-----------------------------------------------------------------------------
LEMMA BlotterInitInv == BlotterInit => BlotterInv
<1> SUFFICES ASSUME BlotterInit PROVE BlotterInv
  OBVIOUS
<1>0. /\ MaxOrders \in Nat \ {0} /\ Quantity \in Nat \ {0} /\ MaxConnections \in Nat \ {0}
      /\ \A S : << >> \in Seq(S) /\ DOMAIN << >> = {}
  BY BlotterAssumption, EmptyQueue
<1>1. BlotterTypeOK
  <2>1. Idle \in [pc : {"idle", "write", "record"}, id : 0..MaxOrders]
    BY <1>0 DEF Idle
  <2>2. market \in [ClOrdId -> [status : {"none", "live", "done"}, remaining : 0..Quantity,
                                due : 0..Quantity, session : 0..MaxConnections]]
    BY <1>0 DEF BlotterInit
  <2>3. connection \in 0..MaxConnections /\ sent \in 0..MaxOrders /\ trades \in Nat
    BY <1>0 DEF BlotterInit
  <2>4. active \in BOOLEAN
    BY Zenon DEF BlotterInit
  <2>5. QED
    BY <1>0, <2>1, <2>2, <2>3, <2>4 DEF BlotterInit, BlotterTypeOK
<1>2. IntentsInv
  BY <1>0 DEF BlotterInit, IntentsInv, Idle, ClOrdId
<1>3. ReportsInv /\ DueInv
  BY <1>0 DEF BlotterInit, ReportsInv, OnRecord, DueInv
<1>4. ExposureNeverHidden /\ HistoryComplete /\ RowsFollowReports
  BY <1>0 DEF BlotterInit, ExposureNeverHidden, HistoryComplete, RowsFollowReports, Reported
<1>5. QED
  BY <1>1, <1>2, <1>3, <1>4 DEF BlotterInv

(* The inductive invariant of the blotter.                                  *)
THEOREM BlotterInvariant == BlotterSpec => []BlotterInv
<1>1. BlotterInv /\ [BlotterNext]_blotterVars => BlotterInv'
  BY SessionStep, UiStep, RequestStep, MatchStep, SettleStep, CancelStep, ModifyStep,
     NetworkStep DEF BlotterNext
<1>2. QED
  BY <1>1, BlotterInitInv, PTL DEF BlotterSpec

(* Every variable of the blotter keeps its type: no report makes a row      *)
(* under a ClOrdID the client never chose, or with a quantity out of range. *)
THEOREM BlotterTypes == BlotterSpec => []BlotterTypeOK
<1>1. BlotterInv => BlotterTypeOK
  BY DEF BlotterInv
<1>2. QED
  BY <1>1, BlotterInvariant, PTL

(* recordOrderIntent and processExecution race in either order and the      *)
(* session may be lost at any point: an order that is live at the exchange  *)
(* always has a row, and unless another session replaced it the row shows   *)
(* at least its remaining quantity.                                         *)
THEOREM ExposureShown == BlotterSpec => []ExposureNeverHidden
<1>1. BlotterInv => ExposureNeverHidden
  BY DEF BlotterInv
<1>2. QED
  BY <1>1, BlotterInvariant, PTL

(* The keys of mSeenExecutionKeys drop no report until an order is replaced *)
(* twice with the same price and quantity, although its acceptance, its     *)
(* replacements and its cancellation share an execution id.                 *)
THEOREM NoReportDropped == BlotterSpec => []HistoryComplete
<1>1. BlotterInv => HistoryComplete
  BY DEF BlotterInv
<1>2. QED
  BY <1>1, BlotterInvariant, PTL

(* A row shows the last report handled and is gone once that was final,     *)
(* unless that report repeated a replacement.                               *)
THEOREM RowsFollow == BlotterSpec => []RowsFollowReports
<1>1. BlotterInv => RowsFollowReports
  BY DEF BlotterInv
<1>2. QED
  BY <1>1, BlotterInvariant, PTL
=============================================================================
