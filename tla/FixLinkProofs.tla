---------------------------- MODULE FixLinkProofs ----------------------------
(***************************************************************************)
(* The FIX link, proved with TLAPS for any number of clients, connections,  *)
(* worker threads and messages: the gateway submits each new order once and *)
(* in the order it was written, and the sequence table follows the numbers  *)
(* in memory.                                                               *)
(***************************************************************************)
EXTENDS FixLink, SequenceTheorems, NaturalsInduction, WellFoundedInduction, TLAPS

-----------------------------------------------------------------------------
(* Sequences, by their elements.                                            *)

LEMMA SeqElements ==
  ASSUME NEW S, NEW q \in Seq(S)
  PROVE  /\ Len(q) \in Nat /\ DOMAIN q = 1..Len(q)
         /\ \A i \in DOMAIN q : q[i] \in S /\ i \in Nat /\ i >= 1
BY ElementOfSeq, LenProperties

LEMMA SeqTaken ==
  ASSUME NEW S, NEW q \in Seq(S), q # << >>
  PROVE  /\ Head(q) \in S /\ Tail(q) \in Seq(S)
         /\ 1 \in DOMAIN q /\ Head(q) = q[1] /\ Len(q) \in Nat /\ Len(q) >= 1
         /\ Len(Tail(q)) = Len(q) - 1
         /\ DOMAIN q = 1..Len(q) /\ DOMAIN Tail(q) = 1..(Len(q) - 1)
         /\ \A i \in 1..(Len(q) - 1) : Tail(q)[i] = q[i + 1]
<1>1. /\ Len(q) \in Nat /\ Len(q) > 0 /\ DOMAIN q = 1..Len(q) /\ Head(q) = q[1]
      /\ Head(q) \in S /\ Tail(q) \in Seq(S)
      /\ Len(Tail(q)) = Len(q) - 1
      /\ DOMAIN Tail(q) = 1..(Len(q) - 1)
      /\ \A i \in 1..(Len(q) - 1) : Tail(q)[i] = q[i + 1]
  BY HeadTailProperties, LenProperties, EmptySeq
<1>2. QED
  BY <1>1

LEMMA SeqAppended ==
  ASSUME NEW S, NEW q \in Seq(S), NEW x \in S
  PROVE  /\ Append(q, x) \in Seq(S) /\ Len(q) \in Nat /\ DOMAIN q = 1..Len(q)
         /\ Append(q, x) # << >>
         /\ DOMAIN Append(q, x) = DOMAIN q \cup {Len(q) + 1}
         /\ Len(Append(q, x)) = Len(q) + 1
         /\ Len(q) + 1 \notin DOMAIN q
         /\ \A i \in DOMAIN q : Append(q, x)[i] = q[i] /\ i < Len(q) + 1
         /\ Append(q, x)[Len(q) + 1] = x
<1>1. /\ Append(q, x) \in Seq(S) /\ Len(q) \in Nat /\ DOMAIN q = 1..Len(q)
      /\ Append(q, x) # << >>
      /\ DOMAIN Append(q, x) = 1..(Len(q) + 1)
      /\ Len(Append(q, x)) = Len(q) + 1
      /\ \A i \in 1..Len(q) : Append(q, x)[i] = q[i]
      /\ Append(q, x)[Len(q) + 1] = x
  BY AppendProperties, LenProperties
<1>2. QED
  BY <1>1

LEMMA SeqJoined ==
  ASSUME NEW S, NEW a \in Seq(S), NEW b \in Seq(S)
  PROVE  /\ a \o b \in Seq(S) /\ Len(a) \in Nat /\ Len(b) \in Nat
         /\ DOMAIN a = 1..Len(a) /\ DOMAIN b = 1..Len(b)
         /\ Len(a \o b) = Len(a) + Len(b)
         /\ DOMAIN (a \o b) = 1..(Len(a) + Len(b))
         /\ \A i \in 1..(Len(a) + Len(b)) :
              (a \o b)[i] = IF i <= Len(a) THEN a[i] ELSE b[i - Len(a)]
BY ConcatProperties, LenProperties

LEMMA SeqSingle ==
  ASSUME NEW S, NEW x \in S
  PROVE  /\ <<x>> \in Seq(S) /\ <<x>> # << >> /\ Head(<<x>>) = x
         /\ DOMAIN <<x>> = {1} /\ <<x>>[1] = x /\ Len(<<x>>) = 1
OBVIOUS

LEMMA SeqNone ==
  ASSUME NEW S
  PROVE  << >> \in Seq(S) /\ DOMAIN << >> = {} /\ Len(<< >>) = 0
BY EmptySeq

(* The front of a sequence and what follows it.                             *)
LEMMA SeqCut ==
  ASSUME NEW S, NEW q \in Seq(S), NEW n \in 1..Len(q)
  PROVE  /\ SubSeq(q, 1, n) \in Seq(S) /\ SubSeq(q, 1, n) # << >>
         /\ SubSeq(q, n + 1, Len(q)) \in Seq(S)
         /\ SubSeq(q, 1, n) \o SubSeq(q, n + 1, Len(q)) = q
<1>1. Len(q) \in Nat /\ \A i \in 1..Len(q) : q[i] \in S
  BY ElementOfSeq, LenProperties
<1>2. /\ SubSeq(q, 1, n) \in Seq(S) /\ Len(SubSeq(q, 1, n)) = n
  BY <1>1, SubSeqProperties
<1>3. SubSeq(q, n + 1, Len(q)) \in Seq(S)
  BY <1>1, SubSeqProperties
<1>4. SubSeq(q, 1, n) \o SubSeq(q, n + 1, Len(q)) = SubSeq(q, 1, Len(q))
  BY <1>1, ConcatAdjacentSubSeq
<1>5. SubSeq(q, 1, Len(q)) = q
  BY SubSeqFull
<1>6. SubSeq(q, 1, n) # << >>
  <2>1. n # 0
    BY <1>1
  <2>2. QED
    BY <2>1, <1>2, SeqNone
<1>7. QED
  BY <1>2, <1>3, <1>4, <1>5, <1>6

(* The front of a joined sequence.                                          *)
LEMMA SeqJoinTail ==
  ASSUME NEW S, NEW a \in Seq(S), a # << >>, NEW b \in Seq(S)
  PROVE  /\ a \o b \in Seq(S) /\ a \o b # << >> /\ Head(a \o b) = Head(a)
         /\ Tail(a \o b) = Tail(a) \o b
         /\ Len(a) = 1 => Tail(a \o b) = b
<1> DEFINE s == a \o b
           t == Tail(s)
           u == Tail(a) \o b
<1>1. /\ s \in Seq(S) /\ Len(a) \in Nat /\ Len(b) \in Nat
      /\ DOMAIN a = 1..Len(a) /\ DOMAIN b = 1..Len(b)
      /\ Len(s) = Len(a) + Len(b) /\ DOMAIN s = 1..(Len(a) + Len(b))
      /\ \A i \in 1..(Len(a) + Len(b)) : s[i] = IF i <= Len(a) THEN a[i] ELSE b[i - Len(a)]
  BY SeqJoined
<1>2. /\ Tail(a) \in Seq(S) /\ Head(a) = a[1] /\ Len(a) >= 1
      /\ Len(Tail(a)) = Len(a) - 1 /\ DOMAIN Tail(a) = 1..(Len(a) - 1)
      /\ \A i \in 1..(Len(a) - 1) : Tail(a)[i] = a[i + 1]
  BY SeqTaken
<1> HIDE DEF s
<1>3. s # << >>
  <2>1. Len(s) # 0
    BY <1>1, <1>2
  <2>2. QED
    BY <2>1, SeqNone
<1>4. /\ t \in Seq(S) /\ Head(s) = s[1]
      /\ Len(t) = Len(s) - 1 /\ DOMAIN t = 1..(Len(s) - 1)
      /\ \A i \in 1..(Len(s) - 1) : t[i] = s[i + 1]
  BY <1>1, <1>3, SeqTaken
<1>5. Head(s) = Head(a)
  BY <1>1, <1>2, <1>4
<1>6. /\ u \in Seq(S) /\ Len(u) = (Len(a) - 1) + Len(b)
      /\ \A i \in 1..((Len(a) - 1) + Len(b)) :
           u[i] = IF i <= Len(a) - 1 THEN Tail(a)[i] ELSE b[i - (Len(a) - 1)]
  BY <1>1, <1>2, SeqJoined
<1> HIDE DEF t, u
<1>7. Len(t) = Len(u) /\ Len(u) = Len(s) - 1
  BY <1>1, <1>2, <1>4, <1>6
<1>8. ASSUME NEW i \in 1..Len(t) PROVE t[i] = u[i]
  <2>1. t[i] = s[i + 1] /\ i + 1 \in 1..(Len(a) + Len(b)) /\ i \in 1..((Len(a) - 1) + Len(b))
    BY <1>1, <1>2, <1>4
  <2>2. CASE i <= Len(a) - 1
    <3>1. s[i + 1] = a[i + 1] /\ u[i] = Tail(a)[i] /\ Tail(a)[i] = a[i + 1]
      BY <2>1, <2>2, <1>1, <1>2, <1>6
    <3>2. QED
      BY <2>1, <3>1
  <2>3. CASE ~(i <= Len(a) - 1)
    <3>1. ~(i + 1 <= Len(a)) /\ (i + 1) - Len(a) = i - (Len(a) - 1)
      BY <2>3, <1>1
    <3>2. s[i + 1] = b[(i + 1) - Len(a)] /\ u[i] = b[i - (Len(a) - 1)]
      BY <2>1, <2>3, <3>1, <1>1, <1>6
    <3>3. QED
      BY <2>1, <3>1, <3>2
  <2>4. QED
    BY <2>2, <2>3
<1>9. t = u
  BY <1>4, <1>6, <1>7, <1>8, SeqEqual
<1>10. Len(a) = 1 => t = b
  <2>1. ASSUME Len(a) = 1 PROVE t = b
    <3>1. Len(t) = Len(b)
      BY <2>1, <1>1, <1>4
    <3>2. \A i \in 1..Len(t) : t[i] = b[i]
      BY <2>1, <1>1, <1>4
    <3>3. QED
      BY <3>1, <3>2, <1>4, SeqEqual
  <2>2. QED
    BY <2>1
<1>11. QED
  BY <1>1, <1>3, <1>5, <1>9, <1>10 DEF s, t, u

(* A nonempty set of positions has a last one.                              *)
LEMMA LastExists ==
  ASSUME NEW n \in Nat, NEW T, T \subseteq 1..n, T # {}
  PROVE  \E i \in T : \A j \in T : j <= i
<1> DEFINE R == OpToRel(<, Nat)
           U == {n - i : i \in T}
<1>1. IsWellFoundedOn(R, Nat)
  BY NatLessThanWellFounded
<1>2. U \subseteq Nat /\ U # {}
  <2>1. \A i \in T : n - i \in Nat
    OBVIOUS
  <2>2. QED
    BY <2>1
<1>3. PICK x \in U : \A y \in U : ~(<<y, x>> \in R)
  BY <1>1, <1>2, WFMin
<1>4. PICK i \in T : x = n - i
  BY <1>3
<1>5. ASSUME NEW j \in T PROVE j <= i
  <2>1. n - j \in U /\ n - j \in Nat /\ n - i \in Nat
    OBVIOUS
  <2>2. ~(<<n - j, n - i>> \in R)
    BY <2>1, <1>3, <1>4
  <2>3. ~(n - j < n - i)
    BY <2>1, <2>2 DEF OpToRel
  <2>4. QED
    BY <2>3
<1>6. QED
  BY <1>5

-----------------------------------------------------------------------------
(* The gateway's sequence numbers.                                          *)

LEMMA UpMessageIs ==
  ASSUME NEW m \in UpMessage
  PROVE  /\ m.type \in UpType /\ m.seq \in Nat /\ m.comp \in Clients /\ m.ref \in Ref \cup {0}
         /\ m.type \in {"NewOrder", "Cancel", "Replace"} => m.ref \in Ref
BY DEF UpMessage

LEMMA StatesKept ==
  ASSUME NEW st \in SessionState, NEW n \in Nat
  PROVE  /\ validateSequence(st, n) \in SessionState
         /\ validateSequence(st, n).on = st.on /\ validateSequence(st, n).known = st.known
         /\ useNextOutboundSequence(st) \in SessionState
         /\ useNextOutboundSequence(st).on = st.on
         /\ useNextOutboundSequence(st).known = st.known
         /\ useNextOutboundSequence(st) # st
         /\ st.in \in Nat /\ st.out \in Nat
<1>1. st.in \in Nat /\ st.out \in Nat
  BY DEF SessionState
<1>2. /\ [st EXCEPT !.in = n] \in SessionState
      /\ [st EXCEPT !.in = n].on = st.on /\ [st EXCEPT !.in = n].known = st.known
  BY DEF SessionState
<1>3. /\ useNextOutboundSequence(st) \in SessionState
      /\ useNextOutboundSequence(st).on = st.on
      /\ useNextOutboundSequence(st).known = st.known
      /\ useNextOutboundSequence(st).out = st.out + 1
  BY <1>1 DEF SessionState, useNextOutboundSequence
<1>4. useNextOutboundSequence(st) # st
  BY <1>1, <1>3
<1>5. QED
  BY <1>1, <1>2, <1>3, <1>4 DEF validateSequence

LEMMA TaskIs ==
  ASSUME NEW c \in Clients, NEW st \in SessionState
  PROVE  /\ Task(c, st) \in SeqTask /\ Task(c, st).comp = c
         /\ Task(c, st).in = st.in /\ Task(c, st).out = st.out
BY DEF Task, SeqTask, SessionState

EndsWith(q, x) == Len(q) \in Nat /\ Len(q) \in DOMAIN q /\ q[Len(q)] = x

(* p holds updates of client c only and ends with the final numbers.        *)
UpdatesOf(p, c, old, final) ==
  /\ p \in Seq(SeqTask) /\ \A i \in DOMAIN p : p[i].comp = c
  /\ \/ p = << >> /\ final = old
     \/ EndsWith(p, Task(c, final))

LEMMA PersistedIs ==
  ASSUME NEW c \in Clients, NEW old \in SessionState, NEW mid \in SessionState,
         NEW final \in SessionState
  PROVE  UpdatesOf(Persisted(c, old, mid, final), c, old, final)
<1> DEFINE t == Task(c, mid)
           u == Task(c, final)
           p == Persisted(c, old, mid, final)
<1>1. t \in SeqTask /\ t.comp = c /\ u \in SeqTask /\ u.comp = c
  BY TaskIs
<1>2. CASE mid = old /\ final = mid
  <2>1. p = << >> \o << >>
    BY <1>2 DEF Persisted
  <2>2. p = << >>
    BY <2>1, SeqNone, ConcatEmptySeq
  <2>3. QED
    BY <2>2, <1>2, SeqNone DEF UpdatesOf
<1>3. CASE mid # old /\ final = mid
  <2>1. p = <<u>> \o << >>
    BY <1>3 DEF Persisted
  <2>2. p = <<u>>
    BY <2>1, <1>1, SeqSingle, ConcatEmptySeq
  <2>3. QED
    BY <2>2, <1>1, SeqSingle DEF EndsWith, UpdatesOf
<1>4. CASE mid = old /\ final # mid
  <2>1. p = << >> \o <<u>>
    BY <1>4 DEF Persisted
  <2>2. p = <<u>>
    BY <2>1, <1>1, SeqSingle, ConcatEmptySeq
  <2>3. QED
    BY <2>2, <1>1, SeqSingle DEF EndsWith, UpdatesOf
<1>5. CASE mid # old /\ final # mid
  <2>1. p = <<t>> \o <<u>>
    BY <1>5 DEF Persisted
  <2> HIDE DEF t, u, p
  <2>2. /\ <<t>> \in Seq(SeqTask) /\ <<t>>[1] = t /\ Len(<<t>>) = 1
        /\ <<u>> \in Seq(SeqTask) /\ <<u>>[1] = u /\ Len(<<u>>) = 1
    BY <1>1, SeqSingle
  <2>3. /\ p \in Seq(SeqTask) /\ DOMAIN p = 1..(1 + 1) /\ Len(p) = 1 + 1
        /\ \A i \in 1..(1 + 1) : p[i] = IF i <= 1 THEN <<t>>[i] ELSE <<u>>[i - 1]
    BY <2>1, <2>2, SeqJoined
  <2>4. DOMAIN p = 1..2 /\ Len(p) = 2 /\ p[1] = t /\ p[2] = u
    BY <2>2, <2>3
  <2>5. QED
    BY <2>3, <2>4, <1>1 DEF p, u, EndsWith, UpdatesOf
<1>6. QED
  BY <1>2, <1>3, <1>4, <1>5

(* Where the table ends for client c: in the last task of c queued, or in   *)
(* its row.                                                                 *)
EndsIn(q, rows, c, v) ==
  \/ (\A i \in DOMAIN q : q[i].comp # c) /\ rows[c] = v
  \/ \E i \in DOMAIN q : /\ q[i].comp = c /\ v = [in |-> q[i].in, out |-> q[i].out]
                         /\ \A j \in DOMAIN q : j > i => q[j].comp # c

(* getSequenceNumbers over a queue and a table.                             *)
LastOf(q, rows, c) ==
  LET mine == {i \in DOMAIN q : q[i].comp = c}
      last == CHOOSE i \in mine : \A j \in mine : j <= i
  IN  IF mine = {} THEN rows[c] ELSE [in |-> q[last].in, out |-> q[last].out]

LEMMA NumbersEnd ==
  ASSUME NEW q \in Seq(SeqTask), NEW rows, NEW c
  PROVE  EndsIn(q, rows, c, LastOf(q, rows, c))
<1> DEFINE mine == {i \in DOMAIN q : q[i].comp = c}
           last == CHOOSE i \in mine : \A j \in mine : j <= i
<1>1. Len(q) \in Nat /\ DOMAIN q = 1..Len(q)
  BY SeqElements
<1>2. CASE mine = {}
  BY <1>2 DEF EndsIn, LastOf
<1>3. CASE mine # {}
  <2>1. \E i \in mine : \A j \in mine : j <= i
    <3>1. mine \subseteq 1..Len(q)
      BY <1>1
    <3> HIDE DEF mine
    <3>2. QED
      BY <3>1, <1>1, <1>3, LastExists
  <2>2. last \in mine /\ \A j \in mine : j <= last
    <3> HIDE DEF mine
    <3>1. QED
      BY <2>1
  <2>3. LastOf(q, rows, c) = [in |-> q[last].in, out |-> q[last].out]
    BY <1>3 DEF LastOf
  <2> HIDE DEF last
  <2>4. \A j \in DOMAIN q : j > last => q[j].comp # c
    BY <2>2, <1>1
  <2>5. QED
    BY <2>2, <2>3, <2>4 DEF EndsIn
<1>4. QED
  BY <1>2, <1>3

LEMMA EndIsOne ==
  ASSUME NEW q \in Seq(SeqTask), NEW rows, NEW c, NEW v, NEW w,
         EndsIn(q, rows, c, v), EndsIn(q, rows, c, w)
  PROVE  v = w
<1>1. Len(q) \in Nat /\ DOMAIN q = 1..Len(q)
  BY SeqElements
<1>2. CASE \A i \in DOMAIN q : q[i].comp # c
  BY <1>2 DEF EndsIn
<1>3. CASE ~ \A i \in DOMAIN q : q[i].comp # c
  <2>1. PICK i \in DOMAIN q : /\ q[i].comp = c /\ v = [in |-> q[i].in, out |-> q[i].out]
                              /\ \A j \in DOMAIN q : j > i => q[j].comp # c
    BY <1>3 DEF EndsIn
  <2>2. PICK k \in DOMAIN q : /\ q[k].comp = c /\ w = [in |-> q[k].in, out |-> q[k].out]
                              /\ \A j \in DOMAIN q : j > k => q[j].comp # c
    BY <1>3 DEF EndsIn
  <2>3. i = k
    BY <2>1, <2>2, <1>1
  <2>4. QED
    BY <2>1, <2>2, <2>3
<1>4. QED
  BY <1>2, <1>3

(* Appending the updates of one client.                                     *)
LEMMA EndAfterPersisted ==
  ASSUME NEW q \in Seq(SeqTask), NEW rows, NEW c \in Clients, NEW old \in SessionState,
         NEW mid \in SessionState, NEW final \in SessionState
  PROVE  LET r == q \o Persisted(c, old, mid, final)
         IN  /\ r \in Seq(SeqTask)
             /\ \A d, v : d # c /\ EndsIn(q, rows, d, v) => EndsIn(r, rows, d, v)
             /\ (final # old \/ EndsIn(q, rows, c, [in |-> old.in, out |-> old.out]))
                  => EndsIn(r, rows, c, [in |-> final.in, out |-> final.out])
<1> DEFINE p == Persisted(c, old, mid, final)
           r == q \o p
<1>1. /\ p \in Seq(SeqTask) /\ \A i \in DOMAIN p : p[i].comp = c
      /\ \/ p = << >> /\ final = old
         \/ EndsWith(p, Task(c, final))
  <2>1. UpdatesOf(p, c, old, final)
    BY PersistedIs
  <2> HIDE DEF p
  <2>2. QED
    BY <2>1 DEF UpdatesOf
<1>2. Task(c, final).comp = c /\ Task(c, final).in = final.in /\ Task(c, final).out = final.out
  BY TaskIs
<1> HIDE DEF p
<1>3. /\ r \in Seq(SeqTask) /\ Len(q) \in Nat /\ Len(p) \in Nat
      /\ DOMAIN q = 1..Len(q) /\ DOMAIN p = 1..Len(p)
      /\ DOMAIN r = 1..(Len(q) + Len(p))
      /\ \A i \in 1..(Len(q) + Len(p)) : r[i] = IF i <= Len(q) THEN q[i] ELSE p[i - Len(q)]
  BY <1>1, SeqJoined
<1> HIDE DEF r
<1>4. \A i \in DOMAIN q : i \in DOMAIN r /\ r[i] = q[i]
  BY <1>3
<1>5. ASSUME NEW i \in DOMAIN r PROVE i \in DOMAIN q \/ (i > Len(q) /\ r[i].comp = c)
  <2>1. CASE i <= Len(q)
    BY <2>1, <1>3
  <2>2. CASE ~(i <= Len(q))
    <3>1. i - Len(q) \in DOMAIN p /\ r[i] = p[i - Len(q)] /\ i > Len(q)
      BY <2>2, <1>3
    <3>2. QED
      BY <3>1, <1>1
  <2>3. QED
    BY <2>1, <2>2
<1>6. ASSUME NEW d, NEW v, d # c, EndsIn(q, rows, d, v)
      PROVE  EndsIn(r, rows, d, v)
  <2>1. CASE (\A i \in DOMAIN q : q[i].comp # d) /\ rows[d] = v
    BY <2>1, <1>4, <1>5, <1>6 DEF EndsIn
  <2>2. ASSUME NEW i \in DOMAIN q, q[i].comp = d, v = [in |-> q[i].in, out |-> q[i].out],
               \A j \in DOMAIN q : j > i => q[j].comp # d
        PROVE  EndsIn(r, rows, d, v)
    BY <2>2, <1>4, <1>5, <1>6 DEF EndsIn
  <2>3. QED
    BY <1>6, <2>1, <2>2 DEF EndsIn
<1>7. CASE p = << >> /\ final = old
  <2>1. r = q
    BY <1>7, ConcatEmptySeq DEF r
  <2>2. QED
    BY <2>1, <1>3, <1>6, <1>7 DEF r, p
<1>8. CASE EndsWith(p, Task(c, final))
  <2> DEFINE n == Len(q) + Len(p)
  <2>1. n \in DOMAIN r /\ r[n] = Task(c, final) /\ \A j \in DOMAIN r : ~(j > n)
    BY <1>8, <1>3 DEF EndsWith
  <2> HIDE DEF n
  <2>2. EndsIn(r, rows, c, [in |-> final.in, out |-> final.out])
    BY <2>1, <1>2 DEF EndsIn
  <2>3. QED
    BY <2>2, <1>3, <1>6 DEF r, p
<1>9. QED
  BY <1>1, <1>7, <1>8

-----------------------------------------------------------------------------
(* The gateway's types and threads, in parts that change together.          *)

IoPart ==
  /\ io \in IoState
  /\ io.pc # "idle" => io.conn \in Conn /\ io.buf # << >>
  /\ io.pc = "write" => io.reply # << >>
  /\ io.pc \in {"write", "cleanup", "close"} => Head(io.buf).type # "NewOrder"

SendPart ==
  /\ sending \in [Workers -> Sending]
  /\ \A t \in Workers : sending[t] # NotSending =>
       sending[t].conn \in Conn /\ sending[t].message # << >>

SessionPart ==
  /\ sessions \subseteq Conn /\ sessionId \in [Conn -> Nat] /\ nextSession \in Nat
  /\ \A j, k \in sessions : sessionId[j] = sessionId[k] => j = k
  /\ \A k \in sessions : sessionId[k] < nextSession

NumberPart ==
  /\ compOf \in [Conn -> Clients \cup {NoClient}]
  /\ state \in [Clients -> SessionState]
  /\ dbTasks \in Seq(SeqTask) /\ seqRows \in [Clients -> Seqs]

CorePart ==
  /\ commands \in Seq(Command) /\ orders \in [Ref -> Core]
  /\ executed \in [Conn -> Seq(Ref)]
  /\ subscribed \subseteq Conn /\ targets \in [Workers -> SUBSET Conn]
  /\ increments \in 0..MaxIncrements

GatewayParts ==
  /\ IoPart /\ SendPart /\ SessionPart /\ NumberPart /\ CorePart
  /\ valid \subseteq Clients /\ restarts \in 0..MaxRestarts

LEMMA GatewayPartsAre == GatewayParts <=> ServerTypeOK /\ GatewayThreads
BY DEF GatewayParts, IoPart, SendPart, SessionPart, NumberPart, CorePart, ServerTypeOK,
       GatewayThreads

LEMMA PartsStay ==
  /\ IoPart /\ UNCHANGED io => IoPart'
  /\ SendPart /\ UNCHANGED sending => SendPart'
  /\ SessionPart /\ UNCHANGED <<sessions, sessionId, nextSession>> => SessionPart'
  /\ NumberPart /\ UNCHANGED <<compOf, state, dbTasks, seqRows>> => NumberPart'
  /\ CorePart /\ UNCHANGED coreVars => CorePart'
BY DEF IoPart, SendPart, SessionPart, NumberPart, CorePart, coreVars, marketVars

LEMMA IdleIoPart ==
  ASSUME io' = IdleIo
  PROVE  IoPart'
<1>1. IdleIo \in IoState /\ IdleIo.pc = "idle"
  BY SeqNone DEF IdleIo, IoState
<1>2. QED
  BY <1>1 DEF IoPart

(* The frame at hand is erased.                                             *)
LEMMA IoHandled ==
  ASSUME IoPart, io.pc # "idle", io' = HandledIo
  PROVE  /\ IoPart'
         /\ Len(io.buf) = 1 => io'.pc = "idle"
         /\ Len(io.buf) # 1 => io'.pc = "handle" /\ io'.conn = io.conn /\ io'.buf = Tail(io.buf)
<1>1. io.buf \in Seq(UpMessage) /\ io.buf # << >> /\ io.conn \in Conn
  BY DEF IoPart, IoState
<1>2. /\ Tail(io.buf) \in Seq(UpMessage) /\ Len(io.buf) \in Nat /\ Len(io.buf) >= 1
      /\ Len(Tail(io.buf)) = Len(io.buf) - 1
  BY <1>1, SeqTaken
<1>3. CASE Len(io.buf) = 1
  <2>1. io' = IdleIo
    BY <1>3 DEF HandledIo
  <2>2. QED
    BY <2>1, <1>3, IdleIoPart DEF IdleIo
<1>4. CASE Len(io.buf) # 1
  <2>1. Tail(io.buf) # << >>
    <3>1. Len(Tail(io.buf)) # 0
      BY <1>2, <1>4
    <3>2. QED
      BY <3>1, SeqNone
  <2>2. io' = [io EXCEPT !.buf = Tail(@), !.pc = "handle", !.reply = << >>, !.hangup = FALSE]
    BY <1>4 DEF HandledIo
  <2>3. << >> \in Seq(DownMessage)
    BY SeqNone
  <2>4. io' \in IoState
    BY <2>2, <2>3, <1>2 DEF IoPart, IoState
  <2>5. io'.pc = "handle" /\ io'.conn = io.conn /\ io'.buf = Tail(io.buf)
    BY <2>2 DEF IoPart, IoState
  <2>6. QED
    BY <2>1, <2>4, <2>5, <1>1, <1>4 DEF IoPart
<1>5. QED
  BY <1>3, <1>4

LEMMA IoReplies ==
  ASSUME IoPart, io.pc = "handle", NEW type \in DownType, NEW seq \in Nat,
         NEW hangup \in BOOLEAN, Reply(type, seq, hangup), Head(io.buf).type # "NewOrder"
  PROVE  IoPart' /\ io'.pc = "write" /\ io'.conn = io.conn /\ io'.buf = io.buf
<1> DEFINE r == [type |-> type, seq |-> seq, ref |-> 0]
<1>1. r \in DownMessage
  BY DEF DownMessage
<1>2. <<r>> \in Seq(DownMessage) /\ <<r>> # << >>
  BY <1>1, SeqSingle
<1>3. io' = [io EXCEPT !.pc = "write", !.hangup = hangup, !.reply = <<r>>]
  BY DEF Reply
<1> HIDE DEF r
<1>4. io' \in IoState
  BY <1>2, <1>3 DEF IoPart, IoState
<1>5. io'.pc = "write" /\ io'.conn = io.conn /\ io'.buf = io.buf /\ io'.reply = <<r>>
  BY <1>3 DEF IoPart, IoState
<1>6. QED
  BY <1>2, <1>4, <1>5 DEF IoPart

LEMMA WroteDown ==
  ASSUME WireTypeOK, NEW k \in Conn, NEW m \in DownMessage, WriteDown(k, m),
         UNCHANGED <<up, cliEnd, srvEnd, broken>>
  PROVE  WireTypeOK'
<1>1. down[k] \in Seq(DownMessage)
  BY DEF WireTypeOK
<1>2. Append(down[k], m) \in Seq(DownMessage)
  BY <1>1, SeqAppended
<1>3. down' \in [Conn -> Seq(DownMessage)]
  BY <1>2 DEF WriteDown, WireTypeOK
<1>4. QED
  BY <1>3 DEF WireTypeOK

LEMMA ServerClosed ==
  ASSUME WireTypeOK, NEW k \in Conn, CloseServer(k), UNCHANGED <<down, cliEnd, broken>>
  PROVE  WireTypeOK'
<1>1. << >> \in Seq(UpMessage)
  BY SeqNone
<1>2. QED
  BY <1>1 DEF WireTypeOK, CloseServer

LEMMA WireStays ==
  ASSUME WireTypeOK, UNCHANGED wireVars
  PROVE  WireTypeOK'
BY DEF WireTypeOK, wireVars

(* Where a handler finds its message.                                       *)
LEMMA AtMessage ==
  ASSUME IoPart, NEW k \in Conn, NEW m, At(k, m)
  PROVE  /\ io.pc = "handle" /\ io.conn = k /\ m = Head(io.buf) /\ m \in UpMessage
         /\ io.buf \in Seq(UpMessage) /\ io.buf # << >>
<1>1. io.pc = "handle" /\ io.conn = k /\ m = Head(io.buf)
  BY DEF At
<1>2. io.buf \in Seq(UpMessage) /\ io.buf # << >>
  BY <1>1 DEF IoPart, IoState
<1>3. QED
  BY <1>1, <1>2, SeqTaken

-----------------------------------------------------------------------------
(* The numbers: one client's state and the updates queued for it.           *)

(* Client c goes from numbers old to final; next also carries the flags.    *)
Renumbers(c, old, mid, final, next) ==
  /\ c \in Clients /\ old \in SessionState /\ mid \in SessionState
  /\ final \in SessionState /\ next \in SessionState
  /\ next.in = final.in /\ next.out = final.out
  /\ final # old \/ (old = state[c] /\ next = state[c])
  /\ state' = [state EXCEPT ![c] = next]
  /\ dbTasks' = dbTasks \o Persisted(c, old, mid, final)
  /\ UNCHANGED seqRows

LEMMA TrailEnds ==
  ASSUME dbTasks \in Seq(SeqTask)
  PROVE  TrailMatches <=> \A c \in Clients : state[c].known =>
           EndsIn(dbTasks, seqRows, c, [in |-> state[c].in, out |-> state[c].out])
<1>1. ASSUME NEW c \in Clients
      PROVE  getSequenceNumbers(c) = [in |-> state[c].in, out |-> state[c].out] <=>
             EndsIn(dbTasks, seqRows, c, [in |-> state[c].in, out |-> state[c].out])
  <2> DEFINE v == getSequenceNumbers(c)
             w == [in |-> state[c].in, out |-> state[c].out]
  <2>1. EndsIn(dbTasks, seqRows, c, v)
    BY NumbersEnd DEF getSequenceNumbers, LastOf
  <2> HIDE DEF v, w
  <2>2. EndsIn(dbTasks, seqRows, c, w) => v = w
    BY <2>1, EndIsOne
  <2>3. v = w <=> EndsIn(dbTasks, seqRows, c, w)
    BY <2>1, <2>2
  <2>4. QED
    BY <2>3 DEF v, w
<1>2. QED
  BY <1>1 DEF TrailMatches

LEMMA TrailEndsNext ==
  ASSUME dbTasks' \in Seq(SeqTask)
  PROVE  (\A c \in Clients : state'[c].known =>
            EndsIn(dbTasks', seqRows', c, [in |-> state'[c].in, out |-> state'[c].out]))
         => TrailMatches'
<1>1. ASSUME NEW c \in Clients,
             EndsIn(dbTasks', seqRows', c, [in |-> state'[c].in, out |-> state'[c].out])
      PROVE  getSequenceNumbers(c)' = [in |-> state'[c].in, out |-> state'[c].out]
  <2> DEFINE v == getSequenceNumbers(c)'
             w == [in |-> state'[c].in, out |-> state'[c].out]
  <2>1. EndsIn(dbTasks', seqRows', c, v)
    <3>1. v = LastOf(dbTasks', seqRows', c)
      BY DEF getSequenceNumbers, LastOf
    <3>2. QED
      BY <3>1, NumbersEnd
  <2> HIDE DEF v, w
  <2>2. EndsIn(dbTasks', seqRows', c, w) => v = w
    BY <2>1, EndIsOne
  <2>3. QED
    BY <1>1, <2>2 DEF v, w
<1>2. QED
  BY <1>1 DEF TrailMatches

(* Taking and queueing numbers keeps the trail.                             *)
LEMMA RenumberedKeeps ==
  ASSUME NumberPart, TrailMatches, NEW c, NEW old, NEW mid, NEW final, NEW next,
         Renumbers(c, old, mid, final, next),
         compOf' \in [Conn -> Clients \cup {NoClient}]
  PROVE  NumberPart' /\ TrailMatches'
<1> DEFINE p == Persisted(c, old, mid, final)
<1>1. /\ c \in Clients /\ old \in SessionState /\ mid \in SessionState
      /\ final \in SessionState /\ next \in SessionState
      /\ next.in = final.in /\ next.out = final.out
      /\ final # old \/ (old = state[c] /\ next = state[c])
      /\ state' = [state EXCEPT ![c] = next] /\ dbTasks' = dbTasks \o p /\ seqRows' = seqRows
  BY DEF Renumbers
<1>2. dbTasks \in Seq(SeqTask) /\ state \in [Clients -> SessionState]
      /\ seqRows \in [Clients -> Seqs]
  BY DEF NumberPart
<1>3. \A d \in Clients : state[d].known =>
        EndsIn(dbTasks, seqRows, d, [in |-> state[d].in, out |-> state[d].out])
  BY <1>2, TrailEnds
<1>4. /\ dbTasks' \in Seq(SeqTask)
      /\ \A d, v : d # c /\ EndsIn(dbTasks, seqRows, d, v) => EndsIn(dbTasks', seqRows', d, v)
      /\ (final # old \/ EndsIn(dbTasks, seqRows, c, [in |-> old.in, out |-> old.out]))
           => EndsIn(dbTasks', seqRows', c, [in |-> final.in, out |-> final.out])
  BY <1>1, <1>2, EndAfterPersisted
<1>5. state' \in [Clients -> SessionState] /\ state'[c] = next
      /\ \A d \in Clients : d # c => state'[d] = state[d]
  BY <1>1, <1>2
<1>6. ASSUME NEW d \in Clients, state'[d].known
      PROVE  EndsIn(dbTasks', seqRows', d, [in |-> state'[d].in, out |-> state'[d].out])
  <2>1. CASE d # c
    BY <2>1, <1>3, <1>4, <1>5, <1>6
  <2>2. CASE d = c
    <3>1. CASE final # old
      BY <3>1, <2>2, <1>1, <1>4, <1>5
    <3>2. CASE old = state[c] /\ next = state[c]
      <4>1. EndsIn(dbTasks, seqRows, c, [in |-> old.in, out |-> old.out])
        BY <3>2, <2>2, <1>3, <1>5, <1>6
      <4>2. QED
        BY <4>1, <2>2, <1>1, <1>4, <1>5
    <3>3. QED
      BY <3>1, <3>2, <1>1
  <2>3. QED
    BY <2>1, <2>2
<1>7. TrailMatches'
  BY <1>4, <1>6, TrailEndsNext
<1>8. QED
  BY <1>1, <1>2, <1>4, <1>5, <1>7 DEF NumberPart

LEMMA TrailStays ==
  ASSUME TrailMatches, UNCHANGED <<state, dbTasks, seqRows>>
  PROVE  TrailMatches'
BY DEF TrailMatches, getSequenceNumbers

LEMMA AuthenticatedIs ==
  ASSUME NumberPart, NEW c \in Clients
  PROVE  authenticate(c) \in SessionState
<1>1. dbTasks \in Seq(SeqTask) /\ seqRows \in [Clients -> Seqs] /\ state[c] \in SessionState
  BY DEF NumberPart
<1>2. getSequenceNumbers(c) \in Seqs
  <2>1. \A i \in DOMAIN dbTasks : dbTasks[i] \in SeqTask
    BY <1>1, SeqElements
  <2>2. EndsIn(dbTasks, seqRows, c, getSequenceNumbers(c))
    BY <1>1, NumbersEnd DEF getSequenceNumbers, LastOf
  <2>3. QED
    BY <1>1, <2>1, <2>2 DEF EndsIn, Seqs, SeqTask
<1>3. getSequenceNumbers(c).in \in Nat /\ getSequenceNumbers(c).out \in Nat
  BY <1>2 DEF Seqs
<1>4. [state[c] EXCEPT !.on = TRUE] \in SessionState
  BY <1>1 DEF SessionState
<1>5. \A i, o \in Nat : [known |-> TRUE, in |-> i, out |-> o, on |-> TRUE] \in SessionState
  BY DEF SessionState
<1>6. QED
  BY <1>3, <1>4, <1>5 DEF authenticate

(* A message that is only checked.                                          *)
LEMMA CheckedRenumbers ==
  ASSUME NumberPart, NEW k \in Conn, NEW m \in UpMessage, LoggedOn(k), Checked(k, m),
         UNCHANGED seqRows
  PROVE  LET c == compOf[k]
             checked == validateSequence(state[c], m.seq)
         IN  Renumbers(c, state[c], checked, checked, checked)
<1> DEFINE c == compOf[k]
           checked == validateSequence(state[c], m.seq)
<1>1. c \in Clients
  BY DEF NumberPart, LoggedOn
<1>2. state[c] \in SessionState /\ m.seq \in Nat
  BY <1>1, UpMessageIs DEF NumberPart
<1>3. checked \in SessionState
  BY <1>2, StatesKept
<1>4. state' = [state EXCEPT ![c] = checked]
      /\ dbTasks' = dbTasks \o Persisted(c, state[c], checked, checked)
  BY DEF Checked
<1> HIDE DEF c, checked
<1>5. Renumbers(c, state[c], checked, checked, checked)
  BY <1>1, <1>2, <1>3, <1>4 DEF Renumbers
<1>6. QED
  BY <1>5 DEF c, checked

(* A message that is checked and answered.                                  *)
LEMMA AnsweredRenumbers ==
  ASSUME NumberPart, NEW c \in Clients, NEW old \in SessionState, NEW n \in Nat,
         state' = [state EXCEPT ![c] = useNextOutboundSequence(validateSequence(old, n))],
         dbTasks' = dbTasks \o Persisted(c, old, validateSequence(old, n),
                                         useNextOutboundSequence(validateSequence(old, n))),
         UNCHANGED seqRows
  PROVE  /\ validateSequence(old, n).out \in Nat
         /\ Renumbers(c, old, validateSequence(old, n),
                      useNextOutboundSequence(validateSequence(old, n)),
                      useNextOutboundSequence(validateSequence(old, n)))
<1> DEFINE checked == validateSequence(old, n)
           final == useNextOutboundSequence(checked)
<1>1. checked \in SessionState /\ checked.out \in Nat /\ old.out \in Nat
  BY StatesKept
<1>2. final \in SessionState
  BY <1>1, StatesKept
<1>3. checked.out = old.out /\ final.out = checked.out + 1
  BY <1>1 DEF validateSequence, useNextOutboundSequence, SessionState
<1>4. final # old
  BY <1>1, <1>3
<1> HIDE DEF checked, final
<1>5. Renumbers(c, old, checked, final, final)
  BY <1>1, <1>2, <1>4 DEF Renumbers, checked, final
<1>6. QED
  BY <1>1, <1>5 DEF checked, final

(* A number taken without a message being checked.                          *)
LEMMA TakenRenumbers ==
  ASSUME NumberPart, NEW c \in Clients, NEW next \in SessionState,
         next.in = useNextOutboundSequence(state[c]).in,
         next.out = useNextOutboundSequence(state[c]).out,
         state' = [state EXCEPT ![c] = next],
         dbTasks' = dbTasks \o Persisted(c, state[c], state[c], useNextOutboundSequence(state[c])),
         UNCHANGED seqRows
  PROVE  Renumbers(c, state[c], state[c], useNextOutboundSequence(state[c]), next)
<1> DEFINE final == useNextOutboundSequence(state[c])
<1>1. state[c] \in SessionState
  BY DEF NumberPart
<1>2. final \in SessionState /\ final # state[c]
  BY <1>1, StatesKept
<1> HIDE DEF final
<1>3. QED
  BY <1>1, <1>2 DEF Renumbers, final

-----------------------------------------------------------------------------
(* What every step of the gateway keeps: the types of the connections, the  *)
(* parts of the gateway, and the trail of sequence numbers.                 *)
Kept == WireTypeOK /\ GatewayParts /\ TrailMatches

LEMMA ConnectionsKept ==
  ASSUME Kept, NEW k \in Conn, Accept(k) \/ Receive(k) \/ ReadError(k)
  PROVE  Kept'
<1> USE DEF tableVars, coreVars, marketVars
<1>1. WireTypeOK /\ GatewayParts /\ TrailMatches
  BY DEF Kept
<1>2. CASE Accept(k)
  <2>1. WireTypeOK'
    BY <1>1, <1>2 DEF WireTypeOK, Accept
  <2>2. SessionPart'
    BY <1>1, <1>2 DEF SessionPart, GatewayParts, Accept
  <2>3. /\ TrailMatches' /\ IoPart' /\ SendPart' /\ NumberPart' /\ CorePart'
        /\ UNCHANGED <<valid, restarts>>
    BY <1>1, <1>2, PartsStay, TrailStays DEF GatewayParts, Accept
  <2>4. QED
    BY <1>1, <2>1, <2>2, <2>3 DEF Kept, GatewayParts
<1>3. CASE Receive(k)
  <2>1. up[k] \in Seq(UpMessage)
    BY <1>1 DEF WireTypeOK
  <2>2. PICK n \in 1..Len(up[k]) :
          /\ io' = [IdleIo EXCEPT !.pc = "handle", !.conn = k, !.buf = SubSeq(up[k], 1, n)]
          /\ up' = [up EXCEPT ![k] = SubSeq(@, n + 1, Len(@))]
    BY <1>3 DEF Receive
  <2>3. /\ SubSeq(up[k], 1, n) \in Seq(UpMessage) /\ SubSeq(up[k], 1, n) # << >>
        /\ SubSeq(up[k], n + 1, Len(up[k])) \in Seq(UpMessage)
    BY <2>1, SeqCut
  <2>4. WireTypeOK'
    BY <1>1, <1>3, <2>2, <2>3 DEF WireTypeOK, Receive
  <2>5. IoPart'
    <3>1. /\ io' \in IoState /\ io'.pc = "handle" /\ io'.conn = k
          /\ io'.buf = SubSeq(up[k], 1, n)
      BY <2>2, <2>3, SeqNone DEF IdleIo, IoState
    <3>2. QED
      BY <3>1, <2>3 DEF IoPart
  <2>6. /\ TrailMatches' /\ SessionPart' /\ SendPart' /\ NumberPart' /\ CorePart'
        /\ UNCHANGED <<valid, restarts>>
    BY <1>1, <1>3, PartsStay, TrailStays DEF GatewayParts, Receive
  <2>7. QED
    BY <1>1, <2>4, <2>5, <2>6 DEF Kept, GatewayParts
<1>4. CASE ReadError(k)
  <2>1. WireTypeOK'
    BY <1>1, <1>4, ServerClosed DEF ReadError
  <2>2. SessionPart'
    BY <1>1, <1>4 DEF SessionPart, GatewayParts, ReadError
  <2>3. /\ TrailMatches' /\ IoPart' /\ SendPart' /\ NumberPart'
        /\ UNCHANGED <<valid, restarts>>
    BY <1>1, <1>4, PartsStay, TrailStays DEF GatewayParts, ReadError
  <2>4. CorePart'
    BY <1>1, <1>4 DEF CorePart, GatewayParts, ReadError
  <2>5. QED
    BY <1>1, <2>1, <2>2, <2>3, <2>4 DEF Kept, GatewayParts
<1>5. QED
  BY <1>2, <1>3, <1>4

LEMMA LogonsKept ==
  ASSUME Kept, NEW k \in Conn, NEW m,
         RefuseLogon(k, m) \/ AcceptLogon(k, m) \/ HandleLogout(k, m)
  PROVE  Kept' /\ io'.pc = "write" /\ io'.conn = io.conn /\ io'.buf = io.buf
<1> USE DEF tableVars, coreVars, marketVars
<1>1. WireTypeOK /\ GatewayParts /\ TrailMatches /\ IoPart /\ NumberPart
  BY DEF Kept, GatewayParts
<1>2. At(k, m) /\ m.type \in {"Logon", "Logout"} /\ UNCHANGED wireVars
  BY DEF RefuseLogon, AcceptLogon, HandleLogout
<1>3. /\ io.pc = "handle" /\ io.conn = k /\ m = Head(io.buf) /\ m \in UpMessage
      /\ m.comp \in Clients /\ m.seq \in Nat
  BY <1>1, <1>2, AtMessage, UpMessageIs
<1>4. WireTypeOK'
  BY <1>1, <1>2, WireStays
<1>5. /\ SendPart' /\ SessionPart' /\ CorePart' /\ UNCHANGED <<valid, restarts>>
  BY <1>1, PartsStay DEF GatewayParts, RefuseLogon, AcceptLogon, HandleLogout
<1>6. "Logon" \in DownType /\ "Logout" \in DownType
  BY DEF DownType
<1>7. CASE RefuseLogon(k, m)
  <2>1. IoPart' /\ io'.pc = "write" /\ io'.conn = io.conn /\ io'.buf = io.buf
    <3>1. Reply("Logout", 1, TRUE)
      BY <1>7 DEF RefuseLogon
    <3>2. QED
      BY <3>1, <1>1, <1>2, <1>3, <1>6, IoReplies
  <2>2. NumberPart' /\ TrailMatches'
    BY <1>1, <1>7, PartsStay, TrailStays DEF RefuseLogon
  <2>3. QED
    BY <1>1, <1>4, <1>5, <2>1, <2>2 DEF Kept, GatewayParts
<1>8. CASE AcceptLogon(k, m)
  <2> DEFINE old == authenticate(m.comp)
             checked == validateSequence(old, m.seq)
             final == useNextOutboundSequence(checked)
  <2>1. /\ state' = [state EXCEPT ![m.comp] = final]
        /\ dbTasks' = dbTasks \o Persisted(m.comp, old, checked, final)
        /\ Reply("Logon", checked.out, FALSE)
        /\ compOf' = [compOf EXCEPT ![k] = m.comp] /\ UNCHANGED seqRows
    BY <1>8 DEF AcceptLogon
  <2>2. old \in SessionState
    BY <1>1, <1>3, AuthenticatedIs
  <2> HIDE DEF old
  <2>3. checked.out \in Nat /\ Renumbers(m.comp, old, checked, final, final)
    BY <1>1, <1>3, <2>1, <2>2, AnsweredRenumbers
  <2> HIDE DEF checked, final
  <2>4. compOf' \in [Conn -> Clients \cup {NoClient}]
    BY <1>1, <1>3, <2>1 DEF NumberPart
  <2>5. NumberPart' /\ TrailMatches'
    BY <1>1, <2>3, <2>4, RenumberedKeeps
  <2>6. IoPart' /\ io'.pc = "write" /\ io'.conn = io.conn /\ io'.buf = io.buf
    BY <2>1, <2>3, <1>1, <1>2, <1>3, <1>6, IoReplies
  <2>7. QED
    BY <1>1, <1>4, <1>5, <2>5, <2>6 DEF Kept, GatewayParts
<1>9. CASE HandleLogout(k, m)
  <2>1. Reply("Logout", NextNumber(k), TRUE) /\ UNCHANGED <<compOf, seqRows>>
    BY <1>9 DEF HandleLogout
  <2>2. NextNumber(k) \in Nat
    BY <1>1, StatesKept DEF NextNumber, NumberPart, SessionState
  <2>3. IoPart' /\ io'.pc = "write" /\ io'.conn = io.conn /\ io'.buf = io.buf
    BY <2>1, <2>2, <1>1, <1>2, <1>3, <1>6, IoReplies
  <2>4. NumberPart' /\ TrailMatches'
    <3>1. CASE compOf[k] = NoClient
      <4>1. UNCHANGED <<state, dbTasks>>
        BY <3>1, <1>9 DEF HandleLogout
      <4>2. QED
        BY <4>1, <2>1, <1>1, PartsStay, TrailStays
    <3>2. CASE compOf[k] # NoClient
      <4> DEFINE c == compOf[k]
                 final == useNextOutboundSequence(state[c])
                 next == [final EXCEPT !.on = FALSE]
      <4>1. c \in Clients /\ state[c] \in SessionState
        BY <3>2, <1>1 DEF NumberPart
      <4>2. /\ state' = [state EXCEPT ![c] = next]
            /\ dbTasks' = dbTasks \o Persisted(c, state[c], state[c], final)
        BY <3>2, <1>9 DEF HandleLogout
      <4> HIDE DEF c
      <4>3. final \in SessionState
        BY <4>1, StatesKept
      <4> HIDE DEF final
      <4>4. next \in SessionState /\ next.in = final.in /\ next.out = final.out
        BY <4>3 DEF SessionState
      <4> HIDE DEF next
      <4>5. Renumbers(c, state[c], state[c], final, next)
        BY <4>1, <4>2, <4>4, <2>1, <1>1, TakenRenumbers DEF final
      <4>6. QED
        BY <4>5, <2>1, <1>1, RenumberedKeeps DEF NumberPart
    <3>3. QED
      BY <3>1, <3>2
  <2>5. QED
    BY <1>1, <1>4, <1>5, <2>3, <2>4 DEF Kept, GatewayParts
<1>10. QED
  BY <1>7, <1>8, <1>9

LEMMA MessagesKept ==
  ASSUME Kept, NEW k \in Conn, NEW m,
         \/ RefuseMessage(k, m) \/ HandleAnswered(k, m) \/ HandleIgnored(k, m)
         \/ HandleNewOrder(k, m) \/ HandleAmend(k, m)
  PROVE  Kept'
<1> USE DEF tableVars, coreVars, marketVars
<1>1. WireTypeOK /\ GatewayParts /\ TrailMatches /\ IoPart /\ NumberPart /\ CorePart
      /\ SessionPart
  BY DEF Kept, GatewayParts
<1>2. At(k, m) /\ m.type \notin {"Logon", "Logout"}
  BY DEF RefuseMessage, HandleAnswered, HandleIgnored, HandleNewOrder, HandleAmend, Answer
<1>3. /\ io.pc = "handle" /\ io.conn = k /\ m = Head(io.buf) /\ m \in UpMessage
      /\ m.type \in UpType /\ m.seq \in Nat
      /\ m.type \in {"NewOrder", "Cancel", "Replace"} => m.ref \in Ref
  BY <1>1, <1>2, AtMessage, UpMessageIs
<1>4. /\ SendPart' /\ SessionPart' /\ UNCHANGED <<valid, restarts>>
  BY <1>1, PartsStay DEF GatewayParts, RefuseMessage, HandleAnswered, HandleIgnored,
                         HandleNewOrder, HandleAmend
<1>5. sessionId[k] \in Nat
  BY <1>1 DEF SessionPart
<1>6. CASE RefuseMessage(k, m)
  <2>1. WireTypeOK'
    BY <1>1, <1>6, ServerClosed DEF RefuseMessage
  <2>2. IoPart'
    BY <1>1, <1>3, <1>6, IoHandled DEF RefuseMessage
  <2>3. NumberPart' /\ CorePart' /\ TrailMatches'
    BY <1>1, <1>6, PartsStay, TrailStays DEF RefuseMessage
  <2>4. QED
    BY <1>1, <1>4, <2>1, <2>2, <2>3 DEF Kept, GatewayParts
<1>7. CASE HandleAnswered(k, m)
  <2> DEFINE c == compOf[k]
             checked == validateSequence(state[c], m.seq)
             final == useNextOutboundSequence(checked)
  <2>1. /\ state' = [state EXCEPT ![c] = final]
        /\ dbTasks' = dbTasks \o Persisted(c, state[c], checked, final)
        /\ Reply(Answer[m.type], checked.out, FALSE)
        /\ UNCHANGED <<compOf, seqRows>> /\ UNCHANGED wireVars
        /\ LoggedOn(k) /\ m.type \in DOMAIN Answer
    BY <1>7 DEF HandleAnswered
  <2>2. c \in Clients /\ state[c] \in SessionState
    BY <1>1, <2>1 DEF NumberPart, LoggedOn
  <2>3. Answer[m.type] \in DownType /\ m.type # "NewOrder"
    BY <2>1 DEF Answer, DownType
  <2> HIDE DEF c
  <2>4. checked.out \in Nat /\ Renumbers(c, state[c], checked, final, final)
    BY <1>1, <1>3, <2>1, <2>2, AnsweredRenumbers
  <2> HIDE DEF checked, final
  <2>5. NumberPart' /\ TrailMatches'
    BY <1>1, <2>1, <2>4, RenumberedKeeps DEF NumberPart
  <2>6. IoPart'
    BY <2>1, <2>3, <2>4, <1>1, <1>3, IoReplies
  <2>7. WireTypeOK'
    BY <1>1, <2>1, WireStays
  <2>8. CorePart'
    BY <1>1, <1>7 DEF CorePart, HandleAnswered
  <2>9. QED
    BY <1>1, <1>4, <2>5, <2>6, <2>7, <2>8 DEF Kept, GatewayParts
<1>8. ASSUME HandleIgnored(k, m) \/ HandleNewOrder(k, m) \/ HandleAmend(k, m)
      PROVE  WireTypeOK' /\ IoPart' /\ NumberPart' /\ TrailMatches'
  <2>1. /\ LoggedOn(k) /\ Checked(k, m) /\ io' = HandledIo
        /\ UNCHANGED wireVars /\ UNCHANGED <<compOf, seqRows>>
    BY <1>8 DEF HandleIgnored, HandleNewOrder, HandleAmend
  <2>2. WireTypeOK' /\ IoPart'
    BY <1>1, <1>3, <2>1, WireStays, IoHandled
  <2> DEFINE c == compOf[k]
             checked == validateSequence(state[c], m.seq)
  <2>3. Renumbers(c, state[c], checked, checked, checked)
    BY <1>1, <1>3, <2>1, CheckedRenumbers
  <2> HIDE DEF c, checked
  <2>4. NumberPart' /\ TrailMatches'
    BY <1>1, <2>1, <2>3, RenumberedKeeps DEF NumberPart
  <2>5. QED
    BY <2>2, <2>4
<1>9. CASE HandleIgnored(k, m)
  <2>1. CorePart'
    BY <1>1, <1>9 DEF CorePart, HandleIgnored
  <2>2. QED
    BY <1>1, <1>4, <1>8, <1>9, <2>1 DEF Kept, GatewayParts
<1>10. CASE HandleNewOrder(k, m)
  <2> DEFINE cmd == [type |-> "NewOrder", ref |-> m.ref, session |-> sessionId[k]]
  <2>1. m.ref \in Ref
    BY <1>3, <1>10 DEF HandleNewOrder
  <2>2. cmd \in Command
    BY <2>1, <1>5 DEF Command
  <2> HIDE DEF cmd
  <2>3. Append(commands, cmd) \in Seq(Command) /\ Append(executed[k], m.ref) \in Seq(Ref)
    BY <1>1, <2>1, <2>2, SeqAppended DEF CorePart
  <2>4. /\ orders' = [orders EXCEPT ![m.ref] = [status |-> "queued", session |-> sessionId[k]]]
        /\ commands' = Append(commands, cmd)
        /\ executed' = [executed EXCEPT ![k] = Append(@, m.ref)]
        /\ UNCHANGED <<subscribed, targets, increments>>
    BY <1>10 DEF HandleNewOrder, cmd
  <2>5. [status |-> "queued", session |-> sessionId[k]] \in Core
    BY <1>5 DEF Core
  <2>6. CorePart'
    BY <1>1, <2>1, <2>3, <2>4, <2>5 DEF CorePart
  <2>7. QED
    BY <1>1, <1>4, <1>8, <1>10, <2>6 DEF Kept, GatewayParts
<1>11. CASE HandleAmend(k, m)
  <2> DEFINE cmd == [type |-> m.type, ref |-> m.ref, session |-> sessionId[k]]
  <2>1. m.ref \in Ref /\ m.type \in {"Cancel", "Replace"}
    BY <1>3, <1>11 DEF HandleAmend
  <2>2. cmd \in Command
    BY <2>1, <1>5 DEF Command
  <2> HIDE DEF cmd
  <2>3. Append(commands, cmd) \in Seq(Command)
    BY <1>1, <2>2, SeqAppended DEF CorePart
  <2>4. (commands' = Append(commands, cmd) \/ commands' = commands)
        /\ UNCHANGED <<orders, executed, subscribed, targets, increments>>
    BY <1>11 DEF HandleAmend, cmd
  <2>5. CorePart'
    BY <1>1, <2>3, <2>4 DEF CorePart
  <2>6. QED
    BY <1>1, <1>4, <1>8, <1>11, <2>5 DEF Kept, GatewayParts
<1>12. QED
  BY <1>6, <1>7, <1>9, <1>10, <1>11

LEMMA AnswersKept ==
  ASSUME Kept, IoWrite \/ cleanupConnection \/ IoClose
  PROVE  Kept'
<1> USE DEF tableVars, coreVars, marketVars
<1>1. WireTypeOK /\ GatewayParts /\ TrailMatches /\ IoPart /\ NumberPart
  BY DEF Kept, GatewayParts
<1>2. io.pc \in {"write", "cleanup", "close"}
  BY DEF IoWrite, cleanupConnection, IoClose
<1>3. io \in IoState /\ io.conn \in Conn /\ io.buf # << >> /\ Head(io.buf).type # "NewOrder"
  BY <1>1, <1>2 DEF IoPart
<1>4. SendPart' /\ SessionPart' /\ CorePart' /\ UNCHANGED <<valid, restarts>>
  BY <1>1, PartsStay DEF GatewayParts, IoWrite, cleanupConnection, IoClose
<1>5. CASE IoWrite
  <2>1. io.reply \in Seq(DownMessage) /\ io.reply # << >>
    BY <1>1, <1>5 DEF IoPart, IoState, IoWrite
  <2>2. Head(io.reply) \in DownMessage
    BY <2>1, SeqTaken
  <2>3. WireTypeOK'
    BY <1>1, <1>3, <1>5, <2>2, WroteDown DEF IoWrite
  <2>4. IoPart'
    <3>1. CASE io' = HandledIo
      BY <3>1, <1>1, <1>2, IoHandled
    <3>2. ASSUME NEW pc \in {"cleanup", "close"}, io' = [io EXCEPT !.pc = pc]
          PROVE  IoPart'
      <4>1. io' \in IoState /\ io'.pc = pc /\ io'.conn = io.conn /\ io'.buf = io.buf
        BY <3>2, <1>3 DEF IoState
      <4>2. QED
        BY <4>1, <1>3 DEF IoPart
    <3>3. QED
      BY <1>5, <3>1, <3>2 DEF IoWrite
  <2>5. NumberPart' /\ TrailMatches'
    BY <1>1, <1>5, PartsStay, TrailStays DEF IoWrite
  <2>6. QED
    BY <1>1, <1>4, <2>3, <2>4, <2>5 DEF Kept, GatewayParts
<1>6. CASE cleanupConnection
  <2>1. IoPart'
    <3>1. io' = [io EXCEPT !.pc = "close"]
      BY <1>6 DEF cleanupConnection
    <3>2. io' \in IoState /\ io'.pc = "close" /\ io'.conn = io.conn /\ io'.buf = io.buf
      BY <3>1, <1>3 DEF IoState
    <3>3. QED
      BY <3>2, <1>3 DEF IoPart
  <2>2. NumberPart'
    BY <1>1, <1>6 DEF NumberPart, cleanupConnection
  <2>3. WireTypeOK' /\ TrailMatches'
    BY <1>1, <1>6, WireStays, TrailStays DEF cleanupConnection
  <2>4. QED
    BY <1>1, <1>4, <2>1, <2>2, <2>3 DEF Kept, GatewayParts
<1>7. CASE IoClose
  <2>1. WireTypeOK'
    BY <1>1, <1>3, <1>7, ServerClosed DEF IoClose
  <2>2. IoPart'
    BY <1>1, <1>2, <1>7, IoHandled DEF IoClose
  <2>3. NumberPart' /\ TrailMatches'
    BY <1>1, <1>7, PartsStay, TrailStays DEF IoClose
  <2>4. QED
    BY <1>1, <1>4, <2>1, <2>2, <2>3 DEF Kept, GatewayParts
<1>8. QED
  BY <1>5, <1>6, <1>7

(* A worker takes a number and has a message to write.                      *)
LEMMA MessageTaken ==
  ASSUME Kept, NEW t \in Workers, NEW k \in sessions, NEW type \in DownType,
         NEW ref \in Ref \cup {0}, Send(t, k, type, ref), UNCHANGED <<compOf, seqRows>>
  PROVE  /\ SendPart' /\ NumberPart' /\ TrailMatches'
         /\ \A c \in Clients : state'[c].on = state[c].on
<1> DEFINE r == [type |-> type, seq |-> NextNumber(k), ref |-> ref]
           s == [conn |-> k, message |-> <<r>>]
<1>1. SendPart /\ NumberPart /\ SessionPart /\ TrailMatches
  BY DEF Kept, GatewayParts
<1>2. k \in Conn
  BY <1>1 DEF SessionPart
<1>3. NextNumber(k) \in Nat
  BY <1>1, <1>2 DEF NextNumber, NumberPart, SessionState
<1>4. r \in DownMessage
  BY <1>3 DEF DownMessage
<1>5. sending' = [sending EXCEPT ![t] = s]
  BY DEF Send
<1> HIDE DEF r
<1>6. <<r>> \in Seq(DownMessage) /\ <<r>> # << >>
  BY <1>4, SeqSingle
<1>7. s \in Sending /\ s.conn \in Conn /\ s.message # << >>
  BY <1>2, <1>6 DEF Sending
<1> HIDE DEF s
<1>8. SendPart'
  BY <1>1, <1>5, <1>7 DEF SendPart
<1>9. CASE compOf[k] = NoClient
  <2>1. UNCHANGED <<state, dbTasks>>
    BY <1>9 DEF Send
  <2>2. QED
    BY <2>1, <1>1, <1>8, PartsStay, TrailStays
<1>10. CASE compOf[k] # NoClient
  <2> DEFINE c == compOf[k]
             final == useNextOutboundSequence(state[c])
  <2>1. c \in Clients /\ state[c] \in SessionState
    BY <1>1, <1>2, <1>10 DEF NumberPart
  <2>2. /\ state' = [state EXCEPT ![c] = final]
        /\ dbTasks' = dbTasks \o Persisted(c, state[c], state[c], final)
    BY <1>10 DEF Send
  <2> HIDE DEF c
  <2>3. final \in SessionState /\ final.on = state[c].on
    BY <2>1, StatesKept
  <2>4. Renumbers(c, state[c], state[c], final, final)
    BY <2>1, <2>2, <2>3, <1>1, TakenRenumbers
  <2> HIDE DEF final
  <2>5. NumberPart' /\ TrailMatches'
    BY <2>4, <1>1, RenumberedKeeps DEF NumberPart
  <2>6. \A d \in Clients : state'[d].on = state[d].on
    BY <2>1, <2>2, <2>3, <1>1 DEF NumberPart
  <2>7. QED
    BY <1>8, <2>5, <2>6
<1>11. QED
  BY <1>9, <1>10

LEMMA ReportTaken ==
  ASSUME Kept, NEW t \in Workers, NEW session, NEW ref \in Ref,
         onExecutionReport(t, session, ref), UNCHANGED <<compOf, seqRows>>
  PROVE  /\ SendPart' /\ NumberPart' /\ TrailMatches'
         /\ \A c \in Clients : state'[c].on = state[c].on
<1>1. SendPart /\ NumberPart /\ SessionPart /\ TrailMatches
  BY DEF Kept, GatewayParts
<1>2. CASE UNCHANGED <<state, dbTasks, sending>>
  BY <1>1, <1>2, PartsStay, TrailStays
<1>3. CASE \E k \in sessions : Send(t, k, "Report", ref)
  BY <1>3, MessageTaken DEF DownType
<1>4. QED
  BY <1>2, <1>3 DEF onExecutionReport

LEMMA WorkersKept ==
  ASSUME Kept, NEW t \in Workers, WorkerStep(t)
  PROVE  Kept' /\ \A c \in Clients : state'[c].on = state[c].on
<1> USE DEF tableVars, coreVars, marketVars
<1>1. WireTypeOK /\ GatewayParts /\ TrailMatches /\ CorePart /\ SendPart
  BY DEF Kept, GatewayParts
<1>2. IoPart' /\ SessionPart' /\ UNCHANGED <<valid, restarts>>
  BY <1>1, PartsStay DEF GatewayParts, WorkerStep, ProcessCommand, WorkerWrite, MatchOrder,
                         publishIncremental, SendIncrement
<1>3. CASE ProcessCommand(t)
  <2> DEFINE cmd == Head(commands)
             order == orders[cmd.ref]
             to == IF order.status = "done" THEN cmd.session ELSE order.session
  <2>1. cmd \in Command /\ Tail(commands) \in Seq(Command)
    BY <1>1, <1>3, SeqTaken DEF CorePart, ProcessCommand
  <2>2. cmd.ref \in Ref /\ cmd.type \in {"NewOrder", "Cancel", "Replace"}
    BY <2>1 DEF Command
  <2>3. order \in Core
    BY <1>1, <2>2 DEF CorePart
  <2>4. /\ onExecutionReport(t, to, cmd.ref) /\ commands' = Tail(commands)
        /\ UNCHANGED wireVars
        /\ UNCHANGED <<compOf, seqRows, executed, subscribed, targets, increments>>
    BY <1>3 DEF ProcessCommand
  <2>5. \E s \in {"live", "done", order.status} : orders' = [orders EXCEPT ![cmd.ref].status = s]
    BY <1>3, <2>2 DEF ProcessCommand
  <2> HIDE DEF cmd, order, to
  <2>6. orders' \in [Ref -> Core]
    <3>1. PICK s \in {"live", "done", order.status} :
                 orders' = [orders EXCEPT ![cmd.ref].status = s]
      BY <2>5
    <3>2. s \in {"unknown", "queued", "live", "done"}
      BY <3>1, <2>3 DEF Core
    <3>3. orders[cmd.ref] \in Core
      BY <1>1, <2>2 DEF CorePart
    <3>4. [orders[cmd.ref] EXCEPT !.status = s] \in Core
      BY <3>2, <3>3 DEF Core
    <3>5. QED
      BY <3>1, <3>4, <2>2, <1>1 DEF CorePart
  <2>7. CorePart'
    BY <1>1, <2>1, <2>4, <2>6 DEF CorePart
  <2>8. /\ SendPart' /\ NumberPart' /\ TrailMatches'
        /\ \A c \in Clients : state'[c].on = state[c].on
    BY <2>2, <2>4, ReportTaken
  <2>9. WireTypeOK'
    BY <1>1, <2>4, WireStays
  <2>10. QED
    BY <1>1, <1>2, <2>7, <2>8, <2>9 DEF Kept, GatewayParts
<1>4. CASE WorkerWrite(t)
  <2> DEFINE s == sending[t]
  <2>1. s \in Sending /\ s.conn \in Conn /\ s.message # << >>
    BY <1>1, <1>4 DEF SendPart, WorkerWrite
  <2>2. Head(s.message) \in DownMessage
    BY <2>1, SeqTaken DEF Sending
  <2>3. WireTypeOK'
    BY <1>1, <1>4, <2>1, <2>2, WroteDown DEF WorkerWrite
  <2>4. NotSending \in Sending
    BY SeqNone DEF NotSending, Sending
  <2>5. SendPart'
    BY <1>1, <1>4, <2>4 DEF SendPart, WorkerWrite
  <2>6. NumberPart' /\ CorePart' /\ TrailMatches' /\ UNCHANGED state
    BY <1>1, <1>4, PartsStay, TrailStays DEF GatewayParts, WorkerWrite
  <2>7. QED
    BY <1>1, <1>2, <2>3, <2>5, <2>6 DEF Kept, GatewayParts
<1>5. ASSUME NEW ref \in Ref, MatchOrder(t, ref)
      PROVE  Kept' /\ \A c \in Clients : state'[c].on = state[c].on
  <2>1. /\ onExecutionReport(t, orders[ref].session, ref)
        /\ orders' = [orders EXCEPT ![ref].status = "done"]
        /\ UNCHANGED wireVars
        /\ UNCHANGED <<compOf, seqRows, commands, executed, subscribed, targets, increments>>
    BY <1>5 DEF MatchOrder
  <2>2. orders' \in [Ref -> Core]
    <3>1. orders[ref] \in Core
      BY <1>1 DEF CorePart
    <3>2. [orders[ref] EXCEPT !.status = "done"] \in Core
      BY <3>1 DEF Core
    <3>3. QED
      BY <3>2, <2>1, <1>1 DEF CorePart
  <2>3. CorePart'
    BY <1>1, <2>1, <2>2 DEF CorePart
  <2>4. /\ SendPart' /\ NumberPart' /\ TrailMatches'
        /\ \A c \in Clients : state'[c].on = state[c].on
    BY <2>1, ReportTaken
  <2>5. WireTypeOK'
    BY <1>1, <2>1, WireStays
  <2>6. QED
    BY <1>1, <1>2, <2>3, <2>4, <2>5 DEF Kept, GatewayParts
<1>6. CASE publishIncremental(t)
  <2>1. CorePart'
    BY <1>1, <1>6, ServerAssumption DEF CorePart, publishIncremental
  <2>2. WireTypeOK' /\ SendPart' /\ NumberPart' /\ TrailMatches' /\ UNCHANGED state
    BY <1>1, <1>6, WireStays, PartsStay, TrailStays DEF GatewayParts, publishIncremental
  <2>3. QED
    BY <1>1, <1>2, <2>1, <2>2 DEF Kept, GatewayParts
<1>7. CASE SendIncrement(t)
  <2>1. PICK k \in targets[t] :
          /\ targets' = [targets EXCEPT ![t] = @ \ {k}]
          /\ IF k \in sessions THEN Send(t, k, "MarketData", 0)
             ELSE UNCHANGED <<state, dbTasks, sending>>
    BY <1>7 DEF SendIncrement
  <2>2. CorePart'
    BY <1>1, <1>7, <2>1 DEF CorePart, SendIncrement
  <2>3. WireTypeOK' /\ UNCHANGED <<compOf, seqRows>>
    BY <1>1, <1>7, WireStays DEF SendIncrement
  <2>4. CASE k \in sessions
    <3>1. /\ SendPart' /\ NumberPart' /\ TrailMatches'
          /\ \A c \in Clients : state'[c].on = state[c].on
      BY <2>1, <2>3, <2>4, MessageTaken DEF DownType
    <3>2. QED
      BY <3>1, <1>1, <1>2, <2>2, <2>3 DEF Kept, GatewayParts
  <2>5. CASE k \notin sessions
    <3>1. SendPart' /\ NumberPart' /\ TrailMatches' /\ UNCHANGED state
      BY <2>1, <2>3, <2>5, <1>1, PartsStay, TrailStays DEF GatewayParts
    <3>2. QED
      BY <3>1, <1>1, <1>2, <2>2, <2>3 DEF Kept, GatewayParts
  <2>6. QED
    BY <2>4, <2>5
<1>8. QED
  BY <1>3, <1>4, <1>5, <1>6, <1>7 DEF WorkerStep

(* The database worker: the row takes over from the task.                   *)
LEMMA TasksKept ==
  ASSUME Kept, RunTask
  PROVE  Kept' /\ UNCHANGED state
<1> USE DEF tableVars, coreVars, marketVars
<1>1. WireTypeOK /\ GatewayParts /\ TrailMatches /\ NumberPart
  BY DEF Kept, GatewayParts
<1>2. WireTypeOK' /\ IoPart' /\ SendPart' /\ SessionPart' /\ CorePart'
      /\ UNCHANGED <<restarts, compOf, state>>
  BY <1>1, WireStays, PartsStay DEF GatewayParts, RunTask
<1> DEFINE q == dbTasks
           task == Head(q)
<1>3. q \in Seq(SeqTask) /\ q # << >> /\ dbTasks' = Tail(q)
  BY <1>1 DEF NumberPart, RunTask
<1>4. /\ task \in SeqTask /\ Tail(q) \in Seq(SeqTask)
      /\ 1 \in DOMAIN q /\ task = q[1] /\ Len(q) \in Nat /\ Len(q) >= 1
      /\ DOMAIN q = 1..Len(q) /\ DOMAIN Tail(q) = 1..(Len(q) - 1)
      /\ \A i \in 1..(Len(q) - 1) : Tail(q)[i] = q[i + 1]
  BY <1>3, SeqTaken
<1>5. /\ task.comp = NoClient => valid' = Registered /\ UNCHANGED seqRows
      /\ task.comp # NoClient =>
           /\ seqRows' = [seqRows EXCEPT ![task.comp] = [in |-> task.in, out |-> task.out]]
           /\ UNCHANGED valid
  BY DEF RunTask
<1>6. valid' \subseteq Clients
  BY <1>1, <1>5, ServerAssumption DEF GatewayParts
<1> HIDE DEF q, task
<1>7. seqRows' \in [Clients -> Seqs]
  <2>1. CASE task.comp = NoClient
    BY <2>1, <1>1, <1>5 DEF NumberPart
  <2>2. CASE task.comp # NoClient
    <3>1. task.comp \in Clients /\ [in |-> task.in, out |-> task.out] \in Seqs
      BY <2>2, <1>4 DEF SeqTask, Seqs
    <3>2. QED
      BY <3>1, <2>2, <1>1, <1>5 DEF NumberPart
  <2>3. QED
    BY <2>1, <2>2
<1>8. NumberPart'
  BY <1>1, <1>2, <1>3, <1>4, <1>7 DEF NumberPart
<1>9. \A c \in Clients : state[c].known =>
        EndsIn(q, seqRows, c, [in |-> state[c].in, out |-> state[c].out])
  BY <1>1, TrailEnds DEF q, NumberPart
<1>10. ASSUME NEW c \in Clients, NEW v, EndsIn(q, seqRows, c, v)
       PROVE  EndsIn(Tail(q), seqRows', c, v)
  <2>1. c # NoClient
    BY WireAssumption
  <2>2. \A i \in DOMAIN Tail(q) : i + 1 \in DOMAIN q /\ Tail(q)[i] = q[i + 1]
    BY <1>4
  <2>3. CASE (\A i \in DOMAIN q : q[i].comp # c) /\ seqRows[c] = v
    <3>1. task.comp # c
      BY <2>3, <1>4
    <3>2. seqRows'[c] = seqRows[c]
      BY <3>1, <1>1, <1>5 DEF NumberPart
    <3>3. QED
      BY <3>2, <2>2, <2>3 DEF EndsIn
  <2>4. ASSUME NEW i \in DOMAIN q, q[i].comp = c, v = [in |-> q[i].in, out |-> q[i].out],
               \A j \in DOMAIN q : j > i => q[j].comp # c
        PROVE  EndsIn(Tail(q), seqRows', c, v)
    <3>1. CASE i = 1
      <4>1. \A j \in DOMAIN Tail(q) : j + 1 > i
        BY <3>1, <1>4
      <4>2. seqRows'[c] = v
        BY <3>1, <2>1, <2>4, <1>1, <1>4, <1>5 DEF NumberPart
      <4>3. QED
        BY <4>1, <4>2, <2>2, <2>4 DEF EndsIn
    <3>2. CASE i # 1
      <4>1. i - 1 \in DOMAIN Tail(q) /\ Tail(q)[i - 1] = q[i]
        BY <3>2, <1>4
      <4>2. \A j \in DOMAIN Tail(q) : j > i - 1 => j + 1 > i
        BY <3>2, <1>4
      <4>3. \A j \in DOMAIN Tail(q) : j > i - 1 => Tail(q)[j].comp # c
        BY <4>2, <2>2, <2>4
      <4>4. QED
        BY <4>1, <4>3, <2>4 DEF EndsIn
    <3>3. QED
      BY <3>1, <3>2
  <2>5. QED
    BY <1>10, <2>3, <2>4 DEF EndsIn
<1>11. TrailMatches'
  BY <1>2, <1>3, <1>4, <1>9, <1>10, TrailEndsNext
<1>12. QED
  BY <1>1, <1>2, <1>6, <1>8, <1>11 DEF Kept, GatewayParts

(* A restart forgets the numbers in memory.                                 *)
LEMMA RestartKept ==
  ASSUME Kept, Restart
  PROVE  Kept'
<1>1. WireTypeOK /\ GatewayParts /\ NumberPart /\ CorePart
  BY DEF Kept, GatewayParts
<1>2. WireTypeOK'
  BY <1>1, SeqNone DEF WireTypeOK, Restart
<1>3. IoPart'
  BY IdleIoPart DEF Restart
<1>4. SendPart'
  <2>1. NotSending \in Sending
    BY SeqNone DEF NotSending, Sending
  <2>2. QED
    BY <2>1 DEF SendPart, Restart
<1>5. SessionPart'
  BY DEF SessionPart, Restart
<1>6. NoState \in SessionState /\ ~NoState.known
  BY DEF NoState, SessionState
<1>7. NoTask \in SeqTask
  BY DEF NoTask, SeqTask
<1>8. <<NoTask>> \in Seq(SeqTask)
  BY <1>7, SeqSingle
<1>9. NumberPart'
  BY <1>1, <1>6, <1>8 DEF NumberPart, Restart
<1>10. TrailMatches'
  BY <1>6 DEF TrailMatches, Restart
<1>11. CorePart'
  <2>1. << >> \in Seq(Command)
    BY SeqNone
  <2>2. \A r \in Ref : [orders[r] EXCEPT !.status = "done"] \in Core /\ orders[r] \in Core
    BY <1>1 DEF CorePart, Core
  <2>3. orders' \in [Ref -> Core]
    BY <2>2 DEF Restart
  <2>4. QED
    BY <2>1, <2>3, <1>1 DEF CorePart, Restart
<1>12. valid' \subseteq Clients /\ restarts' \in 0..MaxRestarts
  BY <1>1, ServerAssumption DEF Restart, GatewayParts
<1>13. QED
  BY <1>2, <1>3, <1>4, <1>5, <1>9, <1>10, <1>11, <1>12 DEF Kept, GatewayParts

-----------------------------------------------------------------------------
(* Orders in line, by the elements of the sequences.                        *)

(* t is a front of s.                                                       *)
Begins(t, s) ==
  /\ t \in Seq(UpMessage) /\ s \in Seq(UpMessage)
  /\ DOMAIN t \subseteq DOMAIN s /\ \A i \in DOMAIN t : t[i] = s[i]

Increasing(sent) == \A m, n \in DOMAIN sent : m < n => sent[m] < sent[n]

LEMMA OrderRefs ==
  ASSUME NEW s \in Seq(UpMessage)
  PROVE  \A i \in NewOrders(s) : i \in Nat /\ i \in DOMAIN s /\ s[i].ref \in Ref
                                 /\ s[i].ref \in Nat
<1>1. \A i \in DOMAIN s : s[i] \in UpMessage /\ i \in Nat
  BY SeqElements
<1>2. Ref \subseteq Nat
  BY WireAssumption DEF Ref
<1>3. QED
  BY <1>1, <1>2, UpMessageIs DEF NewOrders

LEMMA SentRefs ==
  ASSUME NEW q \in Seq(Ref)
  PROVE  /\ Len(q) \in Nat /\ DOMAIN q = 1..Len(q)
         /\ \A n \in DOMAIN q : q[n] \in Ref /\ q[n] \in Nat /\ n \in Nat
<1>1. Ref \subseteq Nat
  BY WireAssumption DEF Ref
<1>2. QED
  BY <1>1, SeqElements

LEMMA FrontContinues ==
  ASSUME NEW s, NEW t, NEW done \in Seq(Ref), NEW sent \in Seq(Ref), Begins(t, s)
  PROVE  /\ Continues(s, done, sent) => Continues(t, done, sent)
         /\ LogonFirst(s) => LogonFirst(t)
<1>1. /\ t \in Seq(UpMessage) /\ s \in Seq(UpMessage)
      /\ DOMAIN t \subseteq DOMAIN s /\ \A i \in DOMAIN t : t[i] = s[i]
  BY DEF Begins
<1>2. /\ Len(t) \in Nat /\ DOMAIN t = 1..Len(t) /\ Len(s) \in Nat /\ DOMAIN s = 1..Len(s)
  BY <1>1, SeqElements
<1>3. \A i \in NewOrders(t) : i \in NewOrders(s) /\ t[i] = s[i]
  BY <1>1 DEF NewOrders
<1>4. \A i \in NewOrders(s), j \in DOMAIN t : i <= j => i \in NewOrders(t) /\ t[i] = s[i]
  BY <1>1, <1>2 DEF NewOrders
<1>5. LogonFirst(s) => LogonFirst(t)
  BY <1>1, <1>3 DEF LogonFirst
<1>6. ASSUME Continues(s, done, sent) PROVE Continues(t, done, sent)
  <2>1. \A i \in NewOrders(t) : \E n \in DOMAIN sent : n > Len(done) /\ sent[n] = t[i].ref
    BY <1>3, <1>6 DEF Continues
  <2>2. \A i, j \in NewOrders(t) : i < j => t[i].ref < t[j].ref
    BY <1>3, <1>6 DEF Continues
  <2>3. ASSUME NEW i \in NewOrders(t), NEW n \in DOMAIN sent, n > Len(done), sent[n] <= t[i].ref
        PROVE  \E j \in NewOrders(t) : t[j].ref = sent[n]
    <3>1. PICK j \in NewOrders(s) : s[j].ref = sent[n]
      BY <2>3, <1>3, <1>6 DEF Continues
    <3>2. /\ i \in NewOrders(s) /\ t[i] = s[i] /\ i \in Nat /\ j \in Nat
          /\ s[i].ref \in Nat /\ s[j].ref \in Nat
      BY <1>1, <1>3, OrderRefs
    <3>3. i < j => s[i].ref < s[j].ref
      BY <3>1, <3>2, <1>6 DEF Continues
    <3>4. j <= i
      BY <3>1, <3>2, <3>3, <2>3
    <3>5. i \in DOMAIN t
      BY DEF NewOrders
    <3>6. QED
      BY <3>1, <3>4, <3>5, <1>4
  <2>4. QED
    BY <2>1, <2>2, <2>3 DEF Continues
<1>7. QED
  BY <1>5, <1>6

(* The message at the front is taken; it is not a new order.                *)
LEMMA RestContinues ==
  ASSUME NEW s \in Seq(UpMessage), s # << >>, Head(s).type # "NewOrder",
         NEW done \in Seq(Ref), NEW sent \in Seq(Ref)
  PROVE  /\ Continues(s, done, sent) => Continues(Tail(s), done, sent)
         /\ LogonFirst(s) => LogonFirst(Tail(s))
         /\ AllIn(s, done, sent) => AllIn(Tail(s), done, sent)
<1> DEFINE t == Tail(s)
<1>1. /\ t \in Seq(UpMessage) /\ Len(s) \in Nat /\ Len(s) >= 1
      /\ DOMAIN s = 1..Len(s) /\ DOMAIN t = 1..(Len(s) - 1)
      /\ \A i \in 1..(Len(s) - 1) : t[i] = s[i + 1]
      /\ s[1] = Head(s)
  BY SeqTaken
<1> HIDE DEF t
<1>2. \A i \in DOMAIN t : i \in Nat /\ i + 1 \in DOMAIN s /\ t[i] = s[i + 1]
  BY <1>1
<1>3. \A i \in NewOrders(t) : i \in Nat /\ i + 1 \in NewOrders(s) /\ t[i] = s[i + 1]
  BY <1>2 DEF NewOrders
<1>4. \A i \in NewOrders(s) : i - 1 \in NewOrders(t) /\ t[i - 1] = s[i]
  <2>1. ASSUME NEW i \in NewOrders(s) PROVE i - 1 \in NewOrders(t) /\ t[i - 1] = s[i]
    <3>1. i \in DOMAIN s /\ s[i].type = "NewOrder"
      BY DEF NewOrders
    <3>2. i # 1
      BY <3>1, <1>1
    <3>3. i - 1 \in 1..(Len(s) - 1) /\ (i - 1) + 1 = i
      BY <3>1, <3>2, <1>1
    <3>4. i - 1 \in DOMAIN t /\ t[i - 1] = s[i]
      BY <3>3, <1>1
    <3>5. QED
      BY <3>1, <3>4 DEF NewOrders
  <2>2. QED
    BY <2>1
<1>5. LogonFirst(s) => LogonFirst(t)
  BY <1>2, <1>3 DEF LogonFirst
<1>6. AllIn(s, done, sent) => AllIn(t, done, sent)
  BY <1>4 DEF AllIn
<1>7. ASSUME Continues(s, done, sent) PROVE Continues(t, done, sent)
  <2>1. \A i \in NewOrders(t) : \E n \in DOMAIN sent : n > Len(done) /\ sent[n] = t[i].ref
    BY <1>3, <1>7 DEF Continues
  <2>2. ASSUME NEW i \in NewOrders(t), NEW j \in NewOrders(t), i < j
        PROVE  t[i].ref < t[j].ref
    <3>1. /\ i + 1 \in NewOrders(s) /\ t[i] = s[i + 1] /\ j + 1 \in NewOrders(s)
          /\ t[j] = s[j + 1] /\ i + 1 < j + 1
      BY <1>3, <2>2
    <3>2. QED
      BY <3>1, <1>7 DEF Continues
  <2>3. ASSUME NEW i \in NewOrders(t), NEW n \in DOMAIN sent, n > Len(done), sent[n] <= t[i].ref
        PROVE  \E j \in NewOrders(t) : t[j].ref = sent[n]
    <3>1. i + 1 \in NewOrders(s) /\ sent[n] <= s[i + 1].ref
      BY <2>3, <1>3
    <3>2. PICK j \in NewOrders(s) : s[j].ref = sent[n]
      BY <3>1, <2>3, <1>7 DEF Continues
    <3>3. QED
      BY <3>2, <1>4
  <2>4. QED
    BY <2>1, <2>2, <2>3 DEF Continues
<1>8. QED
  BY <1>5, <1>6, <1>7 DEF t

(* The new order at the front is the next one that was written.             *)
LEMMA NextContinues ==
  ASSUME NEW s \in Seq(UpMessage), s # << >>, Head(s).type = "NewOrder",
         NEW done \in Seq(Ref), NEW sent \in Seq(Ref), Len(done) <= Len(sent),
         Increasing(sent), Continues(s, done, sent)
  PROVE  /\ Len(done) + 1 \in DOMAIN sent /\ sent[Len(done) + 1] = Head(s).ref
         /\ Continues(Tail(s), Append(done, Head(s).ref), sent)
         /\ AllIn(s, done, sent) => AllIn(Tail(s), Append(done, Head(s).ref), sent)
         /\ LogonFirst(s) => LogonFirst(Tail(s))
<1> DEFINE t == Tail(s)
           p == Len(done) + 1
           ref == Head(s).ref
           more == Append(done, ref)
<1>1. /\ t \in Seq(UpMessage) /\ Len(s) \in Nat /\ Len(s) >= 1
      /\ DOMAIN s = 1..Len(s) /\ DOMAIN t = 1..(Len(s) - 1)
      /\ \A i \in 1..(Len(s) - 1) : t[i] = s[i + 1]
      /\ s[1] = Head(s) /\ 1 \in DOMAIN s
  BY SeqTaken
<1>2. /\ Len(sent) \in Nat /\ DOMAIN sent = 1..Len(sent)
      /\ \A n \in DOMAIN sent : sent[n] \in Nat /\ n \in Nat
      /\ Len(done) \in Nat
  BY SentRefs
<1>3. /\ 1 \in NewOrders(s) /\ s[1].ref = ref /\ ref \in Nat /\ ref \in Ref
      /\ \A i \in NewOrders(s) : i \in Nat /\ i \in DOMAIN s /\ s[i].ref \in Nat
  <2>1. 1 \in NewOrders(s)
    BY <1>1 DEF NewOrders
  <2>2. QED
    BY <2>1, <1>1, OrderRefs
<1>4. Len(more) = p
  BY <1>3, SeqAppended
<1> HIDE DEF t, ref, more
<1>5. p \in DOMAIN sent /\ sent[p] = ref
  <2>1. PICK n \in DOMAIN sent : n > Len(done) /\ sent[n] = ref
    BY <1>3 DEF Continues
  <2>2. p \in DOMAIN sent /\ p <= n
    BY <2>1, <1>2
  <2>3. sent[p] <= ref
    <3>1. CASE p = n
      BY <3>1, <2>1, <1>3
    <3>2. CASE p # n
      <4>1. p < n
        BY <3>2, <2>2, <1>2
      <4>2. sent[p] < sent[n]
        BY <4>1, <2>2 DEF Increasing
      <4>3. QED
        BY <4>2, <2>1, <2>2, <1>2, <1>3
    <3>3. QED
      BY <3>1, <3>2
  <2>4. p > Len(done)
    BY <1>2
  <2>5. PICK j \in NewOrders(s) : s[j].ref = sent[p]
    BY <2>2, <2>3, <2>4, <1>3 DEF Continues
  <2>6. j # 1 => ref < s[j].ref
    <3>1. j # 1 => 1 < j
      BY <1>1, <1>3
    <3>2. QED
      BY <3>1, <1>3 DEF Continues
  <2>7. j = 1
    <3>1. s[j].ref \in Nat
      BY <1>3
    <3>2. QED
      BY <2>3, <2>5, <2>6, <1>3, <3>1
  <2>8. QED
    BY <2>2, <2>5, <2>7, <1>3
<1> HIDE DEF p
<1>6. \A i \in DOMAIN t : i \in Nat /\ i + 1 \in DOMAIN s /\ t[i] = s[i + 1] /\ 1 < i + 1
  BY <1>1
<1>7. \A i \in NewOrders(t) : /\ i \in Nat /\ i + 1 \in NewOrders(s) /\ t[i] = s[i + 1]
                              /\ 1 < i + 1
  BY <1>6 DEF NewOrders
<1>8. \A i \in NewOrders(s) : i # 1 => i - 1 \in NewOrders(t) /\ t[i - 1] = s[i]
  <2>1. ASSUME NEW i \in NewOrders(s), i # 1 PROVE i - 1 \in NewOrders(t) /\ t[i - 1] = s[i]
    <3>1. i \in DOMAIN s /\ s[i].type = "NewOrder"
      BY DEF NewOrders
    <3>2. i - 1 \in 1..(Len(s) - 1) /\ (i - 1) + 1 = i
      BY <3>1, <2>1, <1>1
    <3>3. i - 1 \in DOMAIN t /\ t[i - 1] = s[i]
      BY <3>2, <1>1
    <3>4. QED
      BY <3>1, <3>3 DEF NewOrders
  <2>2. QED
    BY <2>1
<1>9. LogonFirst(s) => LogonFirst(t)
  BY <1>6, <1>7 DEF LogonFirst
<1>10. \A n \in DOMAIN sent : n > p => n > Len(done) /\ sent[n] # ref
  <2>1. ASSUME NEW n \in DOMAIN sent, n > p PROVE n > Len(done) /\ sent[n] # ref
    <3>1. sent[p] < sent[n]
      BY <2>1, <1>2, <1>5 DEF Increasing
    <3>2. n > Len(done)
      BY <2>1, <1>2 DEF p
    <3>3. QED
      BY <3>1, <3>2, <1>2, <1>5
  <2>2. QED
    BY <2>1
<1>11. AllIn(s, done, sent) => AllIn(t, more, sent)
  BY <1>3, <1>4, <1>8, <1>10 DEF AllIn
<1>12. Continues(t, more, sent)
  <2>1. ASSUME NEW i \in NewOrders(t)
        PROVE  \E n \in DOMAIN sent : n > Len(more) /\ sent[n] = t[i].ref
    <3>1. i + 1 \in NewOrders(s) /\ t[i] = s[i + 1] /\ 1 < i + 1
      BY <1>7
    <3>2. PICK n \in DOMAIN sent : n > Len(done) /\ sent[n] = s[i + 1].ref
      BY <3>1 DEF Continues
    <3>3. ref < s[i + 1].ref
      BY <3>1, <1>3 DEF Continues
    <3>4. n # p
      BY <3>2, <3>3, <1>3, <1>5
    <3>5. n > p
      BY <3>2, <3>4, <1>2 DEF p
    <3>6. QED
      BY <3>1, <3>2, <3>5, <1>4
  <2>2. ASSUME NEW i \in NewOrders(t), NEW j \in NewOrders(t), i < j
        PROVE  t[i].ref < t[j].ref
    <3>1. /\ i + 1 \in NewOrders(s) /\ t[i] = s[i + 1] /\ j + 1 \in NewOrders(s)
          /\ t[j] = s[j + 1] /\ i + 1 < j + 1
      BY <1>7, <2>2
    <3>2. QED
      BY <3>1 DEF Continues
  <2>3. ASSUME NEW i \in NewOrders(t), NEW n \in DOMAIN sent, n > Len(more), sent[n] <= t[i].ref
        PROVE  \E j \in NewOrders(t) : t[j].ref = sent[n]
    <3>1. i + 1 \in NewOrders(s) /\ sent[n] <= s[i + 1].ref
      BY <2>3, <1>7
    <3>2. n > Len(done) /\ sent[n] # ref
      BY <2>3, <1>4, <1>10
    <3>3. PICK j \in NewOrders(s) : s[j].ref = sent[n]
      BY <3>1, <3>2 DEF Continues
    <3>4. j # 1
      BY <3>2, <3>3, <1>3
    <3>5. QED
      BY <3>3, <3>4, <1>8
  <2>4. QED
    BY <2>1, <2>2, <2>3 DEF Continues
<1>13. QED
  BY <1>5, <1>9, <1>11, <1>12 DEF t, p, ref, more

-----------------------------------------------------------------------------
(* What is in flight on a connection, and how the io thread's steps move it. *)

Lines == WireTypeOK /\ IoPart /\ CorePart /\ written \in [Conn -> Seq(Ref)]

LEMMA InFlightIs ==
  ASSUME WireTypeOK, IoPart, NEW k \in Conn
  PROVE  /\ InFlight(k) \in Seq(UpMessage)
         /\ ~(io.pc # "idle" /\ io.conn = k) => InFlight(k) = up[k]
         /\ io.pc # "idle" /\ io.conn = k => InFlight(k) = io.buf \o up[k]
<1>1. up[k] \in Seq(UpMessage) /\ io.buf \in Seq(UpMessage)
  BY DEF WireTypeOK, IoPart, IoState
<1>2. << >> \o up[k] = up[k] /\ io.buf \o up[k] \in Seq(UpMessage)
  BY <1>1, ConcatEmptySeq, ConcatProperties
<1>3. QED
  BY <1>1, <1>2 DEF InFlight

LEMMA InFlightNextIs ==
  ASSUME WireTypeOK', IoPart', NEW k \in Conn
  PROVE  /\ InFlight(k)' \in Seq(UpMessage)
         /\ ~(io'.pc # "idle" /\ io'.conn = k) => InFlight(k)' = up'[k]
         /\ io'.pc # "idle" /\ io'.conn = k => InFlight(k)' = io'.buf \o up'[k]
<1>1. up'[k] \in Seq(UpMessage) /\ io'.buf \in Seq(UpMessage)
  BY DEF WireTypeOK, IoPart, IoState
<1>2. << >> \o up'[k] = up'[k] /\ io'.buf \o up'[k] \in Seq(UpMessage)
  BY <1>1, ConcatEmptySeq, ConcatProperties
<1>3. QED
  BY <1>1, <1>2 DEF InFlight

LEMMA EmptyBegins ==
  ASSUME NEW s \in Seq(UpMessage)
  PROVE  Begins(<< >>, s) /\ Begins(s, s)
BY SeqNone DEF Begins

LEMMA NothingInFlight ==
  ASSUME NEW done, NEW sent
  PROVE  /\ Continues(<< >>, done, sent) /\ LogonFirst(<< >>)
         /\ NewOrders(<< >>) = {}
<1>1. NewOrders(<< >>) = {}
  BY SeqNone DEF NewOrders
<1>2. QED
  BY <1>1 DEF Continues, LogonFirst

LEMMA JoinBegins ==
  ASSUME NEW a \in Seq(UpMessage), NEW b \in Seq(UpMessage)
  PROVE  Begins(a, a \o b)
<1> DEFINE s == a \o b
<1>1. /\ s \in Seq(UpMessage) /\ Len(a) \in Nat /\ Len(b) \in Nat /\ DOMAIN a = 1..Len(a)
      /\ DOMAIN s = 1..(Len(a) + Len(b))
      /\ \A i \in 1..(Len(a) + Len(b)) : s[i] = IF i <= Len(a) THEN a[i] ELSE b[i - Len(a)]
  BY SeqJoined
<1> HIDE DEF s
<1>2. Begins(a, s)
  BY <1>1 DEF Begins
<1>3. QED
  BY <1>2 DEF s

(* The front of a joined sequence.                                          *)
LEMMA JoinTaken ==
  ASSUME NEW a \in Seq(UpMessage), a # << >>, NEW b \in Seq(UpMessage)
  PROVE  /\ a \o b # << >> /\ Head(a \o b) = Head(a)
         /\ Len(a) = 1 => Tail(a \o b) = b
         /\ Tail(a \o b) = Tail(a) \o b
         /\ Begins(Tail(a), Tail(a \o b))
         /\ Begins(a, a \o b)
<1> DEFINE s == a \o b
           t == Tail(s)
           u == Tail(a) \o b
<1>1. /\ s # << >> /\ Head(s) = Head(a) /\ t = u
      /\ Len(a) = 1 => t = b
  BY SeqJoinTail
<1>2. Tail(a) \in Seq(UpMessage)
  BY SeqTaken
<1>3. Begins(Tail(a), u) /\ Begins(a, s)
  BY <1>2, JoinBegins
<1> HIDE DEF t, u
<1>4. Begins(Tail(a), t)
  BY <1>1, <1>3
<1>5. QED
  BY <1>1, <1>3, <1>4 DEF t, u

(* The io thread has finished with the message at hand; the connection may  *)
(* have been closed meanwhile.                                              *)
LEMMA InFlightHandled ==
  ASSUME WireTypeOK, IoPart, WireTypeOK', NEW k \in Conn, io.pc # "idle", io.conn = k,
         io' = HandledIo
  PROVE  /\ InFlight(k) # << >> /\ Head(InFlight(k)) = Head(io.buf)
         /\ up'[k] = up[k] => InFlight(k)' = Tail(InFlight(k))
         /\ up'[k] = << >> => Begins(InFlight(k)', Tail(InFlight(k)))
<1>1. io.buf \in Seq(UpMessage) /\ io.buf # << >> /\ up[k] \in Seq(UpMessage)
  BY DEF IoPart, IoState, WireTypeOK
<1>2. InFlight(k) = io.buf \o up[k]
  BY InFlightIs
<1>3. /\ IoPart' /\ (Len(io.buf) = 1 => io'.pc = "idle")
      /\ Len(io.buf) # 1 => io'.pc = "handle" /\ io'.conn = k /\ io'.buf = Tail(io.buf)
  BY IoHandled
<1>4. /\ io'.pc = "idle" => InFlight(k)' = up'[k]
      /\ io'.pc = "handle" /\ io'.conn = k => InFlight(k)' = io'.buf \o up'[k]
  BY <1>3, InFlightNextIs
<1>5. /\ InFlight(k) # << >> /\ Head(InFlight(k)) = Head(io.buf)
      /\ Len(io.buf) = 1 => Tail(InFlight(k)) = up[k]
      /\ Tail(InFlight(k)) = Tail(io.buf) \o up[k]
      /\ Begins(Tail(io.buf), Tail(InFlight(k)))
  <2> DEFINE a == io.buf
             b == up[k]
  <2>1. a \in Seq(UpMessage) /\ a # << >> /\ b \in Seq(UpMessage)
    BY <1>1
  <2> HIDE DEF a, b
  <2>2. /\ a \o b # << >> /\ Head(a \o b) = Head(a)
        /\ Len(a) = 1 => Tail(a \o b) = b
        /\ Tail(a \o b) = Tail(a) \o b /\ Begins(Tail(a), Tail(a \o b))
    BY <2>1, JoinTaken
  <2>3. QED
    BY <2>2, <1>2 DEF a, b
<1>6. ASSUME up'[k] = << >> PROVE Begins(InFlight(k)', Tail(InFlight(k)))
  <2>1. CASE Len(io.buf) = 1
    BY <2>1, <1>1, <1>3, <1>4, <1>5, <1>6, EmptyBegins
  <2>2. CASE Len(io.buf) # 1
    <3>1. InFlight(k)' = Tail(io.buf) \o << >>
      BY <2>2, <1>3, <1>4, <1>6
    <3>2. Tail(io.buf) \o << >> = Tail(io.buf)
      BY <1>1, SeqTaken, ConcatEmptySeq
    <3>3. QED
      BY <3>1, <3>2, <1>5
  <2>3. QED
    BY <2>1, <2>2
<1>7. up'[k] = up[k] => InFlight(k)' = Tail(InFlight(k))
  BY <1>3, <1>4, <1>5
<1>8. QED
  BY <1>5, <1>6, <1>7

(* One connection, from step to step.                                       *)
SameOrders(k) == executed'[k] = executed[k] /\ written'[k] = written[k]

LEMMA LineStays ==
  ASSUME NEW k \in Conn, InLine(k), SameOrders(k), InFlight(k)' = InFlight(k),
         Carries(k)' => Carries(k), Refused(k) => Refused(k)' \/ InFlight(k) = << >>
  PROVE  InLine(k)'
<1>1. Refused(k)' \/ Continues(InFlight(k), executed[k], written[k])
  BY NothingInFlight DEF InLine
<1>2. QED
  BY <1>1 DEF InLine, SameOrders

(* A front of what was in flight is left, on a connection that is gone.     *)
LEMMA LineCut ==
  ASSUME Lines, NEW k \in Conn, InLine(k), SameOrders(k), NEW s, Begins(InFlight(k)', s),
         LogonFirst(s), Refused(k)' \/ Continues(s, executed[k], written[k]), ~Carries(k)'
  PROVE  InLine(k)'
<1>1. executed[k] \in Seq(Ref) /\ written[k] \in Seq(Ref)
  BY DEF Lines, CorePart
<1> DEFINE t == InFlight(k)'
<1>2. Begins(t, s)
  OBVIOUS
<1> HIDE DEF t
<1>3. LogonFirst(t) /\ (Refused(k)' \/ Continues(t, executed[k], written[k]))
  BY <1>1, <1>2, FrontContinues
<1>4. QED
  BY <1>3 DEF InLine, SameOrders, t

LEMMA NoLogonInFront ==
  ASSUME NEW s, NEW t, Begins(t, s), \A i \in DOMAIN s : s[i].type # "Logon"
  PROVE  \A i \in DOMAIN t : t[i].type # "Logon"
BY DEF Begins

LEMMA NoLogonInRest ==
  ASSUME NEW s \in Seq(UpMessage), s # << >>
  PROVE  /\ (\A i \in DOMAIN s : s[i].type # "Logon") =>
              \A i \in DOMAIN Tail(s) : Tail(s)[i].type # "Logon"
         /\ LogonFirst(s) /\ Head(s).type = "NewOrder" =>
              \A i \in DOMAIN Tail(s) : Tail(s)[i].type # "Logon"
<1> DEFINE t == Tail(s)
<1>1. /\ Len(s) \in Nat /\ DOMAIN s = 1..Len(s) /\ DOMAIN t = 1..(Len(s) - 1)
      /\ \A i \in 1..(Len(s) - 1) : t[i] = s[i + 1]
      /\ s[1] = Head(s) /\ 1 \in DOMAIN s
  BY SeqTaken
<1> HIDE DEF t
<1>2. \A i \in DOMAIN t : i + 1 \in DOMAIN s /\ 1 < i + 1 /\ t[i] = s[i + 1]
  BY <1>1
<1>3. Head(s).type = "NewOrder" => 1 \in NewOrders(s)
  BY <1>1 DEF NewOrders
<1>4. QED
  BY <1>2, <1>3 DEF LogonFirst, t

(* The message at hand, not a new order, is done with.                      *)
LEMMA LineTaken ==
  ASSUME Lines, WireTypeOK', NEW k \in Conn, InLine(k), SameOrders(k),
         io.pc # "idle", io.conn = k, io' = HandledIo, Head(io.buf).type # "NewOrder",
         up'[k] = up[k] \/ (up'[k] = << >> /\ srvEnd'[k] = "closed"),
         Carries(k)' => Carries(k),
         Refused(k) => srvEnd'[k] = "closed" /\ ~LoggedOn(k)'
  PROVE  InLine(k)'
<1> DEFINE s == InFlight(k)
           r == Tail(s)
           t == InFlight(k)'
<1>1. s \in Seq(UpMessage) /\ executed[k] \in Seq(Ref) /\ written[k] \in Seq(Ref)
  BY InFlightIs DEF Lines, CorePart
<1>2. /\ s # << >> /\ Head(s) = Head(io.buf)
      /\ up'[k] = up[k] => t = r
      /\ up'[k] = << >> => Begins(t, r)
  BY InFlightHandled DEF Lines
<1>3. r \in Seq(UpMessage)
  BY <1>1, <1>2, SeqTaken
<1>4. Refused(k) => \A i \in DOMAIN s : s[i].type # "Logon"
  BY DEF Refused
<1> HIDE DEF s
<1>5. /\ LogonFirst(s) => LogonFirst(r)
      /\ Continues(s, executed[k], written[k]) => Continues(r, executed[k], written[k])
      /\ AllIn(s, executed[k], written[k]) => AllIn(r, executed[k], written[k])
  BY <1>1, <1>2, RestContinues
<1>6. Begins(t, r)
  <2>1. Begins(r, r)
    BY <1>3, EmptyBegins
  <2>2. QED
    BY <2>1, <1>2
<1> HIDE DEF r
<1>7. (\A i \in DOMAIN s : s[i].type # "Logon") => \A i \in DOMAIN t : t[i].type # "Logon"
  <2>1. (\A i \in DOMAIN s : s[i].type # "Logon") => \A i \in DOMAIN r : r[i].type # "Logon"
    BY <1>1, <1>2, NoLogonInRest DEF r
  <2> HIDE DEF t
  <2>2. QED
    BY <2>1, <1>6, NoLogonInFront
<1>8. Refused(k) => Refused(k)'
  BY <1>4, <1>7 DEF Refused
<1>9. LogonFirst(s) /\ (Refused(k) \/ Continues(s, executed[k], written[k]))
      /\ (Carries(k) => AllIn(s, executed[k], written[k]))
  BY DEF InLine, s
<1>10. CASE up'[k] = up[k]
  <2>1. t = r
    BY <1>2, <1>10
  <2>2. LogonFirst(t) /\ (Refused(k)' \/ Continues(t, executed[k], written[k]))
        /\ (Carries(k)' => AllIn(t, executed[k], written[k]))
    BY <2>1, <1>5, <1>8, <1>9
  <2>3. QED
    BY <2>2 DEF InLine, SameOrders
<1>11. CASE up'[k] = << >> /\ srvEnd'[k] = "closed"
  <2>1. ~Carries(k)'
    BY <1>11 DEF Carries
  <2>2. LogonFirst(r) /\ (Refused(k)' \/ Continues(r, executed[k], written[k]))
    BY <1>5, <1>8, <1>9
  <2>3. QED
    BY <2>1, <2>2, <1>6, LineCut
<1>12. QED
  BY <1>10, <1>11

(* The new order at hand is refused; the rest will be too.                  *)
LEMMA LineRefused ==
  ASSUME Lines, WireTypeOK', NEW k \in Conn, InLine(k), SameOrders(k),
         io.pc # "idle", io.conn = k, io' = HandledIo, Head(io.buf).type = "NewOrder",
         up'[k] = << >>, srvEnd'[k] = "closed", ~LoggedOn(k)'
  PROVE  InLine(k)'
<1> DEFINE s == InFlight(k)
           r == Tail(s)
           t == InFlight(k)'
<1>1. s \in Seq(UpMessage)
  BY InFlightIs DEF Lines
<1>2. s # << >> /\ Head(s) = Head(io.buf) /\ Begins(t, r)
  BY InFlightHandled DEF Lines
<1>3. LogonFirst(s)
  BY DEF InLine
<1> HIDE DEF s
<1>4. \A i \in DOMAIN r : r[i].type # "Logon"
  BY <1>1, <1>2, <1>3, NoLogonInRest
<1>5. LogonFirst(r)
  BY <1>4 DEF LogonFirst
<1> HIDE DEF r
<1>6. \A i \in DOMAIN t : t[i].type # "Logon"
  <2> HIDE DEF t
  <2>1. QED
    BY <1>2, <1>4, NoLogonInFront
<1>7. Refused(k)' /\ ~Carries(k)'
  BY <1>6 DEF Refused, Carries
<1>8. QED
  BY <1>2, <1>5, <1>7, LineCut

(* The new order at hand is executed.                                       *)
LEMMA LineExecuted ==
  ASSUME Lines, WireTypeOK', NEW k \in Conn, InLine(k), written'[k] = written[k],
         io.pc # "idle", io.conn = k, io' = HandledIo, Head(io.buf).type = "NewOrder",
         executed'[k] = Append(executed[k], Head(io.buf).ref),
         up'[k] = up[k], LoggedOn(k), Carries(k)' => Carries(k)
  PROVE  InLine(k)'
<1> DEFINE s == InFlight(k)
           t == InFlight(k)'
           done == executed[k]
           sent == written[k]
           ref == Head(s).ref
<1>1. s \in Seq(UpMessage) /\ done \in Seq(Ref) /\ sent \in Seq(Ref)
  BY InFlightIs DEF Lines, CorePart
<1>2. s # << >> /\ Head(s) = Head(io.buf) /\ t = Tail(s)
  BY InFlightHandled DEF Lines
<1>3. /\ LogonFirst(s) /\ Continues(s, done, sent) /\ Increasing(sent)
      /\ Len(done) <= Len(sent) /\ \A i \in DOMAIN done : done[i] = sent[i]
      /\ Carries(k) => AllIn(s, done, sent)
  BY DEF InLine, Refused, Increasing
<1>4. executed'[k] = Append(done, ref) /\ written'[k] = sent
  BY <1>2
<1> HIDE DEF s, t, done, sent
<1>5. /\ Len(done) + 1 \in DOMAIN sent /\ sent[Len(done) + 1] = ref
      /\ Continues(Tail(s), Append(done, ref), sent)
      /\ AllIn(s, done, sent) => AllIn(Tail(s), Append(done, ref), sent)
      /\ LogonFirst(s) => LogonFirst(Tail(s))
  BY <1>1, <1>2, <1>3, NextContinues
<1>6. ref \in Ref
  <2>1. Head(s) \in UpMessage
    BY <1>1, <1>2, SeqTaken
  <2>2. QED
    BY <2>1, <1>2, UpMessageIs
<1> HIDE DEF ref
<1>7. /\ Len(Append(done, ref)) = Len(done) + 1 /\ Len(done) \in Nat
      /\ DOMAIN Append(done, ref) = DOMAIN done \cup {Len(done) + 1}
      /\ \A i \in DOMAIN done : Append(done, ref)[i] = done[i]
      /\ Append(done, ref)[Len(done) + 1] = ref
  BY <1>1, <1>6, SeqAppended
<1>8. Len(sent) \in Nat /\ DOMAIN sent = 1..Len(sent)
  BY <1>1, SentRefs
<1>9. /\ Len(Append(done, ref)) <= Len(sent)
      /\ \A i \in DOMAIN Append(done, ref) : Append(done, ref)[i] = sent[i]
  BY <1>3, <1>5, <1>7, <1>8
<1>10. Carries(k)' => AllIn(t, Append(done, ref), sent)
  BY <1>2, <1>3, <1>5
<1>11. QED
  BY <1>2, <1>3, <1>4, <1>5, <1>9, <1>10 DEF InLine, Increasing, t

(* A connection the io thread is not busy with, before and after.           *)
LEMMA OtherLine ==
  ASSUME Lines, WireTypeOK', IoPart', WireInv, OrdersInLine, NEW k \in Conn, SameOrders(k),
         ~(io.pc # "idle" /\ io.conn = k), ~(io'.pc # "idle" /\ io'.conn = k),
         up'[k] = up[k], Carries(k)' => Carries(k)
  PROVE  InLine(k)'
<1>1. InFlight(k) = up[k] /\ InFlight(k)' = up[k]
  BY InFlightIs, InFlightNextIs DEF Lines
<1>2. Refused(k) => InFlight(k) = << >>
  BY <1>1 DEF Refused, WireInv
<1>3. QED
  BY <1>1, <1>2, LineStays DEF OrdersInLine

LEMMA ClosedLine ==
  ASSUME Lines, WireTypeOK', IoPart', OrdersInLine, NEW k \in Conn, SameOrders(k),
         ~(io'.pc # "idle" /\ io'.conn = k), up'[k] = << >>, ~Carries(k)'
  PROVE  InLine(k)'
<1>1. InFlight(k)' = << >>
  BY InFlightNextIs
<1>2. Begins(<< >>, << >>)
  BY EmptyBegins, SeqNone
<1>3. QED
  BY <1>1, <1>2, LineCut, NothingInFlight DEF OrdersInLine

(* Nobody is logged on by a step that only takes flags away.                *)
LEMMA LogonsStay ==
  ASSUME NumberPart,
         \A k \in Conn : compOf'[k] \in {compOf[k], NoClient},
         \A c \in Clients : state'[c].on => state[c].on
  PROVE  \A k \in Conn : LoggedOn(k)' => LoggedOn(k)
<1>1. ASSUME NEW k \in Conn, LoggedOn(k)' PROVE LoggedOn(k)
  <2>1. compOf'[k] = compOf[k] /\ compOf[k] \in Clients
    BY <1>1 DEF NumberPart, LoggedOn
  <2>2. state'[compOf[k]].on
    BY <2>1, <1>1 DEF LoggedOn
  <2>3. state[compOf[k]].on
    BY <2>1, <2>2, Zenon
  <2>4. compOf[k] # NoClient
    BY <2>1, WireAssumption
  <2>5. QED
    BY <2>3, <2>4, Zenon DEF LoggedOn
<1>2. QED
  BY <1>1

LEMMA ConnectionLines ==
  ASSUME Lines, Kept', WireInv, OrdersInLine, NEW k \in Conn, UNCHANGED clientVars,
         Accept(k) \/ Receive(k) \/ ReadError(k)
  PROVE  OrdersInLine'
<1> USE DEF coreVars, marketVars
<1>1. WireTypeOK' /\ IoPart' /\ io.pc = "idle"
  BY DEF Kept, GatewayParts, Accept, Receive, ReadError
<1>2. WireTypeOK /\ IoPart
  BY DEF Lines
<1>3. \A j \in Conn : SameOrders(j)
  BY DEF SameOrders, clientVars, Accept, Receive, ReadError
<1>4. UNCHANGED <<cliEnd, broken>>
  BY DEF Accept, Receive, ReadError
<1>5. ASSUME NEW j \in Conn PROVE InLine(j)'
  <2>1. InLine(j) /\ SameOrders(j)
    BY <1>3 DEF OrdersInLine
  <2>2. CASE Accept(k)
    <3>1. UNCHANGED <<io, up>> /\ (srvEnd'[j] = srvEnd[j] \/ srvEnd[j] = "pending")
      BY <2>2, <1>2 DEF Accept, WireTypeOK
    <3>2. Carries(j)' => Carries(j)
      BY <3>1, <1>4 DEF Carries
    <3>3. QED
      BY <3>1, <3>2, <2>1, <1>1, OtherLine
  <2>3. CASE Receive(k)
    <3>1. /\ srvEnd[k] = "open" /\ UNCHANGED srvEnd
      BY <2>3 DEF Receive
    <3>2. PICK n \in 1..Len(up[k]) :
            /\ io' = [IdleIo EXCEPT !.pc = "handle", !.conn = k, !.buf = SubSeq(up[k], 1, n)]
            /\ up' = [up EXCEPT ![k] = SubSeq(@, n + 1, Len(@))]
      BY <2>3 DEF Receive
    <3>3. io'.pc = "handle" /\ io'.conn = k /\ io'.buf = SubSeq(up[k], 1, n)
      BY <3>2 DEF IdleIo
    <3>4. Carries(j)' => Carries(j)
      BY <3>1, <1>4 DEF Carries
    <3>5. CASE j # k
      <4>1. up'[j] = up[j]
        BY <3>2, <3>5, <1>2 DEF WireTypeOK
      <4>2. QED
        BY <4>1, <3>3, <3>4, <3>5, <2>1, <1>1, OtherLine
    <3>6. CASE j = k
      <4>1. up[k] \in Seq(UpMessage) /\ up'[k] = SubSeq(up[k], n + 1, Len(up[k]))
        BY <3>2, <1>2 DEF WireTypeOK
      <4>2. InFlight(k) = up[k]
        BY <1>1, <1>2, InFlightIs
      <4>3. InFlight(k)' = SubSeq(up[k], 1, n) \o SubSeq(up[k], n + 1, Len(up[k]))
        BY <4>1, <3>3, <1>1, InFlightNextIs
      <4>4. InFlight(k)' = InFlight(k)
        BY <4>1, <4>2, <4>3, SeqCut
      <4>5. ~Refused(k)
        BY <3>1 DEF Refused
      <4>6. QED
        BY <4>4, <4>5, <3>4, <3>6, <2>1, LineStays
    <3>7. QED
      BY <3>5, <3>6
  <2>4. CASE ReadError(k)
    <3>1. UNCHANGED io /\ CloseServer(k)
      BY <2>4 DEF ReadError
    <3>2. CASE j # k
      <4>1. up'[j] = up[j] /\ srvEnd'[j] = srvEnd[j]
        BY <3>1, <3>2, <1>2 DEF WireTypeOK, CloseServer
      <4>2. Carries(j)' => Carries(j)
        BY <4>1, <1>4 DEF Carries
      <4>3. QED
        BY <4>1, <4>2, <3>1, <2>1, <1>1, OtherLine
    <3>3. CASE j = k
      <4>1. up'[k] = << >> /\ srvEnd'[k] = "closed"
        BY <3>1, <1>2 DEF WireTypeOK, CloseServer
      <4>2. QED
        BY <4>1, <3>1, <3>3, <2>1, <1>1, ClosedLine DEF Carries
    <3>4. QED
      BY <3>2, <3>3
  <2>5. QED
    BY <2>2, <2>3, <2>4
<1>6. QED
  BY <1>5 DEF OrdersInLine

(* The logon and logout handlers, up to their answer.                       *)
LEMMA LogonLines ==
  ASSUME Kept, Lines, Kept', WireInv, OrdersInLine, NEW k \in Conn, NEW m,
         UNCHANGED clientVars,
         RefuseLogon(k, m) \/ AcceptLogon(k, m) \/ HandleLogout(k, m)
  PROVE  OrdersInLine'
<1> USE DEF coreVars, marketVars
<1>1. WireTypeOK' /\ IoPart' /\ WireTypeOK /\ IoPart /\ NumberPart
  BY DEF Kept, GatewayParts
<1>2. io'.pc = "write" /\ io'.conn = io.conn /\ io'.buf = io.buf
  BY LogonsKept
<1>3. At(k, m) /\ UNCHANGED wireVars
  BY DEF RefuseLogon, AcceptLogon, HandleLogout
<1>4. /\ io.pc = "handle" /\ io.conn = k /\ m = Head(io.buf)
      /\ io.buf \in Seq(UpMessage) /\ io.buf # << >> /\ m \in UpMessage
  BY <1>1, <1>3, AtMessage
<1>5. \A j \in Conn : SameOrders(j)
  BY DEF SameOrders, clientVars, RefuseLogon, AcceptLogon, HandleLogout
<1>6. \A j \in Conn : Carries(j)' = Carries(j)
  BY <1>3 DEF Carries, wireVars
<1>7. ASSUME NEW j \in Conn PROVE InLine(j)'
  <2>1. CASE j # k
    BY <2>1, <1>1, <1>2, <1>3, <1>4, <1>5, <1>6, OtherLine DEF wireVars
  <2>2. CASE j = k
    <3>1. InFlight(k)' = InFlight(k) /\ InFlight(k) = io.buf \o up[k]
      BY <1>1, <1>2, <1>3, <1>4, InFlightIs, InFlightNextIs DEF wireVars
    <3>2. Refused(k) => Refused(k)'
      <4>1. CASE AcceptLogon(k, m)
        <5>1. up[k] \in Seq(UpMessage)
          BY <1>1 DEF WireTypeOK
        <5>2. InFlight(k) # << >> /\ Head(InFlight(k)) = m
          <6> DEFINE a == io.buf
                     b == up[k]
          <6>1. a \in Seq(UpMessage) /\ a # << >> /\ b \in Seq(UpMessage)
            BY <5>1, <1>4
          <6> HIDE DEF a, b
          <6>2. a \o b # << >> /\ Head(a \o b) = Head(a)
            BY <6>1, JoinTaken
          <6>3. QED
            BY <6>2, <3>1, <1>4 DEF a, b
        <5>3. 1 \in DOMAIN InFlight(k) /\ InFlight(k)[1] = m
          <6>1. InFlight(k) \in Seq(UpMessage)
            BY <1>1, InFlightIs
          <6>2. QED
            BY <6>1, <5>2, SeqTaken
        <5>4. m.type = "Logon"
          BY <4>1 DEF AcceptLogon
        <5>5. QED
          BY <5>3, <5>4 DEF Refused
      <4>2. CASE RefuseLogon(k, m)
        <5>1. UNCHANGED <<compOf, state, srvEnd>>
          BY <4>2 DEF RefuseLogon, wireVars
        <5>2. QED
          BY <5>1, <3>1 DEF Refused, LoggedOn
      <4>3. CASE HandleLogout(k, m)
        <5>1. UNCHANGED <<compOf, srvEnd>>
          BY <4>3 DEF HandleLogout, wireVars
        <5>2. ~LoggedOn(k)'
          <6>1. CASE compOf[k] = NoClient
            BY <6>1, <5>1 DEF LoggedOn
          <6>2. CASE compOf[k] # NoClient
            <7> DEFINE c == compOf[k]
                       final == useNextOutboundSequence(state[c])
            <7>1. c \in Clients /\ state[c] \in SessionState
              BY <6>2, <1>1 DEF NumberPart
            <7>2. state' = [state EXCEPT ![c] = [final EXCEPT !.on = FALSE]]
              BY <4>3, <6>2 DEF HandleLogout
            <7> HIDE DEF c
            <7>3. final \in SessionState
              BY <7>1, StatesKept
            <7> HIDE DEF final
            <7>4. ~[final EXCEPT !.on = FALSE].on
              BY <7>3 DEF SessionState
            <7>5. ~state'[c].on
              BY <7>1, <7>2, <7>4, <1>1 DEF NumberPart
            <7>6. QED
              BY <7>5, <5>1 DEF LoggedOn, c
          <6>3. QED
            BY <6>1, <6>2
        <5>3. QED
          BY <5>1, <5>2, <3>1 DEF Refused
      <4>4. QED
        BY <4>1, <4>2, <4>3
    <3>3. QED
      BY <3>1, <3>2, <2>2, <1>5, <1>6, LineStays DEF OrdersInLine
  <2>3. QED
    BY <2>1, <2>2
<1>8. QED
  BY <1>7 DEF OrdersInLine

(* The handlers of the other messages.                                      *)
LEMMA MessageLines ==
  ASSUME Kept, Lines, Kept', WireInv, OrdersInLine, NEW k \in Conn, NEW m,
         UNCHANGED clientVars,
         \/ RefuseMessage(k, m) \/ HandleAnswered(k, m) \/ HandleIgnored(k, m)
         \/ HandleNewOrder(k, m) \/ HandleAmend(k, m)
  PROVE  OrdersInLine'
<1> USE DEF coreVars, marketVars
<1>1. WireTypeOK' /\ IoPart' /\ WireTypeOK /\ IoPart /\ NumberPart /\ CorePart
  BY DEF Kept, GatewayParts
<1>2. At(k, m)
  BY DEF RefuseMessage, HandleAnswered, HandleIgnored, HandleNewOrder, HandleAmend
<1>3. /\ io.pc = "handle" /\ io.conn = k /\ m = Head(io.buf)
      /\ io.buf \in Seq(UpMessage) /\ io.buf # << >> /\ m \in UpMessage
  BY <1>1, <1>2, AtMessage
<1>4. ~(io'.pc # "idle" /\ io'.conn # k)
  <2>1. CASE io' = HandledIo
    <3>1. /\ Len(io.buf) = 1 => io'.pc = "idle"
          /\ Len(io.buf) # 1 => io'.conn = io.conn
      BY <2>1, <1>1, <1>3, IoHandled
    <3>2. QED
      BY <3>1, <1>3
  <2>2. CASE HandleAnswered(k, m)
    <3>1. PICK r : io' = [io EXCEPT !.pc = "write", !.hangup = FALSE, !.reply = r]
      BY <2>2 DEF HandleAnswered, Reply
    <3>2. QED
      BY <3>1, <1>1, <1>3 DEF IoPart, IoState
  <2>3. QED
    BY <2>1, <2>2 DEF RefuseMessage, HandleIgnored, HandleNewOrder, HandleAmend
<1>5. /\ UNCHANGED <<cliEnd, broken, written>>
      /\ \A j \in Conn : j # k =>
           executed'[j] = executed[j] /\ up'[j] = up[j] /\ srvEnd'[j] = srvEnd[j]
  <2>1. CASE RefuseMessage(k, m)
    BY <2>1, <1>1 DEF RefuseMessage, CloseServer, WireTypeOK, clientVars
  <2>2. CASE HandleAnswered(k, m) \/ HandleIgnored(k, m) \/ HandleAmend(k, m)
    BY <2>2 DEF HandleAnswered, HandleIgnored, HandleAmend, wireVars, clientVars
  <2>3. CASE HandleNewOrder(k, m)
    BY <2>3, <1>1 DEF HandleNewOrder, CorePart, wireVars, clientVars
  <2>4. QED
    BY <2>1, <2>2, <2>3
<1>6. ASSUME NEW j \in Conn, j # k PROVE InLine(j)'
  <2>1. SameOrders(j) /\ up'[j] = up[j] /\ (Carries(j)' => Carries(j))
    BY <1>5, <1>6 DEF SameOrders, Carries
  <2>2. QED
    BY <2>1, <1>1, <1>3, <1>4, <1>6, OtherLine
<1>7. InLine(k)'
  <2>1. InLine(k)
    BY DEF OrdersInLine
  <2>2. CASE RefuseMessage(k, m)
    <3>1. /\ io' = HandledIo /\ ~LoggedOn(k) /\ UNCHANGED <<compOf, state, executed>>
          /\ up'[k] = << >> /\ srvEnd'[k] = "closed"
      BY <2>2, <1>1 DEF RefuseMessage, CloseServer, WireTypeOK
    <3>2. ~LoggedOn(k)' /\ SameOrders(k) /\ ~Carries(k)'
      BY <3>1, <1>5 DEF LoggedOn, SameOrders, Carries
    <3>3. CASE m.type = "NewOrder"
      BY <3>1, <3>2, <3>3, <2>1, <1>1, <1>3, LineRefused
    <3>4. CASE m.type # "NewOrder"
      BY <3>1, <3>2, <3>4, <2>1, <1>1, <1>3, LineTaken
    <3>5. QED
      BY <3>3, <3>4
  <2>3. CASE HandleAnswered(k, m)
    <3>1. UNCHANGED wireVars /\ UNCHANGED executed /\ LoggedOn(k)
      BY <2>3 DEF HandleAnswered
    <3>2. PICK r : io' = [io EXCEPT !.pc = "write", !.hangup = FALSE, !.reply = r]
      BY <2>3 DEF HandleAnswered, Reply
    <3>3. io'.pc = "write" /\ io'.conn = k /\ io'.buf = io.buf
      BY <3>2, <1>1, <1>3 DEF IoPart, IoState
    <3>4. InFlight(k)' = InFlight(k)
      BY <3>1, <3>3, <1>1, <1>3, InFlightIs, InFlightNextIs DEF wireVars
    <3>5. SameOrders(k) /\ (Carries(k)' => Carries(k)) /\ ~Refused(k)
      BY <3>1, <1>5 DEF SameOrders, Carries, Refused, wireVars
    <3>6. QED
      BY <3>4, <3>5, <2>1, LineStays
  <2>4. CASE HandleIgnored(k, m) \/ HandleAmend(k, m)
    <3>1. /\ UNCHANGED wireVars /\ UNCHANGED executed /\ LoggedOn(k) /\ io' = HandledIo
          /\ m.type # "NewOrder"
      BY <2>4 DEF HandleIgnored, HandleAmend
    <3>2. SameOrders(k) /\ (Carries(k)' => Carries(k)) /\ ~Refused(k) /\ up'[k] = up[k]
      BY <3>1, <1>5 DEF SameOrders, Carries, Refused, wireVars
    <3>3. QED
      BY <3>1, <3>2, <2>1, <1>1, <1>3, LineTaken
  <2>5. CASE HandleNewOrder(k, m)
    <3>1. /\ UNCHANGED wireVars /\ LoggedOn(k) /\ io' = HandledIo /\ m.type = "NewOrder"
          /\ executed'[k] = Append(executed[k], m.ref)
      BY <2>5, <1>1 DEF HandleNewOrder, CorePart
    <3>2. written'[k] = written[k] /\ (Carries(k)' => Carries(k)) /\ up'[k] = up[k]
      BY <3>1, <1>5 DEF Carries, wireVars
    <3>3. QED
      BY <3>1, <3>2, <2>1, <1>1, <1>3, LineExecuted
  <2>6. QED
    BY <2>2, <2>3, <2>4, <2>5
<1>8. QED
  BY <1>6, <1>7 DEF OrdersInLine

(* The answer is written, and the connection closed after a logout.         *)
LEMMA AnswerLines ==
  ASSUME Kept, Lines, Kept', WireInv, OrdersInLine, UNCHANGED clientVars,
         IoWrite \/ cleanupConnection \/ IoClose
  PROVE  OrdersInLine'
<1> USE DEF coreVars, marketVars, tableVars
<1>1. WireTypeOK' /\ IoPart' /\ WireTypeOK /\ IoPart /\ NumberPart
  BY DEF Kept, GatewayParts
<1>2. io.pc \in {"write", "cleanup", "close"}
  BY DEF IoWrite, cleanupConnection, IoClose
<1>0. io.conn \in Conn /\ io.buf # << >> /\ Head(io.buf).type # "NewOrder" /\ io.pc # "idle"
  BY <1>1, <1>2 DEF IoPart
<1>3. PICK k \in Conn : /\ k = io.conn /\ io.buf # << >> /\ Head(io.buf).type # "NewOrder"
                        /\ io.pc # "idle"
  BY <1>0
<1>4. /\ UNCHANGED <<cliEnd, broken, written, executed, state>>
      /\ \A j \in Conn : compOf'[j] \in {compOf[j], NoClient}
  BY <1>1, <1>3 DEF IoWrite, cleanupConnection, IoClose, wireVars, clientVars, NumberPart
<1>5. \A j \in Conn : LoggedOn(j)' => LoggedOn(j)
  BY <1>1, <1>4, LogonsStay
<1>6. /\ \A j \in Conn : j # k => up'[j] = up[j] /\ srvEnd'[j] = srvEnd[j]
      /\ \/ up'[k] = up[k] /\ srvEnd'[k] = srvEnd[k]
         \/ up'[k] = << >> /\ srvEnd'[k] = "closed"
  <2>1. CASE IoWrite \/ cleanupConnection
    BY <2>1 DEF IoWrite, cleanupConnection, wireVars
  <2>2. CASE IoClose
    BY <2>2, <1>1, <1>3 DEF IoClose, CloseServer, WireTypeOK
  <2>3. QED
    BY <2>1, <2>2
<1>7. \/ io' = HandledIo
      \/ /\ io'.pc # "idle" /\ io'.conn = k /\ io'.buf = io.buf
         /\ up'[k] = up[k] /\ srvEnd'[k] = srvEnd[k]
  <2>1. CASE IoWrite
    <3>1. CASE io' = HandledIo
      BY <3>1
    <3>2. ASSUME NEW pc \in {"cleanup", "close"}, io' = [io EXCEPT !.pc = pc]
          PROVE  io'.pc # "idle" /\ io'.conn = k /\ io'.buf = io.buf
      BY <3>2, <1>1, <1>3 DEF IoPart, IoState
    <3>3. QED
      BY <2>1, <3>1, <3>2 DEF IoWrite
  <2>2. CASE cleanupConnection
    BY <2>2, <1>1, <1>3 DEF cleanupConnection, IoPart, IoState, wireVars
  <2>3. CASE IoClose
    BY <2>3 DEF IoClose
  <2>4. QED
    BY <2>1, <2>2, <2>3
<1>8. ~(io'.pc # "idle" /\ io'.conn # k)
  <2>1. CASE io' = HandledIo
    <3>1. /\ Len(io.buf) = 1 => io'.pc = "idle"
          /\ Len(io.buf) # 1 => io'.conn = io.conn
      BY <2>1, <1>1, <1>3, IoHandled
    <3>2. QED
      BY <3>1, <1>3
  <2>2. QED
    BY <2>1, <1>7
<1>9. \A j \in Conn : SameOrders(j) /\ (Carries(j)' => Carries(j))
  BY <1>4, <1>6 DEF SameOrders, Carries
<1>10. ASSUME NEW j \in Conn, j # k PROVE InLine(j)'
  BY <1>1, <1>3, <1>6, <1>8, <1>9, <1>10, OtherLine
<1>11. InLine(k)'
  <2>1. InLine(k)
    BY <1>3 DEF OrdersInLine
  <2>2. Refused(k) => srvEnd'[k] = "closed" /\ ~LoggedOn(k)'
    BY <1>3, <1>5, <1>6 DEF Refused
  <2>3. CASE io' = HandledIo
    BY <2>1, <2>2, <2>3, <1>1, <1>3, <1>6, <1>9, LineTaken
  <2>4. CASE /\ io'.pc # "idle" /\ io'.conn = k /\ io'.buf = io.buf
             /\ up'[k] = up[k] /\ srvEnd'[k] = srvEnd[k]
    <3>1. InFlight(k)' = InFlight(k)
      BY <2>4, <1>1, <1>3, InFlightIs, InFlightNextIs
    <3>2. Refused(k) => Refused(k)'
      BY <2>2, <3>1 DEF Refused
    <3>3. QED
      BY <3>1, <3>2, <2>1, <1>3, <1>9, LineStays
  <2>5. QED
    BY <2>3, <2>4, <1>7
<1>12. QED
  BY <1>10, <1>11 DEF OrdersInLine

(* The workers and the database worker move no order.                       *)
LEMMA QuietLines ==
  ASSUME Kept, OrdersInLine, UNCHANGED clientVars,
         UNCHANGED <<io, up, executed, cliEnd, srvEnd, broken, compOf>>,
         \A c \in Clients : state'[c].on => state[c].on
  PROVE  OrdersInLine'
<1>1. NumberPart
  BY DEF Kept, GatewayParts
<1>2. \A k \in Conn : LoggedOn(k)' => LoggedOn(k)
  BY <1>1, LogonsStay
<1>3. ASSUME NEW k \in Conn PROVE InLine(k)'
  <2>1. InFlight(k)' = InFlight(k)
    BY DEF InFlight
  <2>2. Refused(k) => Refused(k)'
    BY <2>1, <1>2 DEF Refused
  <2>3. SameOrders(k) /\ (Carries(k)' => Carries(k))
    BY DEF SameOrders, Carries, clientVars
  <2>4. QED
    BY <2>1, <2>2, <2>3, LineStays DEF OrdersInLine
<1>4. QED
  BY <1>3 DEF OrdersInLine

(* A restart loses what is in flight.                                       *)
LEMMA RestartLines ==
  ASSUME Lines, Kept', WireInv, OrdersInLine, UNCHANGED clientVars, Restart
  PROVE  OrdersInLine'
<1>1. WireTypeOK' /\ IoPart' /\ WireTypeOK
  BY DEF Kept, GatewayParts, Lines
<1>2. ASSUME NEW k \in Conn PROVE InLine(k)'
  <2>1. SameOrders(k) /\ up'[k] = << >> /\ io'.pc = "idle" /\ cliEnd'[k] = cliEnd[k]
    BY DEF Restart, SameOrders, clientVars, IdleIo
  <2>2. CASE Carries(k)'
    <3>1. srvEnd[k] = "none"
      BY <2>2 DEF Carries, Restart
    <3>2. written[k] = << >>
      BY <3>1 DEF WireInv
    <3>3. InFlight(k)' = << >>
      BY <2>1, <1>1, InFlightNextIs
    <3>4. AllIn(<< >>, executed[k], << >>)
      BY SeqNone DEF AllIn
    <3>5. InLine(k)
      BY DEF OrdersInLine
    <3>6. QED
      BY <2>1, <3>2, <3>3, <3>4, <3>5, NothingInFlight DEF InLine, SameOrders
  <2>3. CASE ~Carries(k)'
    BY <2>1, <2>3, <1>1, ClosedLine
  <2>4. QED
    BY <2>2, <2>3
<1>3. QED
  BY <1>2 DEF OrdersInLine

-----------------------------------------------------------------------------
(* Every step of the gateway keeps the invariant.                           *)

LEMMA LinkInvIs ==
  LinkInv <=> /\ Kept /\ ClientTypeOK /\ ClientThreads /\ WireInv /\ RefsInv /\ OrdersInLine
BY GatewayPartsAre DEF LinkInv, LinkTypeOK, Kept

LEMMA LinkInvNextIs ==
  LinkInv' <=> /\ Kept' /\ ClientTypeOK' /\ ClientThreads' /\ WireInv' /\ RefsInv'
               /\ OrdersInLine'
<1>1. GatewayParts' <=> (ServerTypeOK /\ GatewayThreads)'
  BY DEF GatewayParts, IoPart, SendPart, SessionPart, NumberPart, CorePart, ServerTypeOK,
         GatewayThreads
<1>2. QED
  BY <1>1 DEF LinkInv, LinkTypeOK, Kept

(* The gateway reads and closes; it leaves the clients alone.               *)
GatewayWire ==
  /\ UNCHANGED cliEnd
  /\ io'.pc # "idle" => (io.pc # "idle" /\ io'.conn = io.conn) \/ up[io'.conn] # << >>
  /\ \A k \in Conn : /\ cliEnd[k] = "none" => up'[k] = << >>
                     /\ srvEnd'[k] = "none" => srvEnd[k] = "none"
                     /\ srvEnd'[k] = "closed" => up'[k] = << >>

LEMMA GatewayWireKeeps ==
  ASSUME LinkInv, Kept', UNCHANGED clientVars, GatewayWire
  PROVE  ClientTypeOK' /\ ClientThreads' /\ WireInv' /\ RefsInv'
<1>1. ClientTypeOK /\ ClientThreads /\ WireInv /\ RefsInv
  BY LinkInvIs
<1>2. ClientTypeOK'
  BY <1>1 DEF ClientTypeOK, clientVars
<1>3. ClientThreads'
  BY <1>1 DEF ClientThreads, clientVars, GatewayWire
<1>4. RefsInv'
  BY <1>1 DEF RefsInv, clientVars
<1>5. WireInv'
  <2>1. io'.pc # "idle" => io'.conn \in Conn
    BY DEF Kept, GatewayParts, IoPart
  <2>2. io'.pc # "idle" => cliEnd'[io'.conn] # "none"
    BY <1>1, <2>1 DEF WireInv, GatewayWire
  <2>3. QED
    BY <1>1, <2>2 DEF WireInv, clientVars, GatewayWire
<1>6. QED
  BY <1>2, <1>3, <1>4, <1>5

(* The io thread stays at its connection until it is done with what it read. *)
IoStays == io'.pc # "idle" => io.pc # "idle" /\ io'.conn = io.conn

LEMMA HandledStays ==
  ASSUME IoPart, io.pc # "idle", io' = HandledIo
  PROVE  IoStays
<1>1. /\ Len(io.buf) = 1 => io'.pc = "idle"
      /\ Len(io.buf) # 1 => io'.conn = io.conn
  BY IoHandled
<1>2. QED
  BY <1>1 DEF IoStays

LEMMA ExceptStays ==
  ASSUME IoPart, io.pc # "idle", NEW p, NEW h, NEW r,
         \/ io' = [io EXCEPT !.pc = p]
         \/ io' = [io EXCEPT !.pc = p, !.hangup = h, !.reply = r]
  PROVE  IoStays
BY DEF IoStays, IoPart, IoState

LEMMA SameWire ==
  ASSUME WireInv, IoStays, UNCHANGED <<up, cliEnd, srvEnd>>
  PROVE  GatewayWire
BY DEF WireInv, GatewayWire, IoStays

LEMMA ClosedWire ==
  ASSUME WireInv, WireTypeOK, IoStays, NEW k \in Conn, CloseServer(k), UNCHANGED cliEnd
  PROVE  GatewayWire
BY DEF WireInv, WireTypeOK, GatewayWire, CloseServer, IoStays

LEMMA GatewayStep ==
  ASSUME LinkInv, ServerNext, UNCHANGED clientVars
  PROVE  LinkInv'
<1> USE DEF tableVars, coreVars, marketVars
<1>1. /\ Kept /\ ClientTypeOK /\ WireInv /\ OrdersInLine /\ WireTypeOK /\ IoPart
      /\ SendPart
  BY LinkInvIs DEF Kept, GatewayParts
<1>2. Lines
  BY <1>1 DEF Lines, Kept, GatewayParts, ClientTypeOK
<1>3. ASSUME NEW k \in Conn, Accept(k) \/ Receive(k) \/ ReadError(k)
      PROVE  Kept' /\ OrdersInLine' /\ GatewayWire
  <2>1. Kept'
    BY <1>1, <1>3, ConnectionsKept
  <2>2. OrdersInLine'
    BY <1>1, <1>2, <1>3, <2>1, ConnectionLines
  <2>3. CASE Accept(k)
    BY <2>1, <2>2, <2>3, <1>1 DEF WireInv, WireTypeOK, GatewayWire, Accept
  <2>4. CASE Receive(k)
    <3>1. PICK n \in 1..Len(up[k]) :
            /\ io' = [IdleIo EXCEPT !.pc = "handle", !.conn = k, !.buf = SubSeq(up[k], 1, n)]
            /\ up' = [up EXCEPT ![k] = SubSeq(@, n + 1, Len(@))]
      BY <2>4 DEF Receive
    <3>0. io'.conn = k
      BY <3>1 DEF IdleIo
    <3>2. up[k] # << >>
      BY <3>1, SeqNone
    <3>3. \A j \in Conn : j # k => up'[j] = up[j]
      BY <3>1, <1>1 DEF WireTypeOK
    <3>4. UNCHANGED <<cliEnd, srvEnd>> /\ srvEnd[k] = "open"
      BY <2>4 DEF Receive
    <3>5. QED
      BY <2>1, <2>2, <3>0, <3>2, <3>3, <3>4, <1>1 DEF WireInv, GatewayWire
  <2>5. CASE ReadError(k)
    BY <2>1, <2>2, <2>5, <1>1, ClosedWire DEF ReadError, IoStays
  <2>6. QED
    BY <1>3, <2>1, <2>2, <2>3, <2>4, <2>5
<1>4. ASSUME NEW k \in Conn, NEW m,
             RefuseLogon(k, m) \/ AcceptLogon(k, m) \/ HandleLogout(k, m)
      PROVE  Kept' /\ OrdersInLine' /\ GatewayWire
  <2>1. Kept'
    BY <1>1, <1>4, LogonsKept
  <2>2. OrdersInLine'
    BY <1>1, <1>2, <1>4, <2>1, LogonLines
  <2>3. GatewayWire
    <3>1. IoStays
      BY <1>1, <1>4, LogonsKept DEF RefuseLogon, AcceptLogon, HandleLogout, IoStays, At
    <3>2. QED
      BY <3>1, <1>1, <1>4, SameWire DEF RefuseLogon, AcceptLogon, HandleLogout, wireVars
  <2>4. QED
    BY <2>1, <2>2, <2>3
<1>5. ASSUME NEW k \in Conn, NEW m,
             \/ RefuseMessage(k, m) \/ HandleAnswered(k, m) \/ HandleIgnored(k, m)
             \/ HandleNewOrder(k, m) \/ HandleAmend(k, m)
      PROVE  Kept' /\ OrdersInLine' /\ GatewayWire
  <2>1. Kept'
    BY <1>1, <1>5, MessagesKept
  <2>2. OrdersInLine'
    BY <1>1, <1>2, <1>5, <2>1, MessageLines
  <2>0. IoStays
    <3>1. io.pc = "handle"
      BY <1>5 DEF RefuseMessage, HandleAnswered, HandleIgnored, HandleNewOrder, HandleAmend, At
    <3>2. CASE HandleAnswered(k, m)
      <4>1. PICK r : io' = [io EXCEPT !.pc = "write", !.hangup = FALSE, !.reply = r]
        BY <3>2 DEF HandleAnswered, Reply
      <4>2. QED
        BY <4>1, <3>1, <1>1, ExceptStays
    <3>3. CASE io' = HandledIo
      BY <3>1, <3>3, <1>1, HandledStays
    <3>4. QED
      BY <1>5, <3>2, <3>3 DEF RefuseMessage, HandleIgnored, HandleNewOrder, HandleAmend
  <2>3. CASE RefuseMessage(k, m)
    BY <2>0, <2>1, <2>2, <2>3, <1>1, ClosedWire DEF RefuseMessage
  <2>4. CASE UNCHANGED wireVars
    BY <2>0, <2>1, <2>2, <2>4, <1>1, SameWire DEF wireVars
  <2>5. QED
    BY <1>5, <2>1, <2>2, <2>3, <2>4
       DEF HandleAnswered, HandleIgnored, HandleNewOrder, HandleAmend
<1>6. ASSUME IoWrite \/ cleanupConnection \/ IoClose
      PROVE  Kept' /\ OrdersInLine' /\ GatewayWire
  <2>1. Kept'
    BY <1>1, <1>6, AnswersKept
  <2>2. OrdersInLine'
    BY <1>1, <1>2, <1>6, <2>1, AnswerLines
  <2>0. IoStays
    <3>1. io.pc # "idle"
      BY <1>6 DEF IoWrite, cleanupConnection, IoClose
    <3>2. CASE io' = HandledIo
      BY <3>1, <3>2, <1>1, HandledStays
    <3>3. ASSUME NEW pc, io' = [io EXCEPT !.pc = pc] PROVE IoStays
      BY <3>1, <3>3, <1>1, ExceptStays
    <3>4. QED
      BY <1>6, <3>2, <3>3 DEF IoWrite, cleanupConnection, IoClose
  <2>3. CASE IoWrite \/ cleanupConnection
    BY <2>0, <2>1, <2>2, <2>3, <1>1, SameWire DEF IoWrite, cleanupConnection, wireVars
  <2>4. CASE IoClose
    <3>1. io.conn \in Conn
      BY <2>4, <1>1 DEF IoPart, IoClose
    <3>2. QED
      BY <2>0, <2>1, <2>2, <2>4, <3>1, <1>1, ClosedWire DEF IoClose
  <2>5. QED
    BY <1>6, <2>1, <2>2, <2>3, <2>4
<1>7. ASSUME NEW t \in Workers, WorkerStep(t)
      PROVE  Kept' /\ OrdersInLine' /\ GatewayWire
  <2>1. Kept' /\ \A c \in Clients : state'[c].on = state[c].on
    BY <1>1, <1>7, WorkersKept
  <2>2. UNCHANGED <<io, up, executed, cliEnd, srvEnd, broken, compOf>>
    BY <1>7 DEF WorkerStep, ProcessCommand, WorkerWrite, MatchOrder, publishIncremental,
                SendIncrement, wireVars
  <2>3. OrdersInLine'
    BY <2>1, <2>2, <1>1, QuietLines
  <2>4. GatewayWire
    BY <2>2, <1>1, SameWire DEF IoStays
  <2>5. QED
    BY <2>1, <2>3, <2>4
<1>8. ASSUME RunTask PROVE Kept' /\ OrdersInLine' /\ GatewayWire
  <2>1. Kept' /\ UNCHANGED state
    BY <1>1, <1>8, TasksKept
  <2>2. UNCHANGED <<io, up, executed, cliEnd, srvEnd, broken, compOf>>
    BY <1>8 DEF RunTask, wireVars
  <2>3. OrdersInLine'
    BY <2>1, <2>2, <1>1, QuietLines
  <2>4. GatewayWire
    BY <2>2, <1>1, SameWire DEF IoStays
  <2>5. QED
    BY <2>1, <2>3, <2>4
<1>9. ASSUME Restart PROVE Kept' /\ OrdersInLine' /\ GatewayWire
  <2>1. Kept'
    BY <1>1, <1>9, RestartKept
  <2>2. OrdersInLine'
    BY <1>1, <1>2, <1>9, <2>1, RestartLines
  <2>3. GatewayWire
    BY <1>9 DEF Restart, GatewayWire, IdleIo
  <2>4. QED
    BY <2>1, <2>2, <2>3
<1>10. Kept' /\ OrdersInLine' /\ GatewayWire
  BY <1>3, <1>4, <1>5, <1>6, <1>7, <1>8, <1>9 DEF ServerNext, IoStep
<1>11. QED
  BY <1>10, GatewayWireKeeps, LinkInvNextIs

-----------------------------------------------------------------------------
(* The client's types and threads, in parts that change together.           *)

OwnerPart ==
  /\ owner \in [Conn -> Clients \cup {NoClient}] /\ current \in [Clients -> Conn \cup {0}]
  /\ \A c \in Clients : current[c] # 0 => owner[current[c]] = c

StorePart == mem \in [Conn -> Store] /\ file \in [Clients -> Store]

UiBusy(c, u, own, end) ==
  u.pc # "idle" => /\ u.conn \in Conn /\ own[u.conn] = c /\ u.buf # << >>
                   /\ end[u.conn] # "none"

UiPart == ui \in [Clients -> UiState] /\ \A c \in Clients : UiBusy(c, ui[c], owner, cliEnd)

NetBusy(c, n, own, end) ==
  /\ n.pc # "idle" => n.conn \in Conn /\ own[n.conn] = c /\ end[n.conn] # "none"
  /\ n.pc \in {"expected", "sender", "set"} => n.buf # << >>

NetPart == net \in [Clients -> NetState] /\ \A c \in Clients : NetBusy(c, net[c], owner, cliEnd)

RestPart ==
  /\ status \in [Conn -> FixClientState] /\ reading \subseteq Conn /\ timer \subseteq Conn
  /\ failed \subseteq Conn /\ beats \in 0..MaxHeartbeats /\ refs \in 0..MaxSends
  /\ written \in [Conn -> Seq(Ref)] /\ handled \in [Conn -> Seq(DownType)]

ClientParts == OwnerPart /\ StorePart /\ UiPart /\ NetPart /\ RestPart

LEMMA ClientPartsAre == ClientParts <=> ClientTypeOK /\ ClientThreads
BY DEF ClientParts, OwnerPart, StorePart, UiPart, UiBusy, NetPart, NetBusy, RestPart,
       ClientTypeOK, ClientThreads

LEMMA ClientPartsNextAre == ClientParts' <=> ClientTypeOK' /\ ClientThreads'
BY DEF ClientParts, OwnerPart, StorePart, UiPart, UiBusy, NetPart, NetBusy, RestPart,
       ClientTypeOK, ClientThreads

(* Connections keep their owners and, once there, do not go away.           *)
Grows ==
  \A k \in Conn : /\ owner[k] # NoClient => owner'[k] = owner[k]
                  /\ cliEnd'[k] = "none" => cliEnd[k] = "none"

LEMMA BusyStays ==
  ASSUME Grows, NEW c \in Clients
  PROVE  /\ \A u : UiBusy(c, u, owner, cliEnd) => UiBusy(c, u, owner', cliEnd')
         /\ \A n : NetBusy(c, n, owner, cliEnd) => NetBusy(c, n, owner', cliEnd')
<1>1. c # NoClient
  BY WireAssumption
<1>2. QED
  BY <1>1 DEF Grows, UiBusy, NetBusy

LEMMA UiSet ==
  ASSUME UiPart, Grows, NEW c \in Clients, NEW u \in UiState, UiBusy(c, u, owner', cliEnd'),
         ui' = [ui EXCEPT ![c] = u]
  PROVE  UiPart'
<1>1. ui' \in [Clients -> UiState] /\ ui'[c] = u
      /\ \A d \in Clients : d # c => ui'[d] = ui[d]
  BY DEF UiPart
<1>2. ASSUME NEW d \in Clients PROVE UiBusy(d, ui'[d], owner', cliEnd')
  <2>1. CASE d = c
    BY <2>1, <1>1
  <2>2. CASE d # c
    BY <2>2, <1>1, BusyStays DEF UiPart
  <2>3. QED
    BY <2>1, <2>2
<1>3. QED
  BY <1>1, <1>2 DEF UiPart

LEMMA NetSet ==
  ASSUME NetPart, Grows, NEW c \in Clients, NEW n \in NetState, NetBusy(c, n, owner', cliEnd'),
         net' = [net EXCEPT ![c] = n]
  PROVE  NetPart'
<1>1. net' \in [Clients -> NetState] /\ net'[c] = n
      /\ \A d \in Clients : d # c => net'[d] = net[d]
  BY DEF NetPart
<1>2. ASSUME NEW d \in Clients PROVE NetBusy(d, net'[d], owner', cliEnd')
  <2>1. CASE d = c
    BY <2>1, <1>1
  <2>2. CASE d # c
    BY <2>2, <1>1, BusyStays DEF NetPart
  <2>3. QED
    BY <2>1, <2>2
<1>3. QED
  BY <1>1, <1>2 DEF NetPart

LEMMA ThreadsStay ==
  ASSUME Grows
  PROVE  /\ UiPart /\ UNCHANGED ui => UiPart'
         /\ NetPart /\ UNCHANGED net => NetPart'
BY BusyStays DEF UiPart, NetPart

LEMMA IdleIs ==
  /\ Idle \in UiState /\ Idle \in NetState /\ Idle.pc = "idle"
  /\ \A c, own, end : UiBusy(c, Idle, own, end) /\ NetBusy(c, Idle, own, end)
<1>1. Idle \in UiState /\ Idle \in NetState /\ Idle.pc = "idle"
  BY SeqNone DEF Idle, UiState, NetState
<1>2. QED
  BY <1>1 DEF UiBusy, NetBusy

LEMMA ClientPartsStay ==
  /\ OwnerPart /\ UNCHANGED <<owner, current>> => OwnerPart'
  /\ StorePart /\ UNCHANGED <<mem, file>> => StorePart'
  /\ RestPart /\ UNCHANGED <<status, reading, timer, failed, beats, refs, written, handled>> => RestPart'
BY DEF OwnerPart, StorePart, RestPart

LEMMA NumbersSet ==
  ASSUME StorePart, NEW k \in Conn, NEW i \in Nat, NEW o \in Nat, setSeqNums(k, i, o)
  PROVE  StorePart'
BY DEF StorePart, Store, setSeqNums

(* A socket that is closed, or an object that was disconnected already.     *)
LEMMA Disconnects ==
  ASSUME WireTypeOK, RestPart, NEW k \in Conn, disconnect(k), UNCHANGED <<up, srvEnd, broken, owner>>
  PROVE  /\ WireTypeOK' /\ Grows /\ timer' \subseteq timer
         /\ status' \in [Conn -> FixClientState]
         /\ \A j \in Conn : status'[j] \in {status[j], "Disconnected"}
         /\ \A j \in Conn : cliEnd'[j] = cliEnd[j] \/ (cliEnd[j] = "open" /\ cliEnd'[j] = "closed")
<1>1. << >> \in Seq(DownMessage)
  BY SeqNone
<1>2. CASE UNCHANGED <<status, timer, cliEnd, down>>
  BY <1>2 DEF WireTypeOK, Grows, RestPart
<1>3. CASE /\ status' = [status EXCEPT ![k] = "Disconnected"]
           /\ timer' = timer \ {k}
           /\ IF cliEnd[k] = "open" THEN CloseClient(k) ELSE UNCHANGED <<cliEnd, down>>
  <2>1. /\ WireTypeOK'
        /\ \A j \in Conn : cliEnd'[j] = cliEnd[j] \/ (cliEnd[j] = "open" /\ cliEnd'[j] = "closed")
    BY <1>1, <1>3 DEF WireTypeOK, CloseClient
  <2>2. /\ status' \in [Conn -> FixClientState]
        /\ \A j \in Conn : status'[j] \in {status[j], "Disconnected"}
    BY <1>3 DEF RestPart, FixClientState
  <2>3. QED
    BY <1>3, <2>1, <2>2 DEF Grows
<1>4. QED
  BY <1>2, <1>3 DEF disconnect

LEMMA Writes ==
  ASSUME WireTypeOK, RestPart, NEW k \in Conn, NEW m \in UpMessage, doWrite(k, m),
         UNCHANGED <<down, cliEnd, srvEnd, broken, owner>>
  PROVE  /\ WireTypeOK' /\ Grows /\ failed' \subseteq Conn
         /\ \/ up' = up
            \/ /\ cliEnd[k] = "open" /\ srvEnd[k] # "closed" /\ k \notin broken
               /\ up' = [up EXCEPT ![k] = Append(@, m)]
         /\ Carries(k) /\ cliEnd[k] # "none" => up' = [up EXCEPT ![k] = Append(@, m)]
<1>1. Append(up[k], m) \in Seq(UpMessage)
  BY SeqAppended DEF WireTypeOK
<1>2. CASE cliEnd[k] = "open"
  <2>1. WriteUp(k, m) /\ UNCHANGED failed
    BY <1>2 DEF doWrite
  <2>2. CASE k \in broken \/ srvEnd[k] = "closed"
    BY <2>1, <2>2 DEF WriteUp, WireTypeOK, Grows, RestPart, Carries
  <2>3. CASE ~(k \in broken \/ srvEnd[k] = "closed")
    <3>1. up' = [up EXCEPT ![k] = Append(@, m)]
      BY <2>1, <2>3 DEF WriteUp
    <3>2. WireTypeOK'
      BY <3>1, <2>1, <1>1 DEF WireTypeOK
    <3>3. QED
      BY <3>1, <3>2, <2>1, <2>3, <1>2 DEF Grows, RestPart
  <2>4. QED
    BY <2>2, <2>3
<1>3. CASE cliEnd[k] # "open"
  <2>1. failed' = failed \cup {k} /\ UNCHANGED up
    BY <1>3 DEF doWrite
  <2>2. ~(Carries(k) /\ cliEnd[k] # "none")
    BY <1>3 DEF Carries, WireTypeOK
  <2>3. QED
    BY <2>1, <2>2 DEF WireTypeOK, Grows, RestPart
<1>4. QED
  BY <1>2, <1>3

-----------------------------------------------------------------------------
(* Most steps of a client write nothing.                                    *)

InSend(u) == u.pc \in {"number", "target", "set"}

UiGoesOn(c) ==
  /\ InSend(ui[c]) /\ ui'[c].conn = ui[c].conn
  /\ Head(ui'[c].buf).type = Head(ui[c].buf).type /\ Head(ui'[c].buf).ref = Head(ui[c].buf).ref

UiStarts(c) ==
  /\ ui'[c].conn \in Conn
  /\ Head(ui'[c].buf).type = "Logon" => status[ui'[c].conn] = "Connected"
  /\ Head(ui'[c].buf).type = "NewOrder" =>
       /\ status[ui'[c].conn] # "Connected"
       /\ Head(ui'[c].buf).ref = refs + 1 /\ refs' = refs + 1

Socket(j) == cliEnd'[j] = cliEnd[j] \/ (cliEnd[j] = "open" /\ cliEnd'[j] = "closed")

Status(j) ==
  /\ status'[j] = "Connected" => status[j] = "Connected"
  /\ cliEnd[j] = "none" => status'[j] \in {status[j], "Disconnected", "Connecting"}

QuietStep ==
  /\ UNCHANGED <<up, srvEnd, broken, written>> /\ refs' \in {refs, refs + 1}
  /\ \A j \in Conn : Socket(j) /\ Status(j)
  /\ \A c \in Clients : InSend(ui'[c]) => UiGoesOn(c) \/ UiStarts(c)

LEMMA GatewayStays ==
  ASSUME Kept, WireTypeOK', UNCHANGED serverVars
  PROVE  Kept'
<1> USE DEF serverVars, tableVars, coreVars, marketVars
<1>1. GatewayParts'
  BY PartsStay DEF Kept, GatewayParts
<1>2. TrailMatches'
  BY TrailStays DEF Kept
<1>3. QED
  BY <1>1, <1>2 DEF Kept

LEMMA ClientLines ==
  ASSUME OrdersInLine, UNCHANGED serverVars, NEW k \in Conn,
         up'[k] = up[k], written'[k] = written[k], srvEnd'[k] = srvEnd[k],
         Carries(k)' => Carries(k)
  PROVE  InLine(k)'
<1> USE DEF serverVars, tableVars, coreVars, marketVars
<1>1. InFlight(k)' = InFlight(k)
  BY DEF InFlight
<1>2. LoggedOn(k)' = LoggedOn(k)
  BY DEF LoggedOn
<1>3. Refused(k) => Refused(k)'
  BY <1>1, <1>2 DEF Refused
<1>4. SameOrders(k)
  BY DEF SameOrders
<1>5. QED
  BY <1>1, <1>3, <1>4, LineStays DEF OrdersInLine

LEMMA QuietKeeps ==
  ASSUME LinkInv, QuietStep, UNCHANGED serverVars
  PROVE  WireInv' /\ RefsInv' /\ OrdersInLine'
<1> USE DEF serverVars
<1>1. /\ ClientParts /\ WireTypeOK /\ IoPart /\ WireInv /\ RefsInv /\ OrdersInLine
  BY LinkInvIs, ClientPartsAre DEF Kept, GatewayParts
<1>2. OrdersInLine'
  <2>1. ASSUME NEW k \in Conn PROVE InLine(k)'
    <3>1. Carries(k)' => Carries(k)
      BY DEF Carries, QuietStep, Socket
    <3>2. QED
      BY <3>1, <1>1, ClientLines DEF QuietStep
  <2>2. QED
    BY <2>1 DEF OrdersInLine
<1>3. WireInv'
  <2>1. io'.pc # "idle" => cliEnd'[io'.conn] # "none"
    BY <1>1 DEF WireInv, QuietStep, Socket, IoPart
  <2>2. ASSUME NEW k \in Conn
        PROVE  /\ cliEnd'[k] = "none" =>
                    /\ status'[k] \in {"Disconnected", "Connecting"}
                    /\ written'[k] = << >> /\ up'[k] = << >>
               /\ srvEnd'[k] = "none" => cliEnd'[k] = "none"
               /\ srvEnd'[k] = "closed" => up'[k] = << >>
               /\ status'[k] = "Connected" => written'[k] = << >>
    BY <1>1 DEF WireInv, QuietStep, Socket, Status
  <2>3. ASSUME NEW c \in Clients, InSend(ui'[c])
        PROVE  /\ Head(ui'[c].buf).type = "Logon" => written'[ui'[c].conn] = << >>
               /\ Head(ui'[c].buf).type = "NewOrder" => status'[ui'[c].conn] # "Connected"
    <3>1. CASE UiGoesOn(c)
      <4>1. InSend(ui[c]) /\ ui[c].conn \in Conn
        BY <3>1, <1>1 DEF UiGoesOn, InSend, ClientParts, UiPart, UiBusy
      <4>2. /\ Head(ui[c].buf).type = "Logon" => written[ui[c].conn] = << >>
            /\ Head(ui[c].buf).type = "NewOrder" => status[ui[c].conn] # "Connected"
        BY <4>1, <1>1 DEF WireInv, InSend
      <4>3. QED
        BY <3>1, <4>1, <4>2 DEF UiGoesOn, QuietStep, Status
    <3>2. CASE UiStarts(c)
      BY <3>2, <1>1 DEF UiStarts, WireInv, QuietStep, Status
    <3>3. QED
      BY <2>3, <3>1, <3>2 DEF QuietStep
  <2>4. QED
    BY <2>1, <2>2, <2>3 DEF WireInv, InSend
<1>4. RefsInv'
  <2>1. /\ refs \in Nat /\ refs' \in Nat /\ refs <= refs' /\ written' = written
        /\ written \in [Conn -> Seq(Ref)]
    BY <1>1, WireAssumption DEF QuietStep, ClientParts, RestPart
  <2>2. \A k \in Conn : \A n \in DOMAIN written[k] : written[k][n] \in Nat /\ written[k][n] <= refs
    BY <2>1, <1>1, SentRefs DEF RefsInv
  <2>3. \A k \in Conn : \A n \in DOMAIN written'[k] : written'[k][n] <= refs'
    BY <2>1, <2>2
  <2>4. ASSUME NEW c \in Clients, InSend(ui'[c]), Head(ui'[c].buf).type = "NewOrder"
        PROVE  /\ Head(ui'[c].buf).ref <= refs'
               /\ \A n \in DOMAIN written'[ui'[c].conn] :
                    written'[ui'[c].conn][n] < Head(ui'[c].buf).ref
    <3>1. CASE UiGoesOn(c)
      <4>1. InSend(ui[c]) /\ ui[c] \in UiState /\ ui[c].buf # << >>
        BY <3>1, <1>1 DEF UiGoesOn, InSend, ClientParts, UiPart, UiBusy
      <4>2. Head(ui[c].buf) \in UpMessage
        BY <4>1, SeqTaken DEF UiState
      <4>3. Head(ui[c].buf).ref \in Nat
        BY <4>2, UpMessageIs, WireAssumption DEF Ref
      <4>4. /\ Head(ui[c].buf).ref <= refs
            /\ \A n \in DOMAIN written[ui[c].conn] : written[ui[c].conn][n] < Head(ui[c].buf).ref
        BY <3>1, <4>1, <2>4, <1>1 DEF RefsInv, InSend, UiGoesOn
      <4>5. QED
        BY <3>1, <4>3, <4>4, <2>1 DEF UiGoesOn
    <3>2. CASE UiStarts(c)
      BY <3>2, <2>1, <2>2, <2>4 DEF UiStarts
    <3>3. QED
      BY <2>4, <3>1, <3>2 DEF QuietStep
  <2>5. QED
    BY <2>3, <2>4 DEF RefsInv, InSend
<1>5. QED
  BY <1>2, <1>3, <1>4

(* A step of a client that writes nothing keeps the client's parts.         *)
QuietKept == WireTypeOK' /\ ClientParts' /\ QuietStep

LEMMA UiSame ==
  ASSUME UNCHANGED ui
  PROVE  \A c \in Clients : InSend(ui'[c]) => UiGoesOn(c)
BY DEF InSend, UiGoesOn

LEMMA SocketsSame ==
  ASSUME UNCHANGED <<owner, cliEnd>>
  PROVE  Grows /\ \A j \in Conn : Socket(j)
BY DEF Grows, Socket

LEMMA StatusSame ==
  ASSUME UNCHANGED status
  PROVE  \A j \in Conn : Status(j)
BY DEF Status

(* The panel's session object, when there is one.                           *)
LEMMA PanelObject ==
  ASSUME ClientParts, WireInv, NEW c \in Clients, PanelStatus(c) # "Disconnected"
  PROVE  /\ current[c] \in Conn /\ owner[current[c]] = c
         /\ PanelStatus(c) = status[current[c]]
         /\ PanelStatus(c) \in {"Connected", "Active"} => cliEnd[current[c]] # "none"
<1>1. current[c] # 0 /\ current[c] \in Conn \cup {0}
  BY DEF PanelStatus, ClientParts, OwnerPart
<1>2. current[c] \in Conn /\ owner[current[c]] = c /\ PanelStatus(c) = status[current[c]]
  BY <1>1 DEF PanelStatus, ClientParts, OwnerPart
<1>3. QED
  BY <1>2 DEF WireInv

(* A send begins at its first or its second step.                           *)
Opens(c, pc, type, out, ref) ==
  ui' = [ui EXCEPT ![c] = [Idle EXCEPT !.pc = pc, !.conn = current[c],
                                       !.buf = <<Message(c, type, out, ref)>>]]

LEMMA StartOpens ==
  ASSUME NEW c, NEW type, NEW out, NEW ref, Start(c, type, out, ref)
  PROVE  Opens(c, "target", type, out, ref)
BY DEF Start, Opens

LEMMA LogonOpens ==
  ASSUME NEW c, NEW forceReset \in BOOLEAN, sendLogon(c, forceReset)
  PROVE  \E pc \in {"number", "target"} :
           Opens(c, pc, "Logon", IF forceReset THEN 1 ELSE mem[current[c]].out, 0)
<1>1. CASE forceReset
  BY <1>1 DEF sendLogon, Opens
<1>2. CASE ~forceReset
  BY <1>2, StartOpens DEF sendLogon
<1>3. QED
  BY <1>1, <1>2

(* The button is pressed.                                                   *)
LEMMA Starts ==
  ASSUME ClientParts, WireInv, NEW c \in Clients, PanelStatus(c) \in {"Connected", "Active"},
         NEW pc \in {"number", "target"},
         NEW type \in UpType, NEW out \in Nat, NEW ref \in Ref \cup {0},
         type \in {"NewOrder", "Cancel", "Replace"} => ref \in Ref,
         Opens(c, pc, type, out, ref), UNCHANGED <<owner, cliEnd>>
  PROVE  /\ UiPart'
         /\ \A d \in Clients : d # c => ui'[d] = ui[d]
         /\ ui'[c].conn = current[c] /\ Head(ui'[c].buf).type = type
         /\ Head(ui'[c].buf).ref = ref
<1> DEFINE m == Message(c, type, out, ref)
           u == [Idle EXCEPT !.pc = pc, !.conn = current[c], !.buf = <<m>>]
<1>1. m \in UpMessage /\ m.type = type /\ m.ref = ref
  BY DEF Message, UpMessage
<1>2. current[c] \in Conn /\ owner[current[c]] = c /\ cliEnd[current[c]] # "none"
  BY PanelObject
<1>3. ui' = [ui EXCEPT ![c] = u]
  BY DEF Opens
<1> HIDE DEF m
<1>4. <<m>> \in Seq(UpMessage) /\ <<m>> # << >> /\ Head(<<m>>) = m
  BY <1>1, SeqSingle
<1>5. u \in UiState /\ u.pc = pc /\ u.conn = current[c] /\ u.buf = <<m>>
  BY <1>2, <1>4 DEF Idle, UiState
<1> HIDE DEF u
<1>6. UiBusy(c, u, owner', cliEnd')
  BY <1>2, <1>4, <1>5 DEF UiBusy
<1>7. UiPart'
  BY <1>3, <1>5, <1>6, UiSet, SocketsSame DEF ClientParts
<1>8. ui'[c] = u /\ \A d \in Clients : d # c => ui'[d] = ui[d]
  BY <1>3 DEF ClientParts, UiPart
<1>9. QED
  BY <1>1, <1>4, <1>5, <1>7, <1>8

LEMMA ButtonsQuiet ==
  ASSUME LinkInv, NEW c \in Clients,
         \/ \E k \in Conn : Connect(c, k)
         \/ ForceDisconnect(c)
         \/ \E forceReset \in BOOLEAN : sendLogon(c, forceReset)
         \/ sendLogout(c)
         \/ \E type \in AppTypes : sendMessage(c, type)
  PROVE  QuietKept
<1>1. /\ WireTypeOK /\ ClientParts /\ WireInv
      /\ OwnerPart /\ StorePart /\ UiPart /\ NetPart /\ RestPart
  BY LinkInvIs, ClientPartsAre DEF Kept, ClientParts
<1>2. ASSUME NEW k \in Conn, Connect(c, k) PROVE QuietKept
  <2>1. /\ owner[k] = NoClient /\ owner' = [owner EXCEPT ![k] = c]
        /\ current' = [current EXCEPT ![c] = k]
        /\ mem' = [mem EXCEPT ![k] = file[c]] /\ status' = [status EXCEPT ![k] = "Connecting"]
        /\ UNCHANGED <<wireVars, file, ui, net, reading, timer, failed, beats, refs, written, handled>>
    BY <1>2 DEF Connect
  <2>2. WireTypeOK'
    BY <2>1, <1>1, WireStays
  <2>3. Grows /\ \A j \in Conn : Socket(j)
    BY <2>1, <1>1 DEF Grows, Socket, OwnerPart, wireVars
  <2>4. OwnerPart'
    <3>1. owner' \in [Conn -> Clients \cup {NoClient}] /\ current' \in [Clients -> Conn \cup {0}]
      BY <2>1, <1>1 DEF OwnerPart
    <3>2. ASSUME NEW d \in Clients, current'[d] # 0 PROVE owner'[current'[d]] = d
      <4>1. CASE d = c
        BY <4>1, <2>1, <1>1 DEF OwnerPart
      <4>2. CASE d # c
        <5>1. current'[d] = current[d] /\ current[d] \in Conn /\ owner[current[d]] = d
          BY <4>2, <3>2, <2>1, <1>1 DEF OwnerPart
        <5>2. d # NoClient
          BY WireAssumption
        <5>3. QED
          BY <5>1, <5>2, <2>3 DEF Grows
      <4>3. QED
        BY <4>1, <4>2
    <3>3. QED
      BY <3>1, <3>2 DEF OwnerPart
  <2>5. StorePart'
    BY <2>1, <1>1 DEF StorePart
  <2>6. UiPart' /\ NetPart'
    BY <2>1, <2>3, <1>1, ThreadsStay
  <2>7. RestPart'
    BY <2>1, <1>1 DEF RestPart, FixClientState
  <2>8. \A j \in Conn : Status(j)
    BY <2>1, <1>1 DEF Status, RestPart
  <2>9. QuietStep
    BY <2>1, <2>3, <2>8, UiSame DEF QuietStep, wireVars
  <2>10. QED
    BY <2>2, <2>4, <2>5, <2>6, <2>7, <2>9 DEF QuietKept, ClientParts
<1>3. CASE ForceDisconnect(c)
  <2>1. /\ disconnect(current[c]) /\ PanelStatus(c) # "Disconnected"
        /\ UNCHANGED <<up, srvEnd, broken, owner, current, mem, file, ui, net, reading, failed, beats,
                       refs, written, handled>>
    BY <1>3 DEF ForceDisconnect
  <2>2. current[c] \in Conn
    BY <2>1, <1>1, PanelObject
  <2>3. /\ WireTypeOK' /\ Grows /\ timer' \subseteq timer
        /\ status' \in [Conn -> FixClientState]
        /\ \A j \in Conn : status'[j] \in {status[j], "Disconnected"}
        /\ \A j \in Conn : cliEnd'[j] = cliEnd[j] \/ (cliEnd[j] = "open" /\ cliEnd'[j] = "closed")
    BY <2>1, <2>2, <1>1, Disconnects
  <2>4. OwnerPart' /\ StorePart' /\ UiPart' /\ NetPart'
    BY <2>1, <2>3, <1>1, ClientPartsStay, ThreadsStay
  <2>5. RestPart'
    BY <2>1, <2>3, <1>1 DEF RestPart
  <2>6. QuietStep
    BY <2>1, <2>3, UiSame DEF QuietStep, Socket, Status
  <2>7. QED
    BY <2>3, <2>4, <2>5, <2>6 DEF QuietKept, ClientParts
<1>4. ASSUME NEW pc \in {"number", "target"},
             NEW type \in UpType, NEW out \in Nat, NEW ref \in Ref \cup {0},
             type \in {"NewOrder", "Cancel", "Replace"} => ref \in Ref,
             Opens(c, pc, type, out, ref), PanelStatus(c) \in {"Connected", "Active"},
             type = "Logon" => PanelStatus(c) = "Connected",
             type = "NewOrder" =>
               PanelStatus(c) = "Active" /\ ref = refs + 1 /\ refs' = refs + 1,
             refs' \in {refs, refs + 1}, refs' \in 0..MaxSends, StorePart',
             UNCHANGED <<wireVars, owner, current, status, net, reading, timer, failed, beats,
                         written, handled>>
      PROVE  QuietKept
  <2>1. WireTypeOK' /\ Grows /\ \A j \in Conn : Socket(j) /\ Status(j)
    BY <1>1, <1>4, WireStays, SocketsSame, StatusSame DEF wireVars
  <2>2. /\ UiPart' /\ \A d \in Clients : d # c => ui'[d] = ui[d]
        /\ ui'[c].conn = current[c] /\ Head(ui'[c].buf).type = type /\ Head(ui'[c].buf).ref = ref
    BY <1>1, <1>4, Starts DEF wireVars
  <2>3. current[c] \in Conn /\ PanelStatus(c) = status[current[c]]
    BY <1>1, <1>4, PanelObject
  <2>4. UiStarts(c)
    BY <2>2, <2>3, <1>4 DEF UiStarts
  <2>5. QuietStep
    BY <1>4, <2>1, <2>2, <2>4 DEF QuietStep, wireVars, UiGoesOn
  <2>6. OwnerPart' /\ NetPart'
    BY <1>1, <1>4, <2>1, ClientPartsStay, ThreadsStay
  <2>7. RestPart'
    BY <1>1, <1>4 DEF RestPart
  <2>8. QED
    BY <1>4, <2>1, <2>2, <2>5, <2>6, <2>7 DEF QuietKept, ClientParts
<1>5. \A k \in Conn : mem[k].in \in Nat /\ mem[k].out \in Nat
  BY <1>1 DEF StorePart, Store
<1>6. ASSUME NEW forceReset \in BOOLEAN, sendLogon(c, forceReset) PROVE QuietKept
  <2> DEFINE out == IF forceReset THEN 1 ELSE mem[current[c]].out
  <2>0. PICK pc \in {"number", "target"} : Opens(c, pc, "Logon", out, 0)
    BY <1>6, LogonOpens
  <2>1. /\ PanelStatus(c) = "Connected"
        /\ IF forceReset THEN setSeqNums(current[c], 1, 1) ELSE UNCHANGED <<mem, file>>
        /\ UNCHANGED <<wireVars, owner, current, status, net, reading, timer, failed, beats, refs,
                       written, handled>>
    BY <1>6 DEF sendLogon
  <2>2. current[c] \in Conn
    BY <2>1, <1>1, PanelObject
  <2>3. out \in Nat
    BY <2>2, <1>5
  <2>4. StorePart'
    BY <2>1, <2>2, <1>1, NumbersSet, ClientPartsStay
  <2> HIDE DEF out
  <2>5. "Logon" \in UpType /\ refs' \in 0..MaxSends
    BY <2>1, <1>1 DEF UpType, RestPart
  <2>6. QED
    BY <2>0, <2>1, <2>3, <2>4, <2>5, <1>4
<1>7. CASE sendLogout(c)
  <2>1. /\ PanelStatus(c) = "Active" /\ Start(c, "Logout", mem[current[c]].out, 0)
        /\ UNCHANGED <<wireVars, owner, current, status, mem, file, net, reading, timer, failed,
                       beats, refs, written, handled>>
    BY <1>7 DEF sendLogout
  <2>2. mem[current[c]].out \in Nat
    BY <2>1, <1>1, <1>5, PanelObject
  <2>3. "Logout" \in UpType /\ refs' \in 0..MaxSends /\ StorePart'
    BY <2>1, <1>1, ClientPartsStay DEF UpType, RestPart
  <2>4. QED
    BY <2>1, <2>2, <2>3, <1>4, StartOpens
<1>8. ASSUME NEW type \in AppTypes, sendMessage(c, type) PROVE QuietKept
  <2>1. /\ PanelStatus(c) = "Active" /\ refs < MaxSends /\ refs' = refs + 1
        /\ \E ref \in IF type \in {"Cancel", "Replace"} THEN 1..refs ELSE {refs + 1} :
             Start(c, type, mem[current[c]].out, ref)
        /\ UNCHANGED <<wireVars, owner, current, status, mem, file, net, reading, timer, failed,
                       beats, written, handled>>
    BY <1>8 DEF sendMessage
  <2>2. mem[current[c]].out \in Nat
    BY <2>1, <1>1, <1>5, PanelObject
  <2>3. type \in UpType /\ type # "Logon"
    BY ClientAssumption
  <2>4. refs \in 0..MaxSends /\ MaxSends \in Nat
    BY <1>1, WireAssumption DEF RestPart
  <2>5. PICK ref \in IF type \in {"Cancel", "Replace"} THEN 1..refs ELSE {refs + 1} :
             Start(c, type, mem[current[c]].out, ref)
    BY <2>1
  <2>6. ref \in Ref /\ (type = "NewOrder" => ref = refs + 1) /\ refs' \in 0..MaxSends
    BY <2>1, <2>4, <2>5 DEF Ref
  <2>7. StorePart'
    BY <2>1, <1>1, ClientPartsStay
  <2>8. QED
    BY <2>1, <2>2, <2>3, <2>5, <2>6, <2>7, <1>4, StartOpens
<1>9. QED
  BY <1>2, <1>3, <1>6, <1>7, <1>8

(* The UI thread goes on with a send, and sets the state after the write.   *)
LEMMA SendsQuiet ==
  ASSUME LinkInv, NEW c \in Clients, UiReadSender(c) \/ UiReadTarget(c) \/ UiAfter(c)
  PROVE  QuietKept
<1>1. /\ WireTypeOK /\ ClientParts /\ WireInv
      /\ OwnerPart /\ StorePart /\ UiPart /\ NetPart /\ RestPart
  BY LinkInvIs, ClientPartsAre DEF Kept, ClientParts
<1>2. UNCHANGED <<wireVars, owner, current, mem, file, net, reading, timer, failed, beats, refs, written,
                  handled>>
  BY DEF UiReadSender, UiReadTarget, UiAfter
<1>3. WireTypeOK' /\ Grows /\ \A j \in Conn : Socket(j)
  BY <1>1, <1>2, WireStays, SocketsSame DEF wireVars
<1>4. OwnerPart' /\ StorePart' /\ NetPart'
  BY <1>1, <1>2, <1>3, ClientPartsStay, ThreadsStay
<1>5. ui[c] \in UiState /\ UiBusy(c, ui[c], owner', cliEnd')
  BY <1>1, <1>2 DEF UiPart, wireVars
<1>6. CASE UiReadTarget(c)
  <2> DEFINE n == mem[ui[c].conn].in
             u == [ui[c] EXCEPT !.pc = "set", !.in = n]
  <2>1. ui[c].pc = "target" /\ UNCHANGED status /\ ui[c].conn \in Conn
    BY <1>5, <1>6 DEF UiReadTarget, UiBusy
  <2>2. n \in Nat
    BY <2>1, <1>1 DEF StorePart, Store
  <2>3. ui' = [ui EXCEPT ![c] = u]
    BY <1>6, <1>1 DEF UiReadTarget, UiPart
  <2> HIDE DEF n
  <2>4. u \in UiState /\ u.conn = ui[c].conn /\ u.buf = ui[c].buf /\ u.pc = "set"
    BY <1>5, <2>2 DEF UiState
  <2> HIDE DEF u
  <2>5. UiBusy(c, u, owner', cliEnd')
    BY <2>1, <2>4, <1>5 DEF UiBusy
  <2>6. UiPart'
    BY <2>3, <2>4, <2>5, <1>1, <1>3, UiSet
  <2>7. RestPart' /\ \A j \in Conn : Status(j)
    BY <2>1, <1>1, <1>2, ClientPartsStay, StatusSame
  <2>8. ui'[c] = u /\ \A d \in Clients : d # c => ui'[d] = ui[d]
    BY <2>3, <1>1 DEF UiPart
  <2>9. \A d \in Clients : InSend(ui'[d]) => UiGoesOn(d)
    BY <2>1, <2>4, <2>8 DEF InSend, UiGoesOn
  <2>10. QuietStep
    BY <2>7, <2>9, <1>2, <1>3 DEF QuietStep, wireVars
  <2>11. QED
    BY <2>6, <2>7, <2>10, <1>3, <1>4 DEF QuietKept, ClientParts
<1>7. CASE UiAfter(c)
  <2>1. ui[c].pc = "after" /\ ui' = [ui EXCEPT ![c] = Idle] /\ ui[c].conn \in Conn
        /\ cliEnd[ui[c].conn] # "none"
    BY <1>1, <1>7 DEF UiAfter, UiPart, UiBusy
  <2>2. PICK s \in {"LogonSent", "LoggingOut"} : status' = [status EXCEPT ![ui[c].conn] = s]
    BY <1>7 DEF UiAfter
  <2>3. UiPart'
    BY <2>1, <1>1, <1>3, UiSet, IdleIs
  <2>4. RestPart' /\ \A j \in Conn : Status(j)
    BY <2>1, <2>2, <1>1, <1>2 DEF RestPart, FixClientState, Status
  <2>5. ui'[c] = Idle /\ \A d \in Clients : d # c => ui'[d] = ui[d]
    BY <2>1, <1>1 DEF UiPart
  <2>6. \A d \in Clients : InSend(ui'[d]) => UiGoesOn(d)
    BY <2>5, IdleIs DEF InSend, UiGoesOn
  <2>7. QuietStep
    BY <2>4, <2>6, <1>2, <1>3 DEF QuietStep, wireVars
  <2>8. QED
    BY <2>3, <2>4, <2>7, <1>3, <1>4 DEF QuietKept, ClientParts
<1>8. CASE UiReadSender(c)
  <2> DEFINE m == [Head(ui[c].buf) EXCEPT !.seq = mem[ui[c].conn].out]
             u == [ui[c] EXCEPT !.pc = "target", !.buf = <<m>>]
  <2>1. ui[c].pc = "number" /\ UNCHANGED status /\ ui[c].conn \in Conn
        /\ ui[c].buf \in Seq(UpMessage) /\ ui[c].buf # << >>
    BY <1>5, <1>8 DEF UiReadSender, UiBusy, UiState
  <2>2. mem[ui[c].conn].out \in Nat /\ Head(ui[c].buf) \in UpMessage
    BY <2>1, <1>1, SeqTaken DEF StorePart, Store
  <2>3. m \in UpMessage /\ m.type = Head(ui[c].buf).type /\ m.ref = Head(ui[c].buf).ref
    BY <2>2 DEF UpMessage
  <2>4. ui' = [ui EXCEPT ![c] = u]
    BY <1>8, <1>1 DEF UiReadSender, UiPart
  <2> HIDE DEF m
  <2>5. <<m>> \in Seq(UpMessage) /\ <<m>> # << >> /\ Head(<<m>>) = m
    BY <2>3, SeqSingle
  <2>6. u \in UiState /\ u.conn = ui[c].conn /\ u.buf = <<m>> /\ u.pc = "target"
    BY <1>5, <2>5 DEF UiState
  <2> HIDE DEF u
  <2>7. UiBusy(c, u, owner', cliEnd')
    BY <2>1, <2>5, <2>6, <1>5 DEF UiBusy
  <2>8. UiPart'
    BY <2>4, <2>6, <2>7, <1>1, <1>3, UiSet
  <2>9. RestPart' /\ \A j \in Conn : Status(j)
    BY <2>1, <1>1, <1>2, ClientPartsStay, StatusSame
  <2>10. ui'[c] = u /\ \A d \in Clients : d # c => ui'[d] = ui[d]
    BY <2>4, <1>1 DEF UiPart
  <2>11. \A d \in Clients : InSend(ui'[d]) => UiGoesOn(d)
    BY <2>1, <2>3, <2>5, <2>6, <2>10 DEF InSend, UiGoesOn
  <2>12. QuietStep
    BY <2>9, <2>11, <1>2, <1>3 DEF QuietStep, wireVars
  <2>13. QED
    BY <2>8, <2>9, <2>12, <1>3, <1>4 DEF QuietKept, ClientParts
<1>9. QED
  BY <1>6, <1>7, <1>8

(* The network thread is done with a message.                               *)
LEMMA NetDoneIs ==
  ASSUME NetPart, NEW c \in Clients, net[c].pc \in {"expected", "sender", "set"}
  PROVE  /\ NetDone(c) \in NetState /\ NetBusy(c, NetDone(c), owner, cliEnd)
         /\ net[c].conn \in Conn /\ cliEnd[net[c].conn] # "none"
         /\ Head(net[c].buf) \in DownMessage /\ net[c].in \in Nat /\ net[c].out \in Nat
<1>1. net[c] \in NetState /\ NetBusy(c, net[c], owner, cliEnd)
  BY DEF NetPart
<1>2. /\ net[c].conn \in Conn /\ cliEnd[net[c].conn] # "none" /\ owner[net[c].conn] = c
      /\ net[c].buf # << >> /\ net[c].buf \in Seq(DownMessage)
      /\ net[c].in \in Nat /\ net[c].out \in Nat
  BY <1>1 DEF NetBusy, NetState
<1>3. /\ Head(net[c].buf) \in DownMessage /\ Tail(net[c].buf) \in Seq(DownMessage)
      /\ Len(net[c].buf) \in Nat /\ Len(Tail(net[c].buf)) = Len(net[c].buf) - 1
  BY <1>2, SeqTaken
<1>4. CASE Len(net[c].buf) = 1
  BY <1>2, <1>3, <1>4, IdleIs DEF NetDone
<1>5. CASE Len(net[c].buf) # 1
  <2> DEFINE r == Tail(net[c].buf)
             n == [Idle EXCEPT !.pc = "expected", !.conn = net[c].conn, !.buf = r]
  <2>0. Len(r) # 0 /\ r \in Seq(DownMessage)
    BY <1>3, <1>5
  <2>1. r # << >> /\ r \in Seq(DownMessage)
    BY <2>0, SeqNone
  <2>2. NetDone(c) = n
    BY <1>5 DEF NetDone
  <2> HIDE DEF r
  <2>3. n \in NetState /\ n.conn = net[c].conn /\ n.buf = r
    BY <2>1, <1>2 DEF NetState, Idle
  <2> HIDE DEF n
  <2>4. NetBusy(c, n, owner, cliEnd)
    BY <2>1, <2>3, <1>2 DEF NetBusy
  <2>5. QED
    BY <2>2, <2>3, <2>4, <1>2, <1>3
<1>6. QED
  BY <1>4, <1>5

(* The network thread's steps that leave the sockets and the states alone.  *)
LEMMA NetTurns ==
  ASSUME WireTypeOK', ClientParts, NEW c \in Clients, NEW n \in NetState,
         NetBusy(c, n, owner, cliEnd), net' = [net EXCEPT ![c] = n],
         timer' \subseteq Conn, beats' \in 0..MaxHeartbeats,
         UNCHANGED <<up, cliEnd, srvEnd, broken, owner, current, status, mem, file, ui, reading,
                     failed, refs, written, handled>>
  PROVE  QuietKept
<1>1. OwnerPart /\ StorePart /\ UiPart /\ NetPart /\ RestPart
  BY DEF ClientParts
<1>2. Grows /\ \A j \in Conn : Socket(j) /\ Status(j)
  BY SocketsSame, StatusSame
<1>3. OwnerPart' /\ StorePart' /\ UiPart'
  BY <1>1, <1>2, ClientPartsStay, ThreadsStay
<1>4. NetPart'
  BY <1>1, <1>2, NetSet
<1>5. RestPart'
  BY <1>1 DEF RestPart
<1>6. QuietStep
  BY <1>2, UiSame DEF QuietStep
<1>7. QED
  BY <1>3, <1>4, <1>5, <1>6 DEF QuietKept, ClientParts

(* The network thread's steps that may close the socket.                    *)
LEMMA NetCloses ==
  ASSUME WireTypeOK, ClientParts, NEW c \in Clients, NEW n \in NetState,
         NetBusy(c, n, owner, cliEnd), net' = [net EXCEPT ![c] = n],
         NEW k \in Conn, disconnect(k), reading' \subseteq Conn, failed' \subseteq Conn,
         handled' \in [Conn -> Seq(DownType)],
         UNCHANGED <<up, srvEnd, broken, owner, current, mem, file, ui, beats, refs, written>>
  PROVE  QuietKept
<1>1. OwnerPart /\ StorePart /\ UiPart /\ NetPart /\ RestPart
  BY DEF ClientParts
<1>2. /\ WireTypeOK' /\ Grows /\ timer' \subseteq timer
      /\ status' \in [Conn -> FixClientState]
      /\ \A j \in Conn : status'[j] \in {status[j], "Disconnected"}
      /\ \A j \in Conn : cliEnd'[j] = cliEnd[j] \/ (cliEnd[j] = "open" /\ cliEnd'[j] = "closed")
  BY <1>1, Disconnects
<1>3. OwnerPart' /\ StorePart' /\ UiPart'
  BY <1>1, <1>2, ClientPartsStay, ThreadsStay
<1>4. NetPart'
  BY <1>1, <1>2, NetSet, BusyStays
<1>5. RestPart'
  BY <1>1, <1>2 DEF RestPart
<1>6. QuietStep
  BY <1>2, UiSame DEF QuietStep, Socket, Status
<1>7. QED
  BY <1>2, <1>3, <1>4, <1>5, <1>6 DEF QuietKept, ClientParts

LEMMA NetReadsQuiet ==
  ASSUME LinkInv, NEW c \in Clients, NEW k \in Conn,
         NetReceive(c, k) \/ NetReadError(c, k) \/ WriteFailed(c, k) \/ TimerFires(c, k)
  PROVE  QuietKept
<1>1. /\ WireTypeOK /\ ClientParts /\ StorePart /\ NetPart /\ RestPart
  BY LinkInvIs, ClientPartsAre DEF Kept, ClientParts
<1>2. net[c] = Idle /\ owner[k] = c
  BY DEF NetReceive, NetReadError, WriteFailed, TimerFires
<1>3. net = [net EXCEPT ![c] = Idle]
  BY <1>1, <1>2 DEF NetPart
<1>4. timer \subseteq Conn /\ reading \subseteq Conn /\ failed \subseteq Conn
      /\ beats \in 0..MaxHeartbeats /\ handled \in [Conn -> Seq(DownType)]
  BY <1>1 DEF RestPart
<1>5. CASE NetReceive(c, k)
  <2>1. PICK i \in 1..Len(down[k]) :
          /\ net' = [net EXCEPT ![c] = [Idle EXCEPT !.pc = "expected", !.conn = k,
                                                    !.buf = SubSeq(down[k], 1, i)]]
          /\ down' = [down EXCEPT ![k] = SubSeq(@, i + 1, Len(@))]
    BY <1>5 DEF NetReceive
  <2>2. /\ cliEnd[k] = "open"
        /\ UNCHANGED <<up, cliEnd, srvEnd, broken, owner, current, status, mem, file, ui,
                       reading, timer, failed, beats, refs, written, handled>>
    BY <1>5 DEF NetReceive
  <2> DEFINE front == SubSeq(down[k], 1, i)
             rest  == SubSeq(down[k], i + 1, Len(down[k]))
             n     == [Idle EXCEPT !.pc = "expected", !.conn = k, !.buf = front]
  <2>3. front \in Seq(DownMessage) /\ front # << >> /\ rest \in Seq(DownMessage)
    BY <1>1, SeqCut DEF WireTypeOK
  <2>4. net' = [net EXCEPT ![c] = n] /\ down' = [down EXCEPT ![k] = rest]
    BY <2>1
  <2> HIDE DEF front, rest
  <2>5. WireTypeOK'
    BY <2>2, <2>3, <2>4, <1>1 DEF WireTypeOK
  <2>6. n \in NetState /\ n.conn = k /\ n.buf = front
    BY <2>3 DEF Idle, NetState
  <2> HIDE DEF n
  <2>7. NetBusy(c, n, owner, cliEnd)
    BY <2>2, <2>3, <2>6, <1>2 DEF NetBusy
  <2>8. QED
    BY <2>2, <2>4, <2>5, <2>6, <2>7, <1>1, <1>4, NetTurns
<1>6. CASE NetReadError(c, k)
  BY <1>1, <1>2, <1>3, <1>4, <1>6, NetCloses, IdleIs DEF NetReadError
<1>7. CASE TimerFires(c, k)
  <2>1. UNCHANGED <<wireVars, owner, current, status, mem, file, ui, reading, failed, refs,
                    written, handled>>
    BY <1>7 DEF TimerFires
  <2>2. WireTypeOK'
    BY <2>1, <1>1, WireStays
  <2>3. CASE status[k] = "Active"
    <3> DEFINE o == mem[k].out
               n == [Idle EXCEPT !.pc = "target", !.conn = k, !.out = o]
    <3>1. beats < MaxHeartbeats /\ net' = [net EXCEPT ![c] = n] /\ beats' = beats + 1
          /\ UNCHANGED timer
      BY <1>7, <2>3 DEF TimerFires
    <3>2. o \in Nat /\ << >> \in Seq(DownMessage)
      BY <1>1, SeqNone DEF StorePart, Store
    <3>3. cliEnd[k] # "none"
      BY <2>3, LinkInvIs DEF WireInv
    <3> HIDE DEF o
    <3>4. n \in NetState /\ n.conn = k /\ n.pc = "target"
      BY <3>2 DEF Idle, NetState
    <3> HIDE DEF n
    <3>5. NetBusy(c, n, owner, cliEnd)
      BY <3>3, <3>4, <1>2 DEF NetBusy
    <3>6. beats' \in 0..MaxHeartbeats
      BY <3>1, <1>4, ClientAssumption
    <3>7. QED
      BY <2>1, <2>2, <3>1, <3>4, <3>5, <3>6, <1>1, <1>4, NetTurns DEF wireVars
  <2>4. CASE status[k] # "Active"
    <3>1. timer' = timer \ {k} /\ UNCHANGED <<net, beats>>
      BY <1>7, <2>4 DEF TimerFires
    <3>2. QED
      BY <2>1, <2>2, <3>1, <1>1, <1>3, <1>4, NetTurns, IdleIs DEF wireVars
  <2>5. QED
    BY <2>3, <2>4
<1>8. CASE WriteFailed(c, k)
  BY <1>1, <1>2, <1>3, <1>4, <1>8, NetCloses, IdleIs DEF WriteFailed
<1>9. QED
  BY <1>5, <1>6, <1>7, <1>8

LEMMA NetHandlesQuiet ==
  ASSUME LinkInv, NEW c \in Clients,
         \/ NetReadExpected(c) \/ NetTooLow(c) \/ NetReadSender(c) \/ NetHandle(c)
         \/ NetLogout(c) \/ NetReadTarget(c)
  PROVE  QuietKept
<1>1. /\ WireTypeOK /\ ClientParts
      /\ OwnerPart /\ StorePart /\ UiPart /\ NetPart /\ RestPart
  BY LinkInvIs, ClientPartsAre DEF Kept, ClientParts
<1>2. /\ net[c] \in NetState /\ NetBusy(c, net[c], owner, cliEnd)
      /\ timer \subseteq Conn /\ reading \subseteq Conn /\ failed \subseteq Conn
      /\ beats \in 0..MaxHeartbeats /\ handled \in [Conn -> Seq(DownType)]
  BY <1>1 DEF NetPart, RestPart
<1>3. PICK k : k = net[c].conn
  OBVIOUS
<1>4. k \in Conn /\ owner[k] = c /\ cliEnd[k] # "none"
  BY <1>2, <1>3 DEF NetBusy, NetReadExpected, NetTooLow, NetReadSender, NetHandle, NetLogout,
                    NetReadTarget
<1>5. mem[k].in \in Nat /\ mem[k].out \in Nat
  BY <1>1, <1>4 DEF StorePart, Store
<1>6. ASSUME NEW n \in NetState, net' = [net EXCEPT ![c] = n], n.conn = net[c].conn,
             n.buf = net[c].buf,
             n.pc \in {"expected", "sender", "set"} =>
               net[c].pc \in {"expected", "sender", "set"},
             UNCHANGED <<wireVars, owner, current, status, mem, file, ui, reading, timer, failed,
                         beats, refs, written, handled>>
      PROVE  QuietKept
  <2>1. WireTypeOK'
    BY <1>1, <1>6, WireStays
  <2>2. NetBusy(c, n, owner, cliEnd)
    BY <1>2, <1>3, <1>4, <1>6 DEF NetBusy
  <2>3. QED
    BY <2>1, <2>2, <1>1, <1>2, <1>6, NetTurns DEF wireVars
<1>7. ASSUME NEW p \in {"sender", "write"}, net' = [net EXCEPT ![c].pc = p, ![c].in = mem[k].in],
             p = "sender" => net[c].pc = "expected",
             UNCHANGED <<wireVars, owner, current, status, mem, file, ui, reading, timer, failed,
                         beats, refs, written, handled>>
      PROVE  QuietKept
  <2> DEFINE i == mem[k].in
             n == [net[c] EXCEPT !.pc = p, !.in = i]
  <2>1. net' = [net EXCEPT ![c] = n]
    BY <1>1, <1>7 DEF NetPart
  <2>2. i \in Nat
    BY <1>5
  <2> HIDE DEF i
  <2>3. n \in NetState /\ n.conn = net[c].conn /\ n.buf = net[c].buf /\ n.pc = p
    BY <2>2, <1>2 DEF NetState
  <2> HIDE DEF n
  <2>4. QED
    BY <2>1, <2>3, <1>6, <1>7
<1>8. CASE NetReadExpected(c)
  BY <1>3, <1>7, <1>8 DEF NetReadExpected
<1>9. CASE NetReadTarget(c)
  BY <1>3, <1>7, <1>9 DEF NetReadTarget
<1>10. CASE NetReadSender(c)
  <2> DEFINE o == mem[k].out
             n == [net[c] EXCEPT !.pc = "set", !.out = o]
  <2>1. net' = [net EXCEPT ![c] = n] /\ net[c].pc = "sender"
    BY <1>1, <1>3, <1>10 DEF NetPart, NetReadSender
  <2>2. o \in Nat
    BY <1>5
  <2> HIDE DEF o
  <2>3. n \in NetState /\ n.conn = net[c].conn /\ n.buf = net[c].buf
    BY <2>2, <1>2 DEF NetState
  <2> HIDE DEF n
  <2>4. QED
    BY <2>1, <2>3, <1>6, <1>10 DEF NetReadSender
<1>11. CASE NetTooLow(c)
  <2>1. NetDone(c) \in NetState /\ NetBusy(c, NetDone(c), owner, cliEnd)
    BY <1>1, <1>11, NetDoneIs DEF NetTooLow
  <2>2. QED
    BY <2>1, <1>1, <1>2, <1>3, <1>4, <1>11, NetCloses DEF NetTooLow
<1>12. CASE NetLogout(c)
  <2>1. NetDone(c) \in NetState /\ NetBusy(c, NetDone(c), owner, cliEnd)
    BY <1>1, <1>12, NetDoneIs DEF NetLogout
  <2>2. Append(handled[k], "Logout") \in Seq(DownType)
    BY <1>2, <1>4, SeqAppended DEF DownType
  <2>3. handled' = [handled EXCEPT ![k] = Append(handled[k], "Logout")]
    BY <1>3, <1>12 DEF NetLogout
  <2>4. handled' \in [Conn -> Seq(DownType)]
    BY <2>2, <2>3, <1>2
  <2>5. QED
    BY <2>1, <2>4, <1>1, <1>2, <1>3, <1>4, <1>12, NetCloses DEF NetLogout
<1>13. CASE NetHandle(c)
  <2> DEFINE m == Head(net[c].buf)
  <2>1. /\ NetDone(c) \in NetState /\ NetBusy(c, NetDone(c), owner, cliEnd)
        /\ m \in DownMessage /\ net[c].out \in Nat
    BY <1>1, <1>13, NetDoneIs DEF NetHandle
  <2>2. /\ setSeqNums(k, m.seq + 1, net[c].out)
        /\ handled' = [handled EXCEPT ![k] = Append(handled[k], m.type)]
        /\ status' \in {status, [status EXCEPT ![k] = "Active"]}
        /\ timer' \in {timer, timer \cup {k}}
        /\ net' = [net EXCEPT ![c] = NetDone(c)]
        /\ UNCHANGED <<wireVars, owner, current, ui, reading, failed, beats, refs, written>>
    BY <1>3, <1>13 DEF NetHandle
  <2> HIDE DEF m
  <2>3. m.seq + 1 \in Nat /\ m.type \in DownType
    BY <2>1 DEF DownMessage
  <2>4. WireTypeOK' /\ Grows /\ \A j \in Conn : Socket(j)
    BY <2>2, <1>1, WireStays, SocketsSame DEF wireVars
  <2>5. OwnerPart' /\ UiPart'
    BY <2>2, <2>4, <1>1, ClientPartsStay, ThreadsStay
  <2>6. StorePart'
    BY <2>1, <2>2, <2>3, <1>1, <1>4, NumbersSet
  <2>7. NetPart'
    BY <2>1, <2>2, <2>4, <1>1, NetSet, BusyStays
  <2>8. Append(handled[k], m.type) \in Seq(DownType)
    BY <2>3, <1>2, <1>4, SeqAppended
  <2>9. RestPart'
    <3>1. handled' \in [Conn -> Seq(DownType)]
      BY <2>2, <2>8, <1>2
    <3>2. status' \in [Conn -> FixClientState]
      BY <2>2, <1>1 DEF RestPart, FixClientState
    <3>3. QED
      BY <2>2, <3>1, <3>2, <1>1, <1>4 DEF RestPart
  <2>10. \A j \in Conn : Status(j)
    BY <2>2, <1>1, <1>4 DEF Status, RestPart
  <2>11. QuietStep
    BY <2>2, <2>4, <2>10, UiSame DEF QuietStep, wireVars
  <2>12. QED
    BY <2>4, <2>5, <2>6, <2>7, <2>9, <2>11 DEF QuietKept, ClientParts
<1>14. QED
  BY <1>8, <1>9, <1>10, <1>11, <1>12, <1>13

-----------------------------------------------------------------------------
(* A client writes.                                                         *)

(* t is s with the message m behind it.                                     *)
Pushed(t, s, m) ==
  /\ t \in Seq(UpMessage) /\ Len(s) \in Nat
  /\ \A i \in NewOrders(s) : i \in NewOrders(t) /\ t[i] = s[i] /\ i < Len(s) + 1
  /\ \A i \in NewOrders(t) : \/ i \in NewOrders(s) /\ t[i] = s[i]
                             \/ i = Len(s) + 1 /\ t[i] = m /\ m.type = "NewOrder"
  /\ \A j \in DOMAIN t : \/ j \in DOMAIN s /\ t[j] = s[j] /\ j \in Nat /\ j < Len(s) + 1
                         \/ j = Len(s) + 1 /\ t[j] = m
  /\ m.type = "NewOrder" => Len(s) + 1 \in NewOrders(t) /\ t[Len(s) + 1] = m
  /\ \A i \in NewOrders(s) : i \in Nat /\ s[i].ref \in Nat

LEMMA Behind ==
  ASSUME NEW s \in Seq(UpMessage), NEW m \in UpMessage, NEW t, t = Append(s, m)
  PROVE  Pushed(t, s, m)
<1>1. /\ t \in Seq(UpMessage) /\ Len(s) \in Nat /\ DOMAIN s = 1..Len(s)
      /\ DOMAIN t = DOMAIN s \cup {Len(s) + 1} /\ Len(s) + 1 \notin DOMAIN s
      /\ \A i \in DOMAIN s : t[i] = s[i] /\ i < Len(s) + 1
      /\ t[Len(s) + 1] = m
  BY SeqAppended
<1>2. \A i \in NewOrders(s) : i \in Nat /\ i \in DOMAIN s /\ s[i].ref \in Nat
  BY OrderRefs
<1>3. QED
  BY <1>1, <1>2 DEF NewOrders, Pushed

LEMMA OtherAppended ==
  ASSUME NEW s \in Seq(UpMessage), NEW m \in UpMessage, NEW t, Pushed(t, s, m),
         NEW done \in Seq(Ref), NEW sent \in Seq(Ref),
         m.type # "NewOrder", m.type = "Logon" => sent = << >>,
         LogonFirst(s), Continues(s, done, sent), AllIn(s, done, sent)
  PROVE  LogonFirst(t) /\ Continues(t, done, sent) /\ AllIn(t, done, sent)
<1>1. /\ \A i \in NewOrders(s) : i \in NewOrders(t) /\ t[i] = s[i] /\ i < Len(s) + 1
      /\ \A i \in NewOrders(t) : i \in NewOrders(s) /\ t[i] = s[i]
      /\ \A j \in DOMAIN t : \/ j \in DOMAIN s /\ t[j] = s[j]
                             \/ j = Len(s) + 1 /\ t[j] = m
  BY DEF Pushed
<1>2. Continues(t, done, sent)
  <2>1. NewOrders(t) = NewOrders(s) /\ \A i \in NewOrders(s) : t[i] = s[i]
    BY <1>1
  <2>2. QED
    BY <2>1 DEF Continues
<1>3. AllIn(t, done, sent)
  BY <1>1 DEF AllIn
<1>4. LogonFirst(t)
  <2>1. CASE m.type = "Logon"
    <3>1. NewOrders(s) = {}
      BY <2>1, SeqNone DEF Continues
    <3>2. QED
      BY <3>1, <1>1 DEF LogonFirst
  <2>2. CASE m.type # "Logon"
    BY <2>2, <1>1 DEF LogonFirst
  <2>3. QED
    BY <2>1, <2>2
<1>5. QED
  BY <1>2, <1>3, <1>4

(* q is sent with r behind it.                                              *)
Grown(q, sent, r) ==
  /\ q \in Seq(Ref) /\ Len(sent) \in Nat /\ Len(q) = Len(sent) + 1
  /\ Len(q) \in DOMAIN q /\ q[Len(q)] = r
  /\ \A n \in DOMAIN sent : n \in DOMAIN q /\ q[n] = sent[n]
  /\ \A n \in DOMAIN q : \/ n \in DOMAIN sent /\ q[n] = sent[n]
                         \/ n = Len(q) /\ q[n] = r
  /\ \A n \in DOMAIN sent : n \in Nat /\ n <= Len(sent) /\ sent[n] \in Nat
  /\ r \in Nat

LEMMA SentAppended ==
  ASSUME NEW sent \in Seq(Ref), NEW r \in Ref, NEW q, q = Append(sent, r)
  PROVE  Grown(q, sent, r)
<1>1. /\ q \in Seq(Ref) /\ Len(sent) \in Nat /\ DOMAIN sent = 1..Len(sent)
      /\ DOMAIN q = DOMAIN sent \cup {Len(sent) + 1} /\ Len(q) = Len(sent) + 1
      /\ \A i \in DOMAIN sent : q[i] = sent[i]
      /\ q[Len(sent) + 1] = r
  BY SeqAppended
<1>2. \A n \in DOMAIN sent : sent[n] \in Nat /\ n \in Nat
  BY SentRefs
<1>3. r \in Nat
  BY WireAssumption DEF Ref
<1>4. QED
  BY <1>1, <1>2, <1>3 DEF Grown

LEMMA OrderAppended ==
  ASSUME NEW s \in Seq(UpMessage), NEW m \in UpMessage, NEW t, Pushed(t, s, m),
         NEW done \in Seq(Ref), NEW sent \in Seq(Ref), NEW q, Grown(q, sent, m.ref),
         m.type = "NewOrder", Len(done) <= Len(sent), \A n \in DOMAIN sent : sent[n] < m.ref,
         LogonFirst(s), Continues(s, done, sent), AllIn(s, done, sent)
  PROVE  LogonFirst(t) /\ Continues(t, done, q) /\ AllIn(t, done, q)
<1>0. m.ref \in Ref /\ Len(done) \in Nat
  BY UpMessageIs, SentRefs
<1> DEFINE e == Len(s) + 1
           f == Len(q)
<1>1. /\ \A i \in NewOrders(s) : i \in NewOrders(t) /\ t[i] = s[i] /\ i < e
      /\ \A i \in NewOrders(t) : \/ i \in NewOrders(s) /\ t[i] = s[i]
                                 \/ i = e /\ t[i] = m
      /\ \A j \in DOMAIN t : \/ j \in DOMAIN s /\ t[j] = s[j] /\ j \in Nat /\ j < e
                             \/ j = e /\ t[j] = m
      /\ e \in NewOrders(t) /\ t[e] = m /\ e \in Nat
      /\ \A i \in NewOrders(s) : i \in Nat /\ s[i].ref \in Nat
  BY DEF Pushed
<1>2. /\ f \in DOMAIN q /\ q[f] = m.ref /\ f \in Nat /\ f = Len(sent) + 1 /\ Len(sent) \in Nat
      /\ \A n \in DOMAIN sent : n \in DOMAIN q /\ q[n] = sent[n]
      /\ \A n \in DOMAIN q : \/ n \in DOMAIN sent /\ q[n] = sent[n]
                             \/ n = f /\ q[n] = m.ref
      /\ \A n \in DOMAIN sent : n \in Nat /\ sent[n] \in Nat
      /\ m.ref \in Nat
  BY DEF Grown
<1> HIDE DEF e, f
<1>3. LogonFirst(t)
  BY <1>1 DEF LogonFirst
<1>4. AllIn(t, done, q)
  <2>1. ASSUME NEW n \in DOMAIN q, n > Len(done)
        PROVE  \E i \in NewOrders(t) : t[i].ref = q[n]
    <3>1. CASE n \in DOMAIN sent /\ q[n] = sent[n]
      <4>1. PICK i \in NewOrders(s) : s[i].ref = sent[n]
        BY <2>1, <3>1 DEF AllIn
      <4>2. QED
        BY <4>1, <3>1, <1>1
    <3>2. CASE n = f /\ q[n] = m.ref
      BY <3>2, <1>1
    <3>3. QED
      BY <3>1, <3>2, <1>2
  <2>2. QED
    BY <2>1 DEF AllIn
<1>5. \A i \in NewOrders(s) : \E n \in DOMAIN sent : n > Len(done) /\ sent[n] = s[i].ref
  BY DEF Continues
<1>6. \A i \in NewOrders(t) : \E n \in DOMAIN q : n > Len(done) /\ q[n] = t[i].ref
  <2>1. ASSUME NEW i \in NewOrders(t)
        PROVE  \E n \in DOMAIN q : n > Len(done) /\ q[n] = t[i].ref
    <3>1. CASE i \in NewOrders(s) /\ t[i] = s[i]
      BY <3>1, <1>2, <1>5
    <3>2. CASE i = e /\ t[i] = m
      <4>1. f > Len(done)
        BY <1>0, <1>2
      <4>2. QED
        BY <3>2, <4>1, <1>2
    <3>3. QED
      BY <3>1, <3>2, <1>1
  <2>2. QED
    BY <2>1
<1>7. \A i, j \in NewOrders(t) : i < j => t[i].ref < t[j].ref
  <2>1. ASSUME NEW i \in NewOrders(t), NEW j \in NewOrders(t), i < j
        PROVE  t[i].ref < t[j].ref
    <3>0. /\ (j \in NewOrders(s) /\ j \in Nat /\ j < e) \/ j = e
          /\ (i \in NewOrders(s) /\ t[i] = s[i]) \/ i = e
      BY <1>1
    <3>1. i \in NewOrders(s) /\ t[i] = s[i]
      BY <2>1, <3>0, <1>1
    <3>2. CASE j \in NewOrders(s) /\ t[j] = s[j]
      BY <2>1, <3>1, <3>2 DEF Continues
    <3>3. CASE j = e /\ t[j] = m
      BY <3>1, <3>3, <1>5
    <3>4. QED
      BY <3>2, <3>3, <1>1
  <2>2. QED
    BY <2>1
<1>8. Continues(t, done, q)
  BY <1>4, <1>6, <1>7 DEF Continues, AllIn
<1>9. QED
  BY <1>3, <1>4, <1>8

(* An order that the connection does not carry any more.                    *)
LEMMA OrderLost ==
  ASSUME NEW s \in Seq(UpMessage), NEW done \in Seq(Ref), NEW sent \in Seq(Ref), NEW r \in Ref,
         NEW q, Grown(q, sent, r), \A n \in DOMAIN sent : sent[n] < r,
         Continues(s, done, sent)
  PROVE  Continues(s, done, q)
<1>1. /\ \A n \in DOMAIN sent : n \in DOMAIN q /\ q[n] = sent[n]
      /\ \A n \in DOMAIN q : \/ n \in DOMAIN sent /\ q[n] = sent[n]
                             \/ q[n] = r
      /\ \A n \in DOMAIN sent : sent[n] \in Nat
      /\ r \in Nat
  BY DEF Grown
<1>2. \A i \in NewOrders(s) : \E n \in DOMAIN sent : n > Len(done) /\ sent[n] = s[i].ref
  BY DEF Continues
<1>3. \A i \in NewOrders(s) : s[i].ref < r /\ s[i].ref \in Nat
  BY <1>1, <1>2
<1>4. ASSUME NEW i \in NewOrders(s), NEW n \in DOMAIN q, n > Len(done), q[n] <= s[i].ref
      PROVE  \E j \in NewOrders(s) : s[j].ref = q[n]
  <2>1. q[n] # r
    BY <1>1, <1>3, <1>4
  <2>2. n \in DOMAIN sent /\ q[n] = sent[n]
    BY <2>1, <1>1
  <2>3. QED
    BY <2>2, <1>4 DEF Continues
<1>5. \A i \in NewOrders(s) : \E n \in DOMAIN q : n > Len(done) /\ q[n] = s[i].ref
  BY <1>1, <1>2
<1>6. QED
  BY <1>4, <1>5 DEF Continues

PushedBehind(a, b, x) == Append(a \o b, x) = a \o Append(b, x)

LEMMA SeqPushed ==
  ASSUME NEW S, NEW a \in Seq(S), NEW b \in Seq(S), NEW x \in S
  PROVE  PushedBehind(a, b, x)
BY DEF PushedBehind

LEMMA InFlightGrows ==
  ASSUME Lines, NEW k \in Conn, NEW m \in UpMessage, UNCHANGED io, up'[k] = Append(up[k], m)
  PROVE  InFlight(k)' = Append(InFlight(k), m)
<1>1. up[k] \in Seq(UpMessage) /\ io.buf \in Seq(UpMessage) /\ << >> \in Seq(UpMessage)
  BY SeqNone DEF Lines, WireTypeOK, IoPart, IoState
<1>2. PICK a \in Seq(UpMessage) : InFlight(k) = a \o up[k] /\ InFlight(k)' = a \o up'[k]
  BY <1>1 DEF InFlight
<1>3. PushedBehind(a, up[k], m)
  BY <1>1, SeqPushed
<1>4. QED
  BY <1>2, <1>3 DEF PushedBehind

(* The written orders grow by one that is above them all.                   *)
LEMMA OrdersGrow ==
  ASSUME NEW done \in Seq(Ref), NEW sent \in Seq(Ref), NEW r \in Ref, NEW q, Grown(q, sent, r),
         \A n \in DOMAIN sent : sent[n] < r,
         Len(done) <= Len(sent), \A i \in DOMAIN done : done[i] = sent[i],
         \A m, n \in DOMAIN sent : m < n => sent[m] < sent[n]
  PROVE  /\ Len(done) <= Len(q) /\ \A i \in DOMAIN done : done[i] = q[i]
         /\ \A m, n \in DOMAIN q : m < n => q[m] < q[n]
<1> DEFINE f == Len(q)
<1>1. /\ Len(done) \in Nat /\ DOMAIN done = 1..Len(done) /\ DOMAIN sent = 1..Len(sent)
  BY SentRefs
<1>2. /\ f = Len(sent) + 1 /\ Len(sent) \in Nat /\ q[f] = r
      /\ \A n \in DOMAIN sent : q[n] = sent[n] /\ n \in Nat /\ n < f
      /\ \A n \in DOMAIN q : \/ n \in DOMAIN sent /\ q[n] = sent[n]
                             \/ n = f
  BY DEF Grown
<1> HIDE DEF f
<1>3. Len(done) <= f /\ \A i \in DOMAIN done : i \in DOMAIN sent
  BY <1>1, <1>2
<1>4. ASSUME NEW m \in DOMAIN q, NEW n \in DOMAIN q, m < n
      PROVE  q[m] < q[n]
  <2>1. m \in DOMAIN sent
    BY <1>2, <1>4
  <2>2. CASE n \in DOMAIN sent
    BY <2>1, <2>2, <1>2, <1>4
  <2>3. CASE n = f
    BY <2>1, <2>3, <1>2
  <2>4. QED
    BY <2>2, <2>3, <1>2
<1>5. QED
  BY <1>2, <1>3, <1>4 DEF f

(* What a client writes on k, and whether k carries it.                     *)
WritesOn(k, m) ==
  /\ m.type = "Logon" => written[k] = << >>
  /\ m.type = "NewOrder" => /\ written'[k] = Append(written[k], m.ref)
                            /\ \A n \in DOMAIN written[k] : written[k][n] < m.ref
  /\ m.type # "NewOrder" => written'[k] = written[k]
  /\ cliEnd'[k] = cliEnd[k]
  /\ \/ up'[k] = up[k] /\ ~Carries(k)
     \/ up'[k] = Append(up[k], m) /\ Carries(k)

LEMMA LineWritten ==
  ASSUME Lines, OrdersInLine, UNCHANGED <<serverVars, srvEnd, broken>>, NEW k \in Conn,
         NEW m \in UpMessage, WritesOn(k, m)
  PROVE  InLine(k)'
<1> USE DEF serverVars, tableVars, coreVars, marketVars
<1> DEFINE s == InFlight(k)
           done == executed[k]
           sent == written[k]
<1>1. s \in Seq(UpMessage) /\ done \in Seq(Ref) /\ sent \in Seq(Ref)
  BY InFlightIs DEF Lines, CorePart
<1>2. /\ Len(done) <= Len(sent) /\ \A i \in DOMAIN done : done[i] = sent[i]
      /\ \A a, b \in DOMAIN sent : a < b => sent[a] < sent[b]
      /\ LogonFirst(s) /\ (Refused(k) \/ Continues(s, done, sent))
      /\ Carries(k) => AllIn(s, done, sent)
  BY DEF OrdersInLine, InLine
<1>3. Carries(k)' => Carries(k)
  BY DEF Carries, WritesOn
<1>4. Carries(k) => ~Refused(k)
  BY DEF Carries, Refused
<1>5. CASE m.type # "NewOrder" /\ up'[k] = up[k]
  BY <1>3, <1>5, ClientLines DEF WritesOn
<1>6. CASE m.type # "NewOrder" /\ up'[k] = Append(up[k], m) /\ Carries(k)
  <2> DEFINE t == InFlight(k)'
  <2>1. t = Append(s, m)
    BY <1>6, InFlightGrows
  <2>2. Pushed(t, s, m)
    BY <2>1, <1>1, Behind
  <2>3. written'[k] = sent /\ executed'[k] = done
    BY <1>6 DEF WritesOn
  <2>4. m.type = "Logon" => sent = << >>
    BY DEF WritesOn
  <2> HIDE DEF s, t, done, sent
  <2>5. LogonFirst(t) /\ Continues(t, done, sent) /\ AllIn(t, done, sent)
    BY <2>2, <2>4, <1>1, <1>2, <1>4, <1>6, OtherAppended
  <2>6. QED
    BY <2>3, <2>5, <1>2 DEF InLine, t
<1>7. CASE m.type = "NewOrder"
  <2> DEFINE r == m.ref
             q == written'[k]
             t == InFlight(k)'
  <2>1. r \in Ref /\ q = Append(sent, r) /\ \A n \in DOMAIN sent : sent[n] < r
    BY <1>7, UpMessageIs DEF WritesOn
  <2>2. Grown(q, sent, r)
    BY <2>1, <1>1, SentAppended
  <2>3. executed'[k] = done
    OBVIOUS
  <2>4. CASE up'[k] = Append(up[k], m) /\ Carries(k)
    <3>1. t = Append(s, m)
      BY <2>4, InFlightGrows
    <3>2. Pushed(t, s, m)
      BY <3>1, <1>1, Behind
    <3> HIDE DEF s, t, done, sent, q
    <3>3. LogonFirst(t) /\ Continues(t, done, q) /\ AllIn(t, done, q)
      BY <2>1, <2>2, <2>4, <3>2, <1>1, <1>2, <1>4, <1>7, OrderAppended DEF r
    <3>4. /\ Len(done) <= Len(q) /\ \A i \in DOMAIN done : done[i] = q[i]
          /\ \A a, b \in DOMAIN q : a < b => q[a] < q[b]
      BY <2>1, <2>2, <1>1, <1>2, OrdersGrow
    <3>5. QED
      BY <2>3, <3>3, <3>4 DEF InLine, t, q
  <2>5. CASE up'[k] = up[k] /\ ~Carries(k)
    <3>1. t = s /\ LoggedOn(k)' = LoggedOn(k)
      BY <2>5 DEF InFlight, LoggedOn
    <3>2. Refused(k) => Refused(k)'
      BY <3>1 DEF Refused
    <3> HIDE DEF s, t, done, sent, q, r
    <3>3. Continues(s, done, sent) => Continues(s, done, q)
      BY <2>1, <2>2, <1>1, OrderLost
    <3>4. /\ Len(done) <= Len(q) /\ \A i \in DOMAIN done : done[i] = q[i]
          /\ \A a, b \in DOMAIN q : a < b => q[a] < q[b]
      BY <2>1, <2>2, <1>1, <1>2, OrdersGrow
    <3>5. QED
      BY <2>3, <2>5, <3>1, <3>2, <3>3, <3>4, <1>2, <1>3 DEF InLine, t, q
  <2>6. QED
    BY <2>4, <2>5 DEF WritesOn
<1>8. QED
  BY <1>5, <1>6, <1>7 DEF WritesOn

(* A step of a client that writes m on k.                                   *)
WriteStep(k, m) ==
  /\ WritesOn(k, m) /\ cliEnd[k] # "none"
  /\ UNCHANGED <<srvEnd, broken, refs>>
  /\ UNCHANGED <<cliEnd, status>>
  /\ \A j \in Conn : j # k => up'[j] = up[j] /\ written'[j] = written[j]
  /\ m.type = "NewOrder" => status[k] # "Connected" /\ m.ref <= refs
  /\ \A c \in Clients : InSend(ui'[c]) =>
       UiGoesOn(c) /\ (m.type = "NewOrder" => ui[c].conn # k)

LEMMA WriteKeeps ==
  ASSUME LinkInv, UNCHANGED serverVars, NEW k \in Conn, NEW m \in UpMessage, WriteStep(k, m)
  PROVE  WireInv' /\ RefsInv' /\ OrdersInLine'
<1> USE DEF serverVars, tableVars, coreVars, marketVars
<1>1. /\ ClientParts /\ WireTypeOK /\ IoPart /\ WireInv /\ RefsInv /\ OrdersInLine
  BY LinkInvIs, ClientPartsAre DEF Kept, GatewayParts
<1>2. Lines /\ written \in [Conn -> Seq(Ref)]
  BY <1>1, LinkInvIs DEF Lines, Kept, GatewayParts, ClientTypeOK
<1>3. OrdersInLine'
  <2>1. ASSUME NEW j \in Conn PROVE InLine(j)'
    <3>1. CASE j = k
      BY <3>1, <1>1, <1>2, LineWritten DEF WriteStep
    <3>2. CASE j # k
      <4>1. Carries(j)' => Carries(j)
        BY DEF Carries, WriteStep
      <4>2. QED
        BY <3>2, <4>1, <1>1, ClientLines DEF WriteStep
    <3>3. QED
      BY <3>1, <3>2
  <2>2. QED
    BY <2>1 DEF OrdersInLine
<1>4. ASSUME NEW j \in Conn, j # k \/ m.type # "NewOrder" PROVE written'[j] = written[j]
  BY <1>4 DEF WriteStep, WritesOn
<1>5. WireInv'
  <2>1. io'.pc # "idle" => cliEnd'[io'.conn] # "none"
    BY <1>1 DEF WireInv, WriteStep, IoPart
  <2>2. ASSUME NEW j \in Conn
        PROVE  /\ cliEnd'[j] = "none" =>
                    /\ status'[j] \in {"Disconnected", "Connecting"}
                    /\ written'[j] = << >> /\ up'[j] = << >>
               /\ srvEnd'[j] = "none" => cliEnd'[j] = "none"
               /\ srvEnd'[j] = "closed" => up'[j] = << >>
               /\ status'[j] = "Connected" => written'[j] = << >>
    <3>1. CASE j # k
      BY <3>1, <1>1 DEF WireInv, WriteStep
    <3>2. CASE j = k
      <4>1. /\ cliEnd[j] # "none" /\ cliEnd'[j] # "none" /\ srvEnd'[j] = srvEnd[j]
            /\ srvEnd[j] = "closed" => up'[j] = up[j]
            /\ m.type = "NewOrder" => status'[j] # "Connected"
            /\ m.type # "NewOrder" => written'[j] = written[j]
            /\ status'[j] = "Connected" => status[j] = "Connected"
        BY <3>2 DEF WriteStep, WritesOn, Carries
      <4>2. QED
        BY <4>1, <1>1 DEF WireInv
    <3>3. QED
      BY <3>1, <3>2
  <2>3. ASSUME NEW c \in Clients, InSend(ui'[c])
        PROVE  /\ Head(ui'[c].buf).type = "Logon" => written'[ui'[c].conn] = << >>
               /\ Head(ui'[c].buf).type = "NewOrder" => status'[ui'[c].conn] # "Connected"
    <3>1. /\ InSend(ui[c]) /\ ui[c].conn \in Conn
          /\ ui'[c].conn = ui[c].conn /\ Head(ui'[c].buf).type = Head(ui[c].buf).type
          /\ Head(ui'[c].buf).ref = Head(ui[c].buf).ref
          /\ ui[c].conn # k \/ m.type # "NewOrder"
      BY <2>3, <1>1 DEF WriteStep, UiGoesOn, InSend, ClientParts, UiPart, UiBusy
    <3>2. /\ Head(ui[c].buf).type = "Logon" => written[ui[c].conn] = << >>
          /\ Head(ui[c].buf).type = "NewOrder" => status[ui[c].conn] # "Connected"
      BY <3>1, <1>1 DEF WireInv, InSend
    <3>3. written'[ui[c].conn] = written[ui[c].conn]
      BY <3>1, <1>4
    <3>4. QED
      BY <3>1, <3>2, <3>3 DEF WriteStep
  <2>4. QED
    BY <2>1, <2>2, <2>3 DEF WireInv, InSend
<1>6. RefsInv'
  <2>1. refs' = refs
    BY DEF WriteStep
  <2>2. ASSUME NEW j \in Conn, NEW n \in DOMAIN written'[j] PROVE written'[j][n] <= refs'
    <3>1. CASE j # k \/ m.type # "NewOrder"
      BY <3>1, <2>1, <2>2, <1>1, <1>4 DEF RefsInv
    <3>2. CASE j = k /\ m.type = "NewOrder"
      <4>1. written'[j] = Append(written[j], m.ref) /\ m.ref <= refs
        BY <3>2 DEF WriteStep, WritesOn
      <4>2. m.ref \in Ref /\ written[j] \in Seq(Ref)
        BY <3>2, <1>2, UpMessageIs
      <4>3. Grown(written'[j], written[j], m.ref)
        BY <4>1, <4>2, SentAppended
      <4>4. \/ n \in DOMAIN written[j] /\ written'[j][n] = written[j][n]
            \/ written'[j][n] = m.ref
        BY <4>3, <2>2 DEF Grown
      <4>5. QED
        BY <4>1, <4>4, <2>1, <1>1 DEF RefsInv
    <3>3. QED
      BY <3>1, <3>2
  <2>3. ASSUME NEW c \in Clients, InSend(ui'[c]), Head(ui'[c].buf).type = "NewOrder"
        PROVE  /\ Head(ui'[c].buf).ref <= refs'
               /\ \A n \in DOMAIN written'[ui'[c].conn] :
                    written'[ui'[c].conn][n] < Head(ui'[c].buf).ref
    <3>1. /\ InSend(ui[c]) /\ ui[c].conn \in Conn
          /\ ui'[c].conn = ui[c].conn /\ Head(ui'[c].buf).type = Head(ui[c].buf).type
          /\ Head(ui'[c].buf).ref = Head(ui[c].buf).ref
          /\ ui[c].conn # k \/ m.type # "NewOrder"
      BY <2>3, <1>1 DEF WriteStep, UiGoesOn, InSend, ClientParts, UiPart, UiBusy
    <3>2. written'[ui[c].conn] = written[ui[c].conn]
      BY <3>1, <1>4
    <3>3. QED
      BY <2>1, <2>3, <3>1, <3>2, <1>1 DEF RefsInv, InSend
  <2>4. QED
    BY <2>2, <2>3 DEF RefsInv, InSend
<1>7. QED
  BY <1>3, <1>5, <1>6

LEMMA BeatWrites ==
  ASSUME LinkInv, NEW c \in Clients, NetBeat(c)
  PROVE  /\ WireTypeOK' /\ ClientParts'
         /\ \E k \in Conn, m \in UpMessage : WriteStep(k, m)
<1>1. /\ WireTypeOK /\ ClientParts
      /\ OwnerPart /\ StorePart /\ UiPart /\ NetPart /\ RestPart
  BY LinkInvIs, ClientPartsAre DEF Kept, ClientParts
<1>2. /\ net[c].pc = "write" /\ net' = [net EXCEPT ![c] = Idle]
      /\ setSeqNums(net[c].conn, net[c].in, net[c].out + 1)
      /\ doWrite(net[c].conn, Message(c, "Heartbeat", net[c].out, 0))
      /\ UNCHANGED <<down, cliEnd, srvEnd, broken, owner, current, status, ui, reading, timer,
                     beats, refs, written, handled>>
  BY DEF NetBeat
<1>3. PICK k \in Conn : k = net[c].conn /\ cliEnd[k] # "none"
  BY <1>1, <1>2 DEF NetPart, NetBusy
<1>4. net[c].in \in Nat /\ net[c].out \in Nat
  BY <1>1 DEF NetPart, NetState
<1>5. PICK m \in UpMessage : doWrite(k, m) /\ m.type = "Heartbeat"
  <2> DEFINE m == Message(c, "Heartbeat", net[c].out, 0)
  <2>1. m \in UpMessage /\ m.type = "Heartbeat"
    BY <1>4 DEF Message, UpMessage, UpType
  <2>2. QED
    BY <2>1, <1>2, <1>3
<1>6. /\ WireTypeOK' /\ Grows /\ failed' \subseteq Conn
      /\ \/ up' = up
         \/ /\ cliEnd[k] = "open" /\ srvEnd[k] # "closed" /\ k \notin broken
            /\ up' = [up EXCEPT ![k] = Append(@, m)]
      /\ Carries(k) /\ cliEnd[k] # "none" => up' = [up EXCEPT ![k] = Append(@, m)]
  BY <1>1, <1>2, <1>5, Writes
<1>7. OwnerPart' /\ UiPart' /\ StorePart'
  BY <1>1, <1>2, <1>3, <1>4, <1>6, ClientPartsStay, ThreadsStay, NumbersSet
<1>8. NetPart'
  BY <1>1, <1>2, <1>6, NetSet, IdleIs
<1>9. RestPart'
  BY <1>1, <1>2, <1>6 DEF RestPart
<1>10. WritesOn(k, m)
  BY <1>1, <1>2, <1>3, <1>5, <1>6 DEF WritesOn, Carries, WireTypeOK
<1>11. WriteStep(k, m)
  <2>1. \A j \in Conn : j # k => up'[j] = up[j]
    BY <1>1, <1>6 DEF WireTypeOK
  <2>2. QED
    BY <2>1, <1>2, <1>3, <1>5, <1>6, <1>10, UiSame DEF WriteStep
<1>12. QED
  BY <1>6, <1>7, <1>8, <1>9, <1>11 DEF ClientParts

LEMMA SendWrites ==
  ASSUME LinkInv, NEW c \in Clients, UiWrite(c)
  PROVE  /\ WireTypeOK' /\ ClientParts'
         /\ \E k \in Conn, m \in UpMessage : WriteStep(k, m)
<1>1. /\ WireTypeOK /\ ClientParts /\ WireInv /\ RefsInv
      /\ OwnerPart /\ StorePart /\ UiPart /\ NetPart /\ RestPart
  BY LinkInvIs, ClientPartsAre DEF Kept, ClientParts
<1>2. /\ ui[c] \in UiState /\ ui[c].pc = "set" /\ ui[c].buf # << >>
      /\ ui[c].conn \in Conn /\ owner[ui[c].conn] = c /\ cliEnd[ui[c].conn] # "none"
  BY <1>1 DEF UiWrite, UiPart, UiBusy
<1>3. PICK k \in Conn : k = ui[c].conn
  BY <1>2
<1>4. Head(ui[c].buf) \in UpMessage /\ ui[c].in \in Nat
  BY <1>2, SeqTaken DEF UiState
<1>5. PICK m \in UpMessage : m = Head(ui[c].buf)
  BY <1>4
<1>6. /\ setSeqNums(k, ui[c].in, m.seq + 1) /\ doWrite(k, m)
      /\ m.type = "NewOrder" => written' = [written EXCEPT ![k] = Append(written[k], m.ref)]
      /\ m.type # "NewOrder" => written' = written
      /\ \/ ui' = [ui EXCEPT ![c] = Idle]
         \/ ui' = [ui EXCEPT ![c] = [ui[c] EXCEPT !.pc = "after"]]
      /\ UNCHANGED <<down, cliEnd, srvEnd, broken, owner, current, status, net, reading, timer,
                     beats, refs, handled>>
  BY <1>3, <1>5 DEF UiWrite
<1>7. /\ WireTypeOK' /\ Grows /\ failed' \subseteq Conn
      /\ \/ up' = up
         \/ /\ cliEnd[k] = "open" /\ srvEnd[k] # "closed" /\ k \notin broken
            /\ up' = [up EXCEPT ![k] = Append(@, m)]
      /\ Carries(k) /\ cliEnd[k] # "none" => up' = [up EXCEPT ![k] = Append(@, m)]
  BY <1>1, <1>6, Writes
<1>8. m.seq + 1 \in Nat /\ (m.type = "NewOrder" => m.ref \in Ref)
  BY UpMessageIs
<1>9. OwnerPart' /\ NetPart' /\ StorePart'
  BY <1>1, <1>4, <1>6, <1>7, <1>8, ClientPartsStay, ThreadsStay, NumbersSet
<1>10. PICK u \in UiState : /\ ui' = [ui EXCEPT ![c] = u] /\ ~InSend(u)
                            /\ UiBusy(c, u, owner', cliEnd')
  <2>1. CASE ui' = [ui EXCEPT ![c] = Idle]
    BY <2>1, IdleIs DEF InSend
  <2>2. CASE ui' = [ui EXCEPT ![c] = [ui[c] EXCEPT !.pc = "after"]]
    <3> DEFINE u == [ui[c] EXCEPT !.pc = "after"]
    <3>1. u \in UiState /\ u.pc = "after" /\ u.conn = ui[c].conn /\ u.buf = ui[c].buf
      BY <1>2 DEF UiState
    <3> HIDE DEF u
    <3>2. cliEnd'[k] # "none"
      BY <1>2, <1>3, <1>6
    <3>3. UiBusy(c, u, owner', cliEnd')
      BY <3>1, <3>2, <1>2, <1>3, <1>6 DEF UiBusy
    <3>4. QED
      BY <2>2, <3>1, <3>3 DEF InSend, u
  <2>3. QED
    BY <2>1, <2>2, <1>6
<1>11. UiPart'
  BY <1>1, <1>7, <1>10, UiSet
<1>12. written' \in [Conn -> Seq(Ref)] /\ \A j \in Conn : j # k => written'[j] = written[j]
  <2>1. written \in [Conn -> Seq(Ref)]
    BY <1>1 DEF RestPart
  <2>2. CASE m.type = "NewOrder"
    <3>1. Append(written[k], m.ref) \in Seq(Ref)
      BY <2>1, <2>2, <1>8, SeqAppended
    <3>2. QED
      BY <2>1, <2>2, <3>1, <1>6
  <2>3. CASE m.type # "NewOrder"
    BY <2>1, <2>3, <1>6
  <2>4. QED
    BY <2>2, <2>3
<1>13. RestPart'
  BY <1>1, <1>6, <1>7, <1>12 DEF RestPart
<1>14. /\ m.type = "Logon" => written[k] = << >>
       /\ m.type = "NewOrder" => /\ status[k] # "Connected" /\ m.ref <= refs
                                 /\ \A n \in DOMAIN written[k] : written[k][n] < m.ref
  BY <1>1, <1>2, <1>3, <1>5 DEF WireInv, RefsInv
<1>15. WritesOn(k, m)
  <2>1. m.type = "NewOrder" => written'[k] = Append(written[k], m.ref)
    BY <1>1, <1>6 DEF RestPart
  <2>2. \/ up'[k] = up[k] /\ ~Carries(k)
        \/ up'[k] = Append(up[k], m) /\ Carries(k)
    BY <1>1, <1>2, <1>3, <1>7 DEF Carries, WireTypeOK
  <2>3. QED
    BY <2>1, <2>2, <1>6, <1>7, <1>14 DEF WritesOn
<1>16. WriteStep(k, m)
  <2>1. \A j \in Conn : j # k => up'[j] = up[j]
    BY <1>1, <1>7 DEF WireTypeOK
  <2>2. ASSUME NEW d \in Clients, InSend(ui'[d])
        PROVE  UiGoesOn(d) /\ ui[d].conn # k
    <3>1. d # c /\ ui'[d] = ui[d]
      BY <2>2, <1>1, <1>10 DEF UiPart
    <3>2. owner[ui[d].conn] = d
      BY <2>2, <3>1, <1>1 DEF UiPart, UiBusy, InSend
    <3>3. QED
      BY <2>2, <3>1, <3>2, <1>2, <1>3 DEF UiGoesOn
  <2>3. QED
    BY <2>1, <2>2, <1>2, <1>3, <1>6, <1>7, <1>12, <1>14, <1>15 DEF WriteStep
<1>17. QED
  BY <1>7, <1>9, <1>11, <1>13, <1>16 DEF ClientParts

-----------------------------------------------------------------------------
(* A connection comes about, or does not, or breaks.                        *)

LEMMA ConnectsParts ==
  ASSUME LinkInv, NEW c \in Clients, NEW k \in Conn, Connected(c, k) \/ ConnectFails(c, k)
  PROVE  WireTypeOK' /\ ClientParts'
<1>1. /\ WireTypeOK /\ ClientParts
      /\ OwnerPart /\ StorePart /\ UiPart /\ NetPart /\ RestPart
  BY LinkInvIs, ClientPartsAre DEF Kept, ClientParts
<1>2. /\ UNCHANGED <<up, down, broken, owner, current, mem, file, ui, net, timer, failed, beats,
                     refs, written, handled>>
      /\ reading' \subseteq reading \cup {k}
      /\ \/ /\ cliEnd' = [cliEnd EXCEPT ![k] = "open"] /\ srvEnd' = [srvEnd EXCEPT ![k] = "pending"]
            /\ status' = [status EXCEPT ![k] = "Connected"]
         \/ /\ cliEnd' = [cliEnd EXCEPT ![k] = "closed"] /\ srvEnd' = [srvEnd EXCEPT ![k] = "closed"]
            /\ status' = [status EXCEPT ![k] = "Disconnected"]
  BY DEF Connected, ConnectFails
<1>3. WireTypeOK' /\ Grows
  BY <1>1, <1>2 DEF WireTypeOK, Grows
<1>4. OwnerPart' /\ StorePart' /\ UiPart' /\ NetPart'
  BY <1>1, <1>2, <1>3, ClientPartsStay, ThreadsStay
<1>5. RestPart'
  BY <1>1, <1>2 DEF RestPart, FixClientState
<1>6. QED
  BY <1>3, <1>4, <1>5 DEF ClientParts

LEMMA ConnectsKeeps ==
  ASSUME LinkInv, UNCHANGED serverVars, NEW c \in Clients, NEW k \in Conn,
         Connected(c, k) \/ ConnectFails(c, k)
  PROVE  WireInv' /\ RefsInv' /\ OrdersInLine'
<1> USE DEF serverVars, tableVars, coreVars, marketVars
<1>1. /\ ClientParts /\ WireTypeOK /\ IoPart /\ WireInv /\ RefsInv /\ OrdersInLine
      /\ WireTypeOK' /\ ClientParts'
  BY LinkInvIs, ClientPartsAre, ConnectsParts DEF Kept, GatewayParts
<1>2. Lines /\ IoPart'
  BY <1>1, LinkInvIs DEF Lines, Kept, GatewayParts, ClientTypeOK, IoPart
<1>3. /\ UNCHANGED <<up, ui, refs, written, broken>>
      /\ cliEnd[k] = "none" /\ cliEnd'[k] \in {"open", "closed"}
      /\ srvEnd'[k] \in {"pending", "closed"}
      /\ \A j \in Conn : j # k => /\ cliEnd'[j] = cliEnd[j] /\ srvEnd'[j] = srvEnd[j]
                                  /\ status'[j] = status[j]
  BY <1>1 DEF Connected, ConnectFails, WireTypeOK, ClientParts, RestPart
<1>4. /\ written[k] = << >> /\ up[k] = << >> /\ ~(io.pc # "idle" /\ io.conn = k)
  BY <1>1, <1>3 DEF WireInv
<1>5. InFlight(k) = << >> /\ InFlight(k)' = << >>
  BY <1>1, <1>2, <1>3, <1>4, InFlightIs, InFlightNextIs
<1>6. InLine(k)'
  <2>1. executed'[k] = executed[k] /\ written'[k] = << >>
    BY <1>3, <1>4
  <2>2. AllIn(<< >>, executed[k], << >>)
    BY SeqNone DEF AllIn
  <2>3. InLine(k)
    BY <1>1 DEF OrdersInLine
  <2>4. QED
    BY <2>1, <2>2, <2>3, <1>4, <1>5, NothingInFlight DEF InLine
<1>7. OrdersInLine'
  <2>1. ASSUME NEW j \in Conn, j # k PROVE InLine(j)'
    <3>1. Carries(j)' => Carries(j)
      BY <2>1, <1>3 DEF Carries
    <3>2. QED
      BY <2>1, <3>1, <1>1, <1>3, ClientLines
  <2>2. QED
    BY <2>1, <1>6 DEF OrdersInLine
<1>8. ASSUME NEW d \in Clients, InSend(ui[d]) PROVE ui[d].conn \in Conn /\ ui[d].conn # k
  BY <1>1, <1>3, <1>8 DEF InSend, ClientParts, UiPart, UiBusy
<1>9. WireInv'
  <2>1. io'.pc # "idle" => cliEnd'[io'.conn] # "none"
    BY <1>1, <1>3, <1>4 DEF WireInv, IoPart
  <2>2. ASSUME NEW j \in Conn
        PROVE  /\ cliEnd'[j] = "none" =>
                    /\ status'[j] \in {"Disconnected", "Connecting"}
                    /\ written'[j] = << >> /\ up'[j] = << >>
               /\ srvEnd'[j] = "none" => cliEnd'[j] = "none"
               /\ srvEnd'[j] = "closed" => up'[j] = << >>
               /\ status'[j] = "Connected" => written'[j] = << >>
    <3>1. CASE j = k
      BY <3>1, <1>3, <1>4
    <3>2. CASE j # k
      BY <3>2, <1>1, <1>3 DEF WireInv
    <3>3. QED
      BY <3>1, <3>2
  <2>3. ASSUME NEW d \in Clients, InSend(ui'[d])
        PROVE  /\ Head(ui'[d].buf).type = "Logon" => written'[ui'[d].conn] = << >>
               /\ Head(ui'[d].buf).type = "NewOrder" => status'[ui'[d].conn] # "Connected"
    BY <2>3, <1>1, <1>3, <1>8 DEF WireInv, InSend
  <2>4. QED
    BY <2>1, <2>2, <2>3 DEF WireInv, InSend
<1>10. RefsInv'
  BY <1>1, <1>3 DEF RefsInv
<1>11. QED
  BY <1>7, <1>9, <1>10

LEMMA BreakKeeps ==
  ASSUME LinkInv, UNCHANGED <<serverVars, clientVars>>, NEW k \in Conn, Break(k)
  PROVE  LinkInv'
<1> USE DEF serverVars, tableVars, coreVars, marketVars, clientVars
<1>1. /\ Kept /\ ClientParts /\ WireTypeOK /\ IoPart /\ WireInv /\ RefsInv /\ OrdersInLine
      /\ ClientTypeOK /\ ClientThreads
  BY LinkInvIs, ClientPartsAre DEF Kept, GatewayParts
<1>2. /\ broken' = broken \cup {k} /\ up' = [up EXCEPT ![k] = << >>]
      /\ down' = [down EXCEPT ![k] = << >>] /\ UNCHANGED <<cliEnd, srvEnd>>
  BY DEF Break
<1>3. WireTypeOK'
  BY <1>1, <1>2, SeqNone DEF WireTypeOK
<1>4. Kept'
  BY <1>1, <1>3, GatewayStays
<1>5. ClientTypeOK' /\ ClientThreads' /\ RefsInv'
  BY <1>1, <1>2 DEF ClientTypeOK, ClientThreads, RefsInv
<1>6. \A j \in Conn : up'[j] = << >> \/ up'[j] = up[j]
  BY <1>1, <1>2 DEF WireTypeOK
<1>7. WireInv'
  BY <1>1, <1>2, <1>6 DEF WireInv
<1>8. Lines /\ IoPart'
  BY <1>1 DEF Lines, Kept, GatewayParts, ClientTypeOK, IoPart
<1>9. InLine(k)'
  <2> DEFINE s == InFlight(k)
             t == InFlight(k)'
  <2>1. s \in Seq(UpMessage) /\ t \in Seq(UpMessage)
    BY <1>1, <1>3, <1>8, InFlightIs, InFlightNextIs
  <2>2. up'[k] = << >> /\ ~Carries(k)' /\ SameOrders(k) /\ InLine(k)
    BY <1>1, <1>2 DEF WireTypeOK, Carries, SameOrders, OrdersInLine
  <2>3. Begins(t, s)
    <3>1. CASE ~(io.pc # "idle" /\ io.conn = k)
      <4>1. t = << >>
        BY <3>1, <2>2, <1>3, <1>8, InFlightNextIs
      <4>2. QED
        BY <4>1, <2>1, EmptyBegins
    <3>2. CASE io.pc # "idle" /\ io.conn = k
      <4>0. t = io'.buf \o up'[k]
        BY <3>2, <1>3, <1>8, InFlightNextIs
      <4>1. s = io.buf \o up[k]
        BY <3>2, <1>1, InFlightIs
      <4>2. io.buf \in Seq(UpMessage) /\ up[k] \in Seq(UpMessage)
        BY <1>1 DEF IoPart, IoState, WireTypeOK
      <4>3. t = io.buf
        <5>1. \A b \in Seq(UpMessage) : b \o << >> = b
          BY ConcatEmptySeq
        <5>2. io.buf \o << >> = io.buf
          BY <5>1, <4>2
        <5>3. io'.buf = io.buf
          OBVIOUS
        <5>4. QED
          BY <5>2, <5>3, <4>0, <2>2
      <4>4. QED
        BY <4>1, <4>2, <4>3, JoinBegins
    <3>3. QED
      BY <3>1, <3>2
  <2>4. LoggedOn(k)' = LoggedOn(k)
    BY DEF LoggedOn
  <2>5. Refused(k) => Refused(k)'
    <3>1. Refused(k) => \A i \in DOMAIN s : s[i].type # "Logon"
      BY DEF Refused
    <3>2. Refused(k) => \A i \in DOMAIN t : t[i].type # "Logon"
      BY <2>3, <3>1, NoLogonInFront
    <3>3. QED
      BY <3>2, <2>4, <1>2 DEF Refused
  <2>6. LogonFirst(s) /\ (Refused(k)' \/ Continues(s, executed[k], written[k]))
    BY <2>2, <2>5 DEF InLine
  <2>7. QED
    BY <2>2, <2>3, <2>6, <1>8, LineCut
<1>10. OrdersInLine'
  <2>1. ASSUME NEW j \in Conn, j # k PROVE InLine(j)'
    <3>1. Carries(j)' => Carries(j)
      BY <2>1, <1>2 DEF Carries
    <3>2. up'[j] = up[j]
      BY <2>1, <1>1, <1>2 DEF WireTypeOK
    <3>3. QED
      BY <2>1, <3>1, <3>2, <1>1, <1>2, ClientLines
  <2>2. QED
    BY <2>1, <1>9 DEF OrdersInLine
<1>11. QED
  BY <1>4, <1>5, <1>7, <1>10, LinkInvNextIs

-----------------------------------------------------------------------------
(* The link.                                                                *)

LEMMA ClientStep ==
  ASSUME LinkInv, ClientNext, UNCHANGED serverVars
  PROVE  LinkInv'
<1>1. PICK c \in Clients : UiStep(c) \/ NetStep(c)
  BY DEF ClientNext
<1>2. WireTypeOK' /\ ClientParts' /\ WireInv' /\ RefsInv' /\ OrdersInLine'
  <2>1. CASE \/ \E k \in Conn : Connect(c, k)
             \/ ForceDisconnect(c)
             \/ \E forceReset \in BOOLEAN : sendLogon(c, forceReset)
             \/ sendLogout(c)
             \/ \E type \in AppTypes : sendMessage(c, type)
    BY <2>1, ButtonsQuiet, QuietKeeps DEF QuietKept
  <2>2. CASE UiReadSender(c) \/ UiReadTarget(c) \/ UiAfter(c)
    BY <2>2, SendsQuiet, QuietKeeps DEF QuietKept
  <2>3. CASE UiWrite(c)
    BY <2>3, SendWrites, WriteKeeps
  <2>4. CASE \E k \in Conn : NetReceive(c, k) \/ NetReadError(c, k) \/ WriteFailed(c, k)
                           \/ TimerFires(c, k)
    BY <2>4, NetReadsQuiet, QuietKeeps DEF QuietKept
  <2>5. CASE \E k \in Conn : Connected(c, k) \/ ConnectFails(c, k)
    BY <2>5, ConnectsParts, ConnectsKeeps
  <2>6. CASE \/ NetReadExpected(c) \/ NetTooLow(c) \/ NetReadSender(c) \/ NetHandle(c)
             \/ NetLogout(c) \/ NetReadTarget(c)
    BY <2>6, NetHandlesQuiet, QuietKeeps DEF QuietKept
  <2>7. CASE NetBeat(c)
    BY <2>7, BeatWrites, WriteKeeps
  <2>8. QED
    BY <1>1, <2>1, <2>2, <2>3, <2>4, <2>5, <2>6, <2>7 DEF UiStep, UiSends, NetStep
<1>3. Kept'
  BY <1>2, LinkInvIs, GatewayStays
<1>4. QED
  BY <1>2, <1>3, ClientPartsNextAre, LinkInvNextIs

LEMMA LinkStep ==
  ASSUME LinkInv, [LinkNext]_linkVars
  PROVE  LinkInv'
<1>1. CASE ServerNext /\ UNCHANGED clientVars
  BY <1>1, GatewayStep
<1>2. CASE ClientNext /\ UNCHANGED serverVars
  BY <1>2, ClientStep
<1>3. CASE (\E k \in Conn : Break(k)) /\ UNCHANGED <<serverVars, clientVars>>
  BY <1>3, BreakKeeps
<1>4. CASE UNCHANGED linkVars
  <2>1. UNCHANGED <<wireVars, serverVars, clientVars>>
    BY <1>4 DEF linkVars
  <2>2. QuietStep
    BY <2>1, UiSame, SocketsSame, StatusSame DEF QuietStep, wireVars, clientVars
  <2>3. WireInv' /\ RefsInv' /\ OrdersInLine'
    BY <2>1, <2>2, QuietKeeps
  <2>4. WireTypeOK'
    BY <2>1, LinkInvIs, WireStays DEF Kept
  <2>5. Kept'
    BY <2>1, <2>4, LinkInvIs, GatewayStays
  <2>6. ClientTypeOK' /\ ClientThreads'
    BY <2>1, LinkInvIs DEF ClientTypeOK, ClientThreads, wireVars, clientVars
  <2>7. QED
    BY <2>3, <2>5, <2>6, LinkInvNextIs
<1>5. QED
  BY <1>1, <1>2, <1>3, <1>4 DEF LinkNext

LEMMA LinkStarts ==
  ASSUME LinkInit
  PROVE  LinkInv
<1>1. WireInit /\ ServerInit /\ ClientInit
  BY DEF LinkInit
<1>2. WireTypeOK
  BY <1>1, SeqNone DEF WireInit, WireTypeOK
<1>3. IoPart
  <2>1. IdleIo \in IoState /\ IdleIo.pc = "idle"
    BY SeqNone DEF IdleIo, IoState
  <2>2. QED
    BY <2>1, <1>1 DEF IoPart, ServerInit
<1>4. SendPart
  <2>1. NotSending \in Sending
    BY SeqNone DEF NotSending, Sending
  <2>2. QED
    BY <2>1, <1>1 DEF SendPart, ServerInit
<1>5. SessionPart
  BY <1>1 DEF SessionPart, ServerInit
<1>6. NoState \in SessionState /\ ~NoState.known
  BY DEF NoState, SessionState
<1>7. NumberPart
  <2>1. NoTask \in SeqTask
    BY DEF NoTask, SeqTask
  <2>2. <<NoTask>> \in Seq(SeqTask)
    BY <2>1, SeqSingle
  <2>3. [in |-> 0, out |-> 1] \in Seqs
    BY DEF Seqs
  <2>4. QED
    BY <2>2, <2>3, <1>1, <1>6 DEF NumberPart, ServerInit
<1>8. TrailMatches
  BY <1>1, <1>6 DEF TrailMatches, ServerInit
<1>9. CorePart
  <2>1. << >> \in Seq(Command) /\ << >> \in Seq(Ref)
    BY SeqNone
  <2>2. [status |-> "unknown", session |-> 0] \in Core
    BY DEF Core
  <2>3. QED
    BY <2>1, <2>2, <1>1, ServerAssumption DEF CorePart, ServerInit
<1>10. Kept
  BY <1>1, <1>2, <1>3, <1>4, <1>5, <1>7, <1>8, <1>9, ServerAssumption
     DEF Kept, GatewayParts, ServerInit
<1>11. ClientParts
  <2>1. Fresh \in Store /\ << >> \in Seq(Ref) /\ << >> \in Seq(DownType)
    BY SeqNone DEF Fresh, Store
  <2>2. OwnerPart /\ StorePart
    BY <2>1, <1>1 DEF ClientInit, OwnerPart, StorePart
  <2>3. UiPart /\ NetPart
    BY <1>1, IdleIs DEF ClientInit, UiPart, NetPart
  <2>4. RestPart
    BY <2>1, <1>1, WireAssumption, ClientAssumption DEF ClientInit, RestPart, FixClientState
  <2>5. QED
    BY <2>2, <2>3, <2>4 DEF ClientParts
<1>12. \A c \in Clients : ui[c].pc = "idle"
  BY <1>1, IdleIs DEF ClientInit
<1>13. io.pc = "idle"
  BY <1>1 DEF ServerInit, IdleIo
<1>14. WireInv
  BY <1>1, <1>12, <1>13 DEF WireInv, WireInit, ClientInit
<1>15. RefsInv
  <2>1. \A k \in Conn : DOMAIN written[k] = {}
    BY <1>1, SeqNone DEF ClientInit
  <2>2. QED
    BY <2>1, <1>12 DEF RefsInv
<1>16. OrdersInLine
  <2>1. ASSUME NEW k \in Conn PROVE InLine(k)
    <3>1. executed[k] = << >> /\ written[k] = << >> /\ up[k] = << >>
      BY <1>1 DEF ServerInit, ClientInit, WireInit
    <3>2. InFlight(k) = << >>
      BY <3>1, <1>2, <1>3, <1>13, InFlightIs
    <3>3. DOMAIN << >> = {} /\ Len(<< >>) = 0
      BY SeqNone
    <3>4. AllIn(<< >>, << >>, << >>)
      BY <3>3 DEF AllIn
    <3>5. QED
      BY <3>1, <3>2, <3>3, <3>4, NothingInFlight DEF InLine
  <2>2. QED
    BY <2>1 DEF OrdersInLine
<1>17. QED
  BY <1>10, <1>11, <1>14, <1>15, <1>16, ClientPartsAre, LinkInvIs

(* The orders of every connection stay in line, through the client's two    *)
(* threads, its replaced session objects, the gateway's threads and its     *)
(* restarts, and breaking connections.                                      *)
THEOREM LinkInvariant == LinkSpec => []LinkInv
<1>1. LinkInit => LinkInv
  BY LinkStarts
<1>2. LinkInv /\ [LinkNext]_linkVars => LinkInv'
  BY LinkStep
<1>3. QED
  BY <1>1, <1>2, PTL DEF LinkSpec

(* Every variable of the link keeps its type.                               *)
THEOREM LinkTypes == LinkSpec => []LinkTypeOK
<1>1. LinkInv => LinkTypeOK
  BY DEF LinkInv
<1>2. QED
  BY <1>1, LinkInvariant, PTL

(* FixSessionManager queues its updates of the sequence table in the order  *)
(* it changes its numbers: the table ends where memory is.                  *)
THEOREM TrailFollows == LinkSpec => []TrailMatches
<1>1. LinkInv => TrailMatches
  BY DEF LinkInv
<1>2. QED
  BY <1>1, LinkInvariant, PTL

(* FixSession executes new orders once and in the order the client wrote    *)
(* them, although it ignores what validateSequence returns.                 *)
THEOREM OrdersExecutedInOrder == LinkSpec => []ExecutedInOrder
<1>1. LinkInv => ExecutedInOrder
  <2>1. ASSUME LinkInv, NEW k \in Conn
        PROVE  /\ Len(executed[k]) <= Len(written[k])
               /\ executed[k] = SubSeq(written[k], 1, Len(executed[k]))
    <3> DEFINE done == executed[k]
               sent == written[k]
               front == SubSeq(sent, 1, Len(done))
    <3>1. done \in Seq(Ref) /\ sent \in Seq(Ref)
      BY <2>1 DEF LinkInv, LinkTypeOK, ServerTypeOK, ClientTypeOK
    <3>2. Len(done) <= Len(sent) /\ \A i \in DOMAIN done : done[i] = sent[i]
      BY <2>1 DEF LinkInv, OrdersInLine, InLine
    <3> HIDE DEF done, sent
    <3>3. /\ Len(done) \in Nat /\ DOMAIN done = 1..Len(done) /\ Len(sent) \in Nat
          /\ \A i \in 1..Len(sent) : sent[i] \in Ref
      BY <3>1, SentRefs
    <3>4. \A i \in 1..Len(done) : sent[i] \in Ref
      BY <3>2, <3>3
    <3>5. /\ front \in Seq(Ref) /\ Len(front) = Len(done)
          /\ \A i \in 1..Len(done) : front[i] = sent[i]
      <4>1. /\ front \in Seq(Ref)
            /\ Len(front) = IF 1 <= Len(done) THEN Len(done) - 1 + 1 ELSE 0
            /\ \A i \in 1..(Len(done) - 1 + 1) : front[i] = sent[1 + i - 1]
        BY <3>1, <3>3, <3>4, SubSeqProperties
      <4> HIDE DEF front
      <4>2. Len(front) = Len(done)
        BY <4>1, <3>3
      <4>3. \A i \in 1..Len(done) : 1 + i - 1 = i /\ i \in 1..(Len(done) - 1 + 1)
        BY <3>3
      <4>4. QED
        BY <4>1, <4>2, <4>3
    <3> HIDE DEF front
    <3>6. done = front
      BY <3>1, <3>2, <3>3, <3>5, SeqEqual
    <3>7. QED
      BY <3>2, <3>6 DEF done, sent, front
  <2>2. QED
    BY <2>1 DEF ExecutedInOrder
<1>2. QED
  BY <1>1, LinkInvariant, PTL

-----------------------------------------------------------------------------
(* The numbers a client meets: sequences of messages to the client.         *)

(* t is a front of s.                                                       *)
FrontOf(t, s) == DOMAIN t \subseteq DOMAIN s /\ \A i \in DOMAIN t : t[i] = s[i]

(* Every message of t is one of s.                                          *)
Within(t, s) == \A i \in DOMAIN t : \E j \in DOMAIN s : t[i] = s[j]

LEMMA DownMessageIs ==
  ASSUME NEW m \in DownMessage
  PROVE  m.type \in DownType /\ m.seq \in Nat
BY DEF DownMessage

LEMMA RisingLess ==
  ASSUME NEW s \in Seq(DownMessage), NEW n \in Nat, NEW e \in Nat, n <= e, Rising(s, e)
  PROVE  Rising(s, n)
<1>1. \A i \in DOMAIN s : s[i].seq \in Nat
  BY SeqElements, DownMessageIs
<1>2. QED
  BY <1>1 DEF Rising

LEMMA FrontRises ==
  ASSUME NEW s \in Seq(DownMessage), NEW t \in Seq(DownMessage), FrontOf(t, s), NEW n \in Nat
  PROVE  Within(t, s) /\ (Rising(s, n) => Rising(t, n)) /\ (LogoutIn(t) => LogoutIn(s))
<1>1. /\ DOMAIN s = 1..Len(s) /\ DOMAIN t = 1..Len(t) /\ Len(t) \in Nat /\ Len(s) \in Nat
      /\ \A i \in DOMAIN t : i \in DOMAIN s /\ t[i] = s[i]
  BY SeqElements DEF FrontOf
<1>2. ASSUME Rising(s, n), NEW j \in DOMAIN t, \A i \in 1..j : t[i].type # "Logout"
      PROVE  n <= t[j].seq /\ \A i \in 1..(j - 1) : t[i].seq < t[j].seq
  <2>1. \A i \in 1..j : i \in DOMAIN t /\ s[i] = t[i]
    BY <1>1
  <2>2. j \in DOMAIN s /\ \A i \in 1..j : s[i].type # "Logout"
    BY <1>1, <1>2, <2>1
  <2>3. n <= s[j].seq /\ \A i \in 1..(j - 1) : s[i].seq < s[j].seq
    BY <1>2, <2>2 DEF Rising
  <2>4. QED
    BY <1>1, <2>1, <2>3
<1>3. QED
  BY <1>1, <1>2 DEF Rising, Within, LogoutIn

(* The client takes the first message, which is no Logout.                  *)
LEMMA TailRises ==
  ASSUME NEW s \in Seq(DownMessage), s # << >>, NEW n \in Nat
  PROVE  /\ Tail(s) \in Seq(DownMessage) /\ Within(Tail(s), s)
         /\ \E j \in DOMAIN s : Head(s) = s[j]
         /\ Head(s).type # "Logout" /\ Rising(s, n) =>
              Rising(Tail(s), n) /\ Rising(Tail(s), Head(s).seq + 1)
         /\ Head(s).type # "Logout" /\ Rising(s, n) => n <= Head(s).seq
         /\ Head(s).type # "Logout" /\ LogoutIn(s) => LogoutIn(Tail(s))
<1> DEFINE t == Tail(s)
           h == Head(s)
<1>1. /\ h \in DownMessage /\ t \in Seq(DownMessage)
      /\ 1 \in DOMAIN s /\ h = s[1] /\ Len(s) \in Nat /\ Len(s) >= 1
      /\ DOMAIN s = 1..Len(s) /\ DOMAIN t = 1..(Len(s) - 1)
      /\ \A i \in 1..(Len(s) - 1) : t[i] = s[i + 1]
  BY SeqTaken
<1>2. \A i \in DOMAIN s : s[i].seq \in Nat
  BY SeqElements, DownMessageIs
<1> HIDE DEF t, h
<1>3. Within(t, s)
  BY <1>1 DEF Within
<1>4. ASSUME h.type # "Logout", Rising(s, n), NEW j \in DOMAIN t,
             \A i \in 1..j : t[i].type # "Logout"
      PROVE  /\ n <= t[j].seq /\ h.seq + 1 <= t[j].seq
             /\ \A i \in 1..(j - 1) : t[i].seq < t[j].seq
  <2>1. j + 1 \in DOMAIN s /\ t[j] = s[j + 1] /\ j \in Nat
    BY <1>1
  <2>2. ASSUME NEW i \in 1..(j + 1) PROVE s[i].type # "Logout"
    <3>1. CASE i = 1
      BY <3>1, <1>1, <1>4
    <3>2. CASE i # 1
      <4>1. i - 1 \in 1..j /\ i - 1 \in 1..(Len(s) - 1) /\ (i - 1) + 1 = i
        BY <3>2, <1>1, <2>1
      <4>2. QED
        BY <4>1, <1>1, <1>4
    <3>3. QED
      BY <3>1, <3>2
  <2>3. n <= s[j + 1].seq /\ \A i \in 1..j : s[i].seq < s[j + 1].seq
    BY <2>1, <2>2, <1>4 DEF Rising
  <2>4. s[1].seq < s[j + 1].seq
    BY <2>1, <2>3, <1>1
  <2>5. ASSUME NEW i \in 1..(j - 1) PROVE t[i].seq < t[j].seq
    <3>1. i + 1 \in 1..j /\ t[i] = s[i + 1]
      BY <1>1, <2>1
    <3>2. QED
      BY <3>1, <2>1, <2>3
  <2>6. s[1].seq \in Nat /\ s[j + 1].seq \in Nat
    BY <2>1, <1>1, <1>2
  <2>7. h.seq + 1 <= t[j].seq
    BY <2>1, <2>4, <2>6, <1>1
  <2>8. QED
    BY <2>1, <2>3, <2>5, <2>7
<1>5. h.type # "Logout" /\ Rising(s, n) => Rising(t, n) /\ Rising(t, h.seq + 1)
  BY <1>4 DEF Rising
<1>6. h.type # "Logout" /\ Rising(s, n) => n <= h.seq
  BY <1>1 DEF Rising
<1>7. ASSUME h.type # "Logout", LogoutIn(s) PROVE LogoutIn(t)
  <2>1. PICK i \in DOMAIN s : s[i].type = "Logout"
    BY <1>7 DEF LogoutIn
  <2>2. i # 1 /\ i - 1 \in DOMAIN t /\ t[i - 1] = s[i]
    BY <2>1, <1>1, <1>7
  <2>3. QED
    BY <2>1, <2>2 DEF LogoutIn
<1>8. QED
  BY <1>1, <1>3, <1>5, <1>6, <1>7 DEF t, h

(* A message is written behind the others.                                  *)
LEMMA AppendRises ==
  ASSUME NEW s \in Seq(DownMessage), NEW m \in DownMessage, NEW n \in Nat, Rising(s, n),
         m.type # "Logout" =>
           LogoutIn(s) \/ (n <= m.seq /\ \A i \in DOMAIN s : s[i].seq < m.seq)
  PROVE  Rising(Append(s, m), n)
<1> DEFINE t == Append(s, m)
<1>1. /\ t \in Seq(DownMessage) /\ Len(s) \in Nat /\ DOMAIN s = 1..Len(s)
      /\ DOMAIN t = DOMAIN s \cup {Len(s) + 1}
      /\ \A i \in DOMAIN s : t[i] = s[i]
      /\ t[Len(s) + 1] = m
  BY SeqAppended
<1> HIDE DEF t
<1>2. ASSUME NEW j \in DOMAIN t, \A i \in 1..j : t[i].type # "Logout"
      PROVE  n <= t[j].seq /\ \A i \in 1..(j - 1) : t[i].seq < t[j].seq
  <2>1. CASE j \in DOMAIN s
    <3>1. \A i \in 1..j : i \in DOMAIN s /\ t[i] = s[i]
      BY <2>1, <1>1
    <3>2. n <= s[j].seq /\ \A i \in 1..(j - 1) : s[i].seq < s[j].seq
      BY <2>1, <3>1, <1>2 DEF Rising
    <3>3. QED
      BY <3>1, <3>2, <2>1, <1>1
  <2>2. CASE j = Len(s) + 1
    <3>1. \A i \in DOMAIN s : i \in 1..j /\ t[i] = s[i]
      BY <2>2, <1>1
    <3>2. m.type # "Logout" /\ ~LogoutIn(s)
      BY <3>1, <2>2, <1>1, <1>2 DEF LogoutIn
    <3>3. \A i \in 1..(j - 1) : i \in DOMAIN s
      BY <2>2, <1>1
    <3>4. QED
      BY <3>1, <3>2, <3>3, <2>2, <1>1
  <2>3. QED
    BY <2>1, <2>2, <1>1
<1>3. QED
  BY <1>2 DEF Rising, t

LEMMA LogoutAppended ==
  ASSUME NEW s \in Seq(DownMessage), NEW m \in DownMessage
  PROVE  LogoutIn(Append(s, m)) <=> LogoutIn(s) \/ m.type = "Logout"
<1>1. /\ DOMAIN Append(s, m) = DOMAIN s \cup {Len(s) + 1}
      /\ \A i \in DOMAIN s : Append(s, m)[i] = s[i]
      /\ Append(s, m)[Len(s) + 1] = m
  BY SeqAppended
<1>2. QED
  BY <1>1 DEF LogoutIn

-----------------------------------------------------------------------------
(* The numbers a client meets: what the types say of them.                  *)

MeetTypes ==
  /\ \A c \in Clients : state[c].out \in Nat
  /\ \A k \in Conn : /\ owner[k] \in Clients \cup {NoClient}
                     /\ ToRead(k) \in Seq(DownMessage) /\ Expected(k) \subseteq Nat
  /\ io.pc = "write" => Head(io.reply) \in DownMessage
  /\ io.pc # "idle" => io.conn \in Conn
  /\ \A t \in Workers : sending[t] # NotSending =>
       sending[t].conn \in Conn /\ Head(sending[t].message) \in DownMessage

LEMMA MeetTypesAre == LinkInv => MeetTypes
<1> SUFFICES ASSUME LinkInv PROVE MeetTypes
  OBVIOUS
<1>1. /\ WireTypeOK /\ ClientParts /\ NumberPart /\ IoPart /\ SendPart
      /\ OwnerPart /\ StorePart /\ UiPart /\ NetPart
  BY LinkInvIs, ClientPartsAre DEF Kept, GatewayParts, ClientParts
<1>2. \A c \in Clients : state[c].out \in Nat
  BY <1>1 DEF NumberPart, SessionState
<1>3. ASSUME NEW k \in Conn
      PROVE  /\ owner[k] \in Clients \cup {NoClient}
             /\ ToRead(k) \in Seq(DownMessage) /\ Expected(k) \subseteq Nat
  <2>1. owner[k] \in Clients \cup {NoClient} /\ down[k] \in Seq(DownMessage)
    BY <1>1 DEF OwnerPart, WireTypeOK
  <2>2. \A c \in Clients : net[c].buf \in Seq(DownMessage) /\ net[c].in \in Nat /\ ui[c].in \in Nat
    BY <1>1 DEF NetPart, NetState, UiPart, UiState
  <2>3. << >> \in Seq(DownMessage)
    BY SeqNone
  <2>4. PICK a \in Seq(DownMessage) : ToRead(k) = a \o down[k]
    BY <2>2, <2>3 DEF ToRead, Reads
  <2>5. ToRead(k) \in Seq(DownMessage)
    BY <2>1, <2>4, SeqJoined
  <2>6. Expected(k) \subseteq Nat
    BY <2>2, <1>1 DEF Expected, StorePart, Store
  <2>7. QED
    BY <2>1, <2>5, <2>6
<1>4. io.pc = "write" => Head(io.reply) \in DownMessage
  BY <1>1, SeqTaken DEF IoPart, IoState
<1>5. ASSUME NEW t \in Workers, sending[t] # NotSending
      PROVE  sending[t].conn \in Conn /\ Head(sending[t].message) \in DownMessage
  <2>1. sending[t].conn \in Conn /\ sending[t].message # << >>
        /\ sending[t].message \in Seq(DownMessage)
    BY <1>1, <1>5 DEF SendPart, Sending
  <2>2. QED
    BY <2>1, SeqTaken
<1>6. io.pc # "idle" => io.conn \in Conn
  BY <1>1 DEF IoPart
<1>7. QED
  BY <1>2, <1>3, <1>4, <1>5, <1>6 DEF MeetTypes

LEMMA MeetTypesNextAre == LinkInv' => MeetTypes'
BY MeetTypesAre, PTL

-----------------------------------------------------------------------------
(* A step that writes nothing to k keeps its numbers in turn.               *)

NumbersGrow == \A c \in Clients : state[c].out <= state'[c].out

(* A number expected after the step that nothing to come is below.          *)
ExpectedBy(k, n) ==
  \/ n >= 1 /\ \E e \in Expected(k) : n <= e
  \/ \E j \in DOMAIN ToRead(k) : ToRead(k)[j].type # "Logout" /\ n = ToRead(k)[j].seq + 1

Turns(k) ==
  /\ owner'[k] = owner[k]
  /\ Within(ToRead(k)', ToRead(k))
  /\ \A n \in Expected(k)' : ExpectedBy(k, n)
  /\ Ended(k) => Ended(k)'
  /\ cliEnd'[k] # "closed" => \A n \in Expected(k)' : Rising(ToRead(k)', n)

(* m carries the number that was taken last, or its session is at its end.  *)
Taken(k, m) ==
  m.type # "Logout" =>
    m.seq < state'[owner[k]].out /\ (Ended(k) \/ m.seq >= state[owner[k]].out)

SendersKeep(k) ==
  /\ IoSends(k)' => \/ IoSends(k) /\ Head(io'.reply) = Head(io.reply)
                    \/ Taken(k, Head(io'.reply))
  /\ \A t \in Workers : WorkerSends(t, k)' =>
       \/ WorkerSends(t, k) /\ Head(sending'[t].message) = Head(sending[t].message)
       \/ Taken(k, Head(sending'[t].message))

(* What is about to be written to k stays behind what is there.             *)
LEMMA FollowsStays ==
  ASSUME MeetTypes, MeetTypes', NumbersGrow, NEW k \in Conn, owner[k] # NoClient, Turns(k),
         NEW m \in DownMessage, Follows(k, m)
  PROVE  Follows(k, m)'
<1>1. /\ owner[k] \in Clients /\ owner'[k] = owner[k]
      /\ ToRead(k) \in Seq(DownMessage) /\ ToRead(k)' \in Seq(DownMessage)
      /\ Expected(k) \subseteq Nat /\ Expected(k)' \subseteq Nat /\ m.seq \in Nat
      /\ state[owner[k]].out \in Nat /\ state'[owner[k]].out \in Nat
  BY DownMessageIs DEF MeetTypes, Turns
<1>2. CASE m.type = "Logout"
  BY <1>2 DEF Follows
<1>3. CASE m.type # "Logout"
  <2>1. m.seq < state'[owner'[k]].out
    BY <1>1, <1>3 DEF Follows, NumbersGrow
  <2>2. ASSUME ~Ended(k)'
        PROVE  /\ \A n \in Expected(k)' : n <= m.seq
               /\ \A i \in DOMAIN ToRead(k)' : ToRead(k)'[i].seq < m.seq
    <3>1. /\ \A n \in Expected(k) : n <= m.seq
          /\ \A i \in DOMAIN ToRead(k) : ToRead(k)[i].seq < m.seq
      BY <2>2, <1>3 DEF Turns, Follows
    <3>2. \A i \in DOMAIN ToRead(k) : ToRead(k)[i].seq \in Nat
      BY <1>1, SeqElements, DownMessageIs
    <3>3. ASSUME NEW n \in Expected(k)' PROVE n <= m.seq
      BY <3>1, <3>2, <3>3, <1>1 DEF Turns, ExpectedBy
    <3>4. \A i \in DOMAIN ToRead(k)' : ToRead(k)'[i].seq < m.seq
      BY <3>1 DEF Turns, Within
    <3>5. QED
      BY <3>3, <3>4
  <2>3. QED
    BY <2>1, <2>2, <1>3 DEF Follows
<1>4. QED
  BY <1>2, <1>3

(* What the client expects and has to read stays in order.                  *)
LEMMA ReadingStays ==
  ASSUME MeetTypes, MeetTypes', NumbersGrow, NEW k \in Conn, owner[k] # NoClient, InTurn(k),
         Turns(k)
  PROVE  /\ \A n \in Expected(k)' : n >= 1 /\ n <= state'[owner'[k]].out
         /\ \A i \in DOMAIN ToRead(k)' : ToRead(k)'[i].type # "Logout" =>
              ToRead(k)'[i].seq < state'[owner'[k]].out
         /\ cliEnd'[k] # "closed" => \A n \in Expected(k)' : Rising(ToRead(k)', n)
<1>1. /\ owner[k] \in Clients /\ owner'[k] = owner[k]
      /\ ToRead(k) \in Seq(DownMessage)
      /\ Expected(k) \subseteq Nat /\ Expected(k)' \subseteq Nat
      /\ state[owner[k]].out \in Nat /\ state'[owner[k]].out \in Nat
      /\ state[owner[k]].out <= state'[owner[k]].out
  BY DEF MeetTypes, Turns, NumbersGrow
<1>2. /\ \A n \in Expected(k) : n >= 1 /\ n <= state[owner[k]].out
      /\ \A i \in DOMAIN ToRead(k) :
           ToRead(k)[i].type # "Logout" => ToRead(k)[i].seq < state[owner[k]].out
  BY DEF InTurn
<1>3. \A i \in DOMAIN ToRead(k) : ToRead(k)[i].seq \in Nat
  BY <1>1, SeqElements, DownMessageIs
<1>4. ASSUME NEW n \in Expected(k)' PROVE n >= 1 /\ n <= state'[owner'[k]].out
  BY <1>1, <1>2, <1>3, <1>4 DEF Turns, ExpectedBy
<1>5. ASSUME NEW i \in DOMAIN ToRead(k)', ToRead(k)'[i].type # "Logout"
      PROVE  ToRead(k)'[i].seq < state'[owner'[k]].out
  <2>1. PICK j \in DOMAIN ToRead(k) : ToRead(k)'[i] = ToRead(k)[j]
    BY <1>5 DEF Turns, Within
  <2>2. QED
    BY <2>1, <1>1, <1>2, <1>3, <1>5
<1>6. QED
  BY <1>4, <1>5 DEF Turns

LEMMA TakenFollows ==
  ASSUME MeetTypes, MeetTypes', NEW k \in Conn, owner[k] # NoClient, InTurn(k), Turns(k),
         NEW m \in DownMessage, Taken(k, m)
  PROVE  Follows(k, m)'
<1>1. /\ owner[k] \in Clients /\ owner'[k] = owner[k]
      /\ ToRead(k) \in Seq(DownMessage) /\ m.seq \in Nat
      /\ Expected(k) \subseteq Nat /\ Expected(k)' \subseteq Nat
      /\ state[owner[k]].out \in Nat /\ state'[owner[k]].out \in Nat
  BY DownMessageIs DEF MeetTypes, Turns
<1>2. CASE m.type = "Logout"
  BY <1>2 DEF Follows
<1>3. CASE m.type # "Logout"
  <2>1. m.seq < state'[owner'[k]].out
    BY <1>1, <1>3 DEF Taken
  <2>2. ASSUME ~Ended(k)'
        PROVE  /\ \A n \in Expected(k)' : n <= m.seq
               /\ \A i \in DOMAIN ToRead(k)' : ToRead(k)'[i].seq < m.seq
    <3>1. ~Ended(k) /\ m.seq >= state[owner[k]].out
      BY <2>2, <1>3 DEF Turns, Taken
    <3>2. \A i \in DOMAIN ToRead(k) : ToRead(k)[i].seq \in Nat
      BY <1>1, SeqElements, DownMessageIs
    <3>3. /\ \A n \in Expected(k) : n <= m.seq
          /\ \A i \in DOMAIN ToRead(k) : ToRead(k)[i].seq < m.seq
      <4>1. \A i \in DOMAIN ToRead(k) : ToRead(k)[i].type # "Logout"
        BY <3>1 DEF Ended, LogoutIn
      <4>2. QED
        BY <4>1, <3>1, <3>2, <1>1 DEF InTurn
    <3>4. ASSUME NEW n \in Expected(k)' PROVE n <= m.seq
      BY <3>2, <3>3, <3>4, <1>1 DEF Turns, ExpectedBy
    <3>5. \A i \in DOMAIN ToRead(k)' : ToRead(k)'[i].seq < m.seq
      BY <3>3 DEF Turns, Within
    <3>6. QED
      BY <3>4, <3>5
  <2>3. QED
    BY <2>1, <2>2, <1>3 DEF Follows
<1>4. QED
  BY <1>2, <1>3

LEMMA TurnStays ==
  ASSUME MeetTypes, MeetTypes', NumbersGrow, NEW k \in Conn, InTurn(k), owner'[k] = owner[k],
         owner[k] # NoClient => Turns(k) /\ SendersKeep(k)
  PROVE  InTurn(k)'
<1>1. CASE owner[k] = NoClient
  BY <1>1 DEF InTurn
<1>2. CASE owner[k] # NoClient
  <2>1. \A m \in DownMessage : Follows(k, m) => Follows(k, m)'
    BY <1>2, FollowsStays
  <2>2. \A m \in DownMessage : Taken(k, m) => Follows(k, m)'
    BY <1>2, TakenFollows
  <2>3. ASSUME IoSends(k)' PROVE Follows(k, Head(io.reply))'
    <3>1. PICK m \in DownMessage : m = Head(io'.reply)
      BY <2>3 DEF MeetTypes, IoSends
    <3>2. Follows(k, m) \/ Taken(k, m)
      BY <2>3, <3>1, <1>2 DEF SendersKeep, InTurn
    <3>3. Follows(k, m)'
      BY <3>2, <2>1, <2>2
    <3>4. QED
      BY <3>1, <3>3 DEF Follows
  <2>4. ASSUME NEW t \in Workers, WorkerSends(t, k)'
        PROVE  Follows(k, Head(sending[t].message))'
    <3>1. PICK m \in DownMessage : m = Head(sending'[t].message)
      BY <2>4 DEF MeetTypes, WorkerSends
    <3>2. Follows(k, m) \/ Taken(k, m)
      BY <2>4, <3>1, <1>2 DEF SendersKeep, InTurn
    <3>3. Follows(k, m)'
      BY <3>2, <2>1, <2>2
    <3>4. QED
      BY <3>1, <3>3 DEF Follows
  <2>5. QED
    BY <2>3, <2>4, <1>2, ReadingStays DEF InTurn
<1>3. QED
  BY <1>1, <1>2

(* A step of the gateway that writes nothing to k.                          *)
LEMMA GatewayTurns ==
  ASSUME MeetTypes, NEW k \in Conn, InTurn(k), UNCHANGED <<clientVars, cliEnd, broken>>,
         down'[k] = down[k], srvEnd[k] = "closed" => srvEnd'[k] = "closed"
  PROVE  /\ owner'[k] = owner[k] /\ ToRead(k)' = ToRead(k) /\ Expected(k)' = Expected(k)
         /\ Ended(k) => Ended(k)'
         /\ owner[k] # NoClient => Turns(k)
<1>1. UNCHANGED <<owner, mem, ui, net>>
  BY DEF clientVars
<1>2. ToRead(k)' = ToRead(k)
  BY <1>1 DEF ToRead, Reads
<1>3. Expected(k)' = Expected(k)
  BY <1>1 DEF Expected
<1>4. Ended(k) => Ended(k)'
  BY <1>2 DEF Ended, Carries
<1>5. ASSUME owner[k] # NoClient PROVE Turns(k)
  <2>1. Within(ToRead(k)', ToRead(k))
    BY <1>2 DEF Within
  <2>2. \A n \in Expected(k)' : ExpectedBy(k, n)
    BY <1>3, <1>5 DEF InTurn, ExpectedBy, MeetTypes
  <2>3. cliEnd'[k] # "closed" => \A n \in Expected(k)' : Rising(ToRead(k)', n)
    BY <1>2, <1>3, <1>5 DEF InTurn
  <2>4. QED
    BY <1>1, <1>4, <2>1, <2>2, <2>3 DEF Turns
<1>6. QED
  BY <1>1, <1>2, <1>3, <1>4, <1>5

(* The gateway writes m to k: what is then to be read.                      *)
LEMMA WrittenIs ==
  ASSUME WireTypeOK, NetPart, MeetTypes, NEW k \in Conn, NEW m \in DownMessage, WriteDown(k, m),
         UNCHANGED <<clientVars, cliEnd, srvEnd, broken>>
  PROVE  /\ \A j \in Conn : j # k => down'[j] = down[j]
         /\ Ended(k) => Ended(k)'
         /\ m.type = "Logout" /\ cliEnd[k] # "none" /\ srvEnd[k] \in {"open", "closed"} =>
              Ended(k)'
         /\ \/ down' = down
            \/ Carries(k) /\ ToRead(k)' = Append(ToRead(k), m)
<1>1. UNCHANGED <<owner, net>>
  BY DEF clientVars
<1>2. CASE k \in broken \/ cliEnd[k] # "open" \/ srvEnd[k] # "open"
  <2>1. down' = down
    BY <1>2 DEF WriteDown
  <2>2. ToRead(k)' = ToRead(k)
    BY <1>1, <2>1 DEF ToRead, Reads
  <2>3. Ended(k) => Ended(k)'
    BY <2>2 DEF Ended, Carries
  <2>4. cliEnd[k] # "none" /\ srvEnd[k] \in {"open", "closed"} => ~Carries(k)'
    BY <1>2 DEF Carries, WireTypeOK
  <2>5. QED
    BY <2>1, <2>3, <2>4 DEF Ended
<1>3. CASE ~(k \in broken \/ cliEnd[k] # "open" \/ srvEnd[k] # "open")
  <2>1. down' = [down EXCEPT ![k] = Append(@, m)]
    BY <1>3 DEF WriteDown
  <2>2. down'[k] = Append(down[k], m) /\ \A j \in Conn : j # k => down'[j] = down[j]
    BY <2>1 DEF WireTypeOK
  <2>3. ToRead(k)' = Append(ToRead(k), m)
    <3>1. /\ down[k] \in Seq(DownMessage) /\ << >> \in Seq(DownMessage)
          /\ \A c \in Clients : net[c].buf \in Seq(DownMessage)
      BY SeqNone DEF WireTypeOK, NetPart, NetState
    <3>2. PICK a \in Seq(DownMessage) : ToRead(k) = a \o down[k] /\ ToRead(k)' = a \o down'[k]
      BY <3>1, <1>1 DEF ToRead, Reads
    <3>3. PushedBehind(a, down[k], m)
      BY <3>1, SeqPushed
    <3>4. QED
      BY <3>2, <3>3, <2>2 DEF PushedBehind
  <2>4. Carries(k)
    BY <1>3 DEF Carries
  <2>5. (LogoutIn(ToRead(k)) \/ m.type = "Logout") => LogoutIn(ToRead(k)')
    BY <2>3, LogoutAppended DEF MeetTypes
  <2>6. LogoutIn(ToRead(k)') => Ended(k)'
    BY DEF Ended, LogoutIn
  <2>7. QED
    BY <2>2, <2>3, <2>4, <2>5, <2>6 DEF Ended
<1>4. QED
  BY <1>2, <1>3

(* The gateway writes m to k, and nobody else holds a message for k.        *)
LEMMA WrittenTurn ==
  ASSUME WireTypeOK, NetPart, MeetTypes, MeetTypes', NEW k \in Conn, InTurn(k),
         owner[k] # NoClient, NEW m \in DownMessage, Follows(k, m), WriteDown(k, m),
         UNCHANGED <<clientVars, cliEnd, srvEnd, broken, state>>,
         ~IoSends(k)', \A t \in Workers : ~WorkerSends(t, k)'
  PROVE  InTurn(k)'
<1>1. UNCHANGED <<owner, mem, ui, net>>
  BY DEF clientVars
<1>2. /\ owner[k] \in Clients /\ ToRead(k) \in Seq(DownMessage) /\ m.seq \in Nat
      /\ Expected(k) \subseteq Nat /\ state[owner[k]].out \in Nat
  BY DownMessageIs DEF MeetTypes
<1>3. down' = down \/ (Carries(k) /\ ToRead(k)' = Append(ToRead(k), m))
  BY WrittenIs
<1>4. CASE down' = down
  <2>1. Turns(k)
    BY <1>4, GatewayTurns
  <2>2. SendersKeep(k)
    BY DEF SendersKeep
  <2>3. NumbersGrow
    BY DEF MeetTypes, NumbersGrow
  <2>4. QED
    BY <2>1, <2>2, <2>3, <1>1, TurnStays
<1>5. CASE Carries(k) /\ ToRead(k)' = Append(ToRead(k), m)
  <2> DEFINE s == ToRead(k)
  <2>1. Expected(k)' = Expected(k)
    BY <1>1 DEF Expected
  <2>2. /\ DOMAIN Append(s, m) = DOMAIN s \cup {Len(s) + 1}
        /\ \A i \in DOMAIN s : Append(s, m)[i] = s[i]
        /\ Append(s, m)[Len(s) + 1] = m
    BY <1>2, SeqAppended
  <2>3. \A i \in DOMAIN ToRead(k)' : ToRead(k)'[i].type # "Logout" =>
          ToRead(k)'[i].seq < state[owner[k]].out
    BY <2>2, <1>5 DEF InTurn, Follows
  <2>4. ASSUME cliEnd[k] # "closed", NEW n \in Expected(k) PROVE Rising(ToRead(k)', n)
    <3>1. Rising(s, n) /\ n \in Nat
      BY <2>4, <1>2 DEF InTurn
    <3>2. m.type # "Logout" =>
            LogoutIn(s) \/ (n <= m.seq /\ \A i \in DOMAIN s : s[i].seq < m.seq)
      BY <1>5, <2>4 DEF Follows, Ended
    <3>3. QED
      BY <3>1, <3>2, <1>2, <1>5, AppendRises
  <2>5. QED
    BY <2>1, <2>3, <2>4, <1>1 DEF InTurn
<1>6. QED
  BY <1>3, <1>4, <1>5

-----------------------------------------------------------------------------
(* The gateway's numbers only grow.                                         *)

(* Every message of a joined sequence is one of the two.                    *)
LEMMA JoinWithin ==
  ASSUME NEW S, NEW a \in Seq(S), NEW b \in Seq(S), NEW i \in DOMAIN (a \o b)
  PROVE  \/ \E j \in DOMAIN a : (a \o b)[i] = a[j]
         \/ \E j \in DOMAIN b : (a \o b)[i] = b[j]
<1> DEFINE s == a \o b
<1>1. /\ Len(a) \in Nat /\ Len(b) \in Nat /\ DOMAIN a = 1..Len(a) /\ DOMAIN b = 1..Len(b)
      /\ DOMAIN s = 1..(Len(a) + Len(b))
      /\ \A j \in 1..(Len(a) + Len(b)) : s[j] = IF j <= Len(a) THEN a[j] ELSE b[j - Len(a)]
  BY SeqJoined
<1>2. i \in DOMAIN s
  OBVIOUS
<1> HIDE DEF s
<1>3. CASE i <= Len(a)
  BY <1>1, <1>2, <1>3 DEF s
<1>4. CASE ~(i <= Len(a))
  <2>1. i - Len(a) \in DOMAIN b
    BY <1>1, <1>2, <1>4
  <2>2. QED
    BY <2>1, <1>1, <1>2, <1>4 DEF s
<1>5. QED
  BY <1>3, <1>4

LEMMA PersistedTasks ==
  ASSUME NEW c \in Clients, NEW old \in SessionState, NEW mid \in SessionState,
         NEW final \in SessionState
  PROVE  \A i \in DOMAIN Persisted(c, old, mid, final) :
           Persisted(c, old, mid, final)[i].out \in {mid.out, final.out}
<1> DEFINE t == Task(c, mid)
           u == Task(c, final)
           p == Persisted(c, old, mid, final)
<1>1. t.out = mid.out /\ u.out = final.out
  BY TaskIs
<1>2. << >> \in Seq({t, u}) /\ <<t>> \in Seq({t, u}) /\ <<u>> \in Seq({t, u})
  BY SeqNone, SeqSingle
<1>3. PICK a \in Seq({t, u}), b \in Seq({t, u}) : p = a \o b
  BY <1>2 DEF Persisted
<1>4. p \in Seq({t, u})
  BY <1>3, SeqJoined
<1>5. \A i \in DOMAIN p : p[i] \in {t, u}
  BY <1>4, SeqElements
<1>6. QED
  BY <1>1, <1>5

LEMMA RenumberedGrows ==
  ASSUME NumberPart, RowsPositive, NEW c, NEW old, NEW mid, NEW final, NEW next,
         Renumbers(c, old, mid, final, next), next.known,
         state[c].out <= old.out, old.out = mid.out, mid.out <= final.out
  PROVE  RowsPositive' /\ NumbersGrow /\ state'[c].out = final.out
<1> DEFINE p == Persisted(c, old, mid, final)
<1>1. /\ c \in Clients /\ old \in SessionState /\ mid \in SessionState
      /\ final \in SessionState /\ next \in SessionState /\ next.out = final.out
      /\ state' = [state EXCEPT ![c] = next] /\ dbTasks' = dbTasks \o p /\ seqRows' = seqRows
  BY DEF Renumbers
<1>2. dbTasks \in Seq(SeqTask) /\ state \in [Clients -> SessionState]
  BY DEF NumberPart
<1>3. /\ \A d \in Clients : state[d].out \in Nat
      /\ old.out \in Nat /\ mid.out \in Nat /\ final.out \in Nat /\ next.out \in Nat
  BY <1>1, <1>2 DEF SessionState
<1>4. state[c].out >= 1 /\ mid.out >= 1 /\ final.out >= 1
  BY <1>1, <1>3 DEF RowsPositive
<1>5. state'[c] = next /\ \A d \in Clients : d # c => state'[d] = state[d]
  BY <1>1, <1>2
<1>6. NumbersGrow
  BY <1>1, <1>3, <1>5 DEF NumbersGrow
<1>7. \A d \in Clients : /\ state'[d].out >= 1 /\ (~state'[d].known => state'[d].out = 1)
                         /\ seqRows'[d].out >= 1
  BY <1>1, <1>4, <1>5 DEF RowsPositive
<1>8. ASSUME NEW i \in DOMAIN dbTasks', dbTasks'[i].comp # NoClient
      PROVE  dbTasks'[i].out >= 1
  <2>1. p \in Seq(SeqTask)
    BY <1>1, PersistedIs DEF UpdatesOf
  <2>2. \A j \in DOMAIN p : p[j].out >= 1
    BY <1>1, <1>4, PersistedTasks
  <2> HIDE DEF p
  <2>3. \/ \E j \in DOMAIN dbTasks : (dbTasks \o p)[i] = dbTasks[j]
        \/ \E j \in DOMAIN p : (dbTasks \o p)[i] = p[j]
    BY <2>1, <1>1, <1>2, <1>8, JoinWithin
  <2>4. QED
    BY <2>2, <2>3, <1>1, <1>8 DEF RowsPositive
<1>9. QED
  BY <1>1, <1>5, <1>6, <1>7, <1>8 DEF RowsPositive

LEMMA SameNumbersGrow ==
  ASSUME MeetTypes, UNCHANGED state
  PROVE  /\ NumbersGrow
         /\ RowsPositive /\ UNCHANGED <<dbTasks, seqRows>> => RowsPositive'
BY DEF MeetTypes, NumbersGrow, RowsPositive

(* A session that is set up starts at a number not below its own.           *)
LEMMA AuthenticatedGrows ==
  ASSUME NumberPart, RowsPositive, NEW c \in Clients
  PROVE  state[c].out <= authenticate(c).out /\ authenticate(c).known
<1>1. dbTasks \in Seq(SeqTask) /\ seqRows \in [Clients -> Seqs] /\ state[c] \in SessionState
  BY DEF NumberPart
<1>2. state[c].out \in Nat
  BY <1>1 DEF SessionState
<1>3. CASE state[c].known
  <2>1. authenticate(c) = [state[c] EXCEPT !.on = TRUE]
    BY <1>3 DEF authenticate
  <2>2. QED
    BY <2>1, <1>1, <1>2, <1>3 DEF SessionState
<1>4. CASE ~state[c].known
  <2>1. EndsIn(dbTasks, seqRows, c, getSequenceNumbers(c))
    BY <1>1, NumbersEnd DEF getSequenceNumbers, LastOf
  <2>2. getSequenceNumbers(c).out >= 1
    BY <2>1, WireAssumption DEF EndsIn, RowsPositive
  <2>3. authenticate(c).out = getSequenceNumbers(c).out /\ authenticate(c).known
    BY <1>4 DEF authenticate
  <2>4. QED
    BY <2>2, <2>3, <1>4 DEF RowsPositive
<1>5. QED
  BY <1>3, <1>4

-----------------------------------------------------------------------------
(* The steps of the gateway and the numbers.                                *)

(* The gateway sends nothing and closes sockets at most.                    *)
GatewayQuiet ==
  /\ UNCHANGED <<clientVars, cliEnd, broken, down>>
  /\ \A k \in Conn : srvEnd[k] = "closed" => srvEnd'[k] = "closed"

LEMMA GatewayEnds ==
  ASSUME LinkInv, Numbers, GatewayQuiet
  PROVE  \A k \in Conn : Ended(k) => Ended(k)'
<1>1. MeetTypes /\ UNCHANGED <<clientVars, cliEnd, broken, down>>
  BY MeetTypesAre DEF GatewayQuiet
<1>2. ASSUME NEW k \in Conn PROVE Ended(k) => Ended(k)'
  BY <1>1, GatewayTurns DEF GatewayQuiet, Numbers
<1>3. QED
  BY <1>2

LEMMA GatewayNumbers ==
  ASSUME LinkInv, LinkInv', Numbers, GatewayQuiet, NumbersGrow,
         RowsPositive', OwnNames', SocketsInv', HangUps', SessionsServe',
         \A k \in Conn : owner[k] # NoClient => SendersKeep(k)
  PROVE  Numbers'
<1>1. MeetTypes /\ MeetTypes' /\ UNCHANGED <<clientVars, cliEnd, broken, down>>
  BY MeetTypesAre, MeetTypesNextAre DEF GatewayQuiet
<1>2. ASSUME NEW k \in Conn PROVE InTurn(k)'
  <2>1. InTurn(k) /\ owner'[k] = owner[k]
    BY <1>1 DEF Numbers, clientVars
  <2>2. owner[k] # NoClient => Turns(k)
    BY <1>1, <2>1, GatewayTurns DEF GatewayQuiet
  <2>3. QED
    BY <1>1, <2>1, <2>2, TurnStays
<1>3. ClientNumbers'
  <2>1. UNCHANGED <<file, net>>
    BY <1>1 DEF clientVars
  <2>2. \A c \in Clients : file[c].in \in Nat
    BY LinkInvIs, ClientPartsAre DEF ClientParts, StorePart, Store
  <2>3. QED
    BY <2>1, <2>2, <1>1 DEF Numbers, ClientNumbers, NumbersGrow, MeetTypes
<1>4. QED
  BY <1>2, <1>3 DEF Numbers

(* The sessions that reports find stay served.                              *)
SessionsStay ==
  /\ nextSession \in Nat /\ nextSession' \in Nat /\ nextSession <= nextSession'
  /\ \A k \in sessions : owner'[k] = owner[k]
  /\ \A k \in sessions' :
       \/ /\ k \in sessions /\ sessionId'[k] = sessionId[k]
          /\ compOf[k] # NoClient => compOf'[k] # NoClient \/ Ended(k)'
          /\ Ended(k) => Ended(k)'
       \/ srvEnd[k] = "pending" /\ sessionId'[k] \in Nat /\ sessionId'[k] >= nextSession

(* Who begins to subscribe is served, and was accepted before.              *)
SubscribersStay ==
  \A k \in Conn :
    /\ Subscriber(k)' => \/ Subscriber(k)
                         \/ Serving(k)' /\ srvEnd'[k] \notin {"none", "pending"}
    /\ srvEnd'[k] \in {"none", "pending"} => srvEnd[k] \in {"none", "pending"}

LEMMA SubscribersSame ==
  ASSUME subscribed' \subseteq subscribed, UNCHANGED targets,
         \A k \in Conn : srvEnd'[k] \in {srvEnd[k], "open", "closed"}
  PROVE  SubscribersStay
BY DEF SubscribersStay, Subscriber

LEMMA ServingStays ==
  ASSUME MeetTypes, SocketsInv, sessions \subseteq Conn, NumbersGrow, MeetTypes',
         NEW k \in sessions, owner'[k] = owner[k],
         compOf[k] # NoClient => compOf'[k] # NoClient \/ Ended(k)',
         Ended(k) => Ended(k)', Serving(k)
  PROVE  Serving(k)'
<1>1. (compOf[k] # NoClient \/ Ended(k)) /\ state[owner[k]].out > 1
  BY DEF Serving
<1>2. owner[k] \in Clients
  BY DEF SocketsInv, MeetTypes
<1>3. state[owner[k]].out \in Nat /\ state'[owner[k]].out \in Nat
      /\ state[owner[k]].out <= state'[owner[k]].out
  BY <1>2 DEF MeetTypes, NumbersGrow
<1>4. state'[owner'[k]].out > 1
  BY <1>1, <1>3
<1>5. QED
  BY <1>1, <1>4 DEF Serving

LEMMA ServesStays ==
  ASSUME MeetTypes, SocketsInv, sessions \subseteq Conn, NumbersGrow, MeetTypes', SessionsStay,
         NEW s \in Nat, Serves(s)
  PROVE  Serves(s)'
<1>1. s < nextSession' /\ s < nextSession
  BY DEF Serves, SessionsStay
<1>2. ASSUME NEW k \in sessions', sessionId'[k] = s PROVE Serving(k)'
  <2>1. /\ k \in sessions /\ sessionId[k] = s /\ owner'[k] = owner[k]
        /\ compOf[k] # NoClient => compOf'[k] # NoClient \/ Ended(k)'
        /\ Ended(k) => Ended(k)'
    BY <1>1, <1>2 DEF SessionsStay
  <2>2. Serving(k)
    BY <2>1 DEF Serves
  <2>3. QED
    BY <2>1, <2>2, ServingStays
<1>3. QED
  BY <1>1, <1>2 DEF Serves

LEMMA ServedStay ==
  ASSUME LinkInv, LinkInv', Numbers, NumbersGrow, SessionsStay, SubscribersStay,
         \A r \in Ref : orders'[r].session = orders[r].session \/ Serves(orders[r].session)',
         \A i \in DOMAIN commands' :
           \/ \E j \in DOMAIN commands : commands'[i].session = commands[j].session
           \/ Serves(commands[i].session)'
  PROVE  SessionsServe'
<1>1. /\ MeetTypes /\ MeetTypes' /\ SocketsInv /\ SessionsServe /\ SessionPart /\ CorePart
      /\ SessionPart'
  BY MeetTypesAre, MeetTypesNextAre, LinkInvIs, LinkInvNextIs DEF Kept, GatewayParts, Numbers
<1>2. \A s \in Nat : Serves(s) => Serves(s)'
  BY <1>1, ServesStays DEF SessionPart
<1>3. nextSession' >= 1 /\ \A k \in sessions' : sessionId'[k] >= 1
  BY <1>1 DEF SessionsStay, SessionsServe
<1>4. ASSUME NEW r \in Ref PROVE Serves(orders[r].session)'
  <2>1. CASE Serves(orders[r].session)'
    BY <2>1
  <2>2. CASE orders'[r].session = orders[r].session
    <3>1. PICK s \in Nat : s = orders[r].session
      BY <1>1 DEF CorePart, Core
    <3>2. Serves(s)'
      BY <3>1, <1>1, <1>2 DEF SessionsServe
    <3>3. QED
      BY <2>2, <3>1, <3>2 DEF Serves
  <2>3. QED
    BY <2>1, <2>2
<1>5. ASSUME NEW i \in DOMAIN commands' PROVE Serves(commands[i].session)'
  <2>1. CASE Serves(commands[i].session)'
    BY <2>1
  <2>2. CASE \E j \in DOMAIN commands : commands'[i].session = commands[j].session
    <3>1. PICK j \in DOMAIN commands : commands'[i].session = commands[j].session
      BY <2>2
    <3>2. commands[j] \in Command
      BY <1>1, SeqElements DEF CorePart
    <3>3. PICK s \in Nat : s = commands[j].session
      BY <3>2 DEF Command
    <3>4. Serves(s)'
      BY <3>3, <1>1, <1>2 DEF SessionsServe
    <3>5. QED
      BY <3>1, <3>3, <3>4 DEF Serves
  <2>3. QED
    BY <2>1, <2>2
<1>6. ASSUME NEW k \in sessions', Subscriber(k)' PROVE Serving(k)'
  <2>1. k \in Conn
    BY <1>1 DEF SessionPart
  <2>2. CASE Serving(k)'
    BY <2>2
  <2>3. CASE Subscriber(k)
    <3>1. srvEnd[k] # "pending"
      BY <2>1, <2>3, <1>1 DEF SessionsServe
    <3>2. /\ k \in sessions /\ owner'[k] = owner[k]
          /\ compOf[k] # NoClient => compOf'[k] # NoClient \/ Ended(k)'
          /\ Ended(k) => Ended(k)'
      BY <3>1 DEF SessionsStay
    <3>3. Serving(k)
      BY <2>3, <3>2, <1>1 DEF SessionsServe
    <3>4. QED
      BY <3>2, <3>3, <1>1, ServingStays DEF SessionPart
  <2>4. QED
    BY <1>6, <2>1, <2>2, <2>3 DEF SubscribersStay
<1>7. ASSUME NEW k \in Conn, srvEnd'[k] \in {"none", "pending"} PROVE ~Subscriber(k)'
  BY <1>1, <1>7 DEF SubscribersStay, SessionsServe
<1>8. QED
  BY <1>3, <1>4, <1>5, <1>6, <1>7 DEF SessionsServe

(* Nobody starts to send.                                                   *)
LEMMA NoSender ==
  ASSUME io'.pc # "write" \/ UNCHANGED io, UNCHANGED sending
  PROVE  \A k \in Conn : SendersKeep(k)
BY DEF SendersKeep, IoSends, WorkerSends

LEMMA ConnectionNumbers ==
  ASSUME LinkInv, LinkInv', Numbers, UNCHANGED clientVars, NEW k \in Conn,
         Accept(k) \/ Receive(k) \/ ReadError(k)
  PROVE  Numbers'
<1> USE DEF tableVars, coreVars, marketVars
<1>1. /\ Kept /\ WireTypeOK /\ IoPart /\ SessionPart /\ NumberPart /\ SessionPart'
      /\ MeetTypes /\ MeetTypes' /\ IoPart'
      /\ RowsPositive /\ OwnNames /\ SocketsInv /\ HangUps /\ SessionsServe
  BY LinkInvIs, LinkInvNextIs, MeetTypesAre, MeetTypesNextAre DEF Kept, GatewayParts, Numbers
<1>2. /\ UNCHANGED <<down, cliEnd, broken, compOf, state, dbTasks, seqRows, sending, commands,
                     orders, owner, ui>>
      /\ io.pc = "idle"
  BY DEF Accept, Receive, ReadError, CloseServer, clientVars
<1>3. GatewayQuiet
  BY <1>1, <1>2 DEF GatewayQuiet, Accept, Receive, ReadError, CloseServer, WireTypeOK
<1>4. NumbersGrow /\ RowsPositive'
  BY <1>1, <1>2, SameNumbersGrow
<1>5. \A j \in Conn : Ended(j) => Ended(j)'
  BY <1>3, GatewayEnds
<1>6. io'.pc # "write" /\ io'.pc \notin {"cleanup", "close"}
  BY <1>2 DEF Accept, Receive, ReadError, IdleIo
<1>7. HangUps'
  BY <1>6 DEF HangUps
<1>8. \A j \in Conn : SendersKeep(j)
  BY <1>2, <1>6, NoSender
<1>9. SessionsStay
  <2>1. \/ UNCHANGED <<sessions, sessionId, nextSession>>
        \/ UNCHANGED <<sessionId, nextSession>> /\ sessions' = sessions \ {k}
        \/ /\ sessionId' = [sessionId EXCEPT ![k] = nextSession]
           /\ nextSession' = nextSession + 1 /\ sessions' = sessions \cup {k}
    BY DEF Accept, Receive, ReadError
  <2>2. nextSession \in Nat /\ nextSession' \in Nat /\ nextSession <= nextSession'
    BY <2>1, <1>1 DEF SessionPart
  <2>3. ASSUME NEW j \in sessions', ~(j \in sessions /\ sessionId'[j] = sessionId[j])
        PROVE  srvEnd[j] = "pending" /\ sessionId'[j] \in Nat /\ sessionId'[j] >= nextSession
    <3>1. (sessions' \subseteq sessions /\ sessionId' = sessionId) \/ Accept(k)
      BY DEF Receive, ReadError
    <3>2. CASE Accept(k)
      <4>1. /\ srvEnd[k] = "pending" /\ sessions' = sessions \cup {k}
            /\ sessionId' = [sessionId EXCEPT ![k] = nextSession]
        BY <3>2 DEF Accept
      <4>2. sessionId'[k] = nextSession /\ \A i \in Conn : i # k => sessionId'[i] = sessionId[i]
        BY <4>1, <1>1 DEF SessionPart
      <4>3. j = k
        BY <4>1, <4>2, <2>3, <1>1 DEF SessionPart
      <4>4. QED
        BY <4>1, <4>2, <4>3, <2>2
    <3>3. QED
      BY <3>1, <3>2, <2>3
  <2>4. sessions' \subseteq Conn
    BY <1>1 DEF SessionPart
  <2>5. QED
    BY <2>2, <2>3, <2>4, <1>2, <1>5 DEF SessionsStay
<1>10. SessionsServe'
  <2>1. /\ subscribed' \subseteq subscribed /\ UNCHANGED targets
        /\ \A j \in Conn : srvEnd'[j] \in {srvEnd[j], "open", "closed"}
    BY <1>1 DEF Accept, Receive, ReadError, CloseServer, WireTypeOK
  <2>2. QED
    BY <2>1, <1>2, <1>4, <1>9, ServedStay, SubscribersSame
<1>11. CASE Accept(k)
  <2>1. OwnNames'
    BY <1>1, <1>2, <1>11 DEF OwnNames, Accept
  <2>2. SocketsInv'
    BY <1>1, <1>2, <1>11 DEF SocketsInv, Accept, WireTypeOK, clientVars
  <2>3. QED
    BY <2>1, <2>2, <1>3, <1>4, <1>7, <1>8, <1>10, GatewayNumbers
<1>12. CASE Receive(k)
  <2>1. PICK n \in 1..Len(up[k]) :
          /\ io' = [IdleIo EXCEPT !.pc = "handle", !.conn = k, !.buf = SubSeq(up[k], 1, n)]
          /\ up' = [up EXCEPT ![k] = SubSeq(@, n + 1, Len(@))]
    BY <1>12 DEF Receive
  <2> DEFINE front == SubSeq(up[k], 1, n)
             rest == SubSeq(up[k], n + 1, Len(up[k]))
  <2>2. /\ up[k] \in Seq(UpMessage) /\ front \in Seq(UpMessage) /\ rest \in Seq(UpMessage)
        /\ front \o rest = up[k]
    BY <1>1, SeqCut DEF WireTypeOK
  <2>3. io'.conn = k /\ io'.buf = front /\ up'[k] = rest /\ \A j \in Conn : j # k => up'[j] = up[j]
    BY <2>1, <1>1 DEF IdleIo, WireTypeOK
  <2> HIDE DEF front, rest
  <2>4. /\ \A i \in DOMAIN front : \E j \in DOMAIN up[k] : front[i] = up[k][j]
        /\ \A i \in DOMAIN rest : \E j \in DOMAIN up[k] : rest[i] = up[k][j]
    <3>1. /\ Len(front) \in Nat /\ Len(rest) \in Nat
          /\ DOMAIN front = 1..Len(front) /\ DOMAIN rest = 1..Len(rest)
          /\ DOMAIN up[k] = 1..(Len(front) + Len(rest))
          /\ \A i \in 1..(Len(front) + Len(rest)) :
               up[k][i] = IF i <= Len(front) THEN front[i] ELSE rest[i - Len(front)]
      <4>1. PICK q : q = front \o rest
        OBVIOUS
      <4>2. /\ Len(front) \in Nat /\ Len(rest) \in Nat
            /\ DOMAIN front = 1..Len(front) /\ DOMAIN rest = 1..Len(rest)
            /\ DOMAIN q = 1..(Len(front) + Len(rest))
            /\ \A i \in 1..(Len(front) + Len(rest)) :
                 q[i] = IF i <= Len(front) THEN front[i] ELSE rest[i - Len(front)]
        BY <2>2, <4>1, SeqJoined
      <4>3. QED
        BY <2>2, <4>1, <4>2
    <3>2. \A i \in DOMAIN front : i \in DOMAIN up[k] /\ front[i] = up[k][i]
      BY <3>1
    <3>3. ASSUME NEW i \in DOMAIN rest
          PROVE  Len(front) + i \in DOMAIN up[k] /\ up[k][Len(front) + i] = rest[i]
      <4>1. /\ Len(front) + i \in 1..(Len(front) + Len(rest))
            /\ ~(Len(front) + i <= Len(front)) /\ (Len(front) + i) - Len(front) = i
        BY <3>1, <3>3
      <4>2. QED
        BY <4>1, <3>1
    <3>4. QED
      BY <3>2, <3>3
  <2>5. k \in sessions /\ UNCHANGED <<srvEnd, sessions, status>>
    BY <1>12 DEF Receive, clientVars
  <2>6. OwnNames'
    <3>1. \A i \in DOMAIN up[k] : up[k][i].comp = owner[k]
      BY <1>1 DEF OwnNames
    <3>2. /\ \A i \in DOMAIN front : front[i].comp = owner[k]
          /\ \A i \in DOMAIN rest : rest[i].comp = owner[k]
      BY <3>1, <2>4
    <3>3. \A j \in Conn : \A i \in DOMAIN up'[j] : up'[j][i].comp = owner[j]
      BY <3>2, <2>3, <1>1 DEF OwnNames
    <3>4. \A i \in DOMAIN io'.buf : io'.buf[i].comp = owner[io'.conn]
      BY <3>2, <2>3
    <3>5. QED
      BY <3>3, <3>4, <1>1, <1>2 DEF OwnNames
  <2>7. SocketsInv'
    BY <2>3, <2>5, <1>1, <1>2 DEF SocketsInv
  <2>8. QED
    BY <2>6, <2>7, <1>3, <1>4, <1>7, <1>8, <1>10, GatewayNumbers
<1>13. CASE ReadError(k)
  <2>1. up'[k] = << >> /\ \A j \in Conn : j # k => up'[j] = up[j]
    BY <1>1, <1>13 DEF ReadError, CloseServer, WireTypeOK
  <2>2. OwnNames'
    BY <2>1, <1>1, <1>2, <1>13, SeqNone DEF OwnNames, ReadError
  <2>3. SocketsInv'
    <3>1. cliEnd[k] # "none"
      BY <1>1, <1>13 DEF SocketsInv, ReadError
    <3>2. QED
      BY <3>1, <1>1, <1>2, <1>13 DEF SocketsInv, ReadError, CloseServer, WireTypeOK, clientVars
  <2>4. QED
    BY <2>2, <2>3, <1>3, <1>4, <1>7, <1>8, <1>10, GatewayNumbers
<1>14. QED
  BY <1>11, <1>12, <1>13

LEMMA RepliesWith ==
  ASSUME IoPart, NEW type \in DownType, NEW seq \in Nat, NEW hangup \in BOOLEAN,
         Reply(type, seq, hangup)
  PROVE  /\ io'.pc = "write" /\ io'.conn = io.conn /\ io'.buf = io.buf /\ io'.hangup = hangup
         /\ Head(io'.reply).type = type /\ Head(io'.reply).seq = seq
<1> DEFINE r == [type |-> type, seq |-> seq, ref |-> 0]
<1>1. r \in DownMessage /\ r.type = type /\ r.seq = seq
  BY DEF DownMessage
<1>2. Head(<<r>>) = r
  BY <1>1, SeqSingle
<1>3. io' = [io EXCEPT !.pc = "write", !.hangup = hangup, !.reply = <<r>>]
  BY DEF Reply
<1> HIDE DEF r
<1>4. /\ io'.pc = "write" /\ io'.conn = io.conn /\ io'.buf = io.buf /\ io'.reply = <<r>>
      /\ io'.hangup = hangup
  BY <1>3 DEF IoPart, IoState
<1>5. QED
  BY <1>1, <1>2, <1>4

(* The handler finds its message on a connection of the client it names.    *)
LEMMA AtOwner ==
  ASSUME LinkInv, Numbers, NEW k \in Conn, NEW m, At(k, m)
  PROVE  /\ io.pc = "handle" /\ io.conn = k /\ m \in UpMessage /\ k \in sessions
         /\ owner[k] \in Clients /\ m.comp = owner[k]
         /\ compOf[k] \in {NoClient, owner[k]}
         /\ compOf[k] # NoClient => state[compOf[k]].out > 1
<1>1. IoPart /\ MeetTypes /\ OwnNames /\ SocketsInv
  BY LinkInvIs, MeetTypesAre DEF Kept, GatewayParts, Numbers
<1>2. /\ io.pc = "handle" /\ io.conn = k /\ m = Head(io.buf) /\ m \in UpMessage
      /\ io.buf \in Seq(UpMessage) /\ io.buf # << >>
  BY <1>1, AtMessage
<1>3. 1 \in DOMAIN io.buf /\ m = io.buf[1]
  BY <1>2, SeqTaken
<1>4. k \in sessions /\ m.comp = owner[k]
  BY <1>1, <1>2, <1>3 DEF OwnNames, SocketsInv
<1>5. owner[k] \in Clients
  BY <1>1, <1>4 DEF SocketsInv, MeetTypes
<1>6. QED
  BY <1>1, <1>2, <1>4, <1>5 DEF OwnNames

(* A handler takes a number and is about to answer with it.                 *)
LEMMA ReplyNumbers ==
  ASSUME LinkInv, LinkInv', Numbers, NEW k \in Conn, io.pc = "handle", io.conn = k,
         UNCHANGED <<clientVars, wireVars, sending, sessions, sessionId, nextSession, commands,
                     orders>>,
         NEW type \in DownType, NEW seq \in Nat, NEW hangup \in BOOLEAN,
         Reply(type, seq, hangup), NumbersGrow, RowsPositive', SubscribersStay,
         \/ UNCHANGED compOf
         \/ compOf' = [compOf EXCEPT ![k] = owner[k]] /\ owner[k] # NoClient,
         \A j \in Conn : compOf'[j] # NoClient => state'[compOf'[j]].out > 1,
         type # "Logout" =>
           ~hangup /\ seq < state'[owner[k]].out /\ seq >= state[owner[k]].out
  PROVE  Numbers'
<1>1. /\ IoPart /\ NumberPart /\ SessionPart /\ SessionPart' /\ MeetTypes /\ MeetTypes'
      /\ OwnNames /\ SocketsInv /\ SessionsServe
  BY LinkInvIs, LinkInvNextIs, MeetTypesAre, MeetTypesNextAre DEF Kept, GatewayParts, Numbers
<1>2. /\ io'.pc = "write" /\ io'.conn = k /\ io'.buf = io.buf /\ io'.hangup = hangup
      /\ Head(io'.reply).type = type /\ Head(io'.reply).seq = seq
  BY <1>1, RepliesWith
<1>3. UNCHANGED <<up, down, cliEnd, srvEnd, broken, owner, ui, status>>
  BY DEF wireVars, clientVars
<1>4. GatewayQuiet
  BY <1>3 DEF GatewayQuiet
<1>5. HangUps'
  BY <1>2 DEF HangUps
<1>6. \A j \in Conn : compOf'[j] \in {compOf[j], owner[j]}
                      /\ (compOf[j] # NoClient => compOf'[j] # NoClient)
  BY <1>1 DEF NumberPart
<1>7. OwnNames'
  BY <1>1, <1>2, <1>3, <1>6 DEF OwnNames
<1>8. SocketsInv'
  BY <1>1, <1>2, <1>3 DEF SocketsInv
<1>9. \A j \in Conn : Ended(j) => Ended(j)'
  BY <1>4, GatewayEnds
<1>10. SessionsStay
  BY <1>1, <1>3, <1>6, <1>9 DEF SessionsStay, SessionPart
<1>11. SessionsServe'
  BY <1>10, ServedStay
<1>12. ASSUME NEW j \in Conn PROVE SendersKeep(j)
  <2>1. IoSends(j)' => Taken(j, Head(io'.reply))
    BY <1>2 DEF IoSends, Taken
  <2>2. QED
    BY <2>1 DEF SendersKeep, WorkerSends
<1>13. QED
  BY <1>4, <1>5, <1>7, <1>8, <1>11, <1>12, GatewayNumbers

LEMMA CompsStay ==
  ASSUME LinkInv, LinkInv', Numbers, NumbersGrow, NEW j \in Conn, compOf[j] # NoClient
  PROVE  state'[compOf[j]].out > 1
<1>1. NumberPart /\ MeetTypes /\ MeetTypes' /\ OwnNames
  BY LinkInvIs, MeetTypesAre, MeetTypesNextAre DEF Kept, GatewayParts, Numbers
<1>2. compOf[j] \in Clients /\ state[compOf[j]].out > 1
  BY <1>1 DEF NumberPart, OwnNames
<1>3. QED
  BY <1>1, <1>2 DEF MeetTypes, NumbersGrow

(* An answered message takes the number the answer carries.                 *)
LEMMA AnsweredGrows ==
  ASSUME NumberPart, RowsPositive, NEW c \in Clients, NEW old \in SessionState, NEW n \in Nat,
         old.known, state[c].out <= old.out,
         state' = [state EXCEPT ![c] = useNextOutboundSequence(validateSequence(old, n))],
         dbTasks' = dbTasks \o Persisted(c, old, validateSequence(old, n),
                                         useNextOutboundSequence(validateSequence(old, n))),
         UNCHANGED seqRows
  PROVE  /\ RowsPositive' /\ NumbersGrow
         /\ validateSequence(old, n).out \in Nat
         /\ validateSequence(old, n).out >= state[c].out
         /\ validateSequence(old, n).out < state'[c].out
         /\ state'[c].out > 1
<1> DEFINE checked == validateSequence(old, n)
           final == useNextOutboundSequence(checked)
<1>1. checked \in SessionState /\ checked.out \in Nat /\ checked.known = old.known /\ old.out \in Nat
  BY StatesKept
<1>2. final \in SessionState /\ final.known = checked.known
  BY <1>1, StatesKept
<1>3. checked.out = old.out /\ final.out = checked.out + 1
  BY <1>1 DEF validateSequence, useNextOutboundSequence, SessionState
<1>4. Renumbers(c, old, checked, final, final)
  BY AnsweredRenumbers
<1>5. state[c].out \in Nat /\ state[c].out >= 1
  BY DEF NumberPart, SessionState, RowsPositive
<1> HIDE DEF checked, final
<1>6. RowsPositive' /\ NumbersGrow /\ state'[c].out = final.out
  <2>1. final.known /\ old.out = checked.out /\ checked.out <= final.out
    BY <1>1, <1>2, <1>3
  <2>2. QED
    BY <2>1, <1>4, RenumberedGrows
<1>7. checked.out >= state[c].out /\ checked.out < state'[c].out /\ state'[c].out > 1
  BY <1>1, <1>3, <1>5, <1>6
<1>8. QED
  BY <1>1, <1>6, <1>7 DEF checked

(* A number taken for a message that answers none.                          *)
LEMMA TakenGrows ==
  ASSUME NumberPart, RowsPositive, NEW c \in Clients, state[c].known, NEW next \in SessionState,
         next.known, next.in = useNextOutboundSequence(state[c]).in,
         next.out = useNextOutboundSequence(state[c]).out,
         state' = [state EXCEPT ![c] = next],
         dbTasks' = dbTasks \o Persisted(c, state[c], state[c], useNextOutboundSequence(state[c])),
         UNCHANGED seqRows
  PROVE  RowsPositive' /\ NumbersGrow /\ state[c].out \in Nat /\ state'[c].out = state[c].out + 1
<1> DEFINE old == state[c]
           final == useNextOutboundSequence(old)
<1>1. old \in SessionState /\ old.out \in Nat
  BY StatesKept DEF NumberPart
<1>2. final.out = old.out + 1
  BY <1>1 DEF useNextOutboundSequence, SessionState
<1>3. Renumbers(c, old, old, final, next)
  BY TakenRenumbers
<1> HIDE DEF final
<1>4. RowsPositive' /\ NumbersGrow /\ state'[c].out = final.out
  BY <1>1, <1>2, <1>3, RenumberedGrows
<1>5. QED
  BY <1>1, <1>2, <1>4

LEMMA AnswerNumbers ==
  ASSUME LinkInv, LinkInv', Numbers, UNCHANGED clientVars, NEW k \in Conn, NEW m,
         \/ RefuseLogon(k, m) \/ AcceptLogon(k, m) \/ HandleLogout(k, m) \/ HandleAnswered(k, m)
  PROVE  Numbers'
<1> USE DEF tableVars, coreVars, marketVars
<1>1. /\ IoPart /\ NumberPart /\ MeetTypes /\ RowsPositive /\ OwnNames
  BY LinkInvIs, MeetTypesAre DEF Kept, GatewayParts, Numbers
<1>2. At(k, m)
  BY DEF RefuseLogon, AcceptLogon, HandleLogout, HandleAnswered
<1>3. /\ io.pc = "handle" /\ io.conn = k /\ m \in UpMessage
      /\ owner[k] \in Clients /\ owner[k] # NoClient /\ m.comp = owner[k]
      /\ compOf[k] \in {NoClient, owner[k]} /\ m.seq \in Nat
      /\ compOf[k] # NoClient => state[compOf[k]].out > 1
  BY <1>2, AtOwner, UpMessageIs, WireAssumption
<1>4. UNCHANGED <<wireVars, sending, sessions, sessionId, nextSession, commands, orders>>
  BY DEF RefuseLogon, AcceptLogon, HandleLogout, HandleAnswered
<1>5. {"Logon", "Logout", "Heartbeat", "BusinessReject", "MarketData"} \subseteq DownType
  BY DEF DownType
<1>6. compOf[k] # NoClient => state[compOf[k]].known
  BY <1>1, <1>3 DEF RowsPositive
<1>12. ~HandleAnswered(k, m) => SubscribersStay
  <2>1. ~HandleAnswered(k, m) => UNCHANGED <<subscribed, targets, srvEnd>>
    BY DEF RefuseLogon, AcceptLogon, HandleLogout, wireVars
  <2>2. QED
    BY <2>1, SubscribersSame
<1>7. CASE RefuseLogon(k, m) /\ ~HandleAnswered(k, m)
  <2>1. Reply("Logout", 1, TRUE) /\ UNCHANGED <<state, dbTasks, seqRows, compOf>>
    BY <1>7 DEF RefuseLogon
  <2>2. NumbersGrow /\ RowsPositive'
    BY <2>1, <1>1, SameNumbersGrow
  <2>3. \A j \in Conn : compOf'[j] # NoClient => state'[compOf'[j]].out > 1
    BY <2>1, <2>2, CompsStay
  <2>4. QED
    BY <2>1, <2>2, <2>3, <1>3, <1>4, <1>5, <1>7, <1>12, ReplyNumbers
<1>8. CASE AcceptLogon(k, m) /\ ~HandleAnswered(k, m)
  <2> DEFINE c == m.comp
             old == authenticate(c)
             checked == validateSequence(old, m.seq)
             final == useNextOutboundSequence(checked)
  <2>1. /\ state' = [state EXCEPT ![c] = final]
        /\ dbTasks' = dbTasks \o Persisted(c, old, checked, final)
        /\ Reply("Logon", checked.out, FALSE)
        /\ compOf' = [compOf EXCEPT ![k] = c] /\ UNCHANGED seqRows
    BY <1>8 DEF AcceptLogon
  <2>2. c \in Clients /\ old \in SessionState /\ old.known /\ state[c].out <= old.out
    BY <1>1, <1>3, AuthenticatedIs, AuthenticatedGrows
  <2> HIDE DEF old, c
  <2>3. /\ RowsPositive' /\ NumbersGrow /\ checked.out \in Nat
        /\ checked.out >= state[c].out /\ checked.out < state'[c].out /\ state'[c].out > 1
    BY <2>1, <2>2, <1>1, <1>3, AnsweredGrows
  <2> HIDE DEF checked, final
  <2>4. c = owner[k]
    BY <1>3 DEF c
  <2>5. \A j \in Conn : compOf'[j] # NoClient => state'[compOf'[j]].out > 1
    BY <2>1, <2>3, <1>1, CompsStay DEF NumberPart
  <2>6. QED
    BY <2>1, <2>3, <2>4, <2>5, <1>3, <1>4, <1>5, <1>8, <1>12, ReplyNumbers
<1>9. CASE HandleLogout(k, m) /\ ~HandleAnswered(k, m)
  <2>1. Reply("Logout", NextNumber(k), TRUE) /\ UNCHANGED <<seqRows, compOf>>
    BY <1>9 DEF HandleLogout
  <2>2. NextNumber(k) \in Nat
    BY <1>1, <1>3 DEF NextNumber, MeetTypes
  <2>3. NumbersGrow /\ RowsPositive'
    <3>1. CASE compOf[k] = NoClient
      <4>1. UNCHANGED <<state, dbTasks>>
        BY <3>1, <1>9 DEF HandleLogout
      <4>2. QED
        BY <4>1, <2>1, <1>1, SameNumbersGrow
    <3>2. CASE compOf[k] # NoClient
      <4> DEFINE c == compOf[k]
                 final == useNextOutboundSequence(state[c])
                 next == [final EXCEPT !.on = FALSE]
      <4>1. c \in Clients /\ state[c] \in SessionState /\ state[c].known
        BY <3>2, <1>1, <1>6 DEF NumberPart
      <4>2. /\ state' = [state EXCEPT ![c] = next]
            /\ dbTasks' = dbTasks \o Persisted(c, state[c], state[c], final)
        BY <3>2, <1>9 DEF HandleLogout
      <4> HIDE DEF c
      <4>3. final \in SessionState /\ final.known
        BY <4>1, StatesKept
      <4> HIDE DEF final
      <4>4. next \in SessionState /\ next.in = final.in /\ next.out = final.out /\ next.known
        BY <4>3 DEF SessionState
      <4> HIDE DEF next
      <4>5. QED
        BY <4>1, <4>2, <4>4, <2>1, <1>1, TakenGrows DEF final
    <3>3. QED
      BY <3>1, <3>2
  <2>4. \A j \in Conn : compOf'[j] # NoClient => state'[compOf'[j]].out > 1
    BY <2>1, <2>3, CompsStay
  <2>5. QED
    BY <2>1, <2>2, <2>3, <2>4, <1>3, <1>4, <1>5, <1>9, <1>12, ReplyNumbers
<1>10. CASE HandleAnswered(k, m)
  <2> DEFINE c == compOf[k]
             checked == validateSequence(state[c], m.seq)
             final == useNextOutboundSequence(checked)
  <2>1. /\ LoggedOn(k) /\ m.type \in DOMAIN Answer
        /\ state' = [state EXCEPT ![c] = final]
        /\ dbTasks' = dbTasks \o Persisted(c, state[c], checked, final)
        /\ Reply(Answer[m.type], checked.out, FALSE) /\ UNCHANGED <<seqRows, compOf>>
    BY <1>10 DEF HandleAnswered
  <2>2. /\ c = owner[k] /\ state[c] \in SessionState /\ state[c].known
        /\ state[c].out <= state[c].out
    BY <2>1, <1>1, <1>3, <1>6 DEF LoggedOn, NumberPart, MeetTypes
  <2> HIDE DEF c
  <2>3. /\ RowsPositive' /\ NumbersGrow /\ checked.out \in Nat
        /\ checked.out >= state[c].out /\ checked.out < state'[c].out
    BY <2>1, <2>2, <1>1, <1>3, AnsweredGrows
  <2> HIDE DEF checked, final
  <2>4. \A j \in Conn : compOf'[j] # NoClient => state'[compOf'[j]].out > 1
    BY <2>1, <2>3, CompsStay
  <2>5. PICK a \in DownType : a = Answer[m.type]
    BY <2>1, <1>5 DEF Answer
  <2>6. Reply(a, checked.out, FALSE)
    BY <2>1, <2>5
  <2>8. SubscribersStay
    <3>1. /\ subscribed' \in {subscribed, subscribed \cup {k}}
          /\ UNCHANGED <<targets, srvEnd, compOf, owner>>
      BY <1>10 DEF HandleAnswered, wireVars, clientVars
    <3>2. k \in sessions /\ SocketsInv
      BY <1>2, AtOwner DEF Numbers
    <3>3. srvEnd'[k] \notin {"none", "pending"}
      BY <3>1, <3>2 DEF SocketsInv
    <3>4. compOf'[k] = owner'[k] /\ compOf'[k] # NoClient /\ state'[owner'[k]].out > 1
      BY <3>1, <2>1, <2>2, <2>4, <1>3 DEF LoggedOn, c
    <3>5. Serving(k)'
      BY <3>4 DEF Serving
    <3>6. QED
      BY <3>1, <3>3, <3>5 DEF SubscribersStay, Subscriber
  <2>7. QED
    BY <2>1, <2>2, <2>3, <2>4, <2>6, <2>8, <1>3, <1>4, ReplyNumbers
<1>11. QED
  BY <1>7, <1>8, <1>9, <1>10

(* A message is dealt with and nothing is sent.                             *)
LEMMA HandledNumbers ==
  ASSUME LinkInv, LinkInv', Numbers, UNCHANGED clientVars, io.pc # "idle", io' = HandledIo,
         UNCHANGED <<down, cliEnd, broken, sending, sessions, sessionId, nextSession, compOf>>,
         UNCHANGED <<up, srvEnd>> \/ CloseServer(io.conn), NumbersGrow, RowsPositive',
         subscribed' \subseteq subscribed, UNCHANGED targets,
         \A r \in Ref : orders'[r].session = orders[r].session \/ Serves(orders[r].session)',
         \A i \in DOMAIN commands' :
           \/ \E j \in DOMAIN commands : commands'[i].session = commands[j].session
           \/ Serves(commands[i].session)'
  PROVE  Numbers'
<1>1. /\ WireTypeOK /\ IoPart /\ NumberPart /\ SessionPart /\ MeetTypes /\ MeetTypes'
      /\ OwnNames /\ SocketsInv
  BY LinkInvIs, MeetTypesAre, MeetTypesNextAre DEF Kept, GatewayParts, Numbers
<1>2. UNCHANGED <<owner, ui, status>>
  BY DEF clientVars
<1>3. io.conn \in Conn /\ io.conn \in sessions /\ cliEnd[io.conn] # "none"
  BY <1>1 DEF IoPart, SocketsInv
<1>4. \A j \in Conn : /\ up'[j] = up[j] \/ up'[j] = << >>
                      /\ srvEnd'[j] = srvEnd[j] \/ (j = io.conn /\ srvEnd'[j] = "closed")
  BY <1>1 DEF CloseServer, WireTypeOK
<1>5. GatewayQuiet
  BY <1>4 DEF GatewayQuiet
<1>6. io'.pc # "idle" => io'.pc = "handle" /\ io'.conn = io.conn /\ io'.buf = Tail(io.buf)
  BY <1>1, IoHandled
<1>7. HangUps'
  BY <1>6 DEF HangUps
<1>8. OwnNames'
  <2>1. /\ io.buf \in Seq(UpMessage) /\ io.buf # << >>
        /\ \A i \in DOMAIN io.buf : io.buf[i].comp = owner[io.conn]
    BY <1>1 DEF IoPart, IoState, OwnNames
  <2>2. PICK b : b = Tail(io.buf)
    OBVIOUS
  <2>3. \A i \in DOMAIN b : b[i].comp = owner[io.conn]
    <3>1. \A i \in DOMAIN b : i + 1 \in DOMAIN io.buf /\ b[i] = io.buf[i + 1]
      BY <2>1, <2>2, SeqTaken
    <3>2. QED
      BY <2>1, <3>1
  <2>4. io'.pc # "idle" => \A i \in DOMAIN io'.buf : io'.buf[i].comp = owner[io'.conn]
    BY <2>2, <2>3, <1>6
  <2>5. \A j \in Conn : compOf'[j] # NoClient => state'[compOf'[j]].out > 1
    BY CompsStay
  <2>6. \A j \in Conn : \A i \in DOMAIN up[j] : up[j][i].comp = owner[j]
    BY <1>1 DEF OwnNames
  <2>7. \A j \in Conn : \A i \in DOMAIN up'[j] : up'[j][i].comp = owner[j]
    <3>1. DOMAIN << >> = {}
      BY SeqNone
    <3>2. QED
      BY <2>6, <3>1, <1>4
  <2>8. QED
    BY <2>4, <2>5, <2>7, <1>1, <1>2 DEF OwnNames
<1>9. SocketsInv'
  BY <1>1, <1>2, <1>3, <1>4, <1>6 DEF SocketsInv
<1>10. SessionsStay
  <2>1. \A j \in Conn : Ended(j) => Ended(j)'
    BY <1>5, GatewayEnds
  <2>2. QED
    BY <2>1, <1>1, <1>2 DEF SessionsStay, SessionPart
<1>11. SessionsServe'
  BY <1>4, <1>10, ServedStay, SubscribersSame
<1>12. \A j \in Conn : SendersKeep(j)
  BY <1>6, NoSender
<1>13. QED
  BY <1>5, <1>7, <1>8, <1>9, <1>11, <1>12, GatewayNumbers

LEMMA CheckedGrows ==
  ASSUME LinkInv, Numbers, NEW k \in Conn, NEW m \in UpMessage, LoggedOn(k), Checked(k, m),
         UNCHANGED seqRows
  PROVE  RowsPositive' /\ NumbersGrow
<1> DEFINE c == compOf[k]
           checked == validateSequence(state[c], m.seq)
<1>1. NumberPart /\ RowsPositive /\ OwnNames
  BY LinkInvIs DEF Kept, GatewayParts, Numbers
<1>2. c \in Clients /\ state[c] \in SessionState /\ m.seq \in Nat /\ state[c].out > 1
  BY <1>1, UpMessageIs DEF NumberPart, LoggedOn, OwnNames
<1>3. Renumbers(c, state[c], checked, checked, checked)
  BY <1>1, CheckedRenumbers
<1>4. checked \in SessionState /\ checked.known = state[c].known /\ state[c].known
  <2>1. PICK old \in SessionState, n \in Nat : old = state[c] /\ n = m.seq
    BY <1>2
  <2>2. validateSequence(old, n) \in SessionState /\ validateSequence(old, n).known = old.known
    BY StatesKept
  <2>3. state[c].known
    BY <1>1, <1>2 DEF RowsPositive
  <2>4. QED
    BY <2>1, <2>2, <2>3
<1>5. checked.out = state[c].out /\ state[c].out \in Nat
  BY <1>2 DEF validateSequence, SessionState
<1> HIDE DEF checked, c
<1>6. /\ checked.known /\ state[c].out <= state[c].out /\ state[c].out = checked.out
      /\ checked.out <= checked.out
  BY <1>4, <1>5
<1>7. QED
  BY <1>1, <1>3, <1>6, RenumberedGrows

(* The session of a connection that is logged on is served.                 *)
LEMMA SessionServed ==
  ASSUME LinkInv, LinkInv', Numbers, NEW k \in Conn, k \in sessions, LoggedOn(k), NumbersGrow,
         UNCHANGED <<sessions, sessionId, nextSession, compOf, owner>>
  PROVE  Serves(sessionId[k])'
<1>1. SessionPart /\ OwnNames /\ SocketsInv /\ MeetTypes
  BY LinkInvIs, MeetTypesAre DEF Kept, GatewayParts, Numbers
<1>2. compOf[k] # NoClient /\ compOf[k] = owner[k] /\ state'[compOf[k]].out > 1
  BY <1>1, CompsStay DEF LoggedOn, OwnNames
<1>3. sessionId[k] < nextSession /\ \A j \in sessions : sessionId[j] = sessionId[k] => j = k
  BY <1>1 DEF SessionPart
<1>4. QED
  BY <1>2, <1>3 DEF Serves, Serving

LEMMA MessageNumbers ==
  ASSUME LinkInv, LinkInv', Numbers, UNCHANGED clientVars, NEW k \in Conn, NEW m,
         \/ RefuseMessage(k, m) \/ HandleIgnored(k, m)
         \/ HandleNewOrder(k, m) \/ HandleAmend(k, m)
  PROVE  Numbers'
<1> USE DEF tableVars, coreVars, marketVars
<1>1. /\ NumberPart /\ CorePart /\ CorePart' /\ SessionPart /\ MeetTypes /\ RowsPositive
  BY LinkInvIs, LinkInvNextIs, MeetTypesAre DEF Kept, GatewayParts, Numbers
<1>2. At(k, m) /\ io' = HandledIo
  BY DEF RefuseMessage, HandleIgnored, HandleNewOrder, HandleAmend
<1>3. /\ io.pc = "handle" /\ io.conn = k /\ m \in UpMessage /\ k \in sessions
      /\ m.type \in {"NewOrder", "Cancel", "Replace"} => m.ref \in Ref
  BY <1>2, AtOwner, UpMessageIs
<1>4. /\ UNCHANGED <<down, cliEnd, broken, sending, sessions, sessionId, nextSession, compOf, owner>>
      /\ subscribed' \subseteq subscribed /\ UNCHANGED targets
  BY DEF RefuseMessage, HandleIgnored, HandleNewOrder, HandleAmend, wireVars, clientVars
<1>5. CASE RefuseMessage(k, m)
  <2>1. CloseServer(io.conn) /\ UNCHANGED <<state, dbTasks, seqRows, orders, commands>>
    BY <1>3, <1>5 DEF RefuseMessage
  <2>2. NumbersGrow /\ RowsPositive'
    BY <2>1, <1>1, SameNumbersGrow
  <2>3. QED
    BY <2>1, <2>2, <1>2, <1>3, <1>4, HandledNumbers
<1>6. CASE ~RefuseMessage(k, m)
  <2>1. LoggedOn(k) /\ Checked(k, m) /\ UNCHANGED <<wireVars, seqRows>>
    BY <1>6 DEF HandleIgnored, HandleNewOrder, HandleAmend
  <2>2. NumbersGrow /\ RowsPositive' /\ UNCHANGED <<up, srvEnd>>
    BY <2>1, <1>3, CheckedGrows DEF wireVars
  <2>3. Serves(sessionId[k])'
    BY <2>1, <2>2, <1>3, <1>4, SessionServed
  <2>4. PICK s : s = sessionId[k]
    OBVIOUS
  <2>5. Serves(s)'
    BY <2>3, <2>4, <1>4 DEF Serves, Serving
  <2>6. CASE HandleIgnored(k, m)
    <3>1. UNCHANGED <<orders, commands>>
      BY <2>6 DEF HandleIgnored
    <3>2. QED
      BY <3>1, <2>2, <1>2, <1>3, <1>4, HandledNumbers
  <2>7. ASSUME NEW cmd \in Command, cmd.session = s, commands' = Append(commands, cmd)
        PROVE  \A i \in DOMAIN commands' :
                 \/ \E j \in DOMAIN commands : commands'[i].session = commands[j].session
                 \/ Serves(commands[i].session)'
    <3>1. /\ DOMAIN commands' = DOMAIN commands \cup {Len(commands) + 1}
          /\ \A i \in DOMAIN commands : commands'[i] = commands[i]
          /\ commands'[Len(commands) + 1] = cmd
      BY <2>7, <1>1, SeqAppended DEF CorePart
    <3>2. ASSUME NEW i \in DOMAIN commands', i \notin DOMAIN commands
          PROVE  Serves(commands[i].session)'
      <4>1. commands'[i].session = s
        BY <2>7, <3>1, <3>2
      <4>2. QED
        BY <4>1, <2>5 DEF Serves, Serving
    <3>3. QED
      BY <3>1, <3>2
  <2>8. CASE HandleNewOrder(k, m)
    <3> DEFINE order == [status |-> "queued", session |-> s]
               cmd == [type |-> "NewOrder", ref |-> m.ref, session |-> s]
    <3>1. /\ orders' = [orders EXCEPT ![m.ref] = order] /\ commands' = Append(commands, cmd)
          /\ m.type = "NewOrder"
      BY <2>4, <2>8 DEF HandleNewOrder
    <3>2. m.ref \in Ref /\ cmd \in Command /\ cmd.session = s /\ order.session = s
      BY <2>4, <3>1, <1>1, <1>3 DEF Command, SessionPart
    <3> HIDE DEF order, cmd
    <3>3. \A r \in Ref : orders'[r].session = orders[r].session \/ orders'[r].session = s
      BY <3>1, <3>2, <1>1 DEF CorePart
    <3>4. \A r \in Ref : orders'[r].session = orders[r].session \/ Serves(orders[r].session)'
      BY <2>5, <3>3 DEF Serves, Serving
    <3>5. \A i \in DOMAIN commands' :
            \/ \E j \in DOMAIN commands : commands'[i].session = commands[j].session
            \/ Serves(commands[i].session)'
      BY <2>7, <3>1, <3>2
    <3>6. QED
      BY <2>2, <3>4, <3>5, <1>2, <1>3, <1>4, HandledNumbers
  <2>9. CASE HandleAmend(k, m)
    <3> DEFINE cmd == [type |-> m.type, ref |-> m.ref, session |-> s]
    <3>1. /\ UNCHANGED orders /\ commands' \in {commands, Append(commands, cmd)}
          /\ m.type \in {"Cancel", "Replace"}
      BY <2>4, <2>9 DEF HandleAmend
    <3>2. cmd \in Command /\ cmd.session = s
      BY <2>4, <3>1, <1>1, <1>3 DEF Command, SessionPart
    <3> HIDE DEF cmd
    <3>3. \A i \in DOMAIN commands' :
            \/ \E j \in DOMAIN commands : commands'[i].session = commands[j].session
            \/ Serves(commands[i].session)'
      BY <2>7, <3>1, <3>2
    <3>4. QED
      BY <2>2, <3>1, <3>3, <1>2, <1>3, <1>4, HandledNumbers
  <2>10. QED
    BY <1>6, <2>6, <2>8, <2>9
<1>7. QED
  BY <1>5, <1>6

(* A logout is done with: the CompID is forgotten and the socket closed.    *)
LEMMA CloseNumbers ==
  ASSUME LinkInv, LinkInv', Numbers, UNCHANGED clientVars, cleanupConnection \/ IoClose
  PROVE  Numbers'
<1> USE DEF tableVars, coreVars, marketVars
<1>1. /\ IoPart /\ NumberPart /\ SessionPart /\ MeetTypes /\ OwnNames /\ SocketsInv /\ HangUps
      /\ RowsPositive
  BY LinkInvIs, MeetTypesAre DEF Kept, GatewayParts, Numbers
<1>2. UNCHANGED <<down, cliEnd, broken, sending, sessions, sessionId, nextSession, state, dbTasks,
                  seqRows, orders, commands, owner, ui, status, subscribed, targets>>
  BY DEF cleanupConnection, IoClose, wireVars, clientVars
<1>3. NumbersGrow /\ RowsPositive'
  BY <1>1, <1>2, SameNumbersGrow
<1>4. CASE IoClose
  <2>1. CloseServer(io.conn) /\ io' = HandledIo /\ io.pc # "idle" /\ UNCHANGED compOf
    BY <1>4 DEF IoClose
  <2>2. QED
    BY <2>1, <1>2, <1>3, HandledNumbers
<1>5. CASE cleanupConnection
  <2>1. PICK k : k = io.conn
    OBVIOUS
  <2>2. /\ compOf' = [compOf EXCEPT ![k] = NoClient] /\ io' = [io EXCEPT !.pc = "close"]
        /\ io.pc = "cleanup" /\ UNCHANGED <<up, srvEnd>>
    BY <2>1, <1>5 DEF cleanupConnection, wireVars
  <2>3. k \in Conn /\ Ended(k) /\ io'.conn = k /\ io'.pc = "close" /\ io'.buf = io.buf
    BY <2>1, <2>2, <1>1 DEF IoPart, IoState, HangUps
  <2>4. GatewayQuiet
    BY <2>2, <1>2 DEF GatewayQuiet
  <2>5. \A j \in Conn : Ended(j) => Ended(j)'
    BY <2>4, GatewayEnds
  <2>6. HangUps'
    BY <2>3, <2>5 DEF HangUps, Ended
  <2>7. \A j \in Conn : compOf'[j] = compOf[j] \/ (j = k /\ compOf'[j] = NoClient)
    BY <2>2, <1>1 DEF NumberPart
  <2>8. OwnNames'
    BY <2>1, <2>2, <2>3, <2>7, <1>1, <1>2 DEF OwnNames
  <2>9. SocketsInv'
    BY <2>1, <2>2, <2>3, <1>1, <1>2 DEF SocketsInv
  <2>10. SessionsStay
    BY <2>3, <2>5, <2>7, <1>1, <1>2 DEF SessionsStay, SessionPart
  <2>11. SessionsServe'
    BY <2>2, <2>10, <1>2, <1>3, ServedStay, SubscribersSame
  <2>12. \A j \in Conn : SendersKeep(j)
    BY <2>3, <1>2, NoSender
  <2>13. QED
    BY <2>4, <2>6, <2>8, <2>9, <2>11, <2>12, <1>3, GatewayNumbers
<1>6. QED
  BY <1>4, <1>5

(* A thread of the gateway writes the message it has numbered.              *)
LEMMA WriteNumbers ==
  ASSUME LinkInv, LinkInv', Numbers,
         UNCHANGED <<clientVars, up, cliEnd, srvEnd, broken, state, dbTasks, seqRows, sessions,
                     sessionId, nextSession, compOf, commands, orders, subscribed, targets>>,
         NEW k \in Conn, NEW m \in DownMessage, cliEnd[k] # "none", WriteDown(k, m), Follows(k, m),
         io'.pc # "write" \/ UNCHANGED io,
         \A t \in Workers : sending'[t] = sending[t] \/ sending'[t] = NotSending,
         ~IoSends(k)', \A t \in Workers : ~WorkerSends(t, k)',
         io'.pc # "idle" => /\ io.pc # "idle" /\ io'.conn = io.conn
                            /\ io'.buf = io.buf \/ io'.buf = Tail(io.buf),
         io'.pc \in {"cleanup", "close"} =>
           \/ UNCHANGED io
           \/ io.conn = k /\ m.type = "Logout" /\ k \in sessions
  PROVE  Numbers'
<1>1. /\ WireTypeOK /\ NetPart /\ IoPart /\ NumberPart /\ SessionPart /\ MeetTypes /\ MeetTypes'
      /\ OwnNames /\ SocketsInv /\ HangUps /\ RowsPositive /\ ClientNumbers
      /\ \A j \in Conn : InTurn(j)
  BY LinkInvIs, LinkInvNextIs, ClientPartsAre, MeetTypesAre, MeetTypesNextAre
     DEF Kept, GatewayParts, ClientParts, Numbers
<1>2. UNCHANGED <<owner, ui, net, file, status>>
  BY DEF clientVars
<1>3. NumbersGrow /\ RowsPositive'
  BY <1>1, SameNumbersGrow
<1>4. /\ \A j \in Conn : j # k => down'[j] = down[j]
      /\ Ended(k) => Ended(k)'
      /\ m.type = "Logout" /\ srvEnd[k] \in {"open", "closed"} => Ended(k)'
  BY <1>1, WrittenIs
<1>5. ASSUME NEW j \in Conn, j # k
      PROVE  /\ Ended(j) => Ended(j)'
             /\ owner[j] # NoClient => Turns(j)
  <2>1. InTurn(j) /\ down'[j] = down[j]
    BY <1>1, <1>4, <1>5
  <2>2. QED
    BY <2>1, <1>1, GatewayTurns
<1>6. \A j \in Conn : Ended(j) => Ended(j)'
  BY <1>4, <1>5
<1>7. HangUps'
  <2>1. CASE UNCHANGED io
    <3>1. io.pc \in {"cleanup", "close"} => io.conn \in Conn /\ Ended(io.conn)
      BY <1>1 DEF HangUps, IoPart
    <3>2. ASSUME io.pc \in {"cleanup", "close"} PROVE Ended(io.conn)'
      <4>1. PICK j \in Conn : j = io.conn
        BY <3>1, <3>2
      <4>2. Ended(j)'
        BY <3>1, <3>2, <4>1, <1>6
      <4>3. QED
        BY <4>1, <4>2, <2>1 DEF Ended
    <3>3. QED
      BY <2>1, <3>2, <1>1 DEF HangUps
  <2>2. CASE io'.pc \in {"cleanup", "close"} /\ io.conn = k /\ m.type = "Logout" /\ k \in sessions
    <3>1. Ended(k)'
      BY <2>2, <1>1, <1>4 DEF SocketsInv
    <3>2. io'.conn = k /\ io'.pc # "write"
      BY <2>2
    <3>3. QED
      BY <3>1, <3>2 DEF HangUps, Ended
  <2>3. CASE io'.pc \notin {"write", "cleanup", "close"}
    BY <2>3 DEF HangUps
  <2>4. QED
    BY <2>1, <2>2, <2>3
<1>8. OwnNames'
  <2>1. io'.pc # "idle" => \A i \in DOMAIN io'.buf : io'.buf[i].comp = owner[io'.conn]
    <3>1. CASE io'.pc # "idle"
      <4>1. /\ io.buf \in Seq(UpMessage) /\ io.buf # << >> /\ io'.conn = io.conn
            /\ \A i \in DOMAIN io.buf : io.buf[i].comp = owner[io.conn]
        BY <3>1, <1>1 DEF IoPart, IoState, OwnNames
      <4>2. PICK b : b = Tail(io.buf)
        OBVIOUS
      <4>3. \A i \in DOMAIN b : i + 1 \in DOMAIN io.buf /\ b[i] = io.buf[i + 1]
        BY <4>1, <4>2, SeqTaken
      <4>4. \A i \in DOMAIN b : b[i].comp = owner[io.conn]
        BY <4>1, <4>3
      <4>5. io'.buf = io.buf \/ io'.buf = b
        BY <3>1, <4>2
      <4>6. QED
        BY <4>1, <4>4, <4>5
    <3>2. QED
      BY <3>1
  <2>2. QED
    BY <2>1, <1>1, <1>2 DEF OwnNames
<1>9. SocketsInv'
  <2>1. io'.pc # "idle" => io'.conn \in sessions
    BY <1>1 DEF SocketsInv
  <2>2. \A t \in Workers : sending'[t] # NotSending => cliEnd[sending'[t].conn] # "none"
    BY <1>1 DEF SocketsInv
  <2>3. \A j \in Conn : cliEnd[j] = "none" => down'[j] = << >>
    BY <1>1, <1>4 DEF SocketsInv
  <2>4. QED
    BY <2>1, <2>2, <2>3, <1>1, <1>2 DEF SocketsInv
<1>10. SessionsStay
  BY <1>1, <1>2, <1>6 DEF SessionsStay, SessionPart
<1>11. SessionsServe'
  BY <1>3, <1>10, ServedStay, SubscribersSame
<1>12. ClientNumbers'
  BY <1>1, <1>2 DEF ClientNumbers
<1>13. ASSUME NEW j \in Conn PROVE InTurn(j)'
  <2>1. CASE j = k
    <3>1. owner[k] # NoClient
      BY <1>1 DEF SocketsInv
    <3>2. QED
      BY <2>1, <3>1, <1>1, WrittenTurn
  <2>2. CASE j # k
    <3>1. IoSends(j)' => IoSends(j) /\ Head(io'.reply) = Head(io.reply)
      BY DEF IoSends
    <3>2. \A t \in Workers : WorkerSends(t, j)' =>
            WorkerSends(t, j) /\ Head(sending'[t].message) = Head(sending[t].message)
      BY DEF WorkerSends
    <3>3. SendersKeep(j)
      BY <3>1, <3>2 DEF SendersKeep
    <3>4. InTurn(j) /\ owner'[j] = owner[j] /\ (owner[j] # NoClient => Turns(j))
      BY <2>2, <1>1, <1>2, <1>5
    <3>5. QED
      BY <3>3, <3>4, <1>1, <1>3, TurnStays
  <2>3. QED
    BY <2>1, <2>2
<1>14. QED
  BY <1>3, <1>7, <1>8, <1>9, <1>11, <1>12, <1>13 DEF Numbers

LEMMA IoWriteNumbers ==
  ASSUME LinkInv, LinkInv', Numbers, OneSender, UNCHANGED clientVars, IoWrite
  PROVE  Numbers'
<1> USE DEF tableVars, coreVars, marketVars
<1>1. /\ IoPart /\ MeetTypes /\ SocketsInv /\ HangUps /\ \A j \in Conn : InTurn(j)
  BY LinkInvIs, MeetTypesAre DEF Kept, GatewayParts, Numbers
<1>2. /\ io.pc = "write" /\ WriteDown(io.conn, Head(io.reply))
      /\ UNCHANGED <<up, cliEnd, srvEnd, broken, state, dbTasks, seqRows, sessions, sessionId,
                     nextSession, compOf, commands, orders, sending, subscribed, targets>>
  BY DEF IoWrite
<1>3. PICK k \in Conn, m \in DownMessage : k = io.conn /\ m = Head(io.reply)
  BY <1>1, <1>2 DEF MeetTypes
<1>4. IoSends(k) /\ k \in sessions /\ cliEnd[k] # "none"
  BY <1>1, <1>2, <1>3 DEF IoSends, SocketsInv
<1>5. Follows(k, m)
  BY <1>1, <1>3, <1>4 DEF InTurn, SocketsInv
<1>6. \A t \in Workers : ~WorkerSends(t, k)'
  BY <1>2, <1>4 DEF OneSender, WorkerSends
<1>7. CASE ~io.hangup
  <2>1. io' = HandledIo
    BY <1>7 DEF IoWrite
  <2>2. io'.pc # "idle" => io'.pc = "handle" /\ io'.conn = io.conn /\ io'.buf = Tail(io.buf)
    BY <2>1, <1>1, <1>2, IoHandled
  <2>3. io'.pc \notin {"write", "cleanup", "close"} /\ ~IoSends(k)'
    BY <2>2 DEF IoSends
  <2>4. QED
    BY <2>2, <2>3, <1>2, <1>3, <1>4, <1>5, <1>6, WriteNumbers
<1>8. CASE io.hangup
  <2>1. /\ io'.pc \in {"cleanup", "close"} /\ io'.conn = io.conn /\ io'.buf = io.buf
    BY <1>8, <1>1 DEF IoWrite, IoPart, IoState
  <2>2. m.type = "Logout"
    BY <1>1, <1>2, <1>3, <1>8 DEF HangUps
  <2>3. io'.pc # "write" /\ ~IoSends(k)'
    BY <2>1 DEF IoSends
  <2>4. QED
    BY <2>1, <2>2, <2>3, <1>2, <1>3, <1>4, <1>5, <1>6, WriteNumbers
<1>9. QED
  BY <1>7, <1>8

LEMMA WorkerWriteNumbers ==
  ASSUME LinkInv, LinkInv', Numbers, OneSender, UNCHANGED clientVars, NEW t \in Workers,
         WorkerWrite(t)
  PROVE  Numbers'
<1> USE DEF tableVars, coreVars, marketVars
<1>1. /\ SendPart /\ MeetTypes /\ SocketsInv /\ \A j \in Conn : InTurn(j)
  BY LinkInvIs, MeetTypesAre DEF Kept, GatewayParts, Numbers
<1>2. /\ sending[t] # NotSending /\ WriteDown(sending[t].conn, Head(sending[t].message))
      /\ sending' = [sending EXCEPT ![t] = NotSending]
      /\ UNCHANGED <<up, cliEnd, srvEnd, broken, state, dbTasks, seqRows, sessions, sessionId,
                     nextSession, compOf, commands, orders, io, subscribed, targets>>
  BY DEF WorkerWrite
<1>3. PICK k \in Conn, m \in DownMessage : k = sending[t].conn /\ m = Head(sending[t].message)
  BY <1>1, <1>2 DEF MeetTypes
<1>4. WorkerSends(t, k) /\ cliEnd[k] # "none"
  BY <1>1, <1>2, <1>3 DEF WorkerSends, SocketsInv
<1>5. Follows(k, m)
  BY <1>1, <1>3, <1>4 DEF InTurn, SocketsInv
<1>6. sending'[t] = NotSending /\ \A u \in Workers : u # t => sending'[u] = sending[u]
  BY <1>1, <1>2 DEF SendPart
<1>7. ~IoSends(k)' /\ \A u \in Workers : ~WorkerSends(u, k)'
  <2>1. ~IoSends(k) /\ \A u \in Workers : WorkerSends(u, k) => u = t
    BY <1>4 DEF OneSender
  <2>2. QED
    BY <2>1, <1>2, <1>6 DEF IoSends, WorkerSends
<1>8. QED
  BY <1>2, <1>3, <1>4, <1>5, <1>6, <1>7, WriteNumbers

(* A worker numbers a message for a session that is served, or sends none.  *)
LEMMA WorkerNumbers ==
  ASSUME LinkInv, LinkInv', Numbers, UNCHANGED <<clientVars, wireVars, sessions, sessionId,
           nextSession, compOf, seqRows, io>>,
         NEW t \in Workers, NEW type, NEW ref,
         \/ UNCHANGED <<state, dbTasks, sending>>
         \/ \E k \in sessions : Serving(k) /\ Send(t, k, type, ref),
         \A j \in Conn : Subscriber(j)' => Subscriber(j),
         \A r \in Ref : orders'[r].session = orders[r].session,
         \A i \in DOMAIN commands' : \E j \in DOMAIN commands :
           commands'[i].session = commands[j].session
  PROVE  Numbers'
<1>1. /\ SendPart /\ NumberPart /\ SessionPart /\ MeetTypes /\ RowsPositive /\ OwnNames
      /\ SocketsInv /\ HangUps
  BY LinkInvIs, MeetTypesAre DEF Kept, GatewayParts, Numbers
<1>2. UNCHANGED <<up, down, cliEnd, srvEnd, broken, owner, ui, status>>
  BY DEF wireVars, clientVars
<1>3. GatewayQuiet
  BY <1>2 DEF GatewayQuiet
<1>4. \A j \in Conn : Ended(j) => Ended(j)'
  BY <1>3, GatewayEnds
<1>5. /\ NumbersGrow /\ RowsPositive'
      /\ \A u \in Workers : sending'[u] # NotSending => cliEnd[sending'[u].conn] # "none"
      /\ \A j \in Conn : owner[j] # NoClient => SendersKeep(j)
  <2>1. CASE UNCHANGED <<state, dbTasks, sending>>
    <3>1. \A j \in Conn : SendersKeep(j)
      BY <2>1, NoSender
    <3>2. QED
      BY <2>1, <3>1, <1>1, SameNumbersGrow DEF SocketsInv
  <2>2. CASE \E k \in sessions : Serving(k) /\ Send(t, k, type, ref)
    <3>1. PICK k \in sessions :
            /\ Serving(k)
            /\ sending' = [sending EXCEPT ![t] = [conn |-> k, message |->
                             <<[type |-> type, seq |-> NextNumber(k), ref |-> ref]>>]]
            /\ IF compOf[k] = NoClient THEN UNCHANGED <<state, dbTasks>>
               ELSE LET c == compOf[k]
                        final == useNextOutboundSequence(state[c])
                    IN  /\ state' = [state EXCEPT ![c] = final]
                        /\ dbTasks' = dbTasks \o Persisted(c, state[c], state[c], final)
      BY <2>2 DEF Send
    <3>2. /\ k \in sessions /\ k \in Conn /\ cliEnd[k] # "none" /\ owner[k] \in Clients
          /\ compOf[k] \in {NoClient, owner[k]} /\ state[owner[k]].out > 1
          /\ compOf[k] # NoClient \/ Ended(k)
      BY <3>1, <1>1 DEF SessionPart, SocketsInv, OwnNames, MeetTypes, Serving
    <3> DEFINE m == [type |-> type, seq |-> NextNumber(k), ref |-> ref]
    <3>3. m.type = type /\ m.seq = NextNumber(k) /\ Head(<<m>>) = m
      BY SeqSingle
    <3>4. /\ sending'[t] = [conn |-> k, message |-> <<m>>]
          /\ \A u \in Workers : u # t => sending'[u] = sending[u]
      BY <3>1, <1>1 DEF SendPart
    <3> HIDE DEF m
    <3>5. sending'[t].conn = k /\ Head(sending'[t].message) = m
      BY <3>3, <3>4
    <3>6. /\ NumbersGrow /\ RowsPositive'
          /\ m.seq < state'[owner[k]].out /\ (Ended(k) \/ m.seq >= state[owner[k]].out)
      <4>1. CASE compOf[k] = NoClient
        <5>1. UNCHANGED <<state, dbTasks>> /\ m.seq = 1 /\ Ended(k)
          BY <4>1, <3>1, <3>2, <3>3 DEF NextNumber
        <5>2. QED
          BY <5>1, <3>2, <1>1, SameNumbersGrow
      <4>2. CASE compOf[k] # NoClient
        <5> DEFINE c == compOf[k]
                   final == useNextOutboundSequence(state[c])
        <5>1. /\ c = owner[k] /\ c \in Clients /\ state[c] \in SessionState
              /\ m.seq = state[c].out
          BY <4>2, <3>2, <3>3, <1>1, WireAssumption DEF NumberPart, NextNumber
        <5>2. /\ state' = [state EXCEPT ![c] = final]
              /\ dbTasks' = dbTasks \o Persisted(c, state[c], state[c], final)
          BY <4>2, <3>1
        <5>3. state[c].known
          BY <5>1, <3>2, <1>1 DEF RowsPositive
        <5> HIDE DEF c
        <5>4. final \in SessionState /\ final.known
          BY <5>1, <5>3, StatesKept
        <5>5. final.in = final.in /\ final.out = final.out
          OBVIOUS
        <5>6. /\ RowsPositive' /\ NumbersGrow /\ state[c].out \in Nat
              /\ state'[c].out = state[c].out + 1
          BY <5>1, <5>2, <5>3, <5>4, <5>5, <1>1, TakenGrows
        <5>7. QED
          BY <5>1, <5>6
      <4>3. QED
        BY <4>1, <4>2
    <3>7. Taken(k, m)
      BY <3>6 DEF Taken
    <3>8. ASSUME NEW j \in Conn PROVE SendersKeep(j)
      <4>1. IoSends(j)' => IoSends(j) /\ Head(io'.reply) = Head(io.reply)
        BY DEF IoSends
      <4>2. ASSUME NEW u \in Workers, WorkerSends(u, j)'
            PROVE  \/ WorkerSends(u, j) /\ Head(sending'[u].message) = Head(sending[u].message)
                   \/ Taken(j, Head(sending'[u].message))
        <5>1. CASE u = t
          <6>1. j = k
            BY <5>1, <4>2, <3>5 DEF WorkerSends
          <6>2. QED
            BY <6>1, <5>1, <3>5, <3>7
        <5>2. CASE u # t
          BY <5>2, <4>2, <3>4 DEF WorkerSends
        <5>3. QED
          BY <5>1, <5>2
      <4>3. QED
        BY <4>1, <4>2 DEF SendersKeep
    <3>9. \A u \in Workers : sending'[u] # NotSending => cliEnd[sending'[u].conn] # "none"
      BY <3>2, <3>4, <3>5, <1>1 DEF SocketsInv
    <3>10. QED
      BY <3>6, <3>8, <3>9
  <2>3. QED
    BY <2>1, <2>2
<1>6. HangUps'
  <2>1. CASE io.pc \in {"cleanup", "close"}
    <3>1. PICK j \in Conn : j = io.conn
      BY <2>1, <1>1 DEF MeetTypes
    <3>2. Ended(j)'
      BY <2>1, <3>1, <1>1, <1>4 DEF HangUps
    <3>3. QED
      BY <2>1, <3>1, <3>2 DEF HangUps, Ended
  <2>2. CASE io.pc \notin {"cleanup", "close"}
    BY <2>2, <1>1 DEF HangUps
  <2>3. QED
    BY <2>1, <2>2
<1>7. OwnNames'
  <2>1. \A j \in Conn : compOf[j] # NoClient => state'[compOf[j]].out > 1
    BY <1>5, CompsStay
  <2>2. QED
    BY <2>1, <1>1, <1>2 DEF OwnNames
<1>8. SocketsInv'
  BY <1>1, <1>2, <1>5 DEF SocketsInv
<1>9. SessionsStay
  BY <1>1, <1>2, <1>4 DEF SessionsStay, SessionPart
<1>10. SessionsServe'
  <2>1. SubscribersStay
    BY <1>2 DEF SubscribersStay
  <2>2. QED
    BY <2>1, <1>5, <1>9, ServedStay
<1>11. QED
  BY <1>3, <1>5, <1>6, <1>7, <1>8, <1>10, GatewayNumbers

(* A report, for the session the worker finds.                              *)
LEMMA ReportNumbers ==
  ASSUME LinkInv, LinkInv', Numbers, UNCHANGED <<clientVars, wireVars, sessions, sessionId,
           nextSession, compOf, seqRows, io, subscribed, targets>>,
         NEW t \in Workers, NEW s \in Nat, NEW ref, Serves(s), onExecutionReport(t, s, ref),
         \A r \in Ref : orders'[r].session = orders[r].session,
         \A i \in DOMAIN commands' : \E j \in DOMAIN commands :
           commands'[i].session = commands[j].session
  PROVE  Numbers'
<1>1. \/ UNCHANGED <<state, dbTasks, sending>>
      \/ \E k \in sessions : Serving(k) /\ Send(t, k, "Report", ref)
  BY DEF onExecutionReport, Serves
<1>2. \A j \in Conn : Subscriber(j)' => Subscriber(j)
  BY DEF Subscriber
<1>3. QED
  BY <1>1, <1>2, WorkerNumbers

(* An increment, for the subscribers the publisher had when it was made.    *)
LEMMA IncrementNumbers ==
  ASSUME LinkInv, LinkInv', Numbers, UNCHANGED clientVars, NEW t \in Workers,
         publishIncremental(t) \/ SendIncrement(t)
  PROVE  Numbers'
<1> USE DEF tableVars, coreVars, marketVars
<1>1. CorePart /\ SessionsServe
  BY LinkInvIs DEF Kept, GatewayParts, Numbers
<1>2. UNCHANGED <<wireVars, sessions, sessionId, nextSession, compOf, seqRows, io, orders, commands>>
  BY DEF publishIncremental, SendIncrement
<1>3. \A i \in DOMAIN commands' : \E j \in DOMAIN commands :
        commands'[i].session = commands[j].session
  BY <1>2
<1>4. CASE publishIncremental(t)
  <2>1. /\ UNCHANGED <<state, dbTasks, sending, subscribed>>
        /\ targets' = [targets EXCEPT ![t] = subscribed]
    BY <1>4 DEF publishIncremental
  <2>2. \A u \in Workers : targets'[u] \in {targets[u], subscribed}
    BY <2>1, <1>1 DEF CorePart
  <2>3. \A j \in Conn : Subscriber(j)' => Subscriber(j)
    BY <2>1, <2>2 DEF Subscriber
  <2>4. QED
    BY <2>1, <2>3, <1>2, <1>3, WorkerNumbers
<1>5. CASE SendIncrement(t)
  <2>1. PICK k \in targets[t] :
          /\ targets' = [targets EXCEPT ![t] = @ \ {k}]
          /\ IF k \in sessions THEN Send(t, k, "MarketData", 0)
             ELSE UNCHANGED <<state, dbTasks, sending>>
    BY <1>5 DEF SendIncrement
  <2>2. k \in Conn /\ Subscriber(k) /\ UNCHANGED subscribed
    BY <2>1, <1>1, <1>5 DEF CorePart, Subscriber, SendIncrement
  <2>3. \A u \in Workers : targets'[u] \subseteq targets[u]
    BY <2>1, <1>1 DEF CorePart
  <2>4. \A j \in Conn : Subscriber(j)' => Subscriber(j)
    BY <2>2, <2>3 DEF Subscriber
  <2>5. \/ UNCHANGED <<state, dbTasks, sending>>
        \/ \E j \in sessions : Serving(j) /\ Send(t, j, "MarketData", 0)
    BY <2>1, <2>2, <1>1 DEF SessionsServe
  <2>6. QED
    BY <2>4, <2>5, <1>2, <1>3, WorkerNumbers
<1>6. QED
  BY <1>4, <1>5

LEMMA OrderNumbers ==
  ASSUME LinkInv, LinkInv', Numbers, UNCHANGED clientVars, NEW t \in Workers,
         ProcessCommand(t) \/ \E r \in Ref : MatchOrder(t, r)
  PROVE  Numbers'
<1> USE DEF tableVars, coreVars, marketVars
<1>1. CorePart /\ SessionsServe
  BY LinkInvIs DEF Kept, GatewayParts, Numbers
<1>2. UNCHANGED <<wireVars, sessions, sessionId, nextSession, compOf, seqRows, io, subscribed,
                  targets>>
  BY DEF ProcessCommand, MatchOrder
<1>3. ASSUME NEW r \in Ref, NEW st, orders' = [orders EXCEPT ![r].status = st]
      PROVE  \A q \in Ref : orders'[q].session = orders[q].session
  BY <1>1, <1>3 DEF CorePart, Core
<1>4. CASE \E r \in Ref : MatchOrder(t, r)
  <2>1. PICK r \in Ref : MatchOrder(t, r)
    BY <1>4
  <2>2. /\ orders' = [orders EXCEPT ![r].status = "done"] /\ UNCHANGED commands
        /\ onExecutionReport(t, orders[r].session, r)
    BY <2>1 DEF MatchOrder
  <2>3. PICK s \in Nat : s = orders[r].session
    BY <1>1 DEF CorePart, Core
  <2>4. Serves(s) /\ onExecutionReport(t, s, r)
    BY <2>2, <2>3, <1>1 DEF SessionsServe
  <2>5. QED
    BY <2>2, <2>4, <1>2, <1>3, ReportNumbers
<1>5. CASE ProcessCommand(t)
  <2> DEFINE cmd == Head(commands)
             order == orders[cmd.ref]
  <2>1. /\ commands \in Seq(Command) /\ commands # << >> /\ commands' = Tail(commands)
        /\ onExecutionReport(t, IF order.status = "done" THEN cmd.session ELSE order.session,
                             cmd.ref)
        /\ \E st : orders' = [orders EXCEPT ![cmd.ref].status = st]
    BY <1>1, <1>5 DEF ProcessCommand, CorePart
  <2>2. /\ cmd \in Command /\ 1 \in DOMAIN commands /\ cmd = commands[1]
        /\ \A i \in DOMAIN commands' : i + 1 \in DOMAIN commands /\ commands'[i] = commands[i + 1]
    BY <2>1, SeqTaken
  <2>3. cmd.ref \in Ref /\ cmd.session \in Nat /\ order.session \in Nat
    BY <2>2, <1>1 DEF Command, CorePart, Core
  <2>4. Serves(cmd.session) /\ Serves(order.session)
    <3>1. PICK i \in DOMAIN commands : cmd = commands[i]
      BY <2>2
    <3>2. Serves(commands[i].session)
      BY <1>1 DEF SessionsServe
    <3>3. QED
      BY <3>1, <3>2, <2>3, <1>1 DEF SessionsServe
  <2> HIDE DEF cmd, order
  <2>5. PICK s \in Nat : /\ s = IF order.status = "done" THEN cmd.session ELSE order.session
                         /\ Serves(s)
    <3>1. PICK a \in Nat, b \in Nat : a = cmd.session /\ b = order.session
      BY <2>3
    <3>2. Serves(a) /\ Serves(b)
      BY <3>1, <2>4
    <3>3. QED
      BY <3>1, <3>2
  <2>6. onExecutionReport(t, s, cmd.ref)
    BY <2>1, <2>5
  <2>7. \A i \in DOMAIN commands' : \E j \in DOMAIN commands :
          commands'[i].session = commands[j].session
    BY <2>2
  <2>8. \A q \in Ref : orders'[q].session = orders[q].session
    BY <2>1, <2>3, <1>3
  <2>9. QED
    BY <2>5, <2>6, <2>7, <2>8, <1>2, ReportNumbers
<1>6. QED
  BY <1>4, <1>5

(* The database worker writes a row that was queued.                        *)
LEMMA TaskNumbers ==
  ASSUME LinkInv, LinkInv', Numbers, UNCHANGED clientVars, RunTask
  PROVE  Numbers'
<1> USE DEF tableVars, coreVars, marketVars
<1>1. /\ NumberPart /\ SessionPart /\ MeetTypes /\ RowsPositive /\ OwnNames /\ SocketsInv /\ HangUps
  BY LinkInvIs, MeetTypesAre DEF Kept, GatewayParts, Numbers
<1>2. UNCHANGED <<up, down, cliEnd, srvEnd, broken, owner, ui, status, sessions, sessionId,
                  nextSession, compOf, state, io, sending, commands, orders, subscribed, targets>>
  BY DEF RunTask, wireVars, clientVars
<1>3. NumbersGrow
  BY <1>1, <1>2, SameNumbersGrow
<1>4. RowsPositive'
  <2>1. /\ dbTasks \in Seq(SeqTask) /\ dbTasks # << >> /\ dbTasks' = Tail(dbTasks)
    BY <1>1 DEF RunTask, NumberPart
  <2>2. /\ Head(dbTasks) \in SeqTask /\ 1 \in DOMAIN dbTasks /\ Head(dbTasks) = dbTasks[1]
        /\ \A i \in DOMAIN dbTasks' : i + 1 \in DOMAIN dbTasks /\ dbTasks'[i] = dbTasks[i + 1]
    BY <2>1, SeqTaken
  <2>3. \A i \in DOMAIN dbTasks' : dbTasks'[i].comp # NoClient => dbTasks'[i].out >= 1
    BY <2>2, <1>1 DEF RowsPositive
  <2>4. PICK task \in SeqTask : task = Head(dbTasks) /\ (task.comp # NoClient => task.out >= 1)
    BY <2>2, <1>1 DEF RowsPositive
  <2>5. \/ seqRows' = seqRows
        \/ /\ task.comp \in Clients /\ task.comp # NoClient
           /\ seqRows' = [seqRows EXCEPT ![task.comp] = [in |-> task.in, out |-> task.out]]
    BY <2>4 DEF RunTask, SeqTask
  <2>6. \A c \in Clients : seqRows'[c].out >= 1
    BY <2>4, <2>5, <1>1 DEF RowsPositive, NumberPart
  <2>7. QED
    BY <2>3, <2>6, <1>1, <1>2 DEF RowsPositive
<1>5. GatewayQuiet
  BY <1>2 DEF GatewayQuiet
<1>6. \A j \in Conn : Ended(j) => Ended(j)'
  BY <1>5, GatewayEnds
<1>7. HangUps'
  <2>1. CASE io.pc \in {"cleanup", "close"}
    <3>1. PICK j \in Conn : j = io.conn
      BY <2>1, <1>1 DEF MeetTypes
    <3>2. Ended(j)'
      BY <2>1, <3>1, <1>1, <1>6 DEF HangUps
    <3>3. QED
      BY <2>1, <3>1, <3>2, <1>2 DEF HangUps, Ended
  <2>2. CASE io.pc \notin {"cleanup", "close"}
    BY <2>2, <1>1, <1>2 DEF HangUps
  <2>3. QED
    BY <2>1, <2>2
<1>8. OwnNames' /\ SocketsInv'
  BY <1>1, <1>2 DEF OwnNames, SocketsInv
<1>9. SessionsStay
  BY <1>1, <1>2, <1>6 DEF SessionsStay, SessionPart
<1>10. SessionsServe'
  BY <1>2, <1>3, <1>9, ServedStay, SubscribersSame
<1>11. \A j \in Conn : SendersKeep(j)
  BY <1>2, NoSender
<1>12. QED
  BY <1>3, <1>4, <1>5, <1>7, <1>8, <1>10, <1>11, GatewayNumbers

(* Every step of a gateway that is not restarted keeps the numbers in turn.  *)
LEMMA ServerNumbers ==
  ASSUME LinkInv, LinkInv', Numbers, OneSender, UNCHANGED clientVars,
         IoStep \/ RunTask \/ \E t \in Workers : WorkerStep(t)
  PROVE  Numbers'
<1>1. CASE IoStep
  <2>1. CASE \E k \in Conn : Accept(k) \/ Receive(k) \/ ReadError(k)
    BY <2>1, ConnectionNumbers
  <2>2. CASE \E k \in Conn : \E m \in {io.buf[i] : i \in DOMAIN io.buf} :
               \/ RefuseLogon(k, m) \/ AcceptLogon(k, m) \/ HandleLogout(k, m)
               \/ RefuseMessage(k, m) \/ HandleAnswered(k, m) \/ HandleIgnored(k, m)
               \/ HandleNewOrder(k, m) \/ HandleAmend(k, m)
    <3>1. PICK k \in Conn, m \in {io.buf[i] : i \in DOMAIN io.buf} :
               \/ RefuseLogon(k, m) \/ AcceptLogon(k, m) \/ HandleLogout(k, m)
               \/ RefuseMessage(k, m) \/ HandleAnswered(k, m) \/ HandleIgnored(k, m)
               \/ HandleNewOrder(k, m) \/ HandleAmend(k, m)
      BY <2>2
    <3>2. QED
      BY <3>1, AnswerNumbers, MessageNumbers
  <2>3. CASE IoWrite
    BY <2>3, IoWriteNumbers
  <2>4. CASE cleanupConnection \/ IoClose
    BY <2>4, CloseNumbers
  <2>5. QED
    BY <1>1, <2>1, <2>2, <2>3, <2>4 DEF IoStep
<1>2. CASE RunTask
  BY <1>2, TaskNumbers
<1>3. CASE \E t \in Workers : WorkerStep(t)
  <2>1. PICK t \in Workers : WorkerStep(t)
    BY <1>3
  <2>2. CASE WorkerWrite(t)
    BY <2>2, WorkerWriteNumbers
  <2>3. CASE ProcessCommand(t) \/ \E r \in Ref : MatchOrder(t, r)
    BY <2>3, OrderNumbers
  <2>4. CASE publishIncremental(t) \/ SendIncrement(t)
    BY <2>4, IncrementNumbers
  <2>5. QED
    BY <2>1, <2>2, <2>3, <2>4 DEF WorkerStep
<1>4. QED
  BY <1>1, <1>2, <1>3

-----------------------------------------------------------------------------
(* The steps of a client and the numbers.                                   *)

Reading(c, k) == net[c].pc \in {"expected", "sender", "set"} /\ net[c].conn = k

(* What is expected on k after the step was expected before it, or is 1.    *)
Expects(k) ==
  /\ mem'[k].in \in Expected(k) \cup {1}
  /\ \A c \in Clients :
       ui'[c].pc = "set" /\ ui'[c].conn = k => ui'[c].in \in Expected(k) \cup {1}
  /\ \A c \in Clients : net'[c].pc \in {"sender", "write"} /\ net'[c].conn = k =>
       net'[c].in \in Expected(k) \cup {1}

(* The client reads on where it was.                                        *)
ReadsOn(k) ==
  \A c \in Clients : /\ Reading(c, k)' <=> Reading(c, k)
                     /\ Reading(c, k) => net'[c].buf = net[c].buf

LEMMA ExpectedHas ==
  ASSUME NEW k \in Conn
  PROVE  /\ mem[k].in \in Expected(k)
         /\ \A c \in Clients : ui[c].pc = "set" /\ ui[c].conn = k => ui[c].in \in Expected(k)
         /\ \A c \in Clients :
              net[c].pc \in {"sender", "write"} /\ net[c].conn = k => net[c].in \in Expected(k)
BY DEF Expected

LEMMA ExpectsFrom ==
  ASSUME NEW k \in Conn, mem'[k].in \in Expected(k) \cup {1},
         \A c \in Clients : \/ ui'[c] = ui[c] \/ ui'[c].pc # "set" \/ ui'[c].conn # k
                            \/ ui'[c].in \in Expected(k),
         \A c \in Clients : \/ net'[c] = net[c] \/ net'[c].pc \notin {"sender", "write"}
                            \/ net'[c].conn # k \/ net'[c].in \in Expected(k)
  PROVE  Expects(k)
BY ExpectedHas DEF Expects

LEMMA ReadsOnSame ==
  ASSUME NEW k \in Conn, owner'[k] = owner[k], ReadsOn(k), down'[k] = down[k]
  PROVE  ToRead(k)' = ToRead(k)
<1>1. Reads(k)' <=> Reads(k)
  BY DEF Reads, ReadsOn, Reading
<1>2. Reads(k) => net'[owner'[k]].buf = net[owner[k]].buf
  BY DEF Reads, ReadsOn, Reading
<1>3. QED
  BY <1>1, <1>2 DEF ToRead

LEMMA ReadsOnFront ==
  ASSUME WireTypeOK, NetPart, NEW k \in Conn, owner'[k] = owner[k], ReadsOn(k), down'[k] = << >>
  PROVE  FrontOf(ToRead(k)', ToRead(k))
<1>1. Reads(k)' <=> Reads(k)
  BY DEF Reads, ReadsOn, Reading
<1>2. Reads(k) => net'[owner'[k]].buf = net[owner[k]].buf /\ net[owner[k]].buf \in Seq(DownMessage)
  BY DEF Reads, ReadsOn, Reading, NetPart, NetState
<1>3. << >> \in Seq(DownMessage) /\ down[k] \in Seq(DownMessage)
  BY SeqNone DEF WireTypeOK
<1>4. PICK a \in Seq(DownMessage) : ToRead(k) = a \o down[k] /\ ToRead(k)' = a \o << >>
  BY <1>1, <1>2, <1>3 DEF ToRead
<1>5. a \o << >> = a
  BY ConcatEmptySeq
<1>6. PICK s : s = a \o down[k]
  OBVIOUS
<1>7. /\ Len(a) \in Nat /\ Len(down[k]) \in Nat /\ DOMAIN a = 1..Len(a)
      /\ DOMAIN s = 1..(Len(a) + Len(down[k]))
      /\ \A i \in 1..(Len(a) + Len(down[k])) : s[i] = IF i <= Len(a) THEN a[i]
                                                    ELSE down[k][i - Len(a)]
  BY <1>3, <1>6, SeqJoined
<1>8. FrontOf(a, s)
  BY <1>7 DEF FrontOf
<1>9. QED
  BY <1>4, <1>5, <1>6, <1>8 DEF FrontOf

(* A step of a client, or of the network, that handles no message of k.     *)
LEMMA ClientTurns ==
  ASSUME MeetTypes, MeetTypes', NEW k \in Conn, InTurn(k), owner[k] # NoClient,
         owner'[k] = owner[k], Expects(k), broken \subseteq broken',
         srvEnd[k] = "closed" => srvEnd'[k] = "closed",
         cliEnd[k] = "closed" => cliEnd'[k] = "closed",
         \/ ToRead(k)' = ToRead(k)
         \/ cliEnd'[k] = "closed" /\ Within(ToRead(k)', ToRead(k))
         \/ k \in broken' /\ FrontOf(ToRead(k)', ToRead(k))
  PROVE  Turns(k)
<1>1. /\ ToRead(k) \in Seq(DownMessage) /\ ToRead(k)' \in Seq(DownMessage)
      /\ Expected(k) \subseteq Nat /\ Expected(k)' \subseteq Nat
  BY DEF MeetTypes
<1>2. \A n \in Expected(k)' : n \in Expected(k) \cup {1}
  BY DEF Expected, Expects
<1>3. ASSUME NEW n \in Expected(k)' PROVE n >= 1 /\ \E e \in Expected(k) : n <= e
  <2>1. \A e \in Expected(k) : e >= 1
    BY DEF InTurn
  <2>2. CASE n \in Expected(k)
    BY <2>1, <2>2, <1>1
  <2>3. CASE n = 1
    <3>1. mem[k].in \in Expected(k)
      BY ExpectedHas
    <3>2. QED
      BY <2>1, <2>3, <3>1, <1>1
  <2>4. QED
    BY <2>2, <2>3, <1>2
<1>4. \A n \in Expected(k)' : ExpectedBy(k, n)
  BY <1>3 DEF ExpectedBy
<1>5. Within(ToRead(k)', ToRead(k))
  BY DEF Within, FrontOf
<1>6. Ended(k) => Ended(k)'
  <2>1. CASE ToRead(k)' = ToRead(k)
    BY <2>1 DEF Ended, Carries
  <2>2. CASE cliEnd'[k] = "closed" \/ k \in broken'
    BY <2>2 DEF Ended, Carries
  <2>3. QED
    BY <2>1, <2>2
<1>7. ASSUME cliEnd'[k] # "closed", NEW n \in Expected(k)' PROVE Rising(ToRead(k)', n)
  <2>1. PICK e \in Expected(k) : n <= e
    BY <1>3, <1>7
  <2>2. Rising(ToRead(k), e)
    BY <1>7 DEF InTurn
  <2>3. Rising(ToRead(k), n)
    BY <2>1, <2>2, <1>1, RisingLess
  <2>4. FrontOf(ToRead(k)', ToRead(k))
    BY <1>7 DEF FrontOf
  <2>5. PICK s \in Seq(DownMessage), t \in Seq(DownMessage) : s = ToRead(k) /\ t = ToRead(k)'
    BY <1>1
  <2>6. Rising(t, n)
    BY <2>3, <2>4, <2>5, <1>1, FrontRises
  <2>7. QED
    BY <2>5, <2>6
<1>8. QED
  BY <1>4, <1>5, <1>6, <1>7 DEF Turns

LEMMA ClientKeeps ==
  ASSUME LinkInv, LinkInv', Numbers, UNCHANGED serverVars,
         \A k \in Conn : owner[k] # NoClient => Turns(k),
         \A k \in Conn : owner[k] = NoClient => InTurn(k)',
         OwnNames', SocketsInv', ClientNumbers',
         \A k \in Conn : srvEnd'[k] \in {"none", "pending"} => srvEnd[k] \in {"none", "pending"}
  PROVE  Numbers'
<1> USE DEF serverVars, tableVars, coreVars, marketVars
<1>1. /\ IoPart /\ SessionPart /\ MeetTypes /\ MeetTypes'
      /\ SocketsInv /\ HangUps /\ RowsPositive /\ \A k \in Conn : InTurn(k)
  BY LinkInvIs, MeetTypesAre, MeetTypesNextAre DEF Kept, GatewayParts, Numbers
<1>2. NumbersGrow /\ RowsPositive'
  BY <1>1, SameNumbersGrow
<1>3. ASSUME NEW k \in sessions
      PROVE  k \in Conn /\ owner[k] # NoClient /\ owner'[k] = owner[k] /\ (Ended(k) => Ended(k)')
  BY <1>1 DEF SessionPart, SocketsInv, Turns
<1>4. HangUps'
  <2>1. CASE io.pc \in {"cleanup", "close"}
    <3>1. PICK j \in sessions : j = io.conn
      BY <2>1, <1>1 DEF SocketsInv
    <3>2. Ended(j)'
      BY <2>1, <3>1, <1>1, <1>3 DEF HangUps
    <3>3. QED
      BY <2>1, <3>1, <3>2 DEF HangUps, Ended
  <2>2. CASE io.pc \notin {"cleanup", "close"}
    BY <2>2, <1>1 DEF HangUps
  <2>3. QED
    BY <2>1, <2>2
<1>5. SessionsStay
  BY <1>1, <1>3 DEF SessionsStay, SessionPart
<1>6. SessionsServe'
  <2>1. SubscribersStay
    BY DEF SubscribersStay, Subscriber
  <2>2. QED
    BY <2>1, <1>2, <1>5, ServedStay
<1>7. \A k \in Conn : SendersKeep(k)
  BY NoSender
<1>8. ASSUME NEW k \in Conn PROVE InTurn(k)'
  <2>1. CASE owner[k] = NoClient
    BY <2>1
  <2>2. CASE owner[k] # NoClient
    <3>1. Turns(k) /\ owner'[k] = owner[k] /\ InTurn(k)
      BY <2>2, <1>1 DEF Turns
    <3>2. QED
      BY <3>1, <1>1, <1>2, <1>7, TurnStays
  <2>3. QED
    BY <2>1, <2>2
<1>9. QED
  BY <1>2, <1>4, <1>6, <1>8 DEF Numbers

(* What a step may do to the threads of client d and to connection j.       *)
UiMoves(d) ==
  \/ ui'[d] = ui[d]
  \/ /\ ui'[d].pc # "idle" => Head(ui'[d].buf).comp = d
     /\ ui'[d].pc = "set" => ui'[d].in \in Expected(ui'[d].conn)
NetMoves(d) ==
  \/ net'[d] = net[d]
  \/ /\ net'[d].pc \in {"sender", "write"} => net'[d].in \in Expected(net'[d].conn)
     /\ net'[d].pc \in {"sender", "set"} => Head(net'[d].buf).type # "Logout"
FileMoves(d) ==
  \/ file'[d].in \in {file[d].in, 1}
  \/ \E j \in Conn : owner[j] = d /\ file'[d].in \in Expected(j)
WireMoves(j) ==
  /\ \/ up'[j] \in {up[j], << >>}
     \/ \E m \in UpMessage : m.comp = owner[j] /\ up'[j] = Append(up[j], m)
  /\ cliEnd'[j] = "none" => cliEnd[j] = "none" /\ srvEnd'[j] = srvEnd[j] /\ down'[j] = down[j]
  /\ cliEnd[j] = "none" => cliEnd'[j] = "none" \/ owner[j] # NoClient
  /\ cliEnd[j] = "closed" => cliEnd'[j] = "closed"
  /\ cliEnd'[j] = "open" => status'[j] # "Disconnected"
  /\ srvEnd'[j] = srvEnd[j] \/ (j \notin sessions /\ srvEnd[j] = "none")
ReadMoves(j) ==
  \/ ToRead(j)' = ToRead(j)
  \/ cliEnd'[j] = "closed" /\ Within(ToRead(j)', ToRead(j))
  \/ j \in broken' /\ FrontOf(ToRead(j)', ToRead(j))

LEMMA StepKeeps ==
  ASSUME LinkInv, LinkInv', Numbers, UNCHANGED <<serverVars, owner>>, broken \subseteq broken',
         \A j \in Conn : mem'[j].in \in Expected(j) \cup {1},
         \A d \in Clients : UiMoves(d) /\ NetMoves(d) /\ FileMoves(d),
         \A j \in Conn : WireMoves(j) /\ ReadMoves(j)
  PROVE  Numbers'
<1> USE DEF serverVars, tableVars, coreVars, marketVars
<1>1. /\ WireTypeOK /\ IoPart /\ SendPart /\ SessionPart /\ NumberPart /\ MeetTypes /\ MeetTypes'
      /\ OwnNames /\ SocketsInv /\ ClientNumbers /\ RowsPositive /\ \A k \in Conn : InTurn(k)
  BY LinkInvIs, MeetTypesAre, MeetTypesNextAre DEF Kept, GatewayParts, Numbers
<1>2. ASSUME NEW k \in Conn, owner[k] # NoClient PROVE Turns(k)
  <2>1. Expects(k)
    <3>1. \A d \in Clients : \/ ui'[d] = ui[d] \/ ui'[d].pc # "set" \/ ui'[d].conn # k
                             \/ ui'[d].in \in Expected(k)
      BY DEF UiMoves
    <3>2. \A d \in Clients : \/ net'[d] = net[d] \/ net'[d].pc \notin {"sender", "write"}
                             \/ net'[d].conn # k \/ net'[d].in \in Expected(k)
      BY DEF NetMoves
    <3>3. QED
      BY <3>1, <3>2, ExpectsFrom
  <2>2. /\ srvEnd[k] = "closed" => srvEnd'[k] = "closed"
        /\ cliEnd[k] = "closed" => cliEnd'[k] = "closed"
    BY DEF WireMoves
  <2>3. InTurn(k) /\ owner'[k] = owner[k]
    BY <1>1
  <2>4. ReadMoves(k)
    OBVIOUS
  <2>5. QED
    BY <1>1, <1>2, <2>1, <2>2, <2>3, <2>4, ClientTurns DEF ReadMoves
<1>3. \A k \in Conn : owner[k] = NoClient => InTurn(k)'
  BY DEF InTurn
<1>4. OwnNames'
  <2>1. ASSUME NEW k \in Conn PROVE \A i \in DOMAIN up'[k] : up'[k][i].comp = owner[k]
    <3>1. \A i \in DOMAIN up[k] : up[k][i].comp = owner[k]
      BY <1>1 DEF OwnNames
    <3>2. CASE up'[k] \in {up[k], << >>}
      <4>1. DOMAIN << >> = {}
        BY SeqNone
      <4>2. QED
        BY <3>1, <3>2, <4>1
    <3>3. CASE \E m \in UpMessage : m.comp = owner[k] /\ up'[k] = Append(up[k], m)
      <4>1. PICK m \in UpMessage : m.comp = owner[k] /\ up'[k] = Append(up[k], m)
        BY <3>3
      <4>2. PICK s \in Seq(UpMessage) : s = up[k]
        BY <1>1 DEF WireTypeOK
      <4>3. /\ DOMAIN Append(s, m) = DOMAIN s \cup {Len(s) + 1}
            /\ \A i \in DOMAIN s : Append(s, m)[i] = s[i]
            /\ Append(s, m)[Len(s) + 1] = m
        BY SeqAppended
      <4>4. QED
        BY <3>1, <4>1, <4>2, <4>3
    <3>4. QED
      BY <3>2, <3>3 DEF WireMoves
  <2>2. \A d \in Clients : ui'[d].pc # "idle" => Head(ui'[d].buf).comp = d
    BY <1>1 DEF UiMoves, OwnNames
  <2>3. QED
    BY <2>1, <2>2, <1>1 DEF OwnNames
<1>5. SocketsInv'
  <2>1. ASSUME NEW k \in Conn
        PROVE  /\ owner[k] = NoClient => cliEnd'[k] = "none"
               /\ cliEnd'[k] = "none" => srvEnd'[k] = "none" /\ down'[k] = << >>
               /\ cliEnd'[k] = "open" => status'[k] # "Disconnected"
               /\ k \in sessions => srvEnd'[k] \in {"open", "closed"}
    BY <1>1 DEF SocketsInv, WireMoves
  <2>2. \A t \in Workers : sending[t] # NotSending => cliEnd'[sending[t].conn] # "none"
    BY <1>1 DEF SocketsInv, WireMoves, SendPart
  <2>3. QED
    BY <2>1, <2>2, <1>1 DEF SocketsInv
<1>6. ClientNumbers'
  <2>1. ASSUME NEW d \in Clients PROVE file'[d].in >= 1 /\ file'[d].in <= state[d].out
    <3>1. file[d].in >= 1 /\ file[d].in <= state[d].out /\ state[d].out >= 1
      BY <1>1 DEF ClientNumbers, RowsPositive
    <3>2. ASSUME NEW j \in Conn, owner[j] = d, file'[d].in \in Expected(j)
          PROVE  file'[d].in >= 1 /\ file'[d].in <= state[d].out
      BY <3>2, <1>1, WireAssumption DEF InTurn
    <3>3. QED
      BY <3>1, <3>2 DEF FileMoves
  <2>2. \A d \in Clients : net'[d].pc \in {"sender", "set"} => Head(net'[d].buf).type # "Logout"
    BY <1>1 DEF ClientNumbers, NetMoves
  <2>3. QED
    BY <2>1, <2>2 DEF ClientNumbers
<1>7. \A k \in Conn : srvEnd'[k] \in {"none", "pending"} => srvEnd[k] \in {"none", "pending"}
  BY DEF WireMoves
<1>8. QED
  BY <1>2, <1>3, <1>4, <1>5, <1>6, <1>7, ClientKeeps

(* What a step leaves alone moves as it may.                                *)
LEMMA StoresSame ==
  ASSUME UNCHANGED <<mem, file>>
  PROVE  /\ \A j \in Conn : mem'[j].in \in Expected(j) \cup {1}
         /\ \A d \in Clients : FileMoves(d)
BY ExpectedHas DEF FileMoves

LEMMA StoresSet ==
  ASSUME StorePart, NEW k \in Conn, NEW i, NEW o, setSeqNums(k, i, o), i \in Expected(k) \cup {1}
  PROVE  /\ \A j \in Conn : mem'[j].in \in Expected(j) \cup {1}
         /\ \A d \in Clients : FileMoves(d)
<1>1. /\ mem' = [mem EXCEPT ![k] = [in |-> i, out |-> o]]
      /\ file' = [file EXCEPT ![owner[k]] = [in |-> i, out |-> o]]
  BY DEF setSeqNums
<1>2. mem'[k].in = i /\ \A j \in Conn : j # k => mem'[j] = mem[j]
  BY <1>1 DEF StorePart
<1>3. \A d \in Clients : file'[d] = file[d] \/ (d = owner[k] /\ file'[d].in = i)
  BY <1>1 DEF StorePart
<1>4. QED
  BY <1>2, <1>3, ExpectedHas DEF FileMoves

LEMMA WireSame ==
  ASSUME SocketsInv, UNCHANGED <<wireVars, status>>
  PROVE  broken \subseteq broken' /\ \A j \in Conn : WireMoves(j)
BY DEF SocketsInv, WireMoves, wireVars

LEMMA ReadSame ==
  ASSUME UNCHANGED owner
  PROVE  \A j \in Conn : ReadsOn(j) /\ down'[j] = down[j] => ReadMoves(j)
BY ReadsOnSame DEF ReadMoves

LEMMA NetSame ==
  ASSUME UNCHANGED net
  PROVE  (\A j \in Conn : ReadsOn(j)) /\ (\A d \in Clients : NetMoves(d))
BY DEF ReadsOn, Reading, NetMoves

LEMMA UiKept ==
  ASSUME UNCHANGED ui
  PROVE  \A d \in Clients : UiMoves(d)
BY DEF UiMoves

(* A socket is closed, if it was open; what was in transit is lost.         *)
LEMMA ClosesSocket ==
  ASSUME WireTypeOK, RestPart, SocketsInv, NEW k \in Conn, disconnect(k),
         UNCHANGED <<up, srvEnd, broken>>
  PROVE  /\ broken \subseteq broken' /\ \A j \in Conn : WireMoves(j)
         /\ cliEnd[k] # "none" => cliEnd'[k] = "closed"
         /\ \A j \in Conn : \/ cliEnd'[j] = cliEnd[j] /\ down'[j] = down[j]
                            \/ j = k /\ cliEnd'[j] = "closed" /\ down'[j] = << >>
<1>1. CASE status[k] = "Disconnected"
  <2>1. UNCHANGED <<status, cliEnd, down>>
    BY <1>1 DEF disconnect
  <2>2. cliEnd[k] # "none" => cliEnd[k] = "closed"
    BY <1>1 DEF SocketsInv, WireTypeOK
  <2>3. QED
    BY <2>1, <2>2, WireSame DEF wireVars
<1>2. CASE status[k] # "Disconnected"
  <2>1. /\ status' = [status EXCEPT ![k] = "Disconnected"]
        /\ IF cliEnd[k] = "open" THEN CloseClient(k) ELSE UNCHANGED <<cliEnd, down>>
    BY <1>2 DEF disconnect
  <2>2. \A j \in Conn : j # k => status'[j] = status[j]
    BY <2>1 DEF RestPart
  <2>3. \A j \in Conn : \/ cliEnd'[j] = cliEnd[j] /\ down'[j] = down[j] /\ (j = k => cliEnd[j] # "open")
                        \/ /\ j = k /\ cliEnd[j] = "open"
                           /\ cliEnd'[j] = "closed" /\ down'[j] = << >>
    BY <2>1 DEF CloseClient, WireTypeOK
  <2>4. cliEnd[k] # "none" => cliEnd'[k] = "closed"
    BY <2>3 DEF WireTypeOK
  <2>5. \A j \in Conn : WireMoves(j)
    BY <2>2, <2>3 DEF WireMoves, SocketsInv
  <2>6. QED
    BY <2>3, <2>4, <2>5
<1>3. QED
  BY <1>1, <1>2

LEMMA ClosesRead ==
  ASSUME WireTypeOK, NetPart, UNCHANGED owner, \A j \in Conn : ReadsOn(j), NEW k,
         \A j \in Conn : \/ cliEnd'[j] = cliEnd[j] /\ down'[j] = down[j]
                         \/ j = k /\ cliEnd'[j] = "closed" /\ down'[j] = << >>
  PROVE  \A j \in Conn : ReadMoves(j)
<1>1. ASSUME NEW j \in Conn PROVE ReadMoves(j)
  <2>1. CASE down'[j] = down[j]
    BY <2>1, ReadSame
  <2>2. CASE cliEnd'[j] = "closed" /\ down'[j] = << >>
    <3>1. FrontOf(ToRead(j)', ToRead(j))
      BY <2>2, ReadsOnFront
    <3>2. QED
      BY <2>2, <3>1 DEF FrontOf, Within, ReadMoves
  <2>3. QED
    BY <2>1, <2>2
<1>2. QED
  BY <1>1

(* A message is written, or swallowed by a connection that is gone.         *)
LEMMA WritesUp ==
  ASSUME WireTypeOK, RestPart, SocketsInv, NEW k \in Conn, NEW m \in UpMessage, m.comp = owner[k],
         doWrite(k, m), UNCHANGED <<down, cliEnd, srvEnd, broken, status>>
  PROVE  \A j \in Conn : WireMoves(j)
<1>1. \A j \in Conn : up'[j] = up[j] \/ (j = k /\ up'[j] = Append(up[j], m))
  BY DEF doWrite, WriteUp, WireTypeOK
<1>2. QED
  BY <1>1 DEF WireMoves, SocketsInv

LEMMA ClientHolds ==
  ASSUME LinkInv, Numbers
  PROVE  /\ WireTypeOK /\ OwnerPart /\ StorePart /\ UiPart /\ NetPart /\ RestPart /\ WireInv
         /\ ClientParts /\ MeetTypes /\ OwnNames /\ SocketsInv /\ ClientNumbers
         /\ \A k \in Conn : InTurn(k)
BY LinkInvIs, ClientPartsAre, MeetTypesAre DEF Kept, ClientParts, Numbers

(* A send is started by a button.                                           *)
LEMMA StartsMessage ==
  ASSUME UiPart, NEW c \in Clients, NEW pc \in {"number", "target"},
         NEW type, NEW out, NEW ref, Opens(c, pc, type, out, ref)
  PROVE  \A d \in Clients : UiMoves(d)
<1> DEFINE m == Message(c, type, out, ref)
           u == [Idle EXCEPT !.pc = pc, !.conn = current[c], !.buf = <<m>>]
<1>1. m.comp = c
  BY DEF Message
<1> HIDE DEF m
<1>2. u.pc = pc /\ u.buf = <<m>> /\ Head(<<m>>) = m
  BY SeqSingle DEF Idle
<1>3. ui' = [ui EXCEPT ![c] = u]
  BY DEF Opens, m
<1> HIDE DEF u
<1>4. ui'[c] = u /\ \A d \in Clients : d # c => ui'[d] = ui[d]
  BY <1>3 DEF UiPart
<1>5. QED
  BY <1>1, <1>2, <1>4 DEF UiMoves

LEMMA ButtonNumbers ==
  ASSUME LinkInv, LinkInv', Numbers, UNCHANGED serverVars, NEW c \in Clients,
         \/ ForceDisconnect(c)
         \/ \E forceReset \in BOOLEAN : sendLogon(c, forceReset)
         \/ sendLogout(c)
         \/ \E type \in AppTypes : sendMessage(c, type)
  PROVE  Numbers'
<1>1. /\ WireTypeOK /\ StorePart /\ UiPart /\ NetPart /\ RestPart /\ WireInv /\ ClientParts
      /\ SocketsInv
  BY ClientHolds
<1>2. UNCHANGED <<owner, net>>
  BY DEF ForceDisconnect, sendLogon, sendLogout, sendMessage
<1>3. (\A j \in Conn : ReadsOn(j)) /\ (\A d \in Clients : NetMoves(d))
  BY <1>2, NetSame
<1>4. CASE ForceDisconnect(c)
  <2>1. PICK k \in Conn : k = current[c]
    BY <1>1, <1>4, PanelObject DEF ForceDisconnect
  <2>2. disconnect(k) /\ UNCHANGED <<up, srvEnd, broken, mem, file, ui>>
    BY <2>1, <1>4 DEF ForceDisconnect
  <2>3. /\ broken \subseteq broken' /\ \A j \in Conn : WireMoves(j)
        /\ \A j \in Conn : \/ cliEnd'[j] = cliEnd[j] /\ down'[j] = down[j]
                           \/ j = k /\ cliEnd'[j] = "closed" /\ down'[j] = << >>
    BY <2>2, <1>1, ClosesSocket
  <2>4. \A j \in Conn : ReadMoves(j)
    BY <2>3, <1>1, <1>2, <1>3, ClosesRead
  <2>5. /\ \A j \in Conn : mem'[j].in \in Expected(j) \cup {1}
        /\ \A d \in Clients : FileMoves(d) /\ UiMoves(d)
    BY <2>2, StoresSame, UiKept
  <2>6. QED
    BY <2>3, <2>4, <2>5, <1>2, <1>3, StepKeeps
<1>5. CASE ~ForceDisconnect(c)
  <2>1. UNCHANGED <<wireVars, status>>
    BY <1>5 DEF sendLogon, sendLogout, sendMessage
  <2>2. broken \subseteq broken' /\ \A j \in Conn : WireMoves(j)
    BY <2>1, <1>1, WireSame
  <2>3. \A j \in Conn : ReadMoves(j)
    BY <2>1, <1>2, <1>3, ReadSame DEF wireVars
  <2>4. PICK pc \in {"number", "target"} : \E type, out, ref : Opens(c, pc, type, out, ref)
    BY <1>5, StartOpens, LogonOpens DEF sendLogon, sendLogout, sendMessage
  <2>5. \A d \in Clients : UiMoves(d)
    BY <2>4, <1>1, StartsMessage
  <2>6. /\ \A j \in Conn : mem'[j].in \in Expected(j) \cup {1}
        /\ \A d \in Clients : FileMoves(d)
    <3>1. CASE UNCHANGED <<mem, file>>
      BY <3>1, StoresSame
    <3>2. CASE setSeqNums(current[c], 1, 1) /\ PanelStatus(c) = "Connected"
      <4>1. PICK k \in Conn : k = current[c]
        BY <3>2, <1>1, PanelObject
      <4>2. setSeqNums(k, 1, 1)
        BY <3>2, <4>1
      <4>3. QED
        BY <4>2, <1>1, StoresSet
    <3>3. QED
      BY <3>1, <3>2, <1>5 DEF sendLogon, sendLogout, sendMessage
  <2>7. QED
    BY <2>2, <2>3, <2>5, <2>6, <1>2, <1>3, StepKeeps
<1>6. QED
  BY <1>4, <1>5

LEMMA SendNumbers ==
  ASSUME LinkInv, LinkInv', Numbers, UNCHANGED serverVars, NEW c \in Clients, UiSends(c)
  PROVE  Numbers'
<1>1. /\ WireTypeOK /\ StorePart /\ UiPart /\ NetPart /\ RestPart /\ SocketsInv /\ OwnNames
  BY ClientHolds
<1>2. UNCHANGED <<owner, net>> /\ ui[c].pc # "idle"
  BY DEF UiSends, UiReadSender, UiReadTarget, UiWrite, UiAfter
<1>3. (\A j \in Conn : ReadsOn(j)) /\ (\A d \in Clients : NetMoves(d))
  BY <1>2, NetSame
<1>4. PICK k \in Conn : k = ui[c].conn
  BY <1>1, <1>2 DEF UiPart, UiBusy
<1>5. /\ owner[k] = c /\ ui[c].buf \in Seq(UpMessage) /\ ui[c].buf # << >> /\ cliEnd[k] # "none"
      /\ Head(ui[c].buf).comp = c
  BY <1>1, <1>2, <1>4 DEF UiPart, UiBusy, UiState, OwnNames
<1>6. CASE UiReadTarget(c)
  <2>1. /\ ui[c].pc = "target" /\ ui' = [ui EXCEPT ![c].pc = "set", ![c].in = mem[k].in]
        /\ UNCHANGED <<wireVars, status, mem, file>>
    BY <1>4, <1>6 DEF UiReadTarget
  <2>2. /\ ui'[c].conn = k /\ ui'[c].in = mem[k].in /\ ui'[c].buf = ui[c].buf
        /\ \A d \in Clients : d # c => ui'[d] = ui[d]
    BY <2>1, <1>1, <1>4 DEF UiPart, UiState
  <2>3. \A d \in Clients : UiMoves(d)
    BY <2>2, <1>5, ExpectedHas DEF UiMoves
  <2>4. broken \subseteq broken' /\ \A j \in Conn : WireMoves(j)
    BY <2>1, <1>1, WireSame
  <2>5. \A j \in Conn : ReadMoves(j)
    BY <2>1, <1>2, <1>3, ReadSame DEF wireVars
  <2>6. QED
    BY <2>1, <2>3, <2>4, <2>5, <1>2, <1>3, StoresSame, StepKeeps
<1>7. CASE UiAfter(c)
  <2>1. /\ ui' = [ui EXCEPT ![c] = Idle] /\ UNCHANGED <<wireVars, mem, file>>
        /\ \/ status' = [status EXCEPT ![k] = "LogonSent"]
           \/ status' = [status EXCEPT ![k] = "LoggingOut"]
    BY <1>4, <1>7 DEF UiAfter
  <2>2. \A d \in Clients : UiMoves(d)
    <3>1. ui'[c] = Idle /\ \A d \in Clients : d # c => ui'[d] = ui[d]
      BY <2>1, <1>1 DEF UiPart
    <3>2. QED
      BY <3>1, IdleIs DEF UiMoves
  <2>3. \A j \in Conn : status'[j] = status[j] \/ status'[j] # "Disconnected"
    BY <2>1, <1>1 DEF RestPart
  <2>4. broken \subseteq broken' /\ \A j \in Conn : WireMoves(j)
    BY <2>1, <2>3, <1>1 DEF WireMoves, SocketsInv, wireVars
  <2>5. \A j \in Conn : ReadMoves(j)
    BY <2>1, <1>2, <1>3, ReadSame DEF wireVars
  <2>6. QED
    BY <2>1, <2>2, <2>4, <2>5, <1>2, <1>3, StoresSame, StepKeeps
<1>8. CASE UiWrite(c)
  <2>1. PICK m \in UpMessage : m = Head(ui[c].buf)
    BY <1>5, SeqTaken
  <2>2. /\ ui[c].pc = "set" /\ setSeqNums(k, ui[c].in, m.seq + 1) /\ doWrite(k, m)
        /\ ui' = [ui EXCEPT ![c] = IF m.type \in {"Logon", "Logout"}
                                   THEN [@ EXCEPT !.pc = "after"] ELSE Idle]
        /\ UNCHANGED <<down, cliEnd, srvEnd, broken, status>>
    BY <2>1, <1>4, <1>8 DEF UiWrite
  <2>3. m.comp = owner[k]
    BY <2>1, <1>5
  <2>4. \A j \in Conn : WireMoves(j)
    BY <2>2, <2>3, <1>1, WritesUp
  <2>5. \A j \in Conn : ReadMoves(j)
    BY <2>2, <1>2, <1>3, ReadSame
  <2>6. ui[c].in \in Expected(k)
    BY <2>2, <1>4, ExpectedHas
  <2>7. /\ \A j \in Conn : mem'[j].in \in Expected(j) \cup {1}
        /\ \A d \in Clients : FileMoves(d)
    BY <2>2, <2>6, <1>1, StoresSet
  <2>8. \A d \in Clients : UiMoves(d)
    <3>1. /\ ui'[c] = Idle \/ (ui'[c].pc = "after" /\ ui'[c].buf = ui[c].buf)
          /\ \A d \in Clients : d # c => ui'[d] = ui[d]
      BY <2>2, <1>1 DEF UiPart, UiState
    <3>2. QED
      BY <3>1, <1>5, IdleIs DEF UiMoves
  <2>9. QED
    BY <2>2, <2>4, <2>5, <2>7, <2>8, <1>2, <1>3, StepKeeps
<1>9. CASE UiReadSender(c)
  <2> DEFINE m == [Head(ui[c].buf) EXCEPT !.seq = mem[k].out]
  <2>1. /\ ui' = [ui EXCEPT ![c].pc = "target", ![c].buf = <<m>>]
        /\ UNCHANGED <<wireVars, status, mem, file>>
    BY <1>4, <1>9 DEF UiReadSender
  <2>2. PICK h \in UpMessage : h = Head(ui[c].buf)
    BY <1>5, SeqTaken
  <2>3. m.comp = c
    BY <2>2, <1>5 DEF UpMessage
  <2> HIDE DEF m
  <2>4. Head(<<m>>) = m
    BY SeqSingle
  <2>5. /\ ui'[c].pc = "target" /\ ui'[c].buf = <<m>>
        /\ \A d \in Clients : d # c => ui'[d] = ui[d]
    BY <2>1, <1>1 DEF UiPart, UiState
  <2>6. \A d \in Clients : UiMoves(d)
    BY <2>3, <2>4, <2>5 DEF UiMoves
  <2>7. broken \subseteq broken' /\ \A j \in Conn : WireMoves(j)
    BY <2>1, <1>1, WireSame
  <2>8. \A j \in Conn : ReadMoves(j)
    BY <2>1, <1>2, <1>3, ReadSame DEF wireVars
  <2>9. QED
    BY <2>1, <2>6, <2>7, <2>8, <1>2, <1>3, StoresSame, StepKeeps
<1>10. QED
  BY <1>6, <1>7, <1>8, <1>9 DEF UiSends

LEMMA BeatNumbers ==
  ASSUME LinkInv, LinkInv', Numbers, UNCHANGED serverVars, NEW c \in Clients, NetBeat(c)
  PROVE  Numbers'
<1>1. WireTypeOK /\ StorePart /\ NetPart /\ RestPart /\ SocketsInv
  BY ClientHolds
<1>2. /\ net[c].pc = "write" /\ net' = [net EXCEPT ![c] = Idle]
      /\ UNCHANGED <<owner, ui, down, cliEnd, srvEnd, broken, status>>
  BY DEF NetBeat
<1>3. PICK k \in Conn : k = net[c].conn
  BY <1>1, <1>2 DEF NetPart, NetBusy
<1>4. owner[k] = c /\ net[c].out \in Nat
  BY <1>1, <1>2, <1>3 DEF NetPart, NetBusy, NetState
<1> DEFINE m == Message(c, "Heartbeat", net[c].out, 0)
<1>5. m \in UpMessage /\ m.comp = owner[k]
  BY <1>4 DEF Message, UpMessage, UpType
<1>6. setSeqNums(k, net[c].in, net[c].out + 1) /\ doWrite(k, m)
  BY <1>3 DEF NetBeat
<1> HIDE DEF m
<1>7. \A j \in Conn : WireMoves(j)
  BY <1>1, <1>2, <1>5, <1>6, WritesUp
<1>8. net[c].in \in Expected(k)
  BY <1>2, <1>3, ExpectedHas
<1>9. /\ \A j \in Conn : mem'[j].in \in Expected(j) \cup {1}
      /\ \A d \in Clients : FileMoves(d)
  BY <1>1, <1>6, <1>8, StoresSet
<1>10. net'[c] = Idle /\ \A d \in Clients : d # c => net'[d] = net[d]
  BY <1>1, <1>2 DEF NetPart
<1>11. \A d \in Clients : NetMoves(d)
  BY <1>10, IdleIs DEF NetMoves
<1>12. \A j \in Conn : ReadsOn(j)
  BY <1>2, <1>10, IdleIs DEF ReadsOn, Reading
<1>13. \A j \in Conn : ReadMoves(j)
  BY <1>2, <1>7, <1>12, ReadSame
<1>14. QED
  BY <1>2, <1>7, <1>9, <1>11, <1>13, UiKept, StepKeeps

(* The network thread reads a number and goes on.                           *)
LEMMA NetNumbers ==
  ASSUME LinkInv, LinkInv', Numbers, UNCHANGED serverVars, NEW c \in Clients,
         \/ NetReadExpected(c) \/ NetReadSender(c) \/ NetReadTarget(c)
         \/ \E k \in Conn : TimerFires(c, k)
  PROVE  Numbers'
<1>1. WireTypeOK /\ StorePart /\ NetPart /\ RestPart /\ SocketsInv /\ ClientNumbers
  BY ClientHolds
<1>2. UNCHANGED <<wireVars, status, owner, ui, mem, file>>
  BY DEF NetReadExpected, NetReadSender, NetReadTarget, TimerFires
<1>3. (\A j \in Conn : ReadsOn(j)) /\ \A d \in Clients : NetMoves(d)
  <2>1. CASE \/ NetReadExpected(c) \/ NetReadSender(c) \/ NetReadTarget(c)
    <3>1. PICK k \in Conn : k = net[c].conn
      BY <2>1, <1>1 DEF NetPart, NetBusy, NetReadExpected, NetReadSender, NetReadTarget
    <3>2. \A d \in Clients : d # c => net'[d] = net[d]
      BY <2>1, <1>1 DEF NetPart, NetReadExpected, NetReadSender, NetReadTarget
    <3>3. \/ /\ net[c].pc = "expected" /\ Head(net[c].buf).type # "Logout"
             /\ net'[c].pc = "sender" /\ net'[c].in = mem[k].in
             /\ net'[c].conn = k /\ net'[c].buf = net[c].buf
          \/ /\ net[c].pc = "sender" /\ net'[c].pc = "set"
             /\ net'[c].conn = k /\ net'[c].buf = net[c].buf
          \/ /\ net[c].pc = "target" /\ net'[c].pc = "write" /\ net'[c].in = mem[k].in
             /\ net'[c].conn = k
      BY <2>1, <3>1, <1>1 DEF NetPart, NetState, NetReadExpected, NetReadSender, NetReadTarget
    <3>4. NetMoves(c)
      BY <3>1, <3>3, <1>1, ExpectedHas DEF NetMoves, ClientNumbers
    <3>5. \A j \in Conn : ReadsOn(j)
      BY <3>1, <3>2, <3>3 DEF ReadsOn, Reading
    <3>6. QED
      BY <3>2, <3>4, <3>5 DEF NetMoves
  <2>2. CASE \E k \in Conn : TimerFires(c, k)
    <3>1. CASE UNCHANGED net
      BY <3>1, NetSame
    <3>2. CASE net # net'
      <4>1. PICK k \in Conn :
              /\ net[c] = Idle
              /\ net' = [net EXCEPT ![c] = [Idle EXCEPT !.pc = "target", !.conn = k, !.out = mem[k].out]]
        BY <2>2, <3>2 DEF TimerFires
      <4>2. net'[c].pc = "target" /\ \A d \in Clients : d # c => net'[d] = net[d]
        BY <4>1, <1>1 DEF NetPart, Idle
      <4>3. QED
        BY <4>1, <4>2, IdleIs DEF NetMoves, ReadsOn, Reading
    <3>3. QED
      BY <3>1, <3>2
  <2>3. QED
    BY <2>1, <2>2
<1>4. broken \subseteq broken' /\ \A j \in Conn : WireMoves(j)
  BY <1>1, <1>2, WireSame
<1>5. \A j \in Conn : ReadMoves(j)
  BY <1>2, <1>3, ReadSame DEF wireVars
<1>6. QED
  BY <1>2, <1>3, <1>4, <1>5, StoresSame, UiKept, StepKeeps

(* A message of the buffer is done with.                                    *)
LEMMA NetDoneReads ==
  ASSUME WireTypeOK, NetPart, NEW c \in Clients, net[c].pc \in {"expected", "sender", "set"},
         net' = [net EXCEPT ![c] = NetDone(c)], UNCHANGED owner,
         NEW k \in Conn, k = net[c].conn
  PROVE  /\ net'[c].pc \in {"idle", "expected"} /\ \A d \in Clients : d # c => net'[d] = net[d]
         /\ net[c].buf \in Seq(DownMessage) /\ net[c].buf # << >> /\ owner[k] = c
         /\ Tail(net[c].buf) \in Seq(DownMessage)
         /\ ToRead(k) = net[c].buf \o down[k] /\ ToRead(k)' = Tail(net[c].buf) \o down'[k]
         /\ \A j \in Conn : j # k => ReadsOn(j)
<1>1. net[c] \in NetState /\ NetBusy(c, net[c], owner, cliEnd)
  BY DEF NetPart
<1>2. owner[k] = c /\ net[c].buf # << >> /\ net[c].buf \in Seq(DownMessage)
  BY <1>1 DEF NetBusy, NetState
<1>3. /\ Tail(net[c].buf) \in Seq(DownMessage) /\ Len(net[c].buf) \in Nat
      /\ Len(Tail(net[c].buf)) = Len(net[c].buf) - 1
  BY <1>2, SeqTaken
<1>4. net'[c] = NetDone(c) /\ \A d \in Clients : d # c => net'[d] = net[d]
  BY DEF NetPart
<1>5. \/ net'[c] = Idle /\ Tail(net[c].buf) = << >>
      \/ net'[c].pc = "expected" /\ net'[c].conn = k /\ net'[c].buf = Tail(net[c].buf)
  <2>1. CASE Len(net[c].buf) = 1
    <3>0. PICK q \in Seq(DownMessage) : q = net[c].buf /\ q # << >> /\ Len(q) = 1
      BY <2>1, <1>2
    <3>1. PICK r \in Seq(DownMessage) : r = Tail(net[c].buf) /\ Len(r) = 0
      <4>1. Tail(q) \in Seq(DownMessage) /\ Len(Tail(q)) = Len(q) - 1
        BY <3>0, SeqTaken
      <4>2. Len(Tail(q)) = 0
        BY <3>0, <4>1
      <4>3. QED
        BY <3>0, <4>1, <4>2
    <3>2. r = << >>
      BY <3>1, EmptySeq
    <3>3. QED
      BY <2>1, <3>1, <3>2, <1>4 DEF NetDone
  <2>2. CASE Len(net[c].buf) # 1
    <3> DEFINE r == Tail(net[c].buf)
    <3>1. net'[c] = [Idle EXCEPT !.pc = "expected", !.conn = k, !.buf = r]
      BY <2>2, <1>4 DEF NetDone
    <3> HIDE DEF r
    <3>2. net'[c].pc = "expected" /\ net'[c].conn = k /\ net'[c].buf = r
      BY <3>1 DEF Idle
    <3>3. QED
      BY <3>2 DEF r
  <2>3. QED
    BY <2>1, <2>2
<1>6. net'[c].pc \in {"idle", "expected"} /\ (net'[c].pc = "idle" => net'[c] = Idle)
  BY <1>5, IdleIs
<1>7. owner'[k] = c /\ (net'[c] = Idle => net'[c].pc = "idle")
  BY <1>2, IdleIs
<1>8. ToRead(k) = net[c].buf \o down[k]
  BY <1>2 DEF ToRead, Reads
<1>9. ToRead(k)' = Tail(net[c].buf) \o down'[k]
  <2>1. CASE net'[c] = Idle /\ Tail(net[c].buf) = << >>
    BY <2>1, <1>7 DEF ToRead, Reads
  <2>2. CASE net'[c].pc = "expected" /\ net'[c].conn = k /\ net'[c].buf = Tail(net[c].buf)
    BY <2>2, <1>7 DEF ToRead, Reads
  <2>3. QED
    BY <2>1, <2>2, <1>5
<1>10. \A j \in Conn : j # k => ReadsOn(j)
  BY <1>4, <1>5, <1>7 DEF ReadsOn, Reading
<1>11. QED
  BY <1>2, <1>3, <1>4, <1>6, <1>8, <1>9, <1>10

(* The network thread gives the socket up.                                  *)
LEMMA CloseReadNumbers ==
  ASSUME LinkInv, LinkInv', Numbers, UNCHANGED serverVars, NEW c \in Clients,
         NetTooLow(c) \/ NetLogout(c) \/ \E k \in Conn : NetReadError(c, k) \/ WriteFailed(c, k)
  PROVE  Numbers'
<1>1. WireTypeOK /\ NetPart /\ RestPart /\ SocketsInv /\ WireTypeOK'
  BY ClientHolds DEF LinkInv, LinkTypeOK
<1>2. UNCHANGED <<owner, ui, mem, file, up, srvEnd, broken>>
  BY DEF NetTooLow, NetLogout, NetReadError, WriteFailed
<1>3. CASE \E k \in Conn : NetReadError(c, k) \/ WriteFailed(c, k)
  <2>1. PICK k \in Conn : disconnect(k) /\ UNCHANGED net
    BY <1>3 DEF NetReadError, WriteFailed
  <2>2. /\ broken \subseteq broken' /\ \A j \in Conn : WireMoves(j)
        /\ \A j \in Conn : \/ cliEnd'[j] = cliEnd[j] /\ down'[j] = down[j]
                           \/ j = k /\ cliEnd'[j] = "closed" /\ down'[j] = << >>
    BY <2>1, <1>1, <1>2, ClosesSocket
  <2>3. (\A j \in Conn : ReadsOn(j)) /\ \A d \in Clients : NetMoves(d)
    BY <2>1, NetSame
  <2>4. \A j \in Conn : ReadMoves(j)
    BY <2>2, <2>3, <1>1, <1>2, ClosesRead
  <2>5. QED
    BY <2>2, <2>3, <2>4, <1>2, StoresSame, UiKept, StepKeeps
<1>4. CASE NetTooLow(c) \/ NetLogout(c)
  <2>1. /\ net[c].pc \in {"expected", "sender", "set"} /\ disconnect(net[c].conn)
        /\ net' = [net EXCEPT ![c] = NetDone(c)]
    BY <1>4 DEF NetTooLow, NetLogout
  <2>2. PICK k \in Conn : k = net[c].conn /\ cliEnd[k] # "none"
    BY <2>1, <1>1, NetDoneIs
  <2>3. disconnect(k)
    BY <2>1, <2>2
  <2>4. /\ broken \subseteq broken' /\ \A j \in Conn : WireMoves(j)
        /\ cliEnd'[k] = "closed"
        /\ \A j \in Conn : \/ cliEnd'[j] = cliEnd[j] /\ down'[j] = down[j]
                           \/ j = k /\ cliEnd'[j] = "closed" /\ down'[j] = << >>
    BY <2>2, <2>3, <1>1, <1>2, ClosesSocket
  <2>5. /\ net'[c].pc \in {"idle", "expected"} /\ \A d \in Clients : d # c => net'[d] = net[d]
        /\ net[c].buf \in Seq(DownMessage) /\ net[c].buf # << >>
        /\ Tail(net[c].buf) \in Seq(DownMessage)
        /\ ToRead(k) = net[c].buf \o down[k] /\ ToRead(k)' = Tail(net[c].buf) \o down'[k]
        /\ \A j \in Conn : j # k => ReadsOn(j)
    BY <2>1, <2>2, <1>1, <1>2, NetDoneReads
  <2>6. \A d \in Clients : NetMoves(d)
    BY <2>5 DEF NetMoves
  <2>7. ReadMoves(k)
    <3>1. PICK b \in Seq(DownMessage), t \in Seq(DownMessage), e \in Seq(DownMessage) :
            /\ b = net[c].buf /\ t = Tail(b) /\ e = down[k]
            /\ b # << >> /\ ToRead(k) = b \o e /\ ToRead(k)' = t \o down'[k]
      BY <2>5, <1>1 DEF WireTypeOK
    <3>2. PICK s \in Seq(DownMessage) : s = ToRead(k) /\ s # << >> /\ Tail(s) = t \o e
      <4>1. b \o e \in Seq(DownMessage) /\ b \o e # << >> /\ Tail(b \o e) = Tail(b) \o e
        <5>1. b # << >>
          BY <3>1
        <5>2. QED
          BY <5>1, SeqJoinTail
      <4>2. QED
        BY <4>1, <3>1
    <3>3. Within(Tail(s), s)
      BY <3>2, TailRises
    <3>4. CASE down'[k] = down[k]
      BY <3>1, <3>2, <3>3, <3>4, <2>4 DEF ReadMoves
    <3>5. CASE down'[k] = << >>
      <4>1. ToRead(k)' = t
        BY <3>1, <3>5, ConcatEmptySeq
      <4>2. FrontOf(t, Tail(s))
        <5>1. PICK r : r = t \o e
          OBVIOUS
        <5>2. /\ Len(t) \in Nat /\ Len(e) \in Nat /\ DOMAIN t = 1..Len(t)
              /\ DOMAIN r = 1..(Len(t) + Len(e))
              /\ \A i \in 1..(Len(t) + Len(e)) : r[i] = IF i <= Len(t) THEN t[i] ELSE e[i - Len(t)]
          BY <5>1, SeqJoined
        <5>3. FrontOf(t, r)
          BY <5>2 DEF FrontOf
        <5>4. QED
          BY <5>1, <5>3, <3>2
      <4>3. Within(t, s)
        BY <4>2, <3>3 DEF FrontOf, Within
      <4>4. QED
        BY <4>1, <4>3, <3>2, <2>4 DEF ReadMoves
    <3>6. QED
      BY <3>4, <3>5, <2>4
  <2>8. \A j \in Conn : ReadMoves(j)
    BY <2>4, <2>5, <2>7, <1>2, ReadSame
  <2>9. QED
    BY <2>4, <2>6, <2>8, <1>2, StoresSame, UiKept, StepKeeps
<1>5. QED
  BY <1>3, <1>4

(* The first messages of those in transit are read.                         *)
LEMMA ReceiveNumbers ==
  ASSUME LinkInv, LinkInv', Numbers, UNCHANGED serverVars, NEW c \in Clients, NEW k \in Conn,
         NetReceive(c, k)
  PROVE  Numbers'
<1>1. WireTypeOK /\ NetPart /\ SocketsInv
  BY ClientHolds
<1>2. /\ UNCHANGED <<up, cliEnd, srvEnd, broken, owner, status, mem, file, ui>>
      /\ net[c] = Idle /\ owner[k] = c /\ cliEnd[k] = "open"
  BY DEF NetReceive
<1>3. PICK n \in 1..Len(down[k]) :
        /\ net' = [net EXCEPT ![c] = [Idle EXCEPT !.pc = "expected", !.conn = k,
                                                  !.buf = SubSeq(down[k], 1, n)]]
        /\ down' = [down EXCEPT ![k] = SubSeq(@, n + 1, Len(@))]
  BY DEF NetReceive
<1> DEFINE front == SubSeq(down[k], 1, n)
           rest  == SubSeq(down[k], n + 1, Len(down[k]))
           m     == [Idle EXCEPT !.pc = "expected", !.conn = k, !.buf = front]
<1>4. front \o rest = down[k]
  BY <1>1, SeqCut DEF WireTypeOK
<1>5. net' = [net EXCEPT ![c] = m] /\ down' = [down EXCEPT ![k] = rest]
  BY <1>3
<1> HIDE DEF front, rest
<1>6. m.pc = "expected" /\ m.conn = k /\ m.buf = front
  BY DEF Idle
<1> HIDE DEF m
<1>7. /\ net'[c] = m /\ \A d \in Clients : d # c => net'[d] = net[d]
      /\ down'[k] = rest /\ \A j \in Conn : j # k => down'[j] = down[j]
  BY <1>1, <1>5 DEF NetPart, WireTypeOK
<1>8. \A d \in Clients : NetMoves(d)
  BY <1>6, <1>7 DEF NetMoves
<1>9. broken \subseteq broken' /\ \A j \in Conn : WireMoves(j)
  BY <1>1, <1>2, <1>7 DEF WireMoves, SocketsInv
<1>10. ToRead(k)' = ToRead(k)
  <2>1. ~Reads(k)
    BY <1>2, IdleIs DEF Reads
  <2>2. ToRead(k) = down[k]
    <3>1. << >> \o down[k] = down[k]
      BY <1>1, ConcatEmptySeq DEF WireTypeOK
    <3>2. QED
      BY <2>1, <3>1 DEF ToRead
  <2>3. ToRead(k)' = front \o rest
    BY <1>2, <1>6, <1>7 DEF ToRead, Reads
  <2>4. QED
    BY <2>2, <2>3, <1>4
<1>11. ASSUME NEW j \in Conn, j # k PROVE ReadMoves(j)
  <2>1. ReadsOn(j)
    BY <1>2, <1>6, <1>7, <1>11, IdleIs DEF ReadsOn, Reading
  <2>2. QED
    BY <2>1, <1>2, <1>7, <1>11, ReadSame
<1>12. \A j \in Conn : ReadMoves(j)
  BY <1>10, <1>11 DEF ReadMoves
<1>13. QED
  BY <1>2, <1>8, <1>9, <1>12, StoresSame, UiKept, StepKeeps

(* The connection is made, or is not.                                       *)
LEMMA OpenNumbers ==
  ASSUME LinkInv, LinkInv', Numbers, UNCHANGED serverVars, NEW c \in Clients, NEW k \in Conn,
         Connected(c, k) \/ ConnectFails(c, k)
  PROVE  Numbers'
<1>1. WireTypeOK /\ NetPart /\ RestPart /\ SocketsInv
  BY ClientHolds
<1>2. /\ UNCHANGED <<up, down, broken, owner, mem, file, ui, net>>
      /\ owner[k] = c /\ cliEnd[k] = "none" /\ c # NoClient
      /\ \/ cliEnd'[k] = "open" /\ status'[k] = "Connected"
         \/ cliEnd'[k] = "closed"
      /\ \A j \in Conn : j # k => /\ cliEnd'[j] = cliEnd[j] /\ srvEnd'[j] = srvEnd[j]
                                  /\ status'[j] = status[j]
  BY <1>1, WireAssumption DEF Connected, ConnectFails, WireTypeOK, RestPart
<1>3. srvEnd[k] = "none" /\ k \notin sessions
  BY <1>1, <1>2 DEF SocketsInv
<1>4. \A j \in Conn : WireMoves(j)
  BY <1>1, <1>2, <1>3 DEF WireMoves, SocketsInv
<1>5. (\A j \in Conn : ReadsOn(j)) /\ \A d \in Clients : NetMoves(d)
  BY <1>2, NetSame
<1>6. \A j \in Conn : ReadMoves(j)
  BY <1>2, <1>5, ReadSame
<1>7. QED
  BY <1>2, <1>4, <1>5, <1>6, StoresSame, UiKept, StepKeeps

(* The network fails, or nothing happens.                                   *)
LEMMA BreakNumbers ==
  ASSUME LinkInv, LinkInv', Numbers, UNCHANGED <<serverVars, clientVars>>,
         (\E k \in Conn : Break(k)) \/ UNCHANGED wireVars
  PROVE  Numbers'
<1>1. WireTypeOK /\ NetPart /\ SocketsInv
  BY ClientHolds
<1>2. UNCHANGED <<owner, mem, file, ui, net, status>>
  BY DEF clientVars
<1>3. (\A j \in Conn : ReadsOn(j)) /\ \A d \in Clients : NetMoves(d)
  BY <1>2, NetSame
<1>4. /\ broken \subseteq broken' /\ UNCHANGED <<cliEnd, srvEnd>>
      /\ \A j \in Conn : \/ up'[j] = up[j] /\ down'[j] = down[j]
                         \/ /\ j \in broken' /\ cliEnd[j] = "open"
                            /\ up'[j] = << >> /\ down'[j] = << >>
  <2>1. CASE UNCHANGED wireVars
    BY <2>1 DEF wireVars
  <2>2. CASE \E k \in Conn : Break(k)
    BY <2>2, <1>1 DEF Break, WireTypeOK
  <2>3. QED
    BY <2>1, <2>2
<1>5. \A j \in Conn : WireMoves(j)
  BY <1>1, <1>2, <1>4 DEF WireMoves, SocketsInv
<1>6. ASSUME NEW j \in Conn PROVE ReadMoves(j)
  <2>1. CASE down'[j] = down[j]
    BY <2>1, <1>2, <1>3, ReadSame
  <2>2. CASE j \in broken' /\ down'[j] = << >>
    BY <2>2, <1>1, <1>2, <1>3, ReadsOnFront DEF ReadMoves
  <2>3. QED
    BY <2>1, <2>2, <1>4
<1>7. QED
  BY <1>2, <1>3, <1>4, <1>5, <1>6, StoresSame, UiKept, StepKeeps

(* The message is taken: the number after it is expected next.              *)
LEMMA HandleNumbers ==
  ASSUME LinkInv, LinkInv', Numbers, UNCHANGED serverVars, NEW c \in Clients, NetHandle(c)
  PROVE  Numbers'
<1> USE DEF serverVars, tableVars, coreVars, marketVars
<1>1. /\ WireTypeOK /\ StorePart /\ NetPart /\ RestPart /\ OwnNames /\ SocketsInv /\ ClientNumbers
      /\ MeetTypes /\ MeetTypes' /\ \A k \in Conn : InTurn(k)
  BY ClientHolds, MeetTypesNextAre
<1>2. net[c].pc = "set" /\ UNCHANGED <<wireVars, owner, ui>> /\ net' = [net EXCEPT ![c] = NetDone(c)]
  BY DEF NetHandle
<1>3. PICK k \in Conn, m \in DownMessage : k = net[c].conn /\ m = Head(net[c].buf)
  BY <1>1, <1>2, NetDoneIs
<1>4. /\ net'[c].pc \in {"idle", "expected"} /\ \A d \in Clients : d # c => net'[d] = net[d]
      /\ net[c].buf \in Seq(DownMessage) /\ net[c].buf # << >> /\ owner[k] = c
      /\ ToRead(k) = net[c].buf \o down[k] /\ ToRead(k)' = Tail(net[c].buf) \o down[k]
      /\ \A j \in Conn : j # k => ReadsOn(j)
  BY <1>1, <1>2, <1>3, NetDoneReads DEF wireVars
<1>5. PICK s \in Seq(DownMessage), t \in Seq(DownMessage) :
        s # << >> /\ Head(s) = m /\ t = Tail(s) /\ s = ToRead(k) /\ t = ToRead(k)'
  <2>1. PICK b \in Seq(DownMessage), e \in Seq(DownMessage) : b = net[c].buf /\ e = down[k]
    BY <1>1, <1>4 DEF WireTypeOK
  <2>2. b # << >>
    BY <2>1, <1>4
  <2>3. b \o e \in Seq(DownMessage) /\ b \o e # << >> /\ Head(b \o e) = Head(b)
        /\ Tail(b \o e) = Tail(b) \o e
    BY <2>2, SeqJoinTail
  <2>4. PICK q \in Seq(DownMessage) : q = b \o e
    BY <2>3
  <2>5. q # << >> /\ Head(q) = m /\ Tail(q) = ToRead(k)' /\ q = ToRead(k)
    BY <2>1, <2>3, <2>4, <1>3, <1>4
  <2>6. Tail(q) \in Seq(DownMessage)
    BY <2>5, SeqTaken
  <2>7. QED
    BY <2>5, <2>6
<1>6. m.type # "Logout" /\ m.seq \in Nat
  BY <1>1, <1>2, <1>3, DownMessageIs DEF ClientNumbers
<1>7. /\ mem'[k].in = m.seq + 1 /\ \A j \in Conn : j # k => mem'[j] = mem[j]
      /\ file'[c].in = m.seq + 1 /\ \A d \in Clients : d # c => file'[d] = file[d]
      /\ status' = [status EXCEPT ![k] = "Active"] \/ UNCHANGED status
  <2>1. /\ setSeqNums(k, m.seq + 1, net[c].out)
        /\ status' = [status EXCEPT ![k] = "Active"] \/ UNCHANGED status
    BY <1>3 DEF NetHandle
  <2>2. /\ mem' = [mem EXCEPT ![k] = [in |-> m.seq + 1, out |-> net[c].out]]
        /\ file' = [file EXCEPT ![c] = [in |-> m.seq + 1, out |-> net[c].out]]
    BY <2>1, <1>4 DEF setSeqNums
  <2>3. QED
    BY <2>1, <2>2, <1>1 DEF StorePart
<1>8. PICK x \in DOMAIN s : m = s[x]
  BY <1>5, TailRises
<1>9. /\ m.seq < state[c].out /\ state[c].out \in Nat
      /\ \A n \in Expected(k) : n >= 1 /\ n \in Nat
  <2>1. c # NoClient /\ InTurn(k) /\ owner[k] = c
    BY <1>1, <1>4, WireAssumption
  <2>2. QED
    BY <2>1, <1>1, <1>5, <1>6, <1>8 DEF InTurn, MeetTypes
<1>10. \A n \in Expected(k)' : n \in Expected(k) \cup {m.seq + 1}
  <2>1. ASSUME NEW d \in Clients, net'[d].pc \in {"sender", "write"}, net'[d].conn = k
        PROVE  net'[d].in \in Expected(k)
    BY <2>1, <1>4, ExpectedHas
  <2>2. ASSUME NEW d \in Clients, ui'[d].pc = "set", ui'[d].conn = k
        PROVE  ui'[d].in \in Expected(k)
    BY <2>2, <1>2, ExpectedHas
  <2>3. QED
    BY <2>1, <2>2, <1>7 DEF Expected
<1>11. Turns(k)
  <2>1. Within(t, s) /\ (LogoutIn(s) => LogoutIn(t))
    BY <1>5, <1>6, TailRises, WireAssumption
  <2>2. ASSUME NEW n \in Expected(k)' PROVE ExpectedBy(k, n)
    <3>1. CASE n \in Expected(k)
      BY <3>1, <1>9 DEF ExpectedBy
    <3>2. CASE n = m.seq + 1
      BY <3>2, <1>5, <1>6, <1>8 DEF ExpectedBy
    <3>3. QED
      BY <3>1, <3>2, <1>10
  <2>3. Ended(k) => Ended(k)'
    BY <2>1, <1>2, <1>5 DEF Ended, Carries, wireVars
  <2>4. ASSUME cliEnd'[k] # "closed", NEW n \in Expected(k)' PROVE Rising(t, n)
    <3>1. \A e \in Expected(k) : Rising(s, e)
      <4>1. cliEnd[k] # "closed" /\ owner[k] # NoClient
        BY <2>4, <1>2, <1>4, WireAssumption DEF wireVars
      <4>2. QED
        BY <4>1, <1>1, <1>5 DEF InTurn
    <3>2. CASE n \in Expected(k)
      BY <3>1, <3>2, <1>5, <1>6, <1>9, TailRises
    <3>3. CASE n = m.seq + 1
      <4>1. PICK e \in Expected(k) : e \in Nat /\ Rising(s, e)
        BY <3>1, <1>9, ExpectedHas
      <4>2. Rising(t, m.seq + 1)
        BY <4>1, <1>5, <1>6, TailRises
      <4>3. QED
        BY <3>3, <4>2
    <3>4. QED
      BY <3>2, <3>3, <1>10
  <2>5. \A n \in Expected(k)' : cliEnd'[k] # "closed" => Rising(ToRead(k)', n)
    BY <2>4, <1>5
  <2>6. QED
    BY <2>1, <2>2, <2>3, <2>5, <1>2, <1>5 DEF Turns
<1>12. ASSUME NEW j \in Conn, j # k, owner[j] # NoClient PROVE Turns(j)
  <2>1. Expects(j)
    BY <1>2, <1>4, <1>7, <1>12, ExpectsFrom, ExpectedHas
  <2>2. ToRead(j)' = ToRead(j)
    BY <1>2, <1>4, <1>12, ReadsOnSame DEF wireVars
  <2>3. QED
    BY <2>1, <2>2, <1>1, <1>2, <1>12, ClientTurns DEF wireVars
<1>13. \A j \in Conn : owner[j] = NoClient => InTurn(j)'
  BY <1>2 DEF InTurn
<1>14. OwnNames'
  BY <1>1, <1>2 DEF OwnNames, wireVars
<1>15. SocketsInv'
  <2>1. \A j \in Conn : cliEnd[j] = "open" => status'[j] # "Disconnected"
    BY <1>1, <1>7 DEF SocketsInv, RestPart
  <2>2. QED
    BY <2>1, <1>1, <1>2 DEF SocketsInv, wireVars
<1>16. ClientNumbers'
  <2>1. file'[c].in >= 1 /\ file'[c].in <= state[c].out
    BY <1>6, <1>7, <1>9
  <2>2. QED
    BY <2>1, <1>1, <1>4, <1>7 DEF ClientNumbers
<1>17. UNCHANGED srvEnd
  BY <1>2 DEF wireVars
<1>18. QED
  BY <1>11, <1>12, <1>13, <1>14, <1>15, <1>16, <1>17, ClientKeeps

(* A new session object starts from the numbers of the file.                *)
LEMMA ConnectNumbers ==
  ASSUME LinkInv, LinkInv', Numbers, UNCHANGED serverVars, NEW c \in Clients, NEW k \in Conn,
         Connect(c, k)
  PROVE  Numbers'
<1> USE DEF serverVars, tableVars, coreVars, marketVars
<1>1. /\ WireTypeOK /\ StorePart /\ NetPart /\ UiPart /\ OwnerPart /\ RestPart /\ WireInv
      /\ OwnNames /\ SocketsInv /\ ClientNumbers
      /\ MeetTypes /\ MeetTypes' /\ \A j \in Conn : InTurn(j)
  BY ClientHolds, MeetTypesNextAre
<1>2. /\ UNCHANGED <<wireVars, file, ui, net>> /\ owner[k] = NoClient
      /\ owner'[k] = c /\ mem'[k] = file[c] /\ status'[k] = "Connecting"
      /\ \A j \in Conn : j # k => owner'[j] = owner[j] /\ mem'[j] = mem[j] /\ status'[j] = status[j]
  BY <1>1 DEF Connect, OwnerPart, StorePart, RestPart
<1>3. UNCHANGED <<up, down, cliEnd, srvEnd, broken>>
  BY <1>2 DEF wireVars
<1>4. cliEnd[k] = "none" /\ srvEnd[k] = "none" /\ down[k] = << >> /\ up[k] = << >> /\ k \notin sessions
  BY <1>1, <1>2 DEF SocketsInv, WireInv
<1>5. /\ \A d \in Clients : ui[d].pc # "idle" => ui[d].conn # k
      /\ \A d \in Clients : net[d].pc # "idle" => net[d].conn # k
  BY <1>1, <1>4 DEF UiPart, UiBusy, NetPart, NetBusy
<1>6. io.pc # "idle" => io.conn \in Conn /\ io.conn # k
  BY <1>1, <1>4 DEF SocketsInv, MeetTypes
<1>7. InTurn(k)'
  <2>1. \A n \in Expected(k)' : n = file[c].in
    BY <1>2, <1>5 DEF Expected
  <2>2. ToRead(k)' = << >>
    <3>1. ~Reads(k)'
      BY <1>2, <1>5 DEF Reads
    <3>2. << >> \o << >> = << >>
      BY ConcatEmptySeq, SeqNone
    <3>3. QED
      BY <3>1, <3>2, <1>3, <1>4 DEF ToRead
  <2>3. DOMAIN << >> = {}
    BY SeqNone
  <2>4. ~IoSends(k)' /\ \A t \in Workers : ~WorkerSends(t, k)'
    BY <1>1, <1>4, <1>6 DEF IoSends, WorkerSends, SocketsInv
  <2>5. \A n \in Expected(k)' : n >= 1 /\ n <= state'[owner'[k]].out
    BY <2>1, <1>1, <1>2 DEF ClientNumbers
  <2>6. \A i \in DOMAIN ToRead(k)' : FALSE
    BY <2>2, <2>3
  <2>7. \A n \in Expected(k)' : Rising(ToRead(k)', n)
    BY <2>6 DEF Rising
  <2>8. QED
    BY <2>4, <2>5, <2>6, <2>7 DEF InTurn
<1>8. ASSUME NEW j \in Conn, owner[j] # NoClient PROVE Turns(j)
  <2>1. j # k /\ owner'[j] = owner[j]
    BY <1>2, <1>8
  <2>2. ReadsOn(j)
    BY <1>2 DEF ReadsOn, Reading
  <2>3. Expects(j)
    BY <2>1, <1>2, ExpectsFrom, ExpectedHas
  <2>4. ToRead(j)' = ToRead(j)
    BY <2>1, <2>2, <1>3, ReadsOnSame
  <2>5. QED
    BY <2>1, <2>3, <2>4, <1>1, <1>3, <1>8, ClientTurns
<1>9. ASSUME NEW j \in Conn, owner[j] = NoClient PROVE InTurn(j)'
  <2>1. CASE j = k
    BY <2>1, <1>7
  <2>2. CASE j # k
    BY <2>2, <1>2, <1>9 DEF InTurn
  <2>3. QED
    BY <2>1, <2>2
<1>10. OwnNames'
  <2>1. DOMAIN << >> = {}
    BY SeqNone
  <2>2. ASSUME NEW j \in Conn
        PROVE  /\ \A i \in DOMAIN up[j] : up[j][i].comp = owner'[j]
               /\ compOf[j] \in {NoClient, owner'[j]}
               /\ compOf[j] # NoClient => state[compOf[j]].out > 1
    BY <2>1, <1>1, <1>2, <1>4 DEF OwnNames
  <2>3. io.pc # "idle" => \A i \in DOMAIN io.buf : io.buf[i].comp = owner'[io.conn]
    BY <1>1, <1>2, <1>6 DEF OwnNames
  <2>4. QED
    BY <2>2, <2>3, <1>1, <1>2, <1>3 DEF OwnNames
<1>11. SocketsInv'
  BY <1>1, <1>2, <1>3, <1>4 DEF SocketsInv
<1>12. ClientNumbers'
  BY <1>1, <1>2 DEF ClientNumbers
<1>13. QED
  BY <1>3, <1>8, <1>9, <1>10, <1>11, <1>12, ClientKeeps

LEMMA ClientNumbersStep ==
  ASSUME LinkInv, LinkInv', Numbers, UNCHANGED serverVars, ClientNext
  PROVE  Numbers'
<1>1. PICK c \in Clients : UiStep(c) \/ NetStep(c)
  BY DEF ClientNext
<1>2. CASE UiStep(c)
  <2>1. CASE \E k \in Conn : Connect(c, k)
    BY <2>1, ConnectNumbers
  <2>2. CASE \/ ForceDisconnect(c)
             \/ \E forceReset \in BOOLEAN : sendLogon(c, forceReset)
             \/ sendLogout(c)
             \/ \E type \in AppTypes : sendMessage(c, type)
    BY <2>2, ButtonNumbers
  <2>3. CASE UiSends(c)
    BY <2>3, SendNumbers
  <2>4. QED
    BY <1>2, <2>1, <2>2, <2>3 DEF UiStep
<1>3. CASE NetStep(c)
  <2>1. CASE \E k \in Conn : Connected(c, k) \/ ConnectFails(c, k)
    BY <2>1, OpenNumbers
  <2>2. CASE \E k \in Conn : NetReceive(c, k)
    BY <2>2, ReceiveNumbers
  <2>3. CASE NetTooLow(c) \/ NetLogout(c) \/ \E k \in Conn : NetReadError(c, k) \/ WriteFailed(c, k)
    BY <2>3, CloseReadNumbers
  <2>4. CASE \/ NetReadExpected(c) \/ NetReadSender(c) \/ NetReadTarget(c)
             \/ \E k \in Conn : TimerFires(c, k)
    BY <2>4, NetNumbers
  <2>5. CASE NetHandle(c)
    BY <2>5, HandleNumbers
  <2>6. CASE NetBeat(c)
    BY <2>6, BeatNumbers
  <2>7. QED
    BY <1>3, <2>1, <2>2, <2>3, <2>4, <2>5, <2>6 DEF NetStep
<1>4. QED
  BY <1>1, <1>2, <1>3

-----------------------------------------------------------------------------
(* The numbers from the start on, until the first restart.                  *)

LEMMA NumbersStart ==
  ASSUME LinkInit
  PROVE  Numbers
<1>1. WireInit /\ ServerInit /\ ClientInit
  BY DEF LinkInit
<1>2. /\ \A k \in Conn : /\ up[k] = << >> /\ down[k] = << >> /\ cliEnd[k] = "none"
                         /\ srvEnd[k] = "none" /\ compOf[k] = NoClient /\ owner[k] = NoClient
      /\ sessions = {} /\ nextSession = 1 /\ commands = << >>
  BY <1>1 DEF WireInit, ServerInit, ClientInit
<1>3. /\ \A c \in Clients : /\ state[c] = NoState /\ seqRows[c].out = 1
                            /\ file[c].in = 1 /\ ui[c].pc = "idle" /\ net[c].pc = "idle"
      /\ io.pc = "idle" /\ dbTasks = <<NoTask>>
  BY <1>1, IdleIs DEF ServerInit, ClientInit, IdleIo, Fresh
<1>4. NoState.out = 1 /\ NoTask.comp = NoClient
  BY DEF NoState, NoTask
<1>5. DOMAIN << >> = {}
  BY SeqNone
<1>6. RowsPositive
  <2>1. \A i \in DOMAIN dbTasks : dbTasks[i].comp = NoClient
    <3>1. DOMAIN <<NoTask>> = {1} /\ <<NoTask>>[1] = NoTask
      OBVIOUS
    <3>2. QED
      BY <3>1, <1>3, <1>4
  <2>2. QED
    BY <2>1, <1>3, <1>4 DEF RowsPositive
<1>7. OwnNames
  BY <1>2, <1>3, <1>5 DEF OwnNames
<1>8. SocketsInv
  <2>1. \A t \in Workers : sending[t] = NotSending
    BY <1>1 DEF ServerInit
  <2>2. QED
    BY <2>1, <1>2, <1>3 DEF SocketsInv
<1>9. HangUps
  BY <1>3 DEF HangUps
<1>10. SessionsServe
  <2>1. \A r \in Ref : orders[r].session = 0
    BY <1>1 DEF ServerInit
  <2>2. \A k \in Conn : ~Subscriber(k)
    BY <1>1 DEF ServerInit, Subscriber
  <2>3. QED
    BY <2>1, <2>2, <1>2, <1>5 DEF SessionsServe, Serves
<1>11. ClientNumbers
  BY <1>3, <1>4 DEF ClientNumbers
<1>12. \A k \in Conn : InTurn(k)
  BY <1>2 DEF InTurn
<1>13. QED
  BY <1>6, <1>7, <1>8, <1>9, <1>10, <1>11, <1>12 DEF Numbers

(* A gateway that is up stays the same process.                             *)
LEMMA SameProcess ==
  ASSUME IoStep \/ RunTask \/ \E t \in Workers : WorkerStep(t)
  PROVE  restarts' = restarts
<1>1. CASE IoStep
  <2>1. CASE \E k \in Conn : Accept(k) \/ Receive(k) \/ ReadError(k)
    BY <2>1 DEF Accept, Receive, ReadError
  <2>2. CASE \E k \in Conn : \E m \in {io.buf[i] : i \in DOMAIN io.buf} :
               \/ RefuseLogon(k, m) \/ AcceptLogon(k, m) \/ HandleLogout(k, m)
               \/ RefuseMessage(k, m) \/ HandleAnswered(k, m) \/ HandleIgnored(k, m)
               \/ HandleNewOrder(k, m) \/ HandleAmend(k, m)
    <3>1. PICK k \in Conn, m \in {io.buf[i] : i \in DOMAIN io.buf} :
               \/ RefuseLogon(k, m) \/ AcceptLogon(k, m) \/ HandleLogout(k, m)
               \/ RefuseMessage(k, m) \/ HandleAnswered(k, m) \/ HandleIgnored(k, m)
               \/ HandleNewOrder(k, m) \/ HandleAmend(k, m)
      BY <2>2
    <3>2. CASE RefuseLogon(k, m) \/ AcceptLogon(k, m) \/ HandleLogout(k, m)
      BY <3>2 DEF RefuseLogon, AcceptLogon, HandleLogout
    <3>3. CASE RefuseMessage(k, m) \/ HandleAnswered(k, m) \/ HandleIgnored(k, m)
      BY <3>3 DEF RefuseMessage, HandleAnswered, HandleIgnored
    <3>4. CASE HandleNewOrder(k, m) \/ HandleAmend(k, m)
      BY <3>4 DEF HandleNewOrder, HandleAmend
    <3>5. QED
      BY <3>1, <3>2, <3>3, <3>4
  <2>3. CASE IoWrite \/ cleanupConnection \/ IoClose
    BY <2>3 DEF IoWrite, cleanupConnection, IoClose
  <2>4. QED
    BY <1>1, <2>1, <2>2, <2>3 DEF IoStep
<1>2. CASE RunTask
  BY <1>2 DEF RunTask
<1>3. CASE \E t \in Workers : WorkerStep(t)
  BY <1>3 DEF WorkerStep, WorkerWrite, ProcessCommand, MatchOrder, publishIncremental, SendIncrement
<1>4. QED
  BY <1>1, <1>2, <1>3

LEMMA NumbersStep ==
  ASSUME LinkInv, LinkInv', NumbersInv, OneSender, [LinkNext]_linkVars
  PROVE  NumbersInv'
<1>1. CASE (IoStep \/ RunTask \/ \E t \in Workers : WorkerStep(t)) /\ UNCHANGED clientVars
  BY <1>1, SameProcess, ServerNumbers DEF NumbersInv
<1>2. CASE Restart
  <2>1. restarts' = restarts + 1 /\ restarts \in Nat
    BY <1>2 DEF Restart, LinkInv, LinkTypeOK, ServerTypeOK
  <2>2. QED
    BY <2>1 DEF NumbersInv
<1>3. CASE \/ ClientNext /\ UNCHANGED serverVars
           \/ (\E k \in Conn : Break(k)) /\ UNCHANGED <<serverVars, clientVars>>
  <2>1. restarts' = restarts
    BY <1>3 DEF serverVars
  <2>2. QED
    BY <2>1, <1>3, ClientNumbersStep, BreakNumbers DEF NumbersInv
<1>4. CASE UNCHANGED linkVars
  <2>1. UNCHANGED <<wireVars, serverVars, clientVars, restarts>>
    BY <1>4 DEF linkVars, serverVars
  <2>2. QED
    BY <2>1, BreakNumbers DEF NumbersInv
<1>5. QED
  BY <1>1, <1>2, <1>3, <1>4 DEF LinkNext, ServerNext

(* The client's expectation is met by the first message it reads.           *)
LEMMA NumbersMeet ==
  ASSUME LinkInv, NumbersInv
  PROVE  NeverTooLow
<1> SUFFICES ASSUME restarts = 0, NEW c \in Clients, net[c].pc = "sender",
                    cliEnd[net[c].conn] = "open"
             PROVE  Head(net[c].buf).seq >= net[c].in
  BY DEF NeverTooLow
<1>1. Numbers
  BY DEF NumbersInv
<1>2. WireTypeOK /\ NetPart /\ ClientNumbers /\ MeetTypes /\ \A k \in Conn : InTurn(k)
  BY <1>1, ClientHolds
<1>3. PICK k \in Conn, m \in DownMessage : k = net[c].conn /\ m = Head(net[c].buf)
  BY <1>2, NetDoneIs
<1>4. /\ net[c].buf \in Seq(DownMessage) /\ net[c].buf # << >> /\ owner[k] = c
      /\ cliEnd[k] = "open" /\ net[c].in \in Expected(k) /\ m.type # "Logout"
  BY <1>2, <1>3, ExpectedHas DEF NetPart, NetState, NetBusy, ClientNumbers
<1>5. PICK b \in Seq(DownMessage), e \in Seq(DownMessage) : b = net[c].buf /\ e = down[k]
  BY <1>2, <1>4 DEF WireTypeOK
<1>6. b # << >>
  BY <1>4, <1>5
<1>7. b \o e \in Seq(DownMessage) /\ b \o e # << >> /\ Head(b \o e) = Head(b)
  BY <1>6, SeqJoinTail
<1>8. PICK s \in Seq(DownMessage) : s = ToRead(k) /\ s # << >> /\ Head(s) = m
  BY <1>3, <1>4, <1>5, <1>7 DEF ToRead, Reads
<1>9. PICK n \in Nat : n = net[c].in /\ Rising(s, n)
  <2>1. owner[k] # NoClient /\ cliEnd[k] # "closed"
    BY <1>4, WireAssumption
  <2>2. QED
    BY <2>1, <1>2, <1>4, <1>8 DEF InTurn, MeetTypes
<1>10. n <= m.seq
  BY <1>4, <1>8, <1>9, TailRises
<1>11. m.seq \in Nat
  BY DownMessageIs
<1>12. QED
  BY <1>3, <1>9, <1>10, <1>11

(* FixClientSession never drops its session over a sequence number that is  *)
(* too low, as long as FixSession's two steps, taking a number and writing   *)
(* the message, are not interleaved by two threads on one connection.        *)
THEOREM NumbersInTurn == LinkSpec /\ []OneSender => []NeverTooLow
<1>1. LinkInit => NumbersInv
  BY NumbersStart DEF NumbersInv
<1>2. LinkInv /\ LinkInv' /\ NumbersInv /\ OneSender /\ [LinkNext]_linkVars => NumbersInv'
  BY NumbersStep
<1>3. LinkInv /\ NumbersInv => NeverTooLow
  BY NumbersMeet
<1>4. QED
  BY <1>1, <1>2, <1>3, LinkInvariant, PTL DEF LinkSpec

-----------------------------------------------------------------------------
(* A gateway that has no orders and no subscribers writes from one thread.  *)

LEMMA NothingInNone == NothingFrom(<< >>)
<1>1. DOMAIN << >> = {}
  BY SeqNone
<1>2. QED
  BY <1>1 DEF NothingFrom

LEMMA NothingInSingle ==
  ASSUME NEW m, m.type \notin {"NewOrder", "MarketData"}
  PROVE  NothingFrom(<<m>>)
<1>1. DOMAIN <<m>> = {1} /\ <<m>>[1] = m
  OBVIOUS
<1>2. QED
  BY <1>1 DEF NothingFrom

LEMMA NothingInMore ==
  ASSUME NEW q \in Seq(UpMessage), NEW m \in UpMessage, NothingFrom(q),
         m.type \notin {"NewOrder", "MarketData"}
  PROVE  NothingFrom(Append(q, m))
<1>1. /\ DOMAIN Append(q, m) = DOMAIN q \cup {Len(q) + 1}
      /\ \A i \in DOMAIN q : Append(q, m)[i] = q[i]
      /\ Append(q, m)[Len(q) + 1] = m
  BY SeqAppended
<1>2. QED
  BY <1>1 DEF NothingFrom

LEMMA NothingInTail ==
  ASSUME NEW q \in Seq(UpMessage), q # << >>, NothingFrom(q)
  PROVE  NothingFrom(Tail(q)) /\ Head(q).type \notin {"NewOrder", "MarketData"}
<1>1. /\ 1 \in DOMAIN q /\ Head(q) = q[1] /\ Len(q) \in Nat
      /\ DOMAIN q = 1..Len(q) /\ DOMAIN Tail(q) = 1..(Len(q) - 1)
      /\ \A i \in 1..(Len(q) - 1) : Tail(q)[i] = q[i + 1]
  BY SeqTaken
<1>2. \A i \in 1..(Len(q) - 1) : i + 1 \in 1..Len(q)
  BY <1>1
<1>3. QED
  BY <1>1, <1>2 DEF NothingFrom

LEMMA NothingInPart ==
  ASSUME NEW q \in Seq(UpMessage), NEW n \in 1..Len(q), NothingFrom(q)
  PROVE  NothingFrom(SubSeq(q, 1, n)) /\ NothingFrom(SubSeq(q, n + 1, Len(q)))
<1> DEFINE a == SubSeq(q, 1, n)
           b == SubSeq(q, n + 1, Len(q))
<1>1. a \in Seq(UpMessage) /\ b \in Seq(UpMessage) /\ a \o b = q
  BY SeqCut
<1> HIDE DEF a, b
<1>2. PICK s : s = a \o b
  OBVIOUS
<1>3. /\ Len(a) \in Nat /\ Len(b) \in Nat /\ DOMAIN a = 1..Len(a) /\ DOMAIN b = 1..Len(b)
      /\ DOMAIN s = 1..(Len(a) + Len(b))
      /\ \A i \in 1..(Len(a) + Len(b)) : s[i] = IF i <= Len(a) THEN a[i] ELSE b[i - Len(a)]
  BY <1>1, <1>2, SeqJoined
<1>4. \A i \in DOMAIN s : s[i].type \notin {"NewOrder", "MarketData"}
  BY <1>1, <1>2 DEF NothingFrom
<1>5. \A i \in DOMAIN a : i \in DOMAIN s /\ s[i] = a[i]
  BY <1>3
<1>6. ASSUME NEW i \in DOMAIN b PROVE Len(a) + i \in DOMAIN s /\ s[Len(a) + i] = b[i]
  <2>1. /\ Len(a) + i \in 1..(Len(a) + Len(b))
        /\ ~(Len(a) + i <= Len(a)) /\ (Len(a) + i) - Len(a) = i
    BY <1>3, <1>6
  <2>2. QED
    BY <2>1, <1>3
<1>7. NothingFrom(a) /\ NothingFrom(b)
  BY <1>4, <1>5, <1>6 DEF NothingFrom
<1>8. QED
  BY <1>7 DEF a, b

(* The io thread is done with a message, or answers it.                     *)
LEMMA NothingHandled ==
  ASSUME IoPart, io.pc # "idle", NothingFrom(io.buf), io' = HandledIo
  PROVE  NothingFrom(io'.buf)
<1>1. io.buf \in Seq(UpMessage) /\ io.buf # << >>
  BY DEF IoPart, IoState
<1>2. CASE Len(io.buf) = 1
  BY <1>2, NothingInNone DEF HandledIo, IdleIo
<1>3. CASE Len(io.buf) # 1
  BY <1>1, <1>3, IoHandled, NothingInTail
<1>4. QED
  BY <1>2, <1>3

LEMMA NothingReplied ==
  ASSUME IoPart, NEW type, NEW seq, NEW hangup, Reply(type, seq, hangup)
  PROVE  io'.buf = io.buf
<1> DEFINE r == <<[type |-> type, seq |-> seq, ref |-> 0]>>
<1>1. io' = [io EXCEPT !.pc = "write", !.hangup = hangup, !.reply = r]
  BY DEF Reply
<1> HIDE DEF r
<1>2. QED
  BY <1>1 DEF IoPart, IoState

(* What the gateway's threads know of orders and subscribers.               *)
NoWork ==
  /\ commands = << >> /\ \A t \in Workers : Free(t)
  /\ \A r \in Ref : orders[r].status = "unknown"
  /\ subscribed = {}

LEMMA NoReportsHandler ==
  ASSUME LinkInv, NoReports, NEW k \in Conn, NEW m,
         \/ RefuseLogon(k, m) \/ AcceptLogon(k, m) \/ HandleLogout(k, m)
         \/ RefuseMessage(k, m) \/ HandleAnswered(k, m) \/ HandleIgnored(k, m)
         \/ HandleNewOrder(k, m) \/ HandleAmend(k, m)
  PROVE  NoWork' /\ NothingFrom(io'.buf) /\ (UNCHANGED up \/ CloseServer(k))
<1> USE DEF tableVars, coreVars, marketVars
<1>1. IoPart /\ NoWork /\ NothingFrom(io.buf)
  BY LinkInvIs DEF Kept, GatewayParts, NoReports, NoWork
<1>2. At(k, m)
  BY DEF RefuseLogon, AcceptLogon, HandleLogout, RefuseMessage, HandleAnswered, HandleIgnored,
         HandleNewOrder, HandleAmend
<1>3. /\ io.pc = "handle" /\ m = Head(io.buf) /\ m \in UpMessage
      /\ io.buf \in Seq(UpMessage) /\ io.buf # << >>
  BY <1>1, <1>2, AtMessage
<1>4. m.type \notin {"NewOrder", "MarketData"}
  BY <1>1, <1>3, NothingInTail
<1>5. CASE RefuseLogon(k, m) \/ AcceptLogon(k, m) \/ HandleLogout(k, m)
  <2>1. UNCHANGED <<wireVars, sending, coreVars>> /\ \E type, seq, hangup : Reply(type, seq, hangup)
    BY <1>5 DEF RefuseLogon, AcceptLogon, HandleLogout
  <2>2. io'.buf = io.buf
    BY <2>1, <1>1, NothingReplied
  <2>3. QED
    BY <2>1, <2>2, <1>1 DEF NoWork, Free, wireVars
<1>6. CASE HandleAnswered(k, m)
  <2>1. /\ UNCHANGED <<wireVars, sending, commands, orders, targets>>
        /\ subscribed' = subscribed
        /\ \E type, seq, hangup : Reply(type, seq, hangup)
    BY <1>4, <1>6 DEF HandleAnswered
  <2>2. io'.buf = io.buf
    BY <2>1, <1>1, NothingReplied
  <2>3. QED
    BY <2>1, <2>2, <1>1 DEF NoWork, Free, wireVars
<1>7. CASE HandleIgnored(k, m)
  <2>1. /\ io' = HandledIo /\ UNCHANGED <<wireVars, sending, commands, orders, targets>>
        /\ subscribed' \subseteq subscribed
    BY <1>7 DEF HandleIgnored
  <2>2. subscribed' = {}
    BY <2>1, <1>1 DEF NoWork
  <2>3. QED
    BY <2>1, <2>2, <1>1, <1>3, NothingHandled DEF NoWork, Free, wireVars
<1>8. CASE HandleAmend(k, m)
  <2>1. m.ref \in Ref
    BY <1>3, <1>8, UpMessageIs DEF HandleAmend
  <2>2. io' = HandledIo /\ commands' = commands /\ UNCHANGED <<wireVars, sending, orders, marketVars>>
    BY <2>1, <1>1, <1>8 DEF HandleAmend, NoWork
  <2>3. QED
    BY <2>2, <1>1, <1>3, NothingHandled DEF NoWork, Free, wireVars
<1>9. CASE RefuseMessage(k, m)
  <2>1. io' = HandledIo /\ CloseServer(k) /\ UNCHANGED <<sending, coreVars>>
    BY <1>9 DEF RefuseMessage
  <2>2. QED
    BY <2>1, <1>1, <1>3, NothingHandled DEF NoWork, Free
<1>10. ~HandleNewOrder(k, m)
  BY <1>4 DEF HandleNewOrder
<1>11. QED
  BY <1>5, <1>6, <1>7, <1>8, <1>9, <1>10

LEMMA NoReportsServer ==
  ASSUME LinkInv, NoReports, ServerNext, UNCHANGED clientVars
  PROVE  NoReports'
<1> USE DEF tableVars, coreVars, marketVars
<1>1. /\ WireTypeOK /\ IoPart /\ NoWork /\ NothingFrom(io.buf)
      /\ \A k \in Conn : NothingFrom(up[k])
      /\ \A c \in Clients : NothingFrom(ui[c].buf)
  BY LinkInvIs DEF Kept, GatewayParts, NoReports, NoWork
<1>2. ASSUME NEW k \in Conn, CloseServer(k) PROVE \A j \in Conn : NothingFrom(up'[j])
  BY <1>1, <1>2, NothingInNone DEF CloseServer, WireTypeOK
<1>3. NoWork' /\ NothingFrom(io'.buf) /\ \A k \in Conn : NothingFrom(up'[k])
  <2>1. CASE \E k \in Conn : Accept(k) \/ ReadError(k)
    <3>1. PICK k \in Conn : Accept(k) \/ ReadError(k)
      BY <2>1
    <3>2. /\ UNCHANGED <<io, sending, commands, orders, targets>> /\ subscribed' \subseteq subscribed
          /\ UNCHANGED up \/ CloseServer(k)
      BY <3>1 DEF Accept, ReadError
    <3>3. subscribed' = {}
      BY <3>2, <1>1 DEF NoWork
    <3>4. QED
      BY <3>2, <3>3, <1>1, <1>2 DEF NoWork, Free
  <2>2. CASE \E k \in Conn : Receive(k)
    <3>0. PICK k \in Conn : Receive(k)
      BY <2>2
    <3>1. PICK n \in 1..Len(up[k]) :
            /\ io' = [IdleIo EXCEPT !.pc = "handle", !.conn = k, !.buf = SubSeq(up[k], 1, n)]
            /\ up' = [up EXCEPT ![k] = SubSeq(@, n + 1, Len(@))]
            /\ UNCHANGED <<sending, coreVars>>
      BY <3>0 DEF Receive
    <3> DEFINE front == SubSeq(up[k], 1, n)
               rest == SubSeq(up[k], n + 1, Len(up[k]))
    <3>2. NothingFrom(front) /\ NothingFrom(rest)
      BY <1>1, NothingInPart DEF WireTypeOK
    <3>3. io'.buf = front /\ up'[k] = rest /\ \A j \in Conn : j # k => up'[j] = up[j]
      BY <3>1, <1>1 DEF IdleIo, WireTypeOK
    <3> HIDE DEF front, rest
    <3>4. QED
      BY <3>1, <3>2, <3>3, <1>1 DEF NoWork, Free
  <2>3. CASE \E k \in Conn : \E m \in {io.buf[i] : i \in DOMAIN io.buf} :
               \/ RefuseLogon(k, m) \/ AcceptLogon(k, m) \/ HandleLogout(k, m)
               \/ RefuseMessage(k, m) \/ HandleAnswered(k, m) \/ HandleIgnored(k, m)
               \/ HandleNewOrder(k, m) \/ HandleAmend(k, m)
    <3>1. PICK k \in Conn, m \in {io.buf[i] : i \in DOMAIN io.buf} :
               \/ RefuseLogon(k, m) \/ AcceptLogon(k, m) \/ HandleLogout(k, m)
               \/ RefuseMessage(k, m) \/ HandleAnswered(k, m) \/ HandleIgnored(k, m)
               \/ HandleNewOrder(k, m) \/ HandleAmend(k, m)
      BY <2>3
    <3>2. NoWork' /\ NothingFrom(io'.buf) /\ (UNCHANGED up \/ CloseServer(k))
      BY <3>1, NoReportsHandler
    <3>3. QED
      BY <3>2, <1>1, <1>2
  <2>4. CASE IoWrite \/ cleanupConnection \/ IoClose
    <3>1. io.pc # "idle" /\ UNCHANGED <<sending, coreVars>>
      BY <2>4 DEF IoWrite, cleanupConnection, IoClose
    <3>2. UNCHANGED up \/ CloseServer(io.conn)
      BY <2>4 DEF IoWrite, cleanupConnection, IoClose, wireVars
    <3>3. io' = HandledIo \/ io'.buf = io.buf
      BY <2>4, <1>1 DEF IoWrite, cleanupConnection, IoClose, IoPart, IoState
    <3>4. NothingFrom(io'.buf)
      BY <3>1, <3>3, <1>1, NothingHandled
    <3>5. io.conn \in Conn
      BY <3>1, <1>1 DEF IoPart
    <3>6. QED
      BY <3>1, <3>2, <3>4, <3>5, <1>1, <1>2 DEF NoWork, Free
  <2>5. CASE RunTask
    BY <2>5, <1>1 DEF RunTask, NoWork, Free, wireVars
  <2>6. ASSUME NEW t \in Workers PROVE ~WorkerStep(t)
    BY <1>1 DEF NoWork, Free, WorkerStep, ProcessCommand, WorkerWrite, MatchOrder,
                publishIncremental, SendIncrement
  <2>7. CASE Restart
    BY <2>7, <1>1, NothingInNone DEF Restart, NoWork, Free, IdleIo
  <2>8. QED
    BY <2>1, <2>2, <2>3, <2>4, <2>5, <2>6, <2>7 DEF ServerNext, IoStep
<1>4. UNCHANGED ui
  BY DEF clientVars
<1>5. QED
  BY <1>1, <1>3, <1>4 DEF NoReports, NoWork

(* A client writes the message one of its threads holds, or none.           *)
LEMMA NothingWritten ==
  ASSUME WireTypeOK, NEW k \in Conn, NEW m \in UpMessage, doWrite(k, m),
         m.type \notin {"NewOrder", "MarketData"}, \A j \in Conn : NothingFrom(up[j])
  PROVE  \A j \in Conn : NothingFrom(up'[j])
<1>1. \A j \in Conn : up'[j] = up[j] \/ (j = k /\ up'[j] = Append(up[j], m))
  BY DEF doWrite, WriteUp, WireTypeOK
<1>2. up[k] \in Seq(UpMessage)
  BY DEF WireTypeOK
<1>3. NothingFrom(Append(up[k], m))
  BY <1>2, NothingInMore
<1>4. QED
  BY <1>1, <1>3

LEMMA NoReportsUi ==
  ASSUME LinkInv, NoReports, NoTraffic, NEW c \in Clients, UiStep(c)
  PROVE  /\ \A k \in Conn : NothingFrom(up'[k])
         /\ \A d \in Clients : NothingFrom(ui'[d].buf)
<1>1. /\ WireTypeOK /\ UiPart /\ \A k \in Conn : NothingFrom(up[k])
      /\ \A d \in Clients : NothingFrom(ui[d].buf)
  BY LinkInvIs, ClientPartsAre DEF Kept, ClientParts, NoReports
<1>2. NothingFrom(Idle.buf)
  BY NothingInNone DEF Idle
<1>3. CASE (\E k \in Conn : Connect(c, k)) \/ ForceDisconnect(c)
  BY <1>1, <1>3 DEF Connect, ForceDisconnect, wireVars
<1>4. CASE \/ \E forceReset \in BOOLEAN : sendLogon(c, forceReset)
           \/ sendLogout(c) \/ \E type \in AppTypes : sendMessage(c, type)
  <2>1. PICK pc, type :
          type \notin {"NewOrder", "MarketData"} /\ \E out, ref : Opens(c, pc, type, out, ref)
    <3>1. CASE \E forceReset \in BOOLEAN : sendLogon(c, forceReset)
      BY <3>1, LogonOpens
    <3>2. CASE sendLogout(c)
      BY <3>2, StartOpens DEF sendLogout
    <3>3. CASE \E type \in AppTypes : sendMessage(c, type)
      BY <3>3, StartOpens DEF sendMessage, NoTraffic
    <3>4. QED
      BY <1>4, <3>1, <3>2, <3>3
  <2>2. PICK out, ref : Opens(c, pc, type, out, ref)
    BY <2>1
  <2> DEFINE m == Message(c, type, out, ref)
             u == [Idle EXCEPT !.pc = pc, !.conn = current[c], !.buf = <<m>>]
  <2>3. m.type = type
    BY DEF Message
  <2>4. ui' = [ui EXCEPT ![c] = u]
    BY <2>2 DEF Opens
  <2> HIDE DEF m
  <2>5. u.buf = <<m>>
    BY DEF Idle
  <2>6. NothingFrom(<<m>>)
    BY <2>1, <2>3, NothingInSingle
  <2> HIDE DEF u
  <2>7. ui'[c] = u /\ \A d \in Clients : d # c => ui'[d] = ui[d]
    BY <2>4, <1>1 DEF UiPart
  <2>8. UNCHANGED up
    BY <1>4 DEF sendLogon, sendLogout, sendMessage, wireVars
  <2>9. QED
    BY <2>5, <2>6, <2>7, <2>8, <1>1
<1>5. CASE UiReadTarget(c) \/ UiAfter(c)
  <2>1. /\ \A d \in Clients : d # c => ui'[d] = ui[d]
        /\ ui'[c] = Idle \/ ui'[c].buf = ui[c].buf
        /\ UNCHANGED up
    BY <1>5, <1>1 DEF UiReadTarget, UiAfter, UiPart, UiState, wireVars
  <2>2. QED
    BY <2>1, <1>1, <1>2
<1>6. CASE UiReadSender(c) \/ UiWrite(c)
  <2>1. ui[c].pc # "idle"
    BY <1>6 DEF UiReadSender, UiWrite
  <2>2. ui[c].buf \in Seq(UpMessage) /\ ui[c].buf # << >> /\ ui[c].conn \in Conn
    BY <2>1, <1>1 DEF UiPart, UiBusy, UiState
  <2>3. PICK h \in UpMessage : h = Head(ui[c].buf) /\ h.type \notin {"NewOrder", "MarketData"}
    BY <2>2, <1>1, NothingInTail, SeqTaken
  <2>4. CASE UiReadSender(c)
    <3> DEFINE m == [Head(ui[c].buf) EXCEPT !.seq = mem[ui[c].conn].out]
    <3>1. ui' = [ui EXCEPT ![c].pc = "target", ![c].buf = <<m>>] /\ UNCHANGED up
      BY <2>4 DEF UiReadSender, wireVars
    <3>2. m.type = h.type
      BY <2>3 DEF UpMessage
    <3> HIDE DEF m
    <3>3. NothingFrom(<<m>>)
      BY <3>2, <2>3, NothingInSingle
    <3>4. ui'[c].buf = <<m>> /\ \A d \in Clients : d # c => ui'[d] = ui[d]
      BY <3>1, <1>1 DEF UiPart, UiState
    <3>5. QED
      BY <3>1, <3>3, <3>4, <1>1
  <2>5. CASE UiWrite(c)
    <3>1. doWrite(ui[c].conn, h)
      BY <2>3, <2>5 DEF UiWrite
    <3>2. \A j \in Conn : NothingFrom(up'[j])
      BY <3>1, <2>2, <2>3, <1>1, NothingWritten
    <3>3. /\ \A d \in Clients : d # c => ui'[d] = ui[d]
          /\ ui'[c] = Idle \/ ui'[c].buf = ui[c].buf
      BY <2>5, <1>1 DEF UiWrite, UiPart, UiState
    <3>4. QED
      BY <3>2, <3>3, <1>1, <1>2
  <2>6. QED
    BY <1>6, <2>4, <2>5
<1>7. QED
  BY <1>3, <1>4, <1>5, <1>6 DEF UiStep, UiSends

LEMMA NoReportsNet ==
  ASSUME LinkInv, NoReports, NEW c \in Clients, NetStep(c)
  PROVE  (\A k \in Conn : NothingFrom(up'[k])) /\ UNCHANGED ui
<1>1. WireTypeOK /\ NetPart /\ \A k \in Conn : NothingFrom(up[k])
  BY LinkInvIs, ClientPartsAre DEF Kept, ClientParts, NoReports
<1>2. CASE \E k \in Conn : Connected(c, k) \/ ConnectFails(c, k) \/ NetReceive(c, k)
                           \/ NetReadError(c, k) \/ WriteFailed(c, k) \/ TimerFires(c, k)
  BY <1>1, <1>2 DEF Connected, ConnectFails, NetReceive, NetReadError, WriteFailed, TimerFires, wireVars
<1>3. CASE NetReadExpected(c) \/ NetTooLow(c) \/ NetReadSender(c) \/ NetHandle(c)
           \/ NetLogout(c) \/ NetReadTarget(c)
  BY <1>1, <1>3 DEF NetReadExpected, NetTooLow, NetReadSender, NetHandle, NetLogout,
                    NetReadTarget, wireVars
<1>4. CASE NetBeat(c)
  <2> DEFINE m == Message(c, "Heartbeat", net[c].out, 0)
  <2>1. net[c].conn \in Conn /\ net[c].out \in Nat
    BY <1>1, <1>4 DEF NetBeat, NetPart, NetBusy, NetState
  <2>2. m \in UpMessage /\ m.type = "Heartbeat"
    BY <2>1 DEF Message, UpMessage, UpType
  <2>3. doWrite(net[c].conn, m) /\ UNCHANGED ui
    BY <1>4 DEF NetBeat
  <2> HIDE DEF m
  <2>4. QED
    BY <2>1, <2>2, <2>3, <1>1, NothingWritten
<1>5. QED
  BY <1>2, <1>3, <1>4 DEF NetStep

LEMMA NoReportsStep ==
  ASSUME LinkInv, NoReports, NoTraffic, [LinkNext]_linkVars
  PROVE  NoReports'
<1>1. CASE ServerNext /\ UNCHANGED clientVars
  BY <1>1, NoReportsServer
<1>2. CASE ClientNext /\ UNCHANGED serverVars
  <2>1. /\ \A k \in Conn : NothingFrom(up'[k])
        /\ \A d \in Clients : NothingFrom(ui'[d].buf)
    <3>1. PICK c \in Clients : UiStep(c) \/ NetStep(c)
      BY <1>2 DEF ClientNext
    <3>2. CASE UiStep(c)
      BY <3>2, NoReportsUi
    <3>3. CASE NetStep(c)
      BY <3>3, NoReportsNet DEF NoReports
    <3>4. QED
      BY <3>1, <3>2, <3>3
  <2>2. QED
    BY <2>1, <1>2 DEF NoReports, Free, serverVars, coreVars, marketVars
<1>3. CASE (\E k \in Conn : Break(k)) /\ UNCHANGED <<serverVars, clientVars>>
  <2>1. \A j \in Conn : up'[j] \in {up[j], << >>}
    BY <1>3, LinkInvIs DEF Break, Kept, WireTypeOK
  <2>2. \A j \in Conn : NothingFrom(up'[j])
    BY <2>1, NothingInNone DEF NoReports
  <2>3. QED
    BY <2>2, <1>3 DEF NoReports, Free, serverVars, clientVars, coreVars, marketVars
<1>4. CASE UNCHANGED linkVars
  BY <1>4 DEF linkVars, wireVars, NoReports, Free, serverVars, clientVars, coreVars, marketVars
<1>5. QED
  BY <1>1, <1>2, <1>3, <1>4 DEF LinkNext

(* A gateway none of whose clients orders or subscribes writes from its io  *)
(* thread alone, and none of them ever drops a session over a number.       *)
THEOREM NumbersWithoutOrders ==
  ASSUME NoTraffic
  PROVE  LinkSpec => []OneSender /\ []NeverTooLow
<1>1. LinkInit => NoReports
  <2> SUFFICES ASSUME LinkInit PROVE NoReports
    OBVIOUS
  <2>1. WireInit /\ ServerInit /\ ClientInit
    BY DEF LinkInit
  <2>2. NothingFrom(IdleIo.buf) /\ NothingFrom(Idle.buf)
    BY NothingInNone DEF IdleIo, Idle
  <2>3. /\ commands = << >> /\ (\A t \in Workers : Free(t)) /\ subscribed = {} /\ io = IdleIo
        /\ \A r \in Ref : orders[r].status = "unknown"
    BY <2>1 DEF ServerInit, Free
  <2>4. (\A k \in Conn : up[k] = << >>) /\ \A c \in Clients : ui[c] = Idle
    BY <2>1 DEF WireInit, ClientInit
  <2>5. QED
    BY <2>2, <2>3, <2>4, NothingInNone DEF NoReports
<1>2. LinkInv /\ NoReports /\ [LinkNext]_linkVars => NoReports'
  BY NoReportsStep
<1>3. NoReports => OneSender
  BY DEF NoReports, Free, OneSender, WorkerSends
<1>4. LinkSpec => []OneSender
  BY <1>1, <1>2, <1>3, LinkInvariant, PTL DEF LinkSpec
<1>5. QED
  BY <1>4, NumbersInTurn, PTL
=============================================================================
