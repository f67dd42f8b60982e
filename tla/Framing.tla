------------------------------- MODULE Framing -------------------------------
(***************************************************************************)
(* How both ends cut the byte stream into FIX messages: extractNextFrame    *)
(* and the read loop of the server's session, and the read loop of the      *)
(* client's.  A read returns any non-empty piece of what has arrived, so a   *)
(* message is split anywhere and several come at once.                      *)
(*                                                                         *)
(* The stream is a sequence of atoms, each a short run of characters that    *)
(* the code treats alike; body lengths count atoms.  A number is an atom     *)
(* NumBase + n.                                                             *)
(***************************************************************************)
EXTENDS Integers, Sequences, SequencesExt

CONSTANT MaxSegments   \* bound on the messages in a stream

ASSUME FramingAssumption == MaxSegments \in Nat \ {0}

(* SOH, "=", the tags 8, 9 and 10, and the parts of the begin strings       *)
(* "8=FIX.4.4" and "8=FIXT.1.1".                                            *)
SOH == 1
EQ  == 61
T8  == 2
T9  == 3
T10 == 4
FIX == 5
V44 == 6
FIXT == 7
V11  == 8
NumBase == 512
Payload(i) == 100 + i

checksum(atoms) == FoldSeq(LAMBDA a, sum : a + sum, 0, atoms) % 256
Num(n) == NumBase + n
parseUnsigned(a) == a - NumBase

(* Message i of a stream as it is sent, by kind: well formed in either       *)
(* version, with a wrong checksum, with a body length that ends inside the   *)
(* message, behind it or in the message after it, cut short, or no message   *)
(* at all.                                                                  *)
Valid == {"fix", "fixt"}
Noise == {"checksum", "short", "long", "huge", "cut", "junk"}

Version(kind) == IF kind = "fixt" THEN <<FIXT, V11>> ELSE <<FIX, V44>>
BodyLength(kind) ==
  CASE kind = "short" -> 1 [] kind = "long" -> 3 [] kind = "huge" -> 18 [] OTHER -> 2
Opening(i, kind) ==
  <<T8, EQ>> \o Version(kind) \o <<SOH, T9, EQ, Num(BodyLength(kind)), SOH, Payload(i), SOH>>

(* OutboundMessageBuilder and the converters append the checksum of all      *)
(* that precedes it.                                                        *)
Segment(i, kind) ==
  CASE kind = "junk" -> <<Payload(i), SOH>>
    [] kind = "cut"  -> Opening(i, kind)
    [] OTHER -> Opening(i, kind)
                  \o <<T10, EQ, Num((checksum(Opening(i, kind))
                                       + (IF kind = "checksum" THEN 1 ELSE 0)) % 256), SOH>>

VARIABLES
  reader,    \* which end reads
  kinds,     \* the kinds of the messages sent
  input,     \* what was sent and not read yet
  buffer,    \* mReadBuffer
  looping,   \* whether the read handler is in its loop
  handled,   \* the messages handled, by their payload
  rejects    \* whether a malformed frame was rejected

framingVars == <<reader, kinds, input, buffer, looping, handled, rejects>>

Stream(ks) == FlattenSeq([i \in DOMAIN ks |-> Segment(i, ks[i])])

(* The server never sends anything but well-formed messages.                *)
FramingInit ==
  /\ reader \in {"server", "client"}
  /\ kinds \in UNION {[1..n -> IF reader = "client" THEN Valid ELSE Valid \cup Noise] :
                        n \in 1..MaxSegments}
  /\ input = Stream(kinds)
  /\ buffer = << >> /\ looping = FALSE /\ handled = << >> /\ rejects = FALSE

-----------------------------------------------------------------------------
(* async_read_some completes with the first n atoms.                        *)
Read(n) ==
  /\ ~looping /\ n <= Len(input)
  /\ buffer' = buffer \o SubSeq(input, 1, n)
  /\ input' = SubSeq(input, n + 1, Len(input))
  /\ looping' = TRUE
  /\ UNCHANGED <<reader, kinds, handled, rejects>>

(* The first position from which b reads p, at or after position i; 0 if    *)
(* there is none.                                                           *)
Find(b, p, i) ==
  LET hits == {k \in i..(Len(b) - Len(p) + 1) : SubSeq(b, k, k + Len(p) - 1) = p}
  IN  IF hits = {} THEN 0 ELSE Min(hits)

Starts(b, p, i) == SubSeq(b, i, i + Len(p) - 1) = p

-----------------------------------------------------------------------------
(* The server.                                                              *)

NeedMoreData == [status |-> "NeedMoreData", consumed |-> 0]
Malformed    == [status |-> "Malformed", consumed |-> 0]
Complete(n)  == [status |-> "Complete", consumed |-> n]

(* Mutant of ChecksumHolds: the checksum is not compared.                   *)
MutChecksumHolds(b, start) == TRUE

ChecksumHolds(b, start) == checksum(SubSeq(b, 1, start - 1)) = parseUnsigned(b[start + 2])

(* Mutant of Trailer: the checksum field is taken for complete too early.   *)
MutTrailer(b, start) ==
  IF Len(b) < start + 1 THEN NeedMoreData
  ELSE IF ~Starts(b, <<T10, EQ>>, start) THEN Malformed
  ELSE IF Len(b) < start + 3 THEN Malformed
  ELSE IF b[start + 2] < NumBase \/ b[start + 3] # SOH THEN Malformed
  ELSE IF ~ChecksumHolds(b, start) THEN Malformed
  ELSE Complete(start + 3)

(* The checksum field, expected at position start.                          *)
Trailer(b, start) ==
  IF Len(b) < start + 1 THEN NeedMoreData
  ELSE IF ~Starts(b, <<T10, EQ>>, start) THEN Malformed
  ELSE IF Len(b) < start + 3 THEN NeedMoreData
  ELSE IF b[start + 2] < NumBase \/ b[start + 3] # SOH THEN Malformed
  ELSE IF ~ChecksumHolds(b, start) THEN Malformed
  ELSE Complete(start + 3)

extractNextFrame(b) ==
  LET beginEnd  == Find(b, <<SOH>>, 1)
      lengthEnd == Find(b, <<SOH>>, beginEnd + 3)
  IN  IF Len(b) < 2 THEN NeedMoreData
      ELSE IF ~Starts(b, <<T8, EQ>>, 1) THEN Malformed
      ELSE IF beginEnd = 0 THEN NeedMoreData
      ELSE IF SubSeq(b, 1, beginEnd - 1) # <<T8, EQ, FIX, V44>> THEN Malformed
      ELSE IF Len(b) < beginEnd + 2 THEN NeedMoreData
      ELSE IF ~Starts(b, <<T9, EQ>>, beginEnd + 1) THEN Malformed
      ELSE IF lengthEnd = 0 THEN NeedMoreData
      ELSE IF lengthEnd # beginEnd + 4 \/ b[lengthEnd - 1] < NumBase THEN Malformed
      ELSE Trailer(b, lengthEnd + 1 + parseUnsigned(b[lengthEnd - 1]))

(* The payload of a frame the code hands on.                                *)
Message(frame) == (CHOOSE a \in Range(frame) : a >= 100 /\ a < NumBase) - 100

FrameComplete ==
  LET frame == extractNextFrame(buffer) IN
  /\ frame.status = "Complete"
  /\ handled' = Append(handled, Message(SubSeq(buffer, 1, frame.consumed)))
  /\ buffer' = SubSeq(buffer, frame.consumed + 1, Len(buffer))
  /\ UNCHANGED <<reader, kinds, input, looping, rejects>>

(* A reject is sent, and reading goes on at the next "8=FIX." after the      *)
(* first character; without one everything is dropped.                      *)
FrameMalformed ==
  LET next == Find(buffer, <<T8, EQ, FIX>>, 2) IN
  /\ extractNextFrame(buffer).status = "Malformed"
  /\ rejects' = TRUE
  /\ buffer' = IF next = 0 THEN << >> ELSE SubSeq(buffer, next, Len(buffer))
  /\ UNCHANGED <<reader, kinds, input, looping, handled>>

(* The handler ends and the next read is started.                           *)
FrameIncomplete ==
  /\ buffer = << >> \/ extractNextFrame(buffer).status = "NeedMoreData"
  /\ looping' = FALSE
  /\ UNCHANGED <<reader, kinds, input, buffer, handled, rejects>>

ServerLoop ==
  /\ reader = "server" /\ looping
  /\ FrameComplete \/ FrameMalformed \/ FrameIncomplete

-----------------------------------------------------------------------------
(* The client.                                                              *)

findMessageStart(b) ==
  LET starts == {Find(b, <<T8, EQ, FIX, V44, SOH, T9, EQ>>, 1),
                 Find(b, <<T8, EQ, FIXT, V11, SOH, T9, EQ>>, 1)} \ {0}
  IN  IF starts = {} THEN 0 ELSE Min(starts)

(* The first "10=" after the start and the SOH after that end the message.  *)
endOfMessage(b, pos) ==
  LET sum == IF pos = 0 THEN 0 ELSE Find(b, <<T10, EQ>>, pos)
  IN  IF sum = 0 THEN 0 ELSE Find(b, <<SOH>>, sum)

ClientLoop ==
  LET pos == findMessageStart(buffer)
      end == endOfMessage(buffer, pos)
  IN  /\ reader = "client" /\ looping
      /\ \/ /\ end # 0
            /\ handled' = Append(handled, Message(SubSeq(buffer, pos, end)))
            /\ buffer' = SubSeq(buffer, end + 1, Len(buffer))
            /\ UNCHANGED looping
         \/ /\ end = 0
            /\ looping' = FALSE
            /\ UNCHANGED <<handled, buffer>>
      /\ UNCHANGED <<reader, kinds, input, rejects>>

-----------------------------------------------------------------------------
FramingNext == (\E n \in 1..Len(input) : Read(n)) \/ ServerLoop \/ ClientLoop
FramingSpec == FramingInit /\ [][FramingNext]_framingVars

-----------------------------------------------------------------------------
(* A message this end is to understand: the server accepts FIX.4.4 only.    *)
Understood(i) == kinds[i] = "fix" \/ (kinds[i] = "fixt" /\ reader = "client")

(* Nothing is invented and nothing is handled twice or out of order: what    *)
(* either end hands on is a subsequence of the well-formed messages sent,    *)
(* however the stream is cut and whatever damaged messages lie between.     *)
NothingInvented ==
  /\ \A j \in DOMAIN handled : Understood(handled[j])
  /\ \A j, k \in DOMAIN handled : j < k => handled[j] < handled[k]

(* No read boundary loses a message: once everything was read, the first     *)
(* message and every one whose predecessor was handled has been handled too  *)
(* if it is well formed, and a stream without damage draws no reject.  (A    *)
(* message right behind a damaged one may be lost: the loop drops a begin    *)
(* string that is only partly there.)                                       *)
FramesStayInSync ==
  input = << >> /\ ~looping =>
    /\ \A i \in DOMAIN kinds :
         Understood(i) /\ (i = 1 \/ i - 1 \in Range(handled)) => i \in Range(handled)
    /\ (\A i \in DOMAIN kinds : Understood(i)) => ~rejects /\ buffer = << >>
=============================================================================
