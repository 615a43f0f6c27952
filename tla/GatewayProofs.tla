--------------------------- MODULE GatewayProofs ----------------------------
(* Theorems about the gateway, for every value of its constants: its types,   *)
(* and its central promise, that an SFU answer reaches the child whose        *)
(* request it answers.  The queues between a request and its answer hold      *)
(* consecutive ranges of the slots of pending, in order: first what appending *)
(* to and taking from such a queue does, then the actions one by one.         *)
EXTENDS Gateway, TLAPS

(* Every kind the server, the room or the transport puts into events.       *)
LEMMA ForeignInMsg ==
    ASSUME Fields, NEW k \in EventKinds
    PROVE  Foreign(k) \in Msg
BY GatewayAssumption DEF Fields, Foreign, Msg

LEMMA StampInMsg ==
    ASSUME Fields, NEW c \in 0 .. MaxConns, NEW k \in Kinds
    PROVE  Stamp(c, k) \in Msg
BY GatewayAssumption DEF Fields, Stamp, Msg

LEMMA EmitTyped ==
    ASSUME Fields, NEW e \in Msg, Emit(e)
    PROVE  events' \in Seq(Msg)
<1>1. CASE ~Subscribed
  BY <1>1 DEF Emit, Fields
<1>2. CASE Subscribed /\ Len(events) < EventCap
  <2>1. events \in Seq(Msg)
    BY DEF Fields
  <2>2. Append(events, e) \in Seq(Msg)
    BY <2>1
  <2> QED BY <1>2, <2>2 DEF Emit
<1>3. CASE Subscribed /\ ~(Len(events) < EventCap)
  <2>1. events \in Seq(Msg)
    BY DEF Fields
  <2>2. events # <<>>
    BY <1>3, <2>1, GatewayAssumption
  <2>3. Append(Tail(events), e) \in Seq(Msg)
    BY <2>1, <2>2
  <2> QED BY <1>3, <2>3 DEF Emit
<1> QED BY <1>1, <1>2, <1>3

(* What Append and Tail do to the elements of a queue of messages.          *)
LEMMA AppendAt ==
    ASSUME NEW q \in Seq(Msg), NEW e \in Msg
    PROVE  /\ Append(q, e) \in Seq(Msg)
           /\ Len(q) \in Nat /\ Len(Append(q, e)) = Len(q) + 1
           /\ \A i \in 1 .. Len(q) : Append(q, e)[i] = q[i] /\ q[i] \in Msg
           /\ Append(q, e)[Len(q) + 1] = e
OBVIOUS

LEMMA TailAt ==
    ASSUME NEW q \in Seq(Msg), q # <<>>
    PROVE  /\ Tail(q) \in Seq(Msg) /\ Head(q) \in Msg /\ Head(q) = q[1]
           /\ Len(q) \in Nat \ {0} /\ Len(Tail(q)) = Len(q) - 1
           /\ \A i \in 1 .. Len(q) - 1 : Tail(q)[i] = q[i + 1]
OBVIOUS

LEMMA SlotNat ==
    ASSUME NEW q \in Seq(Msg)
    PROVE  Len(q) \in Nat /\ \A i \in 1 .. Len(q) : q[i].slot \in Nat
<1>1. Len(q) \in Nat /\ \A i \in 1 .. Len(q) : q[i] \in Msg
  OBVIOUS
<1> QED BY <1>1 DEF Msg

(* A message without a slot does not disturb the order of the slots.        *)
LEMMA InOrderPlain ==
    ASSUME NEW q \in Seq(Msg), NEW e \in Msg, e.slot = 0,
           NEW lo \in Nat, NEW hi \in Nat, InOrder(q, lo, hi)
    PROVE  InOrder(Append(q, e), lo, hi)
<1> DEFINE r == Append(q, e)
<1>1. /\ Len(q) \in Nat /\ Len(r) = Len(q) + 1
      /\ \A i \in 1 .. Len(q) : r[i] = q[i]
      /\ r[Len(q) + 1].slot = 0
  BY AppendAt
<1> HIDE DEF r
<1>2. ASSUME NEW i \in 1 .. Len(r), r[i].slot # 0
      PROVE  i \in 1 .. Len(q) /\ r[i] = q[i]
  BY <1>1, <1>2
<1>3. \A i \in 1 .. Len(r) : r[i].slot # 0 => r[i].slot \in lo + 1 .. hi
  BY <1>2 DEF InOrder
<1>4. \A i, j \in 1 .. Len(r) :
          i < j /\ r[i].slot # 0 /\ r[j].slot # 0 => r[i].slot < r[j].slot
  BY <1>2 DEF InOrder
<1>5. \A n \in lo + 1 .. hi : \E i \in 1 .. Len(r) : r[i].slot = n
  BY <1>1 DEF InOrder
<1>6. InOrder(r, lo, hi)
  BY <1>3, <1>4, <1>5 DEF InOrder
<1> QED BY <1>6 DEF r

(* The next slot goes to the end.                                           *)
LEMMA InOrderNext ==
    ASSUME NEW q \in Seq(Msg), NEW e \in Msg,
           NEW lo \in Nat, NEW hi \in Nat, lo <= hi, e.slot = hi + 1,
           InOrder(q, lo, hi)
    PROVE  InOrder(Append(q, e), lo, hi + 1)
<1> DEFINE r == Append(q, e)
           l == Len(q)
<1>1. /\ l \in Nat /\ Len(r) = l + 1
      /\ \A i \in 1 .. l : r[i] = q[i]
      /\ r[l + 1].slot = hi + 1
  BY AppendAt
<1>2. \A i \in 1 .. l : q[i].slot \in Nat
  BY SlotNat
<1>3. \A i \in 1 .. l : q[i].slot # 0 => q[i].slot \in lo + 1 .. hi
  BY DEF InOrder
<1>4. \A i, j \in 1 .. l :
          i < j /\ q[i].slot # 0 /\ q[j].slot # 0 => q[i].slot < q[j].slot
  BY DEF InOrder
<1>5. \A n \in lo + 1 .. hi : \E i \in 1 .. l : q[i].slot = n
  BY DEF InOrder
<1> HIDE DEF r, l
<1>6. \A i \in 1 .. Len(r) : r[i].slot # 0 => r[i].slot \in lo + 1 .. hi + 1
  BY <1>1, <1>3
<1>7. ASSUME NEW i \in 1 .. Len(r), NEW j \in 1 .. Len(r),
             i < j, r[i].slot # 0, r[j].slot # 0
      PROVE  r[i].slot < r[j].slot
  <2>1. i \in 1 .. l /\ r[i] = q[i]
    BY <1>1, <1>7
  <2>2. CASE j \in 1 .. l
    BY <1>1, <1>4, <1>7, <2>1, <2>2
  <2>3. CASE j = l + 1
    BY <1>1, <1>3, <1>7, <2>1, <2>3
  <2> QED BY <1>1, <2>2, <2>3
<1>8. ASSUME NEW n \in lo + 1 .. hi + 1
      PROVE  \E i \in 1 .. Len(r) : r[i].slot = n
  <2>1. CASE n = hi + 1
    BY <1>1, <2>1
  <2>2. CASE n \in lo + 1 .. hi
    <3>1. PICK i \in 1 .. l : q[i].slot = n
      BY <1>5, <2>2
    <3>2. i \in 1 .. Len(r) /\ r[i].slot = n
      BY <1>1, <3>1
    <3> QED BY <3>2
  <2> QED BY <2>1, <2>2
<1>9. InOrder(r, lo, hi + 1)
  BY <1>6, <1>7, <1>8 DEF InOrder
<1> QED BY <1>9 DEF r

(* Taking a message without a slot.                                         *)
LEMMA InOrderTailPlain ==
    ASSUME NEW q \in Seq(Msg), q # <<>>, Head(q).slot = 0,
           NEW lo \in Nat, NEW hi \in Nat, InOrder(q, lo, hi)
    PROVE  InOrder(Tail(q), lo, hi)
<1> DEFINE r == Tail(q)
           l == Len(q)
<1>1. /\ l \in Nat \ {0} /\ Len(r) = l - 1
      /\ \A i \in 1 .. l - 1 : r[i] = q[i + 1]
      /\ q[1].slot = 0
  BY TailAt
<1>2. \A i \in 1 .. l : q[i].slot # 0 => q[i].slot \in lo + 1 .. hi
  BY DEF InOrder
<1>3. \A i, j \in 1 .. l :
          i < j /\ q[i].slot # 0 /\ q[j].slot # 0 => q[i].slot < q[j].slot
  BY DEF InOrder
<1>4. \A n \in lo + 1 .. hi : \E i \in 1 .. l : q[i].slot = n
  BY DEF InOrder
<1> HIDE DEF r, l
<1>5. \A i \in 1 .. Len(r) : i + 1 \in 1 .. l /\ r[i] = q[i + 1]
  BY <1>1
<1>6. ASSUME NEW i \in 1 .. Len(r), r[i].slot # 0
      PROVE  /\ r[i].slot \in lo + 1 .. hi
             /\ \A j \in 1 .. Len(r) :
                    i < j /\ r[j].slot # 0 => r[i].slot < r[j].slot
  <2>1. r[i].slot \in lo + 1 .. hi
    BY <1>2, <1>5, <1>6
  <2>2. ASSUME NEW j \in 1 .. Len(r), i < j, r[j].slot # 0
        PROVE  r[i].slot < r[j].slot
    <3>1. i + 1 < j + 1
      BY <1>1, <2>2
    <3> QED BY <1>3, <1>5, <1>6, <2>2, <3>1
  <2> QED BY <2>1, <2>2
<1>7. ASSUME NEW n \in lo + 1 .. hi
      PROVE  \E i \in 1 .. Len(r) : r[i].slot = n
  <2>1. PICK i \in 1 .. l : q[i].slot = n
    BY <1>4
  <2>2. i - 1 \in 1 .. Len(r) /\ r[i - 1] = q[i]
    BY <1>1, <2>1
  <2> QED BY <2>1, <2>2
<1>8. InOrder(r, lo, hi)
  BY <1>6, <1>7 DEF InOrder
<1> QED BY <1>8 DEF r

(* Taking a message with a slot: it is the first one of the range.          *)
LEMMA InOrderTail ==
    ASSUME NEW q \in Seq(Msg), q # <<>>, Head(q).slot # 0,
           NEW lo \in Nat, NEW hi \in Nat, InOrder(q, lo, hi)
    PROVE  /\ Head(q).slot = lo + 1
           /\ lo + 1 <= hi
           /\ InOrder(Tail(q), lo + 1, hi)
<1> DEFINE r == Tail(q)
           l == Len(q)
<1>1. /\ l \in Nat \ {0} /\ Len(r) = l - 1
      /\ \A i \in 1 .. l - 1 : r[i] = q[i + 1]
      /\ Head(q) = q[1] /\ q[1].slot # 0
  BY TailAt
<1>2. \A i \in 1 .. l : q[i].slot # 0 => q[i].slot \in lo + 1 .. hi
  BY DEF InOrder
<1>3. \A i, j \in 1 .. l :
          i < j /\ q[i].slot # 0 /\ q[j].slot # 0 => q[i].slot < q[j].slot
  BY DEF InOrder
<1>4. \A n \in lo + 1 .. hi : \E i \in 1 .. l : q[i].slot = n
  BY DEF InOrder
<1> HIDE DEF r, l
<1>5. q[1].slot \in lo + 1 .. hi
  BY <1>1, <1>2
<1>6. q[1].slot = lo + 1
  <2>1. PICK i \in 1 .. l : q[i].slot = lo + 1
    BY <1>4, <1>5
  <2>2. i = 1 \/ q[1].slot < q[i].slot
    BY <1>1, <1>3, <2>1
  <2> QED BY <1>5, <2>1, <2>2
<1>7. ASSUME NEW i \in 1 .. Len(r), r[i].slot # 0
      PROVE  r[i].slot \in lo + 2 .. hi
  <2>1. i + 1 \in 1 .. l /\ r[i] = q[i + 1]
    BY <1>1
  <2>2. q[1].slot < q[i + 1].slot
    BY <1>1, <1>3, <1>7, <2>1
  <2>3. q[i + 1].slot \in lo + 1 .. hi
    BY <1>2, <1>7, <2>1
  <2> QED BY <1>6, <2>1, <2>2, <2>3
<1>8. ASSUME NEW i \in 1 .. Len(r), NEW j \in 1 .. Len(r),
             i < j, r[i].slot # 0, r[j].slot # 0
      PROVE  r[i].slot < r[j].slot
  <2>1. /\ i + 1 \in 1 .. l /\ r[i] = q[i + 1]
        /\ j + 1 \in 1 .. l /\ r[j] = q[j + 1]
    BY <1>1
  <2>2. i + 1 < j + 1
    BY <1>1, <1>8
  <2> QED BY <1>3, <1>8, <2>1, <2>2
<1>9. ASSUME NEW n \in lo + 2 .. hi
      PROVE  \E i \in 1 .. Len(r) : r[i].slot = n
  <2>1. PICK i \in 1 .. l : q[i].slot = n
    BY <1>4
  <2>2. i # 1
    BY <1>6, <2>1
  <2>3. i - 1 \in 1 .. Len(r) /\ r[i - 1] = q[i]
    BY <1>1, <2>1, <2>2
  <2> QED BY <2>1, <2>3
<1>10. InOrder(r, lo + 1, hi)
  BY <1>7, <1>8, <1>9 DEF InOrder
<1> QED BY <1>1, <1>5, <1>6, <1>10 DEF r

LEMMA InOrderEmpty == \A n \in Nat : InOrder(<<>>, n, n)
BY DEF InOrder

-----------------------------------------------------------------------------
(* The slots of pending are owned by the senders of the messages in a       *)
(* queue: through an append to the queue, an append to pending, a message   *)
(* taken, and a slot popped that precedes all slots of the queue.           *)
LEMMA OwnsAppend ==
    ASSUME NEW q \in Seq(Msg), NEW e \in Msg, NEW p, NEW b,
           OwnsSlot(q, p, b),
           e.slot # 0 => e.slot - b \in 1 .. Len(p) /\ p[e.slot - b] = e.origin
    PROVE  OwnsSlot(Append(q, e), p, b)
<1> DEFINE r == Append(q, e)
<1>1. /\ Len(q) \in Nat /\ Len(r) = Len(q) + 1
      /\ \A i \in 1 .. Len(q) : r[i] = q[i]
      /\ r[Len(q) + 1] = e
  BY AppendAt
<1> HIDE DEF r
<1>2. ASSUME NEW i \in 1 .. Len(r), r[i].slot # 0
      PROVE  r[i].slot - b \in 1 .. Len(p) /\ p[r[i].slot - b] = r[i].origin
  <2>1. CASE i \in 1 .. Len(q)
    BY <1>1, <1>2, <2>1 DEF OwnsSlot
  <2>2. CASE i = Len(q) + 1
    BY <1>1, <1>2, <2>2
  <2> QED BY <1>1, <2>1, <2>2
<1>3. OwnsSlot(r, p, b)
  BY <1>2 DEF OwnsSlot
<1> QED BY <1>3 DEF r

LEMMA OwnsMore ==
    ASSUME NEW q, NEW p \in Seq(ConnIds), NEW c \in ConnIds, NEW b,
           OwnsSlot(q, p, b)
    PROVE  OwnsSlot(q, Append(p, c), b)
<1> DEFINE r == Append(p, c)
<1>1. /\ Len(p) \in Nat /\ Len(r) = Len(p) + 1
      /\ \A i \in 1 .. Len(p) : r[i] = p[i]
  OBVIOUS
<1> HIDE DEF r
<1>2. \A n \in 1 .. Len(p) : n \in 1 .. Len(r)
  BY <1>1
<1>3. OwnsSlot(q, r, b)
  BY <1>1, <1>2 DEF OwnsSlot
<1> QED BY <1>3 DEF r

LEMMA OwnsTail ==
    ASSUME NEW q \in Seq(Msg), q # <<>>, NEW p, NEW b, OwnsSlot(q, p, b)
    PROVE  OwnsSlot(Tail(q), p, b)
<1> DEFINE r == Tail(q)
<1>1. \A i \in 1 .. Len(r) : i + 1 \in 1 .. Len(q) /\ r[i] = q[i + 1]
  BY TailAt
<1> HIDE DEF r
<1>2. OwnsSlot(r, p, b)
  BY <1>1 DEF OwnsSlot
<1> QED BY <1>2 DEF r

LEMMA OwnsPop ==
    ASSUME NEW q \in Seq(Msg), NEW p \in Seq(ConnIds), p # <<>>,
           NEW b \in Nat, NEW lo \in Nat, NEW hi \in Nat, b + 1 <= lo,
           InOrder(q, lo, hi), OwnsSlot(q, p, b)
    PROVE  OwnsSlot(q, Tail(p), b + 1)
<1> DEFINE r == Tail(p)
<1>1. /\ Len(p) \in Nat \ {0} /\ Len(r) = Len(p) - 1
      /\ \A i \in 1 .. Len(p) - 1 : r[i] = p[i + 1]
  OBVIOUS
<1> HIDE DEF r
<1>2. ASSUME NEW i \in 1 .. Len(q), q[i].slot # 0
      PROVE  /\ q[i].slot - (b + 1) \in 1 .. Len(r)
             /\ r[q[i].slot - (b + 1)] = q[i].origin
  <2>1. q[i].slot \in lo + 1 .. hi
    BY <1>2 DEF InOrder
  <2>2. q[i].slot - b \in 1 .. Len(p) /\ p[q[i].slot - b] = q[i].origin
    BY <1>2 DEF OwnsSlot
  <2>3. /\ q[i].slot - (b + 1) \in 1 .. Len(p) - 1
        /\ q[i].slot - (b + 1) + 1 = q[i].slot - b
    BY <1>1, <2>1, <2>2
  <2> QED BY <1>1, <2>2, <2>3
<1>3. OwnsSlot(q, r, b + 1)
  BY <1>2 DEF OwnsSlot
<1> QED BY <1>3 DEF r

LEMMA OwnsEmpty == \A p, b : OwnsSlot(<<>>, p, b)
BY DEF OwnsSlot

-----------------------------------------------------------------------------
(* The shapes of the messages in the queues.                                *)
LEMMA PlainQueue ==
    ASSUME NEW q \in Seq(Msg), Plain(q)
    PROVE  /\ \A e \in Msg : e.slot = 0 /\ e.kind \notin {"sfu", "resp"}
                  => Plain(Append(q, e))
           /\ q # <<>> => /\ Plain(Tail(q))
                          /\ Head(q).slot = 0
                          /\ Head(q).kind \notin {"sfu", "resp"}
<1>1. ASSUME NEW e \in Msg, e.slot = 0, e.kind \notin {"sfu", "resp"}
      PROVE  Plain(Append(q, e))
  BY <1>1, AppendAt DEF Plain
<1>2. ASSUME q # <<>> PROVE Plain(Tail(q))
  <2>1. \A i \in 1 .. Len(Tail(q)) :
            i + 1 \in 1 .. Len(q) /\ Tail(q)[i] = q[i + 1]
    BY <1>2, TailAt
  <2> QED BY <2>1 DEF Plain
<1>3. ASSUME q # <<>>
      PROVE  Head(q).slot = 0 /\ Head(q).kind \notin {"sfu", "resp"}
  <2>1. 1 \in 1 .. Len(q) /\ Head(q) = q[1]
    BY <1>3, TailAt
  <2> QED BY <2>1 DEF Plain
<1> QED BY <1>1, <1>2, <1>3

LEMMA RequestsQueue ==
    ASSUME NEW q \in Seq(Msg), Requests(q)
    PROVE  /\ \A e \in Msg : (e.slot # 0 <=> e.kind = "sfu") /\ e.kind # "resp"
                  => Requests(Append(q, e))
           /\ q # <<>> => /\ Requests(Tail(q))
                          /\ Head(q).slot # 0 <=> Head(q).kind = "sfu"
                          /\ Head(q).kind # "resp"
<1>1. ASSUME NEW e \in Msg, e.slot # 0 <=> e.kind = "sfu", e.kind # "resp"
      PROVE  Requests(Append(q, e))
  BY <1>1, AppendAt DEF Requests
<1>2. ASSUME q # <<>> PROVE Requests(Tail(q))
  <2>1. \A i \in 1 .. Len(Tail(q)) :
            i + 1 \in 1 .. Len(q) /\ Tail(q)[i] = q[i + 1]
    BY <1>2, TailAt
  <2> QED BY <2>1 DEF Requests
<1>3. ASSUME q # <<>>
      PROVE  (Head(q).slot # 0 <=> Head(q).kind = "sfu") /\ Head(q).kind # "resp"
  <2>1. 1 \in 1 .. Len(q) /\ Head(q) = q[1]
    BY <1>3, TailAt
  <2> QED BY <2>1 DEF Requests
<1> QED BY <1>1, <1>2, <1>3

LEMMA AnswersQueue ==
    ASSUME NEW q \in Seq(Msg), Answers(q)
    PROVE  /\ \A e \in Msg : (e.slot # 0 <=> e.kind = "resp")
                  => Answers(Append(q, e))
           /\ q # <<>> => /\ Answers(Tail(q))
                          /\ Head(q).slot # 0 <=> Head(q).kind = "resp"
<1>1. ASSUME NEW e \in Msg, e.slot # 0 <=> e.kind = "resp"
      PROVE  Answers(Append(q, e))
  BY <1>1, AppendAt DEF Answers
<1>2. ASSUME q # <<>> PROVE Answers(Tail(q))
  <2>1. \A i \in 1 .. Len(Tail(q)) :
            i + 1 \in 1 .. Len(q) /\ Tail(q)[i] = q[i + 1]
    BY <1>2, TailAt
  <2> QED BY <2>1 DEF Answers
<1>3. ASSUME q # <<>> PROVE Head(q).slot # 0 <=> Head(q).kind = "resp"
  <2>1. 1 \in 1 .. Len(q) /\ Head(q) = q[1]
    BY <1>3, TailAt
  <2> QED BY <2>1 DEF Answers
<1> QED BY <1>1, <1>2, <1>3

LEMMA ShapesEmpty == Plain(<<>>) /\ Requests(<<>>) /\ Answers(<<>>)
BY DEF Plain, Requests, Answers

-----------------------------------------------------------------------------
(* What emitting an event does while the session stays unskewed.            *)
LEMMA EmitCases ==
    ASSUME Fields, Flags, NEW e \in Msg, Emit(e), ~skewed',
           ~skewed => Answers(events)
    PROVE  /\ ~skewed
           /\ \/ ~Subscribed /\ events' = events
              \/ /\ Subscribed /\ ~(IsResponse(e) /\ e.slot = 0)
                 /\ events' = Append(events, e)
              \/ /\ Subscribed /\ ~(IsResponse(e) /\ e.slot = 0)
                 /\ events # <<>> /\ Head(events).slot = 0
                 /\ events' = Append(Tail(events), e)
<1>1. CASE ~Subscribed
  BY <1>1 DEF Emit
<1>2. CASE Subscribed /\ Len(events) < EventCap
  <2>1. /\ events' = Append(events, e)
        /\ skewed' = (skewed \/ (IsResponse(e) /\ e.slot = 0))
    BY <1>2 DEF Emit
  <2>2. ~skewed /\ ~(IsResponse(e) /\ e.slot = 0)
    BY <2>1
  <2> QED BY <1>2, <2>1, <2>2
<1>3. CASE Subscribed /\ ~(Len(events) < EventCap)
  <2>1. /\ events' = Append(Tail(events), e)
        /\ skewed' = \/ skewed
                     \/ IsResponse(Head(events))
                     \/ IsResponse(e) /\ e.slot = 0
    BY <1>3 DEF Emit
  <2>2. ~skewed /\ ~IsResponse(Head(events)) /\ ~(IsResponse(e) /\ e.slot = 0)
    BY <2>1
  <2>3. events \in Seq(Msg)
    BY DEF Fields
  <2>4. events # <<>>
    BY <1>3, <2>3, GatewayAssumption
  <2>5. Head(events).slot = 0
    BY <2>2, <2>3, <2>4, AnswersQueue DEF IsResponse
  <2> QED BY <1>3, <2>1, <2>2, <2>4, <2>5
<1> QED BY <1>1, <1>2, <1>3

(* Room for one more event costs at most an event without a slot.           *)
LEMMA EmitRoom ==
    ASSUME Fields, Flags, NEW e \in Msg, Emit(e), Subscribed, ~skewed',
           ~skewed => Answers(events), AlignedDown
    PROVE  \E q \in Seq(Msg) :
              /\ events' = Append(q, e)
              /\ InOrder(q, popped, answered) /\ OwnsSlot(q, pending, popped)
              /\ Answers(q)
<1>1. /\ events \in Seq(Msg)
      /\ popped \in Nat /\ answered \in Nat
  BY DEF Fields
<1>2. Answers(events)
  BY EmitCases
<1>3. CASE events' = Append(events, e)
  BY <1>1, <1>2, <1>3 DEF AlignedDown
<1>4. CASE /\ events # <<>> /\ Head(events).slot = 0
           /\ events' = Append(Tail(events), e)
  <2>1. /\ Tail(events) \in Seq(Msg)
        /\ InOrder(Tail(events), popped, answered)
        /\ OwnsSlot(Tail(events), pending, popped)
        /\ Answers(Tail(events))
    BY <1>1, <1>2, <1>4, InOrderTailPlain, OwnsTail, AnswersQueue, TailAt
    DEF AlignedDown
  <2> QED BY <1>4, <2>1
<1> QED BY <1>3, <1>4, EmitCases

LEMMA EmitPlain ==
    ASSUME Fields, Flags, NEW e \in Msg, e.slot = 0, Emit(e), ~skewed',
           ~skewed => Answers(events) /\ AlignedDown
    PROVE  /\ ~skewed
           /\ InOrder(events', popped, answered)
           /\ OwnsSlot(events', pending, popped)
<1>1. ~skewed
  BY EmitCases
<1>2. CASE ~Subscribed
  <2>1. events' = events
    BY <1>2, EmitCases
  <2> QED BY <1>1, <2>1 DEF AlignedDown
<1>3. CASE Subscribed
  <2>1. PICK q \in Seq(Msg) :
            /\ events' = Append(q, e)
            /\ InOrder(q, popped, answered) /\ OwnsSlot(q, pending, popped)
    BY <1>1, <1>3, EmitRoom
  <2>2. popped \in Nat /\ answered \in Nat
    BY DEF Fields
  <2>3. InOrder(Append(q, e), popped, answered)
    BY <2>1, <2>2, InOrderPlain
  <2>4. OwnsSlot(Append(q, e), pending, popped)
    BY <2>1, OwnsAppend
  <2> QED BY <1>1, <2>1, <2>3, <2>4
<1> QED BY <1>2, <1>3

LEMMA EmitAnswer ==
    ASSUME Fields, Flags, NEW e \in Msg, e.slot = answered + 1,
           popped <= answered, Emit(e), Subscribed, ~skewed',
           ~skewed => Answers(events) /\ AlignedDown,
           e.slot - popped \in 1 .. Len(pending),
           pending[e.slot - popped] = e.origin
    PROVE  /\ InOrder(events', popped, answered + 1)
           /\ OwnsSlot(events', pending, popped)
<1>1. ~skewed
  BY EmitCases
<1>2. PICK q \in Seq(Msg) :
          /\ events' = Append(q, e)
          /\ InOrder(q, popped, answered) /\ OwnsSlot(q, pending, popped)
  BY <1>1, EmitRoom
<1>3. popped \in Nat /\ answered \in Nat
  BY DEF Fields
<1>4. InOrder(Append(q, e), popped, answered + 1)
  BY <1>2, <1>3, InOrderNext
<1>5. OwnsSlot(Append(q, e), pending, popped)
  BY <1>2, OwnsAppend
<1> QED BY <1>2, <1>4, <1>5

(* An unskewed session's events keep their shape.                           *)
LEMMA EmitAnswers ==
    ASSUME Fields, Flags, NEW e \in Msg, e.slot # 0 => e.kind = "resp",
           Emit(e), ~skewed', ~skewed => Answers(events)
    PROVE  Answers(events')
<1>1. events \in Seq(Msg)
  BY DEF Fields
<1>2. ~skewed /\ Answers(events)
  BY EmitCases
<1>3. CASE ~Subscribed
  <2>1. events' = events
    BY <1>3, EmitCases
  <2> QED BY <1>2, <2>1
<1>4. CASE Subscribed
  <2>1. e.slot # 0 <=> e.kind = "resp"
    BY <1>4, EmitCases DEF IsResponse
  <2>2. Answers(Append(events, e))
    BY <1>1, <1>2, <2>1, AnswersQueue
  <2>3. events # <<>> => Answers(Append(Tail(events), e))
    BY <1>1, <1>2, <2>1, AnswersQueue, TailAt
  <2> QED BY <1>4, <2>2, <2>3, EmitCases
<1> QED BY <1>3, <1>4

-----------------------------------------------------------------------------
(* The alignment of pending with the messages in flight, action by action.  *)

-----------------------------------------------------------------------------
(* Type correctness.                                                        *)

USE DEF child, route, link, srv, count, ghost, slots

LEMMA FieldsInit == Init => Fields
BY GatewayAssumption DEF Init, Fields, ConnIds

LEMMA ResetTyped ==
    ASSUME Fields, ResetRemote, UNCHANGED <<child, session, cached, count>>,
           remoteRx' \in Seq(Msg)
    PROVE  Fields'
BY DEF Fields, ResetRemote

LEMMA FieldsStep == Fields /\ [Next]_vars => Fields'
<1> SUFFICES ASSUME Fields, [Next]_vars PROVE Fields'
  OBVIOUS
<1>1. CASE UNCHANGED vars
  BY <1>1 DEF vars, Fields
<1>2. CASE Accept
  BY <1>2, GatewayAssumption DEF Accept, Fields, ConnIds
<1>3. ASSUME NEW c \in ConnIds, RemoveConn(c) PROVE Fields'
  BY <1>3 DEF RemoveConn, Fields
<1>4. ASSUME NEW c \in ConnIds, NEW k \in ChildKinds, Forward(c, k)
      PROVE  Fields'
  <2> DEFINE m == Stamp(c, k)
  <2>1. m \in Msg
    BY StampInMsg, GatewayAssumption DEF ConnIds, Kinds
  <2>2. Append(remoteRx, m) \in Seq(Msg) /\ Append(pending, c) \in Seq(ConnIds)
    BY <2>1 DEF Fields
  <2>3. m.id \in Nat
    BY <2>1 DEF Msg
  <2>4. Remember(m) \in Seq(Nat)
    <3>1. echo \in Seq(Nat)
      BY DEF Fields
    <3>2. Len(echo) >= EchoCap => echo # <<>>
      BY <3>1, GatewayAssumption
    <3>3. Append(echo, m.id) \in Seq(Nat)
      BY <2>3, <3>1
    <3>4. echo # <<>> => Append(Tail(echo), m.id) \in Seq(Nat)
      BY <2>3, <3>1
    <3>5. Len(echo) \in Nat
      BY <3>1
    <3> HIDE DEF m
    <3> QED BY <3>1, <3>2, <3>3, <3>4, <3>5, GatewayAssumption DEF Remember
  <2>5. pushed + 1 \in Nat
    BY DEF Fields
  <2> HIDE DEF m
  <2> QED BY <1>4, <2>2, <2>4, <2>5 DEF Forward, Fields, m
<1>5. CASE SendReport
  <2>1. Report \in Msg
    BY GatewayAssumption DEF Report, Msg, Kinds, Agent, Fields
  <2> QED BY <1>5, <2>1 DEF SendReport, Fields
<1>6. CASE SendEncoderStatus
  <2>1. Stamp(Agent, "media") \in Msg
    BY StampInMsg, GatewayAssumption DEF Agent, Kinds
  <2> QED BY <1>6, <2>1 DEF SendEncoderStatus, Fields
<1>7. ASSUME NEW k \in PeerKinds, PeerSend(k) PROVE Fields'
  <2>1. Foreign(k) \in Msg
    BY ForeignInMsg, GatewayAssumption DEF EventKinds
  <2> QED BY <1>7, <2>1 DEF PeerSend, Fields
<1>8. ASSUME NEW how \in Losses, LoseConnection(how) PROVE Fields'
  <2>1. Foreign(how) \in Msg
    BY ForeignInMsg, GatewayAssumption DEF EventKinds
  <2>2. events' \in Seq(Msg)
    BY <1>8, <2>1, EmitTyped DEF LoseConnection
  <2> QED BY <1>8, <2>2 DEF LoseConnection, Fields
<1>9. CASE ServerReplay
  <2>1. Head(replay) \in Msg /\ Tail(replay) \in Seq(Msg)
    BY <1>9 DEF ServerReplay, Fields
  <2>2. events' \in Seq(Msg)
    BY <1>9, <2>1, EmitTyped DEF ServerReplay
  <2> QED BY <1>9, <2>1, <2>2 DEF ServerReplay, Fields
<1>10. CASE AnswerSfu
  <2>1. Head(wire) \in Msg /\ Tail(wire) \in Seq(Msg)
    BY <1>10 DEF AnswerSfu, ServerReady, Fields
  <2>2. [Head(wire) EXCEPT !.kind = "resp"] \in Msg
    BY <2>1 DEF Msg, EventKinds
  <2>3. events' \in Seq(Msg)
    BY <1>10, <2>2, EmitTyped DEF AnswerSfu
  <2>4. answered' \in Nat
    BY <1>10 DEF AnswerSfu, Fields
  <2>5. wire' \in Seq(Msg)
    BY <1>10, <2>1 DEF AnswerSfu
  <2> QED BY <1>10, <2>3, <2>4, <2>5 DEF AnswerSfu, Fields
<1>11. CASE AnswerData
  <2>1. Head(wire) \in Msg /\ Tail(wire) \in Seq(Msg)
    BY <1>11 DEF AnswerData, ServerReady, Fields
  <2>2. \A k \in {"room", "resp"} : [Head(wire) EXCEPT !.kind = k] \in Msg
    BY <2>1 DEF Msg, EventKinds
  <2>3. events' \in Seq(Msg)
    BY <1>11, <2>2, EmitTyped DEF AnswerData
  <2> QED BY <1>11, <2>1, <2>3 DEF AnswerData, Fields
<1>12. CASE RelayRoom
  <2>1. Head(wire) \in Msg /\ Tail(wire) \in Seq(Msg)
    BY <1>12 DEF RelayRoom, ServerReady, Fields
  <2> QED BY <1>12, <2>1 DEF RelayRoom, Fields
<1>13. CASE StoreStatus
  BY <1>13 DEF StoreStatus, ServerReady, Fields
<1>14. CASE RelayToVehicle
  <2>1. Head(chan) \in Msg /\ Tail(chan) \in Seq(Msg)
    BY <1>14 DEF RelayToVehicle, Fields
  <2>2. events' \in Seq(Msg)
    BY <1>14, <2>1, EmitTyped DEF RelayToVehicle
  <2> QED BY <1>14, <2>1, <2>2 DEF RelayToVehicle, Fields
<1>15. CASE Connect
  BY <1>15 DEF Connect, Fields
<1>16. CASE Subscribe
  BY <1>16 DEF Subscribe, Fields
<1>17. CASE Disconnected
  <2>1. remoteRx' \in Seq(Msg)
    BY <1>17 DEF Disconnected, Fields
  <2> QED BY <1>17, <2>1, ResetTyped DEF Disconnected
<1>18. CASE SendRemote
  <2>1. Head(remoteRx) \in Msg /\ Tail(remoteRx) \in Seq(Msg)
    BY <1>18 DEF SendRemote, Fields
  <2>2. sent + 1 \in Nat
    BY DEF Fields
  <2> QED BY <1>18, <2>1, <2>2 DEF SendRemote, Fields
<1>19. CASE SendFails
  <2>1. remoteRx' \in Seq(Msg)
    BY <1>19 DEF SendFails, Fields
  <2> QED BY <1>19, <2>1, ResetTyped DEF SendFails
<1>20. CASE Drain
  BY <1>20 DEF Drain, Fields
<1>21. CASE Downstream
  <2> DEFINE m == Head(events)
  <2>1. m \in Msg /\ Tail(events) \in Seq(Msg)
    BY <1>21 DEF Downstream, Fields
  <2>2. Targets(m) \subseteq ConnIds
    BY DEF Targets, Fields
  <2>3. delivered' \subseteq [to : ConnIds, msg : Msg]
    BY <1>21, <2>1, <2>2 DEF Downstream, Fields
  <2>4. pending' \in Seq(ConnIds)
    BY <1>21 DEF Downstream, Fields
  <2> QED BY <1>21, <2>1, <2>3, <2>4 DEF Downstream, Fields
<1>22. ASSUME NEW c \in ConnIds, Intercept(c) PROVE Fields'
  BY <1>22 DEF Intercept, vars, Fields
<1>23. ASSUME NEW c \in ConnIds, NEW k \in ChildKinds, Refuse(c, k)
       PROVE  Fields'
  BY <1>23 DEF Refuse, vars, Fields
<1>24. CASE WriteFails
  BY <1>24 DEF WriteFails, Fields
<1> QED
  BY <1>1, <1>2, <1>3, <1>4, <1>5, <1>6, <1>7, <1>8, <1>9, <1>10, <1>11, <1>12,
     <1>13, <1>14, <1>15, <1>16, <1>17, <1>18, <1>19, <1>20, <1>21, <1>22, <1>23,
     <1>24
  DEF Next, Server, RemoteLoop

LEMMA FlagsStep == Flags /\ [Next]_vars => Flags'
<1> SUFFICES ASSUME Flags, [Next]_vars PROVE Flags'
  OBVIOUS
<1>1. \A e : Emit(e) => skewed' \in BOOLEAN
  BY DEF Emit, Flags, IsResponse
<1> QED BY <1>1, Zenon
  DEF Flags, Next, vars, Accept, RemoveConn, Intercept, Refuse, Forward, SendReport,
      SendEncoderStatus, PeerSend, LoseConnection, WriteFails, Server, ServerReplay,
      AnswerSfu, AnswerData, RelayRoom, StoreStatus, RelayToVehicle, RemoteLoop,
      Connect, Subscribe, Disconnected, SendRemote, SendFails, ResetRemote,
      Drain, Downstream

(* TypeOK is an invariant of the gateway for all constants.                 *)
THEOREM TypeCorrect == Spec => []TypeOK
<1>1. Init => TypeOK
  <2>1. Init => Flags
    BY Zenon DEF Init, Flags
  <2> QED BY <2>1, FieldsInit DEF TypeOK
<1>2. TypeOK /\ [Next]_vars => TypeOK'
  BY FieldsStep, FlagsStep DEF TypeOK
<1> QED BY <1>1, <1>2, PTL DEF Spec

alignment == <<pending, popped, answered, sent, pushed, events, wire, remoteRx,
               alive, joined, skewed>>

LEMMA AlignedFrame ==
    ASSUME PendingAligned, UNCHANGED alignment
    PROVE  PendingAligned'
BY DEF PendingAligned, alignment, Counted, AlignedDown, AlignedWire, AlignedUp,
       InOrder, OwnsSlot

(* Only events and skewed change, by an event that is no answer.            *)
LEMMA AlignedEmit ==
    ASSUME Fields, Flags, Shapes, PendingAligned,
           NEW e \in Msg, e.slot = 0, Emit(e),
           UNCHANGED <<pending, popped, answered, sent, pushed, remoteRx, joined>>,
           UNCHANGED <<wire, alive>> \/ ~alive'
    PROVE  PendingAligned'
<1> SUFFICES ASSUME ~skewed' PROVE (Counted /\ AlignedDown /\ AlignedWire /\ AlignedUp)'
  BY DEF PendingAligned
<1>1. ~skewed /\ InOrder(events', popped, answered)
              /\ OwnsSlot(events', pending, popped)
  BY EmitPlain DEF Shapes, PendingAligned
<1>2. AlignedDown'
  BY <1>1 DEF AlignedDown, InOrder, OwnsSlot
<1>3. Counted' /\ AlignedWire' /\ AlignedUp'
  BY <1>1 DEF PendingAligned, Counted, AlignedWire, AlignedUp, InOrder, OwnsSlot
<1> QED BY <1>2, <1>3

(* Only remoteRx changes, by a message that holds no slot.                  *)
LEMMA AlignedSend ==
    ASSUME Fields, PendingAligned, NEW m \in Msg, m.slot = 0,
           remoteRx' = Append(remoteRx, m),
           UNCHANGED <<pending, popped, answered, sent, pushed, events, wire,
                       alive, joined, skewed>>
    PROVE  PendingAligned'
<1> SUFFICES ASSUME ~skewed
             PROVE (Counted /\ AlignedDown /\ AlignedWire /\ AlignedUp)'
  BY DEF PendingAligned
<1>1. Counted' /\ AlignedDown' /\ AlignedWire'
  <2>1. Counted'
    BY DEF PendingAligned, Counted
  <2>2. AlignedDown'
    BY DEF PendingAligned, AlignedDown, InOrder, OwnsSlot
  <2>3. AlignedWire'
    BY DEF PendingAligned, AlignedWire, InOrder, OwnsSlot
  <2> QED
    BY <2>1, <2>2, <2>3
<1>2. remoteRx \in Seq(Msg) /\ sent \in Nat /\ pushed \in Nat
  BY DEF Fields
<1>3. joined => /\ InOrder(Append(remoteRx, m), sent, pushed)
                /\ OwnsSlot(Append(remoteRx, m), pending, popped)
  BY <1>2, InOrderPlain, OwnsAppend DEF PendingAligned, AlignedUp
<1>4. AlignedUp'
  BY <1>3 DEF AlignedUp
<1> QED BY <1>1, <1>4

(* A message without a slot leaves the wire.                                *)
LEMMA WireTail ==
    ASSUME Fields, AlignedWire, wire # <<>>, Head(wire).slot = 0
    PROVE  alive => /\ InOrder(Tail(wire), answered, sent)
                    /\ OwnsSlot(Tail(wire), pending, popped)
<1>1. wire \in Seq(Msg) /\ answered \in Nat /\ sent \in Nat
  BY DEF Fields
<1> QED BY <1>1, InOrderTailPlain, OwnsTail DEF AlignedWire

LEMMA AlignedForward ==
    ASSUME Fields, PendingAligned, Shapes, NEW c \in ConnIds, NEW k \in ChildKinds,
           Forward(c, k)
    PROVE  PendingAligned'
<1> DEFINE m == Stamp(c, k)
<1>1. m \in Msg
  BY StampInMsg, GatewayAssumption DEF ConnIds, Kinds
<1>2. CASE k # "sfu"
  <2>1. m.slot = 0 /\ m.kind # "sfu"
    BY <1>2 DEF Stamp
  <2> HIDE DEF m
  <2> QED BY <1>1, <2>1, AlignedSend DEF Forward, IsSfuRequest, m
<1>3. CASE k = "sfu"
  <2>1. m.slot = pushed + 1 /\ m.kind = "sfu" /\ m.origin = c
    BY <1>3 DEF Stamp
  <2> HIDE DEF m
  <2>2. /\ pending' = Append(pending, c) /\ pushed' = pushed + 1
        /\ remoteRx' = Append(remoteRx, m) /\ joined
        /\ UNCHANGED <<popped, answered, sent, events, wire, alive, joined, skewed>>
    BY <2>1 DEF Forward, IsSfuRequest, m
  <2>3. /\ pending \in Seq(ConnIds) /\ remoteRx \in Seq(Msg)
        /\ pushed \in Nat /\ popped \in Nat /\ sent \in Nat /\ answered \in Nat
    BY DEF Fields
  <2> SUFFICES ASSUME ~skewed
               PROVE (Counted /\ AlignedDown /\ AlignedWire /\ AlignedUp)'
    BY <2>2 DEF PendingAligned
  <2>4. Counted /\ AlignedDown /\ AlignedWire /\ AlignedUp
    BY DEF PendingAligned
  <2>5. /\ Len(Append(pending, c)) = Len(pending) + 1
        /\ Append(pending, c)[Len(pending) + 1] = c
    BY <2>3
  <2>6. Counted'
    BY <2>2, <2>3, <2>4, <2>5 DEF Counted
  <2>7. AlignedDown'
    BY <2>2, <2>3, <2>4, OwnsMore DEF AlignedDown
  <2>8. AlignedWire'
    BY <2>2, <2>3, <2>4, OwnsMore DEF AlignedWire
  <2>9. InOrder(Append(remoteRx, m), sent, pushed + 1)
    BY <1>1, <2>1, <2>2, <2>3, <2>4, InOrderNext DEF AlignedUp, Counted
  <2>10. OwnsSlot(Append(remoteRx, m), Append(pending, c), popped)
    <3>1. m.slot - popped = Len(pending) + 1 /\ Len(pending) \in Nat
      BY <2>1, <2>3, <2>4 DEF Counted
    <3>2. OwnsSlot(remoteRx, Append(pending, c), popped)
      BY <2>2, <2>3, <2>4, OwnsMore DEF AlignedUp
    <3>3. /\ m.slot - popped \in 1 .. Len(Append(pending, c))
          /\ Append(pending, c)[m.slot - popped] = m.origin
      BY <2>1, <2>5, <3>1
    <3> QED BY <1>1, <2>3, <3>2, <3>3, OwnsAppend
  <2>11. AlignedUp'
    BY <2>2, <2>9, <2>10 DEF AlignedUp
  <2> QED BY <2>6, <2>7, <2>8, <2>11
<1> QED BY <1>2, <1>3

LEMMA AlignedAnswer ==
    ASSUME Fields, Flags, Phases, Shapes, PendingAligned, AnswerSfu
    PROVE  PendingAligned'
<1> DEFINE h == Head(wire)
           e == [h EXCEPT !.kind = "resp"]
<1>1. /\ wire \in Seq(Msg) /\ wire # <<>> /\ alive /\ answered \in Nat
      /\ sent \in Nat /\ popped \in Nat /\ h.kind = "sfu"
  BY DEF AnswerSfu, ServerReady, IsSfuRequest, Fields
<1>2. h \in Msg /\ h.slot # 0
  BY <1>1, TailAt, RequestsQueue DEF Shapes
<1>3. e \in Msg /\ e.slot = h.slot /\ e.origin = h.origin
  BY <1>2 DEF Msg, EventKinds
<1>4. Subscribed
  BY <1>1 DEF Phases, Subscribed
<1>5. /\ Emit(e) /\ wire' = Tail(wire) /\ answered' = answered + 1
      /\ UNCHANGED <<pending, popped, sent, pushed, remoteRx, alive, joined>>
  BY DEF AnswerSfu
<1> HIDE DEF h, e
<1> SUFFICES ASSUME ~skewed' PROVE (Counted /\ AlignedDown /\ AlignedWire /\ AlignedUp)'
  BY DEF PendingAligned
<1>6. ~skewed
  BY <1>3, <1>5, EmitCases DEF Shapes
<1>7. Counted /\ AlignedDown /\ AlignedWire /\ AlignedUp
  BY <1>6 DEF PendingAligned
<1>8. /\ h.slot = answered + 1 /\ answered + 1 <= sent
      /\ InOrder(Tail(wire), answered + 1, sent)
  BY <1>1, <1>2, <1>7, InOrderTail DEF AlignedWire, h
<1>9. h.slot - popped \in 1 .. Len(pending) /\ pending[h.slot - popped] = h.origin
  <2>1. 1 \in 1 .. Len(wire) /\ wire[1] = h
    BY <1>1, TailAt DEF h
  <2> QED BY <1>1, <1>2, <1>7, <2>1 DEF AlignedWire, OwnsSlot
<1>10. InOrder(events', popped, answered + 1) /\ OwnsSlot(events', pending, popped)
  BY <1>3, <1>4, <1>5, <1>7, <1>8, <1>9, EmitAnswer DEF Shapes, Counted
<1>11. Counted'
  BY <1>1, <1>5, <1>7, <1>8 DEF Counted
<1>12. AlignedDown'
  BY <1>5, <1>10 DEF AlignedDown
<1>13. OwnsSlot(Tail(wire), pending, popped)
  BY <1>1, <1>7, OwnsTail DEF AlignedWire
<1>14. AlignedWire'
  BY <1>5, <1>8, <1>13 DEF AlignedWire
<1>15. AlignedUp'
  BY <1>5, <1>7 DEF AlignedUp, InOrder, OwnsSlot
<1> QED BY <1>11, <1>12, <1>14, <1>15

LEMMA AlignedData ==
    ASSUME Fields, Flags, Phases, Shapes, PendingAligned, AnswerData
    PROVE  PendingAligned'
<1> DEFINE h == Head(wire)
<1>1. /\ wire \in Seq(Msg) /\ wire # <<>> /\ alive /\ h.kind = "data"
  BY DEF AnswerData, ServerReady, Fields
<1>2. h \in Msg /\ h.slot = 0
  BY <1>1, TailAt, RequestsQueue DEF Shapes
<1>3. PICK k \in {"room", "resp"} : Emit([h EXCEPT !.kind = k])
  BY DEF AnswerData
<1> DEFINE e == [h EXCEPT !.kind = k]
<1>4. e \in Msg /\ e.slot = 0
  BY <1>2 DEF Msg, EventKinds
<1>5. /\ Emit(e) /\ wire' = Tail(wire)
      /\ UNCHANGED <<pending, popped, answered, sent, pushed, remoteRx, alive, joined>>
  BY <1>3 DEF AnswerData
<1> HIDE DEF h, e
<1> SUFFICES ASSUME ~skewed' PROVE (Counted /\ AlignedDown /\ AlignedWire /\ AlignedUp)'
  BY DEF PendingAligned
<1>6. ~skewed /\ InOrder(events', popped, answered)
              /\ OwnsSlot(events', pending, popped)
  BY <1>4, <1>5, EmitPlain DEF Shapes, PendingAligned
<1>7. Counted /\ AlignedDown /\ AlignedWire /\ AlignedUp
  BY <1>6 DEF PendingAligned
<1>8. InOrder(Tail(wire), answered, sent) /\ OwnsSlot(Tail(wire), pending, popped)
  BY <1>1, <1>2, <1>7, WireTail DEF h
<1>9. Counted' /\ AlignedUp'
  BY <1>5, <1>7 DEF Counted, AlignedUp, InOrder, OwnsSlot
<1>10. AlignedDown' /\ AlignedWire'
  BY <1>5, <1>6, <1>8 DEF AlignedDown, AlignedWire
<1> QED BY <1>9, <1>10

(* RelayRoom and StoreStatus take from the wire a message without a slot.   *)
LEMMA AlignedTake ==
    ASSUME Fields, Shapes, PendingAligned, ServerReady, Head(wire).kind # "sfu",
           wire' = Tail(wire),
           UNCHANGED <<pending, popped, answered, sent, pushed, events, remoteRx,
                       alive, joined, skewed>>
    PROVE  PendingAligned'
<1>1. wire \in Seq(Msg) /\ wire # <<>>
  BY DEF ServerReady, Fields
<1>2. Head(wire).slot = 0
  BY <1>1, RequestsQueue DEF Shapes
<1> SUFFICES ASSUME ~skewed
             PROVE (Counted /\ AlignedDown /\ AlignedWire /\ AlignedUp)'
  BY DEF PendingAligned
<1>3. Counted /\ AlignedDown /\ AlignedWire /\ AlignedUp
  BY DEF PendingAligned
<1>4. AlignedWire'
  BY <1>1, <1>2, <1>3, WireTail DEF AlignedWire
<1>5. Counted' /\ AlignedDown' /\ AlignedUp'
  BY <1>3 DEF Counted, AlignedDown, AlignedUp, InOrder, OwnsSlot
<1> QED BY <1>4, <1>5

LEMMA AlignedSendRemote ==
    ASSUME Fields, Phases, Shapes, PendingAligned, SendRemote
    PROVE  PendingAligned'
<1> DEFINE h == Head(remoteRx)
<1>1. /\ remoteRx \in Seq(Msg) /\ remoteRx # <<>> /\ wire \in Seq(Msg)
      /\ sent \in Nat /\ pushed \in Nat /\ answered \in Nat /\ popped \in Nat
      /\ joined /\ alive
  BY DEF SendRemote, Fields, Phases
<1>2. h \in Msg /\ (h.slot # 0 <=> h.kind = "sfu")
  BY <1>1, TailAt, RequestsQueue DEF Shapes
<1>3. /\ wire' = Append(wire, h) /\ remoteRx' = Tail(remoteRx)
      /\ sent' = IF h.kind = "sfu" THEN sent + 1 ELSE sent
      /\ UNCHANGED <<pending, popped, answered, pushed, events, alive, joined, skewed>>
  BY DEF SendRemote, IsSfuRequest
<1> SUFFICES ASSUME ~skewed
             PROVE (Counted /\ AlignedDown /\ AlignedWire /\ AlignedUp)'
  BY <1>3 DEF PendingAligned
<1>4. Counted /\ AlignedDown /\ AlignedWire /\ AlignedUp
  BY DEF PendingAligned
<1>5. AlignedDown'
  BY <1>3, <1>4 DEF AlignedDown, InOrder, OwnsSlot
<1>6. OwnsSlot(Tail(remoteRx), pending, popped)
  BY <1>1, <1>4, OwnsTail DEF AlignedUp
<1>7. h.slot # 0 => /\ h.slot - popped \in 1 .. Len(pending)
                    /\ pending[h.slot - popped] = h.origin
  <2>1. 1 \in 1 .. Len(remoteRx) /\ remoteRx[1] = h
    BY <1>1, TailAt
  <2> HIDE DEF h
  <2> QED BY <1>1, <1>4, <2>1 DEF AlignedUp, OwnsSlot
<1>8. OwnsSlot(Append(wire, h), pending, popped)
  BY <1>1, <1>2, <1>4, <1>7, OwnsAppend DEF AlignedWire
<1>9. CASE h.slot = 0
  <2>1. sent' = sent
    BY <1>2, <1>3, <1>9
  <2>2. InOrder(Tail(remoteRx), sent, pushed)
    BY <1>1, <1>4, <1>9, InOrderTailPlain DEF AlignedUp
  <2>3. InOrder(Append(wire, h), answered, sent)
    BY <1>1, <1>2, <1>4, <1>9, InOrderPlain DEF AlignedWire
  <2> HIDE DEF h
  <2> QED BY <1>3, <1>4, <1>5, <1>6, <1>8, <2>1, <2>2, <2>3
          DEF Counted, AlignedWire, AlignedUp
<1>10. CASE h.slot # 0
  <2>1. sent' = sent + 1
    BY <1>2, <1>3, <1>10
  <2>2. /\ h.slot = sent + 1 /\ sent + 1 <= pushed
        /\ InOrder(Tail(remoteRx), sent + 1, pushed)
    BY <1>1, <1>4, <1>10, InOrderTail DEF AlignedUp
  <2>3. answered <= sent
    BY <1>4 DEF Counted
  <2>4. InOrder(Append(wire, h), answered, sent + 1)
    BY <1>1, <1>2, <1>4, <2>2, <2>3, InOrderNext DEF AlignedWire
  <2> HIDE DEF h
  <2>5. Counted'
    BY <1>1, <1>3, <1>4, <2>1, <2>2, <2>3 DEF Counted
  <2> QED BY <1>3, <1>5, <1>6, <1>8, <2>1, <2>2, <2>4, <2>5
          DEF AlignedWire, AlignedUp
<1> QED BY <1>9, <1>10

LEMMA AlignedReset ==
    ASSUME ResetRemote
    PROVE  PendingAligned'
<1>1. /\ pending' = <<>> /\ events' = <<>> /\ ~alive' /\ ~joined'
      /\ pushed' = 0 /\ sent' = 0 /\ answered' = 0 /\ popped' = 0
  BY DEF ResetRemote
<1>2. InOrder(<<>>, 0, 0) /\ OwnsSlot(<<>>, <<>>, 0)
  BY InOrderEmpty, OwnsEmpty
<1>3. Counted'
  BY <1>1 DEF Counted
<1> QED BY <1>1, <1>2, <1>3 DEF PendingAligned, AlignedDown, AlignedWire, AlignedUp

LEMMA AlignedConnect ==
    ASSUME Phases, PendingAligned, Connect
    PROVE  PendingAligned'
<1>1. /\ remoteRx' = <<>> /\ wire' = <<>> /\ events' = <<>> /\ pending' = <<>>
      /\ pushed' = 0 /\ sent' = 0 /\ answered' = 0 /\ popped' = 0
  BY DEF Connect, Phases
<1>2. InOrder(<<>>, 0, 0) /\ OwnsSlot(<<>>, <<>>, 0)
  BY InOrderEmpty, OwnsEmpty
<1>3. Counted'
  BY <1>1 DEF Counted
<1> QED BY <1>1, <1>2, <1>3 DEF PendingAligned, AlignedDown, AlignedWire, AlignedUp

(* An unskewed event is popped for the child that owns its slot, and the    *)
(* slots of all messages in flight move up by one.                          *)
LEMMA HeadAnswer ==
    ASSUME Fields, Shapes, PendingAligned, ~skewed, events # <<>>,
           IsResponse(Head(events))
    PROVE  /\ Head(events).slot = popped + 1 /\ popped + 1 <= answered
           /\ InOrder(Tail(events), popped + 1, answered)
           /\ pending # <<>> /\ Head(pending) = Head(events).origin
<1> DEFINE h == Head(events)
<1>1. /\ events \in Seq(Msg) /\ pending \in Seq(ConnIds)
      /\ popped \in Nat /\ answered \in Nat
  BY DEF Fields
<1>2. h \in Msg /\ h.slot # 0
  BY <1>1, TailAt, AnswersQueue DEF Shapes, IsResponse
<1>3. AlignedDown
  BY DEF PendingAligned
<1>4. /\ h.slot = popped + 1 /\ popped + 1 <= answered
      /\ InOrder(Tail(events), popped + 1, answered)
  BY <1>1, <1>2, <1>3, InOrderTail DEF AlignedDown
<1>5. h.slot - popped \in 1 .. Len(pending) /\ pending[h.slot - popped] = h.origin
  <2>1. 1 \in 1 .. Len(events) /\ events[1] = h
    BY <1>1, TailAt
  <2> HIDE DEF h
  <2> QED BY <1>1, <1>2, <1>3, <2>1 DEF AlignedDown, OwnsSlot
<1>6. h.slot - popped = 1
  BY <1>1, <1>4
<1>7. pending # <<>> /\ Head(pending) = pending[1]
  BY <1>1, <1>5, <1>6
<1> QED BY <1>4, <1>5, <1>6, <1>7

LEMMA AlignedDownstream ==
    ASSUME Fields, Phases, Shapes, PendingAligned, Downstream
    PROVE  PendingAligned'
<1> DEFINE h == Head(events)
<1>1. /\ events \in Seq(Msg) /\ events # <<>> /\ pending \in Seq(ConnIds)
      /\ remoteRx \in Seq(Msg) /\ wire \in Seq(Msg)
      /\ sent \in Nat /\ pushed \in Nat /\ answered \in Nat /\ popped \in Nat
  BY DEF Downstream, Fields
<1>2. h \in Msg
  BY <1>1, TailAt
<1>3. /\ events' = Tail(events)
      /\ UNCHANGED <<answered, sent, pushed, wire, remoteRx, alive, joined, skewed>>
  BY DEF Downstream
<1> SUFFICES ASSUME ~skewed
             PROVE (Counted /\ AlignedDown /\ AlignedWire /\ AlignedUp)'
  BY <1>3 DEF PendingAligned
<1>4. Counted /\ AlignedDown /\ AlignedWire /\ AlignedUp
  BY DEF PendingAligned
<1>5. OwnsSlot(Tail(events), pending, popped)
  BY <1>1, <1>4, OwnsTail DEF AlignedDown
<1>6. CASE ~IsResponse(h)
  <2>1. pending' = pending /\ popped' = popped
    BY <1>6 DEF Downstream
  <2>2. h.slot = 0
    BY <1>1, <1>6, AnswersQueue DEF Shapes, IsResponse
  <2>3. InOrder(Tail(events), popped, answered)
    BY <1>1, <1>4, <2>2, InOrderTailPlain DEF AlignedDown
  <2> HIDE DEF h
  <2>4. AlignedDown'
    BY <1>3, <1>5, <2>1, <2>3 DEF AlignedDown
  <2>5. Counted' /\ AlignedWire' /\ AlignedUp'
    BY <1>3, <1>4, <2>1 DEF Counted, AlignedWire, AlignedUp, InOrder, OwnsSlot
  <2> QED BY <2>4, <2>5
<1>7. CASE IsResponse(h)
  <2>1. /\ popped + 1 <= answered /\ pending # <<>>
        /\ InOrder(Tail(events), popped + 1, answered)
    BY <1>1, <1>7, HeadAnswer
  <2>2. pending' = Tail(pending) /\ popped' = popped + 1
    BY <1>7, <2>1 DEF Downstream
  <2> HIDE DEF h
  <2>3. OwnsSlot(Tail(events), Tail(pending), popped + 1)
    <3>1. Tail(events) \in Seq(Msg)
      BY <1>1
    <3>2. popped + 1 \in Nat /\ popped + 1 <= popped + 1
      BY <1>1
    <3> QED BY <1>1, <1>5, <2>1, <3>1, <3>2, OwnsPop
  <2>4. Len(Tail(pending)) = Len(pending) - 1 /\ Len(pending) \in Nat
    BY <1>1, <2>1
  <2>5. Counted'
    BY <1>1, <1>3, <1>4, <2>1, <2>2, <2>4 DEF Counted
  <2>6. AlignedDown'
    BY <1>3, <2>1, <2>2, <2>3 DEF AlignedDown
  <2>7. alive => OwnsSlot(wire, Tail(pending), popped + 1)
    BY <1>1, <1>4, <2>1, OwnsPop DEF AlignedWire
  <2>8. joined => OwnsSlot(remoteRx, Tail(pending), popped + 1)
    BY <1>1, <1>4, <2>1, OwnsPop DEF AlignedUp, Counted
  <2>9. AlignedWire' /\ AlignedUp'
    BY <1>3, <1>4, <2>2, <2>7, <2>8 DEF AlignedWire, AlignedUp
  <2> QED BY <2>5, <2>6, <2>9
<1> QED BY <1>6, <1>7

LEMMA AlignedStep ==
    ASSUME TypeOK, Phases, Shapes, PendingAligned, [Next]_vars
    PROVE  PendingAligned'
<1> USE DEF TypeOK
<1>1. CASE UNCHANGED vars
  BY <1>1, AlignedFrame DEF vars, alignment
<1>2. CASE Accept
  BY <1>2, AlignedFrame DEF Accept, alignment
<1>3. ASSUME NEW c \in ConnIds, Intercept(c) \/ RemoveConn(c)
      PROVE  PendingAligned'
  BY <1>3, AlignedFrame DEF Intercept, RemoveConn, vars, alignment
<1>4. ASSUME NEW c \in ConnIds, NEW k \in ChildKinds, Refuse(c, k)
      PROVE  PendingAligned'
  BY <1>4, AlignedFrame DEF Refuse, vars, alignment
<1>5. ASSUME NEW c \in ConnIds, NEW k \in ChildKinds, Forward(c, k)
      PROVE  PendingAligned'
  BY <1>5, AlignedForward
<1>6. CASE SendReport
  <2>1. Report \in Msg /\ Report.slot = 0
    BY GatewayAssumption DEF Report, Msg, Kinds, Agent, Fields
  <2> QED BY <1>6, <2>1, AlignedSend DEF SendReport
<1>7. CASE SendEncoderStatus
  <2>1. Stamp(Agent, "media") \in Msg
    BY StampInMsg, GatewayAssumption DEF Agent, Kinds
  <2>2. Stamp(Agent, "media").slot = 0
    BY DEF Stamp
  <2> QED BY <1>7, <2>1, <2>2, AlignedSend DEF SendEncoderStatus
<1>8. ASSUME NEW k \in PeerKinds, PeerSend(k) PROVE PendingAligned'
  BY <1>8, AlignedFrame DEF PeerSend, alignment
<1>9. ASSUME NEW how \in Losses, LoseConnection(how) PROVE PendingAligned'
  <2>1. Foreign(how) \in Msg /\ Foreign(how).slot = 0
    BY ForeignInMsg, GatewayAssumption DEF EventKinds, Foreign
  <2> QED BY <1>9, <2>1, AlignedEmit DEF LoseConnection
<1>10. CASE ServerReplay
  <2>1. replay \in Seq(Msg) /\ replay # <<>>
    BY <1>10 DEF ServerReplay, Fields
  <2>2. Head(replay) \in Msg /\ Head(replay).slot = 0
    BY <2>1, TailAt, PlainQueue DEF Shapes
  <2> QED BY <1>10, <2>2, AlignedEmit DEF ServerReplay
<1>11. CASE RelayToVehicle
  <2>1. chan \in Seq(Msg) /\ chan # <<>>
    BY <1>11 DEF RelayToVehicle, Fields
  <2>2. Head(chan) \in Msg /\ Head(chan).slot = 0
    BY <2>1, TailAt, PlainQueue DEF Shapes
  <2> QED BY <1>11, <2>2, AlignedEmit DEF RelayToVehicle
<1>12. CASE AnswerSfu
  BY <1>12, AlignedAnswer
<1>13. CASE AnswerData
  BY <1>13, AlignedData
<1>14. CASE RelayRoom
  BY <1>14, AlignedTake DEF RelayRoom, IsRelayMsg
<1>15. CASE StoreStatus
  BY <1>15, AlignedTake DEF StoreStatus
<1>16. CASE Connect
  BY <1>16, AlignedConnect
<1>17. CASE Subscribe
  BY <1>17, AlignedFrame DEF Subscribe, alignment
<1>18. CASE Disconnected \/ SendFails
  BY <1>18, AlignedReset DEF Disconnected, SendFails
<1>19. CASE SendRemote
  BY <1>19, AlignedSendRemote
<1>20. CASE Drain
  BY <1>20 DEF Drain, Phases, PendingAligned, Counted, AlignedDown, AlignedWire,
               AlignedUp, InOrder, OwnsSlot
<1>21. CASE Downstream
  BY <1>21, AlignedDownstream
<1>22. CASE WriteFails
  BY <1>22 DEF WriteFails, PendingAligned, Counted, AlignedDown, AlignedWire,
               AlignedUp, InOrder, OwnsSlot
<1> QED
  BY <1>1, <1>2, <1>3, <1>4, <1>5, <1>6, <1>7, <1>8, <1>9, <1>10, <1>11, <1>12,
     <1>13, <1>14, <1>15, <1>16, <1>17, <1>18, <1>19, <1>20, <1>21, <1>22
  DEF Next, Server, RemoteLoop

-----------------------------------------------------------------------------
(* The phases of remote_loop.                                               *)

phasing == <<joined, phase, alive, wire, events, remoteRx, pending, owner, echo,
             delivered, skewed, slots>>

LEMMA EmitPhase ==
    ASSUME NEW e, Emit(e), phase # "running" PROVE UNCHANGED <<events, skewed>>
BY DEF Emit, Subscribed

LEMMA PhasesStep ==
    ASSUME TypeOK, Phases, [Next]_vars
    PROVE  Phases'
<1>1. CASE UNCHANGED phasing
  BY <1>1 DEF phasing, Phases
<1>2. ASSUME NEW c \in ConnIds, RemoveConn(c) PROVE Phases'
  BY <1>2 DEF RemoveConn, Phases
<1>3. ASSUME NEW c \in ConnIds, NEW k \in ChildKinds, Forward(c, k)
      PROVE  Phases'
  BY <1>3 DEF Forward, Phases
<1>4. CASE SendReport \/ SendEncoderStatus
  BY <1>4 DEF SendReport, SendEncoderStatus, Phases
<1>5. ASSUME NEW how \in Losses, LoseConnection(how) PROVE Phases'
  <2>1. phase # "running" => UNCHANGED <<events, skewed>>
    BY <1>5, EmitPhase DEF LoseConnection
  <2> QED BY <1>5, <2>1 DEF LoseConnection, Phases
<1>6. CASE ServerReplay \/ RelayToVehicle
  <2>1. phase # "running" => UNCHANGED <<events, skewed>>
    BY <1>6, EmitPhase DEF ServerReplay, RelayToVehicle
  <2> QED BY <1>6, <2>1 DEF ServerReplay, RelayToVehicle, Phases
<1>7. CASE AnswerSfu \/ AnswerData \/ RelayRoom \/ StoreStatus
  <2>1. phase = "running"
    BY <1>7 DEF AnswerSfu, AnswerData, RelayRoom, StoreStatus, ServerReady, Phases
  <2>2. /\ phase' = phase /\ joined' = joined /\ alive' = alive
    BY <1>7 DEF AnswerSfu, AnswerData, RelayRoom, StoreStatus
  <2> QED BY <2>1, <2>2 DEF Phases
<1>8. CASE Connect
  BY <1>8 DEF Connect, Phases
<1>9. CASE Subscribe
  BY <1>9 DEF Subscribe, Phases
<1>10. CASE Disconnected \/ SendFails
  BY <1>10 DEF Disconnected, SendFails, ResetRemote, Phases
<1>11. CASE SendRemote
  BY <1>11 DEF SendRemote, Phases
<1>12. CASE Drain
  BY <1>12 DEF Drain, Phases
<1>13. CASE Downstream
  BY <1>13 DEF Downstream, Phases
<1>14. CASE Accept \/ UNCHANGED vars
  BY <1>1, <1>14 DEF Accept, vars, phasing
<1>15. ASSUME NEW c \in ConnIds, Intercept(c) PROVE Phases'
  BY <1>1, <1>15 DEF Intercept, vars, phasing
<1>16. ASSUME NEW c \in ConnIds, NEW k \in ChildKinds, Refuse(c, k)
       PROVE  Phases'
  BY <1>1, <1>16 DEF Refuse, vars, phasing
<1>17. ASSUME NEW k \in PeerKinds, PeerSend(k) PROVE Phases'
  BY <1>1, <1>17 DEF PeerSend, phasing
<1>18. CASE WriteFails
  BY <1>18 DEF WriteFails, Phases
<1> QED
  BY <1>2, <1>3, <1>4, <1>5, <1>6, <1>7, <1>8, <1>9, <1>10, <1>11, <1>12, <1>13,
     <1>14, <1>15, <1>16, <1>17, <1>18
  DEF Next, Server, RemoteLoop

-----------------------------------------------------------------------------
(* Only SFU requests hold a slot, and only SFU answers keep it.             *)

shape == <<chan, replay, cached, remoteRx, wire, events, skewed>>

LEMMA ShapesFrame ==
    ASSUME Shapes, UNCHANGED shape PROVE Shapes'
BY DEF Shapes, shape, Plain, Requests, Answers

(* Shapes after an event without a slot was emitted, and after an answer.   *)
LEMMA ShapesEmit ==
    ASSUME TypeOK, Shapes, NEW e \in Msg, e.slot # 0 => e.kind = "resp", Emit(e)
    PROVE  ~skewed' => Answers(events')
BY EmitAnswers DEF TypeOK, Shapes

LEMMA ShapesStep ==
    ASSUME TypeOK, Shapes, [Next]_vars
    PROVE  Shapes'
<1> USE DEF TypeOK
<1>0. /\ remoteRx \in Seq(Msg) /\ wire \in Seq(Msg) /\ events \in Seq(Msg)
      /\ chan \in Seq(Msg) /\ replay \in Seq(Msg) /\ cached \in Seq(Msg)
  BY DEF Fields
<1>a. /\ Plain(chan) /\ Plain(replay) /\ Plain(cached)
      /\ Requests(remoteRx) /\ Requests(wire)
      /\ ~skewed => Answers(events)
  BY DEF Shapes
<1>b. Shapes' <=> /\ Plain(chan') /\ Plain(replay') /\ Plain(cached')
                  /\ Requests(remoteRx') /\ Requests(wire')
                  /\ ~skewed' => Answers(events')
  BY DEF Shapes, Plain, Requests, Answers
<1>1. CASE UNCHANGED shape
  BY <1>1, ShapesFrame
<1>2. ASSUME NEW c \in ConnIds, RemoveConn(c) PROVE Shapes'
  BY <1>1, <1>2 DEF RemoveConn, shape
<1>3. ASSUME NEW c \in ConnIds, NEW k \in ChildKinds, Forward(c, k)
      PROVE  Shapes'
  <2> DEFINE m == Stamp(c, k)
  <2>1. m \in Msg
    BY StampInMsg, GatewayAssumption DEF ConnIds, Kinds
  <2>2. pushed + 1 # 0
    BY DEF Fields
  <2>3. (m.slot # 0 <=> m.kind = "sfu") /\ m.kind # "resp"
    BY <2>2, GatewayAssumption DEF Stamp, Kinds
  <2>4. Requests(Append(remoteRx, m))
    BY <1>0, <1>a, <2>1, <2>3, RequestsQueue
  <2> QED BY <1>3, <1>a, <1>b, <2>4 DEF Forward
<1>4. CASE SendReport
  <2>1. Report \in Msg /\ Report.slot = 0 /\ Report.kind = "status"
    BY GatewayAssumption DEF Report, Msg, Kinds, Agent, Fields
  <2>2. Requests(Append(remoteRx, Report))
    BY <1>0, <1>a, <2>1, RequestsQueue
  <2> QED BY <1>4, <1>a, <1>b, <2>2 DEF SendReport
<1>5. CASE SendEncoderStatus
  <2> DEFINE m == Stamp(Agent, "media")
  <2>1. m \in Msg
    BY StampInMsg, GatewayAssumption DEF Agent, Kinds
  <2>2. m.slot = 0 /\ m.kind = "media"
    BY DEF Stamp
  <2>3. Requests(Append(remoteRx, m))
    BY <1>0, <1>a, <2>1, <2>2, RequestsQueue
  <2> QED BY <1>5, <1>a, <1>b, <2>3 DEF SendEncoderStatus
<1>6. ASSUME NEW k \in PeerKinds, PeerSend(k) PROVE Shapes'
  <2> DEFINE m == Foreign(k)
  <2>1. m \in Msg
    BY ForeignInMsg, GatewayAssumption DEF EventKinds
  <2>2. m.slot = 0 /\ m.kind \notin {"sfu", "resp"}
    BY GatewayAssumption DEF Foreign
  <2>3. Plain(Append(chan, m)) /\ Plain(Append(cached, m))
    BY <1>0, <1>a, <2>1, <2>2, PlainQueue
  <2> QED BY <1>6, <1>a, <1>b, <2>3 DEF PeerSend
<1>7. ASSUME NEW how \in Losses, LoseConnection(how) PROVE Shapes'
  <2>1. Foreign(how) \in Msg /\ Foreign(how).slot = 0
    BY ForeignInMsg, GatewayAssumption DEF EventKinds, Foreign
  <2>2. ~skewed' => Answers(events')
    BY <1>7, <2>1, ShapesEmit DEF LoseConnection
  <2> QED BY <1>7, <1>a, <1>b, <2>2, ShapesEmpty DEF LoseConnection
<1>8. CASE ServerReplay
  <2>1. replay # <<>>
    BY <1>8 DEF ServerReplay
  <2>2. Head(replay) \in Msg /\ Head(replay).slot = 0 /\ Plain(Tail(replay))
    BY <1>0, <1>a, <2>1, TailAt, PlainQueue
  <2>3. ~skewed' => Answers(events')
    BY <1>8, <2>2, ShapesEmit DEF ServerReplay
  <2> QED BY <1>8, <1>a, <1>b, <2>2, <2>3 DEF ServerReplay
<1>9. CASE RelayToVehicle
  <2>1. chan # <<>>
    BY <1>9 DEF RelayToVehicle
  <2>2. Head(chan) \in Msg /\ Head(chan).slot = 0 /\ Plain(Tail(chan))
    BY <1>0, <1>a, <2>1, TailAt, PlainQueue
  <2>3. ~skewed' => Answers(events')
    BY <1>9, <2>2, ShapesEmit DEF RelayToVehicle
  <2> QED BY <1>9, <1>a, <1>b, <2>2, <2>3 DEF RelayToVehicle
<1>10. ASSUME ServerReady
       PROVE  /\ Head(wire) \in Msg /\ Requests(Tail(wire))
              /\ Head(wire).slot # 0 <=> Head(wire).kind = "sfu"
              /\ Head(wire).kind # "resp"
  BY <1>0, <1>10, <1>a, TailAt, RequestsQueue DEF ServerReady
<1>11. CASE AnswerSfu
  <2> DEFINE e == [Head(wire) EXCEPT !.kind = "resp"]
  <2>1. e \in Msg /\ e.kind = "resp"
    BY <1>10, <1>11 DEF AnswerSfu, Msg, EventKinds
  <2>2. Emit(e) /\ wire' = Tail(wire) /\ UNCHANGED <<chan, replay, cached, remoteRx>>
    BY <1>11 DEF AnswerSfu
  <2> HIDE DEF e
  <2>3. ~skewed' => Answers(events')
    BY <2>1, <2>2, ShapesEmit
  <2>4. Requests(Tail(wire))
    BY <1>10, <1>11 DEF AnswerSfu
  <2> QED BY <1>a, <1>b, <2>2, <2>3, <2>4
<1>12. CASE AnswerData
  <2>1. PICK k \in {"room", "resp"} : Emit([Head(wire) EXCEPT !.kind = k])
    BY <1>12 DEF AnswerData
  <2> DEFINE e == [Head(wire) EXCEPT !.kind = k]
  <2>2. ServerReady /\ Head(wire).kind = "data"
    BY <1>12 DEF AnswerData
  <2>3. e \in Msg /\ e.slot = 0
    BY <1>10, <2>2 DEF Msg, EventKinds
  <2>4. Emit(e) /\ wire' = Tail(wire) /\ UNCHANGED <<chan, replay, cached, remoteRx>>
    BY <1>12, <2>1 DEF AnswerData
  <2> HIDE DEF e
  <2>5. ~skewed' => Answers(events')
    BY <2>3, <2>4, ShapesEmit
  <2> QED BY <1>10, <1>a, <1>b, <2>2, <2>4, <2>5
<1>13. CASE RelayRoom
  <2>1. ServerReady /\ Head(wire).kind \in {"nego", "media"}
    BY <1>13 DEF RelayRoom, IsRelayMsg
  <2>2. /\ Head(wire) \in Msg /\ Head(wire).slot = 0
        /\ Head(wire).kind \notin {"sfu", "resp"}
    BY <1>10, <2>1
  <2>3. Plain(Append(chan, Head(wire))) /\ Plain(Append(cached, Head(wire)))
    BY <1>0, <1>a, <2>2, PlainQueue
  <2>4. Requests(Tail(wire))
    BY <1>10, <2>1
  <2> QED BY <1>13, <1>a, <1>b, <2>3, <2>4 DEF RelayRoom
<1>14. CASE StoreStatus
  BY <1>10, <1>14, <1>a, <1>b DEF StoreStatus
<1>15. CASE Connect
  BY <1>15, <1>a, <1>b DEF Connect
<1>16. CASE Disconnected \/ SendFails
  <2>1. /\ chan' = <<>> /\ replay' = <<>> /\ cached' = cached
        /\ wire' = <<>> /\ events' = <<>>
        /\ \/ remoteRx' = remoteRx
           \/ remoteRx # <<>> /\ remoteRx' = Tail(remoteRx)
    BY <1>16 DEF Disconnected, SendFails, ResetRemote
  <2>2. Requests(remoteRx')
    BY <1>0, <1>a, <2>1, RequestsQueue
  <2> QED BY <1>a, <1>b, <2>1, <2>2, ShapesEmpty
<1>17. CASE SendRemote
  <2>1. remoteRx # <<>>
    BY <1>17 DEF SendRemote
  <2>2. Requests(Tail(remoteRx)) /\ Requests(Append(wire, Head(remoteRx)))
    BY <1>0, <1>a, <2>1, TailAt, RequestsQueue
  <2> QED BY <1>17, <1>a, <1>b, <2>2 DEF SendRemote
<1>18. CASE Drain
  BY <1>18, <1>a, <1>b, ShapesEmpty DEF Drain
<1>19. CASE Downstream
  <2>1. events # <<>>
    BY <1>19 DEF Downstream
  <2>2. ~skewed => Answers(Tail(events))
    BY <1>0, <1>a, <2>1, AnswersQueue
  <2> QED BY <1>19, <1>a, <1>b, <2>2 DEF Downstream
<1>20. CASE Accept \/ Subscribe \/ UNCHANGED vars
  BY <1>1, <1>20 DEF Accept, Subscribe, vars, shape
<1>21. ASSUME NEW c \in ConnIds, Intercept(c) PROVE Shapes'
  BY <1>1, <1>21 DEF Intercept, vars, shape
<1>22. ASSUME NEW c \in ConnIds, NEW k \in ChildKinds, Refuse(c, k)
       PROVE  Shapes'
  BY <1>1, <1>22 DEF Refuse, vars, shape
<1>23. CASE WriteFails
  BY <1>23, <1>a, <1>b, ShapesEmpty DEF WriteFails
<1> QED
  BY <1>2, <1>3, <1>4, <1>5, <1>6, <1>7, <1>8, <1>9, <1>11, <1>12, <1>13, <1>14,
     <1>15, <1>16, <1>17, <1>18, <1>19, <1>20, <1>21, <1>22, <1>23
  DEF Next, Server, RemoteLoop

-----------------------------------------------------------------------------
(* Nothing of one session is sent on the next.                              *)

LEMMA IsolationAppend ==
    ASSUME TypeOK, SessionIsolation, joined, NEW m \in Msg, m.sess = session
    PROVE  \A i \in 1 .. Len(Append(remoteRx, m)) :
               Append(remoteRx, m)[i].sess = session
<1>1. remoteRx \in Seq(Msg)
  BY DEF TypeOK, Fields
<1>2. \A i \in 1 .. Len(remoteRx) : remoteRx[i].sess = session
  BY DEF SessionIsolation
<1> QED BY <1>1, <1>2, AppendAt

LEMMA IsolationStep ==
    ASSUME TypeOK, Phases, SessionIsolation, [Next]_vars
    PROVE  SessionIsolation'
<1> USE DEF TypeOK
<1>1. CASE UNCHANGED <<joined, remoteRx, session>>
  BY <1>1 DEF SessionIsolation
<1>2. ASSUME NEW c \in ConnIds, NEW k \in ChildKinds, Forward(c, k)
      PROVE  SessionIsolation'
  <2> DEFINE m == Stamp(c, k)
  <2>1. m \in Msg
    BY StampInMsg, GatewayAssumption DEF ConnIds, Kinds
  <2>2. m.sess = session
    BY DEF Stamp
  <2> HIDE DEF m
  <2>3. remoteRx' = Append(remoteRx, m) /\ joined /\ session' = session
    BY <1>2 DEF Forward, m
  <2> QED BY <2>1, <2>2, <2>3, IsolationAppend DEF SessionIsolation
<1>3. CASE SendReport
  <2>1. Report \in Msg /\ Report.sess = session
    BY GatewayAssumption DEF Report, Msg, Kinds, Agent, Fields
  <2> QED BY <1>3, <2>1, IsolationAppend DEF SendReport, SessionIsolation
<1>4. CASE SendEncoderStatus
  <2> DEFINE m == Stamp(Agent, "media")
  <2>1. m \in Msg
    BY StampInMsg, GatewayAssumption DEF Agent, Kinds
  <2>2. m.sess = session
    BY DEF Stamp
  <2> HIDE DEF m
  <2>3. remoteRx' = Append(remoteRx, m) /\ joined /\ session' = session
    BY <1>4 DEF SendEncoderStatus, m
  <2> QED BY <2>1, <2>2, <2>3, IsolationAppend DEF SessionIsolation
<1>5. CASE Connect
  BY <1>5 DEF Connect, Phases, SessionIsolation
<1>6. CASE Disconnected \/ SendFails
  BY <1>6 DEF Disconnected, SendFails, ResetRemote, SessionIsolation
<1>7. CASE SendRemote
  <2>1. remoteRx \in Seq(Msg) /\ remoteRx # <<>>
    BY <1>7 DEF SendRemote, Fields
  <2>2. \A i \in 1 .. Len(Tail(remoteRx)) :
            i + 1 \in 1 .. Len(remoteRx) /\ Tail(remoteRx)[i] = remoteRx[i + 1]
    BY <2>1, TailAt
  <2> QED BY <1>7, <2>2 DEF SendRemote, SessionIsolation
<1>8. CASE Drain
  BY <1>8 DEF Drain, Phases, SessionIsolation
<1>9. CASE Server \/ Accept \/ Subscribe \/ Downstream \/ UNCHANGED vars
  BY <1>1, <1>9 DEF Server, ServerReplay, AnswerSfu, AnswerData, RelayRoom,
     StoreStatus, RelayToVehicle, Accept, Subscribe, Downstream, vars
<1>10. ASSUME NEW c \in ConnIds, Intercept(c) \/ RemoveConn(c)
       PROVE  SessionIsolation'
  BY <1>1, <1>10 DEF Intercept, RemoveConn, vars
<1>11. ASSUME NEW c \in ConnIds, NEW k \in ChildKinds, Refuse(c, k)
       PROVE  SessionIsolation'
  BY <1>1, <1>11 DEF Refuse, vars
<1>12. ASSUME NEW k \in PeerKinds, PeerSend(k) PROVE SessionIsolation'
  BY <1>1, <1>12 DEF PeerSend
<1>13. ASSUME NEW how \in Losses, LoseConnection(how) PROVE SessionIsolation'
  BY <1>1, <1>13 DEF LoseConnection
<1>14. CASE WriteFails
  BY <1>1, <1>14 DEF WriteFails
<1> QED
  BY <1>2, <1>3, <1>4, <1>5, <1>6, <1>7, <1>8, <1>9, <1>10, <1>11, <1>12, <1>13,
     <1>14
  DEF Next, RemoteLoop

-----------------------------------------------------------------------------
(* The deliveries.                                                          *)

LEMMA EmitSkews ==
    ASSUME Flags, NEW e, Emit(e) PROVE skewed => skewed'
BY Zenon DEF Emit, Flags

LEMMA RoutedStep ==
    ASSUME TypeOK, Phases, Shapes, PendingAligned, RoutedToRequester, [Next]_vars
    PROVE  RoutedToRequester'
<1> USE DEF TypeOK
<1>1. CASE delivered' = delivered /\ (skewed => skewed')
  BY <1>1 DEF RoutedToRequester
<1>2. CASE Downstream
  <2> DEFINE h == Head(events)
  <2> SUFFICES ASSUME ~skewed, NEW d \in delivered', IsResponse(d.msg)
               PROVE  d.to = d.msg.origin
    BY <1>2 DEF Downstream, RoutedToRequester
  <2>1. CASE d \in delivered
    BY <2>1 DEF RoutedToRequester
  <2>2. CASE \E c \in Targets(h) : d = [to |-> c, msg |-> h]
    <3>1. PICK c \in Targets(h) : d = [to |-> c, msg |-> h]
      BY <2>2
    <3>2. d.to = c /\ d.msg = h /\ IsResponse(h)
      BY <3>1
    <3>3. events # <<>> /\ pending # <<>> /\ Head(pending) = h.origin
      BY <1>2, <3>2, HeadAnswer DEF Downstream
    <3> HIDE DEF h
    <3>4. c = Head(pending)
      BY <3>1, <3>2, <3>3 DEF Targets
    <3> QED BY <3>2, <3>3, <3>4
  <2> QED BY <1>2, <2>1, <2>2 DEF Downstream
<1>3. CASE Disconnected \/ SendFails
  BY <1>3 DEF Disconnected, SendFails, ResetRemote, RoutedToRequester
<1>4. CASE ServerReplay \/ AnswerSfu \/ RelayToVehicle
  <2>1. \E e : Emit(e)
    BY <1>4 DEF ServerReplay, AnswerSfu, RelayToVehicle
  <2>2. skewed => skewed'
    BY <2>1, EmitSkews
  <2> QED BY <1>1, <1>4, <2>2 DEF ServerReplay, AnswerSfu, RelayToVehicle
<1>5. CASE AnswerData
  <2>1. \E e : Emit(e)
    BY <1>5 DEF AnswerData
  <2>2. skewed => skewed'
    BY <2>1, EmitSkews
  <2> QED BY <1>1, <1>5, <2>2 DEF AnswerData
<1>6. ASSUME NEW how \in Losses, LoseConnection(how) PROVE RoutedToRequester'
  <2>1. skewed => skewed'
    BY <1>6, EmitSkews DEF LoseConnection
  <2> QED BY <1>1, <1>6, <2>1 DEF LoseConnection
<1>7. CASE RelayRoom \/ StoreStatus \/ Accept \/ SendReport \/ SendEncoderStatus
  BY <1>1, <1>7 DEF RelayRoom, StoreStatus, Accept, SendReport, SendEncoderStatus
<1>8. CASE Connect \/ Subscribe \/ SendRemote \/ Drain \/ UNCHANGED vars
  BY <1>1, <1>8 DEF Connect, Subscribe, SendRemote, Drain, vars
<1>9. ASSUME NEW c \in ConnIds, Intercept(c) \/ RemoveConn(c)
      PROVE  RoutedToRequester'
  BY <1>1, <1>9 DEF Intercept, RemoveConn, vars
<1>10. ASSUME NEW c \in ConnIds, NEW k \in ChildKinds, Refuse(c, k) \/ Forward(c, k)
       PROVE  RoutedToRequester'
  BY <1>1, <1>10 DEF Refuse, Forward, vars
<1>11. ASSUME NEW k \in PeerKinds, PeerSend(k) PROVE RoutedToRequester'
  BY <1>1, <1>11 DEF PeerSend
<1>12. CASE WriteFails
  BY <1>1, <1>12 DEF WriteFails
<1> QED
  BY <1>2, <1>3, <1>4, <1>5, <1>6, <1>7, <1>8, <1>9, <1>10, <1>11, <1>12
  DEF Next, Server, RemoteLoop

-----------------------------------------------------------------------------
LEMMA InductiveInit == Init => Inductive
<1> SUFFICES ASSUME Init PROVE Inductive
  OBVIOUS
<1>1. TypeOK
  <2>1. Flags
    BY Zenon DEF Init, Flags
  <2> QED BY <2>1, FieldsInit DEF TypeOK
<1>2. Phases
  BY DEF Init, Phases
<1>3. Shapes
  BY ShapesEmpty DEF Init, Shapes
<1>4. SessionIsolation
  BY DEF Init, SessionIsolation
<1>5. PendingAligned
  <2>1. InOrder(<<>>, 0, 0) /\ OwnsSlot(<<>>, <<>>, 0)
    BY InOrderEmpty, OwnsEmpty
  <2>2. Counted
    BY DEF Init, Counted
  <2> QED BY <2>1, <2>2
          DEF Init, PendingAligned, AlignedDown, AlignedWire, AlignedUp
<1>6. RoutedToRequester
  BY DEF Init, RoutedToRequester
<1> QED BY <1>1, <1>2, <1>3, <1>4, <1>5, <1>6 DEF Inductive

LEMMA InductiveStep == Inductive /\ [Next]_vars => Inductive'
<1> SUFFICES ASSUME Inductive, [Next]_vars PROVE Inductive'
  OBVIOUS
<1>1. /\ TypeOK /\ Phases /\ Shapes /\ SessionIsolation
      /\ PendingAligned /\ RoutedToRequester
  BY DEF Inductive
<1>2. TypeOK'
  BY <1>1, FieldsStep, FlagsStep DEF TypeOK
<1>3. Phases'
  BY <1>1, PhasesStep
<1>4. Shapes'
  BY <1>1, ShapesStep
<1>5. SessionIsolation'
  BY <1>1, IsolationStep
<1>6. PendingAligned'
  BY <1>1, AlignedStep
<1>7. RoutedToRequester'
  BY <1>1, RoutedStep
<1> QED BY <1>2, <1>3, <1>4, <1>5, <1>6, <1>7 DEF Inductive

(* The invariant behind the gateway's routing holds for all constants.      *)
THEOREM InductiveHolds == Spec => []Inductive
BY InductiveInit, InductiveStep, PTL DEF Spec

(* While nothing has skewed the session, an SFU answer reaches the child    *)
(* whose request it answers and no other (gateway.rs:12-21).                *)
THEOREM AnswersRouted == Spec => []RoutedToRequester
<1>1. Inductive => RoutedToRequester
  BY DEF Inductive
<1> QED BY <1>1, InductiveHolds, PTL

(* pending holds exactly the requests and answers in flight, in their order *)
(* and for their senders.                                                   *)
THEOREM PendingStaysAligned == Spec => []PendingAligned
<1>1. Inductive => PendingAligned
  BY DEF Inductive
<1> QED BY <1>1, InductiveHolds, PTL

(* Nothing accepted under one remote session is sent on another.            *)
THEOREM SessionsIsolated == Spec => []SessionIsolation
<1>1. Inductive => SessionIsolation
  BY DEF Inductive
<1> QED BY <1>1, InductiveHolds, PTL

(* Between two sessions no slot, negotiation or echo is left.               *)
THEOREM SlotsCleared == Spec => []NoStaleSlots
<1>1. Inductive => NoStaleSlots
  BY DEF Inductive, Phases, NoStaleSlots
<1> QED BY <1>1, InductiveHolds, PTL

-----------------------------------------------------------------------------
(* The refinement.  A step of the gateway that leaves children, slots and     *)
(* deliveries alone is a stutter of the promise.                              *)
AcceptedOnly == \A c \in conns : c < nextId

LEMMA AcceptedStep ==
    ASSUME Fields, AcceptedOnly, [Next]_vars
    PROVE  AcceptedOnly'
<1>1. conns \subseteq Nat /\ nextId \in Nat
  BY GatewayAssumption DEF Fields, ConnIds
<1>2. CASE Accept
  BY <1>1, <1>2 DEF Accept, AcceptedOnly
<1>3. ASSUME NEW c \in ConnIds, RemoveConn(c) PROVE AcceptedOnly'
  BY <1>3 DEF RemoveConn, AcceptedOnly
<1>4. CASE UNCHANGED child
  BY <1>4 DEF child, AcceptedOnly
<1>5. [Next]_vars => Accept \/ (\E c \in ConnIds : RemoveConn(c)) \/ UNCHANGED child
  BY DEF Next, vars, child, Intercept, Refuse, Forward, SendReport, SendEncoderStatus,
         PeerSend, LoseConnection, WriteFails, Server, ServerReplay, AnswerSfu, AnswerData,
         RelayRoom, StoreStatus, RelayToVehicle, RemoteLoop, Connect, Subscribe,
         Disconnected, SendRemote, SendFails, Drain, Downstream
<1> QED
  BY <1>2, <1>3, <1>4, <1>5

LEMMA SameView ==
    ASSUME UNCHANGED <<conns, pushed, pending, popped, delivered>>
    PROVE  UNCHANGED Promise!vars
BY DEF Promise!vars, OpenRequests, Replies

(* A pushed slot is one more request, numbered after the last.                *)
LEMMA ForwardAsks ==
    ASSUME Fields, Counted, NEW c \in ConnIds, NEW k \in ChildKinds, Forward(c, k)
    PROVE  [Promise!Next]_(Promise!vars)
<1> DEFINE m == Stamp(c, k)
<1>1. CASE ~IsSfuRequest(m)
  <2>1. UNCHANGED <<conns, pushed, pending, popped, delivered>>
    BY <1>1 DEF Forward, child
  <2> QED
    BY <2>1, SameView
<1>2. CASE IsSfuRequest(m)
  <2>1. /\ pending \in Seq(ConnIds) /\ Len(pending) \in Nat
        /\ popped \in Nat /\ pushed \in Nat /\ pushed = popped + Len(pending)
    BY DEF Fields, Counted
  <2>2. pending' = Append(pending, c) /\ pushed' = pushed + 1 /\ popped' = popped
        /\ conns' = conns /\ delivered' = delivered /\ c \in conns
    BY <1>2 DEF Forward, child
  <2>3. /\ Len(pending') = Len(pending) + 1 /\ pending'[Len(pending) + 1] = c
        /\ \A i \in 1 .. Len(pending) : pending'[i] = pending[i]
    BY <2>1, <2>2
  <2>4. OpenRequests' = OpenRequests \cup {[child |-> c, no |-> pushed + 1]}
    BY <2>1, <2>2, <2>3 DEF OpenRequests
  <2>5. Replies' = Replies
    BY <2>2 DEF Replies
  <2>6. Promise!Ask(c)
    BY <2>2, <2>4, <2>5 DEF Promise!Ask
  <2> QED
    BY <2>6 DEF Promise!Next
<1> QED
  BY <1>1, <1>2

(* An answer pops the oldest slot, which is the answered request, and goes to *)
(* its child if that is still there.                                          *)
LEMMA DownstreamAnswers ==
    ASSUME Fields, Shapes, PendingAligned, ~skewed, Downstream
    PROVE  [Promise!Next]_(Promise!vars)
<1> DEFINE m == Head(events)
<1>0. /\ delivered' = delivered \cup {[to |-> c, msg |-> m] : c \in Targets(m)}
      /\ conns' = conns /\ pushed' = pushed
  BY DEF Downstream, child
<1>1. CASE ~IsResponse(m)
  <2>1. pending' = pending /\ popped' = popped
    BY <1>1 DEF Downstream
  <2>2. {e \in delivered' : IsResponse(e.msg)} = {e \in delivered : IsResponse(e.msg)}
    BY <1>0, <1>1
  <2>3. Replies' = Replies
    BY <2>2 DEF Replies, IsResponse
  <2> QED
    BY <1>0, <2>1, <2>3 DEF Promise!vars, OpenRequests
<1>2. CASE IsResponse(m)
  <2>1. m.slot = popped + 1 /\ pending # <<>> /\ Head(pending) = m.origin
    BY <1>2, HeadAnswer DEF Downstream
  <2>2. pending \in Seq(ConnIds) /\ popped \in Nat /\ Len(pending) \in Nat
    BY DEF Fields
  <2>3. pending' = Tail(pending) /\ popped' = popped + 1
    BY <1>2, <2>1 DEF Downstream
  <2>4. /\ Len(pending) > 0 /\ Len(pending') = Len(pending) - 1
        /\ pending[1] = m.origin
        /\ \A i \in 1 .. Len(pending) - 1 : pending'[i] = pending[i + 1]
    BY <2>1, <2>2, <2>3
  <2> DEFINE r == [child |-> m.origin, no |-> popped + 1]
  <2>5. r \in OpenRequests
    <3>1. 1 \in 1 .. Len(pending) /\ r = [child |-> pending[1], no |-> popped + 1]
      BY <2>2, <2>4
    <3> QED
      BY <3>1 DEF OpenRequests
  <2>6. OpenRequests' = OpenRequests \ {r}
    <3>1. \A i \in 1 .. Len(pending) :
              i # 1 => [child |-> pending[i], no |-> popped + i] # r
      BY <2>2
    <3>2. OpenRequests' = {[child |-> pending[i], no |-> popped + i] : i \in 2 .. Len(pending)}
      <4>1. ASSUME NEW i \in 1 .. Len(pending')
            PROVE  /\ i + 1 \in 2 .. Len(pending) /\ pending'[i] = pending[i + 1]
                   /\ popped' + i = popped + (i + 1)
        BY <2>2, <2>3, <2>4
      <4>2. ASSUME NEW i \in 2 .. Len(pending)
            PROVE  /\ i - 1 \in 1 .. Len(pending') /\ pending'[i - 1] = pending[i]
                   /\ popped' + (i - 1) = popped + i
        BY <2>2, <2>3, <2>4
      <4> QED
        BY <4>1, <4>2 DEF OpenRequests
    <3>3. [child |-> pending[1], no |-> popped + 1] = r
      BY <2>4
    <3> HIDE DEF r
    <3>4. \A i : i \in 2 .. Len(pending) <=> i \in 1 .. Len(pending) /\ i # 1
      BY <2>2
    <3> QED
      BY <3>1, <3>2, <3>3, <3>4 DEF OpenRequests
  <2>7. Targets(m) = {m.origin} \cap conns
    BY <1>2, <2>1 DEF Targets, Echoed, IsRelayMsg, IsResponse
  <2>8. Replies' = Replies \cup {[to |-> c, child |-> m.origin, no |-> m.slot] :
                                     c \in conns \cap {m.origin}}
    <3>1. {e \in delivered' : IsResponse(e.msg)}
            = {e \in delivered : IsResponse(e.msg)}
                \cup {[to |-> c, msg |-> m] : c \in conns \cap {m.origin}}
      BY <1>0, <1>2, <2>7
    <3> DEFINE View(d) == [to |-> d.to, child |-> d.msg.origin, no |-> d.msg.slot]
               old == {e \in delivered : IsResponse(e.msg)}
               new == {[to |-> c, msg |-> m] : c \in conns \cap {m.origin}}
    <3>2. Replies = {View(d) : d \in old}
      BY DEF Replies
    <3>3. Replies' = {View(d) : d \in old \cup new}
      BY <3>1 DEF Replies
    <3>4. {View(d) : d \in new} = {[to |-> c, child |-> m.origin, no |-> m.slot] :
                                      c \in conns \cap {m.origin}}
      <4> HIDE DEF m
      <4>1. \A c : View([to |-> c, msg |-> m])
                    = [to |-> c, child |-> m.origin, no |-> m.slot]
        OBVIOUS
      <4> HIDE DEF View
      <4> QED
        BY <4>1
    <3> HIDE DEF View, old, new
    <3> QED
      BY <3>2, <3>3, <3>4
  <2>9. Promise!Answer(r)
    BY <1>0, <2>1, <2>5, <2>6, <2>8 DEF Promise!Answer
  <2> QED
    BY <2>5, <2>9 DEF Promise!Next
<1> QED
  BY <1>1, <1>2

LEMMA ResetLoses ==
    ASSUME ResetRemote, UNCHANGED conns
    PROVE  [Promise!Next]_(Promise!vars)
<1>1. OpenRequests' = {} /\ Replies' = {} /\ pushed' = 0
  BY DEF ResetRemote, OpenRequests, Replies
<1> QED
  BY <1>1 DEF Promise!Next, Promise!SessionLost

LEMMA PromiseStep ==
    ASSUME Inductive, AcceptedOnly, ~skewed, [Next]_vars
    PROVE  [Promise!Next]_(Promise!vars)
<1>0. Fields /\ Shapes /\ PendingAligned /\ Counted
  BY DEF Inductive, TypeOK, PendingAligned
<1>1. CASE Accept
  <2>1. nextId \in ConnIds /\ nextId \notin conns
    BY <1>0, <1>1, GatewayAssumption DEF Accept, AcceptedOnly, Fields, ConnIds
  <2>2. OpenRequests' = OpenRequests /\ Replies' = Replies
    BY <1>1 DEF Accept, route, ghost, slots, OpenRequests, Replies
  <2>3. Promise!Arrive(nextId)
    BY <1>1, <2>1, <2>2 DEF Accept, ghost, slots, Promise!Arrive
  <2> QED
    BY <2>1, <2>3 DEF Promise!Next
<1>2. ASSUME NEW c \in ConnIds, RemoveConn(c) PROVE [Promise!Next]_(Promise!vars)
  <2>1. OpenRequests' = OpenRequests /\ Replies' = Replies
    BY <1>2 DEF RemoveConn, ghost, slots, OpenRequests, Replies
  <2>2. Promise!Leave(c)
    BY <1>2, <2>1 DEF RemoveConn, ghost, slots, Promise!Leave
  <2> QED
    BY <2>2 DEF Promise!Next
<1>3. ASSUME NEW c \in ConnIds, NEW k \in ChildKinds, Forward(c, k)
      PROVE  [Promise!Next]_(Promise!vars)
  BY <1>0, <1>3, ForwardAsks
<1>4. CASE Downstream
  BY <1>0, <1>4, DownstreamAnswers
<1>5. CASE Disconnected \/ SendFails
  BY <1>5, ResetLoses DEF Disconnected, SendFails, child
<1>6. CASE UNCHANGED <<conns, pushed, pending, popped, delivered>>
  BY <1>6, SameView
<1>7. \/ Accept \/ (\E c \in ConnIds : RemoveConn(c))
      \/ (\E c \in ConnIds, k \in ChildKinds : Forward(c, k))
      \/ Downstream \/ Disconnected \/ SendFails
      \/ UNCHANGED <<conns, pushed, pending, popped, delivered>>
  BY DEF Next, vars, child, route, ghost, slots, Intercept, Refuse, SendReport,
         SendEncoderStatus, PeerSend, LoseConnection, WriteFails, Server, ServerReplay,
         AnswerSfu, AnswerData, RelayRoom, StoreStatus, RelayToVehicle, RemoteLoop,
         Connect, Subscribe, SendRemote, Drain
<1> QED
  BY <1>1, <1>2, <1>3, <1>4, <1>5, <1>6, <1>7

(* The gateway implements the promise to its children: while nothing skews a  *)
(* session, every request is answered at most once, to the child that asked   *)
(* or to nobody, and only the loss of the session closes requests without a   *)
(* reply (gateway.rs:12-21).                                                  *)
THEOREM KeepsPromise == Spec /\ [](~skewed) => RepliesAsPromised
<1>1. Init => Promise!Init
  BY DEF Init, Promise!Init, OpenRequests, Replies
<1>2. Init => AcceptedOnly
  BY DEF Init, AcceptedOnly
<1>3. Inductive /\ AcceptedOnly /\ [Next]_vars => AcceptedOnly'
  BY AcceptedStep DEF Inductive, TypeOK
<1>4. Inductive /\ AcceptedOnly /\ ~skewed /\ [Next]_vars => [Promise!Next]_(Promise!vars)
  BY PromiseStep
<1> QED
  BY <1>1, <1>2, <1>3, <1>4, InductiveHolds, PTL DEF Spec, RepliesAsPromised, Promise!Spec

-----------------------------------------------------------------------------
(* The echo cache.  While it holds every text of the session, a relay       *)
(* message of a child that is still on its way is found in it.              *)
Elems(q) == {q[i] : i \in 1 .. Len(q)}

Known(S, texts, s) ==
    \A m \in S : IsRelayMsg(m) /\ m.origin # Agent /\ m.sess = s => m.id \in texts

Recognised(S) == Known(S, Elems(echo), session)

NotLater(S) == \A m \in S : m.sess <= session

EchoInv ==
    /\ Len(echo) <= nmsg /\ nmsg <= MaxMsgs
    /\ ~alive => wire = <<>> /\ chan = <<>> /\ replay = <<>>
    /\ NotLater(Elems(remoteRx)) /\ NotLater(Elems(wire)) /\ NotLater(Elems(cached))
    /\ joined => Recognised(Elems(remoteRx))
    /\ Recognised(Elems(wire)) /\ Recognised(Elems(chan))
    /\ Recognised(Elems(replay)) /\ Recognised(Elems(events))
    /\ EchoSuppressed

LEMMA ElemsAppend ==
    ASSUME NEW S, NEW q \in Seq(S), NEW e \in S
    PROVE  Elems(Append(q, e)) = Elems(q) \cup {e}
<1> DEFINE r == Append(q, e)
<1>1. /\ Len(q) \in Nat /\ Len(r) = Len(q) + 1 /\ r[Len(q) + 1] = e
      /\ \A i \in 1 .. Len(q) : r[i] = q[i]
  OBVIOUS
<1> HIDE DEF r
<1>2. Elems(r) = Elems(q) \cup {e}
  <2>1. \A i \in 1 .. Len(r) : i \in 1 .. Len(q) \/ i = Len(q) + 1
    BY <1>1
  <2>2. 1 .. Len(q) \subseteq 1 .. Len(r) /\ Len(q) + 1 \in 1 .. Len(r)
    BY <1>1
  <2> QED
    BY <1>1, <2>1, <2>2 DEF Elems
<1> QED
  BY <1>2 DEF r

LEMMA ElemsTail ==
    ASSUME NEW S, NEW q \in Seq(S), q # <<>>
    PROVE  Head(q) \in Elems(q) /\ Elems(Tail(q)) \subseteq Elems(q)
<1> DEFINE r == Tail(q)
<1>1. /\ Len(q) \in Nat \ {0} /\ Len(r) = Len(q) - 1 /\ Head(q) = q[1]
      /\ \A i \in 1 .. Len(q) - 1 : r[i] = q[i + 1]
  OBVIOUS
<1> HIDE DEF r
<1>2. \A i \in 1 .. Len(r) : i + 1 \in 1 .. Len(q) /\ r[i] = q[i + 1]
  BY <1>1
<1>3. Elems(r) \subseteq Elems(q)
  BY <1>2 DEF Elems
<1> QED
  BY <1>1, <1>3 DEF Elems, r

LEMMA ElemsEmpty == Elems(<<>>) = {}
BY DEF Elems

(* Emitting adds one message at most.                                       *)
LEMMA EmitElems ==
    ASSUME Fields, NEW e \in Msg, Emit(e)
    PROVE  Elems(events') \subseteq Elems(events) \cup {e}
<1>1. events \in Seq(Msg) /\ (Len(events) >= EventCap => events # <<>>)
  BY GatewayAssumption DEF Fields
<1>2. CASE events # <<>> /\ events' = Append(Tail(events), e)
  <2>1. Tail(events) \in Seq(Msg)
    BY <1>1, <1>2
  <2>2. Elems(Append(Tail(events), e)) = Elems(Tail(events)) \cup {e}
    <3>1. \A q \in Seq(Msg) : Elems(Append(q, e)) = Elems(q) \cup {e}
      BY ElemsAppend
    <3> QED
      BY <2>1, <3>1
  <2>3. Elems(Tail(events)) \subseteq Elems(events)
    BY <1>1, <1>2, ElemsTail
  <2> QED
    BY <1>2, <2>2, <2>3
<1>3. CASE events' = Append(events, e)
  BY <1>1, <1>3, ElemsAppend
<1>4. CASE events' = events
  BY <1>4
<1>5. Len(events) \in Nat
  BY <1>1
<1>6. \/ events' = events \/ events' = Append(events, e)
      \/ events # <<>> /\ events' = Append(Tail(events), e)
  <2>1. EventCap \in Nat \ {0} /\ (Len(events) < EventCap \/ Len(events) >= EventCap)
    BY <1>5, GatewayAssumption
  <2> QED
    BY <1>1, <2>1, Zenon DEF Emit
<1> QED
  BY <1>2, <1>3, <1>4, <1>6

(* The messages around a step whose session and echo cache stay the same.   *)
LEMMA EchoFrame ==
    ASSUME EchoInv, UNCHANGED <<session, echo, delivered, joined>>,
           nmsg <= nmsg', nmsg' <= MaxMsgs, Len(echo) \in Nat, {nmsg, nmsg'} \subseteq Nat,
           Recognised(Elems(remoteRx')) \/ ~joined, NotLater(Elems(remoteRx')),
           Recognised(Elems(wire')), NotLater(Elems(wire')),
           Recognised(Elems(chan')), Recognised(Elems(replay')),
           NotLater(Elems(cached')), Recognised(Elems(events')),
           ~alive' => wire' = <<>> /\ chan' = <<>> /\ replay' = <<>>
    PROVE  EchoInv'
<1>1. \A S : (Recognised(S) <=> Recognised(S)') /\ (NotLater(S) <=> NotLater(S)')
  BY DEF Recognised, Known, NotLater
<1>2. EchoSuppressed'
  BY DEF EchoInv, EchoSuppressed
<1>3. Len(echo') <= nmsg'
  BY DEF EchoInv
<1> QED
  BY <1>1, <1>2, <1>3 DEF EchoInv, Recognised, Known, NotLater

LEMMA EchoForward ==
    ASSUME MaxMsgs <= EchoCap, Fields, Phases, EchoInv,
           NEW c \in ConnIds, NEW k \in ChildKinds, Forward(c, k)
    PROVE  EchoInv'
<1> DEFINE m == Stamp(c, k)
<1>1. /\ m \in Msg /\ m.id \in Nat /\ m.sess = session /\ m.origin = c
  BY StampInMsg, GatewayAssumption DEF ConnIds, Kinds, Stamp, Msg
<1>2. /\ remoteRx' = Append(remoteRx, m) /\ nmsg' = nmsg + 1 /\ nmsg < MaxMsgs /\ joined
      /\ echo' = Remember(m)
      /\ UNCHANGED <<joined, session, alive, wire, chan, replay, cached, events, delivered>>
  BY DEF Forward
<1>3. /\ nmsg \in Nat /\ MaxMsgs \in Nat /\ echo \in Seq(Nat) /\ Len(echo) \in Nat
      /\ remoteRx \in Seq(Msg) /\ session \in Nat /\ EchoCap \in Nat
  BY GatewayAssumption DEF Fields
<1> HIDE DEF m
<1>4. echo' = IF IsRelayMsg(m) THEN Append(echo, m.id) ELSE echo
  <2>1. Len(echo) < EchoCap
    BY <1>2, <1>3 DEF EchoInv
  <2> QED
    BY <1>2, <2>1 DEF Remember
<1>5. /\ Elems(echo) \subseteq Elems(echo') /\ Len(echo') <= nmsg'
      /\ IsRelayMsg(m) => m.id \in Elems(echo')
  <2>1. CASE IsRelayMsg(m)
    <3>1. Len(Append(echo, m.id)) = Len(echo) + 1
      BY <1>1, <1>3
    <3>2. Elems(Append(echo, m.id)) = Elems(echo) \cup {m.id}
      BY <1>1, <1>3, ElemsAppend
    <3> QED
      BY <1>2, <1>3, <1>4, <2>1, <3>1, <3>2 DEF EchoInv
  <2>2. CASE ~IsRelayMsg(m)
    BY <1>2, <1>3, <1>4, <2>2 DEF EchoInv
  <2> QED
    BY <2>1, <2>2
<1>6. \A S : Recognised(S) => Known(S, Elems(echo'), session)
  BY <1>5 DEF Recognised, Known
<1>7. Known({m}, Elems(echo'), session)
  BY <1>5 DEF Known
<1>8. Elems(remoteRx') = Elems(remoteRx) \cup {m}
  BY <1>1, <1>2, <1>3, ElemsAppend
<1>9. Recognised(Elems(remoteRx))'
  <2>1. Known(Elems(remoteRx), Elems(echo'), session)
    BY <1>2, <1>6 DEF EchoInv
  <2>2. Known(Elems(remoteRx'), Elems(echo'), session)
    BY <1>7, <1>8, <2>1 DEF Known
  <2> QED
    BY <1>2, <2>2 DEF Recognised, Known
<1>10. NotLater(Elems(remoteRx))'
  BY <1>1, <1>2, <1>3, <1>8 DEF EchoInv, NotLater
<1>11. /\ NotLater(Elems(wire))' /\ NotLater(Elems(cached))'
  BY <1>2 DEF EchoInv, NotLater
<1>12. /\ Recognised(Elems(wire))' /\ Recognised(Elems(chan))'
       /\ Recognised(Elems(replay))' /\ Recognised(Elems(events))'
  BY <1>2, <1>6 DEF EchoInv, Recognised, Known
<1>13. EchoSuppressed'
  BY <1>2 DEF EchoInv, EchoSuppressed
<1> QED
  BY <1>2, <1>3, <1>5, <1>9, <1>10, <1>11, <1>12, <1>13 DEF EchoInv

LEMMA EchoReset ==
    ASSUME EchoInv, ResetRemote, Fields, UNCHANGED <<session, cached, nmsg>>,
           Elems(remoteRx') \subseteq Elems(remoteRx)
    PROVE  EchoInv'
<1>1. /\ echo' = <<>> /\ joined' = FALSE /\ alive' = FALSE /\ wire' = <<>>
      /\ chan' = <<>> /\ replay' = <<>> /\ events' = <<>> /\ delivered' = {}
  BY DEF ResetRemote
<1>2. nmsg \in Nat /\ Len(<<>>) = 0
  BY DEF Fields
<1>3. \A S : S = {} => Recognised(S)' /\ NotLater(S)'
  BY DEF Recognised, Known, NotLater
<1>4. NotLater(Elems(remoteRx))' /\ NotLater(Elems(cached))'
  BY DEF EchoInv, NotLater
<1>5. EchoSuppressed'
  BY <1>1 DEF EchoSuppressed
<1>6. /\ NotLater(Elems(wire))' /\ Recognised(Elems(wire))' /\ Recognised(Elems(chan))'
      /\ Recognised(Elems(replay))' /\ Recognised(Elems(events))'
  BY <1>1, ElemsEmpty DEF Recognised, Known, NotLater
<1> QED
  BY <1>1, <1>2, <1>4, <1>5, <1>6 DEF EchoInv

(* A new session: what the old one left in the room's cache is older.       *)
LEMMA EchoConnect ==
    ASSUME Fields, Phases, EchoInv, Connect
    PROVE  EchoInv'
<1>1. /\ session \in Nat /\ session' = session + 1 /\ replay' = cached /\ alive'
      /\ UNCHANGED <<echo, remoteRx, wire, chan, cached, events, nmsg, delivered>>
      /\ phase = "connecting"
  BY DEF Connect, Fields
<1>2. remoteRx = <<>> /\ wire = <<>> /\ events = <<>> /\ chan = <<>> /\ delivered = {}
  BY <1>1 DEF Phases, EchoInv
<1>3. cached \in Seq(Msg) /\ \A i \in 1 .. Len(cached) : cached[i].sess \in Nat
  <2>1. cached \in Seq(Msg)
    BY DEF Fields
  <2>2. \A i \in 1 .. Len(cached) : cached[i] \in Msg
    BY <2>1
  <2> QED
    BY <2>1, <2>2 DEF Msg
<1>4. \A m \in Elems(cached) : m.sess \in Nat /\ m.sess <= session
  BY <1>3 DEF EchoInv, NotLater, Elems
<1>5. NotLater(Elems(cached))' /\ Recognised(Elems(replay))'
  BY <1>1, <1>4 DEF NotLater, Recognised, Known
<1>6. /\ NotLater(Elems(wire))' /\ NotLater(Elems(remoteRx))'
      /\ Recognised(Elems(remoteRx))' /\ Recognised(Elems(wire))'
      /\ Recognised(Elems(chan))' /\ Recognised(Elems(events))'
  BY <1>1, <1>2, ElemsEmpty DEF Recognised, Known, NotLater
<1>7. EchoSuppressed'
  BY <1>1, <1>2 DEF EchoSuppressed
<1> QED
  BY <1>1, <1>5, <1>6, <1>7 DEF EchoInv

LEMMA EchoDownstream ==
    ASSUME Fields, EchoInv, Downstream
    PROVE  EchoInv'
<1> DEFINE m == Head(events)
<1>1. /\ events \in Seq(Msg) /\ events # <<>> /\ events' = Tail(events)
      /\ delivered' = delivered \cup {[to |-> c, msg |-> m] : c \in Targets(m)}
      /\ UNCHANGED <<session, echo, joined, alive, remoteRx, wire, chan, replay,
                     cached, nmsg>>
  BY DEF Downstream, Fields
<1>2. m \in Elems(events) /\ Elems(events') \subseteq Elems(events)
  BY <1>1, ElemsTail
<1> HIDE DEF m
<1>3. IsRelayMsg(m) /\ m.origin # Agent /\ m.sess = session => Targets(m) = {}
  BY <1>2 DEF EchoInv, Recognised, Known, Targets, Echoed, Elems
<1>4. EchoSuppressed'
  <2> SUFFICES ASSUME NEW d \in delivered', IsRelayMsg(d.msg), d.msg.origin # Agent
               PROVE  d.msg.sess # session
    BY <1>1 DEF EchoSuppressed
  <2>1. CASE d \in delivered
    BY <2>1 DEF EchoInv, EchoSuppressed
  <2>2. CASE d \notin delivered
    <3>1. PICK c \in Targets(m) : d = [to |-> c, msg |-> m]
      BY <1>1, <2>2
    <3>2. d.msg = m
      BY <3>1
    <3> QED
      BY <1>3, <3>1, <3>2
  <2> QED
    BY <2>1, <2>2
<1>5. Recognised(Elems(events))'
  BY <1>1, <1>2 DEF EchoInv, Recognised, Known
<1>6. /\ NotLater(Elems(remoteRx))' /\ NotLater(Elems(wire))' /\ NotLater(Elems(cached))'
      /\ joined => Recognised(Elems(remoteRx))'
      /\ Recognised(Elems(wire))' /\ Recognised(Elems(chan))' /\ Recognised(Elems(replay))'
  BY <1>1 DEF EchoInv, Recognised, Known, NotLater
<1> QED
  BY <1>1, <1>4, <1>5, <1>6 DEF EchoInv

LEMMA EmitRecognised ==
    ASSUME Fields, EchoInv, NEW e \in Msg, Emit(e), Recognised({e})
    PROVE  Recognised(Elems(events'))
BY EmitElems DEF EchoInv, Recognised, Known

(* What the server, the room and the transport say is no child's message.   *)
LEMMA ForeignRecognised ==
    ASSUME Fields, NEW k \in EventKinds
    PROVE  /\ Foreign(k) \in Msg /\ Recognised({Foreign(k)})
           /\ Foreign(k).sess <= session
<1>1. Foreign(k) \in Msg /\ Foreign(k).origin = Agent /\ Foreign(k).sess = session
  BY ForeignInMsg DEF Foreign, Agent
<1>2. session \in Nat
  BY DEF Fields
<1> QED
  BY <1>1, <1>2 DEF Recognised, Known

LEMMA EchoStep ==
    ASSUME MaxMsgs <= EchoCap, Fields, Phases, EchoInv, [Next]_vars
    PROVE  EchoInv'
<1>1. /\ {nmsg, MaxMsgs, session} \subseteq Nat /\ nmsg <= nmsg
      /\ echo \in Seq(Nat) /\ Len(echo) \in Nat
      /\ remoteRx \in Seq(Msg) /\ wire \in Seq(Msg) /\ chan \in Seq(Msg)
      /\ replay \in Seq(Msg) /\ cached \in Seq(Msg)
  BY GatewayAssumption DEF Fields
<1>2. /\ nmsg <= MaxMsgs
      /\ NotLater(Elems(remoteRx)) /\ NotLater(Elems(wire)) /\ NotLater(Elems(cached))
      /\ joined => Recognised(Elems(remoteRx))
      /\ Recognised(Elems(wire)) /\ Recognised(Elems(chan))
      /\ Recognised(Elems(replay)) /\ Recognised(Elems(events))
      /\ ~alive => wire = <<>> /\ chan = <<>> /\ replay = <<>>
  BY DEF EchoInv
<1>3. Recognised({}) /\ NotLater({}) /\ Elems(<<>>) = {}
  BY ElemsEmpty DEF Recognised, Known, NotLater
<1>4. \A S, T : S \subseteq T => (Recognised(T) => Recognised(S)) /\ (NotLater(T) => NotLater(S))
  BY DEF Recognised, Known, NotLater
<1>5. \A S, T : /\ Recognised(S) /\ Recognised(T) => Recognised(S \cup T)
                /\ NotLater(S) /\ NotLater(T) => NotLater(S \cup T)
  BY DEF Recognised, Known, NotLater
<1>6. \A S : \A m \in S : /\ Recognised(S) => Recognised({m})
                          /\ NotLater(S) => NotLater({m})
  BY DEF Recognised, Known, NotLater
<1>7. ASSUME UNCHANGED <<session, echo, joined, alive, remoteRx, wire, chan, replay,
                         cached, events, delivered, nmsg>>
      PROVE  EchoInv'
  BY <1>1, <1>2, <1>7, EchoFrame
<1>8. ASSUME NEW c \in ConnIds, NEW k \in ChildKinds, Forward(c, k) PROVE EchoInv'
  BY <1>8, EchoForward
<1>9. CASE SendReport
  <2>1. Report \in Msg /\ Recognised({Report}) /\ NotLater({Report})
    <3>1. Report.origin = Agent /\ Report.sess = session
      BY DEF Report
    <3>2. Report \in Msg
      BY <1>1, GatewayAssumption DEF Report, Msg, Kinds, Agent
    <3> QED
      BY <1>1, <3>1, <3>2 DEF Recognised, Known, NotLater
  <2>2. /\ remoteRx' = Append(remoteRx, Report) /\ joined
        /\ UNCHANGED <<session, echo, joined, alive, wire, chan, replay, cached, events,
                       delivered, nmsg>>
    BY <1>9 DEF SendReport
  <2>3. Elems(remoteRx') = Elems(remoteRx) \cup {Report}
    BY <1>1, <2>1, <2>2, ElemsAppend
  <2>4. Recognised(Elems(remoteRx')) /\ NotLater(Elems(remoteRx'))
    BY <1>2, <1>5, <2>1, <2>2, <2>3
  <2> QED
    BY <1>1, <1>2, <2>2, <2>4, EchoFrame
<1>10. CASE SendEncoderStatus
  <2> DEFINE m == Stamp(Agent, "media")
  <2>1. m \in Msg /\ Recognised({m}) /\ NotLater({m})
    <3>1. m.origin = Agent /\ m.sess = session
      BY DEF Stamp
    <3>2. m \in Msg
      BY StampInMsg, GatewayAssumption DEF Agent, Kinds
    <3> HIDE DEF m
    <3> QED
      BY <1>1, <3>1, <3>2 DEF Recognised, Known, NotLater
  <2>2. /\ remoteRx' = Append(remoteRx, m) /\ joined /\ nmsg' = nmsg + 1 /\ nmsg < MaxMsgs
        /\ UNCHANGED <<session, echo, joined, alive, wire, chan, replay, cached, events,
                       delivered>>
    BY <1>10 DEF SendEncoderStatus
  <2> HIDE DEF m
  <2>3. Elems(remoteRx') = Elems(remoteRx) \cup {m}
    BY <1>1, <2>1, <2>2, ElemsAppend
  <2>4. Recognised(Elems(remoteRx')) /\ NotLater(Elems(remoteRx'))
    BY <1>2, <1>5, <2>1, <2>2, <2>3
  <2>5. nmsg <= nmsg' /\ nmsg' <= MaxMsgs /\ nmsg' \in Nat
    BY <1>1, <2>2
  <2> QED
    BY <1>1, <1>2, <2>2, <2>4, <2>5, EchoFrame
<1>11. ASSUME NEW k \in PeerKinds, PeerSend(k) PROVE EchoInv'
  <2>1. Foreign(k) \in Msg /\ Recognised({Foreign(k)}) /\ NotLater({Foreign(k)})
    BY ForeignRecognised, GatewayAssumption DEF EventKinds, NotLater
  <2>2. /\ chan' = IF alive THEN Append(chan, Foreign(k)) ELSE chan
        /\ cached' = IF k = "nego" THEN Append(cached, Foreign(k)) ELSE cached
        /\ UNCHANGED <<session, echo, joined, alive, remoteRx, wire, replay, events,
                       delivered, nmsg>>
    BY <1>11 DEF PeerSend
  <2>3. /\ Elems(Append(chan, Foreign(k))) = Elems(chan) \cup {Foreign(k)}
        /\ Elems(Append(cached, Foreign(k))) = Elems(cached) \cup {Foreign(k)}
    BY <1>1, <2>1, ElemsAppend
  <2>4. /\ Recognised(Elems(chan) \cup {Foreign(k)})
        /\ NotLater(Elems(cached) \cup {Foreign(k)})
    BY <1>2, <1>5, <2>1
  <2>5. Recognised(Elems(chan')) /\ (~alive' => chan' = <<>>)
    BY <1>2, <2>2, <2>3, <2>4
  <2>6. NotLater(Elems(cached'))
    BY <1>2, <2>2, <2>3, <2>4
  <2> QED
    BY <1>1, <1>2, <2>2, <2>5, <2>6, EchoFrame
<1>12. ASSUME NEW how \in Losses, LoseConnection(how) PROVE EchoInv'
  <2>1. Foreign(how) \in Msg /\ Recognised({Foreign(how)})
    BY ForeignRecognised, GatewayAssumption DEF EventKinds
  <2>2. /\ Emit(Foreign(how)) /\ wire' = <<>> /\ chan' = <<>> /\ replay' = <<>>
        /\ UNCHANGED <<session, echo, joined, remoteRx, cached, delivered, nmsg>>
    BY <1>12 DEF LoseConnection
  <2>3. Recognised(Elems(events'))
    BY <2>1, <2>2, EmitRecognised
  <2> QED
    BY <1>1, <1>2, <1>3, <2>2, <2>3, EchoFrame
<1>13. CASE WriteFails
  <2>1. /\ wire' = <<>> /\ chan' = <<>> /\ replay' = <<>>
        /\ UNCHANGED <<session, echo, joined, remoteRx, cached, events, delivered, nmsg>>
    BY <1>13 DEF WriteFails
  <2> QED
    BY <1>1, <1>2, <1>3, <2>1, EchoFrame
<1>14. CASE ServerReplay
  <2>1. /\ replay # <<>> /\ Emit(Head(replay)) /\ replay' = Tail(replay) /\ alive
        /\ UNCHANGED <<session, echo, joined, alive, remoteRx, wire, chan, cached, delivered,
                       nmsg>>
    BY <1>14 DEF ServerReplay
  <2>2. Head(replay) \in Elems(replay) /\ Elems(replay') \subseteq Elems(replay)
        /\ Head(replay) \in Msg
    BY <1>1, <2>1, ElemsTail
  <2>3. Recognised(Elems(replay')) /\ Recognised(Elems(events'))
    BY <1>2, <1>4, <1>6, <2>1, <2>2, EmitRecognised
  <2> QED
    BY <1>1, <1>2, <2>1, <2>3, EchoFrame
<1>15. ASSUME ServerReady PROVE /\ Head(wire) \in Elems(wire) /\ Head(wire) \in Msg
                                /\ Elems(Tail(wire)) \subseteq Elems(wire)
                                /\ Recognised(Elems(Tail(wire))) /\ NotLater(Elems(Tail(wire)))
  <2>1. wire # <<>>
    BY <1>15 DEF ServerReady
  <2>2. /\ Head(wire) \in Elems(wire) /\ Elems(Tail(wire)) \subseteq Elems(wire)
        /\ Head(wire) \in Msg
    BY <1>1, <2>1, ElemsTail
  <2> QED
    BY <1>2, <1>4, <2>2
<1>16. CASE AnswerSfu
  <2> DEFINE e == [Head(wire) EXCEPT !.kind = "resp"]
  <2>1. /\ ServerReady /\ Emit(e) /\ wire' = Tail(wire) /\ alive
        /\ UNCHANGED <<session, echo, joined, alive, remoteRx, chan, replay, cached, delivered,
                       nmsg>>
    BY <1>16 DEF AnswerSfu, ServerReady
  <2>2. e \in Msg /\ Recognised({e})
    BY <1>15, <2>1 DEF Msg, EventKinds, Recognised, Known, IsRelayMsg
  <2>3. Recognised(Elems(events'))
    BY <2>1, <2>2, EmitRecognised
  <2> QED
    BY <1>1, <1>2, <1>15, <2>1, <2>3, EchoFrame
<1>17. CASE AnswerData
  <2>1. PICK k \in {"room", "resp"} : Emit([Head(wire) EXCEPT !.kind = k])
    BY <1>17 DEF AnswerData
  <2> DEFINE e == [Head(wire) EXCEPT !.kind = k]
  <2>2. /\ ServerReady /\ wire' = Tail(wire) /\ alive
        /\ UNCHANGED <<session, echo, joined, alive, remoteRx, chan, replay, cached, delivered,
                       nmsg>>
    BY <1>17 DEF AnswerData, ServerReady
  <2>3. e \in Msg /\ Recognised({e})
    BY <1>15, <2>2 DEF Msg, EventKinds, Recognised, Known, IsRelayMsg
  <2>4. Recognised(Elems(events'))
    BY <2>1, <2>3, EmitRecognised
  <2> QED
    BY <1>1, <1>2, <1>15, <2>2, <2>4, EchoFrame
<1>18. CASE RelayRoom
  <2>1. /\ ServerReady /\ wire' = Tail(wire) /\ alive
        /\ chan' = Append(chan, Head(wire))
        /\ cached' = IF Head(wire).kind = "nego" THEN Append(cached, Head(wire)) ELSE cached
        /\ UNCHANGED <<session, echo, joined, alive, remoteRx, replay, events, delivered, nmsg>>
    BY <1>18 DEF RelayRoom, ServerReady
  <2>2. Recognised({Head(wire)}) /\ NotLater({Head(wire)})
    BY <1>2, <1>6, <1>15, <2>1
  <2>3. /\ Elems(Append(chan, Head(wire))) = Elems(chan) \cup {Head(wire)}
        /\ Elems(Append(cached, Head(wire))) = Elems(cached) \cup {Head(wire)}
    BY <1>1, <1>15, <2>1, ElemsAppend
  <2>4. /\ Recognised(Elems(chan) \cup {Head(wire)})
        /\ NotLater(Elems(cached) \cup {Head(wire)})
    BY <1>2, <1>5, <2>2
  <2>5. Recognised(Elems(chan')) /\ NotLater(Elems(cached'))
    BY <1>2, <2>1, <2>3, <2>4
  <2> QED
    BY <1>1, <1>2, <1>15, <2>1, <2>5, EchoFrame
<1>19. CASE StoreStatus
  <2>1. /\ ServerReady /\ wire' = Tail(wire) /\ alive
        /\ UNCHANGED <<session, echo, joined, alive, remoteRx, chan, replay, cached, events,
                       delivered, nmsg>>
    BY <1>19 DEF StoreStatus, ServerReady
  <2> QED
    BY <1>1, <1>2, <1>15, <2>1, EchoFrame
<1>20. CASE RelayToVehicle
  <2>1. /\ chan # <<>> /\ Emit(Head(chan)) /\ chan' = Tail(chan) /\ alive
        /\ UNCHANGED <<session, echo, joined, alive, remoteRx, wire, replay, cached, delivered,
                       nmsg>>
    BY <1>20 DEF RelayToVehicle
  <2>2. Head(chan) \in Elems(chan) /\ Elems(chan') \subseteq Elems(chan) /\ Head(chan) \in Msg
    BY <1>1, <2>1, ElemsTail
  <2>3. Recognised(Elems(chan')) /\ Recognised(Elems(events'))
    BY <1>2, <1>4, <1>6, <2>1, <2>2, EmitRecognised
  <2> QED
    BY <1>1, <1>2, <2>1, <2>3, EchoFrame
<1>21. CASE Connect
  BY <1>21, EchoConnect
<1>22. CASE Disconnected
  BY <1>22, EchoReset DEF Disconnected
<1>23. CASE SendFails
  BY <1>1, <1>23, EchoReset, ElemsTail DEF SendFails
<1>24. CASE SendRemote
  <2>1. /\ remoteRx # <<>> /\ alive /\ joined
        /\ wire' = Append(wire, Head(remoteRx)) /\ remoteRx' = Tail(remoteRx)
        /\ UNCHANGED <<session, echo, joined, alive, chan, replay, cached, events, delivered,
                       nmsg>>
    BY <1>24 DEF SendRemote, Phases
  <2>2. /\ Head(remoteRx) \in Elems(remoteRx) /\ Head(remoteRx) \in Msg
        /\ Elems(remoteRx') \subseteq Elems(remoteRx)
    BY <1>1, <2>1, ElemsTail
  <2>3. Recognised(Elems(remoteRx')) /\ NotLater(Elems(remoteRx'))
    BY <1>2, <1>4, <2>1, <2>2
  <2>4. Recognised({Head(remoteRx)}) /\ NotLater({Head(remoteRx)})
    BY <1>2, <1>6, <2>1, <2>2
  <2>5. Elems(Append(wire, Head(remoteRx))) = Elems(wire) \cup {Head(remoteRx)}
    BY <1>1, <2>2, ElemsAppend
  <2>6. Recognised(Elems(wire')) /\ NotLater(Elems(wire'))
    BY <1>2, <1>5, <2>1, <2>4, <2>5
  <2> QED
    BY <1>1, <1>2, <2>1, <2>3, <2>6, EchoFrame
<1>25. CASE Drain
  <2>1. /\ ~joined /\ remoteRx' = <<>>
        /\ UNCHANGED <<session, echo, joined, alive, wire, chan, replay, cached, events,
                       delivered, nmsg>>
    BY <1>25 DEF Drain, Phases
  <2> QED
    BY <1>1, <1>2, <1>3, <2>1, EchoFrame
<1>26. CASE Downstream
  BY <1>26, EchoDownstream
<1>27. CASE Accept \/ Subscribe \/ UNCHANGED vars
  BY <1>7, <1>27 DEF Accept, Subscribe, vars
<1>28. ASSUME NEW c \in ConnIds, Intercept(c) \/ RemoveConn(c) PROVE EchoInv'
  BY <1>7, <1>28 DEF Intercept, RemoveConn, vars
<1>29. ASSUME NEW c \in ConnIds, NEW k \in ChildKinds, Refuse(c, k) PROVE EchoInv'
  BY <1>7, <1>29 DEF Refuse, vars
<1> QED
  BY <1>8, <1>9, <1>10, <1>11, <1>12, <1>13, <1>14, <1>16, <1>17, <1>18, <1>19, <1>20, <1>21,
     <1>22, <1>23, <1>24, <1>25, <1>26, <1>27, <1>28, <1>29
  DEF Next, Server, RemoteLoop

(* With no more messages than the echo cache holds, no child's relay        *)
(* message comes back to a child of the same session (gateway.rs:28-29).    *)
THEOREM EchoesStop == ASSUME MaxMsgs <= EchoCap PROVE Spec => []EchoSuppressed
<1>1. Init => EchoInv
  <2> SUFFICES ASSUME Init PROVE EchoInv
    OBVIOUS
  <2>1. /\ echo = <<>> /\ nmsg = 0 /\ delivered = {} /\ remoteRx = <<>> /\ wire = <<>>
        /\ chan = <<>> /\ replay = <<>> /\ cached = <<>> /\ events = <<>>
    BY DEF Init
  <2>2. Len(echo) <= nmsg /\ nmsg <= MaxMsgs
    BY <2>1, GatewayAssumption
  <2> QED
    BY <2>1, <2>2, ElemsEmpty DEF EchoInv, EchoSuppressed, Recognised, Known, NotLater
<1>2. Inductive /\ EchoInv /\ [Next]_vars => EchoInv'
  BY EchoStep DEF Inductive, TypeOK
<1>3. EchoInv => EchoSuppressed
  BY DEF EchoInv
<1> QED
  BY <1>1, <1>2, <1>3, InductiveHolds, PTL DEF Spec
=============================================================================
