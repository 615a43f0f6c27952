---------------------------- MODULE QueueLemmas -----------------------------
(* What a queue has in it before and after it takes or gives an entry: the    *)
(* lemmas the proofs about the server, the host and the media share.          *)
EXTENDS Integers, Sequences, Functions, SequenceTheorems, TLAPS

-----------------------------------------------------------------------------
(* What a queue has in it before and after it takes or gives an entry.        *)
LEMMA EmptyQueue == ASSUME NEW S PROVE <<>> \in Seq(S) /\ Len(<<>>) = 0
OBVIOUS

LEMMA AppendFacts ==
  ASSUME NEW S, NEW s \in Seq(S), NEW x \in S
  PROVE  /\ Append(s, x) \in Seq(S) /\ Len(Append(s, x)) = Len(s) + 1 /\ Len(s) \in Nat
         /\ \A i \in 1 .. Len(s) : Append(s, x)[i] = s[i]
         /\ Append(s, x)[Len(s) + 1] = x
         /\ DOMAIN Append(s, x) = 1 .. Len(s) + 1 /\ DOMAIN s = 1 .. Len(s) /\ Append(s, x) # <<>>
OBVIOUS

LEMMA TailFacts ==
  ASSUME NEW S, NEW s \in Seq(S), s # <<>>
  PROVE  /\ Tail(s) \in Seq(S) /\ Len(s) \in Nat \ {0} /\ Len(Tail(s)) = Len(s) - 1
         /\ Head(s) \in S /\ Head(s) = s[1]
         /\ \A i \in 1 .. Len(s) - 1 : Tail(s)[i] = s[i + 1]
         /\ DOMAIN s = 1 .. Len(s) /\ DOMAIN Tail(s) = 1 .. Len(s) - 1
BY HeadTailProperties

LEMMA QueueDomain ==
  ASSUME NEW S, NEW s \in Seq(S) PROVE DOMAIN s = 1 .. Len(s) /\ Len(s) \in Nat /\ (s = <<>> <=> Len(s) = 0)
OBVIOUS

(* Queues of numbers that only rise, as numbered events and frames do.        *)
Rises(s) == \A i, j \in 1 .. Len(s) : i < j => s[i] < s[j]
Between(s, low, high) == \A i \in 1 .. Len(s) : low < s[i] /\ s[i] <= high

LEMMA EmptyRises == ASSUME NEW low, NEW high PROVE Rises(<<>>) /\ Between(<<>>, low, high)
BY EmptyQueue DEF Rises, Between

LEMMA AppendRises ==
  ASSUME NEW s \in Seq(Int), NEW low \in Int, NEW high \in Int, NEW n \in Int,
         Rises(s), Between(s, low, high), high < n, low < n
  PROVE  Rises(Append(s, n)) /\ Between(Append(s, n), low, n)
<1>1. /\ Len(Append(s, n)) = Len(s) + 1 /\ Len(s) \in Nat
      /\ \A i \in 1 .. Len(s) : Append(s, n)[i] = s[i] /\ s[i] \in Int
      /\ Append(s, n)[Len(s) + 1] = n
  BY AppendFacts
<1>2. \A i \in 1 .. Len(s) : low < Append(s, n)[i] /\ Append(s, n)[i] < n
  BY <1>1 DEF Between
<1>3. Between(Append(s, n), low, n)
  BY <1>1, <1>2 DEF Between
<1>4. ASSUME NEW i \in 1 .. Len(Append(s, n)), NEW j \in 1 .. Len(Append(s, n)), i < j
      PROVE  Append(s, n)[i] < Append(s, n)[j]
  <2>1. i \in 1 .. Len(s)
    BY <1>1, <1>4
  <2>2. CASE j = Len(s) + 1
    BY <1>1, <1>2, <2>1, <2>2
  <2>3. CASE j # Len(s) + 1
    <3>1. j \in 1 .. Len(s)
      BY <1>1, <2>3
    <3> QED
      BY <1>1, <1>4, <2>1, <3>1 DEF Rises
  <2> QED
    BY <2>2, <2>3
<1> QED
  BY <1>3, <1>4 DEF Rises

LEMMA TailRises ==
  ASSUME NEW s \in Seq(Int), NEW low \in Int, NEW high \in Int, Rises(s), Between(s, low, high), s # <<>>
  PROVE  /\ Rises(Tail(s)) /\ Between(Tail(s), Head(s), high) /\ Between(Tail(s), low, high)
         /\ low < Head(s) /\ Head(s) <= high /\ Head(s) \in Int
<1>1. /\ Len(s) \in Nat \ {0} /\ Len(Tail(s)) = Len(s) - 1 /\ Head(s) = s[1] /\ Head(s) \in Int
      /\ \A i \in 1 .. Len(s) - 1 : Tail(s)[i] = s[i + 1]
  BY TailFacts
<1>2. low < Head(s) /\ Head(s) <= high
  BY <1>1 DEF Between
<1>3. ASSUME NEW i \in 1 .. Len(Tail(s))
      PROVE  low < Tail(s)[i] /\ Tail(s)[i] <= high /\ Head(s) < Tail(s)[i]
  <2>1. Tail(s)[i] = s[i + 1] /\ i + 1 \in 1 .. Len(s) /\ 1 \in 1 .. Len(s) /\ 1 < i + 1
    BY <1>1
  <2> QED
    BY <1>1, <2>1 DEF Between, Rises
<1>4. ASSUME NEW i \in 1 .. Len(Tail(s)), NEW j \in 1 .. Len(Tail(s)), i < j
      PROVE  Tail(s)[i] < Tail(s)[j]
  <2>1. /\ Tail(s)[i] = s[i + 1] /\ i + 1 \in 1 .. Len(s)
        /\ Tail(s)[j] = s[j + 1] /\ j + 1 \in 1 .. Len(s) /\ i + 1 < j + 1
    BY <1>1, <1>4
  <2> QED
    BY <2>1 DEF Rises
<1> QED
  BY <1>1, <1>2, <1>3, <1>4 DEF Rises, Between

LEMMA BetweenWidens ==
  ASSUME NEW s \in Seq(Int), NEW low \in Int, NEW high \in Int, NEW more \in Int, NEW less \in Int,
         Between(s, low, high), high <= more, less <= low
  PROVE  Between(s, less, more)
<1>1. \A i \in 1 .. Len(s) : s[i] \in Int
  OBVIOUS
<1> QED
  BY <1>1 DEF Between

(* Moving the head of one sequence to the end of another.                     *)
LEMMA AppendConcat ==
  ASSUME NEW S, NEW s \in Seq(S), NEW t \in Seq(S), NEW x \in S, NEW u \in Seq(S), u = s \o t
  PROVE  Append(u, x) = s \o Append(t, x)
<1>1. <<x>> \in Seq(S)
  OBVIOUS
<1>2. Append(u, x) = u \o <<x>> /\ Append(t, x) = t \o <<x>>
  BY AppendIsConcat
<1> QED
  BY <1>1, <1>2, ConcatAssociative

LEMMA MoveHead ==
  ASSUME NEW S, NEW s \in Seq(S), NEW t \in Seq(S), t # <<>>
  PROVE  /\ Head(t) \in S /\ Tail(t) \in Seq(S) /\ Append(s, Head(t)) \in Seq(S)
         /\ Append(s, Head(t)) \o Tail(t) = s \o t
<1>1. Head(t) \in S /\ Tail(t) \in Seq(S)
  BY HeadTailProperties
<1>2. <<Head(t)>> \in Seq(S) /\ Append(s, Head(t)) \in Seq(S)
  BY <1>1
<1>3. Append(s, Head(t)) = s \o <<Head(t)>>
  BY <1>1, AppendIsConcat
<1>4. <<Head(t)>> \o Tail(t) = t
  <2> DEFINE u == <<Head(t)>> \o Tail(t)
  <2>1. u \in Seq(S) /\ Len(u) = 1 + Len(Tail(t))
    BY <1>1, <1>2, ConcatProperties
  <2>2. Len(u) = Len(t)
    BY <2>1
  <2>3. \A i \in 1 .. Len(u) : u[i] = t[i]
    <3> SUFFICES ASSUME NEW i \in 1 .. Len(u) PROVE u[i] = t[i]
      OBVIOUS
    <3>1. u[i] = IF i <= 1 THEN <<Head(t)>>[i] ELSE Tail(t)[i - 1]
      BY <1>1, <1>2, <2>1, ConcatProperties
    <3> QED
      BY <2>2, <3>1
  <2> QED
    BY <2>1, <2>2, <2>3, SeqEqual
<1> QED
  BY <1>1, <1>2, <1>3, <1>4, ConcatAssociative

LEMMA AppendAfter ==
  ASSUME NEW S, NEW s \in Seq(S), NEW t \in Seq(S), NEW x \in S
  PROVE  Append(s \o t, x) = s \o Append(t, x)
<1>1. <<x>> \in Seq(S) /\ s \o t \in Seq(S)
  BY ConcatProperties
<1>2. Append(s \o t, x) = (s \o t) \o <<x>> /\ Append(t, x) = t \o <<x>>
  BY <1>1, AppendIsConcat
<1> QED
  BY <1>1, <1>2, ConcatAssociative

(* The same for the set of a queue's entries.                                 *)
LEMMA RangeOfQueue ==
  ASSUME NEW S, NEW s \in Seq(S) PROVE Range(s) = {s[i] : i \in 1 .. Len(s)} /\ Range(s) \subseteq S
BY QueueDomain DEF Range

LEMMA AppendRange ==
  ASSUME NEW S, NEW s \in Seq(S), NEW x \in S PROVE Range(Append(s, x)) = Range(s) \cup {x}
<1>1. /\ DOMAIN Append(s, x) = 1 .. Len(s) + 1 /\ DOMAIN s = 1 .. Len(s) /\ Len(s) \in Nat
      /\ \A i \in 1 .. Len(s) : Append(s, x)[i] = s[i]
      /\ Append(s, x)[Len(s) + 1] = x
  BY AppendFacts
<1>2. \A i \in 1 .. Len(s) + 1 : i \in 1 .. Len(s) \/ i = Len(s) + 1
  BY <1>1
<1>3. \A i \in 1 .. Len(s) : i \in 1 .. Len(s) + 1
  BY <1>1
<1>4. Len(s) + 1 \in 1 .. Len(s) + 1
  BY <1>1
<1> QED
  BY <1>1, <1>2, <1>3, <1>4 DEF Range

LEMMA TailRange ==
  ASSUME NEW S, NEW s \in Seq(S), s # <<>> PROVE Range(s) = {Head(s)} \cup Range(Tail(s))
<1>1. /\ Len(s) \in Nat \ {0} /\ Head(s) = s[1] /\ DOMAIN s = 1 .. Len(s) /\ DOMAIN Tail(s) = 1 .. Len(s) - 1
      /\ \A i \in 1 .. Len(s) - 1 : Tail(s)[i] = s[i + 1]
  BY TailFacts
<1>2. \A i \in 1 .. Len(s) : i = 1 \/ (i - 1 \in 1 .. Len(s) - 1 /\ Tail(s)[i - 1] = s[i])
  BY <1>1
<1>3. \A i \in 1 .. Len(s) - 1 : i + 1 \in 1 .. Len(s)
  BY <1>1
<1>4. 1 \in 1 .. Len(s)
  BY <1>1
<1>5. ASSUME NEW x \in Range(s) PROVE x = Head(s) \/ x \in Range(Tail(s))
  <2>1. PICK i \in 1 .. Len(s) : x = s[i]
    BY <1>1 DEF Range
  <2> QED
    BY <1>1, <1>2, <2>1 DEF Range
<1>6. Head(s) \in Range(s)
  BY <1>1, <1>4 DEF Range
<1>7. ASSUME NEW x \in Range(Tail(s)) PROVE x \in Range(s)
  <2>1. PICK i \in 1 .. Len(s) - 1 : x = Tail(s)[i]
    BY <1>1 DEF Range
  <2>2. x = s[i + 1] /\ i + 1 \in 1 .. Len(s)
    BY <1>1, <1>3, <2>1
  <2> QED
    BY <1>1, <2>2 DEF Range
<1> QED
  BY <1>5, <1>6, <1>7

(* A run of a queue's entries, and tuples written out.                        *)
LEMMA PartOfQueue ==
  ASSUME NEW S, NEW s \in Seq(S), NEW m \in 1 .. Len(s) + 1, NEW n \in 0 .. Len(s)
  PROVE  SubSeq(s, m, n) \in Seq(S) /\ Range(SubSeq(s, m, n)) = {s[i] : i \in m .. n}
<1> DEFINE t == SubSeq(s, m, n)
<1>0. Len(s) \in Nat
  BY QueueDomain
<1>1. \A i \in m .. n : s[i] \in S
  BY <1>0
<1>2. /\ t \in Seq(S) /\ Len(t) = (IF m <= n THEN n - m + 1 ELSE 0)
      /\ \A i \in 1 .. n - m + 1 : t[i] = s[m + i - 1]
  BY <1>0, <1>1, SubSeqProperties
<1> HIDE DEF t
<1>3. Range(t) = {t[i] : i \in 1 .. Len(t)}
  BY <1>2, RangeOfQueue
<1>4. \A i \in 1 .. Len(t) : m + i - 1 \in m .. n /\ i \in 1 .. n - m + 1
  BY <1>0, <1>2
<1>5. \A i \in m .. n : i - m + 1 \in 1 .. Len(t) /\ i - m + 1 \in 1 .. n - m + 1 /\ m + (i - m + 1) - 1 = i
  BY <1>0, <1>2
<1>6. Range(t) \subseteq {s[i] : i \in m .. n}
  BY <1>2, <1>3, <1>4
<1>7. ASSUME NEW i \in m .. n PROVE s[i] \in Range(t)
  <2>1. t[i - m + 1] = s[i]
    BY <1>2, <1>5
  <2> QED
    BY <1>3, <1>5, <2>1
<1> QED
  BY <1>2, <1>6, <1>7 DEF t

LEMMA PiecesAppended ==
  ASSUME NEW a, NEW b, NEW c PROVE Append(<<a>>, c) = <<a, c>> /\ Append(<<a, b>>, c) = <<a, b, c>>
<1> DEFINE S == {a, b, c}
<1>1. <<a>> \in Seq(S) /\ <<a, c>> \in Seq(S) /\ <<a, b>> \in Seq(S) /\ <<a, b, c>> \in Seq(S) /\ c \in S
  OBVIOUS
<1>2. /\ Len(<<a>>) = 1 /\ Len(<<a, b>>) = 2 /\ Len(<<a, c>>) = 2 /\ Len(<<a, b, c>>) = 3
      /\ <<a>>[1] = a /\ <<a, b>>[1] = a /\ <<a, b>>[2] = b /\ <<a, c>>[1] = a /\ <<a, c>>[2] = c
      /\ <<a, b, c>>[1] = a /\ <<a, b, c>>[2] = b /\ <<a, b, c>>[3] = c
  OBVIOUS
<1> HIDE DEF S
<1>3. /\ Append(<<a>>, c) \in Seq(S) /\ Len(Append(<<a>>, c)) = 2
      /\ Append(<<a>>, c)[1] = a /\ Append(<<a>>, c)[2] = c
  BY <1>1, <1>2, AppendFacts
<1>4. /\ Append(<<a, b>>, c) \in Seq(S) /\ Len(Append(<<a, b>>, c)) = 3
      /\ Append(<<a, b>>, c)[1] = a /\ Append(<<a, b>>, c)[2] = b /\ Append(<<a, b>>, c)[3] = c
  <2>1. Len(<<a, b>>) = 2 /\ 1 \in 1 .. 2 /\ 2 \in 1 .. 2 /\ 2 + 1 = 3
    BY <1>2
  <2> QED
    BY <1>1, <1>2, <2>1, AppendFacts
<1>5. Append(<<a>>, c) = <<a, c>>
  <2>1. 1 .. 2 = {1, 2}
    OBVIOUS
  <2> QED
    <3>1. \A i \in 1 .. 2 : Append(<<a>>, c)[i] = <<a, c>>[i]
      BY <1>2, <1>3, <2>1
    <3> QED
      BY <1>1, <1>2, <1>3, <3>1, SeqEqual
<1>6. Append(<<a, b>>, c) = <<a, b, c>>
  <2>1. 1 .. 3 = {1, 2, 3}
    OBVIOUS
  <2> QED
    BY <1>1, <1>2, <1>4, <2>1, SeqEqual
<1> QED
  BY <1>5, <1>6

(* Queues in which no entry comes twice.                                      *)
LEMMA PartInjective ==
  ASSUME NEW S, NEW s \in Seq(S), NEW m \in 1 .. Len(s) + 1, NEW n \in 0 .. Len(s), IsInjective(s)
  PROVE  IsInjective(SubSeq(s, m, n))
<1> DEFINE t == SubSeq(s, m, n)
<1>0. Len(s) \in Nat /\ DOMAIN s = 1 .. Len(s)
  BY QueueDomain
<1>1. \A i \in m .. n : s[i] \in S
  BY <1>0
<1>2. /\ t \in Seq(S) /\ Len(t) = (IF m <= n THEN n - m + 1 ELSE 0)
      /\ \A i \in 1 .. n - m + 1 : t[i] = s[m + i - 1]
  BY <1>0, <1>1, SubSeqProperties
<1> HIDE DEF t
<1>3. DOMAIN t = 1 .. Len(t)
  BY <1>2, QueueDomain
<1>4. ASSUME NEW i \in 1 .. Len(t), NEW j \in 1 .. Len(t), t[i] = t[j] PROVE i = j
  <2>1. /\ i \in 1 .. n - m + 1 /\ j \in 1 .. n - m + 1
        /\ m + i - 1 \in 1 .. Len(s) /\ m + j - 1 \in 1 .. Len(s)
    BY <1>0, <1>2
  <2>2. s[m + i - 1] = s[m + j - 1]
    BY <1>2, <1>4, <2>1
  <2>3. m + i - 1 = m + j - 1
    BY <1>0, <2>1, <2>2 DEF IsInjective
  <2> QED
    BY <1>0, <2>1, <2>3
<1>5. IsInjective(t)
  BY <1>3, <1>4 DEF IsInjective
<1> QED
  BY <1>5 DEF t

LEMMA PartsApart ==
  ASSUME NEW S, NEW s \in Seq(S), NEW n \in 0 .. Len(s), NEW m \in 1 .. Len(s) + 1, n < m, IsInjective(s)
  PROVE  /\ Range(SubSeq(s, 1, n)) \cap Range(SubSeq(s, m, Len(s))) = {}
         /\ \A k \in n + 1 .. m - 1 : /\ s[k] \notin Range(SubSeq(s, 1, n))
                                    /\ s[k] \notin Range(SubSeq(s, m, Len(s)))
<1>0. Len(s) \in Nat /\ DOMAIN s = 1 .. Len(s) /\ m \in Int /\ n \in Int
  BY QueueDomain
<1>1. Range(SubSeq(s, 1, n)) = {s[i] : i \in 1 .. n}
  <2>1. 1 \in 1 .. Len(s) + 1
    BY <1>0
  <2> QED
    BY <2>1, PartOfQueue
<1>2. Range(SubSeq(s, m, Len(s))) = {s[i] : i \in m .. Len(s)}
  <2>1. Len(s) \in 0 .. Len(s)
    BY <1>0
  <2> QED
    BY <2>1, PartOfQueue
<1>3. \A i, j \in 1 .. Len(s) : s[i] = s[j] => i = j
  BY <1>0 DEF IsInjective
<1>4. /\ \A i \in 1 .. n : i \in 1 .. Len(s)
      /\ \A i \in m .. Len(s) : i \in 1 .. Len(s)
      /\ \A i \in n + 1 .. m - 1 : i \in 1 .. Len(s)
      /\ \A i \in 1 .. n : \A j \in m .. Len(s) : i # j
      /\ \A i \in 1 .. n : \A j \in n + 1 .. m - 1 : i # j
      /\ \A i \in n + 1 .. m - 1 : \A j \in m .. Len(s) : i # j
  BY <1>0
<1> QED
  BY <1>1, <1>2, <1>3, <1>4

LEMMA ConcatInjective ==
  ASSUME NEW S, NEW s \in Seq(S), NEW t \in Seq(S)
  PROVE  /\ s \o t \in Seq(S) /\ Range(s \o t) = Range(s) \cup Range(t)
         /\ IsInjective(s) /\ IsInjective(t) /\ Range(s) \cap Range(t) = {} => IsInjective(s \o t)
<1> DEFINE u == s \o t
<1>1. /\ u \in Seq(S) /\ Len(u) = Len(s) + Len(t)
      /\ \A i \in 1 .. Len(s) + Len(t) : u[i] = IF i <= Len(s) THEN s[i] ELSE t[i - Len(s)]
  BY ConcatProperties
<1> HIDE DEF u
<1>2. /\ Len(s) \in Nat /\ Len(t) \in Nat /\ DOMAIN s = 1 .. Len(s) /\ DOMAIN t = 1 .. Len(t)
      /\ DOMAIN u = 1 .. Len(s) + Len(t)
  <2>1. Len(u) \in Nat /\ DOMAIN u = 1 .. Len(u)
    BY <1>1, QueueDomain
  <2> QED
    BY <1>1, <2>1, QueueDomain
<1>3. /\ \A i \in 1 .. Len(s) : i \in 1 .. Len(s) + Len(t) /\ u[i] = s[i]
      /\ \A i \in 1 .. Len(t) : /\ i + Len(s) \in 1 .. Len(s) + Len(t) /\ u[i + Len(s)] = t[i]
  <2>1. ASSUME NEW i \in 1 .. Len(s) PROVE i \in 1 .. Len(s) + Len(t) /\ u[i] = s[i]
    <3>1. i \in 1 .. Len(s) + Len(t) /\ i <= Len(s)
      BY <1>2
    <3> QED
      BY <1>1, <3>1
  <2>2. ASSUME NEW i \in 1 .. Len(t) PROVE i + Len(s) \in 1 .. Len(s) + Len(t) /\ u[i + Len(s)] = t[i]
    <3>1. i + Len(s) \in 1 .. Len(s) + Len(t) /\ ~(i + Len(s) <= Len(s)) /\ i + Len(s) - Len(s) = i
      BY <1>2
    <3> QED
      BY <1>1, <3>1
  <2> QED
    BY <2>1, <2>2
<1>4. \A k \in 1 .. Len(s) + Len(t) : k \in 1 .. Len(s) \/ (k - Len(s) \in 1 .. Len(t) /\ k = (k - Len(s)) + Len(s))
  BY <1>2
<1>5. Range(u) = Range(s) \cup Range(t)
  <2>1. ASSUME NEW x \in Range(u) PROVE x \in Range(s) \cup Range(t)
    <3>1. PICK k \in 1 .. Len(s) + Len(t) : x = u[k]
      BY <1>2 DEF Range
    <3> QED
      BY <1>2, <1>3, <1>4, <3>1 DEF Range
  <2>2. ASSUME NEW x \in Range(s) PROVE x \in Range(u)
    BY <1>2, <1>3 DEF Range
  <2>3. ASSUME NEW x \in Range(t) PROVE x \in Range(u)
    BY <1>2, <1>3 DEF Range
  <2> QED
    BY <2>1, <2>2, <2>3
<1>6. ASSUME IsInjective(s), IsInjective(t), Range(s) \cap Range(t) = {},
             NEW i \in 1 .. Len(s) + Len(t), NEW j \in 1 .. Len(s) + Len(t), u[i] = u[j]
      PROVE  i = j
  <2>1. CASE i \in 1 .. Len(s) /\ j \in 1 .. Len(s)
    BY <1>2, <1>3, <1>6, <2>1 DEF IsInjective
  <2>2. CASE i - Len(s) \in 1 .. Len(t) /\ j - Len(s) \in 1 .. Len(t)
    <3>1. u[i] = t[i - Len(s)] /\ u[j] = t[j - Len(s)]
      <4>1. (i - Len(s)) + Len(s) = i /\ (j - Len(s)) + Len(s) = j
        BY <1>2
      <4> QED
        BY <1>3, <2>2, <4>1
    <3>2. i - Len(s) = j - Len(s)
      BY <1>2, <1>6, <2>2, <3>1 DEF IsInjective
    <3> QED
      BY <1>2, <3>2
  <2>3. CASE i \in 1 .. Len(s) /\ j - Len(s) \in 1 .. Len(t)
    <3>1. u[i] = s[i] /\ u[j] = t[j - Len(s)]
      <4>1. (j - Len(s)) + Len(s) = j
        BY <1>2
      <4> QED
        BY <1>3, <2>3, <4>1
    <3>2. u[i] \in Range(s) /\ u[j] \in Range(t)
      BY <1>2, <2>3, <3>1 DEF Range
    <3> QED
      BY <1>6, <3>2
  <2>4. CASE j \in 1 .. Len(s) /\ i - Len(s) \in 1 .. Len(t)
    <3>1. u[j] = s[j] /\ u[i] = t[i - Len(s)]
      <4>1. (i - Len(s)) + Len(s) = i
        BY <1>2
      <4> QED
        BY <1>3, <2>4, <4>1
    <3>2. u[j] \in Range(s) /\ u[i] \in Range(t)
      BY <1>2, <2>4, <3>1 DEF Range
    <3> QED
      BY <1>6, <3>2
  <2> QED
    BY <1>4, <2>1, <2>2, <2>3, <2>4
<1>7. IsInjective(s) /\ IsInjective(t) /\ Range(s) \cap Range(t) = {} => IsInjective(u)
  BY <1>2, <1>6 DEF IsInjective
<1> QED
  BY <1>1, <1>5, <1>7 DEF u

LEMMA AppendOnce ==
  ASSUME NEW S, NEW s \in Seq(S), NEW x \in S, IsInjective(s), x \notin Range(s)
  PROVE  IsInjective(Append(s, x))
<1>1. <<x>> \in Seq(S) /\ DOMAIN <<x>> = {1} /\ <<x>>[1] = x
  OBVIOUS
<1>2. IsInjective(<<x>>) /\ Range(<<x>>) = {x}
  BY <1>1 DEF IsInjective, Range
<1>3. IsInjective(s \o <<x>>)
  <2>1. Range(s) \cap Range(<<x>>) = {}
    BY <1>2
  <2> QED
    BY <1>1, <1>2, <2>1, ConcatInjective
<1>4. Append(s, x) = s \o <<x>>
  BY AppendIsConcat
<1> QED
  BY <1>3, <1>4
=============================================================================
