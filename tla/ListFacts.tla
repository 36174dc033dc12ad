----------------------------- MODULE ListFacts ------------------------------
(***************************************************************************)
(* What the driver's list operations do to a list whose entries are        *)
(* distinct: insertion at either end, removal of an entry, concatenation   *)
(* and splitting, each with its effect on the members.                     *)
(***************************************************************************)
EXTENDS Integers, Sequences, SequencesExt, FiniteSets,
        TLAPS, SequenceTheorems, FiniteSetTheorems

(* No entry is linked twice. *)
Distinct(s) == \A k, l \in 1..Len(s) : s[k] = s[l] => k = l

(* InsertTailList of an IRP that is on no list. *)
LEMMA AppendFacts ==
  ASSUME NEW S, NEW s \in Seq(S), NEW e \in S, Distinct(s), e \notin Range(s)
  PROVE  /\ Append(s, e) \in Seq(S)
         /\ Distinct(Append(s, e))
         /\ Range(Append(s, e)) = Range(s) \union {e}
<1>1. Append(s, e) \in Seq(S)
  OBVIOUS
<1>2. /\ Len(Append(s, e)) = Len(s) + 1
      /\ \A k \in 1..Len(s) : Append(s, e)[k] = s[k]
      /\ Append(s, e)[Len(s) + 1] = e
  OBVIOUS
<1>3. /\ DOMAIN s = 1..Len(s)
      /\ DOMAIN Append(s, e) = 1..(Len(s) + 1)
  BY <1>1, <1>2
<1>4. \A k \in 1..Len(s) : s[k] # e
  BY <1>3 DEF Range
<1>5. Distinct(Append(s, e))
  BY <1>2, <1>4 DEF Distinct
<1>6. Range(Append(s, e)) = Range(s) \union {e}
  BY <1>2, <1>3 DEF Range
<1>7. QED
  BY <1>1, <1>5, <1>6

(* RemoveEntryList of the k-th entry. *)
LEMMA RemoveAtFacts ==
  ASSUME NEW S, NEW s \in Seq(S), NEW k \in 1..Len(s), Distinct(s)
  PROVE  /\ RemoveAt(s, k) \in Seq(S)
         /\ Distinct(RemoveAt(s, k))
         /\ Range(RemoveAt(s, k)) = Range(s) \ {s[k]}
<1> DEFINE t == RemoveAt(s, k)
           a == SubSeq(s, 1, k - 1)
           b == SubSeq(s, k + 1, Len(s))
<1>1. /\ Len(s) \in Nat
      /\ DOMAIN s = 1..Len(s)
      /\ \A n \in 1..Len(s) : s[n] \in S
  BY LenProperties
<1>2. /\ a \in Seq(S)
      /\ Len(a) = k - 1
      /\ \A n \in 1..(k - 1) : a[n] = s[n]
  <2>1. \A n \in 1..(k - 1) : s[n] \in S
    BY <1>1
  <2>2. QED
    BY <1>1, <2>1, SubSeqProperties
<1>3. /\ b \in Seq(S)
      /\ Len(b) = Len(s) - k
      /\ \A n \in 1..(Len(s) - k) : b[n] = s[k + n]
  <2>1. \A n \in (k + 1)..Len(s) : s[n] \in S
    BY <1>1
  <2>2. /\ b \in Seq(S)
        /\ Len(b) = IF k + 1 <= Len(s) THEN Len(s) - (k + 1) + 1 ELSE 0
        /\ \A n \in 1..(Len(s) - (k + 1) + 1) : b[n] = s[(k + 1) + n - 1]
    BY <1>1, <2>1, SubSeqProperties
  <2> HIDE DEF b
  <2>3. ASSUME NEW n \in 1..(Len(s) - k)
        PROVE  b[n] = s[k + n]
    <3>1. n \in 1..(Len(s) - (k + 1) + 1) /\ (k + 1) + n - 1 = k + n
      BY <1>1
    <3>2. QED
      BY <2>2, <3>1
  <2>4. Len(b) = Len(s) - k
    <3>1. /\ k \in Int /\ k >= 1 /\ k <= Len(s)
          /\ Len(s) \in Int
          /\ Len(s) - (k + 1) + 1 = Len(s) - k
      BY <1>1
    <3>2. CASE k < Len(s)
      <4>1. k + 1 <= Len(s)
        BY <3>1, <3>2
      <4>2. QED
        BY <2>2, <3>1, <4>1
    <3>3. CASE k = Len(s)
      <4>1. ~(k + 1 <= Len(s)) /\ Len(s) - k = 0
        BY <3>1, <3>3
      <4>2. Len(b) = 0
        BY <2>2, <4>1
      <4>3. QED
        BY <4>1, <4>2
    <3>4. k < Len(s) \/ k = Len(s)
      <4>1. \A x, y \in Int : x <= y => x < y \/ x = y
        OBVIOUS
      <4>2. QED
        BY <3>1, <4>1, Zenon
    <3>5. QED
      BY <3>2, <3>3, <3>4
  <2>5. QED
    BY <2>2, <2>3, <2>4
<1>4. t = a \o b
  BY DEF RemoveAt
<1> HIDE DEF t, a, b
<1>5. /\ t \in Seq(S)
      /\ DOMAIN t = 1..Len(t)
      /\ Len(t) = Len(s) - 1
      /\ \A n \in 1..Len(t) : t[n] = IF n < k THEN s[n] ELSE s[n + 1]
  <2>1. /\ t \in Seq(S)
        /\ Len(t) = Len(a) + Len(b)
        /\ \A n \in 1..(Len(a) + Len(b)) :
             t[n] = IF n <= Len(a) THEN a[n] ELSE b[n - Len(a)]
    BY <1>2, <1>3, <1>4, ConcatProperties
  <2>2. ASSUME NEW n \in 1..(Len(s) - 1)
        PROVE  t[n] = IF n < k THEN s[n] ELSE s[n + 1]
    <3>1. CASE n < k
      BY <1>1, <1>2, <1>3, <2>1, <3>1
    <3>2. CASE n >= k
      <4>1. t[n] = b[n - (k - 1)]
        <5>1. n \in 1..(Len(a) + Len(b)) /\ ~(n <= Len(a))
          BY <1>1, <1>2, <1>3, <3>2
        <5>2. QED
          BY <1>2, <2>1, <5>1
      <4>2. n - (k - 1) \in 1..(Len(s) - k) /\ k + (n - (k - 1)) = n + 1
        BY <1>1, <3>2
      <4>3. QED
        BY <1>1, <1>3, <3>2, <4>1, <4>2
    <3>3. QED
      BY <1>1, <3>1, <3>2
  <2>3. QED
    BY <1>1, <1>2, <1>3, <2>1, <2>2, LenProperties
<1>6. Distinct(t)
  BY <1>1, <1>5 DEF Distinct
<1>7. Range(t) = Range(s) \ {s[k]}
  <2>1. ASSUME NEW n \in 1..Len(t)
        PROVE  t[n] \in Range(s) \ {s[k]}
    <3>1. PICK m \in 1..Len(s) : t[n] = s[m] /\ m # k
      <4>1. CASE n < k
        BY <1>1, <1>5, <4>1
      <4>2. CASE ~(n < k)
        <5>1. n + 1 \in 1..Len(s) /\ n + 1 # k
          BY <1>1, <1>5, <4>2
        <5>2. QED
          BY <1>5, <4>2, <5>1
      <4>3. QED
        BY <4>1, <4>2
    <3>2. s[m] # s[k]
      BY <3>1 DEF Distinct
    <3>3. QED
      BY <1>1, <3>1, <3>2 DEF Range
  <2>2. ASSUME NEW n \in 1..Len(s), s[n] # s[k]
        PROVE  \E m \in 1..Len(t) : t[m] = s[n]
    <3>1. CASE n < k
      BY <1>1, <1>5, <3>1
    <3>2. CASE n > k
      <4>1. n - 1 \in 1..Len(t) /\ ~(n - 1 < k) /\ (n - 1) + 1 = n
        BY <1>1, <1>5, <3>2
      <4>2. QED
        BY <1>5, <4>1
    <3>3. QED
      BY <1>1, <2>2, <3>1, <3>2
  <2>3. ASSUME NEW x \in Range(t)
        PROVE  x \in Range(s) \ {s[k]}
    <3>1. PICK n \in 1..Len(t) : t[n] = x
      BY <1>5 DEF Range
    <3>2. QED
      BY <2>1, <3>1
  <2>4. ASSUME NEW x \in Range(s) \ {s[k]}
        PROVE  x \in Range(t)
    <3>1. PICK n \in 1..Len(s) : s[n] = x
      BY <1>1 DEF Range
    <3>2. PICK m \in 1..Len(t) : t[m] = s[n]
      BY <2>2, <2>4, <3>1
    <3>3. QED
      BY <1>5, <3>1, <3>2 DEF Range
  <2>5. QED
    BY <2>3, <2>4
<1>8. QED
  BY <1>5, <1>6, <1>7 DEF t

(* A list's members, by place. *)
LEMMA RangeFacts ==
  ASSUME NEW S, NEW s \in Seq(S)
  PROVE  /\ Range(s) = {s[k] : k \in 1..Len(s)}
         /\ Range(s) \subseteq S
         /\ s = <<>> <=> Range(s) = {}
         /\ s = <<>> <=> Len(s) = 0
<1>1. Len(s) \in Nat /\ DOMAIN s = 1..Len(s) /\ \A k \in 1..Len(s) : s[k] \in S
  BY LenProperties
<1>2. Range(s) = {s[k] : k \in 1..Len(s)}
  BY <1>1 DEF Range
<1>3. s = <<>> <=> Len(s) = 0
  BY EmptySeq
<1>4. Len(s) = 0 <=> Range(s) = {}
  <2>1. CASE Len(s) = 0
    BY <1>2, <2>1
  <2>2. CASE Len(s) # 0
    <3>1. 1 \in 1..Len(s)
      BY <1>1, <2>2
    <3>2. QED
      BY <1>2, <2>2, <3>1
  <2>3. QED
    BY <2>1, <2>2
<1>5. QED
  BY <1>1, <1>2, <1>3, <1>4

(* The members of a list whose entries are known by place. *)
LEMMA RangeByPlace ==
  ASSUME NEW S, NEW s \in Seq(S), NEW x
  PROVE  x \in Range(s) <=> \E k \in 1..Len(s) : s[k] = x
  BY RangeFacts

(* Two lists end to end. *)
LEMMA ConcatFacts ==
  ASSUME NEW S, NEW s \in Seq(S), NEW t \in Seq(S)
  PROVE  /\ s \o t \in Seq(S)
         /\ Range(s \o t) = Range(s) \union Range(t)
         /\ Distinct(s) /\ Distinct(t) /\ Range(s) \intersect Range(t) = {}
              => Distinct(s \o t)
<1> DEFINE u == s \o t
<1>1. /\ u \in Seq(S)
      /\ Len(u) = Len(s) + Len(t)
      /\ \A i \in 1..(Len(s) + Len(t)) :
            u[i] = IF i <= Len(s) THEN s[i] ELSE t[i - Len(s)]
  BY ConcatProperties
<1>2. Len(s) \in Nat /\ Len(t) \in Nat
  BY LenProperties
<1> HIDE DEF u
<1>3. ASSUME NEW i \in 1..Len(s) PROVE i \in 1..Len(u) /\ u[i] = s[i]
  BY <1>1, <1>2
<1>4. ASSUME NEW i \in 1..Len(t)
      PROVE  Len(s) + i \in 1..Len(u) /\ u[Len(s) + i] = t[i]
  <2>1. /\ Len(s) + i \in 1..(Len(s) + Len(t))
        /\ ~(Len(s) + i <= Len(s)) /\ Len(s) + i - Len(s) = i
    BY <1>2
  <2>2. QED
    BY <1>1, <2>1
<1>5. ASSUME NEW i \in 1..Len(u)
      PROVE  \/ i \in 1..Len(s) /\ u[i] = s[i]
             \/ i - Len(s) \in 1..Len(t) /\ u[i] = t[i - Len(s)]
  <2>1. CASE i <= Len(s)
    BY <1>1, <1>2, <2>1
  <2>2. CASE ~(i <= Len(s))
    <3>1. i - Len(s) \in 1..Len(t)
      BY <1>1, <1>2, <2>2
    <3>2. QED
      BY <1>1, <2>2, <3>1
  <2>3. QED
    BY <2>1, <2>2
<1>6. Range(u) = Range(s) \union Range(t)
  <2>1. ASSUME NEW x \in Range(s) \union Range(t) PROVE x \in Range(u)
    <3>1. CASE x \in Range(s)
      <4>1. PICK i \in 1..Len(s) : s[i] = x
        BY <3>1, RangeByPlace
      <4>2. QED
        BY <1>1, <1>3, <4>1, RangeByPlace
    <3>2. CASE x \in Range(t)
      <4>1. PICK i \in 1..Len(t) : t[i] = x
        BY <3>2, RangeByPlace
      <4>2. QED
        BY <1>1, <1>4, <4>1, RangeByPlace
    <3>3. QED
      BY <3>1, <3>2
  <2>2. ASSUME NEW x \in Range(u) PROVE x \in Range(s) \union Range(t)
    <3>1. PICK i \in 1..Len(u) : u[i] = x
      BY <1>1, RangeByPlace
    <3>2. CASE i \in 1..Len(s) /\ u[i] = s[i]
      BY <3>1, <3>2, RangeByPlace
    <3>3. CASE i - Len(s) \in 1..Len(t) /\ u[i] = t[i - Len(s)]
      BY <3>1, <3>3, RangeByPlace
    <3>4. QED
      BY <1>5, <3>2, <3>3
  <2>3. QED
    BY <2>1, <2>2
<1>7. ASSUME Distinct(s), Distinct(t), Range(s) \intersect Range(t) = {}
      PROVE  Distinct(u)
  <2>1. SUFFICES ASSUME NEW i \in 1..Len(u), NEW j \in 1..Len(u), u[i] = u[j]
                 PROVE  i = j
    BY DEF Distinct
  <2>2. \A k \in 1..Len(s), l \in 1..Len(t) : s[k] # t[l]
    <3>1. \A k \in 1..Len(s) : s[k] \in Range(s)
      BY RangeByPlace
    <3>2. \A l \in 1..Len(t) : t[l] \in Range(t)
      BY RangeByPlace
    <3>3. QED
      BY <1>7, <3>1, <3>2
  <2>3. CASE i \in 1..Len(s) /\ u[i] = s[i] /\ j \in 1..Len(s) /\ u[j] = s[j]
    BY <1>7, <2>1, <2>3 DEF Distinct
  <2>4. CASE /\ i - Len(s) \in 1..Len(t) /\ u[i] = t[i - Len(s)]
             /\ j - Len(s) \in 1..Len(t) /\ u[j] = t[j - Len(s)]
    <3>1. i - Len(s) = j - Len(s)
      BY <1>7, <2>1, <2>4 DEF Distinct
    <3>2. QED
      BY <1>1, <1>2, <3>1
  <2>5. QED
    BY <1>5, <2>1, <2>2, <2>3, <2>4
<1>8. QED
  BY <1>1, <1>6, <1>7 DEF u

(* InsertHeadList of an entry that is on no list. *)
LEMMA ConsFacts ==
  ASSUME NEW S, NEW s \in Seq(S), NEW e \in S
  PROVE  /\ <<e>> \o s \in Seq(S)
         /\ Range(<<e>> \o s) = {e} \union Range(s)
         /\ Distinct(s) /\ e \notin Range(s) => Distinct(<<e>> \o s)
<1>1. <<e>> \in Seq(S) /\ Len(<<e>>) = 1 /\ <<e>>[1] = e
  OBVIOUS
<1> DEFINE c == <<e>>
<1>2. c \in Seq(S) /\ Len(c) = 1 /\ c[1] = e
  BY <1>1
<1> HIDE DEF c
<1>3. Distinct(c)
  BY <1>2 DEF Distinct
<1>4. Range(c) = {e}
  <2>1. Range(c) = {c[k] : k \in 1..1}
    BY <1>2, RangeFacts
  <2>2. QED
    BY <1>2, <2>1
<1>5. /\ c \o s \in Seq(S)
      /\ Range(c \o s) = {e} \union Range(s)
  BY <1>2, <1>4, ConcatFacts
<1>6. ASSUME Distinct(s), e \notin Range(s)
      PROVE  Distinct(c \o s)
  <2>1. Range(c) \intersect Range(s) = {}
    BY <1>4, <1>6
  <2>2. QED
    BY <1>2, <1>3, <1>6, <2>1, ConcatFacts
<1>7. QED
  BY <1>5, <1>6 DEF c

(* RemoveHeadList. *)
LEMMA TailFacts ==
  ASSUME NEW S, NEW s \in Seq(S), s # <<>>, Distinct(s)
  PROVE  /\ Head(s) \in Range(s)
         /\ Head(s) \in S
         /\ Tail(s) \in Seq(S)
         /\ Distinct(Tail(s))
         /\ Range(Tail(s)) = Range(s) \ {Head(s)}
<1>1. Len(s) \in Nat \ {0} /\ Head(s) = s[1]
  BY EmptySeq
<1>2. /\ Tail(s) \in Seq(S)
      /\ Len(Tail(s)) = Len(s) - 1
      /\ \A i \in 1..Len(Tail(s)) : Tail(s)[i] = s[i + 1]
  BY HeadTailProperties
<1>3. 1 \in 1..Len(s)
  BY <1>1
<1>4. \A i \in 1..Len(Tail(s)) : i + 1 \in 1..Len(s) /\ i + 1 # 1
  BY <1>1, <1>2
<1>5. Distinct(Tail(s))
  BY <1>1, <1>2, <1>4 DEF Distinct
<1>6. ASSUME NEW x \in Range(Tail(s)) PROVE x \in Range(s) \ {Head(s)}
  <2>1. PICK i \in 1..Len(Tail(s)) : Tail(s)[i] = x
    BY <1>2, RangeByPlace
  <2>2. x = s[i + 1] /\ s[i + 1] # s[1]
    BY <1>2, <1>3, <1>4, <2>1 DEF Distinct
  <2>3. QED
    BY <1>1, <1>4, <2>2, RangeByPlace
<1>7. ASSUME NEW x \in Range(s) \ {Head(s)} PROVE x \in Range(Tail(s))
  <2>1. PICK i \in 1..Len(s) : s[i] = x
    BY RangeByPlace
  <2>2. i # 1
    BY <1>1, <2>1, <1>7
  <2>3. i - 1 \in 1..Len(Tail(s)) /\ i - 1 + 1 = i
    BY <1>1, <1>2, <2>2
  <2>4. QED
    BY <1>2, <2>1, <2>3, RangeByPlace
<1>8. QED
  BY <1>1, <1>2, <1>3, <1>5, <1>6, <1>7, RangeByPlace

(* A list cut before its last part: the first n entries. *)
LEMMA PrefixFacts ==
  ASSUME NEW S, NEW s \in Seq(S), NEW n \in 0..Len(s), Distinct(s)
  PROVE  /\ SubSeq(s, 1, n) \in Seq(S)
         /\ Distinct(SubSeq(s, 1, n))
         /\ Range(SubSeq(s, 1, n)) = {s[k] : k \in 1..n}
<1> DEFINE a == SubSeq(s, 1, n)
<1>1. /\ Len(s) \in Nat
      /\ \A k \in 1..Len(s) : s[k] \in S
  BY LenProperties
<1>2. /\ a \in Seq(S)
      /\ Len(a) = IF 1 <= n THEN n - 1 + 1 ELSE 0
      /\ \A i \in 1..(n - 1 + 1) : a[i] = s[1 + i - 1]
  BY <1>1, SubSeqProperties
<1> HIDE DEF a
<1>3. Len(a) = n /\ \A i \in 1..n : a[i] = s[i] /\ i \in 1..Len(s)
  <2>1. n \in Nat /\ n - 1 + 1 = n /\ \A i \in 1..n : 1 + i - 1 = i
    BY <1>1
  <2>2. Len(a) = n
    BY <1>2, <2>1
  <2>3. \A i \in 1..n : i \in 1..Len(s)
    BY <1>1
  <2>4. QED
    BY <1>2, <2>1, <2>2, <2>3
<1>4. Distinct(a)
  BY <1>3 DEF Distinct
<1>5. Range(a) = {s[k] : k \in 1..n}
  BY <1>2, <1>3, RangeFacts
<1>6. QED
  BY <1>2, <1>4, <1>5 DEF a

(* ... and the entries from the m-th on. *)
LEMMA SuffixFacts ==
  ASSUME NEW S, NEW s \in Seq(S), NEW m \in 1..(Len(s) + 1), Distinct(s)
  PROVE  /\ SubSeq(s, m, Len(s)) \in Seq(S)
         /\ Distinct(SubSeq(s, m, Len(s)))
         /\ Range(SubSeq(s, m, Len(s))) = {s[k] : k \in m..Len(s)}
<1> DEFINE b == SubSeq(s, m, Len(s))
<1>1. /\ Len(s) \in Nat
      /\ \A k \in m..Len(s) : s[k] \in S
  BY LenProperties
<1>2. /\ b \in Seq(S)
      /\ Len(b) = IF m <= Len(s) THEN Len(s) - m + 1 ELSE 0
      /\ \A i \in 1..(Len(s) - m + 1) : b[i] = s[m + i - 1]
  BY <1>1, SubSeqProperties
<1> HIDE DEF b
<1>3. Len(b) = Len(s) - m + 1
  <2>1. m \in Int /\ Len(s) \in Int /\ m <= Len(s) + 1
    BY <1>1
  <2>2. \A x, y \in Int : x <= y + 1 /\ ~(x <= y) => y - x + 1 = 0
    OBVIOUS
  <2>3. ~(m <= Len(s)) => Len(s) - m + 1 = 0
    BY <2>1, <2>2, Zenon
  <2>4. QED
    BY <1>2, <2>3, Zenon
<1>4. \A i \in 1..Len(b) : b[i] = s[m + i - 1] /\ m + i - 1 \in m..Len(s)
  <2>1. ASSUME NEW i \in 1..Len(b) PROVE m + i - 1 \in m..Len(s)
    BY <1>1, <1>3
  <2>2. QED
    BY <1>2, <1>3, <2>1
<1>5. \A k \in m..Len(s) : k - m + 1 \in 1..Len(b) /\ b[k - m + 1] = s[k]
  <2>1. ASSUME NEW k \in m..Len(s)
        PROVE  k - m + 1 \in 1..Len(b) /\ m + (k - m + 1) - 1 = k
    BY <1>1, <1>3
  <2>2. QED
    BY <1>4, <2>1
<1>6. Distinct(b)
  <2>1. SUFFICES ASSUME NEW i \in 1..Len(b), NEW j \in 1..Len(b), b[i] = b[j]
                 PROVE  i = j
    BY DEF Distinct
  <2>2. m + i - 1 \in 1..Len(s) /\ m + j - 1 \in 1..Len(s)
    BY <1>1, <1>4
  <2>3. s[m + i - 1] = s[m + j - 1]
    BY <1>4, <2>1
  <2>4. m + i - 1 = m + j - 1
    BY <2>2, <2>3 DEF Distinct
  <2>5. QED
    BY <1>1, <2>4
<1>7. Range(b) = {s[k] : k \in m..Len(s)}
  <2>1. ASSUME NEW x \in Range(b) PROVE x \in {s[k] : k \in m..Len(s)}
    <3>1. PICK i \in 1..Len(b) : b[i] = x
      BY <1>2, RangeByPlace
    <3>2. QED
      BY <1>4, <3>1
  <2>2. ASSUME NEW k \in m..Len(s) PROVE s[k] \in Range(b)
    BY <1>2, <1>5, RangeByPlace
  <2>3. QED
    BY <2>1, <2>2
<1>8. QED
  BY <1>2, <1>6, <1>7 DEF b

(* Where k occurs in a list. *)
Occurrences(s, k) == {n \in 1..Len(s) : s[n] = k}

(* Insertion at the head adds an occurrence of the entry, and no other. *)
LEMMA OccurrencesFacts ==
  ASSUME NEW S, NEW s \in Seq(S), NEW e \in S, NEW k
  PROVE  /\ Cardinality(Occurrences(s, k)) \in Nat
         /\ Cardinality(Occurrences(<<e>> \o s, k))
              = Cardinality(Occurrences(s, k)) + (IF e = k THEN 1 ELSE 0)
<1> DEFINE t     == <<e>> \o s
           old   == Occurrences(s, k)
           moved == {n + 1 : n \in old}
           next  == [n \in old |-> n + 1]
<1>1. /\ Len(s) \in Nat /\ Len(t) = Len(s) + 1 /\ t[1] = e
      /\ \A n \in 1..Len(s) : t[n + 1] = s[n]
  OBVIOUS
<1>2. IsFiniteSet(old)
  <2>1. old \in SUBSET (1..Len(s)) /\ IsFiniteSet(1..Len(s))
    BY <1>1, FS_Interval DEF Occurrences
  <2>2. QED
    BY <2>1, FS_Subset
<1>3. ExistsBijection(old, moved)
  <2>1. \A m, n \in old : m + 1 = n + 1 => m = n
    BY <1>1 DEF Occurrences
  <2>2. next \in Bijection(old, moved)
    BY <2>1 DEF Bijection, Injection, Surjection, IsInjective
  <2>3. QED
    BY <2>2 DEF ExistsBijection
<1>4. IsFiniteSet(moved) /\ Cardinality(moved) = Cardinality(old)
  BY <1>2, <1>3, FS_Bijection
<1>5. 1 \notin moved
  BY <1>1 DEF Occurrences
<1>6. Occurrences(t, k) = IF e = k THEN moved \union {1} ELSE moved
  <2> HIDE DEF t
  <2>1. ASSUME NEW m \in Occurrences(t, k), m # 1 PROVE m \in moved
    <3>1. m - 1 \in old /\ m = (m - 1) + 1
      BY <1>1, <2>1 DEF Occurrences
    <3>2. QED
      BY <3>1
  <2>2. ASSUME NEW m \in moved PROVE m \in Occurrences(t, k)
    BY <1>1, <2>2 DEF Occurrences
  <2>3. 1 \in Occurrences(t, k) <=> e = k
    BY <1>1 DEF Occurrences
  <2> HIDE DEF moved
  <2>4. QED
    BY <2>1, <2>2, <2>3, <1>5
<1>7. /\ Cardinality(old) \in Nat
      /\ Cardinality(moved \union {1}) = Cardinality(moved) + 1
  BY <1>2, <1>4, <1>5, FS_CardinalityType, FS_AddElement
<1> HIDE DEF t, moved, old
<1>8. Cardinality(Occurrences(t, k)) = Cardinality(old) + (IF e = k THEN 1 ELSE 0)
  BY <1>4, <1>6, <1>7
<1>9. QED
  BY <1>7, <1>8 DEF t, old
=============================================================================
