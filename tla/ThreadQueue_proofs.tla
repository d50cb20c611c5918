------------------------- MODULE ThreadQueue_proofs -------------------------
(***************************************************************************)
(* Proofs about ThreadQueue: for any messages and bounds, no message is    *)
(* lost or doubled and a pending steer has its goroutine, whatever loads,  *)
(* saves, claims, failed starts and steers overlap; and without steers the *)
(* row holds the turn that runs and each line is served in order.          *)
(***************************************************************************)
EXTENDS ThreadQueue, SequenceTheorems, FiniteSetTheorems, TLAPS

-----------------------------------------------------------------------------
(* Lines *)

\* What a change of a line leaves: a list without repetition, and who is in it.
LEMMA LineAppend ==
  ASSUME NEW S, NEW s \in Seq(S), IsInjective(s), NEW m \in S, m \notin Range(s)
  PROVE  /\ Append(s, m) \in Seq(S) /\ IsInjective(Append(s, m))
         /\ Range(Append(s, m)) = Range(s) \union {m}
<1> DEFINE n == Len(s)
           t == Append(s, m)
<1>1. /\ n \in Nat /\ DOMAIN s = 1..n /\ t \in Seq(S) /\ DOMAIN t = 1..(n + 1)
      /\ \A i \in 1..n : t[i] = s[i]
      /\ t[n + 1] = m
  BY AppendProperties, LenProperties
<1> HIDE DEF n, t
<1>2. \A i \in 1..n : s[i] # m
  BY <1>1 DEF Range
<1>3. IsInjective(t)
  BY <1>1, <1>2 DEF IsInjective
<1>4. Range(t) = Range(s) \union {m}
  BY <1>1 DEF Range
<1> QED
  BY <1>1, <1>3, <1>4 DEF t

LEMMA LineTail ==
  ASSUME NEW S, NEW s \in Seq(S), IsInjective(s), s # <<>>
  PROVE  /\ Tail(s) \in Seq(S) /\ IsInjective(Tail(s))
         /\ Head(s) \in Range(s) /\ Head(s) \in S /\ Range(Tail(s)) = Range(s) \ {Head(s)}
<1> DEFINE n == Len(s)
           t == Tail(s)
<1>1. /\ n \in Nat \ {0} /\ DOMAIN s = 1..n /\ t \in Seq(S) /\ DOMAIN t = 1..(n - 1)
      /\ \A i \in 1..(n - 1) : t[i] = s[i + 1]
      /\ Head(s) = s[1] /\ Head(s) \in S
  BY HeadTailProperties, LenProperties, EmptySeq
<1> HIDE DEF n, t
<1>2. IsInjective(t)
  <2> SUFFICES ASSUME NEW i \in 1..(n - 1), NEW j \in 1..(n - 1), t[i] = t[j]
               PROVE  i = j
    BY <1>1 DEF IsInjective
  <2>1. i + 1 \in 1..n /\ j + 1 \in 1..n /\ s[i + 1] = s[j + 1]
    BY <1>1
  <2>2. i + 1 = j + 1
    BY <1>1, <2>1 DEF IsInjective
  <2> QED
    BY <2>2
<1>3. 1 \in 1..n /\ s[1] \in Range(s)
  BY <1>1 DEF Range
<1>4. ASSUME NEW x \in Range(t) PROVE x \in Range(s) /\ x # s[1]
  <2>1. PICK i \in 1..(n - 1) : x = s[i + 1]
    BY <1>1 DEF Range
  <2>2. i + 1 \in 1..n /\ i + 1 # 1
    BY <1>1
  <2> QED
    BY <1>1, <1>3, <2>1, <2>2 DEF IsInjective, Range
<1>5. ASSUME NEW x \in Range(s), x # s[1] PROVE x \in Range(t)
  <2>1. PICK i \in 1..n : x = s[i]
    BY <1>1 DEF Range
  <2>2. i # 1
    BY <1>5, <2>1
  <2>3. i - 1 \in 1..(n - 1) /\ t[i - 1] = s[(i - 1) + 1] /\ (i - 1) + 1 = i
    BY <1>1, <2>2
  <2> QED
    BY <1>1, <2>1, <2>3 DEF Range
<1> QED
  BY <1>1, <1>2, <1>3, <1>4, <1>5 DEF t

LEMMA RemovedAt ==
  ASSUME NEW S, NEW s \in Seq(S), NEW k \in DOMAIN s
  PROVE  /\ RemoveAt(s, k) \in Seq(S) /\ Len(RemoveAt(s, k)) = Len(s) - 1
         /\ \A i \in 1..(Len(s) - 1) :
              RemoveAt(s, k)[i] = IF i < k THEN s[i] ELSE s[i + 1]
<1> DEFINE n == Len(s)
           a == SubSeq(s, 1, k - 1)
           b == SubSeq(s, k + 1, n)
           t == RemoveAt(s, k)
<1>1. /\ n \in Nat /\ DOMAIN s = 1..n /\ k \in 1..n /\ \A i \in 1..n : s[i] \in S
  BY LenProperties, ElementOfSeq
<1>2. /\ a \in Seq(S) /\ Len(a) = k - 1 /\ \A i \in 1..(k - 1) : a[i] = s[i]
  <2>1. 1 \in Int /\ k - 1 \in Int /\ (\A i \in 1..(k - 1) : s[i] \in S)
        /\ (k - 1) - 1 + 1 = k - 1 /\ (~(1 <= k - 1) => k - 1 = 0)
        /\ \A i \in 1..(k - 1) : 1 + i - 1 = i
    BY <1>1
  <2>2. /\ SubSeq(s, 1, k - 1) \in Seq(S)
        /\ Len(SubSeq(s, 1, k - 1)) = IF 1 <= k - 1 THEN (k - 1) - 1 + 1 ELSE 0
        /\ \A i \in 1..((k - 1) - 1 + 1) : SubSeq(s, 1, k - 1)[i] = s[1 + i - 1]
    BY <2>1, SubSeqProperties
  <2> QED
    BY <2>1, <2>2
<1>3. /\ b \in Seq(S) /\ Len(b) = n - k /\ \A i \in 1..(n - k) : b[i] = s[k + i]
  <2>1. k + 1 \in Int /\ n \in Int /\ (\A i \in (k + 1)..n : s[i] \in S)
        /\ n - (k + 1) + 1 = n - k /\ (~(k + 1 <= n) => n - k = 0)
        /\ \A i \in 1..(n - k) : (k + 1) + i - 1 = k + i
    BY <1>1
  <2>2. /\ SubSeq(s, k + 1, n) \in Seq(S)
        /\ Len(SubSeq(s, k + 1, n)) = IF k + 1 <= n THEN n - (k + 1) + 1 ELSE 0
        /\ \A i \in 1..(n - (k + 1) + 1) : SubSeq(s, k + 1, n)[i] = s[(k + 1) + i - 1]
    BY <2>1, SubSeqProperties
  <2> QED
    BY <2>1, <2>2
<1>4. t = a \o b
  BY DEF RemoveAt
<1> HIDE DEF a, b, t, n
<1>5. /\ t \in Seq(S) /\ Len(t) = n - 1
      /\ \A i \in 1..(n - 1) : t[i] = IF i <= k - 1 THEN a[i] ELSE b[i - (k - 1)]
  <2>1. Len(a) + Len(b) = n - 1 /\ Len(a) = k - 1
    BY <1>1, <1>2, <1>3
  <2>2. /\ a \o b \in Seq(S) /\ Len(a \o b) = Len(a) + Len(b)
        /\ \A i \in 1..(Len(a) + Len(b)) :
             (a \o b)[i] = IF i <= Len(a) THEN a[i] ELSE b[i - Len(a)]
    BY <1>2, <1>3, ConcatProperties
  <2> QED
    BY <1>4, <2>1, <2>2
<1>6. \A i \in 1..(n - 1) : t[i] = IF i < k THEN s[i] ELSE s[i + 1]
  <2> SUFFICES ASSUME NEW i \in 1..(n - 1) PROVE t[i] = IF i < k THEN s[i] ELSE s[i + 1]
    OBVIOUS
  <2>1. CASE i < k
    <3>1. i <= k - 1 /\ i \in 1..(k - 1)
      BY <1>1, <2>1
    <3> QED
      BY <2>1, <3>1, <1>2, <1>5
  <2>2. CASE ~(i < k)
    <3>1. ~(i <= k - 1) /\ i - (k - 1) \in 1..(n - k) /\ k + (i - (k - 1)) = i + 1
      BY <1>1, <2>2
    <3> QED
      BY <2>2, <3>1, <1>3, <1>5
  <2> QED
    BY <2>1, <2>2
<1> QED
  BY <1>5, <1>6 DEF t, n

LEMMA LineRemoveAt ==
  ASSUME NEW S, NEW s \in Seq(S), IsInjective(s), NEW k \in DOMAIN s
  PROVE  /\ RemoveAt(s, k) \in Seq(S) /\ IsInjective(RemoveAt(s, k))
         /\ s[k] \in Range(s) /\ s[k] \in S
         /\ Range(RemoveAt(s, k)) = Range(s) \ {s[k]}
<1> DEFINE n == Len(s)
           t == RemoveAt(s, k)
<1>1. /\ n \in Nat /\ DOMAIN s = 1..n /\ k \in 1..n /\ \A i \in 1..n : s[i] \in S
  BY LenProperties, ElementOfSeq
<1>2. t \in Seq(S) /\ Len(t) = n - 1
  BY RemovedAt
<1>6. \A i \in 1..(n - 1) : t[i] = IF i < k THEN s[i] ELSE s[i + 1]
  BY RemovedAt
<1> HIDE DEF t, n
<1>7. DOMAIN t = 1..(n - 1)
  BY <1>2, LenProperties
<1>8. IsInjective(t)
  <2> SUFFICES ASSUME NEW i \in 1..(n - 1), NEW j \in 1..(n - 1), t[i] = t[j]
               PROVE  i = j
    BY <1>7 DEF IsInjective
  <2>1. i \in 1..n /\ j \in 1..n /\ i + 1 \in 1..n /\ j + 1 \in 1..n
    BY <1>1
  <2>2. \A x, y \in 1..n : s[x] = s[y] => x = y
    BY <1>1 DEF IsInjective
  <2>3. (IF i < k THEN i ELSE i + 1) = (IF j < k THEN j ELSE j + 1)
    BY <1>6, <2>1, <2>2
  <2> QED
    BY <1>1, <2>3
<1>9. Range(t) = Range(s) \ {s[k]}
  <2>1. ASSUME NEW x \in Range(t) PROVE x \in Range(s) /\ x # s[k]
    <3>1. PICK i \in 1..(n - 1) : x = t[i]
      BY <1>7 DEF Range
    <3>2. PICK j \in 1..n : x = s[j] /\ j # k
      <4>1. i \in 1..n /\ i + 1 \in 1..n
        BY <1>1
      <4>2. CASE i < k
        BY <1>1, <1>6, <3>1, <4>1, <4>2
      <4>3. CASE ~(i < k)
        <5>1. x = s[i + 1] /\ i + 1 # k
          BY <1>1, <1>6, <3>1, <4>3
        <5> QED
          BY <4>1, <5>1
      <4> QED
        BY <4>2, <4>3
    <3> QED
      BY <1>1, <3>2 DEF Range, IsInjective
  <2>2. ASSUME NEW x \in Range(s), x # s[k] PROVE x \in Range(t)
    <3>1. PICK j \in 1..n : x = s[j] /\ j # k
      BY <1>1, <2>2 DEF Range
    <3>2. PICK i \in 1..(n - 1) : t[i] = s[j]
      <4>1. CASE j < k
        <5>1. j \in 1..(n - 1)
          BY <1>1, <4>1
        <5> QED
          BY <1>6, <4>1, <5>1
      <4>2. CASE j > k
        <5>1. j - 1 \in 1..(n - 1) /\ ~(j - 1 < k) /\ (j - 1) + 1 = j
          BY <1>1, <4>2
        <5> QED
          BY <1>6, <5>1
      <4> QED
        BY <1>1, <3>1, <4>1, <4>2
    <3> QED
      BY <1>7, <3>1, <3>2 DEF Range
  <2> QED
    BY <2>1, <2>2
<1> QED
  BY <1>1, <1>2, <1>8, <1>9 DEF t, Range

LEMMA LineInsertAt ==
  ASSUME NEW S, NEW s \in Seq(S), IsInjective(s), NEW m \in S, m \notin Range(s),
         NEW k \in 1..(Len(s) + 1)
  PROVE  /\ InsertAt(s, k, m) \in Seq(S) /\ IsInjective(InsertAt(s, k, m))
         /\ Range(InsertAt(s, k, m)) = Range(s) \union {m}
<1> DEFINE n == Len(s)
           a == SubSeq(s, 1, k - 1)
           b == SubSeq(s, k, n)
           c == a \o <<m>>
           t == InsertAt(s, k, m)
<1>1. /\ n \in Nat /\ DOMAIN s = 1..n /\ k \in 1..(n + 1) /\ \A i \in 1..n : s[i] \in S
  BY LenProperties, ElementOfSeq
<1>2. /\ a \in Seq(S) /\ Len(a) = k - 1 /\ \A i \in 1..(k - 1) : a[i] = s[i]
  <2>1. 1 \in Int /\ k - 1 \in Int /\ (\A i \in 1..(k - 1) : s[i] \in S)
        /\ (k - 1) - 1 + 1 = k - 1 /\ (~(1 <= k - 1) => k - 1 = 0)
        /\ \A i \in 1..(k - 1) : 1 + i - 1 = i
    BY <1>1
  <2>2. /\ SubSeq(s, 1, k - 1) \in Seq(S)
        /\ Len(SubSeq(s, 1, k - 1)) = IF 1 <= k - 1 THEN (k - 1) - 1 + 1 ELSE 0
        /\ \A i \in 1..((k - 1) - 1 + 1) : SubSeq(s, 1, k - 1)[i] = s[1 + i - 1]
    BY <2>1, SubSeqProperties
  <2> QED
    BY <2>1, <2>2
<1>3. /\ b \in Seq(S) /\ Len(b) = n - k + 1 /\ \A i \in 1..(n - k + 1) : b[i] = s[k + i - 1]
  <2>1. k \in Int /\ n \in Int /\ (\A i \in k..n : s[i] \in S)
        /\ (~(k <= n) => n - k + 1 = 0)
    BY <1>1
  <2>2. /\ SubSeq(s, k, n) \in Seq(S)
        /\ Len(SubSeq(s, k, n)) = IF k <= n THEN n - k + 1 ELSE 0
        /\ \A i \in 1..(n - k + 1) : SubSeq(s, k, n)[i] = s[k + i - 1]
    BY <2>1, SubSeqProperties
  <2> QED
    BY <2>1, <2>2
<1>4. t = c \o b
  BY DEF InsertAt
<1> HIDE DEF a, b, t, n
<1>5. /\ <<m>> \in Seq(S) /\ Len(<<m>>) = 1 /\ <<m>>[1] = m
  OBVIOUS
<1>6. /\ c \in Seq(S) /\ Len(c) = k
      /\ \A i \in 1..(k - 1) : c[i] = a[i]
      /\ c[k] = m
  <2>1. /\ a \o <<m>> \in Seq(S) /\ Len(a \o <<m>>) = Len(a) + Len(<<m>>)
        /\ \A i \in 1..(Len(a) + Len(<<m>>)) :
             (a \o <<m>>)[i] = IF i <= Len(a) THEN a[i] ELSE <<m>>[i - Len(a)]
    BY <1>2, <1>5, ConcatProperties
  <2>2. Len(a) + Len(<<m>>) = k /\ Len(a) = k - 1 /\ k - (k - 1) = 1 /\ k \in 1..k
        /\ ~(k <= k - 1) /\ \A i \in 1..(k - 1) : i \in 1..k /\ i <= k - 1
    BY <1>1, <1>2, <1>5
  <2> QED
    BY <1>5, <2>1, <2>2
<1> HIDE DEF c
<1>7. /\ t \in Seq(S) /\ Len(t) = n + 1
      /\ \A i \in 1..(n + 1) : t[i] = IF i <= k THEN c[i] ELSE b[i - k]
  <2>1. /\ c \o b \in Seq(S) /\ Len(c \o b) = Len(c) + Len(b)
        /\ \A i \in 1..(Len(c) + Len(b)) :
             (c \o b)[i] = IF i <= Len(c) THEN c[i] ELSE b[i - Len(c)]
    BY <1>3, <1>6, ConcatProperties
  <2>2. Len(c) + Len(b) = n + 1
    BY <1>1, <1>3, <1>6
  <2> QED
    BY <1>4, <1>6, <2>1, <2>2
<1>8. /\ \A i \in 1..(k - 1) : t[i] = s[i]
      /\ t[k] = m
      /\ \A i \in (k + 1)..(n + 1) : t[i] = s[i - 1]
  <2>1. ASSUME NEW i \in 1..(k - 1) PROVE t[i] = s[i]
    <3>1. i \in 1..(n + 1) /\ i <= k
      BY <1>1
    <3> QED
      BY <3>1, <1>2, <1>6, <1>7
  <2>2. k \in 1..(n + 1) /\ k <= k
    BY <1>1
  <2>3. ASSUME NEW i \in (k + 1)..(n + 1) PROVE t[i] = s[i - 1]
    <3>1. i \in 1..(n + 1) /\ ~(i <= k) /\ i - k \in 1..(n - k + 1) /\ k + (i - k) - 1 = i - 1
      BY <1>1
    <3> QED
      BY <3>1, <1>3, <1>7
  <2> QED
    BY <1>6, <1>7, <2>1, <2>2, <2>3
<1>9. DOMAIN t = 1..(n + 1)
  BY <1>7, LenProperties
<1>10. \A i \in 1..n : s[i] # m
  BY <1>1 DEF Range
<1>11. \A i \in 1..(n + 1) : IF i = k THEN t[i] = m
                             ELSE /\ (IF i < k THEN i ELSE i - 1) \in 1..n
                                  /\ t[i] = s[IF i < k THEN i ELSE i - 1]
  <2> SUFFICES ASSUME NEW i \in 1..(n + 1), i # k
               PROVE  /\ (IF i < k THEN i ELSE i - 1) \in 1..n
                      /\ t[i] = s[IF i < k THEN i ELSE i - 1]
    BY <1>8
  <2>1. CASE i < k
    <3>1. i \in 1..(k - 1) /\ i \in 1..n
      BY <1>1, <2>1
    <3> QED
      BY <1>8, <2>1, <3>1
  <2>2. CASE ~(i < k)
    <3>1. i \in (k + 1)..(n + 1) /\ i - 1 \in 1..n
      BY <1>1, <2>2
    <3> QED
      BY <1>8, <2>2, <3>1
  <2> QED
    BY <2>1, <2>2
<1>12. IsInjective(t)
  <2> SUFFICES ASSUME NEW i \in 1..(n + 1), NEW j \in 1..(n + 1), t[i] = t[j]
               PROVE  i = j
    BY <1>9 DEF IsInjective
  <2>1. \A x, y \in 1..n : s[x] = s[y] => x = y
    BY <1>1 DEF IsInjective
  <2>2. CASE i = k \/ j = k
    BY <1>10, <1>11, <2>2
  <2>3. CASE i # k /\ j # k
    <3>1. (IF i < k THEN i ELSE i - 1) = (IF j < k THEN j ELSE j - 1)
      BY <1>11, <2>1, <2>3
    <3> QED
      BY <1>1, <2>3, <3>1
  <2> QED
    BY <2>2, <2>3
<1>13. Range(t) = Range(s) \union {m}
  <2>1. ASSUME NEW x \in Range(t) PROVE x \in Range(s) \union {m}
    <3>1. PICK i \in 1..(n + 1) : x = t[i]
      BY <1>9 DEF Range
    <3> QED
      BY <1>1, <1>11, <3>1 DEF Range
  <2>2. ASSUME NEW x \in Range(s) PROVE x \in Range(t)
    <3>1. PICK j \in 1..n : x = s[j]
      BY <1>1 DEF Range
    <3>2. PICK i \in 1..(n + 1) : t[i] = s[j]
      <4>1. CASE j < k
        <5>1. j \in 1..(k - 1) /\ j \in 1..(n + 1)
          BY <1>1, <4>1
        <5> QED
          BY <1>8, <5>1
      <4>2. CASE ~(j < k)
        <5>1. j + 1 \in (k + 1)..(n + 1) /\ (j + 1) - 1 = j /\ j + 1 \in 1..(n + 1)
          BY <1>1, <4>2
        <5> QED
          BY <1>8, <5>1
      <4> QED
        BY <4>1, <4>2
    <3> QED
      BY <1>9, <3>1, <3>2 DEF Range
  <2>3. m \in Range(t)
    <3>1. k \in DOMAIN t
      BY <1>1, <1>9
    <3> QED
      BY <1>8, <3>1 DEF Range
  <2> QED
    BY <2>1, <2>2, <2>3
<1> QED
  BY <1>7, <1>12, <1>13 DEF t

LEMMA LineRestored ==
  ASSUME NEW S, NEW s \in Seq(S), IsInjective(s), NEW m \in S, m \notin Range(s),
         NEW at \in Nat \ {0}
  PROVE  /\ Restored(s, at, m) \in Seq(S) /\ IsInjective(Restored(s, at, m))
         /\ Range(Restored(s, at, m)) = Range(s) \union {m}
<1> DEFINE k == IF at > Len(s) THEN Len(s) + 1 ELSE at
<1>1. k \in 1..(Len(s) + 1)
  BY LenProperties
<1>2. Restored(s, at, m) = InsertAt(s, k, m)
  BY DEF Restored
<1> HIDE DEF k
<1> QED
  BY <1>1, <1>2, LineInsertAt

\* A reordered line is a list of the same messages.
LEMMA LineReordered ==
  ASSUME NEW S, NEW s \in Seq(S), IsInjective(s), NEW t \in SetToSeqs(Range(s))
  PROVE  t \in Seq(S) /\ IsInjective(t) /\ Range(t) = Range(s)
<1> DEFINE n == Len(s)
           R == Range(s)
           d == Cardinality(R)
<1>1. /\ n \in Nat /\ DOMAIN s = 1..n /\ s \in [1..n -> S]
  BY LenProperties
<1>2. R \subseteq S
  BY <1>1 DEF Range
<1>3. s \in Surjection(1..n, R)
  BY <1>1 DEF Surjection, Range
<1>4. IsFiniteSet(1..n)
  BY <1>1, FS_Interval
<1>5. IsFiniteSet(R)
  BY <1>3, <1>4, FS_Surjection
<1>6. d \in Nat
  BY <1>5, FS_CardinalityType
<1>7. t \in [1..d -> R] /\ \A i, j \in 1..d : i # j => t[i] # t[j]
  BY DEF SetToSeqs
<1> HIDE DEF R, d, n
<1>8. IsInjective(t)
  BY <1>7 DEF IsInjective
<1>9. t \in Injection(1..d, R)
  BY <1>7 DEF Injection, IsInjective
<1>10. IsFiniteSet(1..d) /\ Cardinality(1..d) = Cardinality(R)
  BY <1>6, FS_Interval DEF d
<1>11. t \in Surjection(1..d, R)
  BY <1>5, <1>9, <1>10, FS_Injection
<1>12. Range(t) = R
  BY <1>7, <1>11 DEF Surjection, Range
<1>13. t \in Seq(S)
  <2>1. t \in [1..d -> S]
    BY <1>2, <1>7
  <2> QED
    BY <1>6, <2>1, SeqDef
<1> QED
  BY <1>8, <1>12, <1>13 DEF R

LEMMA OccursOnce ==
  ASSUME NEW s, IsInjective(s), NEW m
  PROVE  Occurrences(m, s) = IF m \in Range(s) THEN 1 ELSE 0
<1> DEFINE I == {i \in DOMAIN s : s[i] = m}
<1>1. CASE m \in Range(s)
  <2>1. PICK i \in DOMAIN s : s[i] = m
    BY <1>1 DEF Range
  <2>2. I = {i}
    BY <2>1 DEF IsInjective
  <2>3. Cardinality({i}) = 1
    BY FS_Singleton
  <2> HIDE DEF I
  <2>4. Cardinality(I) = 1
    BY <2>2, <2>3
  <2> QED
    BY <1>1, <2>4 DEF Occurrences, I
<1>2. CASE m \notin Range(s)
  <2>1. I = {}
    BY <1>2 DEF Range
  <2>2. Cardinality({}) = 0
    BY FS_EmptySet
  <2> HIDE DEF I
  <2>3. Cardinality(I) = 0
    BY <2>1, <2>2
  <2> QED
    BY <1>2, <2>3 DEF Occurrences, I
<1> QED
  BY <1>1, <1>2

-----------------------------------------------------------------------------
(* The inductive invariant *)

Waits(r) == Range(r.public) \union Range(r.internal)

Distinct(r) == IsInjective(r.public) /\ IsInjective(r.internal)

\* NoMessageLost, message by message and without counting.
Conserved ==
  \A m \in Messages :
    /\ m \in accepted <=> (m \in Waits(row) \/ Carried(m) \/ begun[m] = 1 \/ m \in withdrawn)
    /\ begun[m] \in {0, 1}
    /\ m \in Waits(row) => ~Carried(m) /\ begun[m] = 0 /\ m \notin withdrawn
    /\ Carried(m) => begun[m] = 0 /\ m \notin withdrawn
    /\ begun[m] = 1 => m \notin withdrawn
    /\ Step(m) = "direct" => m \notin accepted
    /\ Step(m) = "clear" => begun[m] = 1

\* What the bounds leave room for when the holder saves.
Bounds ==
  /\ lock.op \in {"append", "edit", "delete"} => drains < MaxDrains
  /\ lock.op = "edit" => edits < MaxEdits

\* The row the holder is about to save still fits the row that is stored:
\* nothing else touched the lines, and the message has not moved on.
LockFits ==
  /\ Distinct(row) /\ Distinct(lock.row)
  /\ lock.op = "free" => lock = Free
  /\ lock.op \in {"edit", "title", "direct", "clear"} => Waits(lock.row) = Waits(row)
  /\ lock.op \in {"append", "put back"} => Waits(lock.row) = Waits(row) \union {lock.msg}
  /\ lock.op \in {"delete", "steer", "restart"} =>
       lock.msg \in Public /\ lock.msg \in Waits(row) /\ Waits(lock.row) = Waits(row) \ {lock.msg}
  /\ lock.op \in {"append", "direct"} =>
       lock.msg \in Public /\ lock.msg \notin accepted /\ Step(lock.msg) = "none"
  /\ lock.op \in {"put back", "clear"} => lock.msg \in Messages /\ Step(lock.msg) = lock.op

\* So does what it holds of the pending steer.
SteerFits ==
  /\ lock.op \in {"append", "edit", "delete", "title", "direct"} => lock.row.steer = row.steer
  /\ lock.op \in {"steer", "restart"} => lock.row.steer = lock.msg
  /\ lock.op \in {"put back", "clear"} => lock.row.steer = None

QueueInv == TypeOK /\ Conserved /\ Bounds /\ LockFits /\ SteerFits /\ PendingSteerCarried

-----------------------------------------------------------------------------
(* Records *)

LEMMA RowFields ==
  ASSUME NEW r \in Rows
  PROVE  /\ r.status \in {"idle", "running", "error"} /\ r.turn \in MaybeMessage
         /\ r.public \in Seq(Public) /\ r.internal \in Seq(Internal) /\ r.steer \in MaybeMessage
BY DEF Rows

LEMMA PublicSet ==
  ASSUME NEW q \in Rows, NEW s \in Seq(Public), NEW r, r = [q EXCEPT !.public = s]
  PROVE  /\ r \in Rows /\ r.public = s /\ r.internal = q.internal
         /\ r.steer = q.steer /\ r.status = q.status /\ r.turn = q.turn
BY DEF Rows

LEMMA InternalSet ==
  ASSUME NEW q \in Rows, NEW s \in Seq(Internal), NEW r, r = [q EXCEPT !.internal = s]
  PROVE  /\ r \in Rows /\ r.internal = s /\ r.public = q.public
         /\ r.steer = q.steer /\ r.status = q.status /\ r.turn = q.turn
BY DEF Rows

LEMMA StatusSet ==
  ASSUME NEW q \in Rows, NEW s \in {"idle", "running", "error"}, NEW r, r = [q EXCEPT !.status = s]
  PROVE  /\ r \in Rows /\ r.public = q.public /\ r.internal = q.internal
         /\ r.steer = q.steer /\ r.status = s /\ r.turn = q.turn
BY DEF Rows

LEMMA TurnSet ==
  ASSUME NEW q \in Rows, NEW t \in MaybeMessage, NEW r, r = [q EXCEPT !.turn = t]
  PROVE  /\ r \in Rows /\ r.public = q.public /\ r.internal = q.internal
         /\ r.steer = q.steer /\ r.status = q.status /\ r.turn = t
BY DEF Rows

LEMMA SteerSet ==
  ASSUME NEW q \in Rows, NEW t \in MaybeMessage, NEW r, r = [q EXCEPT !.steer = t]
  PROVE  /\ r \in Rows /\ r.public = q.public /\ r.internal = q.internal
         /\ r.steer = t /\ r.status = q.status /\ r.turn = q.turn
BY DEF Rows

\* A status write keeps the turn of a running thread only.
LEMMA StatusWritten ==
  ASSUME row \in Rows, NEW s \in {"idle", "running", "error"}, UpdateSessionStatus(s)
  PROVE  /\ row' \in Rows /\ row'.public = row.public /\ row'.internal = row.internal
         /\ row'.steer = row.steer /\ row'.status = s
         /\ row'.turn = IF s = "running" THEN row.turn ELSE None
<1> DEFINE t == IF s = "running" THEN row.turn ELSE None
<1>1. t \in MaybeMessage
  BY RowFields DEF MaybeMessage
<1>2. row' = [row EXCEPT !.status = s, !.turn = t]
  BY DEF UpdateSessionStatus
<1> HIDE DEF t
<1>3. /\ row' \in Rows /\ row'.public = row.public /\ row'.internal = row.internal
      /\ row'.steer = row.steer /\ row'.status = s /\ row'.turn = t
  BY <1>1, <1>2 DEF Rows
<1> QED
  BY <1>3 DEF t

LEMMA SessionSaved ==
  ASSUME row \in Rows, NEW q \in Rows, SaveSession(q)
  PROVE  /\ row' \in Rows /\ row'.public = q.public /\ row'.internal = q.internal
         /\ row'.steer = q.steer /\ row'.status = q.status
         /\ row'.turn = IF q.status = "running" THEN row.turn ELSE None
<1> DEFINE t == IF q.status = "running" THEN row.turn ELSE None
<1>1. t \in MaybeMessage
  BY RowFields DEF MaybeMessage
<1>2. row' = [q EXCEPT !.turn = t]
  BY DEF SaveSession
<1> HIDE DEF t
<1>3. /\ row' \in Rows /\ row'.public = q.public /\ row'.internal = q.internal
      /\ row'.steer = q.steer /\ row'.status = q.status /\ row'.turn = t
  BY <1>1, <1>2, TurnSet
<1> QED
  BY <1>3 DEF t

LEMMA NoRunnerFields ==
  NoRunner \in Runners /\ NoRunner.step = "none"
<1>1. 1 \in Nat \ {0} /\ "none" \in Steps
  BY DEF Steps
<1> QED
  BY <1>1 DEF NoRunner, Runners

LEMMA RunnerSet ==
  ASSUME runner \in [Messages -> Runners], NEW m \in Messages, NEW x \in Runners,
         runner' = [runner EXCEPT ![m] = x]
  PROVE  /\ runner' \in [Messages -> Runners]
         /\ \A n \in Messages : Step(n)' = IF n = m THEN x.step ELSE Step(n)
BY DEF Step

LEMMA Becomes ==
  ASSUME runner \in [Messages -> Runners], NEW m \in Messages, NEW s \in Steps, Become(m, s)
  PROVE  /\ runner' \in [Messages -> Runners]
         /\ \A n \in Messages : Step(n)' = IF n = m THEN s ELSE Step(n)
<1>1. NoRunner \in Runners /\ NoRunner.step = "none"
  BY NoRunnerFields
<1>2. CASE s = "none"
  <2>1. runner' = [runner EXCEPT ![m] = NoRunner]
    BY <1>2 DEF Become
  <2> QED
    BY <1>1, <1>2, <2>1, RunnerSet
<1>3. CASE s # "none"
  <2> DEFINE x == [runner[m] EXCEPT !.step = s]
  <2>1. runner[m] \in Runners
    OBVIOUS
  <2>2. x \in Runners /\ x.step = s
    BY <2>1 DEF Runners
  <2>3. runner' = [runner EXCEPT ![m] = x]
    BY <1>3 DEF Become
  <2> HIDE DEF x
  <2> QED
    BY <2>2, <2>3, RunnerSet
<1> QED
  BY <1>2, <1>3

LEMMA JobEnds ==
  ASSUME job \in Jobs, NEW e \in {"idle", "failed", "cancelled"},
         job' = [job EXCEPT !.phase = "finishing", !.ending = e]
  PROVE  job' \in Jobs /\ job'.phase = "finishing" /\ job'.msg = job.msg
BY DEF Jobs

LEMMA JobWithoutTurn ==
  ASSUME NEW p \in {"absent", "idle", "draining"}
  PROVE  NoTurn(p) \in Jobs /\ NoTurn(p).phase = p
BY DEF NoTurn, Jobs, MaybeMessage

LEMMA FreeFits ==
  /\ Free \in Locks /\ Free.op = "free" /\ Distinct(Free.row) /\ Free.row = EmptyRow
  /\ EmptyRow \in Rows /\ Waits(EmptyRow) = {} /\ Distinct(EmptyRow)
  /\ EmptyRow.steer = None
<1>1. EmptyRow \in Rows
  BY DEF EmptyRow, Rows, MaybeMessage
<1>2. EmptyRow.public = <<>> /\ EmptyRow.internal = <<>> /\ EmptyRow.steer = None
  BY DEF EmptyRow
<1>3. Range(<<>>) = {} /\ IsInjective(<<>>)
  BY DEF Range, IsInjective
<1>4. Free.row = EmptyRow /\ Free.op = "free"
  BY DEF Free
<1>5. Free \in Locks
  BY <1>1 DEF Free, Locks, Ops, MaybeMessage
<1> QED
  BY <1>1, <1>2, <1>3, <1>4, <1>5 DEF Waits, Distinct

LEMMA LockFields ==
  ASSUME lock \in Locks
  PROVE  /\ lock.op \in Ops /\ lock.msg \in MaybeMessage /\ lock.at \in Nat \ {0}
         /\ lock.row \in Rows
BY DEF Locks

-----------------------------------------------------------------------------
(* Loads: only the lock changes, and what it holds fits the row. *)

LEMMA Loaded ==
  ASSUME QueueInv, UNCHANGED <<row, runner, job, drains, history>>,
         NEW o \in Ops \ {"free"}, NEW m \in MaybeMessage, NEW at \in Nat \ {0},
         NEW r \in Rows, Hold(o, m, at, r), Distinct(r),
         o \in {"append", "edit", "delete"} => drains < MaxDrains,
         o = "edit" => edits < MaxEdits,
         o \in {"edit", "title", "direct", "clear"} => Waits(r) = Waits(row),
         o \in {"append", "put back"} => Waits(r) = Waits(row) \union {m},
         o \in {"delete", "steer", "restart"} =>
           m \in Public /\ m \in Waits(row) /\ Waits(r) = Waits(row) \ {m},
         o \in {"append", "direct"} => m \in Public /\ m \notin accepted /\ Step(m) = "none",
         o \in {"put back", "clear"} => m \in Messages /\ Step(m) = o,
         o \in {"append", "edit", "delete", "title", "direct"} => r.steer = row.steer,
         o \in {"steer", "restart"} => r.steer = m,
         o \in {"put back", "clear"} => r.steer = None
  PROVE  QueueInv'
<1>1. lock' = [op |-> o, msg |-> m, at |-> at, row |-> r]
  BY DEF Hold
<1>2. /\ lock'.op = o /\ lock'.msg = m /\ lock'.row = r
      /\ lock' \in Locks
  BY <1>1 DEF Locks
<1>3. /\ row' = row /\ runner' = runner /\ job' = job /\ drains' = drains /\ accepted' = accepted
      /\ begun' = begun /\ withdrawn' = withdrawn /\ edits' = edits /\ parked' = parked
  BY DEF history
<1>4. \A n : Step(n)' = Step(n)
  BY <1>3 DEF Step
<1>5. TypeOK'
  BY <1>2, <1>3 DEF QueueInv, TypeOK
<1>6. Conserved'
  BY <1>3, <1>4 DEF QueueInv, Conserved, Carried
<1>7. Bounds'
  BY <1>2, <1>3 DEF Bounds
<1>8. LockFits'
  <2>1. Distinct(row') /\ Distinct(lock'.row)
    BY <1>2, <1>3 DEF QueueInv, LockFits
  <2> QED
    BY <1>2, <1>3, <1>4, <2>1 DEF LockFits
<1>9. SteerFits'
  BY <1>2, <1>3 DEF SteerFits
<1>10. PendingSteerCarried'
  BY <1>3, <1>4 DEF QueueInv, PendingSteerCarried
<1> QED
  BY <1>5, <1>6, <1>7, <1>8, <1>9, <1>10 DEF QueueInv

\* The public line of the row, and what the public and the internal line share.
LEMMA RowLines ==
  ASSUME QueueInv
  PROVE  /\ row \in Rows /\ IsInjective(row.public) /\ IsInjective(row.internal)
         /\ row.public \in Seq(Public) /\ row.internal \in Seq(Internal)
         /\ row.steer \in MaybeMessage /\ row.status \in {"idle", "running", "error"}
         /\ Range(row.public) \subseteq Public /\ Range(row.internal) \subseteq Internal
         /\ Waits(row) \subseteq Messages
         /\ Range(row.public) \cap Range(row.internal) = {}
         /\ Waits(row) = Range(row.public) \union Range(row.internal)
<1>1. row \in Rows /\ IsInjective(row.public) /\ IsInjective(row.internal)
  BY DEF QueueInv, TypeOK, LockFits, Distinct
<1>2. /\ row.public \in Seq(Public) /\ row.internal \in Seq(Internal)
      /\ row.steer \in MaybeMessage /\ row.status \in {"idle", "running", "error"}
  BY <1>1, RowFields
<1>3. \A i \in DOMAIN row.public : row.public[i] \in Public
  BY <1>2, ElementOfSeq, LenProperties
<1>4. \A i \in DOMAIN row.internal : row.internal[i] \in Internal
  BY <1>2, ElementOfSeq, LenProperties
<1>5. Range(row.public) \subseteq Public /\ Range(row.internal) \subseteq Internal
  BY <1>3, <1>4 DEF Range
<1> QED
  BY <1>1, <1>2, <1>5, MessagesDisjoint DEF Waits, Messages

LEMMA StepFresh ==
  ASSUME QueueInv, NEW m \in Messages, Fresh(m)
  PROVE  m \notin accepted /\ Step(m) = "none" /\ lock.msg # m /\ m \notin Waits(row)
         /\ begun[m] = 0 /\ m \notin withdrawn
BY DEF QueueInv, Fresh, Conserved

LEMMA LoadAppendStep ==
  ASSUME QueueInv, NEW m \in Public, LoadAppend(m)
  PROVE  QueueInv'
<1> DEFINE s == Append(row.public, m)
           r == [row EXCEPT !.public = s]
<1>1. m \in Messages /\ Fresh(m) /\ drains < MaxDrains
  BY DEF LoadAppend, Messages
<1>2. m \notin accepted /\ Step(m) = "none" /\ m \notin Range(row.public)
  BY <1>1, StepFresh, RowLines
<1>3. s \in Seq(Public) /\ IsInjective(s) /\ Range(s) = Range(row.public) \union {m}
  BY <1>2, RowLines, LineAppend
<1>4. Hold("append", m, 1, r) /\ UNCHANGED <<row, runner, job, drains, history>>
  BY DEF LoadAppend
<1> HIDE DEF s
<1>5. r \in Rows /\ r.public = s /\ r.internal = row.internal /\ r.steer = row.steer
  BY <1>3, RowLines, PublicSet
<1> HIDE DEF r
<1>6. Distinct(r) /\ Waits(r) = Waits(row) \union {m}
  BY <1>3, <1>5, RowLines DEF Distinct, Waits
<1>7. m \in MaybeMessage /\ "append" \in Ops \ {"free"} /\ 1 \in Nat \ {0}
  BY <1>1 DEF MaybeMessage, Ops
<1> QED
  BY <1>1, <1>2, <1>4, <1>5, <1>6, <1>7, Loaded

LEMMA LoadReorderStep ==
  ASSUME QueueInv, LoadReorder
  PROVE  QueueInv'
<1>1. PICK s \in SetToSeqs(Range(row.public)) : Hold("edit", None, 1, [row EXCEPT !.public = s])
  BY DEF LoadReorder
<1> DEFINE r == [row EXCEPT !.public = s]
<1>2. drains < MaxDrains /\ edits < MaxEdits /\ UNCHANGED <<row, runner, job, drains, history>>
  BY DEF LoadReorder
<1>3. s \in Seq(Public) /\ IsInjective(s) /\ Range(s) = Range(row.public)
  BY RowLines, LineReordered
<1>4. r \in Rows /\ r.public = s /\ r.internal = row.internal /\ r.steer = row.steer
  BY <1>3, RowLines, PublicSet
<1>5. Hold("edit", None, 1, r)
  BY <1>1
<1> HIDE DEF r
<1>6. Distinct(r) /\ Waits(r) = Waits(row)
  BY <1>3, <1>4, RowLines DEF Distinct, Waits
<1>7. None \in MaybeMessage /\ "edit" \in Ops \ {"free"} /\ 1 \in Nat \ {0}
  BY DEF MaybeMessage, Ops
<1> QED
  BY <1>2, <1>4, <1>5, <1>6, <1>7, Loaded

\* Taking a public message out of its line.
LEMMA TakenOut ==
  ASSUME QueueInv, NEW i \in DOMAIN row.public
  PROVE  /\ row.public[i] \in Public /\ row.public[i] \in Waits(row)
         /\ RemoveAt(row.public, i) \in Seq(Public) /\ IsInjective(RemoveAt(row.public, i))
         /\ Range(RemoveAt(row.public, i)) \union Range(row.internal) = Waits(row) \ {row.public[i]}
<1>1. /\ RemoveAt(row.public, i) \in Seq(Public) /\ IsInjective(RemoveAt(row.public, i))
      /\ row.public[i] \in Range(row.public) /\ row.public[i] \in Public
      /\ Range(RemoveAt(row.public, i)) = Range(row.public) \ {row.public[i]}
  BY RowLines, LineRemoveAt
<1> QED
  BY <1>1, RowLines

LEMMA LoadDeleteStep ==
  ASSUME QueueInv, LoadDelete
  PROVE  QueueInv'
<1>1. PICK i \in DOMAIN row.public :
        Hold("delete", row.public[i], 1, [row EXCEPT !.public = RemoveAt(row.public, i)])
  BY DEF LoadDelete
<1> DEFINE s == RemoveAt(row.public, i)
           m == row.public[i]
           r == [row EXCEPT !.public = s]
<1>2. drains < MaxDrains /\ UNCHANGED <<row, runner, job, drains, history>>
  BY DEF LoadDelete
<1>3. /\ m \in Public /\ m \in Waits(row) /\ s \in Seq(Public) /\ IsInjective(s)
      /\ Range(s) \union Range(row.internal) = Waits(row) \ {m}
  BY TakenOut
<1>4. Hold("delete", m, 1, r)
  BY <1>1
<1> HIDE DEF s, m
<1>5. r \in Rows /\ r.public = s /\ r.internal = row.internal /\ r.steer = row.steer
  BY <1>3, RowLines, PublicSet
<1> HIDE DEF r
<1>6. Distinct(r) /\ Waits(r) = Waits(row) \ {m}
  BY <1>3, <1>5, RowLines DEF Distinct, Waits
<1>7. m \in MaybeMessage /\ "delete" \in Ops \ {"free"} /\ 1 \in Nat \ {0}
  BY <1>3 DEF MaybeMessage, Messages, Ops
<1> QED
  BY <1>2, <1>3, <1>4, <1>5, <1>6, <1>7, Loaded

LEMMA LoadTitleStep ==
  ASSUME QueueInv, LoadTitle
  PROVE  QueueInv'
<1>1. Hold("title", None, 1, row) /\ UNCHANGED <<row, runner, job, drains, history>>
  BY DEF LoadTitle
<1>2. row \in Rows /\ Distinct(row)
  BY RowLines DEF Distinct
<1>3. None \in MaybeMessage /\ "title" \in Ops \ {"free"} /\ 1 \in Nat \ {0}
  BY DEF MaybeMessage, Ops
<1> QED
  BY <1>1, <1>2, <1>3, Loaded

LEMMA LoadDirectStep ==
  ASSUME QueueInv, NEW m \in Public, LoadDirect(m)
  PROVE  QueueInv'
<1> DEFINE r == [row EXCEPT !.status = "running"]
<1>1. m \in Messages /\ Fresh(m)
  BY DEF LoadDirect, Messages
<1>2. m \notin accepted /\ Step(m) = "none"
  BY <1>1, StepFresh
<1>3. Hold("direct", m, 1, r) /\ UNCHANGED <<row, runner, job, drains, history>>
  BY DEF LoadDirect
<1>4. r \in Rows /\ r.public = row.public /\ r.internal = row.internal /\ r.steer = row.steer
  BY RowLines, StatusSet
<1> HIDE DEF r
<1>5. Distinct(r) /\ Waits(r) = Waits(row)
  BY <1>4, RowLines DEF Distinct, Waits
<1>6. m \in MaybeMessage /\ "direct" \in Ops \ {"free"} /\ 1 \in Nat \ {0}
  BY <1>1 DEF MaybeMessage, Ops
<1> QED
  BY <1>2, <1>3, <1>4, <1>5, <1>6, Loaded

\* The message goes back into its line at the place its goroutine kept.
LEMMA PutBack ==
  ASSUME QueueInv, NEW m \in Messages, m \notin Waits(row), NEW at \in Nat \ {0}
  PROVE  LET q == WithRestored(row, at, m)
         IN  /\ q \in Rows /\ q.steer = row.steer /\ q.status = row.status
             /\ Distinct(q) /\ Waits(q) = Waits(row) \union {m}
<1>1. m \notin Range(row.public) /\ m \notin Range(row.internal)
  BY RowLines
<1>2. CASE m \in Public
  <2> DEFINE s == Restored(row.public, at, m)
             q == [row EXCEPT !.public = s]
  <2>1. s \in Seq(Public) /\ IsInjective(s) /\ Range(s) = Range(row.public) \union {m}
    BY <1>1, <1>2, RowLines, LineRestored
  <2>2. WithRestored(row, at, m) = q
    BY <1>2 DEF WithRestored
  <2> HIDE DEF s
  <2>3. /\ q \in Rows /\ q.public = s /\ q.internal = row.internal
        /\ q.steer = row.steer /\ q.status = row.status
    BY <2>1, RowLines, PublicSet
  <2> HIDE DEF q
  <2> QED
    BY <2>1, <2>2, <2>3, RowLines DEF Distinct, Waits
<1>3. CASE m \notin Public
  <2> DEFINE s == Restored(row.internal, at, m)
             q == [row EXCEPT !.internal = s]
  <2>0. m \in Internal
    BY <1>3 DEF Messages
  <2>1. s \in Seq(Internal) /\ IsInjective(s) /\ Range(s) = Range(row.internal) \union {m}
    BY <1>1, <2>0, RowLines, LineRestored
  <2>2. WithRestored(row, at, m) = q
    BY <1>3 DEF WithRestored
  <2> HIDE DEF s
  <2>3. /\ q \in Rows /\ q.internal = s /\ q.public = row.public
        /\ q.steer = row.steer /\ q.status = row.status
    BY <2>1, RowLines, InternalSet
  <2> HIDE DEF q
  <2> QED
    BY <2>1, <2>2, <2>3, RowLines DEF Distinct, Waits
<1> QED
  BY <1>2, <1>3

LEMMA LoadRestoreStep ==
  ASSUME QueueInv, NEW m \in Messages, LoadRestore(m)
  PROVE  QueueInv'
<1> DEFINE at == runner[m].at
           q == WithRestored(row, at, m)
           r == [q EXCEPT !.steer = None, !.status = "error"]
<1>1. Step(m) = "put back" /\ Hold("put back", m, at, r)
      /\ UNCHANGED <<row, runner, job, drains, history>>
  BY DEF LoadRestore
<1>2. at \in Nat \ {0}
  <2>1. runner[m] \in Runners
    BY DEF QueueInv, TypeOK
  <2> QED
    BY <2>1 DEF Runners
<1>3. m \notin Waits(row)
  BY <1>1 DEF QueueInv, Conserved, Carried
<1> HIDE DEF at
<1>4. /\ q \in Rows /\ Distinct(q) /\ Waits(q) = Waits(row) \union {m}
  BY <1>2, <1>3, PutBack
<1> HIDE DEF q
<1>5. r \in Rows /\ r.public = q.public /\ r.internal = q.internal /\ r.steer = None
  BY <1>4 DEF Rows, MaybeMessage
<1> HIDE DEF r
<1>6. Distinct(r) /\ Waits(r) = Waits(row) \union {m}
  BY <1>4, <1>5 DEF Distinct, Waits
<1>7. m \in MaybeMessage /\ "put back" \in Ops \ {"free"}
  BY DEF MaybeMessage, Ops
<1> QED
  BY <1>1, <1>2, <1>5, <1>6, <1>7, Loaded

LEMMA LoadSteerStep ==
  ASSUME QueueInv, LoadSteer
  PROVE  QueueInv'
<1>1. PICK i \in DOMAIN row.public :
        Hold(IF RuntimeRunning THEN "steer" ELSE "restart", row.public[i], i,
             [row EXCEPT !.public = RemoveAt(row.public, i), !.steer = row.public[i],
                         !.status = IF RuntimeRunning THEN row.status ELSE "running"])
  BY DEF LoadSteer
<1> DEFINE s == RemoveAt(row.public, i)
           m == row.public[i]
           o == IF RuntimeRunning THEN "steer" ELSE "restart"
           st == IF RuntimeRunning THEN row.status ELSE "running"
           r == [row EXCEPT !.public = s, !.steer = m, !.status = st]
<1>2. UNCHANGED <<row, runner, job, drains, history>>
  BY DEF LoadSteer
<1>3. /\ m \in Public /\ m \in Waits(row) /\ s \in Seq(Public) /\ IsInjective(s)
      /\ Range(s) \union Range(row.internal) = Waits(row) \ {m}
  BY TakenOut
<1>4. Hold(o, m, i, r)
  BY <1>1
<1>5. o \in {"steer", "restart"} /\ st \in {"idle", "running", "error"}
  BY RowLines
<1>6. i \in Nat \ {0}
  BY RowLines, LenProperties
<1> HIDE DEF s, m, o, st
<1>7. m \in MaybeMessage
  BY <1>3 DEF MaybeMessage, Messages
<1>8. r \in Rows /\ r.public = s /\ r.internal = row.internal /\ r.steer = m
  BY <1>3, <1>5, <1>7, RowLines DEF Rows
<1> HIDE DEF r
<1>9. Distinct(r) /\ Waits(r) = Waits(row) \ {m}
  BY <1>3, <1>8, RowLines DEF Distinct, Waits
<1>10. o \in Ops \ {"free"}
  BY <1>5 DEF Ops
<1> QED
  BY <1>2, <1>3, <1>4, <1>5, <1>6, <1>7, <1>8, <1>9, <1>10, Loaded

LEMMA LoadClearStep ==
  ASSUME QueueInv, NEW m \in Messages, LoadClear(m)
  PROVE  QueueInv'
<1> DEFINE r == [row EXCEPT !.steer = None]
<1>1. Step(m) = "clear" /\ Hold("clear", m, 1, r)
      /\ UNCHANGED <<row, runner, job, drains, history>>
  BY DEF LoadClear
<1>2. r \in Rows /\ r.public = row.public /\ r.internal = row.internal /\ r.steer = None
  BY RowLines, SteerSet DEF MaybeMessage
<1> HIDE DEF r
<1>3. Distinct(r) /\ Waits(r) = Waits(row)
  BY <1>2, RowLines DEF Distinct, Waits
<1>4. m \in MaybeMessage /\ "clear" \in Ops \ {"free"} /\ 1 \in Nat \ {0}
  BY DEF MaybeMessage, Ops
<1> QED
  BY <1>1, <1>2, <1>3, <1>4, Loaded

-----------------------------------------------------------------------------
(* What a step leaves of the lock, the lines and the pending steer *)

SameLines(r, q) == r.public = q.public /\ r.internal = q.internal

LEMMA LinesKept ==
  ASSUME NEW r, NEW q, SameLines(r, q)
  PROVE  Waits(r) = Waits(q) /\ (Distinct(r) <=> Distinct(q))
BY DEF SameLines, Waits, Distinct

LEMMA Unlocked ==
  ASSUME lock' = Free, Distinct(row)'
  PROVE  Bounds' /\ LockFits' /\ SteerFits'
<1>1. lock'.op = "free" /\ Distinct(lock'.row)
  BY FreeFits
<1>2. Bounds' /\ SteerFits'
  BY <1>1 DEF Bounds, SteerFits
<1>3. LockFits'
  BY <1>1 DEF LockFits
<1> QED
  BY <1>2, <1>3

\* A holder keeps its lock while others move on with messages that are not its own.
LEMMA LockKept ==
  ASSUME QueueInv, lock' = lock, drains' = drains, edits' = edits,
         SameLines(row, row)', SameLines(row', row), row'.steer = row.steer,
         \A n \in Messages : n = lock.msg /\ Step(n) \in {"none", "put back", "clear"} =>
           Step(n)' = Step(n) /\ (n \in accepted' => n \in accepted)
  PROVE  Bounds' /\ LockFits' /\ SteerFits'
<1>1. Waits(row') = Waits(row) /\ (Distinct(row') <=> Distinct(row))
  BY LinesKept
<1>2. Bounds' /\ SteerFits'
  BY DEF QueueInv, Bounds, SteerFits
<1>3. LockFits'
  <2>1. /\ Distinct(row') /\ Distinct(lock'.row)
        /\ lock'.op = "free" => lock' = Free
        /\ lock'.op \in {"edit", "title", "direct", "clear"} => Waits(lock'.row) = Waits(row')
        /\ lock'.op \in {"append", "put back"} => Waits(lock'.row) = Waits(row') \union {lock'.msg}
        /\ lock'.op \in {"delete", "steer", "restart"} =>
             /\ lock'.msg \in Public /\ lock'.msg \in Waits(row')
             /\ Waits(lock'.row) = Waits(row') \ {lock'.msg}
    BY <1>1 DEF QueueInv, LockFits
  <2>2. lock.op \in {"append", "direct"} =>
          lock.msg \in Public /\ lock.msg \notin accepted' /\ Step(lock.msg)' = "none"
    BY DEF QueueInv, LockFits, Messages
  <2>3. lock.op \in {"put back", "clear"} => lock.msg \in Messages /\ Step(lock.msg)' = lock.op
    BY DEF QueueInv, LockFits
  <2> QED
    BY <2>1, <2>2, <2>3 DEF LockFits
<1> QED
  BY <1>2, <1>3

PendingSteps == {"steer", "cancel", "mark", "restart", "put back", "clear"}

LEMMA PendingKept ==
  ASSUME QueueInv, row'.steer = row.steer,
         \A n \in Messages : Step(n) \in PendingSteps /\ n = row.steer => Step(n)' \in PendingSteps
  PROVE  PendingSteerCarried'
<1>1. row.steer # None => row.steer \in Messages /\ Step(row.steer) \in PendingSteps
  BY RowLines DEF QueueInv, PendingSteerCarried, PendingSteps, MaybeMessage
<1>2. row.steer # None => Step(row.steer)' \in PendingSteps
  BY <1>1
<1> QED
  BY <1>2 DEF PendingSteerCarried, PendingSteps

LEMMA TypeNow ==
  ASSUME QueueInv
  PROVE  /\ row \in Rows /\ lock \in Locks /\ runner \in [Messages -> Runners] /\ job \in Jobs
         /\ drains \in 0..MaxDrains /\ accepted \subseteq Messages /\ begun \in [Messages -> 0..2]
         /\ withdrawn \subseteq Public /\ edits \in 0..MaxEdits /\ parked \in BOOLEAN
         /\ lock.op \in Ops /\ lock.msg \in MaybeMessage /\ lock.at \in Nat \ {0}
         /\ lock.row \in Rows
BY LockFields DEF QueueInv, TypeOK

-----------------------------------------------------------------------------
(* Steps that leave the queue and the messages as they are *)

LEMMA QuietStep ==
  ASSUME QueueInv, row' \in Rows, SameLines(row', row), row'.steer = row.steer,
         job' \in Jobs, parked' \in BOOLEAN, lock' \in {lock, Free},
         UNCHANGED <<runner, drains, accepted, begun, withdrawn, edits>>
  PROVE  QueueInv'
<1>1. \A n : Step(n)' = Step(n)
  BY DEF Step
<1>2. Waits(row') = Waits(row) /\ (Distinct(row') <=> Distinct(row))
  BY LinesKept
<1>3. lock' \in Locks
  BY TypeNow, FreeFits
<1>4. TypeOK'
  BY <1>3, TypeNow DEF TypeOK
<1>5. Conserved'
  BY <1>1, <1>2 DEF QueueInv, Conserved, Carried
<1>6. Bounds' /\ LockFits' /\ SteerFits'
  <2>1. CASE lock' = lock
    <3>1. SameLines(row, row)'
      BY DEF SameLines
    <3> QED
      BY <1>1, <2>1, <3>1, LockKept
  <2>2. CASE lock' = Free
    <3>1. Distinct(row)'
      BY <1>2 DEF QueueInv, LockFits
    <3> QED
      BY <2>2, <3>1, Unlocked
  <2> QED
    BY <2>1, <2>2
<1>7. PendingSteerCarried'
  BY <1>1, PendingKept
<1> QED
  BY <1>4, <1>5, <1>6, <1>7 DEF QueueInv

LEMMA SameRow ==
  ASSUME QueueInv, row' = row
  PROVE  row' \in Rows /\ SameLines(row', row) /\ row'.steer = row.steer
BY TypeNow DEF SameLines

LEMMA ResumeStep ==
  ASSUME QueueInv, ResumeAgent \/ RetireAgent
  PROVE  QueueInv'
<1>1. /\ job' \in {NoTurn("idle"), NoTurn("absent")} /\ row' = row /\ lock' = lock
      /\ UNCHANGED <<runner, drains, accepted, begun, withdrawn, edits, parked>>
  BY DEF ResumeAgent, RetireAgent, history
<1>2. job' \in Jobs
  BY <1>1, JobWithoutTurn
<1> QED
  BY <1>1, <1>2, SameRow, TypeNow, QuietStep

LEMMA EndStep ==
  ASSUME QueueInv, TurnEnds \/ Stop
  PROVE  QueueInv'
<1>1. PICK e \in {"idle", "failed", "cancelled"} :
        job' = [job EXCEPT !.phase = "finishing", !.ending = e]
  BY DEF TurnEnds, Stop
<1>2. /\ row' = row /\ lock' = lock
      /\ UNCHANGED <<runner, drains, accepted, begun, withdrawn, edits, parked>>
  BY DEF TurnEnds, Stop, history
<1>3. job' \in Jobs
  BY <1>1, TypeNow, JobEnds
<1> QED
  BY <1>2, <1>3, SameRow, TypeNow, QuietStep

LEMMA FinishStep ==
  ASSUME QueueInv, FinishTurn
  PROVE  QueueInv'
<1> DEFINE s == IF job.ending = "failed" THEN "error" ELSE "idle"
           p == IF job.ending = "cancelled" /\ row.steer # None THEN "idle" ELSE "draining"
<1>1. /\ UpdateSessionStatus(s) /\ job' = NoTurn(p) /\ parked' = FALSE /\ lock' = lock
      /\ UNCHANGED <<runner, drains, accepted, begun, withdrawn, edits>>
  BY DEF FinishTurn
<1>2. s \in {"idle", "running", "error"} /\ p \in {"absent", "idle", "draining"}
  OBVIOUS
<1> HIDE DEF s, p
<1>3. row' \in Rows /\ SameLines(row', row) /\ row'.steer = row.steer
  BY <1>1, <1>2, TypeNow, StatusWritten DEF SameLines
<1>4. job' \in Jobs
  BY <1>1, <1>2, JobWithoutTurn
<1> QED
  BY <1>1, <1>3, <1>4, QuietStep

LEMMA RefusedStep ==
  ASSUME QueueInv, ClaimDirectRefused
  PROVE  QueueInv'
<1>1. /\ row' = row /\ lock' = Free /\ job' = job
      /\ UNCHANGED <<runner, drains, accepted, begun, withdrawn, edits, parked>>
  BY DEF ClaimDirectRefused, history
<1> QED
  BY <1>1, SameRow, TypeNow, QuietStep

LEMMA StutterStep ==
  ASSUME QueueInv, UNCHANGED vars
  PROVE  QueueInv'
<1>1. /\ row' = row /\ lock' = lock /\ job' = job
      /\ UNCHANGED <<runner, drains, accepted, begun, withdrawn, edits, parked>>
  BY DEF vars, history
<1> QED
  BY <1>1, SameRow, TypeNow, QuietStep

-----------------------------------------------------------------------------
(* A goroutine moves on with its message and has not given it away. *)

CarrySteps == {"start", "steer", "cancel", "mark", "restart", "put back"}

LEMMA CarriedSteps == \A n : Carried(n) <=> Step(n) \in CarrySteps
BY DEF Carried, CarrySteps

LEMMA MovesOn ==
  ASSUME QueueInv, NEW m \in Messages, NEW s \in Steps, Become(m, s),
         row' \in Rows, SameLines(row', row), row'.steer = row.steer,
         job' \in Jobs, parked' \in BOOLEAN,
         UNCHANGED <<lock, drains, accepted, begun, withdrawn, edits>>,
         \/ Step(m) \in CarrySteps \ {"put back"} /\ s \in CarrySteps
         \/ Step(m) = "direct" /\ s = "none",
         Step(m) \in PendingSteps => s \in PendingSteps
  PROVE  QueueInv'
<1>1. /\ runner' \in [Messages -> Runners]
      /\ \A n \in Messages : Step(n)' = IF n = m THEN s ELSE Step(n)
  BY TypeNow, Becomes
<1>2. Waits(row') = Waits(row)
  BY LinesKept
<1>3. TypeOK'
  BY <1>1, TypeNow DEF TypeOK
<1>4. Conserved'
  <2> SUFFICES ASSUME NEW n \in Messages
               PROVE  /\ n \in accepted <=> (n \in Waits(row) \/ Carried(n)' \/ begun[n] = 1 \/ n \in withdrawn)
                      /\ begun[n] \in {0, 1}
                      /\ n \in Waits(row) => ~Carried(n)' /\ begun[n] = 0 /\ n \notin withdrawn
                      /\ Carried(n)' => begun[n] = 0 /\ n \notin withdrawn
                      /\ begun[n] = 1 => n \notin withdrawn
                      /\ Step(n)' = "direct" => n \notin accepted
                      /\ Step(n)' = "clear" => begun[n] = 1
    BY <1>2 DEF Conserved
  <2>1. /\ n \in accepted <=> (n \in Waits(row) \/ Carried(n) \/ begun[n] = 1 \/ n \in withdrawn)
        /\ begun[n] \in {0, 1}
        /\ n \in Waits(row) => ~Carried(n) /\ begun[n] = 0 /\ n \notin withdrawn
        /\ Carried(n) => begun[n] = 0 /\ n \notin withdrawn
        /\ begun[n] = 1 => n \notin withdrawn
        /\ Step(n) = "direct" => n \notin accepted
        /\ Step(n) = "clear" => begun[n] = 1
    BY DEF QueueInv, Conserved
  <2>2. Carried(n)' <=> Carried(n)
    BY <1>1 DEF Carried, CarrySteps
  <2>3. Step(n)' = Step(n) \/ (Step(n)' # "direct" /\ Step(n)' # "clear")
    BY <1>1 DEF CarrySteps
  <2> QED
    BY <2>1, <2>2, <2>3
<1>5. Bounds' /\ LockFits' /\ SteerFits'
  <2>1. Step(m) \notin {"none", "put back", "clear"}
    BY DEF CarrySteps
  <2>2. SameLines(row, row)'
    BY DEF SameLines
  <2> QED
    BY <1>1, <2>1, <2>2, LockKept
<1>6. PendingSteerCarried'
  BY <1>1, PendingKept
<1> QED
  BY <1>3, <1>4, <1>5, <1>6 DEF QueueInv

LEMMA HandedOnStep ==
  ASSUME QueueInv, NEW m \in Messages,
         \/ StartRefused(m) \/ SteerUnsupported(m) \/ SteerFails(m)
  PROVE  QueueInv'
<1>1. PICK s \in {"put back", "cancel"} : Become(m, s)
  BY DEF StartRefused, SteerUnsupported, SteerFails
<1>2. /\ Step(m) \in {"start", "restart", "steer"} /\ row' = row /\ job' = job
      /\ UNCHANGED <<lock, drains, accepted, begun, withdrawn, edits, parked>>
  BY DEF StartRefused, SteerUnsupported, SteerFails, history
<1>3. s \in Steps /\ s \in CarrySteps /\ s \in PendingSteps /\ Step(m) \in CarrySteps \ {"put back"}
  BY <1>2 DEF Steps, CarrySteps, PendingSteps
<1> QED
  BY <1>1, <1>2, <1>3, SameRow, TypeNow, MovesOn

LEMMA DirectFailsStep ==
  ASSUME QueueInv, NEW m \in Messages, DirectFails(m)
  PROVE  QueueInv'
<1>1. /\ Step(m) = "direct" /\ UpdateSessionStatus("error") /\ Become(m, "none") /\ parked' = TRUE
      /\ job' = job /\ UNCHANGED <<lock, drains, accepted, begun, withdrawn, edits>>
  BY DEF DirectFails
<1>2. row' \in Rows /\ SameLines(row', row) /\ row'.steer = row.steer
  BY <1>1, TypeNow, StatusWritten DEF SameLines
<1>3. "none" \in Steps /\ "direct" \notin PendingSteps
  BY DEF Steps, PendingSteps
<1> QED
  BY <1>1, <1>2, <1>3, TypeNow, MovesOn

LEMMA MarkRunningStep ==
  ASSUME QueueInv, NEW m \in Messages, MarkRunning(m)
  PROVE  QueueInv'
<1>1. /\ Step(m) = "mark" /\ UpdateSessionStatus("running") /\ Become(m, "restart")
      /\ job' = job /\ UNCHANGED <<lock, drains, accepted, begun, withdrawn, edits, parked>>
  BY DEF MarkRunning, history
<1>2. row' \in Rows /\ SameLines(row', row) /\ row'.steer = row.steer
  BY <1>1, TypeNow, StatusWritten DEF SameLines
<1>3. /\ "restart" \in Steps /\ "restart" \in CarrySteps /\ "restart" \in PendingSteps
      /\ "mark" \in CarrySteps \ {"put back"}
  BY DEF Steps, CarrySteps, PendingSteps
<1> QED
  BY <1>1, <1>2, <1>3, TypeNow, MovesOn

LEMMA CancelStep ==
  ASSUME QueueInv, NEW m \in Messages, CancelForSteer(m)
  PROVE  QueueInv'
<1>1. /\ Step(m) = "cancel" /\ Become(m, "mark")
      /\ UNCHANGED <<lock, drains, accepted, begun, withdrawn, edits, parked>>
  BY DEF CancelForSteer, history
<1>2. row' \in Rows /\ SameLines(row', row) /\ row'.steer = row.steer /\ job' \in Jobs
  <2>1. CASE job' = [job EXCEPT !.phase = "finishing", !.ending = "cancelled"] /\ row' = row
    BY <2>1, SameRow, TypeNow, JobEnds
  <2>2. CASE row' = [row EXCEPT !.status = "idle", !.turn = None] /\ job' = job
    <3>1. row \in Rows /\ None \in MaybeMessage
      BY TypeNow DEF MaybeMessage
    <3>2. row' \in Rows /\ row'.public = row.public /\ row'.internal = row.internal
          /\ row'.steer = row.steer
      BY <2>2, <3>1 DEF Rows
    <3> QED
      BY <2>2, <3>2, TypeNow DEF SameLines
  <2>3. CASE row' = row /\ job' = job
    BY <2>3, SameRow, TypeNow
  <2> QED
    BY <2>1, <2>2, <2>3 DEF CancelForSteer, CancelStored
<1>3. /\ "mark" \in Steps /\ "mark" \in CarrySteps /\ "mark" \in PendingSteps
      /\ "cancel" \in CarrySteps \ {"put back"}
  BY DEF Steps, CarrySteps, PendingSteps
<1> QED
  BY <1>1, <1>2, <1>3, TypeNow, MovesOn

-----------------------------------------------------------------------------
(* The agent takes a message. *)

LEMMA Begins ==
  ASSUME QueueInv, NEW m \in Messages, NEW s \in {"none", "clear"}, Become(m, s),
         row' \in Rows, SameLines(row', row), row'.steer = row.steer, job' \in Jobs,
         begun' = [begun EXCEPT ![m] = IF begun[m] = 0 THEN 1 ELSE 2],
         accepted' = accepted \union {m},
         UNCHANGED <<lock, drains, withdrawn, edits, parked>>,
         Step(m) \in {"start", "direct", "restart", "steer"},
         Step(m) \in PendingSteps => s = "clear"
  PROVE  QueueInv'
<1>1. /\ runner' \in [Messages -> Runners]
      /\ \A n \in Messages : Step(n)' = IF n = m THEN s ELSE Step(n)
  <2>1. s \in Steps
    BY DEF Steps
  <2> QED
    BY <2>1, TypeNow, Becomes
<1>2. Waits(row') = Waits(row)
  BY LinesKept
<1>3. begun[m] = 0 /\ m \notin withdrawn /\ m \notin Waits(row)
  BY DEF QueueInv, Conserved, Carried
<1>4. \A n \in Messages : begun'[n] = IF n = m THEN 1 ELSE begun[n]
  BY <1>3, TypeNow
<1>5. TypeOK'
  <2>1. begun' \in [Messages -> 0..2]
    BY TypeNow
  <2>2. accepted' \subseteq Messages
    BY TypeNow
  <2> QED
    BY <1>1, <2>1, <2>2, TypeNow DEF TypeOK
<1>6. Conserved'
  <2> SUFFICES ASSUME NEW n \in Messages
               PROVE  /\ n \in accepted' <=> (n \in Waits(row) \/ Carried(n)' \/ begun'[n] = 1 \/ n \in withdrawn)
                      /\ begun'[n] \in {0, 1}
                      /\ n \in Waits(row) => ~Carried(n)' /\ begun'[n] = 0 /\ n \notin withdrawn
                      /\ Carried(n)' => begun'[n] = 0 /\ n \notin withdrawn
                      /\ begun'[n] = 1 => n \notin withdrawn
                      /\ Step(n)' = "direct" => n \notin accepted'
                      /\ Step(n)' = "clear" => begun'[n] = 1
    BY <1>2 DEF Conserved
  <2>1. /\ n \in accepted <=> (n \in Waits(row) \/ Carried(n) \/ begun[n] = 1 \/ n \in withdrawn)
        /\ begun[n] \in {0, 1}
        /\ n \in Waits(row) => ~Carried(n) /\ begun[n] = 0 /\ n \notin withdrawn
        /\ Carried(n) => begun[n] = 0 /\ n \notin withdrawn
        /\ begun[n] = 1 => n \notin withdrawn
        /\ Step(n) = "direct" => n \notin accepted
        /\ Step(n) = "clear" => begun[n] = 1
    BY DEF QueueInv, Conserved
  <2>2. CASE n = m
    <3>1. Step(n)' = s /\ begun'[n] = 1 /\ n \in accepted' /\ ~Carried(n)'
      BY <1>1, <1>4, <2>2 DEF Carried
    <3> QED
      BY <1>3, <2>2, <3>1
  <2>3. CASE n # m
    <3>1. Step(n)' = Step(n) /\ begun'[n] = begun[n] /\ (n \in accepted' <=> n \in accepted)
      BY <1>1, <1>4, <2>3
    <3>2. Carried(n)' <=> Carried(n)
      BY <3>1 DEF Carried
    <3> QED
      BY <2>1, <3>1, <3>2
  <2> QED
    BY <2>2, <2>3
<1>7. Bounds' /\ LockFits' /\ SteerFits'
  <2>1. SameLines(row, row)'
    BY DEF SameLines
  <2> QED
    BY <1>1, <2>1, LockKept
<1>8. PendingSteerCarried'
  <2>1. "clear" \in PendingSteps
    BY DEF PendingSteps
  <2> QED
    BY <1>1, <2>1, PendingKept
<1> QED
  BY <1>5, <1>6, <1>7, <1>8 DEF QueueInv

LEMMA StartTurnStep ==
  ASSUME QueueInv, NEW m \in Messages, StartTurn(m)
  PROVE  QueueInv'
<1> DEFINE s == IF Step(m) = "restart" THEN "clear" ELSE "none"
<1>1. /\ Step(m) \in {"start", "direct", "restart"} /\ Become(m, s)
      /\ row' = [row EXCEPT !.status = "running", !.turn = m]
      /\ job' = [phase |-> "running", msg |-> m, ending |-> ""]
      /\ begun' = [begun EXCEPT ![m] = IF begun[m] = 0 THEN 1 ELSE 2]
      /\ accepted' = accepted \union {m}
      /\ UNCHANGED <<lock, drains, withdrawn, edits, parked>>
  BY DEF StartTurn
<1>2. s \in {"none", "clear"} /\ (Step(m) \in PendingSteps => s = "clear")
  BY <1>1 DEF PendingSteps
<1> HIDE DEF s
<1>3. row' \in Rows /\ SameLines(row', row) /\ row'.steer = row.steer
  <2>1. row \in Rows /\ m \in MaybeMessage
    BY TypeNow DEF MaybeMessage
  <2>2. row' \in Rows /\ row'.public = row.public /\ row'.internal = row.internal
        /\ row'.steer = row.steer
    BY <1>1, <2>1 DEF Rows
  <2> QED
    BY <2>2 DEF SameLines
<1>4. job' \in Jobs
  BY <1>1 DEF Jobs, MaybeMessage
<1> QED
  BY <1>1, <1>2, <1>3, <1>4, Begins

LEMMA SteerAcceptedStep ==
  ASSUME QueueInv, NEW m \in Messages, SteerAccepted(m)
  PROVE  QueueInv'
<1>1. /\ Step(m) = "steer" /\ Become(m, "clear") /\ row' = row /\ job' = job
      /\ begun' = [begun EXCEPT ![m] = IF begun[m] = 0 THEN 1 ELSE 2]
      /\ UNCHANGED <<lock, drains, accepted, withdrawn, edits, parked>>
  BY DEF SteerAccepted
<1>2. accepted' = accepted \union {m}
  BY <1>1 DEF QueueInv, Conserved, Carried
<1> QED
  BY <1>1, <1>2, SameRow, TypeNow, Begins

\* A message that goes straight into the turn that runs.
LEMMA DirectSteersStep ==
  ASSUME QueueInv, NEW m \in Public, DirectSteers(m)
  PROVE  QueueInv'
<1>1. /\ m \in Messages /\ Fresh(m)
      /\ accepted' = accepted \union {m} /\ begun' = [begun EXCEPT ![m] = 1]
      /\ row' = row /\ UNCHANGED <<lock, runner, job, drains, withdrawn, edits, parked>>
  BY DEF DirectSteers, Messages
<1>2. m \notin accepted /\ Step(m) = "none" /\ lock.msg # m /\ m \notin Waits(row)
      /\ begun[m] = 0 /\ m \notin withdrawn
  BY <1>1, StepFresh
<1>3. \A n : Step(n)' = Step(n)
  BY <1>1 DEF Step
<1>4. \A n \in Messages : begun'[n] = IF n = m THEN 1 ELSE begun[n]
  BY <1>1, TypeNow
<1>5. TypeOK'
  <2>1. begun' \in [Messages -> 0..2] /\ accepted' \subseteq Messages
    BY <1>1, TypeNow
  <2> QED
    BY <1>1, <2>1, TypeNow DEF TypeOK
<1>6. Conserved'
  <2> SUFFICES ASSUME NEW n \in Messages
               PROVE  /\ n \in accepted' <=> (n \in Waits(row) \/ Carried(n)' \/ begun'[n] = 1 \/ n \in withdrawn)
                      /\ begun'[n] \in {0, 1}
                      /\ n \in Waits(row) => ~Carried(n)' /\ begun'[n] = 0 /\ n \notin withdrawn
                      /\ Carried(n)' => begun'[n] = 0 /\ n \notin withdrawn
                      /\ begun'[n] = 1 => n \notin withdrawn
                      /\ Step(n)' = "direct" => n \notin accepted'
                      /\ Step(n)' = "clear" => begun'[n] = 1
    BY <1>1 DEF Conserved
  <2>1. /\ n \in accepted <=> (n \in Waits(row) \/ Carried(n) \/ begun[n] = 1 \/ n \in withdrawn)
        /\ begun[n] \in {0, 1}
        /\ n \in Waits(row) => ~Carried(n) /\ begun[n] = 0 /\ n \notin withdrawn
        /\ Carried(n) => begun[n] = 0 /\ n \notin withdrawn
        /\ begun[n] = 1 => n \notin withdrawn
        /\ Step(n) = "direct" => n \notin accepted
        /\ Step(n) = "clear" => begun[n] = 1
    BY DEF QueueInv, Conserved
  <2>2. Step(n)' = Step(n) /\ (Carried(n)' <=> Carried(n))
    BY <1>3 DEF Carried
  <2>3. CASE n = m
    <3>1. ~Carried(n)' /\ begun'[n] = 1 /\ n \in accepted' /\ Step(n)' = "none"
      BY <1>1, <1>2, <1>3, <1>4, <2>3 DEF Carried
    <3> QED
      BY <1>2, <2>3, <3>1
  <2>4. CASE n # m
    <3>1. begun'[n] = begun[n] /\ (n \in accepted' <=> n \in accepted)
      BY <1>1, <1>4, <2>4
    <3> QED
      BY <2>1, <2>2, <3>1
  <2> QED
    BY <2>3, <2>4
<1>7. Bounds' /\ LockFits' /\ SteerFits'
  <2>1. SameLines(row, row)' /\ SameLines(row', row)
    BY <1>1 DEF SameLines
  <2> QED
    BY <1>1, <1>2, <1>3, <2>1, LockKept
<1>8. PendingSteerCarried'
  BY <1>1, <1>3, PendingKept
<1> QED
  BY <1>5, <1>6, <1>7, <1>8 DEF QueueInv

-----------------------------------------------------------------------------
(* Saves: the lock is free and the lines are the ones its holder changed. *)

\* What the save of a held row makes of the lines, for whoever else writes the row.
LEMMA SavedLines ==
  ASSUME QueueInv, SameLines(row', lock.row), lock' = Free
  PROVE  /\ Waits(row') = Waits(lock.row) /\ Bounds' /\ LockFits' /\ SteerFits'
<1>1. Waits(row') = Waits(lock.row) /\ (Distinct(row') <=> Distinct(lock.row))
  BY LinesKept
<1>2. Distinct(row)'
  BY <1>1 DEF QueueInv, LockFits
<1> QED
  BY <1>1, <1>2, Unlocked

LEMMA SaveQueueStep ==
  ASSUME QueueInv, SaveQueue
  PROVE  QueueInv'
<1>1. /\ lock.op \in {"append", "edit", "delete", "title"} /\ SaveSession(lock.row) /\ lock' = Free
      /\ IF lock.op = "title" THEN drains' = drains ELSE DrainSoon(row')
      /\ accepted' = IF lock.op = "append" THEN accepted \union {lock.msg} ELSE accepted
      /\ edits' = IF lock.op = "edit" THEN edits + 1 ELSE edits
      /\ withdrawn' = IF lock.op = "delete" THEN withdrawn \union {lock.msg} ELSE withdrawn
      /\ UNCHANGED <<runner, job, begun, parked>>
  BY DEF SaveQueue
<1>2. row' \in Rows /\ SameLines(row', lock.row) /\ row'.steer = lock.row.steer
  BY <1>1, TypeNow, SessionSaved DEF SameLines
<1>3. Waits(row') = Waits(lock.row) /\ Bounds' /\ LockFits' /\ SteerFits'
  BY <1>1, <1>2, SavedLines
<1>4. \A n : Step(n)' = Step(n)
  BY <1>1 DEF Step
<1>5. TypeOK'
  <2>1. drains' \in 0..MaxDrains
    <3>1. CASE lock.op = "title"
      BY <1>1, <3>1, TypeNow
    <3>2. CASE lock.op # "title"
      <4>1. DrainSoon(row') /\ drains < MaxDrains /\ drains \in 0..MaxDrains
        BY <1>1, <3>2, TypeNow DEF QueueInv, Bounds
      <4> QED
        BY <4>1, BoundsAreNatural DEF DrainSoon
    <3> QED
      BY <3>1, <3>2
  <2>2. edits' \in 0..MaxEdits
    BY <1>1, TypeNow, BoundsAreNatural DEF QueueInv, Bounds
  <2>3. accepted' \subseteq Messages /\ withdrawn' \subseteq Public
    <3>1. lock.op \in {"append", "delete"} => lock.msg \in Public
      BY DEF QueueInv, LockFits
    <3> QED
      BY <1>1, <3>1, TypeNow DEF Messages
  <2>4. lock' \in Locks
    BY <1>1, FreeFits
  <2> QED
    BY <1>1, <1>2, <2>1, <2>2, <2>3, <2>4, TypeNow DEF TypeOK
<1>6. Conserved'
  <2> SUFFICES ASSUME NEW n \in Messages
               PROVE  /\ n \in accepted' <=> (n \in Waits(row') \/ Carried(n) \/ begun[n] = 1 \/ n \in withdrawn')
                      /\ begun[n] \in {0, 1}
                      /\ n \in Waits(row') => ~Carried(n) /\ begun[n] = 0 /\ n \notin withdrawn'
                      /\ Carried(n) => begun[n] = 0 /\ n \notin withdrawn'
                      /\ begun[n] = 1 => n \notin withdrawn'
                      /\ Step(n) = "direct" => n \notin accepted'
                      /\ Step(n) = "clear" => begun[n] = 1
    BY <1>1, <1>4 DEF Conserved, Carried
  <2>1. /\ n \in accepted <=> (n \in Waits(row) \/ Carried(n) \/ begun[n] = 1 \/ n \in withdrawn)
        /\ begun[n] \in {0, 1}
        /\ n \in Waits(row) => ~Carried(n) /\ begun[n] = 0 /\ n \notin withdrawn
        /\ Carried(n) => begun[n] = 0 /\ n \notin withdrawn
        /\ begun[n] = 1 => n \notin withdrawn
        /\ Step(n) = "direct" => n \notin accepted
        /\ Step(n) = "clear" => begun[n] = 1
    BY DEF QueueInv, Conserved
  <2>2. CASE lock.op = "append"
    <3>1. /\ Waits(row') = Waits(row) \union {lock.msg} /\ accepted' = accepted \union {lock.msg}
          /\ withdrawn' = withdrawn /\ lock.msg \notin accepted /\ Step(lock.msg) = "none"
      BY <1>1, <1>3, <2>2 DEF QueueInv, LockFits
    <3>2. n = lock.msg => Step(n) # "direct" /\ ~Carried(n)
      BY <3>1 DEF Carried
    <3> QED
      BY <2>1, <3>1, <3>2
  <2>3. CASE lock.op \in {"edit", "title"}
    <3>1. Waits(row') = Waits(row) /\ accepted' = accepted /\ withdrawn' = withdrawn
      BY <1>1, <1>3, <2>3 DEF QueueInv, LockFits
    <3> QED
      BY <2>1, <3>1
  <2>4. CASE lock.op = "delete"
    <3>1. /\ Waits(row') = Waits(row) \ {lock.msg} /\ accepted' = accepted
          /\ withdrawn' = withdrawn \union {lock.msg} /\ lock.msg \in Waits(row)
      BY <1>1, <1>3, <2>4 DEF QueueInv, LockFits
    <3> QED
      BY <2>1, <3>1
  <2> QED
    BY <1>1, <2>2, <2>3, <2>4
<1>7. PendingSteerCarried'
  <2>1. row'.steer = row.steer
    BY <1>1, <1>2 DEF QueueInv, SteerFits
  <2> QED
    BY <1>4, <2>1, PendingKept
<1> QED
  BY <1>3, <1>5, <1>6, <1>7 DEF QueueInv

\* The save that makes the user's message a turn of the row.
LEMMA ClaimDirectStep ==
  ASSUME QueueInv, ClaimDirect
  PROVE  QueueInv'
<1>1. /\ lock.op = "direct" /\ row' = [lock.row EXCEPT !.turn = lock.msg]
      /\ Become(lock.msg, "direct") /\ lock' = Free
      /\ UNCHANGED <<job, drains, accepted, begun, withdrawn, edits, parked>>
  BY DEF ClaimDirect, history
<1>2. row' \in Rows /\ SameLines(row', lock.row) /\ row'.steer = lock.row.steer
  BY <1>1, TypeNow, TurnSet DEF SameLines
<1>3. /\ lock.msg \in Messages /\ runner' \in [Messages -> Runners]
      /\ \A n \in Messages : Step(n)' = IF n = lock.msg THEN "direct" ELSE Step(n)
  <2>1. lock.msg \in Messages /\ "direct" \in Steps
    BY <1>1 DEF QueueInv, LockFits, Messages, Steps
  <2> QED
    BY <1>1, <2>1, TypeNow, Becomes
<1>4. /\ Waits(row') = Waits(row) /\ Bounds' /\ LockFits' /\ SteerFits'
      /\ lock.msg \notin accepted /\ Step(lock.msg) = "none" /\ row'.steer = row.steer
  <2>1. Waits(row') = Waits(lock.row) /\ Bounds' /\ LockFits' /\ SteerFits'
    BY <1>1, <1>2, SavedLines
  <2> QED
    BY <1>1, <1>2, <2>1 DEF QueueInv, LockFits, SteerFits
<1>5. TypeOK'
  BY <1>1, <1>2, <1>3, FreeFits, TypeNow DEF TypeOK
<1>6. Conserved'
  <2> SUFFICES ASSUME NEW n \in Messages
               PROVE  /\ n \in accepted <=> (n \in Waits(row) \/ Carried(n)' \/ begun[n] = 1 \/ n \in withdrawn)
                      /\ begun[n] \in {0, 1}
                      /\ n \in Waits(row) => ~Carried(n)' /\ begun[n] = 0 /\ n \notin withdrawn
                      /\ Carried(n)' => begun[n] = 0 /\ n \notin withdrawn
                      /\ begun[n] = 1 => n \notin withdrawn
                      /\ Step(n)' = "direct" => n \notin accepted
                      /\ Step(n)' = "clear" => begun[n] = 1
    BY <1>1, <1>4 DEF Conserved
  <2>1. /\ n \in accepted <=> (n \in Waits(row) \/ Carried(n) \/ begun[n] = 1 \/ n \in withdrawn)
        /\ begun[n] \in {0, 1}
        /\ n \in Waits(row) => ~Carried(n) /\ begun[n] = 0 /\ n \notin withdrawn
        /\ Carried(n) => begun[n] = 0 /\ n \notin withdrawn
        /\ begun[n] = 1 => n \notin withdrawn
        /\ Step(n) = "direct" => n \notin accepted
        /\ Step(n) = "clear" => begun[n] = 1
    BY DEF QueueInv, Conserved
  <2>2. CASE n = lock.msg
    <3>1. Step(n)' = "direct" /\ ~Carried(n)' /\ n \notin accepted
      BY <1>3, <1>4, <2>2 DEF Carried
    <3> QED
      BY <2>1, <3>1
  <2>3. CASE n # lock.msg
    <3>1. Step(n)' = Step(n)
      BY <1>3, <2>3
    <3>2. Carried(n)' <=> Carried(n)
      BY <3>1 DEF Carried
    <3> QED
      BY <1>4, <2>1, <2>3, <3>1, <3>2
  <2> QED
    BY <2>2, <2>3
<1>7. PendingSteerCarried'
  BY <1>3, <1>4, PendingKept DEF PendingSteps
<1> QED
  BY <1>4, <1>5, <1>6, <1>7 DEF QueueInv

\* The message leaves its line for a goroutine and the pending steer names it.
LEMMA SaveSteerStep ==
  ASSUME QueueInv, SaveSteer
  PROVE  QueueInv'
<1> DEFINE m == lock.msg
           x == [step |-> lock.op, at |-> lock.at]
<1>1. /\ lock.op \in {"steer", "restart"} /\ SaveSession(lock.row) /\ lock' = Free
      /\ runner' = [runner EXCEPT ![m] = x]
      /\ UNCHANGED <<job, drains, accepted, begun, withdrawn, edits, parked>>
  BY DEF SaveSteer, history
<1>2. row' \in Rows /\ SameLines(row', lock.row) /\ row'.steer = lock.row.steer
  BY <1>1, TypeNow, SessionSaved DEF SameLines
<1>3. /\ m \in Messages /\ runner' \in [Messages -> Runners]
      /\ \A n \in Messages : Step(n)' = IF n = m THEN lock.op ELSE Step(n)
  <2>1. m \in Messages
    BY <1>1 DEF QueueInv, LockFits, Messages
  <2>2. x \in Runners /\ x.step = lock.op
    BY <1>1, TypeNow DEF Runners, Steps
  <2> HIDE DEF x
  <2> QED
    BY <1>1, <2>1, <2>2, TypeNow, RunnerSet
<1>4. /\ Waits(row') = Waits(row) \ {m} /\ Bounds' /\ LockFits' /\ SteerFits'
      /\ m \in Waits(row) /\ row'.steer = m
  <2>1. Waits(row') = Waits(lock.row) /\ Bounds' /\ LockFits' /\ SteerFits'
    BY <1>1, <1>2, SavedLines
  <2> QED
    BY <1>1, <1>2, <2>1 DEF QueueInv, LockFits, SteerFits
<1>5. TypeOK'
  BY <1>1, <1>2, <1>3, FreeFits, TypeNow DEF TypeOK
<1> HIDE DEF m, x
<1>6. Conserved'
  <2> SUFFICES ASSUME NEW n \in Messages
               PROVE  /\ n \in accepted <=> (n \in Waits(row') \/ Carried(n)' \/ begun[n] = 1 \/ n \in withdrawn)
                      /\ begun[n] \in {0, 1}
                      /\ n \in Waits(row') => ~Carried(n)' /\ begun[n] = 0 /\ n \notin withdrawn
                      /\ Carried(n)' => begun[n] = 0 /\ n \notin withdrawn
                      /\ begun[n] = 1 => n \notin withdrawn
                      /\ Step(n)' = "direct" => n \notin accepted
                      /\ Step(n)' = "clear" => begun[n] = 1
    BY <1>1 DEF Conserved
  <2>1. /\ n \in accepted <=> (n \in Waits(row) \/ Carried(n) \/ begun[n] = 1 \/ n \in withdrawn)
        /\ begun[n] \in {0, 1}
        /\ n \in Waits(row) => ~Carried(n) /\ begun[n] = 0 /\ n \notin withdrawn
        /\ Carried(n) => begun[n] = 0 /\ n \notin withdrawn
        /\ begun[n] = 1 => n \notin withdrawn
        /\ Step(n) = "direct" => n \notin accepted
        /\ Step(n) = "clear" => begun[n] = 1
    BY DEF QueueInv, Conserved
  <2>2. CASE n = m
    <3>1. Step(n)' # "direct" /\ Step(n)' # "clear" /\ Carried(n)' /\ n \in Waits(row) /\ n \notin Waits(row')
      BY <1>1, <1>3, <1>4, <2>2 DEF Carried
    <3> QED
      BY <2>1, <3>1
  <2>3. CASE n # m
    <3>1. Step(n)' = Step(n)
      BY <1>3, <2>3
    <3>2. Carried(n)' <=> Carried(n)
      BY <3>1 DEF Carried
    <3> QED
      BY <1>4, <2>1, <2>3, <3>1, <3>2
  <2> QED
    BY <2>2, <2>3
<1>7. PendingSteerCarried'
  BY <1>1, <1>3, <1>4 DEF PendingSteerCarried
<1> QED
  BY <1>4, <1>5, <1>6, <1>7 DEF QueueInv

LEMMA SaveRestoreStep ==
  ASSUME QueueInv, SaveRestore
  PROVE  QueueInv'
<1> DEFINE m == lock.msg
<1>1. /\ lock.op = "put back" /\ SaveSession(lock.row) /\ lock' = Free /\ Become(m, "none")
      /\ parked' = TRUE
      /\ UNCHANGED <<job, drains, accepted, begun, withdrawn, edits>>
  BY DEF SaveRestore
<1>2. row' \in Rows /\ SameLines(row', lock.row) /\ row'.steer = lock.row.steer
  BY <1>1, TypeNow, SessionSaved DEF SameLines
<1>3. /\ m \in Messages /\ runner' \in [Messages -> Runners] /\ Step(m) = "put back"
      /\ \A n \in Messages : Step(n)' = IF n = m THEN "none" ELSE Step(n)
  <2>1. m \in Messages /\ Step(m) = "put back" /\ "none" \in Steps
    BY <1>1 DEF QueueInv, LockFits, Steps
  <2> QED
    BY <1>1, <2>1, TypeNow, Becomes
<1>4. /\ Waits(row') = Waits(row) \union {m} /\ Bounds' /\ LockFits' /\ SteerFits'
      /\ row'.steer = None
  <2>1. Waits(row') = Waits(lock.row) /\ Bounds' /\ LockFits' /\ SteerFits'
    BY <1>1, <1>2, SavedLines
  <2> QED
    BY <1>1, <1>2, <2>1 DEF QueueInv, LockFits, SteerFits
<1>5. TypeOK'
  BY <1>1, <1>2, <1>3, FreeFits, TypeNow DEF TypeOK
<1> HIDE DEF m
<1>6. Conserved'
  <2> SUFFICES ASSUME NEW n \in Messages
               PROVE  /\ n \in accepted <=> (n \in Waits(row') \/ Carried(n)' \/ begun[n] = 1 \/ n \in withdrawn)
                      /\ begun[n] \in {0, 1}
                      /\ n \in Waits(row') => ~Carried(n)' /\ begun[n] = 0 /\ n \notin withdrawn
                      /\ Carried(n)' => begun[n] = 0 /\ n \notin withdrawn
                      /\ begun[n] = 1 => n \notin withdrawn
                      /\ Step(n)' = "direct" => n \notin accepted
                      /\ Step(n)' = "clear" => begun[n] = 1
    BY <1>1 DEF Conserved
  <2>1. /\ n \in accepted <=> (n \in Waits(row) \/ Carried(n) \/ begun[n] = 1 \/ n \in withdrawn)
        /\ begun[n] \in {0, 1}
        /\ n \in Waits(row) => ~Carried(n) /\ begun[n] = 0 /\ n \notin withdrawn
        /\ Carried(n) => begun[n] = 0 /\ n \notin withdrawn
        /\ begun[n] = 1 => n \notin withdrawn
        /\ Step(n) = "direct" => n \notin accepted
        /\ Step(n) = "clear" => begun[n] = 1
    BY DEF QueueInv, Conserved
  <2>2. CASE n = m
    <3>1. Step(n)' = "none" /\ ~Carried(n)' /\ Carried(n) /\ n \in Waits(row')
      BY <1>3, <1>4, <2>2 DEF Carried
    <3> QED
      BY <2>1, <3>1
  <2>3. CASE n # m
    <3>1. Step(n)' = Step(n)
      BY <1>3, <2>3
    <3>2. Carried(n)' <=> Carried(n)
      BY <3>1 DEF Carried
    <3> QED
      BY <1>4, <2>1, <2>3, <3>1, <3>2
  <2> QED
    BY <2>2, <2>3
<1>7. PendingSteerCarried'
  BY <1>4 DEF PendingSteerCarried
<1> QED
  BY <1>4, <1>5, <1>6, <1>7 DEF QueueInv

\* The goroutine of a message the agent has is done.
LEMMA Settled ==
  ASSUME QueueInv, NEW m \in Messages, Step(m) = "clear", Become(m, "none"),
         row' \in Rows, Waits(row') = Waits(row), Distinct(row)', row'.steer = None, lock' = Free,
         UNCHANGED <<job, drains, accepted, begun, withdrawn, edits, parked>>
  PROVE  QueueInv'
<1>1. /\ runner' \in [Messages -> Runners]
      /\ \A n \in Messages : Step(n)' = IF n = m THEN "none" ELSE Step(n)
  <2>1. "none" \in Steps
    BY DEF Steps
  <2> QED
    BY <2>1, TypeNow, Becomes
<1>2. Bounds' /\ LockFits' /\ SteerFits'
  BY Unlocked
<1>3. TypeOK'
  BY <1>1, FreeFits, TypeNow DEF TypeOK
<1>4. Conserved'
  <2> SUFFICES ASSUME NEW n \in Messages
               PROVE  /\ n \in accepted <=> (n \in Waits(row) \/ Carried(n)' \/ begun[n] = 1 \/ n \in withdrawn)
                      /\ begun[n] \in {0, 1}
                      /\ n \in Waits(row) => ~Carried(n)' /\ begun[n] = 0 /\ n \notin withdrawn
                      /\ Carried(n)' => begun[n] = 0 /\ n \notin withdrawn
                      /\ begun[n] = 1 => n \notin withdrawn
                      /\ Step(n)' = "direct" => n \notin accepted
                      /\ Step(n)' = "clear" => begun[n] = 1
    BY DEF Conserved
  <2>1. /\ n \in accepted <=> (n \in Waits(row) \/ Carried(n) \/ begun[n] = 1 \/ n \in withdrawn)
        /\ begun[n] \in {0, 1}
        /\ n \in Waits(row) => ~Carried(n) /\ begun[n] = 0 /\ n \notin withdrawn
        /\ Carried(n) => begun[n] = 0 /\ n \notin withdrawn
        /\ begun[n] = 1 => n \notin withdrawn
        /\ Step(n) = "direct" => n \notin accepted
        /\ Step(n) = "clear" => begun[n] = 1
    BY DEF QueueInv, Conserved
  <2>2. (Carried(n)' <=> Carried(n)) /\ Step(n)' \in {Step(n), "none"}
    BY <1>1 DEF Carried
  <2> QED
    BY <2>1, <2>2
<1>5. PendingSteerCarried'
  BY DEF PendingSteerCarried
<1> QED
  BY <1>2, <1>3, <1>4, <1>5 DEF QueueInv

LEMMA SaveClearStep ==
  ASSUME QueueInv, SaveClear
  PROVE  QueueInv'
<1>1. /\ lock.op = "clear" /\ SaveSession(lock.row) /\ lock' = Free /\ Become(lock.msg, "none")
      /\ UNCHANGED <<job, drains, accepted, begun, withdrawn, edits, parked>>
  BY DEF SaveClear, history
<1>2. row' \in Rows /\ SameLines(row', lock.row) /\ row'.steer = lock.row.steer
  BY <1>1, TypeNow, SessionSaved DEF SameLines
<1>3. /\ lock.msg \in Messages /\ Step(lock.msg) = "clear" /\ lock.row.steer = None
      /\ Waits(lock.row) = Waits(row) /\ Distinct(lock.row)
  BY <1>1 DEF QueueInv, LockFits, SteerFits
<1>4. Waits(row') = Waits(row) /\ Distinct(row)'
  <2>1. Waits(row') = Waits(lock.row) /\ (Distinct(row') <=> Distinct(lock.row))
    BY <1>2, LinesKept
  <2> QED
    BY <1>3, <2>1
<1> QED
  BY <1>1, <1>2, <1>3, <1>4, Settled

LEMMA NothingToClearStep ==
  ASSUME QueueInv, NEW m \in Messages, NothingToClear(m)
  PROVE  QueueInv'
<1>1. /\ Step(m) = "clear" /\ row.steer = None /\ lock = Free /\ Become(m, "none")
      /\ row' = row /\ UNCHANGED <<lock, job, drains, accepted, begun, withdrawn, edits, parked>>
  BY DEF NothingToClear, history
<1>2. Distinct(row)'
  BY <1>1 DEF QueueInv, LockFits
<1>3. row' \in Rows /\ Waits(row') = Waits(row) /\ row'.steer = None /\ lock' = Free
  BY <1>1, TypeNow
<1> QED
  BY <1>1, <1>2, <1>3, Settled

-----------------------------------------------------------------------------
(* Claims and hidden messages: single statements on the stored row *)

\* Taking the next prompt from the head of its line.
LEMMA NextTaken ==
  ASSUME QueueInv, HasWaiting(row)
  PROVE  LET q == WithoutNextPrompt(row) IN
         /\ NextPrompt(row) \in Messages /\ NextPrompt(row) \in Waits(row)
         /\ q \in Rows /\ Distinct(q) /\ q.steer = row.steer
         /\ Waits(q) = Waits(row) \ {NextPrompt(row)}
<1>1. CASE row.public # <<>>
  <2> DEFINE s == Tail(row.public)
             q == [row EXCEPT !.public = s]
  <2>1. WithoutNextPrompt(row) = q /\ NextPrompt(row) = Head(row.public)
    BY <1>1 DEF WithoutNextPrompt, NextPrompt
  <2>2. /\ s \in Seq(Public) /\ IsInjective(s)
        /\ Head(row.public) \in Range(row.public) /\ Head(row.public) \in Public
        /\ Range(s) = Range(row.public) \ {Head(row.public)}
    BY <1>1, RowLines, LineTail
  <2> HIDE DEF s
  <2>3. q \in Rows /\ q.public = s /\ q.internal = row.internal /\ q.steer = row.steer
    BY <2>2, RowLines, PublicSet
  <2> HIDE DEF q
  <2>4. Distinct(q) /\ Waits(q) = Waits(row) \ {Head(row.public)}
    BY <2>2, <2>3, RowLines DEF Distinct, Waits
  <2> QED
    BY <2>1, <2>2, <2>3, <2>4, RowLines
<1>2. CASE row.public = <<>>
  <2> DEFINE s == Tail(row.internal)
             q == [row EXCEPT !.internal = s]
  <2>0. row.internal # <<>>
    BY <1>2 DEF HasWaiting
  <2>1. WithoutNextPrompt(row) = q /\ NextPrompt(row) = Head(row.internal)
    BY <1>2 DEF WithoutNextPrompt, NextPrompt
  <2>2. /\ s \in Seq(Internal) /\ IsInjective(s)
        /\ Head(row.internal) \in Range(row.internal) /\ Head(row.internal) \in Internal
        /\ Range(s) = Range(row.internal) \ {Head(row.internal)}
    BY <2>0, RowLines, LineTail
  <2> HIDE DEF s
  <2>3. q \in Rows /\ q.internal = s /\ q.public = row.public /\ q.steer = row.steer
    BY <2>2, RowLines, InternalSet
  <2> HIDE DEF q
  <2>4. Distinct(q) /\ Waits(q) = Waits(row) \ {Head(row.internal)}
    BY <2>2, <2>3, RowLines DEF Distinct, Waits
  <2> QED
    BY <2>1, <2>2, <2>3, <2>4, RowLines
<1> QED
  BY <1>1, <1>2

LEMMA ClaimStep ==
  ASSUME QueueInv, ClaimNextTurn, lock = Free, lock' = lock, job' \in Jobs, drains' \in 0..MaxDrains,
         UNCHANGED <<accepted, begun, withdrawn, edits>>
  PROVE  QueueInv'
<1>0. CASE UNCHANGED <<row, runner, parked>>
  <2>1. row' \in Rows /\ SameLines(row', row) /\ row'.steer = row.steer
    BY <1>0, SameRow
  <2>2. Distinct(row)' /\ lock' = Free
    BY <1>0 DEF QueueInv, LockFits
  <2>3. Bounds' /\ LockFits' /\ SteerFits'
    BY <2>2, Unlocked
  <2>4. \A n : Step(n)' = Step(n)
    BY <1>0 DEF Step
  <2>5. Conserved'
    BY <1>0, <2>4 DEF QueueInv, Conserved, Carried
  <2>6. PendingSteerCarried'
    BY <2>1, <2>4, PendingKept
  <2>7. TypeOK'
    BY <1>0, TypeNow DEF TypeOK
  <2> QED
    BY <2>3, <2>5, <2>6, <2>7 DEF QueueInv
<1>1. CASE /\ HasWaiting(row)
           /\ row' = [WithoutNextPrompt(row) EXCEPT !.status = "running", !.turn = NextPrompt(row)]
           /\ runner' = [runner EXCEPT ![NextPrompt(row)] = [step |-> "start", at |-> 1]]
           /\ parked' = FALSE
  <2> DEFINE m == NextPrompt(row)
             q == WithoutNextPrompt(row)
             x == [step |-> "start", at |-> 1]
  <2>1. /\ m \in Messages /\ m \in Waits(row) /\ q \in Rows /\ Distinct(q) /\ q.steer = row.steer
        /\ Waits(q) = Waits(row) \ {m}
    BY <1>1, NextTaken
  <2>2. /\ row' = [q EXCEPT !.status = "running", !.turn = m]
        /\ runner' = [runner EXCEPT ![m] = x] /\ parked' = FALSE
    BY <1>1
  <2>3. /\ runner' \in [Messages -> Runners]
        /\ \A n \in Messages : Step(n)' = IF n = m THEN "start" ELSE Step(n)
    <3>1. x.step = "start" /\ "start" \in Steps /\ 1 \in Nat \ {0}
      BY DEF Steps
    <3>2. x \in Runners
      BY <3>1 DEF Runners
    <3> HIDE DEF x, m
    <3> QED
      BY <2>1, <2>2, <3>1, <3>2, TypeNow, RunnerSet
  <2> HIDE DEF q, m, x
  <2>4. row' \in Rows /\ SameLines(row', q) /\ row'.steer = row.steer
    <3>1. m \in MaybeMessage
      BY <2>1 DEF MaybeMessage
    <3>2. row' \in Rows /\ row'.public = q.public /\ row'.internal = q.internal /\ row'.steer = q.steer
      BY <2>1, <2>2, <3>1 DEF Rows
    <3> QED
      BY <2>1, <3>2 DEF SameLines
  <2>5. Waits(row') = Waits(row) \ {m} /\ Distinct(row)'
    <3>1. Waits(row') = Waits(q) /\ (Distinct(row') <=> Distinct(q))
      BY <2>4, LinesKept
    <3> QED
      BY <2>1, <3>1
  <2>6. Bounds' /\ LockFits' /\ SteerFits'
    BY <2>5, Unlocked
  <2>7. TypeOK'
    BY <2>2, <2>3, <2>4, TypeNow DEF TypeOK
  <2>8. Conserved'
    <3> SUFFICES ASSUME NEW n \in Messages
                 PROVE  /\ n \in accepted <=> (n \in Waits(row') \/ Carried(n)' \/ begun[n] = 1 \/ n \in withdrawn)
                        /\ begun[n] \in {0, 1}
                        /\ n \in Waits(row') => ~Carried(n)' /\ begun[n] = 0 /\ n \notin withdrawn
                        /\ Carried(n)' => begun[n] = 0 /\ n \notin withdrawn
                        /\ begun[n] = 1 => n \notin withdrawn
                        /\ Step(n)' = "direct" => n \notin accepted
                        /\ Step(n)' = "clear" => begun[n] = 1
      BY DEF Conserved
    <3>1. /\ n \in accepted <=> (n \in Waits(row) \/ Carried(n) \/ begun[n] = 1 \/ n \in withdrawn)
          /\ begun[n] \in {0, 1}
          /\ n \in Waits(row) => ~Carried(n) /\ begun[n] = 0 /\ n \notin withdrawn
          /\ Carried(n) => begun[n] = 0 /\ n \notin withdrawn
          /\ begun[n] = 1 => n \notin withdrawn
          /\ Step(n) = "direct" => n \notin accepted
          /\ Step(n) = "clear" => begun[n] = 1
      BY DEF QueueInv, Conserved
    <3>2. CASE n = m
      <4>1. Step(n)' = "start" /\ Carried(n)' /\ n \in Waits(row) /\ n \notin Waits(row')
        BY <2>1, <2>3, <2>5, <3>2 DEF Carried
      <4> QED
        BY <3>1, <4>1
    <3>3. CASE n # m
      <4>1. Step(n)' = Step(n)
        BY <2>3, <3>3
      <4>2. Carried(n)' <=> Carried(n)
        BY <4>1 DEF Carried
      <4> QED
        BY <2>5, <3>1, <3>3, <4>1, <4>2
    <3> QED
      BY <3>2, <3>3
  <2>9. PendingSteerCarried'
    <3>1. Step(m) \notin PendingSteps
      <4>1. ~Carried(m) /\ begun[m] = 0 /\ (Step(m) = "clear" => begun[m] = 1)
        BY <2>1 DEF QueueInv, Conserved
      <4>2. Step(m) # "clear"
        BY <4>1
      <4> QED
        BY <4>1, <4>2 DEF Carried, PendingSteps
    <3> QED
      BY <2>3, <2>4, <3>1, PendingKept
  <2> QED
    BY <2>6, <2>7, <2>8, <2>9 DEF QueueInv
<1> QED
  BY <1>0, <1>1 DEF ClaimNextTurn

LEMMA DrainStep ==
  ASSUME QueueInv, Drain \/ FinishDrains
  PROVE  QueueInv'
<1>1. /\ ClaimNextTurn /\ lock = Free /\ lock' = lock
      /\ UNCHANGED <<accepted, begun, withdrawn, edits>>
  BY DEF Drain, FinishDrains
<1>2. drains' \in 0..MaxDrains
  BY TypeNow, BoundsAreNatural DEF Drain, FinishDrains
<1>3. job' \in Jobs
  BY TypeNow, JobWithoutTurn DEF Drain, FinishDrains
<1> QED
  BY <1>1, <1>2, <1>3, ClaimStep

LEMMA EnqueueStep ==
  ASSUME QueueInv, NEW m \in Internal, EnqueueInternal(m)
  PROVE  QueueInv'
<1> DEFINE s == Append(row.internal, m)
<1>1. /\ m \in Messages /\ Fresh(m) /\ lock = Free /\ drains < MaxDrains
      /\ row' = [row EXCEPT !.internal = s] /\ accepted' = accepted \union {m}
      /\ drains' = IF TakesQueuedTurns(row) /\ ~RuntimeRunning THEN drains + 1 ELSE drains
      /\ UNCHANGED <<lock, runner, job, begun, withdrawn, edits, parked>>
  BY DEF EnqueueInternal, Messages
<1>2. /\ m \notin accepted /\ Step(m) = "none" /\ m \notin Range(row.internal)
      /\ begun[m] = 0 /\ m \notin withdrawn
  BY <1>1, StepFresh, RowLines
<1>3. s \in Seq(Internal) /\ IsInjective(s) /\ Range(s) = Range(row.internal) \union {m}
  BY <1>2, RowLines, LineAppend
<1> HIDE DEF s
<1>4. row' \in Rows /\ row'.internal = s /\ row'.public = row.public /\ row'.steer = row.steer
  BY <1>1, <1>3, RowLines, InternalSet
<1>5. Distinct(row)' /\ Waits(row') = Waits(row) \union {m}
  BY <1>3, <1>4, RowLines DEF Distinct, Waits
<1>6. Bounds' /\ LockFits' /\ SteerFits'
  BY <1>1, <1>5, Unlocked
<1>7. \A n : Step(n)' = Step(n)
  BY <1>1 DEF Step
<1>8. TypeOK'
  <2>1. drains' \in 0..MaxDrains
    BY <1>1, TypeNow, BoundsAreNatural
  <2> QED
    BY <1>1, <1>4, <2>1, TypeNow DEF TypeOK
<1>9. Conserved'
  <2> SUFFICES ASSUME NEW n \in Messages
               PROVE  /\ n \in accepted' <=> (n \in Waits(row') \/ Carried(n)' \/ begun[n] = 1 \/ n \in withdrawn)
                      /\ begun[n] \in {0, 1}
                      /\ n \in Waits(row') => ~Carried(n)' /\ begun[n] = 0 /\ n \notin withdrawn
                      /\ Carried(n)' => begun[n] = 0 /\ n \notin withdrawn
                      /\ begun[n] = 1 => n \notin withdrawn
                      /\ Step(n)' = "direct" => n \notin accepted'
                      /\ Step(n)' = "clear" => begun[n] = 1
    BY <1>1 DEF Conserved
  <2>1. /\ n \in accepted <=> (n \in Waits(row) \/ Carried(n) \/ begun[n] = 1 \/ n \in withdrawn)
        /\ begun[n] \in {0, 1}
        /\ n \in Waits(row) => ~Carried(n) /\ begun[n] = 0 /\ n \notin withdrawn
        /\ Carried(n) => begun[n] = 0 /\ n \notin withdrawn
        /\ begun[n] = 1 => n \notin withdrawn
        /\ Step(n) = "direct" => n \notin accepted
        /\ Step(n) = "clear" => begun[n] = 1
    BY DEF QueueInv, Conserved
  <2>2. Step(n)' = Step(n) /\ (Carried(n)' <=> Carried(n))
    BY <1>7 DEF Carried
  <2>3. n = m => Step(n) # "direct" /\ ~Carried(n)
    BY <1>2 DEF Carried
  <2> QED
    BY <1>1, <1>2, <1>5, <2>1, <2>2, <2>3
<1>10. PendingSteerCarried'
  BY <1>4, <1>7, PendingKept
<1> QED
  BY <1>6, <1>8, <1>9, <1>10 DEF QueueInv

-----------------------------------------------------------------------------
(* The theorems *)

LEMMA QueueInvInit == Init => QueueInv
<1> SUFFICES ASSUME Init PROVE QueueInv
  OBVIOUS
<1>1. /\ row = EmptyRow /\ lock = Free /\ runner = [m \in Messages |-> NoRunner]
      /\ job = NoTurn("absent") /\ drains = 0 /\ accepted = {} /\ withdrawn = {} /\ edits = 0
      /\ parked = FALSE /\ begun = [m \in Messages |-> 0]
  BY DEF Init
<1>2. \A m \in Messages : Step(m) = "none" /\ ~Carried(m)
  <2>1. NoRunner.step = "none"
    BY NoRunnerFields
  <2>2. \A m \in Messages : Step(m) = "none"
    BY <1>1, <2>1 DEF Step
  <2> QED
    BY <2>2 DEF Carried
<1>3. TypeOK
  <2>1. row \in Rows /\ lock \in Locks /\ job \in Jobs
    BY <1>1, FreeFits, JobWithoutTurn
  <2>2. runner \in [Messages -> Runners]
    BY <1>1, NoRunnerFields
  <2>3. begun \in [Messages -> 0..2]
    BY <1>1
  <2>4. drains \in 0..MaxDrains /\ edits \in 0..MaxEdits
    BY <1>1, BoundsAreNatural
  <2> QED
    BY <1>1, <2>1, <2>2, <2>3, <2>4 DEF TypeOK
<1>4. Conserved
  BY <1>1, <1>2, FreeFits DEF Conserved
<1>5. Bounds /\ LockFits /\ SteerFits
  <2>1. lock.op = "free" /\ Distinct(row) /\ Distinct(lock.row)
    BY <1>1, FreeFits
  <2>2. Bounds /\ SteerFits
    BY <2>1 DEF Bounds, SteerFits
  <2>3. LockFits
    BY <1>1, <2>1 DEF LockFits
  <2> QED
    BY <2>2, <2>3
<1>6. PendingSteerCarried
  BY <1>1, FreeFits DEF PendingSteerCarried
<1> QED
  BY <1>3, <1>4, <1>5, <1>6 DEF QueueInv

LEMMA QueueInvNext == QueueInv /\ [Next]_vars => QueueInv'
<1> SUFFICES ASSUME QueueInv, [Next]_vars PROVE QueueInv'
  OBVIOUS
<1>1. CASE Clients
  BY <1>1, LoadAppendStep, LoadDirectStep, DirectSteersStep, EnqueueStep, LoadReorderStep,
     LoadDeleteStep, LoadTitleStep, LoadSteerStep, EndStep DEF Clients
<1>2. CASE \E m \in Messages : Carry(m)
  BY <1>2, StartTurnStep, HandedOnStep, DirectFailsStep, SteerAcceptedStep, CancelStep,
     MarkRunningStep DEF Carry
<1>3. CASE \E m \in Messages : Settle(m)
  BY <1>3, LoadRestoreStep, LoadClearStep, NothingToClearStep DEF Settle
<1>4. CASE Save
  BY <1>4, SaveQueueStep, ClaimDirectStep, RefusedStep, SaveSteerStep, SaveRestoreStep,
     SaveClearStep DEF Save
<1>5. CASE Drain \/ FinishDrains
  BY <1>5, DrainStep
<1>6. CASE ResumeAgent \/ RetireAgent
  BY <1>6, ResumeStep
<1>7. CASE TurnEnds
  BY <1>7, EndStep
<1>8. CASE FinishTurn
  BY <1>8, FinishStep
<1>9. CASE UNCHANGED vars
  BY <1>9, StutterStep
<1> QED
  BY <1>1, <1>2, <1>3, <1>4, <1>5, <1>6, <1>7, <1>8, <1>9 DEF Next

\* What every reachable state keeps, from which the theorems below follow.
THEOREM QueueInvariant == Spec => []QueueInv
<1> QED
  BY QueueInvInit, QueueInvNext, PTL DEF Spec

\* The queue's state keeps its types: loads, saves and failed starts leave a row
\* whose lines hold messages of their own kind, and the bounds are kept.
THEOREM TypeCorrect == Spec => []TypeOK
<1>1. QueueInv => TypeOK
  BY DEF QueueInv
<1> QED
  BY <1>1, QueueInvariant, PTL

\* Counting from the lists without repetition that the invariant describes.
LEMMA CountedOnce == QueueInv => NoMessageLost
<1> SUFFICES ASSUME QueueInv, NEW m \in Messages
             PROVE  Queued(m) + (IF Carried(m) THEN 1 ELSE 0) + begun[m]
                      + (IF m \in withdrawn THEN 1 ELSE 0) = IF m \in accepted THEN 1 ELSE 0
  BY DEF NoMessageLost
<1>1. Queued(m) = IF m \in Waits(row) THEN 1 ELSE 0
  <2>1. /\ IsInjective(row.public) /\ IsInjective(row.internal)
        /\ Range(row.public) \cap Range(row.internal) = {}
        /\ Waits(row) = Range(row.public) \union Range(row.internal)
    BY RowLines
  <2>2. /\ Occurrences(m, row.public) = IF m \in Range(row.public) THEN 1 ELSE 0
        /\ Occurrences(m, row.internal) = IF m \in Range(row.internal) THEN 1 ELSE 0
    BY <2>1, OccursOnce
  <2>3. m \in Waits(row) <=> (m \in Range(row.public) \/ m \in Range(row.internal))
    BY <2>1
  <2>4. ~(m \in Range(row.public) /\ m \in Range(row.internal))
    BY <2>1
  <2> QED
    BY <2>2, <2>3, <2>4 DEF Queued
<1>2. /\ m \in accepted <=> (m \in Waits(row) \/ Carried(m) \/ begun[m] = 1 \/ m \in withdrawn)
      /\ begun[m] \in {0, 1}
      /\ m \in Waits(row) => ~Carried(m) /\ begun[m] = 0 /\ m \notin withdrawn
      /\ Carried(m) => begun[m] = 0 /\ m \notin withdrawn
      /\ begun[m] = 1 => m \notin withdrawn
  BY DEF QueueInv, Conserved
<1>3. CASE m \in Waits(row)
  BY <1>1, <1>2, <1>3
<1>4. CASE Carried(m)
  BY <1>1, <1>2, <1>4
<1>5. CASE m \notin Waits(row) /\ ~Carried(m)
  BY <1>1, <1>2, <1>5
<1> QED
  BY <1>3, <1>4, <1>5

\* Whatever loads, saves, claims, failed starts and steers overlap, a message
\* Jaz took in is in exactly one place: its line, one goroutine, the agent, or
\* deleted by the user (server/queue.go).
THEOREM MessagesConserved == Spec => []NoMessageLost
<1> QED
  BY QueueInvariant, CountedOnce, PTL

\* PendingSteer never outlives the goroutine of the message it names, so a stop
\* skips the drain only for a steer that is on its way (turn_completion.go:109).
THEOREM PendingSteers == Spec => []PendingSteerCarried
<1>1. QueueInv => PendingSteerCarried
  BY DEF QueueInv
<1> QED
  BY <1>1, QueueInvariant, PTL
-----------------------------------------------------------------------------
(* Without steers: who holds the thread *)

\* A message whose goroutine has the thread claimed for it.
Owner(m) == Step(m) \in {"start", "direct", "put back"}

\* One message at most has the thread claimed, the row then runs while no turn
\* does, and a row loaded while the thread ran is not saved over a free one.
TurnInv ==
  /\ \A m \in Messages : Step(m) \in {"none", "start", "direct", "put back"}
  /\ lock.op \notin {"steer", "restart", "clear"}
  /\ \A m, n \in Messages : Owner(m) /\ Owner(n) => m = n
  /\ \A m \in Messages : Owner(m) => row.status = "running" /\ job.phase \notin {"running", "finishing"}
  /\ lock.op \in {"append", "edit", "delete", "title"} /\ row.status = "running" =>
       lock.row.status = "running"
  /\ lock.op = "direct" => lock.row.status = "running"
  /\ RowHoldsTurn

LEMMA TurnInvInit == Init => TurnInv
<1> SUFFICES ASSUME Init PROVE TurnInv
  OBVIOUS
<1>1. lock.op = "free" /\ job.phase = "absent"
  BY FreeFits, JobWithoutTurn DEF Init
<1>2. \A m \in Messages : Step(m) = "none"
  BY NoRunnerFields DEF Init, Step
<1> QED
  BY <1>1, <1>2 DEF TurnInv, Owner, RowHoldsTurn

\* Steps that change neither the row's status and turn nor a goroutine.
LEMMA TurnUntouched ==
  ASSUME TurnInv, runner' = runner, row'.status = row.status, row'.turn = row.turn,
         lock'.op \notin {"steer", "restart", "clear"},
         \/ lock' = lock
         \/ lock'.op \in {"append", "edit", "delete", "title"} => lock'.row.status = row.status,
         lock'.op = "direct" => lock'.row.status = "running",
         \/ job' = job
         \/ job'.phase \notin {"running", "finishing"}
         \/ job.phase = "running" /\ job'.msg = job.msg
  PROVE  TurnInv'
<1>1. \A m : Step(m)' = Step(m)
  BY DEF Step
<1>2. job'.phase \in {"running", "finishing"} =>
        job.phase \in {"running", "finishing"} /\ job'.msg = job.msg
  OBVIOUS
<1>3. \A m \in Messages : Owner(m)' => row'.status = "running" /\ job'.phase \notin {"running", "finishing"}
  BY <1>1, <1>2 DEF TurnInv, Owner
<1>4. RowHoldsTurn'
  BY <1>2 DEF TurnInv, RowHoldsTurn
<1>5. lock'.op \in {"append", "edit", "delete", "title"} /\ row'.status = "running" =>
        lock'.row.status = "running"
  BY DEF TurnInv
<1> QED
  BY <1>1, <1>3, <1>4, <1>5 DEF TurnInv, Owner

\* Steps of one goroutine or of the lock's holder, by what they make of the owner.
LEMMA TurnMoves ==
  ASSUME TurnInv, NEW m \in Messages, NEW s \in {"none", "start", "direct", "put back"},
         \A n \in Messages : Step(n)' = IF n = m THEN s ELSE Step(n),
         \/ Owner(m)
         \/ s # "none" /\ \A n \in Messages : ~Owner(n),
         s # "none" => row'.status = "running" /\ job'.phase \notin {"running", "finishing"},
         lock' = lock \/ lock'.op = "free",
         lock' = lock => row.status = "running" \/ row'.status # "running",
         RowHoldsTurn'
  PROVE  TurnInv'
<1>1. \A n \in Messages : Step(n)' \in {"none", "start", "direct", "put back"}
  BY DEF TurnInv
<1>2. \A n \in Messages : n # m => ~Owner(n)
  BY DEF TurnInv
<1>3. \A n \in Messages : n # m => ~Owner(n)'
  BY <1>2 DEF Owner
<1>4. Owner(m)' => s # "none"
  BY DEF Owner
<1>5. \A a, b \in Messages : Owner(a)' /\ Owner(b)' => a = b
  BY <1>3
<1>6. \A n \in Messages : Owner(n)' => row'.status = "running" /\ job'.phase \notin {"running", "finishing"}
  BY <1>3, <1>4
<1>7. /\ lock'.op \notin {"steer", "restart", "clear"}
      /\ lock'.op \in {"append", "edit", "delete", "title"} /\ row'.status = "running" =>
           lock'.row.status = "running"
      /\ lock'.op = "direct" => lock'.row.status = "running"
  BY DEF TurnInv
<1> QED
  BY <1>1, <1>5, <1>6, <1>7 DEF TurnInv

LEMMA HeldStatus ==
  ASSUME row \in Rows
  PROVE  /\ \A s : [row EXCEPT !.public = s].status = row.status
         /\ [row EXCEPT !.status = "running"].status = "running"
BY DEF Rows

LEMMA TurnLoads ==
  ASSUME QueueInv, TurnInv,
         \/ \E m \in Public : LoadAppend(m) \/ LoadDirect(m)
         \/ LoadReorder \/ LoadDelete \/ LoadTitle
         \/ \E m \in Messages : LoadRestore(m)
  PROVE  TurnInv'
<1>1. row' = row /\ runner' = runner /\ job' = job
  BY DEF LoadAppend, LoadDirect, LoadReorder, LoadDelete, LoadTitle, LoadRestore
<1>2. /\ lock'.op \in {"append", "edit", "delete", "title", "direct", "put back"}
      /\ lock'.op \in {"append", "edit", "delete", "title"} => lock'.row.status = row.status
      /\ lock'.op = "direct" => lock'.row.status = "running"
  <2>1. CASE \E m \in Public : LoadAppend(m)
    <3>1. PICK m, s : lock' = [op |-> "append", msg |-> m, at |-> 1, row |-> [row EXCEPT !.public = s]]
      BY <2>1 DEF LoadAppend, Hold
    <3>2. lock'.op = "append" /\ lock'.row = [row EXCEPT !.public = s]
      BY <3>1
    <3> QED
      BY <3>2, HeldStatus, TypeNow
  <2>2. CASE \E m \in Public : LoadDirect(m)
    <3>1. PICK m : lock' = [op |-> "direct", msg |-> m, at |-> 1, row |-> [row EXCEPT !.status = "running"]]
      BY <2>2 DEF LoadDirect, Hold
    <3>2. lock'.op = "direct" /\ lock'.row = [row EXCEPT !.status = "running"]
      BY <3>1
    <3> QED
      BY <3>2, HeldStatus, TypeNow
  <2>3. CASE LoadReorder
    <3>1. PICK s : lock' = [op |-> "edit", msg |-> None, at |-> 1, row |-> [row EXCEPT !.public = s]]
      BY <2>3 DEF LoadReorder, Hold
    <3>2. lock'.op = "edit" /\ lock'.row = [row EXCEPT !.public = s]
      BY <3>1
    <3> QED
      BY <3>2, HeldStatus, TypeNow
  <2>4. CASE LoadDelete
    <3>1. PICK m, s : lock' = [op |-> "delete", msg |-> m, at |-> 1, row |-> [row EXCEPT !.public = s]]
      BY <2>4 DEF LoadDelete, Hold
    <3>2. lock'.op = "delete" /\ lock'.row = [row EXCEPT !.public = s]
      BY <3>1
    <3> QED
      BY <3>2, HeldStatus, TypeNow
  <2>5. CASE LoadTitle
    <3>1. lock' = [op |-> "title", msg |-> None, at |-> 1, row |-> row]
      BY <2>5 DEF LoadTitle, Hold
    <3>2. lock'.op = "title" /\ lock'.row = row
      BY <3>1
    <3> QED
      BY <3>2
  <2>6. CASE \E m \in Messages : LoadRestore(m)
    <3>1. PICK m, at, r : lock' = [op |-> "put back", msg |-> m, at |-> at, row |-> r]
      BY <2>6 DEF LoadRestore, Hold
    <3>2. lock'.op = "put back"
      BY <3>1
    <3> QED
      BY <3>2
  <2> QED
    BY <2>1, <2>2, <2>3, <2>4, <2>5, <2>6
<1> QED
  BY <1>1, <1>2, TurnUntouched

LEMMA TurnQuiet ==
  ASSUME QueueInv, TurnInv,
         \/ \E m \in Public : DirectSteers(m)
         \/ \E m \in Internal : EnqueueInternal(m)
         \/ Stop \/ TurnEnds \/ ResumeAgent \/ RetireAgent \/ ClaimDirectRefused
         \/ UNCHANGED vars
  PROVE  TurnInv'
<1>1. runner' = runner
  BY DEF DirectSteers, EnqueueInternal, Stop, TurnEnds, ResumeAgent, RetireAgent,
         ClaimDirectRefused, vars
<1>2. row'.status = row.status /\ row'.turn = row.turn
  <2>1. CASE \E m \in Internal : EnqueueInternal(m)
    <3>1. PICK s : row' = [row EXCEPT !.internal = s]
      BY <2>1 DEF EnqueueInternal
    <3>2. row \in Rows
      BY TypeNow
    <3> QED
      BY <3>1, <3>2 DEF Rows
  <2>2. CASE row' = row
    BY <2>2
  <2> QED
    BY <2>1, <2>2 DEF DirectSteers, Stop, TurnEnds, ResumeAgent, RetireAgent, ClaimDirectRefused, vars
<1>3. lock' = lock \/ lock'.op = "free"
  BY FreeFits DEF DirectSteers, EnqueueInternal, Stop, TurnEnds, ResumeAgent, RetireAgent,
         ClaimDirectRefused, vars
<1>4. \/ job' = job
      \/ job'.phase \notin {"running", "finishing"}
      \/ job.phase = "running" /\ job'.msg = job.msg
  <2>1. CASE TurnEnds \/ Stop
    <3>1. PICK e \in {"idle", "failed", "cancelled"} :
            job' = [job EXCEPT !.phase = "finishing", !.ending = e]
      BY <2>1 DEF TurnEnds, Stop
    <3>2. job.phase = "running"
      BY <2>1 DEF TurnEnds, Stop
    <3> QED
      BY <3>1, <3>2, TypeNow, JobEnds
  <2>2. CASE ResumeAgent \/ RetireAgent
    BY <2>2, JobWithoutTurn DEF ResumeAgent, RetireAgent
  <2>3. CASE job' = job
    BY <2>3
  <2> QED
    BY <2>1, <2>2, <2>3 DEF DirectSteers, EnqueueInternal, ClaimDirectRefused, vars
<1> QED
  BY <1>1, <1>2, <1>3, <1>4, TurnUntouched DEF TurnInv

LEMMA TurnSaveQueue ==
  ASSUME QueueInv, TurnInv, SaveQueue
  PROVE  TurnInv'
<1>1. /\ lock.op \in {"append", "edit", "delete", "title"} /\ SaveSession(lock.row)
      /\ lock' = Free /\ runner' = runner /\ job' = job
  BY DEF SaveQueue
<1>2. row'.status = lock.row.status
      /\ row'.turn = IF lock.row.status = "running" THEN row.turn ELSE None
  BY <1>1, TypeNow, SessionSaved
<1>3. row.status = "running" => row'.status = "running" /\ row'.turn = row.turn
  BY <1>1, <1>2 DEF TurnInv
<1>4. \A m : Step(m)' = Step(m)
  BY <1>1 DEF Step
<1>5. lock'.op = "free"
  BY <1>1, FreeFits
<1>6. RowHoldsTurn'
  BY <1>1, <1>3 DEF TurnInv, RowHoldsTurn
<1> QED
  BY <1>1, <1>3, <1>4, <1>5, <1>6 DEF TurnInv, Owner

LEMMA TurnClaimDirect ==
  ASSUME QueueInv, TurnInv, ClaimDirect
  PROVE  TurnInv'
<1>1. /\ lock.op = "direct" /\ row.status # "running" /\ row' = [lock.row EXCEPT !.turn = lock.msg]
      /\ Become(lock.msg, "direct") /\ lock' = Free /\ job' = job
  BY DEF ClaimDirect
<1>2. lock.msg \in Messages
  BY <1>1 DEF QueueInv, LockFits, Messages
<1>3. row'.status = "running"
  <2>1. row'.status = lock.row.status
    BY <1>1, TypeNow, TurnSet
  <2> QED
    BY <1>1, <2>1 DEF TurnInv
<1>4. \A n \in Messages : Step(n)' = IF n = lock.msg THEN "direct" ELSE Step(n)
  BY <1>1, <1>2, TypeNow, Becomes DEF Steps
<1>5. job'.phase \notin {"running", "finishing"} /\ \A n \in Messages : ~Owner(n)
  BY <1>1 DEF TurnInv, RowHoldsTurn
<1>6. RowHoldsTurn' /\ lock'.op = "free" /\ (lock' = lock => FALSE)
  BY <1>1, <1>5, FreeFits DEF RowHoldsTurn
<1> QED
  BY <1>2, <1>3, <1>4, <1>5, <1>6, TurnMoves

LEMMA TurnSaveRestore ==
  ASSUME QueueInv, TurnInv, SaveRestore
  PROVE  TurnInv'
<1>1. /\ lock.op = "put back" /\ lock' = Free /\ Become(lock.msg, "none") /\ job' = job
  BY DEF SaveRestore
<1>2. lock.msg \in Messages /\ Owner(lock.msg)
  BY <1>1 DEF QueueInv, LockFits, Owner
<1>3. \A n \in Messages : Step(n)' = IF n = lock.msg THEN "none" ELSE Step(n)
  BY <1>1, <1>2, TypeNow, Becomes DEF Steps
<1>4. job'.phase \notin {"running", "finishing"}
  BY <1>1, <1>2 DEF TurnInv
<1>5. RowHoldsTurn' /\ lock'.op = "free" /\ (lock' = lock => FALSE)
  BY <1>1, <1>4, FreeFits DEF RowHoldsTurn
<1> QED
  BY <1>2, <1>3, <1>5, TurnMoves

LEMMA TurnStarts ==
  ASSUME QueueInv, TurnInv, NEW m \in Messages, StartTurn(m)
  PROVE  TurnInv'
<1>1. /\ Step(m) \in {"start", "direct", "restart"} /\ lock' = lock
      /\ Become(m, IF Step(m) = "restart" THEN "clear" ELSE "none")
      /\ row' = [row EXCEPT !.status = "running", !.turn = m]
      /\ job' = [phase |-> "running", msg |-> m, ending |-> ""]
  BY DEF StartTurn
<1>2. Owner(m) /\ Become(m, "none")
  BY <1>1 DEF TurnInv, Owner
<1>3. \A n \in Messages : Step(n)' = IF n = m THEN "none" ELSE Step(n)
  BY <1>2, TypeNow, Becomes DEF Steps
<1>4. row'.status = "running" /\ row'.turn = m /\ job'.msg = m
  BY <1>1, TypeNow DEF Rows
<1>5. RowHoldsTurn' /\ row.status = "running"
  BY <1>2, <1>4 DEF TurnInv, RowHoldsTurn
<1> QED
  BY <1>1, <1>2, <1>3, <1>5, TurnMoves

LEMMA TurnStartRefused ==
  ASSUME QueueInv, TurnInv, NEW m \in Messages, StartRefused(m)
  PROVE  TurnInv'
<1>1. /\ Step(m) \in {"start", "restart"} /\ Become(m, "put back")
      /\ row' = row /\ lock' = lock /\ job' = job
  BY DEF StartRefused
<1>2. Owner(m)
  BY <1>1 DEF TurnInv, Owner
<1>3. \A n \in Messages : Step(n)' = IF n = m THEN "put back" ELSE Step(n)
  BY <1>1, TypeNow, Becomes DEF Steps
<1>4. row'.status = "running" /\ job'.phase \notin {"running", "finishing"} /\ RowHoldsTurn'
  BY <1>1, <1>2 DEF TurnInv, RowHoldsTurn
<1> QED
  BY <1>1, <1>2, <1>3, <1>4, TurnMoves

LEMMA TurnDirectFails ==
  ASSUME QueueInv, TurnInv, NEW m \in Messages, DirectFails(m)
  PROVE  TurnInv'
<1>1. /\ Step(m) = "direct" /\ UpdateSessionStatus("error") /\ Become(m, "none")
      /\ lock' = lock /\ job' = job
  BY DEF DirectFails
<1>2. Owner(m)
  BY <1>1 DEF Owner
<1>3. \A n \in Messages : Step(n)' = IF n = m THEN "none" ELSE Step(n)
  BY <1>1, TypeNow, Becomes DEF Steps
<1>4. row'.status = "error"
  BY <1>1, TypeNow, StatusWritten
<1>5. RowHoldsTurn'
  BY <1>1, <1>2 DEF TurnInv, RowHoldsTurn
<1> QED
  BY <1>1, <1>2, <1>3, <1>4, <1>5, TurnMoves

\* The other goroutines' steps need a steer.
LEMMA NoSteerSteps ==
  ASSUME TurnInv, ~Steers,
         \/ \E m \in Messages : \/ SteerAccepted(m) \/ SteerUnsupported(m) \/ SteerFails(m)
                                \/ CancelForSteer(m) \/ MarkRunning(m)
                                \/ LoadClear(m) \/ NothingToClear(m)
         \/ LoadSteer \/ SaveSteer \/ SaveClear
  PROVE  FALSE
BY DEF TurnInv, SteerAccepted, SteerUnsupported, SteerFails, CancelForSteer, MarkRunning,
       LoadClear, NothingToClear, LoadSteer, SaveSteer, SaveClear

LEMMA TurnFinishes ==
  ASSUME QueueInv, TurnInv, FinishTurn
  PROVE  TurnInv'
<1> DEFINE s == IF job.ending = "failed" THEN "error" ELSE "idle"
           p == IF job.ending = "cancelled" /\ row.steer # None THEN "idle" ELSE "draining"
<1>1. /\ job.phase = "finishing" /\ UpdateSessionStatus(s) /\ job' = NoTurn(p)
      /\ lock = Free /\ lock' = lock /\ runner' = runner
  BY DEF FinishTurn
<1>2. job'.phase \notin {"running", "finishing"}
  BY <1>1, JobWithoutTurn
<1>3. \A m : Step(m)' = Step(m)
  BY <1>1 DEF Step
<1>4. \A m \in Messages : ~Owner(m)
  BY <1>1 DEF TurnInv
<1>5. \A m \in Messages : ~Owner(m)'
  BY <1>3, <1>4 DEF Owner
<1>6. lock'.op = "free" /\ RowHoldsTurn'
  BY <1>1, <1>2, FreeFits DEF RowHoldsTurn
<1> QED
  BY <1>3, <1>5, <1>6 DEF TurnInv

LEMMA TurnDrains ==
  ASSUME QueueInv, TurnInv, Drain \/ FinishDrains
  PROVE  TurnInv'
<1>1. /\ ClaimNextTurn /\ lock = Free /\ lock' = lock /\ lock'.op = "free"
      /\ job' = job \/ job' = NoTurn("idle")
  BY FreeFits DEF Drain, FinishDrains
<1>2. job' = job \/ job'.phase \notin {"running", "finishing"}
  BY <1>1, JobWithoutTurn
<1>3. CASE UNCHANGED <<row, runner, parked>>
  <2>1. runner' = runner /\ row'.status = row.status /\ row'.turn = row.turn
    BY <1>3
  <2> QED
    BY <1>1, <1>2, <2>1, TurnUntouched
<1>4. CASE /\ TakesQueuedTurns(row) /\ HasWaiting(row)
           /\ row' = [WithoutNextPrompt(row) EXCEPT !.status = "running", !.turn = NextPrompt(row)]
           /\ runner' = [runner EXCEPT ![NextPrompt(row)] = [step |-> "start", at |-> 1]]
  <2> DEFINE m == NextPrompt(row)
             q == WithoutNextPrompt(row)
             x == [step |-> "start", at |-> 1]
  <2>1. m \in Messages /\ q \in Rows
    BY <1>4, NextTaken
  <2>2. row' = [q EXCEPT !.status = "running", !.turn = m] /\ runner' = [runner EXCEPT ![m] = x]
    BY <1>4
  <2>3. x \in Runners /\ x.step = "start"
    <3>1. x.step = "start" /\ "start" \in Steps /\ 1 \in Nat \ {0}
      BY DEF Steps
    <3> QED
      BY <3>1 DEF Runners
  <2> HIDE DEF q, m, x
  <2>4. row'.status = "running"
    BY <2>1, <2>2 DEF Rows
  <2>5. \A n \in Messages : Step(n)' = IF n = m THEN "start" ELSE Step(n)
    BY <2>1, <2>2, <2>3, TypeNow, RunnerSet
  <2>6. row.status # "running"
    BY <1>4 DEF TakesQueuedTurns
  <2>7. (\A n \in Messages : ~Owner(n)) /\ job'.phase \notin {"running", "finishing"}
    BY <1>2, <2>6 DEF TurnInv, RowHoldsTurn
  <2>8. RowHoldsTurn'
    BY <2>7 DEF RowHoldsTurn
  <2>9. \A n \in Messages : Owner(n)' => n = m
    BY <2>5, <2>7 DEF Owner
  <2>10. \A n \in Messages : Step(n)' \in {"none", "start", "direct", "put back"}
    BY <2>5 DEF TurnInv
  <2> QED
    BY <1>1, <2>4, <2>7, <2>8, <2>9, <2>10 DEF TurnInv
<1> QED
  BY <1>1, <1>3, <1>4 DEF ClaimNextTurn

LEMMA TurnInvNext ==
  ASSUME ~Steers
  PROVE  QueueInv /\ TurnInv /\ [Next]_vars => TurnInv'
<1> SUFFICES ASSUME QueueInv, TurnInv, [Next]_vars PROVE TurnInv'
  OBVIOUS
<1>1. CASE Clients
  BY <1>1, TurnLoads, TurnQuiet, NoSteerSteps DEF Clients
<1>2. CASE \E m \in Messages : Carry(m)
  BY <1>2, TurnStarts, TurnStartRefused, TurnDirectFails, NoSteerSteps DEF Carry
<1>3. CASE \E m \in Messages : Settle(m)
  BY <1>3, TurnLoads, NoSteerSteps DEF Settle
<1>4. CASE Save
  BY <1>4, TurnSaveQueue, TurnClaimDirect, TurnQuiet, TurnSaveRestore, NoSteerSteps DEF Save
<1>5. CASE Drain \/ FinishDrains
  BY <1>5, TurnDrains
<1>6. CASE ResumeAgent \/ RetireAgent \/ TurnEnds \/ UNCHANGED vars
  BY <1>6, TurnQuiet
<1>7. CASE FinishTurn
  BY <1>7, TurnFinishes
<1> QED
  BY <1>1, <1>2, <1>3, <1>4, <1>5, <1>6, <1>7 DEF Next

\* As long as nobody steers, the row holds the turn that runs until its end is
\* recorded: no save of a row loaded earlier, no failed start and no drain takes
\* the thread from it (server/queue.go).
THEOREM RowKeepsTurn ==
  ASSUME ~Steers
  PROVE  Spec => []RowHoldsTurn
<1>1. QueueInv /\ TurnInv /\ [Next]_vars => TurnInv'
  BY TurnInvNext
<1>2. TurnInv => RowHoldsTurn
  BY DEF TurnInv
<1> QED
  BY <1>1, <1>2, TurnInvInit, QueueInvariant, PTL DEF Spec

(***************************************************************************)
(* The order of the lines.  As long as nobody steers, the queue serves its *)
(* lines in order: whatever loads, saves, claims and failed starts         *)
(* overlap, it implements MessageLine.  A message the server has claimed   *)
(* and not yet given to the agent counts as the head of its line.          *)
(***************************************************************************)

-----------------------------------------------------------------------------
(* Sequences: a line f \o s, of which f is claimed and s is stored *)

LEMMA FrontNone == SetToSeq({}) = <<>>
<1> DEFINE ok(f) == f \in [1..Cardinality({}) -> {}] /\ IsInjective(f)
<1>1. Cardinality({}) = 0 /\ 1..0 = {}
  BY FS_EmptySet
<1>2. <<>> \in [1..0 -> {}] /\ IsInjective(<<>>)
  BY DEF IsInjective
<1>3. ok(<<>>)
  BY <1>1, <1>2
<1>4. SetToSeq({}) = CHOOSE f : ok(f)
  BY DEF SetToSeq
<1>5. ok(SetToSeq({}))
  BY <1>3, <1>4
<1>6. SetToSeq({}) \in [1..0 -> {}]
  BY <1>1, <1>5
<1>7. SetToSeq({}) \in Seq({}) /\ Len(SetToSeq({})) = 0
  BY <1>6, SeqDef, LenProperties
<1> QED
  BY <1>7, EmptySeq

LEMMA FrontOne ==
  ASSUME NEW m
  PROVE  SetToSeq({m}) = <<m>>
<1> DEFINE ok(f) == f \in [1..Cardinality({m}) -> {m}] /\ IsInjective(f)
<1>1. Cardinality({m}) = 1
  BY FS_Singleton
<1>2. <<m>> \in [1..1 -> {m}] /\ IsInjective(<<m>>)
  BY DEF IsInjective
<1>3. ok(<<m>>)
  BY <1>1, <1>2
<1>4. SetToSeq({m}) = CHOOSE f : ok(f)
  BY DEF SetToSeq
<1>5. ok(SetToSeq({m}))
  BY <1>3, <1>4
<1>6. SetToSeq({m}) \in [1..1 -> {m}]
  BY <1>1, <1>5
<1>7. \A f \in [1..1 -> {m}] : f = <<m>>
  OBVIOUS
<1> QED
  BY <1>6, <1>7

LEMMA ClaimedThenStored ==
  ASSUME NEW S, NEW f \in Seq(S), NEW s \in Seq(S)
  PROVE  /\ f \o s \in Seq(S) /\ Len(f \o s) = Len(f) + Len(s)
         /\ Len(f) \in Nat /\ Len(s) \in Nat
         /\ DOMAIN f = 1..Len(f) /\ DOMAIN s = 1..Len(s)
         /\ DOMAIN (f \o s) = 1..(Len(f) + Len(s))
         /\ \A i \in 1..Len(f) : (f \o s)[i] = f[i]
         /\ \A i \in 1..Len(s) : (f \o s)[Len(f) + i] = s[i]
         /\ Range(f \o s) = Range(f) \union Range(s)
<1>1. /\ f \o s \in Seq(S) /\ Len(f \o s) = Len(f) + Len(s)
      /\ Len(f) \in Nat /\ Len(s) \in Nat
      /\ DOMAIN f = 1..Len(f) /\ DOMAIN s = 1..Len(s)
      /\ DOMAIN (f \o s) = 1..(Len(f) + Len(s))
      /\ \A i \in 1..(Len(f) + Len(s)) : (f \o s)[i] = IF i <= Len(f) THEN f[i] ELSE s[i - Len(f)]
  BY ConcatProperties, LenProperties
<1> DEFINE n == Len(f)
           k == Len(s)
           t == f \o s
<1>2. n \in Nat /\ k \in Nat /\ \A i \in 1..(n + k) : t[i] = IF i <= n THEN f[i] ELSE s[i - n]
  BY <1>1
<1> HIDE DEF n, k, t
<1>3. \A i \in 1..n : t[i] = f[i]
  BY <1>2
<1>4. \A i \in 1..k : t[n + i] = s[i]
  <2> SUFFICES ASSUME NEW i \in 1..k PROVE t[n + i] = s[i]
    OBVIOUS
  <2>1. n + i \in 1..(n + k) /\ ~(n + i <= n) /\ (n + i) - n = i
    BY <1>2
  <2> QED
    BY <1>2, <2>1
<1>5. \A i \in 1..(n + k) : i \in 1..n \/ \E j \in 1..k : i = n + j
  <2> SUFFICES ASSUME NEW i \in 1..(n + k), i \notin 1..n PROVE \E j \in 1..k : i = n + j
    OBVIOUS
  <2>1. i - n \in 1..k /\ i = n + (i - n)
    BY <1>2
  <2> QED
    BY <2>1
<1>6. \A j \in 1..k : n + j \in 1..(n + k)
  BY <1>2
<1>7. \A j \in 1..n : j \in 1..(n + k)
  BY <1>2
<1>8. DOMAIN f = 1..n /\ DOMAIN s = 1..k /\ DOMAIN t = 1..(n + k)
  BY <1>1 DEF n, k, t
<1>9. Range(t) = Range(f) \union Range(s)
  <2>1. \A x : x \in Range(t) => x \in Range(f) \union Range(s)
    BY <1>3, <1>4, <1>5, <1>8 DEF Range
  <2>2. \A x : x \in Range(f) \union Range(s) => x \in Range(t)
    BY <1>3, <1>4, <1>6, <1>7, <1>8 DEF Range
  <2> QED
    BY <2>1, <2>2
<1> QED
  BY <1>1, <1>3, <1>4, <1>9 DEF n, k, t

LEMMA AheadAppend ==
  ASSUME NEW S, NEW f \in Seq(S), NEW s \in Seq(S), NEW m \in S
  PROVE  f \o Append(s, m) = Append(f \o s, m)
<1>1. <<m>> \in Seq(S) /\ f \o s \in Seq(S)
  BY ConcatProperties
<1>2. f \o (s \o <<m>>) = (f \o s) \o <<m>>
  BY <1>1, ConcatAssociative
<1> QED
  BY <1>1, <1>2, AppendIsConcat

LEMMA HeadAhead ==
  ASSUME NEW S, NEW s \in Seq(S), NEW m \in S
  PROVE  /\ <<m>> \o s \in Seq(S) /\ <<m>> \o s # <<>>
         /\ Head(<<m>> \o s) = m /\ Tail(<<m>> \o s) = s
<1>1. <<m>> \in Seq(S) /\ Len(<<m>>) = 1 /\ <<m>>[1] = m
  OBVIOUS
<1> DEFINE t == <<m>> \o s
           n == Len(s)
<1>2. /\ t \in Seq(S) /\ Len(t) = 1 + n /\ n \in Nat /\ DOMAIN s = 1..n
      /\ t[1] = m /\ \A i \in 1..n : t[1 + i] = s[i]
  <2>f. PICK f : f = <<m>>
    OBVIOUS
  <2>1. f = <<m>> /\ f \in Seq(S) /\ Len(f) = 1 /\ f[1] = m /\ 1 \in 1..1
    BY <1>1, <2>f
  <2> HIDE DEF t, n
  <2>2. /\ f \o s \in Seq(S) /\ Len(f \o s) = Len(f) + Len(s) /\ Len(s) \in Nat
        /\ DOMAIN s = 1..Len(s)
        /\ \A i \in 1..Len(f) : (f \o s)[i] = f[i]
        /\ \A i \in 1..Len(s) : (f \o s)[Len(f) + i] = s[i]
    BY <2>1, ClaimedThenStored
  <2>3. t = f \o s /\ n = Len(s)
    BY <2>1 DEF t, n
  <2> QED
    BY <2>1, <2>2, <2>3
<1> HIDE DEF t, n
<1>3. t # <<>>
  BY <1>2
<1>4. /\ Head(t) = t[1] /\ Tail(t) \in Seq(S) /\ Len(Tail(t)) = Len(t) - 1
      /\ \A i \in 1..(Len(t) - 1) : Tail(t)[i] = t[i + 1]
  BY <1>2, <1>3, HeadTailProperties, LenProperties
<1>5. Len(Tail(t)) = n /\ \A i \in 1..n : Tail(t)[i] = s[i]
  BY <1>2, <1>4
<1>6. Tail(t) = s
  <2>1. DOMAIN Tail(t) = 1..n
    BY <1>4, <1>5, LenProperties
  <2> QED
    BY <1>2, <1>4, <1>5, <2>1, SeqEqual
<1> QED
  BY <1>2, <1>3, <1>4, <1>6 DEF t

LEMMA HeadTaken ==
  ASSUME NEW S, NEW s \in Seq(S), s # <<>>
  PROVE  <<Head(s)>> \o Tail(s) = s
<1>1. /\ Head(s) \in S /\ Tail(s) \in Seq(S) /\ Len(s) \in Nat \ {0}
      /\ Len(Tail(s)) = Len(s) - 1 /\ Head(s) = s[1]
      /\ \A i \in 1..(Len(s) - 1) : Tail(s)[i] = s[i + 1]
  BY HeadTailProperties, LenProperties, EmptySeq
<1>f. PICK f : f = <<Head(s)>>
  OBVIOUS
<1>2. f = <<Head(s)>> /\ f \in Seq(S) /\ Len(f) = 1 /\ f[1] = s[1] /\ 1 \in 1..1
  BY <1>1, <1>f
<1>t. PICK t \in Seq(S) : t = Tail(s)
  BY <1>1
<1>3. /\ f \o t \in Seq(S) /\ Len(f \o t) = Len(f) + Len(t)
      /\ \A i \in 1..Len(f) : (f \o t)[i] = f[i]
      /\ \A i \in 1..Len(t) : (f \o t)[Len(f) + i] = t[i]
  BY <1>2, ClaimedThenStored
<1> DEFINE n == Len(s)
<1> HIDE DEF n
<1>4. n \in Nat \ {0} /\ Len(t) = n - 1 /\ \A i \in 1..(n - 1) : t[i] = s[i + 1]
  BY <1>1, <1>t DEF n
<1>5. \A i \in 1..n : (f \o t)[i] = s[i]
  <2> SUFFICES ASSUME NEW i \in 1..n PROVE (f \o t)[i] = s[i]
    OBVIOUS
  <2>1. CASE i = 1
    BY <1>2, <1>3, <2>1
  <2>2. CASE i # 1
    <3>1. i - 1 \in 1..(n - 1) /\ 1 + (i - 1) = i /\ (i - 1) + 1 = i
      BY <1>4, <2>2
    <3> QED
      BY <1>2, <1>3, <1>4, <3>1
  <2> QED
    BY <2>1, <2>2
<1>6. Len(f \o t) = Len(s)
  BY <1>2, <1>3, <1>4 DEF n
<1>7. f \o t = s
  BY <1>3, <1>5, <1>6, SeqEqual DEF n
<1> QED
  BY <1>2, <1>t, <1>7

LEMMA InsertedFirst ==
  ASSUME NEW S, NEW s \in Seq(S), NEW m \in S
  PROVE  Restored(s, 1, m) = <<m>> \o s
<1> DEFINE k == IF 1 > Len(s) THEN Len(s) + 1 ELSE 1
<1>1. Len(s) \in Nat /\ <<m>> \in Seq(S)
  BY LenProperties
<1>2. k = 1
  BY <1>1
<1>3. Restored(s, 1, m) = InsertAt(s, k, m)
  BY DEF Restored
<1>4. InsertAt(s, 1, m) = SubSeq(s, 1, 1 - 1) \o <<m>> \o SubSeq(s, 1, Len(s))
  BY DEF InsertAt
<1>5. SubSeq(s, 1, 1 - 1) = <<>>
  BY SubSeqEmpty
<1>6. SubSeq(s, 1, Len(s)) = s
  BY SubSeqFull
<1>7. <<>> \o <<m>> = <<m>>
  BY <1>1, ConcatEmptySeq
<1> QED
  BY <1>2, <1>3, <1>4, <1>5, <1>6, <1>7

\* Taking a stored message out leaves what is claimed where it is.
LEMMA RemovedBehind ==
  ASSUME NEW S, NEW f \in Seq(S), NEW s \in Seq(S), NEW i \in DOMAIN s
  PROVE  /\ Len(f) + i \in DOMAIN (f \o s) /\ (f \o s)[Len(f) + i] = s[i]
         /\ RemoveAt(f \o s, Len(f) + i) = f \o RemoveAt(s, i)
<1> DEFINE n == Len(f)
           k == Len(s)
           t == f \o s
           a == RemoveAt(t, n + i)
           r == RemoveAt(s, i)
           b == f \o r
<1>1. /\ t \in Seq(S) /\ Len(t) = n + k /\ n \in Nat /\ k \in Nat
      /\ DOMAIN s = 1..k /\ DOMAIN t = 1..(n + k)
      /\ \A j \in 1..n : t[j] = f[j]
      /\ \A j \in 1..k : t[n + j] = s[j]
  BY ClaimedThenStored
<1>2. r \in Seq(S) /\ Len(r) = k - 1 /\ \A j \in 1..(k - 1) : r[j] = IF j < i THEN s[j] ELSE s[j + 1]
  BY RemovedAt
<1> HIDE DEF n, k, t
<1>3. i \in 1..k /\ n + i \in DOMAIN t
  BY <1>1
<1>4. a \in Seq(S) /\ Len(a) = (n + k) - 1
      /\ \A j \in 1..((n + k) - 1) : a[j] = IF j < n + i THEN t[j] ELSE t[j + 1]
  BY <1>1, <1>3, RemovedAt
<1> HIDE DEF r, a, b
<1>5. /\ b \in Seq(S) /\ Len(b) = n + (k - 1)
      /\ \A j \in 1..n : b[j] = f[j]
      /\ \A j \in 1..(k - 1) : b[n + j] = r[j]
  <2>1. r \in Seq(S)
    BY <1>2
  <2>2. /\ f \o r \in Seq(S) /\ Len(f \o r) = Len(f) + Len(r)
        /\ \A j \in 1..Len(f) : (f \o r)[j] = f[j]
        /\ \A j \in 1..Len(r) : (f \o r)[Len(f) + j] = r[j]
    BY <2>1, ClaimedThenStored
  <2> QED
    BY <1>2, <2>2 DEF n, b
<1>6. ASSUME NEW j \in 1..((n + k) - 1) PROVE a[j] = b[j]
  <2>1. CASE j <= n
    <3>1. j \in 1..n /\ j < n + i
      BY <1>1, <1>3, <2>1
    <3> QED
      BY <1>1, <1>4, <1>5, <3>1
  <2>2. CASE ~(j <= n)
    <3> DEFINE l == j - n
    <3>1. l \in 1..(k - 1) /\ l \in 1..k /\ l + 1 \in 1..k /\ j = n + l /\ j + 1 = n + (l + 1)
          /\ (j < n + i <=> l < i)
      BY <1>1, <1>3, <2>2
    <3> HIDE DEF l
    <3>2. b[j] = r[l]
      BY <1>2, <1>5, <3>1
    <3>3. t[j] = s[l] /\ t[j + 1] = s[l + 1]
      BY <1>1, <3>1
    <3> QED
      BY <1>2, <1>4, <3>1, <3>2, <3>3
  <2> QED
    BY <2>1, <2>2
<1>7. a = b
  BY <1>1, <1>4, <1>5, <1>6, SeqEqual
<1> QED
  BY <1>1, <1>3, <1>7 DEF a, b, r, t, n

\* A list of messages is an order of them.
LEMMA ListIsOrder ==
  ASSUME NEW S, NEW s \in Seq(S), IsInjective(s)
  PROVE  s \in SetToSeqs(Range(s))
<1> DEFINE n == Len(s)
           R == Range(s)
<1>1. n \in Nat /\ DOMAIN s = 1..n /\ s \in [1..n -> S]
  BY LenProperties
<1>2. s \in [1..n -> R]
  BY <1>1 DEF Range
<1>3. s \in Bijection(1..n, R)
  BY <1>1, <1>2 DEF Bijection, Injection, Surjection, Range, IsInjective
<1>4. IsFiniteSet(1..n) /\ Cardinality(1..n) = n
  BY <1>1, FS_Interval
<1>5. Cardinality(R) = n
  <2> HIDE DEF R, n
  <2>1. s \in Surjection(1..n, R) /\ s \in Injection(1..n, R)
    BY <1>3 DEF Bijection
  <2> QED
    BY <1>4, <2>1, FS_Surjection
<1>6. \A i, j \in 1..n : i # j => s[i] # s[j]
  BY <1>1 DEF IsInjective
<1> HIDE DEF R, n
<1>7. s \in SetToSeqs(R)
  BY <1>2, <1>5, <1>6 DEF SetToSeqs
<1> QED
  BY <1>7 DEF R

\* Reordering what is stored reorders the line.
LEMMA ReorderedBehind ==
  ASSUME NEW S, NEW f \in Seq(S), NEW s \in Seq(S), NEW t \in SetToSeqs(Range(s)),
         IsInjective(f), IsInjective(s), Range(f) \cap Range(s) = {}
  PROVE  f \o t \in SetToSeqs(Range(f \o s))
<1>1. t \in Seq(S) /\ IsInjective(t) /\ Range(t) = Range(s)
  BY LineReordered
<1> DEFINE n == Len(f)
           k == Len(t)
           a == f \o t
<1>2. Range(f \o s) = Range(f) \union Range(s)
  BY ClaimedThenStored
<1>3. /\ a \in Seq(S) /\ n \in Nat /\ k \in Nat
      /\ DOMAIN f = 1..n /\ DOMAIN t = 1..k /\ DOMAIN a = 1..(n + k)
      /\ \A j \in 1..n : a[j] = f[j]
      /\ \A j \in 1..k : a[n + j] = t[j]
      /\ Range(a) = Range(f) \union Range(t)
  BY <1>1, ClaimedThenStored
<1> HIDE DEF n, k, a
<1>4. \A j \in 1..(n + k) : j \in 1..n \/ \E l \in 1..k : j = n + l
  <2> SUFFICES ASSUME NEW j \in 1..(n + k), j \notin 1..n PROVE \E l \in 1..k : j = n + l
    OBVIOUS
  <2>1. j - n \in 1..k /\ j = n + (j - n)
    BY <1>3
  <2> QED
    BY <2>1
<1>5. \A x \in 1..n, y \in 1..k : f[x] # t[y]
  BY <1>1, <1>3 DEF Range
<1>6. ASSUME NEW x \in 1..(n + k), NEW y \in 1..(n + k), a[x] = a[y] PROVE x = y
  <2>1. CASE x \in 1..n /\ y \in 1..n
    BY <1>3, <1>6, <2>1 DEF IsInjective
  <2>2. CASE x \notin 1..n /\ y \notin 1..n
    <3>1. PICK u \in 1..k : x = n + u
      BY <1>4, <2>2
    <3>2. PICK v \in 1..k : y = n + v
      BY <1>4, <2>2
    <3>3. t[u] = t[v]
      BY <1>3, <1>6, <3>1, <3>2
    <3> QED
      BY <1>1, <1>3, <3>1, <3>2, <3>3 DEF IsInjective
  <2>3. CASE x \in 1..n /\ y \notin 1..n
    <3>1. PICK v \in 1..k : y = n + v
      BY <1>4, <2>3
    <3> QED
      BY <1>3, <1>5, <1>6, <2>3, <3>1
  <2>4. CASE x \notin 1..n /\ y \in 1..n
    <3>1. PICK v \in 1..k : x = n + v
      BY <1>4, <2>4
    <3> QED
      BY <1>3, <1>5, <1>6, <2>4, <3>1
  <2> QED
    BY <2>1, <2>2, <2>3, <2>4
<1>7. IsInjective(a)
  BY <1>3, <1>6 DEF IsInjective
<1>8. a \in SetToSeqs(Range(a))
  BY <1>3, <1>7, ListIsOrder
<1> QED
  BY <1>1, <1>2, <1>3, <1>8 DEF a

-----------------------------------------------------------------------------
(* The invariant: what the goroutines and the lock's holder are about to do *)
(* to the lines, in the order they have                                     *)

\* A goroutine that carries a claimed message has it from the head of a line.
CarriersFit ==
  \A m \in Messages :
    /\ Step(m) = "direct" => m \in Public
    /\ Step(m) \in {"start", "put back"} => runner[m].at = 1

\* The lines the holder is about to save differ from the stored ones by what it
\* was asked for and by nothing else.
LinesFit ==
  /\ lock.op \in {"append", "edit", "delete", "title", "direct"} => lock.row.internal = row.internal
  /\ lock.op \in {"title", "direct"} => lock.row.public = row.public
  /\ lock.op = "append" => lock.row.public = Append(row.public, lock.msg)
  /\ lock.op = "edit" => lock.row.public \in SetToSeqs(Range(row.public))
  /\ lock.op = "delete" =>
       \E i \in DOMAIN row.public :
         lock.msg = row.public[i] /\ lock.row.public = RemoveAt(row.public, i)
  /\ lock.op = "put back" =>
       IF lock.msg \in Public
       THEN lock.row.public = <<lock.msg>> \o row.public /\ lock.row.internal = row.internal
       ELSE lock.row.public = row.public /\ lock.row.internal = <<lock.msg>> \o row.internal

OrderInv == CarriersFit /\ LinesFit

LEMMA OrderInvInit == Init => OrderInv
<1> SUFFICES ASSUME Init PROVE OrderInv
  OBVIOUS
<1>1. lock.op = "free"
  BY FreeFits DEF Init
<1>2. \A m \in Messages : Step(m) = "none"
  BY NoRunnerFields DEF Init, Step
<1> QED
  BY <1>1, <1>2 DEF OrderInv, CarriersFit, LinesFit

LEMMA LinesKeptFit ==
  ASSUME LinesFit, row'.public = row.public, row'.internal = row.internal,
         lock' = lock \/ lock'.op = "free"
  PROVE  LinesFit'
<1>1. CASE lock' = lock
  BY <1>1 DEF LinesFit
<1>2. CASE lock'.op = "free"
  BY <1>2 DEF LinesFit
<1> QED
  BY <1>1, <1>2

LEMMA UnlockedFits ==
  ASSUME lock'.op = "free"
  PROVE  LinesFit'
BY DEF LinesFit

LEMMA CarriersKept ==
  ASSUME CarriersFit, runner' = runner
  PROVE  CarriersFit'
BY DEF CarriersFit, Step

\* A goroutine that moves on keeps its message's place.
LEMMA CarrierMoves ==
  ASSUME QueueInv, CarriersFit, NEW m \in Messages, NEW s \in {"none", "direct", "put back"},
         Become(m, s), s = "direct" => m \in Public, s = "put back" => Step(m) = "start"
  PROVE  CarriersFit'
<1>1. runner \in [Messages -> Runners] /\ s \in Steps
  BY TypeNow DEF Steps
<1>2. \A n \in Messages : Step(n)' = IF n = m THEN s ELSE Step(n)
  BY <1>1, Becomes
<1>3. \A n \in Messages : n # m => runner'[n] = runner[n]
  BY <1>1 DEF Become
<1>4. s # "none" => runner'[m].at = runner[m].at
  <2>1. runner[m] \in Runners
    BY <1>1
  <2>2. s # "none" => runner'[m] = [runner[m] EXCEPT !.step = s]
    BY <1>1 DEF Become
  <2> QED
    BY <2>1, <2>2 DEF Runners
<1> QED
  BY <1>2, <1>3, <1>4 DEF CarriersFit

LEMMA OrderLoads ==
  ASSUME QueueInv, OrderInv,
         \/ \E m \in Public : LoadAppend(m) \/ LoadDirect(m)
         \/ LoadReorder \/ LoadDelete \/ LoadTitle
         \/ \E m \in Messages : LoadRestore(m)
  PROVE  OrderInv'
<1>1. row' = row /\ runner' = runner
  BY DEF LoadAppend, LoadDirect, LoadReorder, LoadDelete, LoadTitle, LoadRestore
<1>r. /\ row \in Rows /\ row.public \in Seq(Public) /\ row.internal \in Seq(Internal)
  BY RowLines
<1>2. LinesFit'
  <2>1. ASSUME NEW m \in Public, LoadAppend(m) PROVE LinesFit'
    <3>1. PICK s : s = Append(row.public, m)
      OBVIOUS
    <3>2. s \in Seq(Public)
      BY <1>r, <3>1, AppendProperties
    <3>3. PICK r : r = [row EXCEPT !.public = s]
      OBVIOUS
    <3>4. r.public = s /\ r.internal = row.internal
      BY <1>r, <3>2, <3>3, PublicSet
    <3>5. lock' = [op |-> "append", msg |-> m, at |-> 1, row |-> r]
      BY <2>1, <3>1, <3>3 DEF LoadAppend, Hold
    <3>6. lock'.op = "append" /\ lock'.msg = m /\ lock'.row = r
      BY <3>5
    <3> QED
      BY <1>1, <3>1, <3>4, <3>6 DEF LinesFit
  <2>2. ASSUME NEW m \in Public, LoadDirect(m) PROVE LinesFit'
    <3>1. PICK r : r = [row EXCEPT !.status = "running"]
      OBVIOUS
    <3>2. r.public = row.public /\ r.internal = row.internal
      BY <1>r, <3>1, StatusSet
    <3>3. lock' = [op |-> "direct", msg |-> m, at |-> 1, row |-> r]
      BY <2>2, <3>1 DEF LoadDirect, Hold
    <3>4. lock'.op = "direct" /\ lock'.row = r
      BY <3>3
    <3> QED
      BY <1>1, <3>2, <3>4 DEF LinesFit
  <2>3. ASSUME LoadReorder PROVE LinesFit'
    <3>1. PICK s \in SetToSeqs(Range(row.public)) :
            Hold("edit", None, 1, [row EXCEPT !.public = s])
      BY <2>3 DEF LoadReorder
    <3>2. s \in Seq(Public)
      BY RowLines, LineReordered
    <3>3. PICK r : r = [row EXCEPT !.public = s]
      OBVIOUS
    <3>4. r.public = s /\ r.internal = row.internal
      BY <1>r, <3>2, <3>3, PublicSet
    <3>5. lock' = [op |-> "edit", msg |-> None, at |-> 1, row |-> r]
      BY <3>1, <3>3 DEF Hold
    <3>6. lock'.op = "edit" /\ lock'.row = r
      BY <3>5
    <3> QED
      BY <1>1, <3>1, <3>4, <3>6 DEF LinesFit
  <2>4. ASSUME LoadDelete PROVE LinesFit'
    <3>1. PICK i \in DOMAIN row.public :
            Hold("delete", row.public[i], 1, [row EXCEPT !.public = RemoveAt(row.public, i)])
      BY <2>4 DEF LoadDelete
    <3>2. PICK s : s = RemoveAt(row.public, i)
      OBVIOUS
    <3>3. s \in Seq(Public)
      BY <3>2, TakenOut
    <3>4. PICK r : r = [row EXCEPT !.public = s]
      OBVIOUS
    <3>5. r.public = s /\ r.internal = row.internal
      BY <1>r, <3>3, <3>4, PublicSet
    <3>6. lock' = [op |-> "delete", msg |-> row.public[i], at |-> 1, row |-> r]
      BY <3>1, <3>2, <3>4 DEF Hold
    <3>7. lock'.op = "delete" /\ lock'.msg = row.public[i] /\ lock'.row = r
      BY <3>6
    <3> QED
      BY <1>1, <3>2, <3>5, <3>7 DEF LinesFit
  <2>5. ASSUME LoadTitle PROVE LinesFit'
    <3>1. lock' = [op |-> "title", msg |-> None, at |-> 1, row |-> row]
      BY <2>5 DEF LoadTitle, Hold
    <3>2. lock'.op = "title" /\ lock'.row = row
      BY <3>1
    <3> QED
      BY <1>1, <3>2 DEF LinesFit
  <2>6. ASSUME NEW m \in Messages, LoadRestore(m) PROVE LinesFit'
    <3>1. Step(m) = "put back" /\ runner[m].at = 1
      BY <2>6 DEF LoadRestore, OrderInv, CarriersFit
    <3>2. PICK q : q = WithRestored(row, 1, m)
      OBVIOUS
    <3>3. /\ q \in Rows
          /\ IF m \in Public
             THEN q.public = <<m>> \o row.public /\ q.internal = row.internal
             ELSE q.public = row.public /\ q.internal = <<m>> \o row.internal
      <4>1. CASE m \in Public
        <5>1. PICK s : s = <<m>> \o row.public
          OBVIOUS
        <5>2. s \in Seq(Public) /\ Restored(row.public, 1, m) = s
          BY <1>r, <4>1, <5>1, HeadAhead, InsertedFirst
        <5>3. q = [row EXCEPT !.public = s]
          BY <3>2, <4>1, <5>2 DEF WithRestored
        <5>4. q \in Rows /\ q.public = s /\ q.internal = row.internal
          BY <1>r, <5>2, <5>3, PublicSet
        <5> QED
          BY <4>1, <5>1, <5>4
      <4>2. CASE m \notin Public
        <5>0. m \in Internal
          BY <4>2 DEF Messages
        <5>1. PICK s : s = <<m>> \o row.internal
          OBVIOUS
        <5>2. s \in Seq(Internal) /\ Restored(row.internal, 1, m) = s
          BY <1>r, <5>0, <5>1, HeadAhead, InsertedFirst
        <5>3. q = [row EXCEPT !.internal = s]
          BY <3>2, <4>2, <5>2 DEF WithRestored
        <5>4. q \in Rows /\ q.internal = s /\ q.public = row.public
          BY <1>r, <5>2, <5>3, InternalSet
        <5> QED
          BY <4>2, <5>1, <5>4
      <4> QED
        BY <4>1, <4>2
    <3>4. PICK r : r = [q EXCEPT !.steer = None, !.status = "error"]
      OBVIOUS
    <3>5. r.public = q.public /\ r.internal = q.internal
      BY <3>3, <3>4 DEF Rows
    <3>6. lock' = [op |-> "put back", msg |-> m, at |-> 1, row |-> r]
      BY <2>6, <3>1, <3>2, <3>4 DEF LoadRestore, Hold
    <3>7. lock'.op = "put back" /\ lock'.msg = m /\ lock'.row = r
      BY <3>6
    <3> QED
      BY <1>1, <3>3, <3>5, <3>7 DEF LinesFit
  <2> QED
    BY <2>1, <2>2, <2>3, <2>4, <2>5, <2>6
<1> QED
  BY <1>1, <1>2, CarriersKept DEF OrderInv

-----------------------------------------------------------------------------
(* The lines as MessageLine sees them *)

PublicLine == SetToSeq(Ahead(Public)) \o row.public

InternalLine == SetToSeq(Ahead(Internal)) \o row.internal

Started == {m \in Messages : begun[m] > 0}

lineVars == <<PublicLine, InternalLine, Started, withdrawn, edits>>

LEMMA Fronts ==
  ASSUME QueueInv, TurnInv
  PROVE  /\ Ahead(Public) = {} \/ \E m \in Public : Ahead(Public) = {m}
         /\ Ahead(Internal) = {} \/ \E m \in Internal : Ahead(Internal) = {m}
         /\ Ahead(Public) \cap Range(row.public) = {}
         /\ Ahead(Internal) \cap Range(row.internal) = {}
<1>1. \A m, n \in Messages : Step(m) \in {"start", "put back"} /\ Step(n) \in {"start", "put back"} => m = n
  BY DEF TurnInv, Owner
<1>2. \A m \in Messages : Step(m) \in {"start", "put back"} => m \notin Waits(row)
  BY DEF QueueInv, Conserved, Carried
<1>3. Public \subseteq Messages /\ Internal \subseteq Messages
  BY DEF Messages
<1>4. ASSUME NEW kind, kind \subseteq Messages
      PROVE  Ahead(kind) = {} \/ \E m \in kind : Ahead(kind) = {m}
  <2>1. SUFFICES ASSUME NEW m \in Ahead(kind) PROVE m \in kind /\ Ahead(kind) = {m}
    OBVIOUS
  <2> QED
    BY <1>1, <1>4, <2>1 DEF Ahead
<1>5. Ahead(Public) \cap Range(row.public) = {} /\ Ahead(Internal) \cap Range(row.internal) = {}
  BY <1>2, <1>3 DEF Ahead, Waits
<1> QED
  BY <1>3, <1>4, <1>5

LEMMA FrontSeqs ==
  ASSUME QueueInv, TurnInv
  PROVE  /\ SetToSeq(Ahead(Public)) \in Seq(Public) /\ IsInjective(SetToSeq(Ahead(Public)))
         /\ Range(SetToSeq(Ahead(Public))) = Ahead(Public)
         /\ SetToSeq(Ahead(Internal)) \in Seq(Internal) /\ IsInjective(SetToSeq(Ahead(Internal)))
         /\ Range(SetToSeq(Ahead(Internal))) = Ahead(Internal)
<1>1. ASSUME NEW kind, NEW A, A = {} \/ \E m \in kind : A = {m}
      PROVE  SetToSeq(A) \in Seq(kind) /\ IsInjective(SetToSeq(A)) /\ Range(SetToSeq(A)) = A
  <2>1. CASE A = {}
    <3>1. SetToSeq(A) = <<>>
      BY <2>1, FrontNone
    <3>2. <<>> \in Seq(kind) /\ IsInjective(<<>>) /\ Range(<<>>) = {}
      BY DEF IsInjective, Range
    <3> QED
      BY <2>1, <3>1, <3>2
  <2>2. ASSUME NEW m \in kind, A = {m}
        PROVE  SetToSeq(A) \in Seq(kind) /\ IsInjective(SetToSeq(A)) /\ Range(SetToSeq(A)) = A
    <3>1. SetToSeq(A) = <<m>>
      BY <2>2, FrontOne
    <3>2. <<m>> \in Seq(kind) /\ IsInjective(<<m>>) /\ Range(<<m>>) = {m}
      BY DEF IsInjective, Range
    <3> QED
      BY <2>2, <3>1, <3>2
  <2> QED
    BY <1>1, <2>1, <2>2
<1> QED
  BY <1>1, Fronts

\* Who is in a line as MessageLine sees it.
LEMMA InLines ==
  ASSUME QueueInv, TurnInv
  PROVE  /\ PublicLine \in Seq(Public) /\ InternalLine \in Seq(Internal)
         /\ Range(PublicLine) = Ahead(Public) \union Range(row.public)
         /\ Range(InternalLine) = Ahead(Internal) \union Range(row.internal)
<1>1. row.public \in Seq(Public) /\ row.internal \in Seq(Internal)
  BY RowLines
<1> QED
  BY <1>1, FrontSeqs, ClaimedThenStored DEF PublicLine, InternalLine

LEMMA StartedOnes ==
  ASSUME TypeOK
  PROVE  /\ \A m \in Messages : m \in Started <=> begun[m] # 0
         /\ Started \subseteq Messages
<1>1. \A k \in 0..2 : k > 0 <=> k # 0
  OBVIOUS
<1>2. \A m \in Messages : begun[m] \in 0..2
  BY DEF TypeOK
<1>3. \A m \in Messages : begun[m] > 0 <=> begun[m] # 0
  BY <1>1, <1>2
<1> QED
  BY <1>3 DEF Started

LEMMA Begun ==
  ASSUME QueueInv, NEW m \in Messages,
         begun' = [begun EXCEPT ![m] = 1] \/ begun' = [begun EXCEPT ![m] = 2]
  PROVE  Started' = Started \union {m}
<1>1. begun \in [Messages -> 0..2]
  BY TypeNow
<1>2. begun'[m] > 0 /\ \A n \in Messages : n # m => begun'[n] = begun[n]
  BY <1>1
<1> QED
  BY <1>2 DEF Started

\* A message Jaz has not taken in, and that nobody carries, is new to both lines.
LEMMA NewToLines ==
  ASSUME QueueInv, TurnInv, NEW m \in Messages, m \notin accepted,
         Step(m) \notin {"start", "put back"}
  PROVE  Line!Fresh(m)
<1>1. m \notin Waits(row) /\ begun[m] = 0 /\ m \notin withdrawn
  BY DEF QueueInv, Conserved
<1>2. m \notin Started
  BY <1>1, StartedOnes DEF QueueInv
<1>3. m \notin Ahead(Public) /\ m \notin Ahead(Internal)
  BY DEF Ahead
<1>4. m \notin Range(PublicLine) /\ m \notin Range(InternalLine)
  BY <1>1, <1>3, InLines DEF Waits
<1> QED
  BY <1>1, <1>2, <1>4 DEF Line!Fresh, Line!Waiting, Line!Range, Range, Started, PublicLine, InternalLine

\* A step that leaves the rows' lines, the claimed messages and the history alone.
LEMMA NothingMoves ==
  ASSUME row'.public = row.public, row'.internal = row.internal,
         \A m \in Messages : Step(m)' \in {"start", "put back"} <=> Step(m) \in {"start", "put back"},
         begun' = begun, withdrawn' = withdrawn, edits' = edits
  PROVE  UNCHANGED lineVars
<1>1. Ahead(Public)' = Ahead(Public) /\ Ahead(Internal)' = Ahead(Internal)
  BY DEF Ahead, Messages
<1>2. Started' = Started
  BY DEF Started
<1> QED
  BY <1>1, <1>2 DEF lineVars, PublicLine, InternalLine

\* A claim moves the head of a stored line in front of it.
LEMMA NobodyAhead ==
  ASSUME TurnInv, row.status # "running"
  PROVE  PublicLine = <<>> \o row.public /\ InternalLine = <<>> \o row.internal
         /\ Ahead(Public) = {} /\ Ahead(Internal) = {}
<1>1. \A m \in Messages : Step(m) \notin {"start", "put back"}
  BY DEF TurnInv, Owner
<1>2. Ahead(Public) = {} /\ Ahead(Internal) = {}
  BY <1>1 DEF Ahead, Messages
<1> QED
  BY <1>2, FrontNone DEF PublicLine, InternalLine

LEMMA OneAhead ==
  ASSUME TurnInv, NEW m \in Messages, Step(m) \in {"start", "put back"}
  PROVE  /\ m \in Public => Ahead(Public) = {m} /\ Ahead(Internal) = {}
         /\ m \in Internal => Ahead(Public) = {} /\ Ahead(Internal) = {m}
<1>1. \A n \in Messages : Step(n) \in {"start", "put back"} => n = m
  BY DEF TurnInv, Owner
<1> QED
  BY <1>1, MessagesDisjoint DEF Ahead, Messages

-----------------------------------------------------------------------------
(* Every step is a step of MessageLine, or none, and keeps the invariant *)

LEMMA OrderLoadsStutter ==
  ASSUME QueueInv, OrderInv,
         \/ \E m \in Public : LoadAppend(m) \/ LoadDirect(m)
         \/ LoadReorder \/ LoadDelete \/ LoadTitle
         \/ \E m \in Messages : LoadRestore(m)
  PROVE  OrderInv' /\ UNCHANGED lineVars
<1>1. row' = row /\ runner' = runner /\ begun' = begun /\ withdrawn' = withdrawn /\ edits' = edits
  BY DEF LoadAppend, LoadDirect, LoadReorder, LoadDelete, LoadTitle, LoadRestore, history
<1>2. \A m \in Messages : Step(m)' = Step(m)
  BY <1>1 DEF Step
<1>3. UNCHANGED lineVars
  BY <1>1, <1>2, NothingMoves
<1> QED
  BY <1>3, OrderLoads

LEMMA OrderQuiet ==
  ASSUME QueueInv, OrderInv,
         \/ Stop \/ TurnEnds \/ ResumeAgent \/ RetireAgent \/ ClaimDirectRefused \/ FinishTurn
         \/ UNCHANGED vars
  PROVE  OrderInv' /\ UNCHANGED lineVars
<1>1. runner' = runner /\ begun' = begun /\ withdrawn' = withdrawn /\ edits' = edits
  BY DEF Stop, TurnEnds, ResumeAgent, RetireAgent, ClaimDirectRefused, FinishTurn, vars, history
<1>2. row'.public = row.public /\ row'.internal = row.internal
  <2>1. CASE FinishTurn
    <3>1. PICK s \in {"idle", "running", "error"} : UpdateSessionStatus(s)
      BY <2>1 DEF FinishTurn
    <3> QED
      BY <3>1, TypeNow, StatusWritten
  <2>2. CASE row' = row
    BY <2>2
  <2> QED
    BY <2>1, <2>2 DEF Stop, TurnEnds, ResumeAgent, RetireAgent, ClaimDirectRefused, vars
<1>3. lock' = lock \/ lock'.op = "free"
  BY FreeFits DEF Stop, TurnEnds, ResumeAgent, RetireAgent, ClaimDirectRefused, FinishTurn, vars
<1>4. \A m \in Messages : Step(m)' = Step(m)
  BY <1>1 DEF Step
<1>5. UNCHANGED lineVars
  BY <1>1, <1>2, <1>4, NothingMoves
<1> QED
  BY <1>1, <1>2, <1>3, <1>5, LinesKeptFit, CarriersKept DEF OrderInv

LEMMA OrderClaimDirect ==
  ASSUME QueueInv, TurnInv, OrderInv, ClaimDirect
  PROVE  OrderInv' /\ UNCHANGED lineVars
<1>1. /\ lock.op = "direct" /\ row' = [lock.row EXCEPT !.turn = lock.msg]
      /\ Become(lock.msg, "direct") /\ lock' = Free
      /\ begun' = begun /\ withdrawn' = withdrawn /\ edits' = edits
  BY DEF ClaimDirect, history
<1>2. lock.msg \in Public /\ lock.msg \in Messages /\ Step(lock.msg) = "none"
  BY <1>1 DEF QueueInv, LockFits, Messages
<1>3. row'.public = row.public /\ row'.internal = row.internal
  <2>1. lock.row \in Rows /\ lock.msg \in MaybeMessage
    BY TypeNow, LockFields
  <2>2. row'.public = lock.row.public /\ row'.internal = lock.row.internal
    BY <1>1, <2>1, TurnSet
  <2> QED
    BY <1>1, <2>2 DEF OrderInv, LinesFit
<1>4. \A n \in Messages : Step(n)' = IF n = lock.msg THEN "direct" ELSE Step(n)
  BY <1>1, <1>2, TypeNow, Becomes DEF Steps
<1>5. UNCHANGED lineVars
  <2>1. \A n \in Messages : Step(n)' \in {"start", "put back"} <=> Step(n) \in {"start", "put back"}
    BY <1>2, <1>4
  <2> QED
    BY <1>1, <1>3, <2>1, NothingMoves
<1>6. CarriersFit'
  <2>1. PICK m \in Public : m = lock.msg
    BY <1>2
  <2>2. m \in Messages /\ Become(m, "direct")
    BY <1>1, <1>2, <2>1
  <2> QED
    BY <2>2, CarrierMoves DEF OrderInv
<1> QED
  BY <1>1, <1>5, <1>6, FreeFits, UnlockedFits DEF OrderInv

LEMMA OrderDirectFails ==
  ASSUME QueueInv, OrderInv, NEW m \in Messages, DirectFails(m)
  PROVE  OrderInv' /\ UNCHANGED lineVars
<1>1. /\ Step(m) = "direct" /\ UpdateSessionStatus("error") /\ Become(m, "none") /\ lock' = lock
      /\ begun' = begun /\ withdrawn' = withdrawn /\ edits' = edits
  BY DEF DirectFails
<1>2. row'.public = row.public /\ row'.internal = row.internal
  BY <1>1, TypeNow, StatusWritten
<1>3. \A n \in Messages : Step(n)' = IF n = m THEN "none" ELSE Step(n)
  BY <1>1, TypeNow, Becomes DEF Steps
<1>4. \A n \in Messages : Step(n)' \in {"start", "put back"} <=> Step(n) \in {"start", "put back"}
  BY <1>1, <1>3
<1>5. UNCHANGED lineVars
  BY <1>1, <1>2, <1>4, NothingMoves
<1>6. CarriersFit'
  BY <1>1, CarrierMoves DEF OrderInv
<1> QED
  BY <1>1, <1>2, <1>5, <1>6, LinesKeptFit DEF OrderInv

\* A start that fails leaves the message at the head of its line.
LEMMA OrderStartRefused ==
  ASSUME QueueInv, TurnInv, OrderInv, NEW m \in Messages, StartRefused(m)
  PROVE  OrderInv' /\ UNCHANGED lineVars
<1>1. /\ Step(m) = "start" /\ Become(m, "put back") /\ lock' = lock /\ row' = row
      /\ begun' = begun /\ withdrawn' = withdrawn /\ edits' = edits
  BY DEF StartRefused, TurnInv, history
<1>3. \A n \in Messages : Step(n)' = IF n = m THEN "put back" ELSE Step(n)
  BY <1>1, TypeNow, Becomes DEF Steps
<1>4. \A n \in Messages : Step(n)' \in {"start", "put back"} <=> Step(n) \in {"start", "put back"}
  BY <1>1, <1>3
<1>5. UNCHANGED lineVars
  BY <1>1, <1>4, NothingMoves
<1>6. CarriersFit'
  BY <1>1, CarrierMoves DEF OrderInv
<1> QED
  BY <1>1, <1>5, <1>6, LinesKeptFit DEF OrderInv

\* MessageLine counts as ThreadQueue does.
LEMMA SameOrders == \A S : Line!SetToSeqs(S) = SetToSeqs(S)
<1>1. \A S : Line!Cardinality(S) = Cardinality(S)
  BY Zenon DEF Line!Cardinality, Cardinality
<1> QED
  BY <1>1 DEF Line!SetToSeqs, SetToSeqs

LEMMA OrderSaveQueue ==
  ASSUME QueueInv, TurnInv, OrderInv, SaveQueue
  PROVE  OrderInv' /\ (Line!Next \/ UNCHANGED lineVars)
<1>1. /\ lock.op \in {"append", "edit", "delete", "title"} /\ SaveSession(lock.row) /\ lock' = Free
      /\ runner' = runner /\ begun' = begun
      /\ edits' = IF lock.op = "edit" THEN edits + 1 ELSE edits
      /\ withdrawn' = IF lock.op = "delete" THEN withdrawn \union {lock.msg} ELSE withdrawn
  BY DEF SaveQueue
<1>2. row'.public = lock.row.public /\ row'.internal = row.internal
  <2>1. row \in Rows /\ lock.row \in Rows
    BY TypeNow, LockFields
  <2>2. row'.public = lock.row.public /\ row'.internal = lock.row.internal
    BY <1>1, <2>1, SessionSaved
  <2> QED
    BY <1>1, <2>2 DEF OrderInv, LinesFit
<1>3. OrderInv'
  BY <1>1, FreeFits, UnlockedFits, CarriersKept DEF OrderInv
<1>4. /\ Ahead(Public)' = Ahead(Public) /\ Ahead(Internal)' = Ahead(Internal)
      /\ Started' = Started /\ InternalLine' = InternalLine
  BY <1>1, <1>2 DEF Ahead, Step, Started, InternalLine
<1> DEFINE F == SetToSeq(Ahead(Public))
<1>5. /\ PublicLine = F \o row.public /\ PublicLine' = F \o lock.row.public
      /\ F \in Seq(Public) /\ row.public \in Seq(Public)
  BY <1>2, <1>4, RowLines, FrontSeqs DEF PublicLine
<1>6. CASE lock.op = "append"
  <2>1. lock.msg \in Public /\ lock.msg \notin accepted /\ Step(lock.msg) = "none"
    BY <1>6 DEF QueueInv, LockFits
  <2>2. PICK m \in Public : m = lock.msg
    BY <2>1
  <2>3. PublicLine' = Append(PublicLine, m)
    <3>1. lock.row.public = Append(row.public, m)
      BY <1>6, <2>2 DEF OrderInv, LinesFit
    <3> HIDE DEF F
    <3> QED
      BY <1>5, <3>1, AheadAppend
  <2>4. Line!Fresh(m)
    BY <2>1, <2>2, NewToLines DEF Messages
  <2>5. withdrawn' = withdrawn /\ edits' = edits
    BY <1>1, <1>6
  <2>6. Line!AcceptPublic(m)
    BY <1>4, <2>3, <2>4, <2>5 DEF Line!AcceptPublic, PublicLine, InternalLine, Started
  <2> QED
    BY <1>3, <2>6 DEF Line!Next
<1>7. CASE lock.op = "edit"
  <2>1. PublicLine' \in SetToSeqs(Range(PublicLine))
    <3>1. lock.row.public \in SetToSeqs(Range(row.public))
      BY <1>7 DEF OrderInv, LinesFit
    <3>2. /\ IsInjective(F) /\ IsInjective(row.public) /\ Range(F) \cap Range(row.public) = {}
      BY RowLines, FrontSeqs, Fronts
    <3> HIDE DEF F
    <3> QED
      BY <1>5, <3>1, <3>2, ReorderedBehind
  <2>2. withdrawn' = withdrawn /\ edits' = edits + 1
    BY <1>1, <1>7
  <2>3. Line!Range(PublicLine) = Range(PublicLine)
    BY DEF Line!Range, Range
  <2>4. PublicLine' \in Line!SetToSeqs(Line!Range(PublicLine))
    BY <2>1, <2>3, SameOrders
  <2>5. Line!Reorder
    BY <1>4, <2>2, <2>4 DEF Line!Reorder, PublicLine, InternalLine, Started
  <2> QED
    BY <1>3, <2>5 DEF Line!Next
<1>8. CASE lock.op = "delete"
  <2>1. PICK i \in DOMAIN row.public :
          lock.msg = row.public[i] /\ lock.row.public = RemoveAt(row.public, i)
    BY <1>8 DEF OrderInv, LinesFit
  <2>2. PICK j \in DOMAIN PublicLine :
          PublicLine[j] = lock.msg /\ PublicLine' = RemoveAt(PublicLine, j)
    <3>f. PICK f : f = F
      OBVIOUS
    <3>s. PICK s : s = row.public
      OBVIOUS
    <3> HIDE DEF F
    <3>0. f \in Seq(Public) /\ s \in Seq(Public) /\ i \in DOMAIN s
      BY <1>5, <3>f, <3>s
    <3>1. /\ Len(f) + i \in DOMAIN (f \o s) /\ (f \o s)[Len(f) + i] = s[i]
          /\ RemoveAt(f \o s, Len(f) + i) = f \o RemoveAt(s, i)
      BY <3>0, RemovedBehind
    <3>2. PICK j : j = Len(f) + i
      OBVIOUS
    <3>3. j \in DOMAIN PublicLine /\ PublicLine[j] = lock.msg
      BY <1>5, <2>1, <3>f, <3>s, <3>1, <3>2
    <3>4. PublicLine' = RemoveAt(PublicLine, j)
      BY <1>5, <2>1, <3>f, <3>s, <3>1, <3>2
    <3> QED
      BY <3>3, <3>4
  <2>3. withdrawn' = withdrawn \union {PublicLine[j]} /\ edits' = edits
    BY <1>1, <1>8, <2>2
  <2>4. Line!Withdraw
    BY <1>4, <2>2, <2>3 DEF Line!Withdraw, Line!RemoveAt, RemoveAt, PublicLine, InternalLine, Started
  <2> QED
    BY <1>3, <2>4 DEF Line!Next
<1>9. CASE lock.op = "title"
  <2>1. row'.public = row.public
    BY <1>2, <1>9 DEF OrderInv, LinesFit
  <2>2. PublicLine' = PublicLine /\ withdrawn' = withdrawn /\ edits' = edits
    BY <1>1, <1>4, <1>9, <2>1 DEF PublicLine
  <2> QED
    BY <1>3, <1>4, <2>2 DEF lineVars
<1> QED
  BY <1>1, <1>6, <1>7, <1>8, <1>9

LEMMA OrderEnqueue ==
  ASSUME QueueInv, TurnInv, OrderInv, NEW m \in Internal, EnqueueInternal(m)
  PROVE  OrderInv' /\ Line!AcceptInternal(m)
<1>1. /\ lock = Free /\ Fresh(m) /\ row' = [row EXCEPT !.internal = Append(@, m)]
      /\ lock' = lock /\ runner' = runner /\ begun' = begun /\ withdrawn' = withdrawn /\ edits' = edits
  BY DEF EnqueueInternal
<1>2. /\ m \in Messages /\ row \in Rows /\ row.public \in Seq(Public) /\ row.internal \in Seq(Internal)
      /\ Step(m) = "none" /\ m \notin accepted
  BY <1>1, RowLines, StepFresh DEF Messages
<1>3. PICK s : s = Append(row.internal, m)
  OBVIOUS
<1>4. s \in Seq(Internal) /\ row' = [row EXCEPT !.internal = s]
  BY <1>1, <1>2, <1>3, AppendProperties
<1>5. row'.internal = s /\ row'.public = row.public
  BY <1>2, <1>4, InternalSet
<1>6. OrderInv'
  BY <1>1, FreeFits, UnlockedFits, CarriersKept DEF OrderInv
<1>7. /\ Ahead(Public)' = Ahead(Public) /\ Ahead(Internal)' = Ahead(Internal)
      /\ Started' = Started /\ PublicLine' = PublicLine
  BY <1>1, <1>5 DEF Ahead, Step, Started, PublicLine
<1> DEFINE F == SetToSeq(Ahead(Internal))
<1>8. InternalLine = F \o row.internal /\ InternalLine' = F \o s /\ F \in Seq(Internal)
  BY <1>5, <1>7, FrontSeqs DEF InternalLine
<1>9. InternalLine' = Append(InternalLine, m)
  <2> HIDE DEF F
  <2> QED
    BY <1>2, <1>3, <1>8, AheadAppend
<1>10. Line!Fresh(m)
  BY <1>2, NewToLines
<1> QED
  BY <1>1, <1>6, <1>7, <1>9, <1>10 DEF Line!AcceptInternal, PublicLine, InternalLine, Started

LEMMA OrderDirectSteers ==
  ASSUME QueueInv, TurnInv, OrderInv, NEW m \in Public, DirectSteers(m)
  PROVE  OrderInv' /\ Line!StartAtOnce(m)
<1>1. /\ Fresh(m) /\ begun' = [begun EXCEPT ![m] = 1]
      /\ row' = row /\ lock' = lock /\ runner' = runner /\ withdrawn' = withdrawn /\ edits' = edits
  BY DEF DirectSteers
<1>2. m \in Messages /\ Step(m) = "none" /\ m \notin accepted
  BY <1>1, StepFresh DEF Messages
<1>3. OrderInv'
  BY <1>1, LinesKeptFit, CarriersKept DEF OrderInv
<1>4. PublicLine' = PublicLine /\ InternalLine' = InternalLine
  BY <1>1 DEF Ahead, Step, PublicLine, InternalLine
<1>5. Started' = Started \union {m}
  BY <1>1, <1>2, Begun
<1>6. Line!Fresh(m)
  BY <1>2, NewToLines
<1> QED
  BY <1>1, <1>3, <1>4, <1>5, <1>6 DEF Line!StartAtOnce, PublicLine, InternalLine, Started

\* The next message of a free thread is claimed from the head of its line, and
\* stays the head of the line.
LEMMA OrderClaim ==
  ASSUME QueueInv, TurnInv, OrderInv, Drain \/ FinishDrains
  PROVE  OrderInv' /\ UNCHANGED lineVars
<1>1. /\ ClaimNextTurn /\ lock = Free /\ lock' = lock /\ lock'.op = "free"
      /\ begun' = begun /\ withdrawn' = withdrawn /\ edits' = edits
  BY FreeFits DEF Drain, FinishDrains
<1>2. LinesFit'
  BY <1>1, UnlockedFits
<1>3. CASE UNCHANGED <<row, runner, parked>>
  <2>1. UNCHANGED lineVars
    BY <1>1, <1>3, NothingMoves DEF Step
  <2> QED
    BY <1>2, <1>3, <2>1, CarriersKept DEF OrderInv
<1>4. CASE /\ TakesQueuedTurns(row) /\ HasWaiting(row)
           /\ row' = [WithoutNextPrompt(row) EXCEPT !.status = "running", !.turn = NextPrompt(row)]
           /\ runner' = [runner EXCEPT ![NextPrompt(row)] = [step |-> "start", at |-> 1]]
  <2>1. PICK m : m = NextPrompt(row)
    OBVIOUS
  <2>2. PICK q : q = WithoutNextPrompt(row)
    OBVIOUS
  <2>3. m \in Messages /\ q \in Rows
    BY <1>4, <2>1, <2>2, NextTaken
  <2>4. row' = [q EXCEPT !.status = "running", !.turn = m]
    BY <1>4, <2>1, <2>2
  <2>5. row'.public = q.public /\ row'.internal = q.internal
    BY <2>3, <2>4 DEF Rows
  <2>6. PICK x : x = [step |-> "start", at |-> 1]
    OBVIOUS
  <2>7. x \in Runners /\ x.step = "start" /\ x.at = 1 /\ runner' = [runner EXCEPT ![m] = x]
    <3>1. x.step = "start" /\ x.at = 1 /\ "start" \in Steps /\ 1 \in Nat \ {0}
      BY <2>6 DEF Steps
    <3> QED
      BY <1>4, <2>1, <2>6, <3>1 DEF Runners
  <2>8. /\ \A n \in Messages : Step(n)' = IF n = m THEN "start" ELSE Step(n)
        /\ \A n \in Messages : n # m => runner'[n] = runner[n]
        /\ runner'[m] = x
    <3>1. runner \in [Messages -> Runners]
      BY TypeNow
    <3> QED
      BY <2>3, <2>7, <3>1 DEF Step
  <2>9. CarriersFit'
    BY <2>7, <2>8 DEF OrderInv, CarriersFit
  <2>10. row.status # "running" /\ \A n \in Messages : Step(n) \notin {"start", "put back"}
    BY <1>4 DEF TakesQueuedTurns, TurnInv, Owner
  <2>11. \A n \in Messages : Step(n)' \in {"start", "put back"} <=> n = m
    BY <2>8, <2>10
  <2>12. /\ Ahead(Public)' = {n \in Public : n = m} /\ Ahead(Internal)' = {n \in Internal : n = m}
    BY <2>11 DEF Ahead, Messages
  <2>13. /\ row.public \in Seq(Public) /\ row.internal \in Seq(Internal)
         /\ PublicLine = row.public /\ InternalLine = row.internal
    <3>1. row.public \in Seq(Public) /\ row.internal \in Seq(Internal)
      BY RowLines
    <3>2. /\ PublicLine = <<>> \o row.public /\ InternalLine = <<>> \o row.internal
      BY <2>10, NobodyAhead
    <3> QED
      BY <3>1, <3>2, ConcatEmptySeq
  <2>14. Started' = Started
    BY <1>1 DEF Started
  <2>15. CASE row.public # <<>>
    <3>1. m = Head(row.public) /\ q = [row EXCEPT !.public = Tail(@)]
      BY <2>1, <2>2, <2>15 DEF NextPrompt, WithoutNextPrompt
    <3>2. m \in Public /\ Tail(row.public) \in Seq(Public) /\ <<m>> \o Tail(row.public) = row.public
      BY <2>13, <2>15, <3>1, HeadTailProperties, HeadTaken
    <3>3. q.public = Tail(row.public) /\ q.internal = row.internal
      BY <3>1, RowLines DEF Rows
    <3>4. Ahead(Public)' = {m} /\ Ahead(Internal)' = {}
      BY <2>12, <3>2, MessagesDisjoint
    <3>5. PublicLine' = <<m>> \o Tail(row.public)
      BY <2>5, <3>3, <3>4, FrontOne DEF PublicLine
    <3>6. InternalLine' = <<>> \o row.internal
      BY <2>5, <3>3, <3>4, FrontNone DEF InternalLine
    <3>7. InternalLine' = row.internal
      BY <2>13, <3>6, ConcatEmptySeq
    <3> QED
      BY <1>1, <1>2, <2>9, <2>13, <2>14, <3>2, <3>5, <3>7 DEF OrderInv, lineVars
  <2>16. CASE row.public = <<>>
    <3>0. row.internal # <<>>
      BY <1>4, <2>16 DEF HasWaiting
    <3>1. m = Head(row.internal) /\ q = [row EXCEPT !.internal = Tail(@)]
      BY <2>1, <2>2, <2>16 DEF NextPrompt, WithoutNextPrompt
    <3>2. m \in Internal /\ Tail(row.internal) \in Seq(Internal) /\ <<m>> \o Tail(row.internal) = row.internal
      BY <2>13, <3>0, <3>1, HeadTailProperties, HeadTaken
    <3>3. q.internal = Tail(row.internal) /\ q.public = row.public
      BY <3>1, RowLines DEF Rows
    <3>4. Ahead(Internal)' = {m} /\ Ahead(Public)' = {}
      BY <2>12, <3>2, MessagesDisjoint
    <3>5. InternalLine' = <<m>> \o Tail(row.internal)
      BY <2>5, <3>3, <3>4, FrontOne DEF InternalLine
    <3>6. PublicLine' = <<>> \o row.public
      BY <2>5, <3>3, <3>4, FrontNone DEF PublicLine
    <3>7. PublicLine' = row.public
      BY <2>13, <3>6, ConcatEmptySeq
    <3> QED
      BY <1>1, <1>2, <2>9, <2>13, <2>14, <3>2, <3>5, <3>7 DEF OrderInv, lineVars
  <2> QED
    BY <2>15, <2>16
<1> QED
  BY <1>1, <1>3, <1>4 DEF ClaimNextTurn

\* The head of a line starts, or a message that never waited.
LEMMA OrderStarts ==
  ASSUME QueueInv, TurnInv, OrderInv, NEW m \in Messages, StartTurn(m)
  PROVE  OrderInv' /\ Line!Next
<1>1. /\ Step(m) \in {"start", "direct"} /\ Become(m, "none") /\ lock' = lock
      /\ row' = [row EXCEPT !.status = "running", !.turn = m]
      /\ begun' = [begun EXCEPT ![m] = IF @ = 0 THEN 1 ELSE 2]
      /\ withdrawn' = withdrawn /\ edits' = edits
  BY DEF StartTurn, TurnInv
<1>2. row'.public = row.public /\ row'.internal = row.internal
  BY <1>1, RowLines DEF Rows
<1>3. OrderInv'
  BY <1>1, <1>2, LinesKeptFit, CarrierMoves DEF OrderInv
<1>4. Started' = Started \union {m}
  <2>1. begun' = [begun EXCEPT ![m] = 1] \/ begun' = [begun EXCEPT ![m] = 2]
    BY <1>1
  <2> QED
    BY <2>1, Begun
<1>5. \A n \in Messages : Step(n)' = IF n = m THEN "none" ELSE Step(n)
  BY <1>1, TypeNow, Becomes DEF Steps
<1>6. \A n \in Messages : Step(n)' \notin {"start", "put back"}
  <2>1. \A n \in Messages : n # m => Step(n) \notin {"start", "put back"}
    BY <1>1 DEF TurnInv, Owner
  <2> QED
    BY <1>5, <2>1
<1>7. PublicLine' = row.public /\ InternalLine' = row.internal
  <2>1. Ahead(Public)' = {} /\ Ahead(Internal)' = {}
    BY <1>6 DEF Ahead, Messages
  <2>2. PublicLine' = <<>> \o row.public /\ InternalLine' = <<>> \o row.internal
    BY <1>2, <2>1, FrontNone DEF PublicLine, InternalLine
  <2> QED
    BY <2>2, RowLines, ConcatEmptySeq
<1>8. CASE Step(m) = "direct"
  <2>1. m \in Public /\ m \notin accepted
    BY <1>8 DEF OrderInv, CarriersFit, QueueInv, Conserved
  <2>2. \A n \in Messages : Step(n) \notin {"start", "put back"}
    BY <1>8 DEF TurnInv, Owner
  <2>3. PublicLine = row.public /\ InternalLine = row.internal
    <3>1. Ahead(Public) = {} /\ Ahead(Internal) = {}
      BY <2>2 DEF Ahead, Messages
    <3>2. PublicLine = <<>> \o row.public /\ InternalLine = <<>> \o row.internal
      BY <3>1, FrontNone DEF PublicLine, InternalLine
    <3> QED
      BY <3>2, RowLines, ConcatEmptySeq
  <2>4. Line!Fresh(m)
    BY <2>1, <2>2, NewToLines
  <2>5. Line!StartAtOnce(m)
    BY <1>1, <1>4, <1>7, <2>3, <2>4 DEF Line!StartAtOnce, PublicLine, InternalLine, Started
  <2> QED
    BY <1>3, <2>1, <2>5 DEF Line!Next
<1>9. CASE Step(m) = "start" /\ m \in Public
  <2>1. Ahead(Public) = {m} /\ Ahead(Internal) = {}
    BY <1>9, OneAhead
  <2>2. PublicLine = <<m>> \o row.public /\ InternalLine = <<>> \o row.internal
    BY <2>1, FrontOne, FrontNone DEF PublicLine, InternalLine
  <2>3. InternalLine = row.internal
    BY <2>2, RowLines, ConcatEmptySeq
  <2>4. /\ PublicLine # <<>> /\ Head(PublicLine) = m /\ Tail(PublicLine) = row.public
    <3>1. row.public \in Seq(Public)
      BY RowLines
    <3> QED
      BY <1>9, <2>2, <3>1, HeadAhead
  <2>5. Line!StartPublic
    BY <1>1, <1>4, <1>7, <2>3, <2>4 DEF Line!StartPublic, PublicLine, InternalLine, Started
  <2> QED
    BY <1>3, <2>5 DEF Line!Next
<1>10. CASE Step(m) = "start" /\ m \in Internal
  <2>1. Ahead(Internal) = {m} /\ Ahead(Public) = {}
    BY <1>10, OneAhead
  <2>2. InternalLine = <<m>> \o row.internal /\ PublicLine = <<>> \o row.public
    BY <2>1, FrontOne, FrontNone DEF PublicLine, InternalLine
  <2>3. PublicLine = row.public
    BY <2>2, RowLines, ConcatEmptySeq
  <2>4. /\ InternalLine # <<>> /\ Head(InternalLine) = m /\ Tail(InternalLine) = row.internal
    <3>1. row.internal \in Seq(Internal)
      BY RowLines
    <3> QED
      BY <1>10, <2>2, <3>1, HeadAhead
  <2>5. Line!StartInternal
    BY <1>1, <1>4, <1>7, <2>3, <2>4 DEF Line!StartInternal, PublicLine, InternalLine, Started
  <2> QED
    BY <1>3, <2>5 DEF Line!Next
<1> QED
  BY <1>1, <1>8, <1>9, <1>10 DEF Messages

\* What was put back is again the head of the line it was claimed from.
LEMMA OrderPutBack ==
  ASSUME QueueInv, TurnInv, OrderInv, SaveRestore
  PROVE  OrderInv' /\ UNCHANGED lineVars
<1>1. /\ lock.op = "put back" /\ SaveSession(lock.row) /\ lock' = Free /\ Become(lock.msg, "none")
      /\ begun' = begun /\ withdrawn' = withdrawn /\ edits' = edits
  BY DEF SaveRestore
<1>2. PICK m \in Messages : m = lock.msg
  BY <1>1 DEF QueueInv, LockFits
<1>3. Step(m) = "put back"
  BY <1>1, <1>2 DEF QueueInv, LockFits
<1>4. row'.public = lock.row.public /\ row'.internal = lock.row.internal
  <2>1. row \in Rows /\ lock.row \in Rows
    BY TypeNow, LockFields
  <2> QED
    BY <1>1, <2>1, SessionSaved
<1>5. OrderInv'
  <2>1. Become(m, "none")
    BY <1>1, <1>2
  <2> QED
    BY <1>1, <2>1, FreeFits, UnlockedFits, CarrierMoves DEF OrderInv
<1>6. \A n \in Messages : Step(n)' \notin {"start", "put back"}
  <2>1. \A n \in Messages : Step(n)' = IF n = m THEN "none" ELSE Step(n)
    BY <1>1, <1>2, TypeNow, Becomes DEF Steps
  <2>2. \A n \in Messages : n # m => Step(n) \notin {"start", "put back"}
    BY <1>3 DEF TurnInv, Owner
  <2> QED
    BY <2>1, <2>2
<1>7. PublicLine' = <<>> \o lock.row.public /\ InternalLine' = <<>> \o lock.row.internal
  <2>1. Ahead(Public)' = {} /\ Ahead(Internal)' = {}
    BY <1>6 DEF Ahead, Messages
  <2> QED
    BY <1>4, <2>1, FrontNone DEF PublicLine, InternalLine
<1>8. PublicLine' = lock.row.public /\ InternalLine' = lock.row.internal
  <2>1. lock.row.public \in Seq(Public) /\ lock.row.internal \in Seq(Internal)
    BY TypeNow, LockFields, RowFields
  <2> QED
    BY <1>7, <2>1, ConcatEmptySeq
<1>9. Started' = Started
  BY <1>1 DEF Started
<1>10. CASE m \in Public
  <2>1. lock.row.public = <<m>> \o row.public /\ lock.row.internal = row.internal
    BY <1>1, <1>2, <1>10 DEF OrderInv, LinesFit
  <2>2. Ahead(Public) = {m} /\ Ahead(Internal) = {}
    BY <1>3, <1>10, OneAhead
  <2>3. PublicLine = <<m>> \o row.public /\ InternalLine = <<>> \o row.internal
    BY <2>2, FrontOne, FrontNone DEF PublicLine, InternalLine
  <2>4. InternalLine = row.internal
    BY <2>3, RowLines, ConcatEmptySeq
  <2> QED
    BY <1>1, <1>5, <1>8, <1>9, <2>1, <2>3, <2>4 DEF lineVars
<1>11. CASE m \notin Public
  <2>1. lock.row.public = row.public /\ lock.row.internal = <<m>> \o row.internal
    BY <1>1, <1>2, <1>11 DEF OrderInv, LinesFit
  <2>2. Ahead(Internal) = {m} /\ Ahead(Public) = {}
    BY <1>3, <1>11, OneAhead DEF Messages
  <2>3. InternalLine = <<m>> \o row.internal /\ PublicLine = <<>> \o row.public
    BY <2>2, FrontOne, FrontNone DEF PublicLine, InternalLine
  <2>4. PublicLine = row.public
    BY <2>3, RowLines, ConcatEmptySeq
  <2> QED
    BY <1>1, <1>5, <1>8, <1>9, <2>1, <2>3, <2>4 DEF lineVars
<1> QED
  BY <1>10, <1>11

LEMMA OrderNext ==
  ASSUME ~Steers
  PROVE  QueueInv /\ TurnInv /\ OrderInv /\ [Next]_vars => OrderInv' /\ (Line!Next \/ UNCHANGED lineVars)
<1> SUFFICES ASSUME QueueInv, TurnInv, OrderInv, [Next]_vars
             PROVE  OrderInv' /\ (Line!Next \/ UNCHANGED lineVars)
  OBVIOUS
<1>1. CASE Clients
  <2>1. ASSUME NEW m \in Public, DirectSteers(m) PROVE OrderInv' /\ Line!Next
    BY <2>1, OrderDirectSteers DEF Line!Next
  <2>2. ASSUME NEW m \in Internal, EnqueueInternal(m) PROVE OrderInv' /\ Line!Next
    BY <2>2, OrderEnqueue DEF Line!Next
  <2> QED
    BY <1>1, <2>1, <2>2, OrderLoadsStutter, OrderQuiet, NoSteerSteps DEF Clients
<1>2. CASE \E m \in Messages : Carry(m)
  BY <1>2, OrderStarts, OrderStartRefused, OrderDirectFails, NoSteerSteps DEF Carry
<1>3. CASE \E m \in Messages : Settle(m)
  BY <1>3, OrderLoadsStutter, NoSteerSteps DEF Settle
<1>4. CASE Save
  BY <1>4, OrderSaveQueue, OrderClaimDirect, OrderQuiet, OrderPutBack, NoSteerSteps DEF Save
<1>5. CASE Drain \/ FinishDrains
  BY <1>5, OrderClaim
<1>6. CASE ResumeAgent \/ RetireAgent \/ TurnEnds \/ FinishTurn \/ UNCHANGED vars
  BY <1>6, OrderQuiet
<1> QED
  BY <1>1, <1>2, <1>3, <1>4, <1>5, <1>6 DEF Next

\* As long as nobody steers, messages start from the head of their line, in the
\* order the user gave the public ones, also after a failed start put one back:
\* no overlap of loads, saves, claims and failed starts changes the order
\* (server/queue.go).
THEOREM OrderKept ==
  ASSUME ~Steers
  PROVE  Spec => KeepsOrder
<1>1. Init => Line!Init
  <2> SUFFICES ASSUME Init PROVE Line!Init
    OBVIOUS
  <2>1. \A m \in Messages : Step(m) = "none"
    BY NoRunnerFields DEF Init, Step
  <2>2. Ahead(Public) = {} /\ Ahead(Internal) = {}
    BY <2>1 DEF Ahead, Messages
  <2>3. row.public = <<>> /\ row.internal = <<>>
    BY DEF Init, EmptyRow
  <2>4. PublicLine = <<>> /\ InternalLine = <<>>
    BY <2>2, <2>3, FrontNone DEF PublicLine, InternalLine
  <2>5. Started = {}
    <3>1. TypeOK /\ \A m \in Messages : begun[m] = 0
      BY QueueInvInit DEF Init, QueueInv
    <3> QED
      BY <3>1, StartedOnes
  <2> QED
    BY <2>4, <2>5 DEF Init, Line!Init, PublicLine, InternalLine, Started
<1>2. QueueInv /\ TurnInv /\ [Next]_vars => TurnInv'
  BY TurnInvNext
<1>3. QueueInv /\ TurnInv /\ OrderInv /\ [Next]_vars => OrderInv' /\ (Line!Next \/ UNCHANGED lineVars)
  BY OrderNext
<1>4. Line!Next \/ UNCHANGED lineVars => [Line!Next]_(Line!vars)
  BY DEF lineVars, Line!vars, PublicLine, InternalLine, Started
<1> QED
  BY <1>1, <1>2, <1>3, <1>4, TurnInvInit, OrderInvInit, QueueInvariant, PTL DEF Spec, KeepsOrder, Line!Spec
=============================================================================
