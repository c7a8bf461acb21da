---------------------------- MODULE SequenceFacts ----------------------------
(***************************************************************************)
(* Facts about the operators of SequencesExt that the queues of the models *)
(* are built from.                                                         *)
(***************************************************************************)
EXTENDS Integers, Sequences, SequencesExt, SequenceTheorems, TLAPS

\* The sequence without its element at i.
LEMMA RemoveAtProperties ==
  ASSUME NEW S, NEW s \in Seq(S), NEW i \in DOMAIN s
  PROVE  /\ RemoveAt(s, i) \in Seq(S)
         /\ Len(RemoveAt(s, i)) = Len(s) - 1
         /\ \A j \in 1 .. Len(s) - 1 :
              RemoveAt(s, i)[j] = IF j < i THEN s[j] ELSE s[j + 1]
<1> DEFINE t == RemoveAt(s, i)
           n == Len(s)
           l == SubSeq(s, 1, i - 1)
           r == SubSeq(s, i + 1, n)
<1>1. n \in Nat /\ i \in 1 .. n /\ DOMAIN s = 1 .. n
  OBVIOUS
<1>2. /\ l \in Seq(S)
      /\ Len(l) = i - 1
      /\ \A j \in 1 .. i - 1 : l[j] = s[j]
  BY <1>1
<1>3. /\ r \in Seq(S)
      /\ Len(r) = n - i
      /\ \A j \in 1 .. n - i : r[j] = s[j + i]
  BY <1>1
<1>4. t = l \o r
  BY DEF RemoveAt
<1> HIDE DEF t, l, r, n
<1>5. t \in Seq(S) /\ Len(t) = n - 1
  <2>1. t \in Seq(S) /\ Len(t) = Len(l) + Len(r)
    BY <1>2, <1>3, <1>4, ConcatProperties
  <2>2. (i - 1) + (n - i) = n - 1
    BY <1>1
  <2>3. QED
    BY <1>2, <1>3, <2>1, <2>2
<1>6. ASSUME NEW j \in 1 .. n - 1
      PROVE  t[j] = IF j < i THEN s[j] ELSE s[j + 1]
  <2>1. CASE j < i
    BY <1>1, <1>2, <1>3, <1>4, <2>1
  <2>2. CASE j >= i
    <3>1. j - (i - 1) \in 1 .. n - i /\ t[j] = r[j - (i - 1)]
      BY <1>1, <1>2, <1>3, <1>4, <2>2
    <3>2. r[j - (i - 1)] = s[j + 1]
      BY <1>1, <1>3, <3>1
    <3>3. QED
      BY <1>1, <2>2, <3>1, <3>2
  <2>3. QED
    BY <1>1, <2>1, <2>2
<1>7. QED
  BY <1>5, <1>6 DEF t, n

\* The sequence with e put in at position k + 1.
LEMMA InsertAtProperties ==
  ASSUME NEW S, NEW s \in Seq(S), NEW k \in 0 .. Len(s), NEW e \in S
  PROVE  /\ InsertAt(s, k + 1, e) \in Seq(S)
         /\ Len(InsertAt(s, k + 1, e)) = Len(s) + 1
         /\ \A j \in 1 .. Len(s) + 1 :
              InsertAt(s, k + 1, e)[j] =
                IF j <= k THEN s[j] ELSE IF j = k + 1 THEN e ELSE s[j - 1]
<1> DEFINE t == InsertAt(s, k + 1, e)
           n == Len(s)
           l == SubSeq(s, 1, k)
           m == l \o <<e>>
           r == SubSeq(s, k + 1, n)
<1>1. n \in Nat /\ k \in 0 .. n
  OBVIOUS
<1>2. /\ l \in Seq(S)
      /\ Len(l) = k
      /\ \A j \in 1 .. k : l[j] = s[j]
  BY <1>1
<1>3. /\ r \in Seq(S)
      /\ Len(r) = n - k
      /\ \A j \in 1 .. n - k : r[j] = s[j + k]
  BY <1>1
<1>4. t = m \o r
  <2>1. (k + 1) - 1 = k
    BY <1>1
  <2>2. QED
    BY <2>1 DEF InsertAt
<1>5. /\ <<e>> \in Seq(S) /\ Len(<<e>>) = 1 /\ <<e>>[1] = e
  OBVIOUS
<1> HIDE DEF l, r, n
<1>6. /\ m \in Seq(S)
      /\ Len(m) = k + 1
      /\ \A j \in 1 .. k : m[j] = s[j]
      /\ m[k + 1] = e
  <2> HIDE DEF t
  <2>1. QED
    BY <1>1, <1>2, <1>5
<1> HIDE DEF t, m
<1>7. t \in Seq(S) /\ Len(t) = n + 1
  <2>1. t \in Seq(S) /\ Len(t) = Len(m) + Len(r)
    BY <1>3, <1>4, <1>6, ConcatProperties
  <2>2. (k + 1) + (n - k) = n + 1
    BY <1>1
  <2>3. QED
    BY <1>3, <1>6, <2>1, <2>2
<1>8. ASSUME NEW j \in 1 .. n + 1
      PROVE  t[j] = IF j <= k THEN s[j] ELSE IF j = k + 1 THEN e ELSE s[j - 1]
  <2>1. CASE j <= k + 1
    <3>1. j \in 1 .. Len(m) /\ t[j] = m[j]
      BY <1>1, <1>3, <1>4, <1>6, <2>1, ConcatProperties
    <3>2. QED
      BY <1>1, <1>6, <2>1, <3>1
  <2>2. CASE j > k + 1
    <3>1. j - (k + 1) \in 1 .. n - k /\ t[j] = r[j - (k + 1)]
      BY <1>1, <1>3, <1>4, <1>6, <2>2, ConcatProperties
    <3>2. r[j - (k + 1)] = s[j - 1]
      BY <1>1, <1>3, <3>1
    <3>3. QED
      BY <1>1, <2>2, <3>1, <3>2
  <2>3. QED
    BY <1>1, <2>1, <2>2
<1>9. QED
  BY <1>7, <1>8 DEF t, n
=============================================================================
