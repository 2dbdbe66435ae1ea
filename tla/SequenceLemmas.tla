--------------------------- MODULE SequenceLemmas ---------------------------
(***************************************************************************)
(* The range of a sequence after the operations the queues of this project *)
(* undergo: a task put in behind or in front, the first one taken; and the *)
(* relations between the elements of a queue, the earlier with the later,  *)
(* that these operations keep.                                             *)
(***************************************************************************)
EXTENDS Naturals, Sequences, Functions, TLAPS, SequenceTheorems

LEMMA RangeEmpty == Range(<<>>) = {}
<1>1. DOMAIN <<>> = {}
  OBVIOUS
<1> QED BY <1>1 DEF Range

LEMMA RangeAppend ==
    ASSUME NEW S, NEW q \in Seq(S), NEW e \in S
    PROVE  Range(Append(q, e)) = Range(q) \cup {e}
<1>1. /\ Append(q, e) \in Seq(S) /\ Len(Append(q, e)) = Len(q) + 1
      /\ \A i \in 1..Len(q) : Append(q, e)[i] = q[i]
      /\ Append(q, e)[Len(q) + 1] = e
  BY AppendProperties
<1>2. Len(q) \in Nat /\ DOMAIN q = 1..Len(q) /\ DOMAIN Append(q, e) = 1..Len(q) + 1
  BY <1>1, LenProperties
<1> QED BY <1>1, <1>2 DEF Range

LEMMA RangePrepend ==
    ASSUME NEW S, NEW q \in Seq(S), NEW e \in S
    PROVE  Range(<<e>> \o q) = Range(q) \cup {e}
<1>1. <<e>> \in Seq(S) /\ Len(<<e>>) = 1 /\ <<e>>[1] = e
  OBVIOUS
<1>2. /\ <<e>> \o q \in Seq(S) /\ Len(<<e>> \o q) = Len(<<e>>) + Len(q)
      /\ \A i \in 1..Len(<<e>> \o q) :
            (<<e>> \o q)[i] = IF i <= Len(<<e>>) THEN <<e>>[i] ELSE q[i - Len(<<e>>)]
  BY <1>1, ConcatProperties
<1>3. /\ Len(q) \in Nat /\ DOMAIN q = 1..Len(q)
      /\ DOMAIN (<<e>> \o q) = 1..Len(q) + 1
  BY <1>1, <1>2, LenProperties
<1>4. (<<e>> \o q)[1] = e /\ \A j \in 1..Len(q) : (<<e>> \o q)[j + 1] = q[j]
  BY <1>1, <1>2, <1>3
<1>5. \A i \in 2..Len(q) + 1 : i - 1 \in 1..Len(q) /\ (<<e>> \o q)[i] = q[i - 1]
  BY <1>1, <1>2, <1>3
<1>6. ASSUME NEW x \in Range(<<e>> \o q) PROVE x \in Range(q) \cup {e}
  <2>1. PICK i \in 1..Len(q) + 1 : x = (<<e>> \o q)[i]
    BY <1>3, <1>6 DEF Range
  <2>2. CASE i = 1
    BY <1>4, <2>1, <2>2
  <2>3. CASE i # 1
    <3>1. i \in 2..Len(q) + 1
      BY <1>3, <2>3
    <3> QED BY <1>3, <1>5, <2>1, <3>1 DEF Range
  <2> QED BY <2>2, <2>3
<1>7. ASSUME NEW x \in Range(q) PROVE x \in Range(<<e>> \o q)
  <2>1. PICK j \in 1..Len(q) : x = q[j]
    BY <1>3, <1>7 DEF Range
  <2>2. j + 1 \in 1..Len(q) + 1 /\ x = (<<e>> \o q)[j + 1]
    BY <1>3, <1>4, <2>1
  <2> QED BY <1>3, <2>2 DEF Range
<1>8. e \in Range(<<e>> \o q)
  BY <1>3, <1>4 DEF Range
<1> QED BY <1>6, <1>7, <1>8

LEMMA RangeTail ==
    ASSUME NEW S, NEW q \in Seq(S), q # <<>>
    PROVE  /\ Head(q) \in Range(q)
           /\ Range(q) = Range(Tail(q)) \cup {Head(q)}
<1>1. /\ Head(q) \in S /\ Tail(q) \in Seq(S) /\ Head(q) = q[1]
      /\ Len(Tail(q)) = Len(q) - 1
      /\ \A i \in 1..Len(Tail(q)) : Tail(q)[i] = q[i + 1]
  BY HeadTailProperties
<1>2. /\ Len(q) \in Nat \ {0} /\ DOMAIN q = 1..Len(q)
      /\ DOMAIN Tail(q) = 1..Len(q) - 1
  BY <1>1, LenProperties, EmptySeq
<1>3. \A i \in 2..Len(q) : i - 1 \in 1..Len(q) - 1 /\ q[i] = Tail(q)[i - 1]
  BY <1>1, <1>2
<1>4. \A i \in 1..Len(q) - 1 : i + 1 \in 1..Len(q)
  BY <1>2
<1>5. Head(q) \in Range(q)
  BY <1>1, <1>2 DEF Range
<1>6. ASSUME NEW x \in Range(q) PROVE x \in Range(Tail(q)) \cup {Head(q)}
  <2>1. PICK i \in 1..Len(q) : x = q[i]
    BY <1>2, <1>6 DEF Range
  <2>2. CASE i = 1
    BY <1>1, <2>1, <2>2
  <2>3. CASE i # 1
    <3>1. i \in 2..Len(q)
      BY <1>2, <2>3
    <3> QED BY <1>2, <1>3, <2>1, <3>1 DEF Range
  <2> QED BY <2>2, <2>3
<1>7. ASSUME NEW x \in Range(Tail(q)) PROVE x \in Range(q)
  <2>1. PICK i \in 1..Len(q) - 1 : x = Tail(q)[i]
    BY <1>2, <1>7 DEF Range
  <2>2. x = q[i + 1]
    BY <1>1, <1>2, <2>1
  <2> QED BY <1>2, <1>4, <2>2 DEF Range
<1> QED BY <1>5, <1>6, <1>7

LEMMA RangeType ==
    ASSUME NEW S, NEW q \in Seq(S)
    PROVE  Range(q) \subseteq S
BY LenProperties, ElementOfSeq DEF Range

-----------------------------------------------------------------------------
\* Every element of q is related to all that come later.
Pairwise(q, R) == \A i, j \in DOMAIN q : i < j => <<q[i], q[j]>> \in R

LEMMA PairwiseEmpty ==
    ASSUME NEW R
    PROVE  Pairwise(<<>>, R)
<1>1. DOMAIN <<>> = {}
  OBVIOUS
<1> QED BY <1>1 DEF Pairwise

LEMMA PairwiseAppend ==
    ASSUME NEW S, NEW R, NEW q \in Seq(S), NEW e \in S,
           Pairwise(q, R), \A x \in Range(q) : <<x, e>> \in R
    PROVE  Pairwise(Append(q, e), R)
<1>1. /\ Append(q, e) \in Seq(S) /\ Len(Append(q, e)) = Len(q) + 1
      /\ \A i \in 1..Len(q) : Append(q, e)[i] = q[i]
      /\ Append(q, e)[Len(q) + 1] = e
  BY AppendProperties
<1>2. Len(q) \in Nat /\ DOMAIN q = 1..Len(q) /\ DOMAIN Append(q, e) = 1..Len(q) + 1
  BY <1>1, LenProperties
<1>3. SUFFICES ASSUME NEW i \in 1..Len(q) + 1, NEW j \in 1..Len(q) + 1, i < j
               PROVE  <<Append(q, e)[i], Append(q, e)[j]>> \in R
  BY <1>2 DEF Pairwise
<1>4. i \in 1..Len(q) /\ Append(q, e)[i] = q[i] /\ q[i] \in Range(q)
  BY <1>1, <1>2, <1>3 DEF Range
<1>5. CASE j = Len(q) + 1
  BY <1>1, <1>4, <1>5
<1>6. CASE j # Len(q) + 1
  <2>1. j \in 1..Len(q) /\ Append(q, e)[j] = q[j]
    BY <1>1, <1>2, <1>6
  <2> QED BY <1>2, <1>3, <1>4, <2>1 DEF Pairwise
<1> QED BY <1>5, <1>6

LEMMA PairwisePrepend ==
    ASSUME NEW S, NEW R, NEW q \in Seq(S), NEW e \in S,
           Pairwise(q, R), \A x \in Range(q) : <<e, x>> \in R
    PROVE  Pairwise(<<e>> \o q, R)
<1>1. <<e>> \in Seq(S) /\ Len(<<e>>) = 1 /\ <<e>>[1] = e
  OBVIOUS
<1>2. /\ <<e>> \o q \in Seq(S) /\ Len(<<e>> \o q) = Len(<<e>>) + Len(q)
      /\ \A i \in 1..Len(<<e>> \o q) :
            (<<e>> \o q)[i] = IF i <= Len(<<e>>) THEN <<e>>[i] ELSE q[i - Len(<<e>>)]
  BY <1>1, ConcatProperties
<1>3. /\ Len(q) \in Nat /\ DOMAIN q = 1..Len(q)
      /\ DOMAIN (<<e>> \o q) = 1..Len(q) + 1
  BY <1>1, <1>2, LenProperties
<1>4. /\ (<<e>> \o q)[1] = e
      /\ \A k \in 2..Len(q) + 1 : k - 1 \in 1..Len(q) /\ (<<e>> \o q)[k] = q[k - 1]
  BY <1>1, <1>2, <1>3
<1>5. SUFFICES ASSUME NEW i \in 1..Len(q) + 1, NEW j \in 1..Len(q) + 1, i < j
               PROVE  <<(<<e>> \o q)[i], (<<e>> \o q)[j]>> \in R
  BY <1>3 DEF Pairwise
<1>6. j \in 2..Len(q) + 1
  BY <1>3, <1>5
<1>7. j - 1 \in 1..Len(q) /\ (<<e>> \o q)[j] = q[j - 1] /\ q[j - 1] \in Range(q)
  BY <1>3, <1>4, <1>6 DEF Range
<1>8. CASE i = 1
  BY <1>4, <1>7, <1>8
<1>9. CASE i # 1
  <2>1. i \in 2..Len(q) + 1
    BY <1>3, <1>9
  <2>2. i - 1 \in 1..Len(q) /\ (<<e>> \o q)[i] = q[i - 1] /\ i - 1 < j - 1
    BY <1>3, <1>4, <1>5, <2>1
  <2> QED BY <1>3, <1>7, <2>2 DEF Pairwise
<1> QED BY <1>8, <1>9

LEMMA PairwiseTail ==
    ASSUME NEW S, NEW R, NEW q \in Seq(S), q # <<>>, Pairwise(q, R)
    PROVE  /\ Pairwise(Tail(q), R)
           /\ \A x \in Range(Tail(q)) : <<Head(q), x>> \in R
<1>1. /\ Head(q) \in S /\ Tail(q) \in Seq(S) /\ Head(q) = q[1]
      /\ Len(Tail(q)) = Len(q) - 1
      /\ \A i \in 1..Len(Tail(q)) : Tail(q)[i] = q[i + 1]
  BY HeadTailProperties
<1>2. /\ Len(q) \in Nat \ {0} /\ DOMAIN q = 1..Len(q)
      /\ DOMAIN Tail(q) = 1..Len(q) - 1
  BY <1>1, LenProperties, EmptySeq
<1>3. \A i \in 1..Len(q) - 1 : i + 1 \in 1..Len(q) /\ Tail(q)[i] = q[i + 1]
  BY <1>1, <1>2
<1>4. Pairwise(Tail(q), R)
  <2>1. SUFFICES ASSUME NEW i \in 1..Len(q) - 1, NEW j \in 1..Len(q) - 1, i < j
                 PROVE  <<Tail(q)[i], Tail(q)[j]>> \in R
    BY <1>2 DEF Pairwise
  <2>2. i + 1 < j + 1
    BY <1>2, <2>1
  <2> QED BY <1>2, <1>3, <2>2 DEF Pairwise
<1>5. ASSUME NEW x \in Range(Tail(q)) PROVE <<Head(q), x>> \in R
  <2>1. PICK i \in 1..Len(q) - 1 : x = Tail(q)[i]
    BY <1>2, <1>5 DEF Range
  <2>2. 1 \in 1..Len(q) /\ i + 1 \in 1..Len(q) /\ 1 < i + 1
    BY <1>2
  <2>3. <<q[1], q[i + 1]>> \in R
    BY <1>2, <1>3, <2>2 DEF Pairwise
  <2> QED BY <1>1, <1>3, <2>1, <2>3
<1> QED BY <1>4, <1>5


-----------------------------------------------------------------------------
(* Two sequences one behind the other. *)

LEMMA RangeConcat ==
    ASSUME NEW S, NEW p \in Seq(S), NEW q \in Seq(S)
    PROVE  Range(p \o q) = Range(p) \cup Range(q)
<1>1. /\ p \o q \in Seq(S) /\ Len(p \o q) = Len(p) + Len(q)
      /\ \A i \in 1..Len(p) + Len(q) :
            (p \o q)[i] = IF i <= Len(p) THEN p[i] ELSE q[i - Len(p)]
  BY ConcatProperties
<1>2. /\ Len(p) \in Nat /\ DOMAIN p = 1..Len(p) /\ Len(q) \in Nat /\ DOMAIN q = 1..Len(q)
      /\ DOMAIN (p \o q) = 1..Len(p) + Len(q)
  BY <1>1, LenProperties
<1> DEFINE r == p \o q
<1>3. /\ \A i \in 1..Len(p) : i \in DOMAIN r /\ r[i] = p[i]
      /\ \A i \in 1..Len(q) : i + Len(p) \in DOMAIN r /\ r[i + Len(p)] = q[i]
      /\ \A i \in DOMAIN r : i \in 1..Len(p) \/ (i - Len(p) \in 1..Len(q) /\ r[i] = q[i - Len(p)])
  BY <1>1, <1>2
<1> HIDE DEF r
<1>4. Range(r) \subseteq Range(p) \cup Range(q)
  BY <1>2, <1>3 DEF Range
<1>5. Range(p) \cup Range(q) \subseteq Range(r)
  <2>1. Range(p) \subseteq Range(r)
    BY <1>2, <1>3 DEF Range
  <2>2. ASSUME NEW x \in Range(q) PROVE x \in Range(r)
    <3>1. PICK i \in 1..Len(q) : x = q[i]
      BY <1>2, <2>2 DEF Range
    <3>2. i + Len(p) \in DOMAIN r /\ r[i + Len(p)] = x
      BY <1>3, <3>1
    <3> QED BY <3>2 DEF Range
  <2> QED BY <2>1, <2>2
<1> QED BY <1>4, <1>5 DEF r

\* Nothing is in both, and nothing twice in one of them, if nothing is twice in all.
LEMMA InjectiveConcat ==
    ASSUME NEW S, NEW p \in Seq(S), NEW q \in Seq(S)
    PROVE  IsInjective(p \o q) <=>
               IsInjective(p) /\ IsInjective(q) /\ Range(p) \cap Range(q) = {}
<1>1. /\ p \o q \in Seq(S) /\ Len(p \o q) = Len(p) + Len(q)
      /\ \A i \in 1..Len(p) + Len(q) :
            (p \o q)[i] = IF i <= Len(p) THEN p[i] ELSE q[i - Len(p)]
  BY ConcatProperties
<1>2. /\ Len(p) \in Nat /\ DOMAIN p = 1..Len(p) /\ Len(q) \in Nat /\ DOMAIN q = 1..Len(q)
      /\ DOMAIN (p \o q) = 1..Len(p) + Len(q)
  BY <1>1, LenProperties
<1> DEFINE r == p \o q
           k == Len(p)
<1>3. /\ \A i \in 1..k : i \in DOMAIN r /\ r[i] = p[i]
      /\ \A i \in 1..Len(q) : i + k \in DOMAIN r /\ r[i + k] = q[i]
      /\ \A i \in DOMAIN r : i \in 1..k \/ (i \notin 1..k /\ i - k \in 1..Len(q) /\ r[i] = q[i - k])
      /\ k \in Nat /\ DOMAIN p = 1..k /\ DOMAIN q = 1..Len(q) /\ DOMAIN r \subseteq Nat
      /\ Len(q) \in Nat
  BY <1>1, <1>2
<1> HIDE DEF r, k
<1>4. ASSUME IsInjective(r)
      PROVE  IsInjective(p) /\ IsInjective(q) /\ Range(p) \cap Range(q) = {}
  <2>1. IsInjective(p)
    BY <1>3, <1>4 DEF IsInjective
  <2>2. ASSUME NEW i \in 1..Len(q), NEW j \in 1..Len(q), q[i] = q[j] PROVE i = j
    <3>1. i + k = j + k
      BY <1>3, <1>4, <2>2 DEF IsInjective
    <3> QED BY <1>3, <3>1
  <2>3. ASSUME NEW i \in 1..k, NEW j \in 1..Len(q), p[i] = q[j] PROVE FALSE
    <3>1. i = j + k
      BY <1>3, <1>4, <2>3 DEF IsInjective
    <3> QED BY <1>3, <3>1
  <2> QED BY <1>3, <2>1, <2>2, <2>3 DEF IsInjective, Range
<1>5. ASSUME IsInjective(p), IsInjective(q), Range(p) \cap Range(q) = {}
      PROVE  IsInjective(r)
  <2>1. SUFFICES ASSUME NEW i \in DOMAIN r, NEW j \in DOMAIN r, r[i] = r[j]
                 PROVE  i = j
    BY DEF IsInjective
  <2>2. CASE i \in 1..k /\ j \in 1..k
    BY <1>3, <1>5, <2>1, <2>2 DEF IsInjective
  <2>3. CASE i \notin 1..k /\ j \notin 1..k
    <3>1. i - k \in 1..Len(q) /\ j - k \in 1..Len(q) /\ q[i - k] = q[j - k]
      BY <1>3, <2>1, <2>3
    <3>2. i - k = j - k
      BY <1>3, <1>5, <3>1 DEF IsInjective
    <3> QED BY <1>3, <3>2
  <2>4. ASSUME NEW a \in 1..k, NEW b \in 1..Len(q) PROVE p[a] # q[b]
    <3>1. p[a] \in Range(p) /\ q[b] \in Range(q)
      BY <1>3 DEF Range
    <3> QED BY <1>5, <3>1
  <2>5. CASE i \in 1..k /\ j \notin 1..k
    BY <1>3, <2>1, <2>4, <2>5
  <2>6. CASE i \notin 1..k /\ j \in 1..k
    BY <1>3, <2>1, <2>4, <2>6
  <2> QED BY <2>2, <2>3, <2>5, <2>6
<1> QED BY <1>4, <1>5 DEF r

\* A new element is put behind others.
LEMMA InjectiveAppend ==
    ASSUME NEW S, NEW q \in Seq(S), NEW e \in S, IsInjective(q), e \notin Range(q)
    PROVE  IsInjective(Append(q, e))
<1>1. /\ Append(q, e) \in Seq(S) /\ Len(Append(q, e)) = Len(q) + 1
      /\ \A i \in 1..Len(q) : Append(q, e)[i] = q[i]
      /\ Append(q, e)[Len(q) + 1] = e
  BY AppendProperties
<1>2. Len(q) \in Nat /\ DOMAIN q = 1..Len(q) /\ DOMAIN Append(q, e) = 1..Len(q) + 1
  BY <1>1, LenProperties
<1>3. \A i \in 1..Len(q) : q[i] # e
  BY <1>2 DEF Range
<1> SUFFICES ASSUME NEW i \in 1..Len(q) + 1, NEW j \in 1..Len(q) + 1, i # j
             PROVE  Append(q, e)[i] # Append(q, e)[j]
  BY <1>2 DEF IsInjective
<1>4. CASE i \in 1..Len(q) /\ j \in 1..Len(q)
  BY <1>1, <1>2, <1>4 DEF IsInjective
<1>5. CASE i = Len(q) + 1 \/ j = Len(q) + 1
  BY <1>1, <1>2, <1>3, <1>5
<1> QED BY <1>2, <1>4, <1>5

LEMMA SplitConcat ==
    ASSUME NEW S, NEW q \in Seq(S), NEW n \in 0..Len(q)
    PROVE  /\ SubSeq(q, 1, n) \in Seq(S) /\ SubSeq(q, n + 1, Len(q)) \in Seq(S)
           /\ SubSeq(q, 1, n) \o SubSeq(q, n + 1, Len(q)) = q
           /\ n = Len(q) => SubSeq(q, n + 1, Len(q)) = <<>>
<1>1. Len(q) \in Nat /\ 1 \in 1..Len(q) + 1 /\ n \in 1 - 1..Len(q) /\ Len(q) \in n..Len(q)
  BY LenProperties
<1>2. SubSeq(q, 1, n) \o SubSeq(q, n + 1, Len(q)) = SubSeq(q, 1, Len(q))
  BY <1>1, ConcatAdjacentSubSeq
<1>3. SubSeq(q, 1, Len(q)) = q
  BY SubSeqFull
<1>4. SubSeq(q, 1, n) \in Seq(S) /\ SubSeq(q, n + 1, Len(q)) \in Seq(S)
  BY <1>1
<1>5. n = Len(q) => SubSeq(q, n + 1, Len(q)) = <<>>
  BY <1>1, SubSeqEmpty
<1> QED BY <1>2, <1>3, <1>4, <1>5


\* The last element is taken away.
LEMMA DropLast ==
    ASSUME NEW S, NEW q \in Seq(S), q # <<>>
    PROVE  /\ SubSeq(q, 1, Len(q) - 1) \in Seq(S)
           /\ Len(SubSeq(q, 1, Len(q) - 1)) = Len(q) - 1
           /\ \A i \in 1..Len(q) - 1 : SubSeq(q, 1, Len(q) - 1)[i] = q[i]
<1> DEFINE n == Len(q) - 1
<1>1. Len(q) \in Nat /\ DOMAIN q = 1..Len(q) /\ Len(q) # 0
  BY LenProperties, EmptySeq
<1>2. n \in Nat /\ n <= Len(q) /\ \A i \in 1..n : q[i] \in S
  BY <1>1, ElementOfSeq
<1> HIDE DEF n
<1>3. /\ SubSeq(q, 1, n) \in Seq(S)
      /\ Len(SubSeq(q, 1, n)) = IF 1 <= n THEN n - 1 + 1 ELSE 0
      /\ \A i \in 1..n - 1 + 1 : SubSeq(q, 1, n)[i] = q[1 + i - 1]
  BY <1>2, SubSeqProperties
<1>4. /\ Len(SubSeq(q, 1, n)) = n
      /\ \A i \in 1..n : SubSeq(q, 1, n)[i] = q[i]
  BY <1>2, <1>3
<1> QED BY <1>3, <1>4 DEF n
=============================================================================
