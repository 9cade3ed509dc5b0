------------------------ MODULE StreamSessionProofs ------------------------
(***************************************************************************)
(* For every size of buffer, chunk and ring, and in whatever order, how    *)
(* late or how incompletely the answers come: the host's books balance,    *)
(* the DAC has room for all that is sent to it, and an undisturbed stream  *)
(* sends the points of the frame.                                          *)
(***************************************************************************)
EXTENDS StreamSessionSafety, FiniteSetTheorems, SequenceTheorems, TLAPS

-----------------------------------------------------------------------------
(* Sequences without their first elements.                                 *)

LEMMA Dropped ==
  ASSUME NEW S, NEW s \in Seq(S), NEW k \in 0 .. Len(s)
  PROVE  /\ Drop(s, k) \in Seq(S) /\ Len(Drop(s, k)) = Len(s) - k
         /\ \A i \in 1 .. Len(s) - k : Drop(s, k)[i] = s[i + k]
<1>1. Len(s) \in Nat /\ \A i \in k + 1 .. Len(s) : s[i] \in S
  BY LenProperties, ElementOfSeq
<1>2. QED
  BY <1>1, SubSeqProperties, k + 1 \in Int DEF Drop

LEMMA Taken ==
  ASSUME NEW S, NEW s \in Seq(S), NEW k \in 0 .. Len(s)
  PROVE  /\ SubSeq(s, 1, k) \in Seq(S) /\ Len(SubSeq(s, 1, k)) = k
         /\ \A i \in 1 .. k : SubSeq(s, 1, k)[i] = s[i]
         /\ SubSeq(s, 1, k) \o Drop(s, k) = s
<1>1. Len(s) \in Nat /\ \A i \in 1 .. k : s[i] \in S
  BY LenProperties, ElementOfSeq
<1>2. /\ SubSeq(s, 1, k) \in Seq(S) /\ Len(SubSeq(s, 1, k)) = k
      /\ \A i \in 1 .. k : SubSeq(s, 1, k)[i] = s[i]
  BY <1>1, SubSeqProperties
<1>3. /\ Drop(s, k) \in Seq(S) /\ Len(Drop(s, k)) = Len(s) - k
      /\ \A i \in 1 .. Len(s) - k : Drop(s, k)[i] = s[i + k]
  BY Dropped
<1>4. /\ SubSeq(s, 1, k) \o Drop(s, k) \in Seq(S)
      /\ Len(SubSeq(s, 1, k) \o Drop(s, k)) = Len(s)
      /\ \A i \in 1 .. Len(s) :
           (SubSeq(s, 1, k) \o Drop(s, k))[i]
             = IF i <= k THEN SubSeq(s, 1, k)[i] ELSE Drop(s, k)[i - k]
  BY <1>1, <1>2, <1>3, ConcatProperties
<1>5. \A i \in 1 .. Len(s) : (SubSeq(s, 1, k) \o Drop(s, k))[i] = s[i]
  BY <1>1, <1>2, <1>3, <1>4, SMT
<1>6. QED
  BY <1>2, <1>4, <1>5, SeqEqual

LEMMA HeadAndTail ==
  ASSUME NEW S, NEW s \in Seq(S), s # <<>>
  PROVE  /\ Len(s) \in Nat \ {0} /\ Head(s) = s[1] /\ s[1] \in S
         /\ Tail(s) \in Seq(S) /\ Len(Tail(s)) = Len(s) - 1
         /\ \A i \in 1 .. Len(s) - 1 : Tail(s)[i] = s[i + 1]
         /\ <<s[1]>> \o Tail(s) = s
<1>1. Len(s) \in Nat \ {0}
  BY EmptySeq
<1>2. Head(s) = s[1] /\ s[1] \in S
  BY <1>1, ElementOfSeq
<1>3. /\ Tail(s) \in Seq(S) /\ Len(Tail(s)) = Len(s) - 1
      /\ \A i \in 1 .. Len(s) - 1 : Tail(s)[i] = s[i + 1]
  BY HeadTailProperties
<1>4. <<s[1]>> \in Seq(S) /\ Len(<<s[1]>>) = 1 /\ <<s[1]>>[1] = s[1]
  BY <1>2
<1>5. /\ <<s[1]>> \o Tail(s) \in Seq(S)
      /\ Len(<<s[1]>> \o Tail(s)) = 1 + Len(Tail(s))
      /\ \A i \in 1 .. 1 + Len(Tail(s)) :
           (<<s[1]>> \o Tail(s))[i]
             = IF i <= 1 THEN <<s[1]>>[i] ELSE Tail(s)[i - 1]
  BY <1>3, <1>4, ConcatProperties
<1>6. \A i \in 1 .. Len(s) : (<<s[1]>> \o Tail(s))[i] = s[i]
  BY <1>1, <1>3, <1>4, <1>5
<1>7. QED
  BY <1>1, <1>2, <1>3, <1>5, <1>6, SeqEqual

LEMMA DropAll ==
  ASSUME NEW S, NEW s \in Seq(S)
  PROVE  Drop(s, 0) = s /\ Drop(s, Len(s)) = <<>>
<1>1. Len(s) \in Nat
  BY LenProperties
<1>2. Drop(s, 0) = s
  BY SubSeqFull DEF Drop
<1>3. Drop(s, Len(s)) = <<>>
  BY <1>1, SubSeqEmpty DEF Drop
<1>4. QED
  BY <1>2, <1>3

LEMMA DropTail ==
  ASSUME NEW S, NEW s \in Seq(S), NEW k \in Nat, k < Len(s)
  PROVE  Drop(Tail(s), k) = Drop(s, k + 1)
<1>1. s # <<>>
  BY EmptySeq
<1>2. /\ Tail(s) \in Seq(S) /\ Len(Tail(s)) = Len(s) - 1 /\ Len(s) \in Nat
      /\ \A i \in 1 .. Len(s) - 1 : Tail(s)[i] = s[i + 1]
  BY <1>1, HeadAndTail
<1>3. k \in 0 .. Len(Tail(s)) /\ k + 1 \in 0 .. Len(s)
  BY <1>2
<1>4. /\ Drop(Tail(s), k) \in Seq(S)
      /\ Len(Drop(Tail(s), k)) = Len(Tail(s)) - k
      /\ \A i \in 1 .. Len(Tail(s)) - k : Drop(Tail(s), k)[i] = Tail(s)[i + k]
  BY <1>2, <1>3, Dropped
<1>5. /\ Drop(s, k + 1) \in Seq(S)
      /\ Len(Drop(s, k + 1)) = Len(s) - (k + 1)
      /\ \A i \in 1 .. Len(s) - (k + 1) : Drop(s, k + 1)[i] = s[i + (k + 1)]
  BY <1>3, Dropped
<1>6. \A i \in 1 .. Len(Drop(s, k + 1)) : Drop(Tail(s), k)[i] = Drop(s, k + 1)[i]
  BY <1>2, <1>4, <1>5, SMT
<1>7. QED
  BY <1>2, <1>4, <1>5, <1>6, SeqEqual

LEMMA DropAppend ==
  ASSUME NEW S, NEW s \in Seq(S), NEW x \in S, NEW k \in 0 .. Len(s)
  PROVE  Drop(Append(s, x), k) = Append(Drop(s, k), x)
<1> DEFINE a == Append(s, x)
           d == Drop(s, k)
           l == Drop(a, k)
           r == Append(d, x)
<1>1. /\ a \in Seq(S) /\ Len(a) = Len(s) + 1 /\ Len(s) \in Nat
      /\ \A i \in 1 .. Len(s) : a[i] = s[i]
      /\ a[Len(s) + 1] = x
  BY AppendProperties, LenProperties
<1>2. /\ d \in Seq(S) /\ Len(d) = Len(s) - k
      /\ \A i \in 1 .. Len(s) - k : d[i] = s[i + k]
  BY Dropped
<1> HIDE DEF a, d
<1>3. /\ r \in Seq(S) /\ Len(r) = Len(d) + 1
      /\ \A i \in 1 .. Len(d) : r[i] = d[i]
      /\ r[Len(d) + 1] = x
  BY <1>2, AppendProperties
<1>4. k \in 0 .. Len(a)
  BY <1>1
<1>5. /\ l \in Seq(S) /\ Len(l) = Len(a) - k
      /\ \A i \in 1 .. Len(a) - k : l[i] = a[i + k]
  BY <1>1, <1>4, Dropped
<1> HIDE DEF l, r
<1>6. Len(l) = Len(s) - k + 1 /\ Len(r) = Len(l)
  BY <1>1, <1>2, <1>3, <1>5
<1>7. ASSUME NEW i \in 1 .. Len(l) PROVE l[i] = r[i]
  <2>1. i \in 1 .. Len(a) - k /\ l[i] = a[i + k]
    BY <1>5
  <2>2. CASE i <= Len(s) - k
    BY <1>1, <1>2, <1>3, <1>6, <2>1, <2>2
  <2>3. CASE i = Len(s) - k + 1
    <3>1. i + k = Len(s) + 1 /\ i = Len(d) + 1
      BY <1>1, <1>2, <2>3
    <3>2. QED
      BY <1>1, <1>3, <2>1, <3>1
  <2>4. QED
    BY <1>1, <1>6, <2>2, <2>3
<1>8. l = r
  BY <1>3, <1>5, <1>6, <1>7, SeqEqual
<1>9. QED
  BY <1>8 DEF l, r, a, d

-----------------------------------------------------------------------------
(* How many of a sequence are in a set.                                    *)

LEMMA CountRange ==
  ASSUME NEW S, NEW s \in Seq(S), NEW K
  PROVE  Count(s, K) \in 0 .. Len(s)
<1>1. Len(s) \in Nat /\ DOMAIN s = 1 .. Len(s)
  BY LenProperties
<1>2. IsFiniteSet(1 .. Len(s)) /\ Cardinality(1 .. Len(s)) = Len(s)
  BY <1>1, FS_Interval
<1>3. {i \in DOMAIN s : s[i] \in K} \in SUBSET (1 .. Len(s))
  BY <1>1
<1>4. /\ IsFiniteSet({i \in DOMAIN s : s[i] \in K})
      /\ Cardinality({i \in DOMAIN s : s[i] \in K}) <= Len(s)
  BY <1>2, <1>3, FS_Subset
<1>5. QED
  BY <1>1, <1>4, FS_CardinalityType DEF Count

LEMMA CountConcat ==
  ASSUME NEW S, NEW s \in Seq(S), NEW t \in Seq(S), NEW K
  PROVE  Count(s \o t, K) = Count(s, K) + Count(t, K)
<1> DEFINE w == s \o t
           A == {i \in 1 .. Len(s) : s[i] \in K}
           B == {i \in 1 .. Len(t) : t[i] \in K}
           C == {i \in 1 .. Len(s) + Len(t) : w[i] \in K}
           D == {i \in C : i > Len(s)}
           f == [j \in B |-> j + Len(s)]
<1>1. /\ w \in Seq(S) /\ Len(w) = Len(s) + Len(t)
      /\ \A i \in 1 .. Len(s) + Len(t) :
           w[i] = IF i <= Len(s) THEN s[i] ELSE t[i - Len(s)]
  BY ConcatProperties
<1>2. /\ Len(s) \in Nat /\ Len(t) \in Nat /\ DOMAIN s = 1 .. Len(s)
      /\ DOMAIN t = 1 .. Len(t) /\ DOMAIN w = 1 .. Len(w)
  BY <1>1, LenProperties
<1> HIDE DEF w
<1>3. IsFiniteSet(A) /\ IsFiniteSet(B)
  <2>1. IsFiniteSet(1 .. Len(s)) /\ IsFiniteSet(1 .. Len(t))
    BY <1>2, FS_Interval
  <2>2. A \in SUBSET (1 .. Len(s)) /\ B \in SUBSET (1 .. Len(t))
    OBVIOUS
  <2>3. QED
    BY <2>1, <2>2, FS_Subset
<1>4. f \in Bijection(B, D)
  <2>1. ASSUME NEW j \in B PROVE f[j] \in D
    <3>1. j + Len(s) \in 1 .. Len(s) + Len(t) /\ j + Len(s) > Len(s)
      BY <1>2
    <3>2. w[j + Len(s)] = t[j]
      BY <1>1, <1>2, <3>1
    <3>3. QED
      BY <3>1, <3>2
  <2>2. \A j, k \in B : f[j] = f[k] => j = k
    BY <1>2
  <2>3. \A i \in D : i - Len(s) \in B /\ f[i - Len(s)] = i
    BY <1>1, <1>2
  <2>4. f \in [B -> D]
    BY <2>1
  <2>5. \A i \in D : \E j \in B : f[j] = i
    BY <2>3
  <2> HIDE DEF f, B, D
  <2>6. QED
    BY <2>2, <2>4, <2>5 DEF Bijection, Injection, Surjection, IsInjective
<1>5. IsFiniteSet(D) /\ Cardinality(D) = Cardinality(B)
  BY <1>3, <1>4, FS_Bijection DEF ExistsBijection
<1>6. C = A \union D /\ A \cap D = {}
  BY <1>1, <1>2
<1>7. Cardinality(C) = Cardinality(A) + Cardinality(D) - Cardinality({})
  <2>1. IsFiniteSet(A) /\ IsFiniteSet(D)
    BY <1>3, <1>5, Zenon
  <2> HIDE DEF A, B, C, D
  <2>2. Cardinality(A \union D)
          = Cardinality(A) + Cardinality(D) - Cardinality(A \cap D)
    BY <2>1, FS_Union
  <2>3. QED
    BY <1>6, <2>2, Zenon
<1>8. Cardinality({}) = 0 /\ Cardinality(A) \in Nat /\ Cardinality(B) \in Nat
  BY <1>3, FS_EmptySet, FS_CardinalityType
<1>9. Count(s, K) = Cardinality(A) /\ Count(t, K) = Cardinality(B)
  BY <1>2 DEF Count
<1>10. Count(w, K) = Cardinality(C)
  BY <1>1, <1>2 DEF Count
<1> HIDE DEF A, B, C, D
<1>11. Count(w, K) = Count(s, K) + Count(t, K)
  BY <1>5, <1>7, <1>8, <1>9, <1>10
<1>12. QED
  BY <1>11 DEF w

LEMMA CountOne ==
  ASSUME NEW x, NEW K
  PROVE  /\ Count(<<x>>, K) = IF x \in K THEN 1 ELSE 0
         /\ Count(<<>>, K) = 0
<1>1. {i \in DOMAIN <<>> : <<>>[i] \in K} = {}
  OBVIOUS
<1>2. Count(<<>>, K) = 0
  BY <1>1, FS_EmptySet DEF Count
<1>3. {i \in DOMAIN <<x>> : <<x>>[i] \in K} = IF x \in K THEN {1} ELSE {}
  OBVIOUS
<1>4. Count(<<x>>, K) = IF x \in K THEN 1 ELSE 0
  BY <1>3, FS_EmptySet, FS_Singleton, Zenon DEF Count
<1>5. QED
  BY <1>2, <1>4

LEMMA CountAppend ==
  ASSUME NEW S, NEW s \in Seq(S), NEW x \in S, NEW K
  PROVE  Count(Append(s, x), K) = Count(s, K) + (IF x \in K THEN 1 ELSE 0)
<1>1. Append(s, x) = s \o <<x>> /\ <<x>> \in Seq(S)
  BY AppendIsConcat
<1>2. Count(s \o <<x>>, K) = Count(s, K) + Count(<<x>>, K)
  BY <1>1, CountConcat
<1>3. QED
  BY <1>1, <1>2, CountOne

LEMMA CountTail ==
  ASSUME NEW S, NEW s \in Seq(S), s # <<>>, NEW K
  PROVE  Count(s, K) = (IF s[1] \in K THEN 1 ELSE 0) + Count(Tail(s), K)
<1>1. Tail(s) \in Seq(S) /\ <<s[1]>> \o Tail(s) = s /\ <<s[1]>> \in Seq(S)
  BY HeadAndTail
<1>2. Count(<<s[1]>> \o Tail(s), K) = Count(<<s[1]>>, K) + Count(Tail(s), K)
  <2>1. <<s[1]>> \in Seq(S) /\ Tail(s) \in Seq(S)
    BY <1>1, Zenon
  <2>2. QED
    BY <2>1, CountConcat
<1>3. Count(<<s[1]>>, K) = IF s[1] \in K THEN 1 ELSE 0
  BY CountOne
<1>4. QED
  BY <1>1, <1>2, <1>3, Zenon

LEMMA CountSplit ==
  ASSUME NEW S, NEW s \in Seq(S), NEW k \in 0 .. Len(s), NEW K
  PROVE  Count(s, K) = Count(SubSeq(s, 1, k), K) + Count(Drop(s, k), K)
<1>1. /\ SubSeq(s, 1, k) \in Seq(S) /\ Drop(s, k) \in Seq(S)
      /\ SubSeq(s, 1, k) \o Drop(s, k) = s
  BY Taken, Dropped
<1>2. Count(SubSeq(s, 1, k) \o Drop(s, k), K)
        = Count(SubSeq(s, 1, k), K) + Count(Drop(s, k), K)
  <2>1. SubSeq(s, 1, k) \in Seq(S) /\ Drop(s, k) \in Seq(S)
    BY <1>1, Zenon
  <2>2. QED
    BY <2>1, CountConcat
<1>3. QED
  BY <1>1, <1>2, Zenon

-----------------------------------------------------------------------------
(* The sum of a sequence of numbers.                                       *)

Cells(s) == UNION {{i} \X (1 .. s[i]) : i \in DOMAIN s}

LEMMA TotalType ==
  ASSUME NEW s \in Seq(Nat)
  PROVE  /\ IsFiniteSet(Cells(s)) /\ Total(s) \in Nat
         /\ Total(s) = Cardinality(Cells(s))
         /\ \A p : p \in Cells(s) <=>
              /\ p = <<p[1], p[2]>> /\ p[1] \in 1 .. Len(s)
              /\ p[2] \in 1 .. s[p[1]]
<1> DEFINE row == [i \in 1 .. Len(s) |-> {i} \X (1 .. s[i])]
           Rows == {{i} \X (1 .. s[i]) : i \in 1 .. Len(s)}
<1>1. Len(s) \in Nat /\ DOMAIN s = 1 .. Len(s)
      /\ \A i \in 1 .. Len(s) : s[i] \in Nat
  BY LenProperties, ElementOfSeq
<1>2. Cells(s) = UNION Rows
  BY <1>1 DEF Cells
<1>3. row \in Surjection(1 .. Len(s), Rows)
  BY DEF Surjection
<1>4. IsFiniteSet(Rows)
  <2>1. IsFiniteSet(1 .. Len(s))
    BY <1>1, FS_Interval
  <2> HIDE DEF row, Rows
  <2>2. QED
    BY <1>3, <2>1, FS_Surjection
<1>5. \A r \in Rows : IsFiniteSet(r)
  <2> TAKE r \in Rows
  <2>1. PICK i \in 1 .. Len(s) : r = {i} \X (1 .. s[i])
    OBVIOUS
  <2>2. IsFiniteSet({i}) /\ IsFiniteSet(1 .. s[i])
    <3>1. IsFiniteSet({i})
      BY FS_Singleton, Zenon
    <3>2. s[i] \in Int /\ 1 \in Int
      BY <1>1
    <3>3. QED
      BY <3>1, <3>2, FS_Interval
  <2>3. QED
    BY <2>1, <2>2, FS_Product
<1>6. IsFiniteSet(Cells(s))
  BY <1>2, <1>4, <1>5, FS_UNION
<1>7. Total(s) = Cardinality(Cells(s))
  BY DEF Total, Cells
<1>8. ASSUME NEW p
      PROVE  p \in Cells(s) <=>
               /\ p = <<p[1], p[2]>> /\ p[1] \in 1 .. Len(s)
               /\ p[2] \in 1 .. s[p[1]]
  <2>1. ASSUME p \in Cells(s)
        PROVE  /\ p = <<p[1], p[2]>> /\ p[1] \in 1 .. Len(s)
               /\ p[2] \in 1 .. s[p[1]]
    <3>1. PICK i \in 1 .. Len(s) : p \in {i} \X (1 .. s[i])
      BY <1>2, <2>1
    <3>2. QED
      BY <3>1
  <2>2. ASSUME p = <<p[1], p[2]>>, p[1] \in 1 .. Len(s), p[2] \in 1 .. s[p[1]]
        PROVE  p \in Cells(s)
    <3>1. p \in {p[1]} \X (1 .. s[p[1]])
      BY <2>2
    <3>2. QED
      BY <1>2, <2>2, <3>1
  <2>3. QED
    BY <2>1, <2>2
<1>9. QED
  BY <1>6, <1>7, <1>8, FS_CardinalityType

LEMMA TotalConcat ==
  ASSUME NEW s \in Seq(Nat), NEW t \in Seq(Nat)
  PROVE  Total(s \o t) = Total(s) + Total(t)
<1> DEFINE w == s \o t
           A == Cells(s)
           B == Cells(t)
           C == Cells(w)
           D == {p \in C : p[1] > Len(s)}
           f == [p \in B |-> <<p[1] + Len(s), p[2]>>]
<1>1. /\ w \in Seq(Nat) /\ Len(w) = Len(s) + Len(t)
      /\ \A i \in 1 .. Len(s) + Len(t) :
           w[i] = IF i <= Len(s) THEN s[i] ELSE t[i - Len(s)]
  BY ConcatProperties
<1>2. Len(s) \in Nat /\ Len(t) \in Nat
  BY LenProperties
<1> HIDE DEF w
<1>3. /\ IsFiniteSet(A) /\ IsFiniteSet(B) /\ Cardinality(A) \in Nat
      /\ Total(s) = Cardinality(A) /\ Total(t) = Cardinality(B)
      /\ Total(w) = Cardinality(C) /\ Cardinality(B) \in Nat
  BY <1>1, TotalType
<1>4. /\ \A p : p \in A <=> /\ p = <<p[1], p[2]>> /\ p[1] \in 1 .. Len(s)
                            /\ p[2] \in 1 .. s[p[1]]
      /\ \A p : p \in B <=> /\ p = <<p[1], p[2]>> /\ p[1] \in 1 .. Len(t)
                            /\ p[2] \in 1 .. t[p[1]]
      /\ \A p : p \in C <=> /\ p = <<p[1], p[2]>> /\ p[1] \in 1 .. Len(w)
                            /\ p[2] \in 1 .. w[p[1]]
  BY <1>1, TotalType
<1> HIDE DEF A, B, C
<1>5. f \in Bijection(B, D)
  <2>1. ASSUME NEW p \in B PROVE f[p] \in D
    <3>0. p[1] \in 1 .. Len(t) /\ p[2] \in 1 .. t[p[1]]
      BY <1>4, Zenon
    <3>a. /\ p[1] + Len(s) \in 1 .. Len(s) + Len(t)
          /\ ~(p[1] + Len(s) <= Len(s)) /\ (p[1] + Len(s)) - Len(s) = p[1]
      BY <1>2, <3>0
    <3>1. p[1] + Len(s) \in 1 .. Len(w) /\ w[p[1] + Len(s)] = t[p[1]]
      BY <1>1, <3>a
    <3>2. f[p][1] = p[1] + Len(s) /\ f[p][2] = p[2] /\ f[p] = <<f[p][1], f[p][2]>>
      OBVIOUS
    <3>3. f[p] \in C
      BY <1>4, <3>0, <3>1, <3>2
    <3>4. QED
      BY <1>2, <3>0, <3>2, <3>3
  <2>2. ASSUME NEW p \in B, NEW q \in B, f[p] = f[q] PROVE p = q
    <3>1. p[1] + Len(s) = q[1] + Len(s) /\ p[2] = q[2]
      BY <2>2
    <3>2. p[1] \in Int /\ q[1] \in Int /\ p = <<p[1], p[2]>> /\ q = <<q[1], q[2]>>
      BY <1>2, <1>4
    <3>3. p[1] = q[1]
      BY <1>2, <3>1, <3>2
    <3>4. QED
      BY <3>1, <3>2, <3>3
  <2>3. ASSUME NEW p \in D PROVE \E q \in B : f[q] = p
    <3> DEFINE q == <<p[1] - Len(s), p[2]>>
    <3>1. /\ p = <<p[1], p[2]>> /\ p[1] \in 1 .. Len(w) /\ p[1] > Len(s)
          /\ p[2] \in 1 .. w[p[1]]
      BY <1>4
    <3>2. q[1] \in 1 .. Len(t) /\ w[p[1]] = t[q[1]] /\ q[2] = p[2]
      BY <1>1, <1>2, <3>1
    <3>3. q \in B
      BY <1>4, <3>1, <3>2
    <3>4. f[q] = <<q[1] + Len(s), q[2]>>
      BY <3>3
    <3>5. q[1] + Len(s) = p[1]
      BY <1>2, <3>1
    <3>6. QED
      BY <3>1, <3>2, <3>3, <3>4, <3>5
  <2>4. f \in [B -> D]
    BY <2>1
  <2> HIDE DEF f, D
  <2>5. QED
    BY <2>2, <2>3, <2>4 DEF Bijection, Injection, Surjection, IsInjective
<1>6. IsFiniteSet(D) /\ Cardinality(D) = Cardinality(B)
  BY <1>3, <1>5, FS_Bijection DEF ExistsBijection
<1>7. A \cap D = {}
  BY <1>2, <1>4
<1>8. C = A \union D
  <2>1. ASSUME NEW p \in C PROVE p \in A \/ p \in D
    <3>1. p = <<p[1], p[2]>> /\ p[1] \in 1 .. Len(w) /\ p[2] \in 1 .. w[p[1]]
      BY <1>4, Zenon
    <3>2. p[1] <= Len(s) => p[1] \in 1 .. Len(s) /\ w[p[1]] = s[p[1]]
      BY <1>1, <1>2, <3>1
    <3>3. p[1] <= Len(s) \/ p[1] > Len(s)
      BY <1>1, <1>2, <3>1
    <3>4. QED
      BY <1>4, <3>1, <3>2, <3>3, Zenon
  <2>2. ASSUME NEW p \in A PROVE p \in C
    <3>1. p = <<p[1], p[2]>> /\ p[1] \in 1 .. Len(s) /\ p[2] \in 1 .. s[p[1]]
      BY <1>4, Zenon
    <3>2. p[1] \in 1 .. Len(w) /\ w[p[1]] = s[p[1]]
      BY <1>1, <1>2, <3>1
    <3>3. QED
      BY <1>4, <3>1, <3>2, Zenon
  <2>3. QED
    BY <2>1, <2>2
<1>9. Cardinality(C) = Cardinality(A) + Cardinality(D) - Cardinality({})
  BY <1>3, <1>6, <1>7, <1>8, FS_Union
<1>10. QED
  BY <1>3, <1>6, <1>9, FS_EmptySet DEF w

LEMMA TotalOne ==
  ASSUME NEW x \in Nat
  PROVE  Total(<<x>>) = x /\ Total(<<>>) = 0
<1>1. Cells(<<>>) = {} /\ Cells(<<x>>) = {1} \X (1 .. x)
  BY DEF Cells
<1>2. /\ IsFiniteSet({1}) /\ Cardinality({1}) = 1
      /\ IsFiniteSet(1 .. x) /\ Cardinality(1 .. x) = x
  <2>1. IsFiniteSet({1}) /\ Cardinality({1}) = 1
    BY FS_Singleton, Zenon
  <2>2. 1 \in Int /\ x \in Int
    OBVIOUS
  <2>3. /\ IsFiniteSet(1 .. x)
        /\ Cardinality(1 .. x) = IF 1 > x THEN 0 ELSE x - 1 + 1
    BY <2>2, FS_Interval
  <2>4. QED
    BY <2>1, <2>3
<1>3. Cardinality({1} \X (1 .. x)) = 1 * x
  BY <1>2, FS_Product
<1>4. <<x>> \in Seq(Nat) /\ <<>> \in Seq(Nat)
  OBVIOUS
<1>5. Total(<<x>>) = Cardinality(Cells(<<x>>)) /\ Total(<<>>) = Cardinality(Cells(<<>>))
  BY <1>4, TotalType
<1>6. Cardinality({}) = 0
  BY FS_EmptySet
<1>7. Total(<<x>>) = 1 * x /\ Total(<<>>) = 0
  BY <1>1, <1>3, <1>5, <1>6, Zenon
<1>8. QED
  BY <1>7

LEMMA TotalAppend ==
  ASSUME NEW s \in Seq(Nat), NEW x \in Nat
  PROVE  Total(Append(s, x)) = Total(s) + x
<1>1. Append(s, x) = s \o <<x>> /\ <<x>> \in Seq(Nat)
  BY AppendIsConcat
<1>2. QED
  BY <1>1, TotalConcat, TotalOne

LEMMA TotalTail ==
  ASSUME NEW s \in Seq(Nat), s # <<>>
  PROVE  Total(s) = s[1] + Total(Tail(s))
<1>1. Tail(s) \in Seq(Nat) /\ <<s[1]>> \o Tail(s) = s /\ s[1] \in Nat
  BY HeadAndTail
<1>2. <<s[1]>> \in Seq(Nat)
  BY <1>1
<1>3. QED
  BY <1>1, <1>2, TotalConcat, TotalOne

LEMMA TotalDrop ==
  ASSUME NEW s \in Seq(Nat), NEW k \in 0 .. Len(s)
  PROVE  Total(s) = Total(SubSeq(s, 1, k)) + Total(Drop(s, k))
<1>1. /\ SubSeq(s, 1, k) \in Seq(Nat) /\ Drop(s, k) \in Seq(Nat)
      /\ SubSeq(s, 1, k) \o Drop(s, k) = s
  BY Taken, Dropped
<1>2. Total(SubSeq(s, 1, k) \o Drop(s, k))
        = Total(SubSeq(s, 1, k)) + Total(Drop(s, k))
  BY <1>1, TotalConcat
<1>3. QED
  BY <1>1, <1>2, Zenon

(* The fewer are dropped, the more is left.                                *)
LEMMA TotalOrder ==
  ASSUME NEW s \in Seq(Nat), NEW k \in 0 .. Len(s), NEW j \in 0 .. k
  PROVE  Total(Drop(s, k)) <= Total(Drop(s, j))
<1>1. Len(s) \in Nat /\ j \in 0 .. Len(s)
  BY LenProperties
<1>2. /\ Drop(s, j) \in Seq(Nat) /\ Len(Drop(s, j)) = Len(s) - j
      /\ \A i \in 1 .. Len(s) - j : Drop(s, j)[i] = s[i + j]
  BY <1>1, Dropped
<1>3. /\ Drop(s, k) \in Seq(Nat) /\ Len(Drop(s, k)) = Len(s) - k
      /\ \A i \in 1 .. Len(s) - k : Drop(s, k)[i] = s[i + k]
  BY Dropped
<1> DEFINE d == Drop(s, j)
           m == k - j
<1>4. m \in 0 .. Len(d)
  BY <1>1, <1>2
<1>5. /\ Drop(d, m) \in Seq(Nat) /\ Len(Drop(d, m)) = Len(d) - m
      /\ \A i \in 1 .. Len(d) - m : Drop(d, m)[i] = d[i + m]
  BY <1>2, <1>4, Dropped
<1> HIDE DEF d
<1>7. Len(d) = Len(s) - j /\ Len(Drop(d, m)) = Len(Drop(s, k))
  <2>1. Len(d) = Len(s) - j
    BY <1>2 DEF d
  <2>2. Len(Drop(d, m)) = Len(d) - m
    BY <1>5
  <2>3. Len(s) - j - m = Len(s) - k
    BY <1>1
  <2>4. QED
    BY <1>3, <2>1, <2>2, <2>3
<1>6. ASSUME NEW i \in 1 .. Len(s) - k PROVE Drop(d, m)[i] = Drop(s, k)[i]
  <2>1. i \in 1 .. Len(d) - m /\ i + m \in 1 .. Len(s) - j /\ (i + m) + j = i + k
    BY <1>1, <1>7
  <2>2. d[i + m] = s[(i + m) + j]
    BY <1>2, <2>1 DEF d
  <2>3. QED
    BY <1>3, <1>5, <2>1, <2>2
<1>a. \A i \in 1 .. Len(Drop(d, m)) : Drop(d, m)[i] = Drop(s, k)[i]
  BY <1>3, <1>6, <1>7
<1>8. Drop(d, m) = Drop(s, k)
  BY <1>3, <1>5, <1>7, <1>a, SeqEqual
<1>b. d \in Seq(Nat)
  BY <1>2 DEF d
<1>9. Total(d) = Total(SubSeq(d, 1, m)) + Total(Drop(d, m))
  BY <1>4, <1>b, TotalDrop
<1>10. Total(SubSeq(d, 1, m)) \in Nat
  BY <1>4, <1>b, Taken, TotalType
<1>11. Total(Drop(d, m)) \in Nat
  BY <1>5, TotalType
<1>12. Total(Drop(s, k)) <= Total(d)
  BY <1>8, <1>9, <1>10, <1>11
<1>13. QED
  BY <1>12 DEF d

LEMMA CountTaken ==
  ASSUME NEW S, NEW s \in Seq(S), NEW k \in 0 .. Len(s), NEW K
  PROVE  Count(SubSeq(s, 1, k), K) \in 0 .. Count(s, K)
<1>1. /\ SubSeq(s, 1, k) \in Seq(S) /\ Len(SubSeq(s, 1, k)) = k
      /\ Drop(s, k) \in Seq(S) /\ Len(Drop(s, k)) \in Nat
  BY Taken, Dropped, LenProperties
<1>2. Count(SubSeq(s, 1, k), K) \in 0 .. k
  BY <1>1, CountRange, Zenon
<1>a. Count(Drop(s, k), K) \in 0 .. Len(Drop(s, k))
  BY <1>1, CountRange
<1>b. Count(s, K) = Count(SubSeq(s, 1, k), K) + Count(Drop(s, k), K)
  BY CountSplit
<1>3. QED
  BY <1>1, <1>2, <1>a, <1>b

(* What stands before is not changed by what is put behind.                *)
LEMMA TakenConcat ==
  ASSUME NEW S, NEW s \in Seq(S), NEW t \in Seq(S), NEW k \in 0 .. Len(s)
  PROVE  SubSeq(s \o t, 1, k) = SubSeq(s, 1, k)
<1> DEFINE w == s \o t
<1>1. /\ w \in Seq(S) /\ Len(w) = Len(s) + Len(t)
      /\ \A i \in 1 .. Len(s) + Len(t) :
           w[i] = IF i <= Len(s) THEN s[i] ELSE t[i - Len(s)]
  BY ConcatProperties
<1>2. Len(s) \in Nat /\ Len(t) \in Nat
  BY LenProperties
<1> HIDE DEF w
<1>3. k \in 0 .. Len(w)
  BY <1>1, <1>2
<1>4. /\ SubSeq(w, 1, k) \in Seq(S) /\ Len(SubSeq(w, 1, k)) = k
      /\ \A i \in 1 .. k : SubSeq(w, 1, k)[i] = w[i]
  BY <1>1, <1>3, Taken
<1>5. /\ SubSeq(s, 1, k) \in Seq(S) /\ Len(SubSeq(s, 1, k)) = k
      /\ \A i \in 1 .. k : SubSeq(s, 1, k)[i] = s[i]
  BY Taken
<1>6. \A i \in 1 .. k : SubSeq(w, 1, k)[i] = SubSeq(s, 1, k)[i]
  BY <1>1, <1>2, <1>4, <1>5
<1>7. SubSeq(w, 1, k) = SubSeq(s, 1, k)
  BY <1>4, <1>5, <1>6, SeqEqual
<1>8. QED
  BY <1>7 DEF w

(* The first k of the tail are the first k + 1 without the head.           *)
LEMMA CountTailTaken ==
  ASSUME NEW S, NEW s \in Seq(S), NEW k \in Nat, k < Len(s), NEW K
  PROVE  Count(SubSeq(s, 1, k + 1), K)
           = (IF s[1] \in K THEN 1 ELSE 0) + Count(SubSeq(Tail(s), 1, k), K)
<1>1. s # <<>>
  BY EmptySeq
<1>2. /\ Len(s) \in Nat \ {0} /\ Tail(s) \in Seq(S)
      /\ Len(Tail(s)) = Len(s) - 1
      /\ \A i \in 1 .. Len(s) - 1 : Tail(s)[i] = s[i + 1]
  BY <1>1, HeadAndTail
<1>3. k + 1 \in 0 .. Len(s) /\ k \in 0 .. Len(Tail(s))
  BY <1>2
<1> DEFINE u == SubSeq(s, 1, k + 1)
<1>4. u \in Seq(S) /\ Len(u) = k + 1 /\ \A i \in 1 .. k + 1 : u[i] = s[i]
  BY <1>3, Taken
<1> HIDE DEF u
<1>5. u # <<>> /\ u[1] = s[1]
  BY <1>4
<1>6. /\ Tail(u) \in Seq(S) /\ Len(Tail(u)) = Len(u) - 1
      /\ \A i \in 1 .. Len(u) - 1 : Tail(u)[i] = u[i + 1]
  BY <1>4, <1>5, HeadAndTail
<1>7. /\ SubSeq(Tail(s), 1, k) \in Seq(S) /\ Len(SubSeq(Tail(s), 1, k)) = k
      /\ \A i \in 1 .. k : SubSeq(Tail(s), 1, k)[i] = Tail(s)[i]
  BY <1>2, <1>3, Taken
<1>8. ASSUME NEW i \in 1 .. k PROVE Tail(u)[i] = SubSeq(Tail(s), 1, k)[i]
  <2>1. /\ i \in 1 .. Len(u) - 1 /\ i + 1 \in 1 .. k + 1
        /\ i \in 1 .. Len(s) - 1
    BY <1>2, <1>4
  <2>2. QED
    BY <1>2, <1>4, <1>6, <1>7, <2>1
<1>9. Len(Tail(u)) = k
  BY <1>4, <1>6
<1>10. Tail(u) = SubSeq(Tail(s), 1, k)
  BY <1>6, <1>7, <1>8, <1>9, SeqEqual
<1>11. Count(u, K) = (IF s[1] \in K THEN 1 ELSE 0) + Count(Tail(u), K)
  BY <1>4, <1>5, CountTail, Zenon
<1>12. QED
  BY <1>10, <1>11 DEF u

-----------------------------------------------------------------------------
(* Segments, the points in them and what they acknowledge.                 *)

Segments   == DataSegments \union OtherSegments
Cmds       == Meta \union {"d"}
Answers    == AnswersTo(Cmds)
PointsOf(u) == [i \in DOMAIN u |-> u[i].n]
AcksOf(u)   == [i \in DOMAIN u |-> u[i].acked]

LEMMA ConstantTypes ==
  /\ Target \in Nat \ {0} /\ Chunk \in Nat \ {0} /\ SndMax \in Nat \ {0}
  /\ Capacity \in Nat \ {0} /\ MAX_LATE_ACKS \in Nat \ {0}
  /\ BeginAbove \in Nat /\ MIN_SEND_POINTS \in Nat /\ DeferMax \in Nat
  /\ MaxDelay \in Nat /\ Target <= Capacity /\ FrameSizes \subseteq Nat \ {0}
<1>1. /\ {Target, Chunk, MAX_LATE_ACKS, Capacity, SndMax} \subseteq Nat \ {0}
      /\ {BeginAbove, MIN_SEND_POINTS, DeferMax, MaxDelay, MaxEstops}
           \subseteq Nat
      /\ Target <= Capacity /\ FrameSizes \subseteq Nat \ {0}
  BY SessionAssumption
<1>2. QED
  BY <1>1, Zenon

LEMMA SegmentFields ==
  ASSUME NEW x \in Segments
  PROVE  /\ x.n \in Nat /\ x.n <= Chunk /\ x.acked \in Nat
         /\ x.cmds \in Seq(Cmds) /\ x.cmds # <<>>
         /\ x \in DataSegments =>
              x.cmds = <<"q", "d">> /\ x.n > 0
         /\ x \notin DataSegments => x.cmds \in {<<"p">>, <<"b">>} /\ x.n = 0
         /\ Count(x.cmds, Meta) = 1
         /\ Count(x.cmds, {"d"}) = IF x \in DataSegments THEN 1 ELSE 0
<1>1. Chunk \in Nat \ {0}
  BY ConstantTypes
<1>2. "p" \in Cmds /\ "b" \in Cmds /\ "q" \in Cmds /\ "d" \in Cmds
      /\ "p" \in Meta /\ "b" \in Meta /\ "q" \in Meta /\ "d" \notin Meta
  BY DEF Cmds, Meta
<1>3. CASE x \in DataSegments
  <2>1. x.cmds = <<"q", "d">> /\ x.n \in 1 .. Chunk /\ x.acked \in Nat
    BY <1>3 DEF DataSegments
  <2>2. <<"q", "d">> = Append(<<"q">>, "d") /\ <<"q">> \in Seq(Cmds)
    BY <1>2
  <2>3. ASSUME NEW K
        PROVE  Count(x.cmds, K)
                 = Count(<<"q">>, K) + (IF "d" \in K THEN 1 ELSE 0)
    <3>1. Count(Append(<<"q">>, "d"), K)
            = Count(<<"q">>, K) + (IF "d" \in K THEN 1 ELSE 0)
      <4>1. "d" \in Cmds /\ <<"q">> \in Seq(Cmds)
        BY <1>2, <2>2, Zenon
      <4>2. QED
        BY <4>1, CountAppend
    <3>2. x.cmds = Append(<<"q">>, "d")
      BY <2>1, <2>2, Zenon
    <3>3. QED
      BY <3>1, <3>2, Zenon
  <2>4. Count(x.cmds, Meta) = 1 + 0
    BY <1>2, <2>3, CountOne
  <2>5. Count(x.cmds, {"d"}) = 0 + 1
    BY <2>3, CountOne
  <2>6. x.cmds \in Seq(Cmds) /\ x.cmds # <<>>
    BY <1>2, <2>1
  <2>7. QED
    BY <1>1, <1>3, <2>1, <2>4, <2>5, <2>6
<1>4. CASE x \notin DataSegments
  <2>1. x.cmds \in {<<"p">>, <<"b">>} /\ x.n = 0 /\ x.acked \in Nat
    BY <1>4 DEF Segments, OtherSegments
  <2>a. <<"p">> \in Seq(Cmds) /\ <<"b">> \in Seq(Cmds)
    BY <1>2
  <2>b. <<"p">> # <<>> /\ <<"b">> # <<>>
    OBVIOUS
  <2>2. x.cmds \in Seq(Cmds) /\ x.cmds # <<>>
    BY <2>1, <2>a, <2>b, Zenon
  <2>3. Count(x.cmds, Meta) = 1 /\ Count(x.cmds, {"d"}) = 0
    BY <1>2, <2>1, CountOne
  <2>4. QED
    BY <1>1, <1>4, <2>1, <2>2, <2>3
<1>5. QED
  BY <1>3, <1>4

LEMMA PointsOfAppend ==
  ASSUME NEW u \in Seq(Segments), NEW x \in Segments
  PROVE  /\ PointsOf(u) \in Seq(Nat) /\ AcksOf(u) \in Seq(Nat)
         /\ Total(PointsOf(Append(u, x))) = Total(PointsOf(u)) + x.n
         /\ Total(AcksOf(Append(u, x))) = Total(AcksOf(u)) + x.acked
<1> DEFINE w == Append(u, x)
<1>1. /\ w \in Seq(Segments) /\ Len(w) = Len(u) + 1 /\ Len(u) \in Nat
      /\ \A i \in 1 .. Len(u) : w[i] = u[i]
      /\ w[Len(u) + 1] = x
      /\ DOMAIN u = 1 .. Len(u) /\ DOMAIN w = 1 .. Len(w)
  BY AppendProperties, LenProperties
<1> HIDE DEF w
<1>2. \A i \in 1 .. Len(u) : u[i].n \in Nat /\ u[i].acked \in Nat
  BY SegmentFields, ElementOfSeq
<1>3. x.n \in Nat /\ x.acked \in Nat
  BY SegmentFields
<1>4. /\ PointsOf(u) \in Seq(Nat) /\ AcksOf(u) \in Seq(Nat)
      /\ Len(PointsOf(u)) = Len(u) /\ Len(AcksOf(u)) = Len(u)
  BY <1>1, <1>2 DEF PointsOf, AcksOf
<1>5. PointsOf(w) = Append(PointsOf(u), x.n)
  <2>1. /\ Append(PointsOf(u), x.n) \in Seq(Nat)
        /\ Len(Append(PointsOf(u), x.n)) = Len(u) + 1
        /\ \A i \in 1 .. Len(u) : Append(PointsOf(u), x.n)[i] = PointsOf(u)[i]
        /\ Append(PointsOf(u), x.n)[Len(u) + 1] = x.n
    <3> DEFINE s == PointsOf(u)
               y == x.n
    <3>1. s \in Seq(Nat) /\ Len(s) = Len(u) /\ y \in Nat
      BY <1>3, <1>4
    <3> HIDE DEF s, y
    <3>2. /\ Append(s, y) \in Seq(Nat) /\ Len(Append(s, y)) = Len(s) + 1
          /\ \A i \in 1 .. Len(s) : Append(s, y)[i] = s[i]
          /\ Append(s, y)[Len(s) + 1] = y
      BY <3>1, AppendProperties
    <3>3. /\ Append(s, y) \in Seq(Nat) /\ Len(Append(s, y)) = Len(u) + 1
          /\ \A i \in 1 .. Len(u) : Append(s, y)[i] = s[i]
          /\ Append(s, y)[Len(u) + 1] = y
      BY <3>1, <3>2
    <3>4. QED
      BY <3>3 DEF s, y
  <2>2. \A i \in 1 .. Len(w) : w[i].n = Append(PointsOf(u), x.n)[i]
    BY <1>1, <2>1 DEF PointsOf
  <2>3. /\ PointsOf(w) \in Seq(Nat) /\ Len(PointsOf(w)) = Len(w)
        /\ \A i \in 1 .. Len(w) : PointsOf(w)[i] = w[i].n
    BY <1>1, <1>2, <1>3 DEF PointsOf
  <2>4. QED
    BY <1>1, <2>1, <2>2, <2>3, SeqEqual
<1>6. AcksOf(w) = Append(AcksOf(u), x.acked)
  <2>1. /\ Append(AcksOf(u), x.acked) \in Seq(Nat)
        /\ Len(Append(AcksOf(u), x.acked)) = Len(u) + 1
        /\ \A i \in 1 .. Len(u) : Append(AcksOf(u), x.acked)[i] = AcksOf(u)[i]
        /\ Append(AcksOf(u), x.acked)[Len(u) + 1] = x.acked
    <3> DEFINE s == AcksOf(u)
               y == x.acked
    <3>1. s \in Seq(Nat) /\ Len(s) = Len(u) /\ y \in Nat
      BY <1>3, <1>4
    <3> HIDE DEF s, y
    <3>2. /\ Append(s, y) \in Seq(Nat) /\ Len(Append(s, y)) = Len(s) + 1
          /\ \A i \in 1 .. Len(s) : Append(s, y)[i] = s[i]
          /\ Append(s, y)[Len(s) + 1] = y
      BY <3>1, AppendProperties
    <3>3. /\ Append(s, y) \in Seq(Nat) /\ Len(Append(s, y)) = Len(u) + 1
          /\ \A i \in 1 .. Len(u) : Append(s, y)[i] = s[i]
          /\ Append(s, y)[Len(u) + 1] = y
      BY <3>1, <3>2
    <3>4. QED
      BY <3>3 DEF s, y
  <2>2. \A i \in 1 .. Len(w) : w[i].acked = Append(AcksOf(u), x.acked)[i]
    BY <1>1, <2>1 DEF AcksOf
  <2>3. /\ AcksOf(w) \in Seq(Nat) /\ Len(AcksOf(w)) = Len(w)
        /\ \A i \in 1 .. Len(w) : AcksOf(w)[i] = w[i].acked
    BY <1>1, <1>2, <1>3 DEF AcksOf
  <2>4. QED
    BY <1>1, <2>1, <2>2, <2>3, SeqEqual
<1>7. QED
  BY <1>3, <1>4, <1>5, <1>6, TotalAppend DEF w

LEMMA PointsOfTail ==
  ASSUME NEW u \in Seq(Segments), u # <<>>
  PROVE  /\ Total(PointsOf(u)) = u[1].n + Total(PointsOf(Tail(u)))
         /\ Total(AcksOf(u)) = u[1].acked + Total(AcksOf(Tail(u)))
<1>1. /\ Len(u) \in Nat \ {0} /\ Tail(u) \in Seq(Segments)
      /\ Len(Tail(u)) = Len(u) - 1
      /\ \A i \in 1 .. Len(u) - 1 : Tail(u)[i] = u[i + 1]
  BY HeadAndTail
<1>2. DOMAIN u = 1 .. Len(u) /\ DOMAIN Tail(u) = 1 .. Len(Tail(u))
  BY <1>1, LenProperties
<1>3. \A i \in 1 .. Len(u) : u[i].n \in Nat /\ u[i].acked \in Nat
  BY SegmentFields, ElementOfSeq
<1> DEFINE p == PointsOf(u)
           q == PointsOf(Tail(u))
           a == AcksOf(u)
           b == AcksOf(Tail(u))
<1>4. /\ p \in Seq(Nat) /\ Len(p) = Len(u) /\ \A i \in 1 .. Len(u) : p[i] = u[i].n
      /\ a \in Seq(Nat) /\ Len(a) = Len(u)
      /\ \A i \in 1 .. Len(u) : a[i] = u[i].acked
  BY <1>1, <1>2, <1>3 DEF PointsOf, AcksOf
<1>5. /\ q \in Seq(Nat) /\ Len(q) = Len(u) - 1
      /\ \A i \in 1 .. Len(u) - 1 : q[i] = u[i + 1].n
      /\ b \in Seq(Nat) /\ Len(b) = Len(u) - 1
      /\ \A i \in 1 .. Len(u) - 1 : b[i] = u[i + 1].acked
  BY <1>1, <1>2, <1>3 DEF PointsOf, AcksOf
<1> HIDE DEF p, q, a, b
<1>6. p # <<>> /\ a # <<>>
  BY <1>1, <1>4
<1>7. q = Tail(p)
  <2>1. /\ Tail(p) \in Seq(Nat) /\ Len(Tail(p)) = Len(p) - 1
        /\ \A i \in 1 .. Len(p) - 1 : Tail(p)[i] = p[i + 1]
    BY <1>4, <1>6, HeadAndTail
  <2>2. \A i \in 1 .. Len(q) : q[i] = Tail(p)[i]
    BY <1>1, <1>4, <1>5, <2>1
  <2>3. QED
    BY <1>4, <1>5, <2>1, <2>2, SeqEqual
<1>8. b = Tail(a)
  <2>1. /\ Tail(a) \in Seq(Nat) /\ Len(Tail(a)) = Len(a) - 1
        /\ \A i \in 1 .. Len(a) - 1 : Tail(a)[i] = a[i + 1]
    BY <1>4, <1>6, HeadAndTail
  <2>2. \A i \in 1 .. Len(b) : b[i] = Tail(a)[i]
    BY <1>1, <1>4, <1>5, <2>1
  <2>3. QED
    BY <1>4, <1>5, <2>1, <2>2, SeqEqual
<1>9. p[1] = u[1].n /\ a[1] = u[1].acked
  BY <1>1, <1>4
<1>10. QED
  BY <1>4, <1>6, <1>7, <1>8, <1>9, TotalTail DEF p, q, a, b

-----------------------------------------------------------------------------
(* What a segment does when it is received.                                *)

RSeg  == Head(up)
RRoom == SndMax - (snd - RSeg.acked)
REnd  == Executed(Last(RSeg.cmds), RSeg.n)
RNow  == Least(RRoom, Len(RSeg.cmds))
ROld  == ps_send_deferred_acks(RRoom - RNow)
RKept == SubSeq(defer, ROld + 1, Len(defer))
           \o SubSeq(RSeg.cmds, RNow + 1, Len(RSeg.cmds))
RFirst == [i \in 1 .. RNow |->
             Answer(RSeg.cmds[i], IF i < Len(RSeg.cmds) THEN Status ELSE REnd)]
RLater == [i \in 1 .. ROld |-> Answer(defer[i], REnd)]

LEMMA Received ==
  ASSUME Receive
  PROVE  /\ up # <<>> /\ up' = Tail(up)
         /\ dac' = REnd.state /\ fullness' = REnd.full
         /\ down' = down \o RFirst \o RLater
         /\ snd' = snd - RSeg.acked + RNow + ROld
         /\ defer' = SubSeq(RKept, 1, Least(Len(RKept), DeferMax))
         /\ late' = (late \/ RNow < Len(RSeg.cmds))
         /\ lost' = (lost \/ Len(RKept) > DeferMax)
         /\ refused' = (refused
              \/ (RSeg.n > 0 /\ REnd.full # fullness + RSeg.n))
         /\ UNCHANGED <<hostVars, bookVars, elapsed, arrived, toAck, ready,
                        estops>>
BY Zenon DEF Receive, RSeg, RRoom, REnd, RNow, ROld, RKept, RFirst, RLater

LEMMA Types ==
  ASSUME TypeOK
  PROVE  /\ status \in Statuses /\ elapsed \in 0 .. MaxDelay
         /\ ackbuf \in Seq(1 .. Chunk) /\ ackbuf \in Seq(Nat)
         /\ Len(ackbuf) \in Nat /\ Total(ackbuf) \in Nat
         /\ up \in Seq(Segments) /\ Len(up) \in Nat
         /\ down \in Seq(Answers) /\ Len(down) \in Nat
         /\ arrived \in 0 .. Len(down) /\ toAck \in Nat
         /\ snd \in Nat /\ snd <= SndMax
         /\ InFlight = Total(PointsOf(up)) /\ InFlight \in Nat
         /\ InAcks = Total(AcksOf(up)) /\ InAcks \in Nat
         /\ snd = Len(down) - arrived + toAck + InAcks
         /\ dac \in DacStates /\ fullness \in 0 .. Capacity
         /\ Status \in Statuses
         /\ defer \in Seq(Cmds) /\ Len(defer) \in Nat
         /\ DataComing \in Nat /\ MetaComing \in Nat
         /\ \A K : /\ Count(down, K) \in 0 .. Len(down)
                   /\ Count(defer, K) \in 0 .. Len(defer)
                   /\ Count(up, K) \in 0 .. Len(up)
<1>1. /\ status \in Statuses /\ elapsed \in 0 .. MaxDelay
      /\ ackbuf \in Seq(1 .. Chunk)
      /\ up \in Seq(Segments) /\ down \in Seq(Answers)
      /\ arrived \in 0 .. Len(down) /\ toAck \in Nat
      /\ snd \in 0 .. SndMax
      /\ snd = Len(down) - arrived + toAck + InAcks
      /\ dac \in DacStates /\ fullness \in 0 .. Capacity
      /\ defer \in Seq(Cmds)
  BY Zenon DEF TypeOK, Segments, Answers, Cmds
<1>2. /\ Len(ackbuf) \in Nat /\ Len(up) \in Nat /\ Len(down) \in Nat
      /\ Len(defer) \in Nat
  BY <1>1, LenProperties
<1>3. ackbuf \in Seq(Nat)
  <2>1. 1 .. Chunk \subseteq Nat
    BY ConstantTypes
  <2>2. QED
    BY <1>1, <2>1, SeqMonotonic
<1>4. Total(ackbuf) \in Nat
  BY <1>3, TotalType
<1>5. InFlight = Total(PointsOf(up)) /\ InAcks = Total(AcksOf(up))
  BY DEF InFlight, InAcks, PointsOf, AcksOf
<1>6. PointsOf(up) \in Seq(Nat) /\ AcksOf(up) \in Seq(Nat)
  <2>1. DOMAIN up = 1 .. Len(up)
    BY <1>1, LenProperties
  <2>2. \A i \in 1 .. Len(up) : up[i].n \in Nat /\ up[i].acked \in Nat
    BY <1>1, SegmentFields, ElementOfSeq
  <2>3. QED
    BY <1>2, <2>1, <2>2 DEF PointsOf, AcksOf
<1>7. InFlight \in Nat /\ InAcks \in Nat
  BY <1>5, <1>6, TotalType
<1>8. Status \in Statuses
  BY <1>1 DEF Status, Statuses
<1>9. \A K : /\ Count(down, K) \in 0 .. Len(down)
             /\ Count(defer, K) \in 0 .. Len(defer)
             /\ Count(up, K) \in 0 .. Len(up)
  BY <1>1, CountRange
<1>10. DataComing \in Nat /\ MetaComing \in Nat
  <2>1. \A K : /\ Count(down, K) \in Nat /\ Count(defer, K) \in Nat
               /\ Count(up, K) \in Nat
    BY <1>2, <1>9
  <2>2. /\ Count(down, AnswersTo({"d"})) \in Nat /\ Count(defer, {"d"}) \in Nat
        /\ Count(up, DataSegments) \in Nat
        /\ Count(down, AnswersTo(Meta)) \in Nat /\ Count(defer, Meta) \in Nat
    BY <2>1, Zenon
  <2>3. QED
    BY <1>2, <2>2 DEF DataComing, MetaComing
<1>11. snd \in Nat /\ snd <= SndMax
  BY <1>1, ConstantTypes
<1>12. QED
  BY <1>1, <1>2, <1>3, <1>4, <1>5, <1>7, <1>8, <1>9, <1>10, <1>11, Zenon

LEMMA ReceiveBounds ==
  ASSUME TypeOK, up # <<>>
  PROVE  /\ RSeg = up[1] /\ RSeg \in Segments /\ RSeg.acked \in Nat
         /\ InAcks = RSeg.acked + Total(AcksOf(Tail(up)))
         /\ InFlight = RSeg.n + Total(PointsOf(Tail(up)))
         /\ RSeg.acked <= InAcks
         /\ RRoom \in Nat /\ Len(RSeg.cmds) \in Nat \ {0}
         /\ RNow \in 0 .. Len(RSeg.cmds) /\ ROld \in 0 .. Len(defer)
         /\ RNow + ROld <= RRoom
<1>1. up \in Seq(Segments)
  BY Types
<1>2. RSeg = up[1] /\ RSeg \in Segments /\ Tail(up) \in Seq(Segments)
  BY <1>1, HeadAndTail DEF RSeg
<1>3. /\ RSeg.acked \in Nat /\ RSeg.n \in Nat /\ RSeg.cmds \in Seq(Cmds)
      /\ RSeg.cmds # <<>>
  BY <1>2, SegmentFields
<1>4. Len(RSeg.cmds) \in Nat \ {0}
  BY <1>3, HeadAndTail
<1>5. /\ InAcks = RSeg.acked + Total(AcksOf(Tail(up)))
      /\ InFlight = RSeg.n + Total(PointsOf(Tail(up)))
  BY <1>1, <1>2, PointsOfTail, Types
<1>6. Total(AcksOf(Tail(up))) \in Nat
  <2>1. PICK x : x \in Segments
    BY <1>2
  <2>2. AcksOf(Tail(up)) \in Seq(Nat)
    BY <1>2, <2>1, PointsOfAppend
  <2>3. QED
    BY <2>2, TotalType
<1>7. RSeg.acked <= InAcks
  BY <1>3, <1>5, <1>6
<1>8. RRoom \in Nat
  <2>1. snd \in Nat /\ snd <= SndMax /\ SndMax \in Nat
    BY Types, ConstantTypes
  <2>2. QED
    BY <1>3, <2>1 DEF RRoom
<1>9. RNow \in 0 .. Len(RSeg.cmds) /\ RNow <= RRoom
  BY <1>4, <1>8 DEF RNow, Least
<1>10. ROld \in 0 .. Len(defer) /\ ROld <= RRoom - RNow
  <2>1. Len(defer) \in Nat
    BY Types
  <2>2. RRoom - RNow \in Nat
    BY <1>4, <1>8, <1>9
  <2> DEFINE m == RRoom - RNow
  <2>3. ROld = IF m < Len(defer) THEN m ELSE Len(defer)
    BY Zenon DEF ROld, ps_send_deferred_acks, Least
  <2> HIDE DEF m
  <2>4. m \in Nat
    BY <2>2 DEF m
  <2>5. ROld \in 0 .. Len(defer) /\ ROld <= m
    BY <2>1, <2>3, <2>4
  <2>6. QED
    BY <2>5 DEF m
<1>11. QED
  BY <1>2, <1>3, <1>4, <1>5, <1>7, <1>8, <1>9, <1>10

(* What a command does: the new state of the DAC.                          *)
LEMMA ReceiveEnd ==
  ASSUME TypeOK, up # <<>>
  PROVE  /\ REnd \in Statuses
         /\ RSeg.cmds = <<"p">> =>
              REnd = IF dac = "IDLE" /\ ready
                     THEN [state |-> "PREPARED", full |-> 0] ELSE Status
         /\ RSeg.cmds = <<"b">> =>
              REnd = IF dac = "PREPARED"
                     THEN [state |-> "PLAYING", full |-> fullness] ELSE Status
         /\ RSeg.cmds = <<"q", "d">> =>
              REnd = IF dac # "IDLE"
                     THEN [state |-> dac,
                           full |-> Least(fullness + RSeg.n, Capacity)]
                     ELSE Status
<1>1. /\ RSeg \in Segments /\ dac \in DacStates /\ fullness \in 0 .. Capacity
      /\ Status \in Statuses /\ Capacity \in Nat
  BY ReceiveBounds, Types, ConstantTypes
<1>2. RSeg.cmds \in {<<"p">>, <<"b">>, <<"q", "d">>} /\ RSeg.n \in Nat
  BY <1>1, SegmentFields
<1>3. ASSUME RSeg.cmds = <<"p">>
      PROVE  REnd = IF dac = "IDLE" /\ ready
                    THEN [state |-> "PREPARED", full |-> 0] ELSE Status
  <2>1. Last(RSeg.cmds) = "p"
    BY <1>3 DEF Last
  <2>2. QED
    BY <2>1 DEF REnd, Executed
<1>4. ASSUME RSeg.cmds = <<"b">>
      PROVE  REnd = IF dac = "PREPARED"
                    THEN [state |-> "PLAYING", full |-> fullness] ELSE Status
  <2>1. Last(RSeg.cmds) = "b"
    BY <1>4 DEF Last
  <2>2. QED
    BY <2>1 DEF REnd, Executed, Status
<1>5. ASSUME RSeg.cmds = <<"q", "d">>
      PROVE  REnd = IF dac # "IDLE"
                    THEN [state |-> dac,
                          full |-> Least(fullness + RSeg.n, Capacity)]
                    ELSE Status
  <2>1. Last(RSeg.cmds) = "d"
    BY <1>5 DEF Last
  <2>2. QED
    BY <2>1 DEF REnd, Executed, Status
<1>6. REnd \in Statuses
  <2>1. Least(fullness + RSeg.n, Capacity) \in 0 .. Capacity /\ 0 \in 0 .. Capacity
    BY <1>1, <1>2 DEF Least
  <2>2. {"PREPARED", "PLAYING"} \subseteq DacStates
    BY DEF DacStates
  <2>3. QED
    BY <1>1, <1>2, <1>3, <1>4, <1>5, <2>1, <2>2 DEF Statuses
<1>7. QED
  BY <1>3, <1>4, <1>5, <1>6

(* The answers that are given to TCP, and those kept or dropped, are       *)
(* together those that were deferred and those of the segment.             *)
LEMMA ReceiveAnswers ==
  ASSUME TypeOK, up # <<>>
  PROVE  /\ RFirst \in Seq(Answers) /\ Len(RFirst) = RNow
         /\ RLater \in Seq(Answers) /\ Len(RLater) = ROld
         /\ RKept \in Seq(Cmds)
         /\ \A K \in SUBSET Cmds :
              /\ Count(RFirst, AnswersTo(K)) \in Nat
              /\ Count(RLater, AnswersTo(K)) \in Nat
              /\ Count(RFirst, AnswersTo(K)) + Count(RLater, AnswersTo(K))
                   + Count(RKept, K) = Count(defer, K) + Count(RSeg.cmds, K)
<1>1. /\ RSeg.cmds \in Seq(Cmds) /\ RNow \in 0 .. Len(RSeg.cmds)
      /\ Len(RSeg.cmds) \in Nat /\ RSeg \in Segments
  BY ReceiveBounds, SegmentFields
<1>2. /\ defer \in Seq(Cmds) /\ ROld \in 0 .. Len(defer) /\ Len(defer) \in Nat
      /\ Status \in Statuses /\ REnd \in Statuses
  BY ReceiveBounds, Types, ReceiveEnd
<1>3. /\ \A i \in 1 .. Len(RSeg.cmds) : RSeg.cmds[i] \in Cmds
      /\ \A i \in 1 .. Len(defer) : defer[i] \in Cmds
  BY <1>1, <1>2, ElementOfSeq
<1>4. \A K, c, e : c \in Cmds /\ e \in Statuses =>
                     (Answer(c, e) \in AnswersTo(K) <=> c \in K)
  BY DEF Answer, AnswersTo
<1>5. \A i \in 1 .. RNow : RFirst[i] \in Answers
  BY <1>1, <1>2, <1>3, <1>4 DEF RFirst, Answers
<1>6. \A i \in 1 .. ROld : RLater[i] \in Answers
  BY <1>1, <1>2, <1>3, <1>4 DEF RLater, Answers
<1>7. RFirst \in Seq(Answers) /\ Len(RFirst) = RNow /\ DOMAIN RFirst = 1 .. RNow
  BY <1>1, <1>5 DEF RFirst
<1>8. RLater \in Seq(Answers) /\ Len(RLater) = ROld /\ DOMAIN RLater = 1 .. ROld
  BY <1>2, <1>6 DEF RLater
<1>9. RKept = Drop(defer, ROld) \o Drop(RSeg.cmds, RNow)
  BY DEF RKept, Drop
<1>10. Drop(defer, ROld) \in Seq(Cmds) /\ Drop(RSeg.cmds, RNow) \in Seq(Cmds)
  BY <1>1, <1>2, Dropped
<1>11. RKept \in Seq(Cmds)
  BY <1>9, <1>10, ConcatProperties
<1>12. ASSUME NEW K \in SUBSET Cmds
       PROVE  /\ Count(RFirst, AnswersTo(K)) = Count(SubSeq(RSeg.cmds, 1, RNow), K)
              /\ Count(RLater, AnswersTo(K)) = Count(SubSeq(defer, 1, ROld), K)
  <2>1. /\ SubSeq(RSeg.cmds, 1, RNow) \in Seq(Cmds)
        /\ Len(SubSeq(RSeg.cmds, 1, RNow)) = RNow
        /\ \A i \in 1 .. RNow : SubSeq(RSeg.cmds, 1, RNow)[i] = RSeg.cmds[i]
    BY <1>1, Taken
  <2>2. /\ SubSeq(defer, 1, ROld) \in Seq(Cmds)
        /\ Len(SubSeq(defer, 1, ROld)) = ROld
        /\ \A i \in 1 .. ROld : SubSeq(defer, 1, ROld)[i] = defer[i]
    BY <1>2, Taken
  <2>3. /\ DOMAIN SubSeq(RSeg.cmds, 1, RNow) = 1 .. RNow
        /\ DOMAIN SubSeq(defer, 1, ROld) = 1 .. ROld
    BY <2>1, <2>2, LenProperties
  <2>4. \A i \in 1 .. RNow : RFirst[i] \in AnswersTo(K) <=> RSeg.cmds[i] \in K
    BY <1>1, <1>2, <1>3, <1>4 DEF RFirst
  <2>5. \A i \in 1 .. ROld : RLater[i] \in AnswersTo(K) <=> defer[i] \in K
    BY <1>2, <1>3, <1>4 DEF RLater
  <2>6. {i \in DOMAIN RFirst : RFirst[i] \in AnswersTo(K)}
          = {i \in DOMAIN SubSeq(RSeg.cmds, 1, RNow) :
               SubSeq(RSeg.cmds, 1, RNow)[i] \in K}
    BY <1>7, <2>1, <2>3, <2>4, Zenon
  <2>7. {i \in DOMAIN RLater : RLater[i] \in AnswersTo(K)}
          = {i \in DOMAIN SubSeq(defer, 1, ROld) : SubSeq(defer, 1, ROld)[i] \in K}
    BY <1>8, <2>2, <2>3, <2>5, Zenon
  <2>8. QED
    BY <2>6, <2>7, Zenon DEF Count
<1>13. ASSUME NEW K \in SUBSET Cmds
       PROVE  /\ Count(RFirst, AnswersTo(K)) \in Nat
              /\ Count(RLater, AnswersTo(K)) \in Nat
              /\ Count(RFirst, AnswersTo(K)) + Count(RLater, AnswersTo(K))
                   + Count(RKept, K) = Count(defer, K) + Count(RSeg.cmds, K)
  <2>1. Count(RKept, K) = Count(Drop(defer, ROld), K) + Count(Drop(RSeg.cmds, RNow), K)
    BY <1>9, <1>10, CountConcat
  <2>2. Count(defer, K)
          = Count(SubSeq(defer, 1, ROld), K) + Count(Drop(defer, ROld), K)
    BY <1>2, CountSplit
  <2>3. Count(RSeg.cmds, K) = Count(SubSeq(RSeg.cmds, 1, RNow), K)
                                + Count(Drop(RSeg.cmds, RNow), K)
    BY <1>1, CountSplit
  <2>4. /\ Count(SubSeq(defer, 1, ROld), K) \in 0 .. Count(defer, K)
        /\ Count(SubSeq(RSeg.cmds, 1, RNow), K) \in 0 .. Count(RSeg.cmds, K)
        /\ Count(defer, K) \in 0 .. Len(defer)
        /\ Count(RSeg.cmds, K) \in 0 .. Len(RSeg.cmds)
    BY <1>1, <1>2, CountTaken, CountRange
  <2>5. Count(Drop(defer, ROld), K) \in Int /\ Count(Drop(RSeg.cmds, RNow), K) \in Int
    <3>1. /\ Count(Drop(defer, ROld), K) \in 0 .. Len(Drop(defer, ROld))
          /\ Count(Drop(RSeg.cmds, RNow), K) \in 0 .. Len(Drop(RSeg.cmds, RNow))
      BY <1>10, CountRange
    <3>2. QED
      BY <3>1
  <2>6. QED
    BY <1>1, <1>2, <1>12, <2>1, <2>2, <2>3, <2>4, <2>5
<1>14. QED
  BY <1>7, <1>8, <1>11, <1>13

-----------------------------------------------------------------------------
(* What the steps do to the books.                                         *)

LEMMA Members ==
  ASSUME NEW a \in Answers
  PROVE  /\ a.cmd \in Cmds /\ a.status \in Statuses
         /\ a \in AnswersTo({"d"}) <=> a.cmd = "d"
         /\ a \in AnswersTo(Meta) <=> a.cmd # "d"
BY DEF Answers, AnswersTo, Cmds, Meta

LEMMA Sending ==
  ASSUME TypeOK, NEW cmds, NEW count, SendAll(cmds, count),
         [cmds |-> cmds, n |-> count, acked |-> toAck] \in Segments,
         UNCHANGED defer
  PROVE  LET x == [cmds |-> cmds, n |-> count, acked |-> toAck]
         IN /\ up' = Append(up, x) /\ up' \in Seq(Segments)
            /\ Len(up') = Len(up) + 1
            /\ InFlight' = InFlight + count /\ InAcks' = InAcks + toAck
            /\ MetaComing' = MetaComing + 1
            /\ DataComing' = DataComing + (IF x \in DataSegments THEN 1 ELSE 0)
            /\ Count(up', DataSegments)
                 = Count(up, DataSegments) + (IF x \in DataSegments THEN 1 ELSE 0)
<1> DEFINE x == [cmds |-> cmds, n |-> count, acked |-> toAck]
<1>1. /\ up \in Seq(Segments) /\ x \in Segments /\ up' = Append(up, x)
      /\ down' = down /\ defer' = defer
      /\ x.n = count /\ x.acked = toAck
  BY Types DEF SendAll
<1> HIDE DEF x
<1>2. up' \in Seq(Segments) /\ Len(up') = Len(up) + 1
  BY <1>1, AppendProperties
<1>3. Count(up', DataSegments)
        = Count(up, DataSegments) + (IF x \in DataSegments THEN 1 ELSE 0)
  BY <1>1, CountAppend
<1>4. /\ Total(PointsOf(up')) = Total(PointsOf(up)) + count
      /\ Total(AcksOf(up')) = Total(AcksOf(up)) + toAck
  BY <1>1, PointsOfAppend
<1>5. InFlight' = InFlight + count /\ InAcks' = InAcks + toAck
  BY <1>4 DEF InFlight, InAcks, PointsOf, AcksOf
<1>6. /\ Count(down, AnswersTo({"d"})) \in Int /\ Count(defer, {"d"}) \in Int
      /\ Count(up, DataSegments) \in Int
      /\ Count(down, AnswersTo(Meta)) \in Int /\ Count(defer, Meta) \in Int
      /\ Len(up) \in Int
  <2>1. \A K : /\ Count(down, K) \in 0 .. Len(down)
               /\ Count(defer, K) \in 0 .. Len(defer)
               /\ Count(up, K) \in 0 .. Len(up)
    BY Types
  <2>2. /\ \A k, l : k \in 0 .. l => k \in Int
    OBVIOUS
  <2>3. Len(up) \in Int
    BY Types
  <2>4. QED
    BY <2>1, <2>2, <2>3, Zenon
<1>7. MetaComing' = MetaComing + 1
  BY <1>1, <1>2, <1>6 DEF MetaComing
<1>8. DataComing' = DataComing + (IF x \in DataSegments THEN 1 ELSE 0)
  BY <1>1, <1>3, <1>6 DEF DataComing
<1>9. QED
  BY <1>1, <1>2, <1>3, <1>5, <1>7, <1>8 DEF x

LEMMA SentSegments ==
  ASSUME TypeOK
  PROVE  /\ [cmds |-> <<"p">>, n |-> 0, acked |-> toAck] \in Segments \ DataSegments
         /\ [cmds |-> <<"b">>, n |-> 0, acked |-> toAck] \in Segments \ DataSegments
         /\ n > 0 => [cmds |-> <<"q", "d">>, n |-> n, acked |-> toAck]
                       \in DataSegments
<1>1. toAck \in Nat /\ n \in Int /\ n <= Chunk
  BY DEF TypeOK
<1>2. \A c, m : [cmds |-> c, n |-> m, acked |-> toAck] \in DataSegments
                  <=> c = <<"q", "d">> /\ m \in 1 .. Chunk
  BY <1>1 DEF DataSegments
<1>3. \A c, m : [cmds |-> c, n |-> m, acked |-> toAck] \in OtherSegments
                  <=> c \in {<<"p">>, <<"b">>} /\ m = 0
  BY <1>1 DEF OtherSegments
<1>4. 0 \notin 1 .. Chunk /\ (n > 0 => n \in 1 .. Chunk)
  BY <1>1, ConstantTypes
<1>5. QED
  BY <1>2, <1>3, <1>4, Zenon DEF Segments

LEMMA Reading ==
  ASSUME TypeOK, ReadAnswer
  PROVE  /\ down # <<>> /\ Head(down) = down[1] /\ down[1] \in Answers
         /\ down' = Tail(down) /\ Tail(down) \in Seq(Answers)
         /\ Len(down') = Len(down) - 1 /\ Len(down) \in Nat \ {0}
         /\ \A i \in 1 .. Len(down) - 1 : down'[i] = down[i + 1]
         /\ status' = down[1].status /\ check_data_response(down[1])
         /\ DataComing' = DataComing - (IF down[1].cmd = "d" THEN 1 ELSE 0)
         /\ MetaComing' = MetaComing - (IF down[1].cmd = "d" THEN 0 ELSE 1)
         /\ DataComing' \in Nat /\ MetaComing' \in Nat
         /\ Count(down', AnswersTo({"d"})) \in Nat
         /\ UNCHANGED <<up, defer, InFlight, InAcks>>
<1>1. /\ status' = Head(down).status /\ check_data_response(Head(down))
      /\ down' = Tail(down) /\ arrived > 0 /\ up' = up /\ defer' = defer
  BY DEF ReadAnswer, replyVars
<1>2. down \in Seq(Answers) /\ Len(down) \in Nat /\ arrived \in 0 .. Len(down)
  BY Types
<1>3. down # <<>>
  <2>1. Len(down) > 0
    BY <1>1, <1>2
  <2>2. QED
    BY <2>1
<1>4. /\ Len(down) \in Nat \ {0} /\ Head(down) = down[1] /\ down[1] \in Answers
      /\ Tail(down) \in Seq(Answers) /\ Len(Tail(down)) = Len(down) - 1
      /\ \A i \in 1 .. Len(down) - 1 : Tail(down)[i] = down[i + 1]
  BY <1>2, <1>3, HeadAndTail
<1>5. /\ down[1] \in AnswersTo({"d"}) <=> down[1].cmd = "d"
      /\ down[1] \in AnswersTo(Meta) <=> down[1].cmd # "d"
  BY <1>4, Members
<1>6. \A K : Count(down, K)
               = (IF down[1] \in K THEN 1 ELSE 0) + Count(Tail(down), K)
  BY <1>2, <1>3, CountTail
<1>7. \A K : /\ Count(Tail(down), K) \in Nat /\ Count(defer, K) \in Nat
             /\ Count(up, K) \in Nat
  <2>1. \A K : /\ Count(Tail(down), K) \in 0 .. Len(Tail(down))
               /\ Count(defer, K) \in 0 .. Len(defer)
               /\ Count(up, K) \in 0 .. Len(up)
    BY <1>4, Types, CountRange
  <2>2. QED
    BY <2>1
<1>8. /\ Count(down, AnswersTo({"d"}))
           = (IF down[1].cmd = "d" THEN 1 ELSE 0)
             + Count(Tail(down), AnswersTo({"d"}))
      /\ Count(down, AnswersTo(Meta))
           = (IF down[1].cmd = "d" THEN 0 ELSE 1)
             + Count(Tail(down), AnswersTo(Meta))
      /\ Count(Tail(down), AnswersTo({"d"})) \in Nat
      /\ Count(Tail(down), AnswersTo(Meta)) \in Nat
      /\ Count(defer, {"d"}) \in Nat /\ Count(defer, Meta) \in Nat
      /\ Count(up, DataSegments) \in Nat
  BY <1>5, <1>6, <1>7, Zenon
<1>9. Len(up) \in Nat
  BY Types
<1>10. /\ DataComing' = DataComing - (IF down[1].cmd = "d" THEN 1 ELSE 0)
       /\ DataComing' \in Nat
  <2> DEFINE a == Count(Tail(down), AnswersTo({"d"}))
             b == Count(defer, {"d"})
             c == Count(up, DataSegments)
             i == IF down[1].cmd = "d" THEN 1 ELSE 0
  <2>1. a \in Nat /\ b \in Nat /\ c \in Nat /\ i \in 0 .. 1
    BY <1>8
  <2>2. DataComing = (i + a) + b + c
    BY <1>8, Zenon DEF DataComing
  <2>3. DataComing' = a + b + c
    BY <1>1, Zenon DEF DataComing
  <2> HIDE DEF a, b, c, i
  <2>4. DataComing' = DataComing - i /\ DataComing' \in Nat
    BY <2>1, <2>2, <2>3
  <2>5. QED
    BY <2>4 DEF i
<1>11. /\ MetaComing' = MetaComing - (IF down[1].cmd = "d" THEN 0 ELSE 1)
       /\ MetaComing' \in Nat
  BY <1>1, <1>8, <1>9 DEF MetaComing
<1>12. UNCHANGED <<InFlight, InAcks>>
  BY <1>1 DEF InFlight, InAcks
<1>13. QED
  BY <1>1, <1>3, <1>4, <1>8, <1>10, <1>11, <1>12

LEMMA Receiving ==
  ASSUME TypeOK, Receive
  PROVE  /\ up # <<>> /\ RSeg = up[1] /\ RSeg \in Segments
         /\ up' = Tail(up) /\ up' \in Seq(Segments) /\ Len(up') = Len(up) - 1
         /\ InFlight' = InFlight - RSeg.n /\ InFlight' \in Nat
         /\ InAcks' = InAcks - RSeg.acked
         /\ down' = down \o (RFirst \o RLater)
         /\ RFirst \o RLater \in Seq(Answers)
         /\ Len(RFirst \o RLater) = RNow + ROld
         /\ down' \in Seq(Answers) /\ Len(down') = Len(down) + RNow + ROld
         /\ defer' \in Seq(Cmds) /\ Len(defer') = Least(Len(RKept), DeferMax)
         /\ Count(up', DataSegments)
              = Count(up, DataSegments)
                - (IF RSeg \in DataSegments THEN 1 ELSE 0)
         /\ DataComing' <= DataComing /\ MetaComing' <= MetaComing
         /\ ~lost' => DataComing' = DataComing /\ MetaComing' = MetaComing
         /\ DataComing' \in Nat /\ MetaComing' \in Nat
<1>1. /\ up # <<>> /\ up' = Tail(up)
      /\ down' = down \o RFirst \o RLater
      /\ defer' = SubSeq(RKept, 1, Least(Len(RKept), DeferMax))
      /\ lost' = (lost \/ Len(RKept) > DeferMax)
  BY Received
<1>2. /\ RSeg = up[1] /\ RSeg \in Segments /\ RSeg.n \in Nat
      /\ InAcks = RSeg.acked + Total(AcksOf(Tail(up))) /\ RSeg.acked \in Nat
      /\ InFlight = RSeg.n + Total(PointsOf(Tail(up)))
      /\ RNow \in Nat /\ ROld \in Nat
  BY <1>1, ReceiveBounds, SegmentFields
<1>3. /\ up \in Seq(Segments) /\ down \in Seq(Answers) /\ Len(down) \in Nat
      /\ InFlight \in Nat /\ InAcks \in Nat /\ Len(up) \in Nat
  BY Types
<1>4. up' \in Seq(Segments) /\ Len(up') = Len(up) - 1
  BY <1>1, <1>3, HeadAndTail
<1>5. /\ Count(up, DataSegments) = (IF RSeg \in DataSegments THEN 1 ELSE 0)
                                     + Count(up', DataSegments)
      /\ Count(up', DataSegments) \in 0 .. Len(up')
  BY <1>1, <1>2, <1>3, <1>4, CountTail, CountRange
<1>6. /\ InFlight' = Total(PointsOf(Tail(up))) /\ InAcks' = Total(AcksOf(Tail(up)))
  BY <1>1 DEF InFlight, InAcks, PointsOf, AcksOf
<1>7. Total(PointsOf(Tail(up))) \in Nat /\ Total(AcksOf(Tail(up))) \in Nat
  <2>1. PointsOf(Tail(up)) \in Seq(Nat) /\ AcksOf(Tail(up)) \in Seq(Nat)
    BY <1>1, <1>2, <1>4, PointsOfAppend
  <2>2. QED
    BY <2>1, TotalType
<1>8. /\ InFlight' = InFlight - RSeg.n /\ InFlight' \in Nat
      /\ InAcks' = InAcks - RSeg.acked
  BY <1>2, <1>6, <1>7
<1>9. /\ RFirst \in Seq(Answers) /\ Len(RFirst) = RNow
      /\ RLater \in Seq(Answers) /\ Len(RLater) = ROld
      /\ RKept \in Seq(Cmds)
  BY <1>1, ReceiveAnswers
<1>10. /\ RFirst \o RLater \in Seq(Answers)
       /\ Len(RFirst \o RLater) = RNow + ROld
  BY <1>9, ConcatProperties
<1>11. down' = down \o (RFirst \o RLater)
  <2>1. (down \o RFirst) \o RLater = down \o (RFirst \o RLater)
    <3>1. down \in Seq(Answers) /\ RFirst \in Seq(Answers)
          /\ RLater \in Seq(Answers)
      BY <1>3, <1>9, Zenon
    <3>2. QED
      BY <3>1, ConcatAssociative
  <2>2. QED
    BY <1>1, <2>1, Zenon
<1>12. down' \in Seq(Answers) /\ Len(down') = Len(down) + (RNow + ROld)
  BY <1>3, <1>10, <1>11, ConcatProperties
<1>13. Len(RKept) \in Nat /\ Least(Len(RKept), DeferMax) \in 0 .. Len(RKept)
  BY <1>9, LenProperties, ConstantTypes DEF Least
<1>14. defer' \in Seq(Cmds) /\ Len(defer') = Least(Len(RKept), DeferMax)
  BY <1>1, <1>9, <1>13, Taken
<1>15. ASSUME NEW K \in SUBSET Cmds
       PROVE  /\ Count(down', AnswersTo(K)) + Count(defer', K)
                   <= Count(down, AnswersTo(K)) + Count(defer, K)
                        + Count(RSeg.cmds, K)
              /\ ~lost' => Count(down', AnswersTo(K)) + Count(defer', K)
                             = Count(down, AnswersTo(K)) + Count(defer, K)
                                 + Count(RSeg.cmds, K)
              /\ Count(down, AnswersTo(K)) \in Nat /\ Count(defer, K) \in Nat
              /\ Count(down', AnswersTo(K)) \in Nat /\ Count(defer', K) \in Nat
  <2>1. /\ Count(RFirst, AnswersTo(K)) \in Nat
        /\ Count(RLater, AnswersTo(K)) \in Nat
        /\ Count(RFirst, AnswersTo(K)) + Count(RLater, AnswersTo(K))
             + Count(RKept, K) = Count(defer, K) + Count(RSeg.cmds, K)
    BY <1>1, ReceiveAnswers
  <2>2. Count(RFirst \o RLater, AnswersTo(K))
          = Count(RFirst, AnswersTo(K)) + Count(RLater, AnswersTo(K))
    BY <1>9, CountConcat
  <2>3. Count(down', AnswersTo(K))
          = Count(down, AnswersTo(K)) + Count(RFirst \o RLater, AnswersTo(K))
    BY <1>3, <1>10, <1>11, CountConcat
  <2>4. Count(defer', K) \in 0 .. Count(RKept, K) /\ Count(RKept, K) \in 0 .. Len(RKept)
    BY <1>1, <1>9, <1>13, CountTaken, CountRange
  <2>5. ~lost' => Count(defer', K) = Count(RKept, K)
    <3>0. ~lost' => ~(Len(RKept) > DeferMax)
      BY <1>1, Zenon
    <3>1. ~lost' => Least(Len(RKept), DeferMax) = Len(RKept)
      BY <1>13, <3>0, ConstantTypes DEF Least
    <3>2. SubSeq(RKept, 1, Len(RKept)) = RKept
      BY <1>9, SubSeqFull
    <3>3. QED
      BY <1>1, <3>1, <3>2
  <2>6. /\ Count(down, AnswersTo(K)) \in 0 .. Len(down)
        /\ Count(defer, K) \in 0 .. Len(defer)
    BY Types
  <2>a. /\ Count(down, AnswersTo(K)) \in Nat /\ Count(defer, K) \in Nat
        /\ Count(RKept, K) \in Nat /\ Count(defer', K) \in Nat
        /\ Count(defer', K) <= Count(RKept, K)
    <3>1. Len(down) \in Nat /\ Len(defer) \in Nat /\ Len(RKept) \in Nat
      BY <1>13, Types
    <3>2. QED
      BY <2>4, <2>6, <3>1
  <2>b. Count(RSeg.cmds, K) \in Int
    <3>1. RSeg.cmds \in Seq(Cmds)
      BY <1>2, SegmentFields
    <3>2. Count(RSeg.cmds, K) \in 0 .. Len(RSeg.cmds)
      BY <3>1, CountRange
    <3>3. QED
      BY <3>2
  <2>7. QED
    BY <2>1, <2>2, <2>3, <2>5, <2>a, <2>b
<1>16. /\ Count(RSeg.cmds, Meta) = 1
       /\ Count(RSeg.cmds, {"d"}) = IF RSeg \in DataSegments THEN 1 ELSE 0
  BY <1>2, SegmentFields
<1>17. {"d"} \in SUBSET Cmds /\ Meta \in SUBSET Cmds
  BY DEF Cmds
<1>18. /\ DataComing' <= DataComing /\ DataComing' \in Nat
       /\ ~lost' => DataComing' = DataComing
  <2>1. /\ Count(down', AnswersTo({"d"})) + Count(defer', {"d"})
             <= Count(down, AnswersTo({"d"})) + Count(defer, {"d"})
                  + Count(RSeg.cmds, {"d"})
        /\ ~lost' => Count(down', AnswersTo({"d"})) + Count(defer', {"d"})
                       = Count(down, AnswersTo({"d"})) + Count(defer, {"d"})
                           + Count(RSeg.cmds, {"d"})
        /\ Count(down, AnswersTo({"d"})) \in Nat /\ Count(defer, {"d"}) \in Nat
        /\ Count(down', AnswersTo({"d"})) \in Nat /\ Count(defer', {"d"}) \in Nat
    BY <1>15, <1>17
  <2>2. DataComing' = Count(down', AnswersTo({"d"})) + Count(defer', {"d"})
                        + Count(up', DataSegments)
    BY DEF DataComing
  <2>3. Count(up', DataSegments) \in Nat
    BY <1>5
  <2>4. QED
    BY <1>5, <1>16, <2>1, <2>2, <2>3 DEF DataComing
<1>19. /\ MetaComing' <= MetaComing /\ MetaComing' \in Nat
       /\ ~lost' => MetaComing' = MetaComing
  <2>1. /\ Count(down', AnswersTo(Meta)) + Count(defer', Meta)
             <= Count(down, AnswersTo(Meta)) + Count(defer, Meta)
                  + Count(RSeg.cmds, Meta)
        /\ ~lost' => Count(down', AnswersTo(Meta)) + Count(defer', Meta)
                       = Count(down, AnswersTo(Meta)) + Count(defer, Meta)
                           + Count(RSeg.cmds, Meta)
        /\ Count(down, AnswersTo(Meta)) \in Nat /\ Count(defer, Meta) \in Nat
        /\ Count(down', AnswersTo(Meta)) \in Nat /\ Count(defer', Meta) \in Nat
    BY <1>15, <1>17
  <2>2. MetaComing' = Count(down', AnswersTo(Meta)) + Count(defer', Meta) + Len(up')
    BY DEF MetaComing
  <2>3. Len(up') = Len(up) - 1 /\ Len(up) \in Nat /\ Len(up') \in Nat
    BY <1>3, <1>4, LenProperties
  <2>4. QED
    BY <1>16, <2>1, <2>2, <2>3 DEF MetaComing
<1>20. /\ Count(up', DataSegments)
            = Count(up, DataSegments) - (IF RSeg \in DataSegments THEN 1 ELSE 0)
       /\ Len(down') = Len(down) + RNow + ROld
  BY <1>2, <1>3, <1>5, <1>12
<1>21. QED
  BY <1>1, <1>2, <1>4, <1>8, <1>10, <1>11, <1>12, <1>14, <1>18, <1>19, <1>20

-----------------------------------------------------------------------------
(* Types and books.                                                        *)

Books == TypeOK /\ BooksInv

LEMMA BooksInit == Init => Books
<1> SUFFICES ASSUME Init PROVE Books
  OBVIOUS
<1> USE ConstantTypes
<1>1. /\ up = <<>> /\ down = <<>> /\ defer = <<>> /\ ackbuf = <<>>
      /\ unacked_points = 0 /\ pending_meta_acks = 0 /\ lost = FALSE
      /\ arrived = 0 /\ toAck = 0 /\ snd = 0
  BY DEF Init
<1>2. InAcks = 0 /\ InFlight = 0
  <2>1. [i \in DOMAIN up |-> up[i].acked] = <<>>
    BY <1>1
  <2>2. [i \in DOMAIN up |-> up[i].n] = <<>>
    BY <1>1
  <2>3. Total(<<>>) = 0
    BY TotalOne, 0 \in Nat
  <2>4. QED
    BY <2>1, <2>2, <2>3, Zenon DEF InAcks, InFlight
<1>3. DataComing = 0 /\ MetaComing = 0
  <2>1. \A K : Count(<<>>, K) = 0
    BY CountOne
  <2>2. QED
    BY <1>1, <2>1 DEF DataComing, MetaComing
<1>4. TypeOK
  <2>1. status \in Statuses /\ dac \in DacStates /\ fullness \in 0 .. Capacity
    BY DEF Init, Status, Statuses, DacStates
  <2>2. {late, lost, refused} \subseteq BOOLEAN /\ ready \in BOOLEAN
    BY DEF Init
  <2>3. /\ pc \in {"idle", "top", "prepared", "acks", "wait"}
        /\ n \in Int /\ n <= Chunk /\ idx \in Int
        /\ points \in FrameSizes \union {0} /\ elapsed \in 0 .. MaxDelay
        /\ estops \in Nat /\ dc_begin_sent \in BOOLEAN
    <3>1. pc = "idle" /\ n = 0 /\ idx = 0 /\ points = 0 /\ elapsed = 0
          /\ estops = 0 /\ dc_begin_sent = FALSE
      BY DEF Init
    <3>2. /\ pc \in {"idle", "top", "prepared", "acks", "wait"}
          /\ n \in Int /\ n <= Chunk /\ idx \in Int /\ estops \in Nat
      BY <3>1
    <3>3. points \in FrameSizes \union {0} /\ elapsed \in 0 .. MaxDelay
      BY <3>1
    <3>4. dc_begin_sent \in BOOLEAN
      BY <3>1
    <3>5. QED
      BY <3>2, <3>3, <3>4, Zenon
  <2>4. /\ unacked_points \in Int /\ ackbuf \in Seq(1 .. Chunk)
        /\ pending_meta_acks \in Nat
        /\ up \in Seq(DataSegments \union OtherSegments)
        /\ down \in Seq(AnswersTo(Meta \union {"d"})) /\ arrived \in 0 .. Len(down)
        /\ toAck \in Nat /\ snd \in 0 .. SndMax
        /\ defer \in Seq(Meta \union {"d"}) /\ Len(defer) <= DeferMax
    BY <1>1
  <2>5. snd = Len(down) - arrived + toAck + InAcks
    BY <1>1, <1>2
  <2>6. QED
    BY <2>1, <2>2, <2>3, <2>4, <2>5 DEF TypeOK
<1>5. BooksInv
  <2>1. Total(ackbuf) = 0 /\ Len(ackbuf) = 0
    BY <1>1, TotalOne, 0 \in Nat
  <2>2. QED
    BY <1>1, <1>3, <2>1 DEF BooksInv
<1>6. QED
  BY <1>4, <1>5 DEF Books

(* A step that leaves the books and what is under way alone.               *)
LEMMA BooksKept ==
  ASSUME BooksInv, UNCHANGED <<unacked_points, ackbuf, pending_meta_acks, up,
                               down, defer, lost, late>>
  PROVE  BooksInv'
BY DEF BooksInv, DataComing, MetaComing

(* BeginIfDue, whether it sends a "b" or not: a segment without points and *)
(* one more answer to wait for.                                            *)
LEMMA Beginning ==
  ASSUME Books, BeginIfDue, UNCHANGED <<status, unacked_points, ackbuf, replyVars>>
  PROVE  /\ BooksInv' /\ up' \in Seq(DataSegments \union OtherSegments)
         /\ InFlight' = InFlight /\ toAck' \in Nat /\ InAcks' \in Nat
         /\ toAck' + InAcks' = toAck + InAcks
         /\ pending_meta_acks' \in Nat /\ dc_begin_sent' \in BOOLEAN
         /\ UNCHANGED <<down, arrived, snd>>
         /\ Count(up', DataSegments) = Count(up, DataSegments)
<1>0. TypeOK /\ BooksInv
  BY DEF Books
<1>1. CASE BeginIsDue /\ SendAll(<<"b">>, 0)
           /\ pending_meta_acks' = pending_meta_acks + 1 /\ dc_begin_sent' = TRUE
  <2>1. UNCHANGED <<defer, late, lost>>
    BY DEF replyVars
  <2>2. [cmds |-> <<"b">>, n |-> 0, acked |-> toAck] \in Segments \ DataSegments
    BY <1>0, SentSegments
  <2>3. /\ up' \in Seq(Segments) /\ InFlight' = InFlight + 0
        /\ InAcks' = InAcks + toAck /\ MetaComing' = MetaComing + 1
        /\ DataComing' = DataComing + 0
        /\ Count(up', DataSegments) = Count(up, DataSegments) + 0
    BY <1>0, <1>1, <2>1, <2>2, Sending
  <2>4. /\ toAck' = 0 /\ UNCHANGED <<down, arrived, snd>>
    BY <1>1 DEF SendAll
  <2>5. /\ InFlight \in Nat /\ InAcks \in Nat /\ DataComing \in Nat
        /\ MetaComing \in Nat /\ toAck \in Nat /\ pending_meta_acks \in Nat
        /\ Count(up, DataSegments) \in Nat
    <3>1. Count(up, DataSegments) \in 0 .. Len(up)
      BY <1>0, Types
    <3>2. pending_meta_acks \in Nat
      BY <1>0 DEF TypeOK
    <3>3. QED
      BY <1>0, <3>1, <3>2, Types
  <2>6. BooksInv'
    BY <1>0, <1>1, <2>1, <2>3, <2>5 DEF BooksInv
  <2>7. QED
    BY <1>1, <2>3, <2>4, <2>5, <2>6 DEF Segments
<1>2. CASE UNCHANGED <<netVars, pending_meta_acks, dc_begin_sent>>
  <2>1. UNCHANGED <<up, down, defer, late, lost, arrived, snd, toAck>>
    BY <1>2 DEF replyVars, netVars
  <2>2. InFlight' = InFlight /\ InAcks' = InAcks
    BY <2>1 DEF InFlight, InAcks
  <2>3. /\ pending_meta_acks \in Nat /\ dc_begin_sent \in BOOLEAN /\ toAck \in Nat
        /\ up \in Seq(DataSegments \union OtherSegments) /\ InAcks \in Nat
    BY <1>0, Types DEF TypeOK
  <2>4. BooksInv'
    BY <1>0, <1>2, <2>1, BooksKept
  <2>5. QED
    BY <1>2, <2>1, <2>2, <2>3, <2>4
<1>3. QED
  BY <1>1, <1>2 DEF BeginIfDue

LEMMA Capped ==
  ASSUME TypeOK, Estimated
  PROVE  cap \in Int /\ n' \in Int /\ n' <= Chunk /\ n' <= cap /\ n' <= points - idx
<1>1. status.full \in Nat
  BY ConstantTypes DEF TypeOK, Statuses
<1>2. elapsed \in Nat /\ unacked_points \in Int /\ Target \in Nat /\ Chunk \in Nat
      /\ points \in Int /\ idx \in Int
  BY ConstantTypes DEF TypeOK
<1>3. cap \in Int
  BY <1>1, <1>2 DEF cap, expected_fullness
<1>4. n' = Least(Least(cap, points - idx), Chunk)
  BY DEF Estimated
<1>5. QED
  BY <1>2, <1>3, <1>4 DEF Least

LEMMA BooksStep == Books /\ [Next]_vars => Books'
<1> SUFFICES ASSUME Books, [Next]_vars PROVE Books'
  OBVIOUS
<1>0. TypeOK /\ BooksInv
  BY DEF Books
<1> USE <1>0
<1>c. /\ Chunk \in Nat \ {0} /\ Target \in Nat \ {0} /\ SndMax \in Nat \ {0}
      /\ FrameSizes \subseteq Nat \ {0} /\ MaxDelay \in Nat /\ DeferMax \in Nat
      /\ Capacity \in Nat \ {0}
  BY ConstantTypes
<1>t. /\ Len(ackbuf) \in Nat /\ Total(ackbuf) \in Nat /\ Len(up) \in Nat
      /\ Len(down) \in Nat /\ InFlight \in Nat /\ InAcks \in Nat
      /\ DataComing \in Nat /\ MetaComing \in Nat
  BY Types
<1>u. ackbuf \in Seq(Nat)
  BY Types
<1>s. /\ arrived \in 0 .. Len(down) /\ arrived \in Int /\ toAck \in Nat
      /\ snd \in Int /\ snd = Len(down) - arrived + toAck + InAcks
      /\ pending_meta_acks \in Nat
  <2>1. /\ arrived \in 0 .. Len(down) /\ toAck \in Nat /\ snd \in Nat
        /\ snd = Len(down) - arrived + toAck + InAcks
    BY Types
  <2>2. pending_meta_acks \in Nat
    BY DEF TypeOK
  <2>3. QED
    BY <1>t, <2>1, <2>2
<1>k. ASSUME UNCHANGED <<up, down>> PROVE UNCHANGED <<InFlight, InAcks>>
  BY <1>k DEF InFlight, InAcks
<1>1. CASE WriteFrame
  <2>1. UNCHANGED <<up, down, InFlight, InAcks>>
    BY <1>1, <1>k DEF WriteFrame, netVars
  <2>2. TypeOK'
    BY <1>1, <2>1 DEF WriteFrame, TypeOK, bookVars, netVars, playVars, replyVars
  <2>3. BooksInv'
    BY <1>1, BooksKept DEF WriteFrame, bookVars, netVars, replyVars
  <2>4. QED
    BY <2>2, <2>3 DEF Books
<1>2. CASE EstimateIdle
  <2>1. /\ SendAll(<<"p">>, 0) /\ pending_meta_acks' = pending_meta_acks + 1
        /\ UNCHANGED <<defer, ackbuf, unacked_points, lost, late>>
    BY <1>2 DEF EstimateIdle, Estimated, replyVars
  <2>2. [cmds |-> <<"p">>, n |-> 0, acked |-> toAck] \in Segments \ DataSegments
    BY SentSegments
  <2>3. /\ up' \in Seq(Segments) /\ InAcks' = InAcks + toAck
        /\ MetaComing' = MetaComing + 1 /\ DataComing' = DataComing + 0
    BY <2>1, <2>2, Sending
  <2>4. /\ toAck' = 0 /\ UNCHANGED <<down, arrived, snd>>
    BY <2>1 DEF SendAll
  <2>5. n' \in Int /\ n' <= Chunk
    BY <1>2, Capped DEF EstimateIdle
  <2>6. pending_meta_acks' \in Nat
    BY <2>1 DEF TypeOK
  <2>7. up' \in Seq(DataSegments \union OtherSegments)
    BY <2>3 DEF Segments
  <2>8. snd' = Len(down') - arrived' + toAck' + InAcks'
    BY <1>t, <2>3, <2>4 DEF TypeOK
  <2>9. TypeOK'
    BY <1>2, <2>4, <2>5, <2>6, <2>7, <2>8
       DEF TypeOK, EstimateIdle, Estimated, playVars, replyVars
  <2>10. BooksInv'
    BY <1>t, <2>1, <2>3 DEF BooksInv, TypeOK
  <2>11. QED
    BY <2>9, <2>10 DEF Books
<1>3. CASE Estimate
  <2>1. /\ BeginIfDue /\ UNCHANGED <<status, unacked_points, ackbuf, replyVars>>
    BY <1>3 DEF Estimate, Estimated
  <2>2. /\ BooksInv' /\ up' \in Seq(DataSegments \union OtherSegments)
        /\ toAck' \in Nat /\ InAcks' \in Nat
        /\ toAck' + InAcks' = toAck + InAcks
        /\ pending_meta_acks' \in Nat /\ dc_begin_sent' \in BOOLEAN
        /\ UNCHANGED <<down, arrived, snd>>
    BY <2>1, Beginning
  <2>3. n' \in Int /\ n' <= Chunk
    BY <1>3, Capped DEF Estimate
  <2>4. snd' = Len(down') - arrived' + toAck' + InAcks'
    <3>1. /\ snd' = snd /\ down' = down /\ arrived' = arrived
          /\ toAck' + InAcks' = toAck + InAcks
          /\ toAck' \in Nat /\ InAcks' \in Nat
      BY <2>2
    <3>2. Len(down') - arrived' = Len(down) - arrived
      BY <3>1
    <3>3. Len(down) - arrived + toAck + InAcks = Len(down) - arrived + (toAck + InAcks)
      BY <1>t, <1>s
    <3>4. Len(down') - arrived' + toAck' + InAcks'
            = Len(down') - arrived' + (toAck' + InAcks')
      BY <1>t, <1>s, <3>1
    <3>5. QED
      BY <1>s, <3>1, <3>2, <3>3, <3>4
  <2>5. TypeOK'
    BY <1>3, <2>2, <2>3, <2>4 DEF TypeOK, Estimate, Estimated, playVars, replyVars
  <2>6. QED
    BY <2>2, <2>5 DEF Books
<1>4. CASE EstimateFull
  <2>1. UNCHANGED <<up, down, InFlight, InAcks>>
    BY <1>4, <1>k DEF EstimateFull, netVars
  <2>2. TypeOK'
    BY <1>4, <2>1 DEF EstimateFull, TypeOK, bookVars, netVars, playVars, replyVars
  <2>3. BooksInv'
    BY <1>4, BooksKept DEF EstimateFull, bookVars, netVars, replyVars
  <2>4. QED
    BY <2>2, <2>3 DEF Books
<1>5. CASE ReadAnswer
  <2>1. /\ down[1] \in Answers /\ down' \in Seq(Answers)
        /\ Len(down') = Len(down) - 1 /\ status' = down[1].status
        /\ check_data_response(down[1])
        /\ DataComing' = DataComing - (IF down[1].cmd = "d" THEN 1 ELSE 0)
        /\ MetaComing' = MetaComing - (IF down[1].cmd = "d" THEN 0 ELSE 1)
        /\ DataComing' \in Nat /\ MetaComing' \in Nat
        /\ UNCHANGED <<up, defer, InFlight, InAcks>>
    BY <1>5, Reading
  <2>d. /\ down[1].cmd = "d" => /\ DataComing' = DataComing - 1
                                  /\ MetaComing' = MetaComing
        /\ down[1].cmd # "d" => /\ MetaComing' = MetaComing - 1
                                  /\ DataComing' = DataComing
        /\ DataComing' \in Nat /\ MetaComing' \in Nat
    <3>1. /\ DataComing' = DataComing - (IF down[1].cmd = "d" THEN 1 ELSE 0)
          /\ MetaComing' = MetaComing - (IF down[1].cmd = "d" THEN 0 ELSE 1)
          /\ DataComing' \in Nat /\ MetaComing' \in Nat
      BY <2>1
    <3>2. CASE down[1].cmd = "d"
      <4>1. DataComing' = DataComing - 1 /\ MetaComing' = MetaComing - 0
        BY <3>1, <3>2, Zenon
      <4>2. QED
        BY <1>t, <3>1, <3>2, <4>1
    <3>3. CASE down[1].cmd # "d"
      <4>1. DataComing' = DataComing - 0 /\ MetaComing' = MetaComing - 1
        BY <3>1, <3>3, Zenon
      <4>2. QED
        BY <1>t, <3>1, <3>3, <4>1
    <3>4. QED
      BY <3>2, <3>3, Zenon
  <2>2. status' \in Statuses
    BY <2>1, Members
  <2>3. dc_begin_sent' \in BOOLEAN
    BY <2>1 DEF check_data_response
  <2>4. /\ arrived > 0 /\ arrived' = arrived - 1 /\ elapsed' = 0
        /\ UNCHANGED <<hostVars, up, toAck, snd, playVars, replyVars>>
    BY <1>5 DEF ReadAnswer
  <2>5. /\ ackbuf' \in Seq(1 .. Chunk) /\ unacked_points' \in Int
        /\ pending_meta_acks' \in Nat /\ BooksInv'
    <3>1. UNCHANGED <<lost, late>>
      BY <2>4 DEF replyVars
    <3>2. CASE down[1].cmd = "d"
      <4>1. /\ ackbuf # <<>> /\ ackbuf' = Tail(ackbuf)
            /\ unacked_points' = unacked_points - Head(ackbuf)
            /\ pending_meta_acks' = pending_meta_acks
        BY <2>1, <3>2 DEF check_data_response
      <4>2. /\ Tail(ackbuf) \in Seq(1 .. Chunk) /\ Tail(ackbuf) \in Seq(Nat)
            /\ Len(Tail(ackbuf)) = Len(ackbuf) - 1 /\ Head(ackbuf) = ackbuf[1]
            /\ ackbuf[1] \in Nat
        BY <1>u, <4>1, HeadAndTail DEF TypeOK
      <4>3. Total(ackbuf) = ackbuf[1] + Total(Tail(ackbuf))
        BY <1>u, <4>1, TotalTail
      <4>4. Total(Tail(ackbuf)) \in Nat
        BY <4>2, TotalType
      <4>5. BooksInv'
        <5>1. /\ Len(ackbuf') = Len(ackbuf) - 1 /\ DataComing' = DataComing - 1
              /\ MetaComing' = MetaComing
          BY <2>d, <3>2, <4>1, <4>2
        <5>2. Total(ackbuf') = Total(ackbuf) - ackbuf[1]
          BY <4>1, <4>2, <4>3, <4>4
        <5>3. QED
          <6>1. /\ unacked_points = Total(ackbuf)
                /\ Len(ackbuf) >= DataComing /\ pending_meta_acks >= MetaComing
                /\ ~lost => Len(ackbuf) = DataComing /\ pending_meta_acks = MetaComing
                /\ lost => late
            BY DEF BooksInv
          <6>2. unacked_points' = Total(ackbuf')
            BY <1>t, <4>1, <4>2, <5>2, <6>1
          <6>3. Len(ackbuf') >= DataComing'
            BY <1>t, <5>1, <6>1
          <6>4. QED
            BY <3>1, <4>1, <5>1, <6>1, <6>2, <6>3 DEF BooksInv
      <4>6. unacked_points' \in Int /\ pending_meta_acks' \in Nat
        BY <4>1, <4>2 DEF TypeOK
      <4>7. QED
        BY <4>1, <4>2, <4>5, <4>6
    <3>3. CASE down[1].cmd # "d"
      <4>1. /\ pending_meta_acks' = pending_meta_acks - 1
            /\ UNCHANGED <<ackbuf, unacked_points>>
        BY <2>1, <3>3 DEF check_data_response
      <4>2. pending_meta_acks \in Nat /\ pending_meta_acks >= MetaComing
        BY DEF TypeOK, BooksInv
      <4>3. pending_meta_acks' \in Nat
        BY <1>t, <2>d, <3>3, <4>1, <4>2
      <4>4. BooksInv'
        <5>1. /\ MetaComing' = MetaComing - 1 /\ DataComing' = DataComing
          BY <2>d, <3>3
        <5>2. QED
          BY <1>t, <3>1, <4>1, <4>2, <5>1 DEF BooksInv
      <4>5. QED
        BY <4>1, <4>3, <4>4 DEF TypeOK
    <3>4. QED
      BY <3>2, <3>3
  <2>6. /\ arrived' \in 0 .. Len(down')
        /\ snd' = Len(down') - arrived' + toAck' + InAcks'
    <3>1. /\ Len(down') = Len(down) - 1 /\ arrived' = arrived - 1 /\ arrived > 0
          /\ snd' = snd /\ toAck' = toAck /\ InAcks' = InAcks
      BY <2>1, <2>4
    <3>2. arrived' \in 0 .. Len(down')
      BY <1>t, <1>s, <3>1
    <3>3. Len(down') - arrived' = Len(down) - arrived
      BY <1>t, <1>s, <3>1
    <3>4. snd' = Len(down') - arrived' + toAck' + InAcks'
      BY <1>s, <3>1, <3>3
    <3>5. QED
      BY <3>2, <3>4
  <2>7. down' \in Seq(AnswersTo(Meta \union {"d"}))
    BY <2>1 DEF Answers, Cmds
  <2>8. TypeOK'
    BY <1>c, <2>2, <2>3, <2>4, <2>5, <2>6, <2>7
       DEF TypeOK, hostVars, playVars, replyVars
  <2>9. QED
    BY <2>5, <2>8 DEF Books
<1>6. CASE Waited
  <2>1. UNCHANGED <<up, down, InFlight, InAcks>>
    BY <1>6, <1>k DEF Waited, netVars
  <2>2. TypeOK'
    BY <1>6, <2>1 DEF Waited, TypeOK, bookVars, netVars, playVars, replyVars
  <2>3. BooksInv'
    BY <1>6, BooksKept DEF Waited, bookVars, netVars, replyVars
  <2>4. QED
    BY <2>2, <2>3 DEF Books
<1>7. CASE PrepareAcked
  <2>1. /\ BeginIfDue /\ UNCHANGED <<status, unacked_points, ackbuf, replyVars>>
    BY <1>7 DEF PrepareAcked
  <2>2. /\ BooksInv' /\ up' \in Seq(DataSegments \union OtherSegments)
        /\ toAck' \in Nat /\ InAcks' \in Nat
        /\ toAck' + InAcks' = toAck + InAcks
        /\ pending_meta_acks' \in Nat /\ dc_begin_sent' \in BOOLEAN
        /\ UNCHANGED <<down, arrived, snd>>
    BY <2>1, Beginning
  <2>3. snd' = Len(down') - arrived' + toAck' + InAcks'
    <3>1. /\ snd' = snd /\ down' = down /\ arrived' = arrived
          /\ toAck' + InAcks' = toAck + InAcks
          /\ toAck' \in Nat /\ InAcks' \in Nat
      BY <2>2
    <3>2. Len(down') - arrived' = Len(down) - arrived
      BY <3>1
    <3>3. Len(down) - arrived + toAck + InAcks = Len(down) - arrived + (toAck + InAcks)
      BY <1>t, <1>s
    <3>4. Len(down') - arrived' + toAck' + InAcks'
            = Len(down') - arrived' + (toAck' + InAcks')
      BY <1>t, <1>s, <3>1
    <3>5. QED
      BY <1>s, <3>1, <3>2, <3>3, <3>4
  <2>4. TypeOK'
    BY <1>7, <2>2, <2>3 DEF TypeOK, PrepareAcked, playVars, replyVars
  <2>5. QED
    BY <2>2, <2>4 DEF Books
<1>8. CASE SendData
  <2>1. /\ SendAll(<<"q", "d">>, n) /\ pending_meta_acks' = pending_meta_acks + 1
        /\ ackbuf' = Append(ackbuf, n) /\ unacked_points' = unacked_points + n
        /\ n > 0 /\ n' = 0 /\ Advance
        /\ UNCHANGED <<status, dc_begin_sent, elapsed, playVars, replyVars>>
    BY <1>8 DEF SendData
  <2>2. UNCHANGED <<defer, lost, late>>
    BY <2>1 DEF replyVars
  <2>3. [cmds |-> <<"q", "d">>, n |-> n, acked |-> toAck] \in DataSegments
    BY <2>1, SentSegments
  <2>4. [cmds |-> <<"q", "d">>, n |-> n, acked |-> toAck] \in Segments
    BY <2>3 DEF Segments
  <2>5. /\ up' \in Seq(Segments) /\ InAcks' = InAcks + toAck
        /\ MetaComing' = MetaComing + 1 /\ DataComing' = DataComing + 1
    BY <2>1, <2>2, <2>3, <2>4, Sending
  <2>6. /\ toAck' = 0 /\ UNCHANGED <<down, arrived, snd>>
    BY <2>1 DEF SendAll
  <2>7. n \in 1 .. Chunk /\ n \in Nat
    BY <1>c, <2>1 DEF TypeOK
  <2>8. /\ ackbuf' \in Seq(1 .. Chunk) /\ Len(ackbuf') = Len(ackbuf) + 1
    <3>1. ackbuf \in Seq(1 .. Chunk)
      BY DEF TypeOK
    <3>2. QED
      BY <2>1, <2>7, <3>1, AppendProperties
  <2>9. Total(ackbuf') = Total(ackbuf) + n
    BY <1>u, <2>1, <2>7, TotalAppend
  <2>10. BooksInv'
    <3>1. pending_meta_acks \in Nat
      BY DEF TypeOK
    <3>2. QED
      BY <1>t, <2>1, <2>2, <2>5, <2>7, <2>8, <2>9, <3>1 DEF BooksInv
  <2>11. /\ pc' \in {"top", "idle"} /\ idx' \in Int
         /\ points' \in FrameSizes \union {0}
    <3>1. idx + n \in Int
      BY <2>7 DEF TypeOK
    <3>2. QED
      BY <2>1, <3>1 DEF Advance, TypeOK
  <2>12. snd' = Len(down') - arrived' + toAck' + InAcks'
    BY <1>t, <2>5, <2>6 DEF TypeOK
  <2>13. unacked_points' \in Int /\ pending_meta_acks' \in Nat
    BY <2>1, <2>7 DEF TypeOK
  <2>14. TypeOK'
    BY <1>c, <2>1, <2>5, <2>6, <2>8, <2>11, <2>12, <2>13
       DEF TypeOK, playVars, replyVars, Segments
  <2>15. QED
    BY <2>10, <2>14 DEF Books
<1>9. CASE SendNothing
  <2>1. UNCHANGED <<up, down, InFlight, InAcks>>
    BY <1>9, <1>k DEF SendNothing, netVars
  <2>2. /\ pc' \in {"top", "idle"} /\ idx' \in Int
        /\ points' \in FrameSizes \union {0}
    BY <1>9 DEF SendNothing, Advance, TypeOK
  <2>3. TypeOK'
    BY <1>9, <1>c, <2>1, <2>2
       DEF SendNothing, TypeOK, bookVars, netVars, playVars, replyVars
  <2>4. BooksInv'
    BY <1>9, BooksKept DEF SendNothing, bookVars, netVars, replyVars
  <2>5. QED
    BY <2>3, <2>4 DEF Books
<1>10. CASE Arrive
  <2>1. UNCHANGED <<up, down, InFlight, InAcks>>
    BY <1>10, <1>k DEF Arrive
  <2>2. TypeOK'
    BY <1>10, <1>t, <2>1
       DEF Arrive, TypeOK, hostVars, bookVars, playVars, replyVars
  <2>3. BooksInv'
    BY <1>10, BooksKept DEF Arrive, bookVars, replyVars
  <2>4. QED
    BY <2>2, <2>3 DEF Books
<1>11. CASE PureAck
  <2>1. UNCHANGED <<up, down, InFlight, InAcks>>
    BY <1>11, <1>k DEF PureAck
  <2>2. snd' \in 0 .. SndMax /\ toAck' = 0 /\ arrived' = arrived
        /\ snd' = Len(down) - arrived + 0 + InAcks
    BY <1>11, <1>c, <1>t DEF PureAck, TypeOK
  <2>3. TypeOK'
    BY <1>11, <2>1, <2>2 DEF PureAck, TypeOK, hostVars, bookVars, playVars, replyVars
  <2>4. BooksInv'
    BY <1>11, BooksKept DEF PureAck, bookVars, replyVars
  <2>5. QED
    BY <2>3, <2>4 DEF Books
<1>12. CASE Receive
  <2>1. /\ up' \in Seq(Segments) /\ up # <<>>
        /\ InAcks' = InAcks - RSeg.acked
        /\ down' \in Seq(Answers) /\ Len(down') = Len(down) + RNow + ROld
        /\ defer' \in Seq(Cmds) /\ Len(defer') = Least(Len(RKept), DeferMax)
        /\ DataComing' <= DataComing /\ MetaComing' <= MetaComing
        /\ ~lost' => DataComing' = DataComing /\ MetaComing' = MetaComing
        /\ DataComing' \in Nat /\ MetaComing' \in Nat
    BY <1>12, Receiving
  <2>2. /\ dac' = REnd.state /\ fullness' = REnd.full
        /\ snd' = snd - RSeg.acked + RNow + ROld
        /\ late' = (late \/ RNow < Len(RSeg.cmds))
        /\ lost' = (lost \/ Len(RKept) > DeferMax)
        /\ refused' = (refused
              \/ (RSeg.n > 0 /\ REnd.full # fullness + RSeg.n))
        /\ UNCHANGED <<hostVars, bookVars, elapsed, arrived, toAck, ready,
                       estops>>
    BY <1>12, Received
  <2>3. /\ REnd \in Statuses /\ RSeg.acked \in Nat /\ RRoom \in Nat
        /\ RNow \in 0 .. Len(RSeg.cmds) /\ ROld \in 0 .. Len(defer)
        /\ RNow + ROld <= RRoom /\ Len(RSeg.cmds) \in Nat
        /\ RSeg.acked <= InAcks /\ RKept \in Seq(Cmds)
    BY <2>1, ReceiveEnd, ReceiveBounds, ReceiveAnswers
  <2>4. dac' \in DacStates /\ fullness' \in 0 .. Capacity
    BY <2>2, <2>3 DEF Statuses
  <2>5. /\ snd' \in 0 .. SndMax /\ arrived' \in 0 .. Len(down')
        /\ snd' = Len(down') - arrived' + toAck' + InAcks'
    <3>1. /\ snd \in Nat /\ SndMax \in Nat /\ Len(defer) \in Nat
          /\ snd = Len(down) - arrived + toAck + InAcks
          /\ arrived \in 0 .. Len(down) /\ toAck \in Nat
      BY Types, <1>c
    <3>2. snd' <= SndMax
      BY <2>2, <2>3, <3>1 DEF RRoom
    <3>3. snd' >= 0
      <4>1. RNow \in Nat /\ ROld \in Nat /\ RSeg.acked \in Nat
        BY <2>3, <3>1
      <4>2. snd - RSeg.acked >= 0
        <5> DEFINE x == Len(down) - arrived + toAck
        <5>1. x \in Nat
          BY <1>t, <3>1
        <5>2. snd = x + InAcks
          BY <3>1, Zenon
        <5> HIDE DEF x
        <5>3. QED
          BY <1>t, <2>3, <4>1, <5>1, <5>2
      <4>3. snd' = snd - RSeg.acked + RNow + ROld
        BY <2>2
      <4>4. QED
        BY <3>1, <4>1, <4>2, <4>3
    <3>4. QED
      <4>1. RNow \in Nat /\ ROld \in Nat
        BY <2>3, <3>1
      <4>2. snd' \in 0 .. SndMax
        BY <2>2, <2>3, <3>1, <3>2, <3>3, <4>1
      <4>3. arrived' \in 0 .. Len(down')
        <5>1. arrived' = arrived /\ Len(down') = Len(down) + RNow + ROld
          BY <2>1, <2>2
        <5>2. QED
          BY <1>t, <1>s, <4>1, <5>1
      <4>4. snd' = Len(down') - arrived' + toAck' + InAcks'
        <5>1. /\ Len(down') = Len(down) + RNow + ROld
              /\ InAcks' = InAcks - RSeg.acked
          BY <2>1
        <5>2. /\ snd' = snd - RSeg.acked + RNow + ROld
              /\ arrived' = arrived /\ toAck' = toAck
          BY <2>2
        <5>3. RSeg.acked \in Nat
          BY <2>3
        <5> DEFINE x == Len(down) - arrived + toAck
        <5>4. x \in Int /\ snd = x + InAcks
          BY <1>s, <1>t
        <5>5. Len(down') - arrived' + toAck' = x + RNow + ROld
          BY <1>s, <1>t, <4>1, <5>1, <5>2
        <5> HIDE DEF x
        <5>6. x + RNow + ROld + InAcks' = x + RNow + ROld + InAcks - RSeg.acked
          BY <1>t, <4>1, <5>1, <5>3, <5>4
        <5>7. snd' = x + RNow + ROld + InAcks - RSeg.acked
          BY <1>t, <4>1, <5>2, <5>3, <5>4
        <5>8. QED
          BY <5>5, <5>6, <5>7, Zenon
      <4>5. QED
        BY <4>2, <4>3, <4>4
  <2>6. Len(defer') <= DeferMax
    <3>1. Len(RKept) \in Nat
      BY <2>3, LenProperties
    <3>2. QED
      BY <1>c, <2>1, <3>1 DEF Least
  <2>7. {late', lost', refused'} \subseteq BOOLEAN
    BY <2>2, Zenon
  <2>8. TypeOK'
    BY <2>1, <2>2, <2>4, <2>5, <2>6, <2>7
       DEF TypeOK, hostVars, bookVars, Answers, Cmds, Segments
  <2>9. lost' => late'
    <3>1. /\ lost => late
          /\ lost => DataComing' <= Len(ackbuf)
      BY <1>t, <2>1 DEF BooksInv
    <3>2. CASE Len(RKept) > DeferMax
      <4>1. CASE RNow < Len(RSeg.cmds)
        BY <2>2, <4>1, Zenon
      <4>2. CASE ~(RNow < Len(RSeg.cmds))
        <5>1. RKept = Drop(defer, ROld) \o Drop(RSeg.cmds, RNow)
          BY DEF RKept, Drop
        <5>2. RSeg.cmds \in Seq(Cmds) /\ defer \in Seq(Cmds) /\ Len(defer) \in Nat
          BY <2>1, ReceiveBounds, SegmentFields, Types
        <5>3. /\ Drop(defer, ROld) \in Seq(Cmds)
              /\ Len(Drop(defer, ROld)) = Len(defer) - ROld
              /\ Drop(RSeg.cmds, RNow) \in Seq(Cmds)
              /\ Len(Drop(RSeg.cmds, RNow)) = Len(RSeg.cmds) - RNow
          BY <2>3, <5>2, Dropped
        <5>4. Len(RKept) = (Len(defer) - ROld) + (Len(RSeg.cmds) - RNow)
          BY <5>1, <5>3, ConcatProperties
        <5>5. Len(RKept) <= Len(defer) /\ Len(defer) <= DeferMax
          <6>1. RNow = Len(RSeg.cmds) /\ ROld \in Nat
            BY <2>3, <4>2, <5>2
          <6>2. Len(RSeg.cmds) - RNow = 0
            BY <2>3, <6>1
          <6>3. Len(RKept) <= Len(defer)
            BY <5>2, <5>4, <6>1, <6>2
          <6>4. Len(defer) <= DeferMax
            BY Zenon DEF TypeOK
          <6>5. QED
            BY <6>3, <6>4
        <5>6. QED
          BY <1>c, <3>2, <5>2, <5>4, <5>5, <2>3
      <4>3. QED
        BY <4>1, <4>2
    <3>3. QED
      BY <2>2, <3>1, <3>2, Zenon
  <2>10. ~lost' => ~lost
    BY <2>2, Zenon
  <2>11. UNCHANGED <<unacked_points, ackbuf, pending_meta_acks>>
    BY <2>2 DEF bookVars
  <2>12. BooksInv'
    <3>1. pending_meta_acks \in Nat
      BY DEF TypeOK
    <3>2. /\ Len(ackbuf) >= DataComing' /\ pending_meta_acks >= MetaComing'
          /\ unacked_points = Total(ackbuf)
      BY <1>t, <2>1, <3>1 DEF BooksInv
    <3>3. ~lost' => Len(ackbuf) = DataComing' /\ pending_meta_acks = MetaComing'
      BY <2>1, <2>10, Zenon DEF BooksInv
    <3>4. QED
      BY <2>9, <2>11, <3>2, <3>3, Zenon DEF BooksInv
  <2>13. QED
    BY <2>8, <2>12 DEF Books
<1>13. CASE Tick
  <2>1. UNCHANGED <<up, down, InFlight, InAcks>>
    BY <1>13, <1>k DEF Tick, netVars
  <2>2. dac' \in DacStates
    BY <1>13 DEF Tick, TypeOK, DacStates
  <2>3. elapsed' \in 0 .. MaxDelay /\ fullness' \in 0 .. Capacity
    BY <1>13, <1>c DEF Tick, TypeOK, Least
  <2>4. TypeOK'
    BY <1>13, <2>1, <2>2, <2>3
       DEF Tick, TypeOK, hostVars, bookVars, netVars, replyVars
  <2>5. BooksInv'
    BY <1>13, BooksKept DEF Tick, bookVars, netVars, replyVars
  <2>6. QED
    BY <2>4, <2>5 DEF Books
<1>14. CASE Estop \/ EstopClear
  <2>a. dac' \in DacStates /\ ready' \in BOOLEAN /\ estops' \in Nat
        /\ fullness' = fullness
    <3>1. CASE Estop
      <4>1. dac' = "IDLE" /\ ready' = FALSE /\ estops' = estops + 1
            /\ fullness' = fullness /\ estops \in Nat
        BY <3>1 DEF Estop, TypeOK
      <4>2. dac' \in DacStates /\ ready' \in BOOLEAN
        BY <4>1, Zenon DEF DacStates
      <4>3. QED
        BY <4>1, <4>2
    <3>2. CASE EstopClear
      BY <3>2 DEF EstopClear, TypeOK, DacStates
    <3>3. QED
      BY <1>14, <3>1, <3>2
  <2>b. UNCHANGED <<hostVars, bookVars, elapsed, netVars, replyVars>>
    BY <1>14, Zenon DEF Estop, EstopClear
  <2>1. UNCHANGED <<up, down, InFlight, InAcks>>
    BY <1>14, <1>k DEF Estop, EstopClear, netVars
  <2>2. TypeOK'
    BY <2>1, <2>a, <2>b DEF TypeOK, hostVars, bookVars, netVars, replyVars
  <2>3. BooksInv'
    BY <1>14, BooksKept DEF Estop, EstopClear, bookVars, netVars, replyVars
  <2>4. QED
    BY <2>2, <2>3 DEF Books
<1>15. CASE UNCHANGED vars
  <2>1. UNCHANGED <<up, down, InFlight, InAcks>>
    BY <1>15, <1>k DEF vars, netVars
  <2>2. TypeOK'
    BY <1>15, <2>1 DEF TypeOK, vars, hostVars, bookVars, netVars, playVars, replyVars
  <2>3. BooksInv'
    BY <1>15, BooksKept DEF vars, bookVars, netVars, replyVars
  <2>4. QED
    BY <2>2, <2>3 DEF Books
<1>16. QED
  BY <1>1, <1>2, <1>3, <1>4, <1>5, <1>6, <1>7, <1>8, <1>9, <1>10, <1>11, <1>12,
     <1>13, <1>14, <1>15 DEF Next, Worker

-----------------------------------------------------------------------------
(* The data commands under way are the last ones in the books.             *)

Flying == Count(up, DataSegments)

LEMMA CountFrom ==
  ASSUME NEW S, NEW u \in Seq(S), NEW i \in 1 .. Len(u), NEW K
  PROVE  /\ Drop(u, i - 1) \in Seq(S)
         /\ Count(Drop(u, i - 1), K) \in 0 .. Count(u, K)
         /\ u[i] \in K => Count(Drop(u, i - 1), K) >= 1
<1>1. Len(u) \in Nat /\ i - 1 \in 0 .. Len(u)
  BY LenProperties
<1>2. /\ Drop(u, i - 1) \in Seq(S) /\ Len(Drop(u, i - 1)) = Len(u) - (i - 1)
      /\ \A j \in 1 .. Len(u) - (i - 1) : Drop(u, i - 1)[j] = u[j + (i - 1)]
  BY <1>1, Dropped
<1>3. /\ Count(SubSeq(u, 1, i - 1), K) \in 0 .. Count(u, K)
      /\ Count(u, K) = Count(SubSeq(u, 1, i - 1), K) + Count(Drop(u, i - 1), K)
      /\ Count(u, K) \in 0 .. Len(u)
  BY <1>1, CountTaken, CountSplit, CountRange
<1> DEFINE d == Drop(u, i - 1)
<1>a. d \in Seq(S) /\ Len(d) = Len(u) - (i - 1) /\ d[1] = u[i]
  <2>1. 1 \in 1 .. Len(u) - (i - 1) /\ 1 + (i - 1) = i
    BY <1>1
  <2>2. QED
    BY <1>2, <2>1
<1> HIDE DEF d
<1>b. d # <<>>
  BY <1>1, <1>a
<1>4. Count(d, K) \in 0 .. Len(d) /\ Len(d) \in Nat
  BY <1>a, CountRange, LenProperties
<1>5. u[i] \in K => Count(d, K) >= 1
  <2>1. Count(d, K) = (IF d[1] \in K THEN 1 ELSE 0) + Count(Tail(d), K)
    BY <1>a, <1>b, CountTail
  <2>2. Tail(d) \in Seq(S) /\ Len(Tail(d)) \in Nat
    BY <1>a, <1>b, HeadAndTail, LenProperties
  <2>3. Count(Tail(d), K) \in 0 .. Len(Tail(d))
    BY <2>2, CountRange
  <2>4. QED
    BY <1>a, <2>1, <2>2, <2>3
<1>6. Count(d, K) \in 0 .. Count(u, K)
  BY <1>1, <1>3, <1>4 DEF d
<1>7. QED
  BY <1>a, <1>5, <1>6 DEF d

LEMMA FlyingBounds ==
  ASSUME Books
  PROVE  /\ Flying \in 0 .. Len(ackbuf) /\ Flying <= DataComing
         /\ Len(ackbuf) \in Nat /\ up \in Seq(Segments)
         /\ Count(down, AnswersTo({"d"})) \in Nat
         /\ Count(down, AnswersTo({"d"})) + Flying <= Len(ackbuf)
         /\ Count(down, AnswersTo({"d"})) <= DataComing - Flying
<1>1. TypeOK /\ Len(ackbuf) >= DataComing
  BY DEF Books, BooksInv
<1>2. /\ up \in Seq(Segments) /\ Len(ackbuf) \in Nat /\ Len(up) \in Nat
      /\ Len(down) \in Nat /\ Len(defer) \in Nat
  BY <1>1, Types
<1>3. /\ Count(down, AnswersTo({"d"})) \in 0 .. Len(down)
      /\ Count(defer, {"d"}) \in 0 .. Len(defer)
      /\ Flying \in 0 .. Len(up)
  BY <1>1, Types DEF Flying
<1>4. DataComing = Count(down, AnswersTo({"d"})) + Count(defer, {"d"}) + Flying
  BY DEF DataComing, Flying
<1> DEFINE a == Count(down, AnswersTo({"d"}))
           b == Count(defer, {"d"})
<1>5. a \in Nat /\ b \in Nat /\ Flying \in Nat
  BY <1>2, <1>3
<1>6. a + b + Flying <= Len(ackbuf)
  BY <1>1, <1>4
<1> HIDE DEF a, b
<1>7. /\ Flying \in 0 .. Len(ackbuf) /\ Flying <= a + b + Flying
      /\ a + Flying <= Len(ackbuf) /\ a <= a + b + Flying - Flying
  BY <1>2, <1>5, <1>6
<1>8. QED
  BY <1>2, <1>4, <1>5, <1>7 DEF a, b

LEMMA FlightInit == Init => FlightInv
<1> SUFFICES ASSUME Init PROVE FlightInv
  OBVIOUS
<1>1. up = <<>> /\ ackbuf = <<>>
  BY DEF Init
<1>2. /\ Count(<<>>, DataSegments) = 0 /\ Total(<<>>) = 0
  BY CountOne, TotalOne, 0 \in Nat
<1>3. [i \in DOMAIN up |-> up[i].n] = <<>>
  BY <1>1
<1>4. Drop(ackbuf, Len(ackbuf) - Count(up, DataSegments)) = <<>>
  <2>1. Drop(<<>>, 0) = <<>>
    <3>1. <<>> \in Seq({}) /\ Len(<<>>) = 0
      BY EmptySeq
    <3>2. Drop(<<>>, Len(<<>>)) = <<>>
      BY <3>1, DropAll
    <3>3. QED
      BY <3>1, <3>2
  <2>2. Len(ackbuf) - Count(up, DataSegments) = 0
    BY <1>1, <1>2
  <2>3. QED
    BY <1>1, <2>1, <2>2
<1>5. InFlight = Total(Drop(ackbuf, Len(ackbuf) - Count(up, DataSegments)))
  BY <1>3, <1>4, Zenon DEF InFlight
<1>6. \A i \in DOMAIN up : FALSE
  BY <1>1
<1>7. QED
  BY <1>5, <1>6, Zenon DEF FlightInv

LEMMA FlightKept ==
  ASSUME FlightInv, UNCHANGED <<up, ackbuf>>
  PROVE  FlightInv'
BY DEF FlightInv, InFlight

LEMMA FlightOther ==
  ASSUME Books, FlightInv, ackbuf' = ackbuf,
         NEW x \in Segments \ DataSegments, up' = Append(up, x),
         InFlight' = InFlight
  PROVE  FlightInv'
<1>1. up \in Seq(Segments) /\ Len(up) \in Nat /\ x \in Segments
  BY FlyingBounds, LenProperties
<1>2. Count(up', DataSegments) = Count(up, DataSegments)
  <2>1. Count(up', DataSegments) = Count(up, DataSegments) + 0
    BY <1>1, CountAppend
  <2>2. Count(up, DataSegments) \in 0 .. Len(up)
    BY <1>1, CountRange
  <2>3. QED
    BY <2>1, <2>2
<1>3. InFlight' = Total(Drop(ackbuf', Len(ackbuf') - Count(up', DataSegments)))
  BY <1>2 DEF FlightInv
<1>4. ASSUME NEW i \in DOMAIN up', up'[i] \in DataSegments
      PROVE  up'[i].n = ackbuf'[Len(ackbuf') + 1
                                 - Count(Drop(up', i - 1), DataSegments)]
  <2>1. /\ up' \in Seq(Segments) /\ Len(up') = Len(up) + 1
        /\ \A j \in 1 .. Len(up) : up'[j] = up[j]
        /\ up'[Len(up) + 1] = x
    BY <1>1, AppendProperties
  <2>2. i \in 1 .. Len(up) + 1
    BY <1>4, <2>1, LenProperties
  <2>3. i # Len(up) + 1
    BY <1>4, <2>1
  <2>4. i \in 1 .. Len(up) /\ i - 1 \in 0 .. Len(up)
    BY <1>1, <2>2, <2>3
  <2>5. Drop(up', i - 1) = Append(Drop(up, i - 1), x)
    BY <1>1, <2>4, DropAppend
  <2>6. Drop(up, i - 1) \in Seq(Segments)
    BY <1>1, <2>4, Dropped
  <2>7. Count(Drop(up', i - 1), DataSegments)
          = Count(Drop(up, i - 1), DataSegments)
    <3>1. Count(Drop(up', i - 1), DataSegments)
            = Count(Drop(up, i - 1), DataSegments) + 0
      <4>1. Count(Append(Drop(up, i - 1), x), DataSegments)
              = Count(Drop(up, i - 1), DataSegments) + 0
        BY <1>1, <2>6, CountAppend
      <4>2. QED
        BY <2>5, <4>1, Zenon
    <3>2. Count(Drop(up, i - 1), DataSegments) \in 0 .. Count(up, DataSegments)
      BY <1>1, <2>4, CountFrom
    <3>3. QED
      BY <3>1, <3>2
  <2>8. up'[i] = up[i] /\ i \in DOMAIN up
    BY <1>1, <2>1, <2>4, LenProperties
  <2>9. up[i].n = ackbuf[Len(ackbuf) + 1 - Count(Drop(up, i - 1), DataSegments)]
    BY <1>4, <2>8 DEF FlightInv
  <2>10. QED
    BY <2>7, <2>8, <2>9
<1>5. QED
  BY <1>3, <1>4 DEF FlightInv

LEMMA FlightData ==
  ASSUME Books, FlightInv, NEW x \in DataSegments, up' = Append(up, x),
         InFlight' = InFlight + x.n, ackbuf' = Append(ackbuf, x.n)
  PROVE  FlightInv'
<1>1. /\ up \in Seq(Segments) /\ Len(up) \in Nat /\ x \in Segments
      /\ Flying \in 0 .. Len(ackbuf) /\ Len(ackbuf) \in Nat
  BY FlyingBounds, LenProperties DEF Segments
<1>2. x.n \in Nat /\ ackbuf \in Seq(Nat)
  BY <1>1, SegmentFields, Types DEF Books
<1>3. Count(up', DataSegments) = Flying + 1
  BY <1>1, CountAppend DEF Flying
<1>4. /\ Len(ackbuf') = Len(ackbuf) + 1
      /\ \A j \in 1 .. Len(ackbuf) : ackbuf'[j] = ackbuf[j]
      /\ ackbuf'[Len(ackbuf) + 1] = x.n
  BY <1>2, AppendProperties
<1>5. InFlight' = Total(Drop(ackbuf', Len(ackbuf') - Count(up', DataSegments)))
  <2> DEFINE k == Len(ackbuf) - Flying
  <2>1. k \in 0 .. Len(ackbuf) /\ Len(ackbuf') - Count(up', DataSegments) = k
    BY <1>1, <1>3, <1>4
  <2>2. InFlight = Total(Drop(ackbuf, k))
    BY DEF FlightInv, Flying
  <2>3. Drop(ackbuf, k) \in Seq(Nat)
    BY <1>2, <2>1, Dropped
  <2> HIDE DEF k
  <2>4. Drop(ackbuf', k) = Append(Drop(ackbuf, k), x.n)
    BY <1>2, <2>1, DropAppend
  <2>5. Total(Drop(ackbuf', k)) = Total(Drop(ackbuf, k)) + x.n
    BY <1>2, <2>3, <2>4, TotalAppend
  <2>6. QED
    BY <2>1, <2>2, <2>5
<1>6. ASSUME NEW i \in DOMAIN up', up'[i] \in DataSegments
      PROVE  up'[i].n = ackbuf'[Len(ackbuf') + 1
                                 - Count(Drop(up', i - 1), DataSegments)]
  <2>1. /\ up' \in Seq(Segments) /\ Len(up') = Len(up) + 1
        /\ \A j \in 1 .. Len(up) : up'[j] = up[j]
        /\ up'[Len(up) + 1] = x
    BY <1>1, AppendProperties
  <2>2. i \in 1 .. Len(up) + 1 /\ i - 1 \in 0 .. Len(up)
    <3>1. i \in 1 .. Len(up) + 1
      BY <1>6, <2>1, LenProperties
    <3>2. QED
      BY <1>1, <3>1
  <2>3. Drop(up', i - 1) = Append(Drop(up, i - 1), x)
    BY <1>1, <2>2, DropAppend
  <2>4. Drop(up, i - 1) \in Seq(Segments)
    BY <1>1, <2>2, Dropped
  <2>5. Count(Drop(up', i - 1), DataSegments)
          = Count(Drop(up, i - 1), DataSegments) + 1
    <3>1. Count(Append(Drop(up, i - 1), x), DataSegments)
            = Count(Drop(up, i - 1), DataSegments) + 1
      BY <1>1, <2>4, CountAppend
    <3>2. QED
      BY <2>3, <3>1, Zenon
  <2>6. CASE i = Len(up) + 1
    <3>1. Drop(up, i - 1) = <<>>
      BY <1>1, <2>6, DropAll
    <3>2. Count(Drop(up', i - 1), DataSegments) = 0 + 1
      BY <2>5, <3>1, CountOne
    <3>3. Len(ackbuf') + 1 - Count(Drop(up', i - 1), DataSegments)
            = Len(ackbuf) + 1
      BY <1>1, <1>4, <3>2
    <3>4. QED
      BY <1>4, <2>1, <2>6, <3>3
  <2>7. CASE i # Len(up) + 1
    <3>1. i \in 1 .. Len(up)
      BY <1>1, <2>2, <2>7
    <3>2. up'[i] = up[i] /\ i \in DOMAIN up
      BY <1>1, <2>1, <3>1, LenProperties
    <3> DEFINE c == Count(Drop(up, i - 1), DataSegments)
    <3>3. c \in 0 .. Flying /\ c >= 1
      BY <1>1, <1>6, <3>1, <3>2, CountFrom DEF Flying
    <3>4. up[i].n = ackbuf[Len(ackbuf) + 1 - c]
      BY <1>6, <3>2 DEF FlightInv
    <3> HIDE DEF c
    <3>5. /\ Len(ackbuf) + 1 - c \in 1 .. Len(ackbuf)
          /\ Len(ackbuf') + 1 - (c + 1) = Len(ackbuf) + 1 - c
      BY <1>1, <1>4, <3>3
    <3>6. up'[i].n = ackbuf'[Len(ackbuf') + 1 - (c + 1)]
      BY <1>4, <3>2, <3>4, <3>5
    <3>7. QED
      BY <2>5, <3>6 DEF c
  <2>8. QED
    BY <2>6, <2>7
<1>7. QED
  BY <1>5, <1>6 DEF FlightInv

LEMMA FlightRead ==
  ASSUME Books, FlightInv, ReadAnswer
  PROVE  FlightInv'
<1>0. TypeOK
  BY DEF Books
<1>1. /\ down' = Tail(down) /\ up' = up /\ check_data_response(down[1])
      /\ down[1] \in Answers /\ down # <<>> /\ InFlight' = InFlight
      /\ Tail(down) \in Seq(Answers)
  BY <1>0, Reading
<1>2. CASE down[1].cmd # "d"
  <2>1. UNCHANGED <<up, ackbuf>>
    BY <1>1, <1>2 DEF check_data_response
  <2>2. QED
    BY <2>1, FlightKept
<1>3. CASE down[1].cmd = "d"
  <2>1. ackbuf # <<>> /\ ackbuf' = Tail(ackbuf) /\ ackbuf \in Seq(Nat)
    BY <1>0, <1>1, <1>3, Types DEF check_data_response
  <2>2. /\ Len(ackbuf) \in Nat \ {0} /\ Len(ackbuf') = Len(ackbuf) - 1
        /\ \A j \in 1 .. Len(ackbuf) - 1 : ackbuf'[j] = ackbuf[j + 1]
    BY <2>1, HeadAndTail
  <2>3. Flying \in 0 .. Len(ackbuf) - 1
    <3>1. down[1] \in AnswersTo({"d"}) /\ down \in Seq(Answers)
      BY <1>0, <1>1, <1>3, Members, Types
    <3>2. Count(down, AnswersTo({"d"})) = 1 + Count(Tail(down), AnswersTo({"d"}))
      BY <1>1, <3>1, CountTail
    <3>3. Count(Tail(down), AnswersTo({"d"})) \in 0 .. Len(Tail(down))
      BY <1>1, CountRange
    <3>4. /\ Count(down, AnswersTo({"d"})) + Flying <= Len(ackbuf)
          /\ Flying \in 0 .. Len(ackbuf) /\ Len(Tail(down)) \in Nat
      BY <1>1, FlyingBounds, LenProperties
    <3>5. QED
      BY <2>2, <3>2, <3>3, <3>4
  <2>4. InFlight' = Total(Drop(ackbuf', Len(ackbuf') - Count(up', DataSegments)))
    <3> DEFINE k == Len(ackbuf') - Flying
    <3>1. /\ k \in Nat /\ k < Len(ackbuf) /\ k + 1 = Len(ackbuf) - Flying
          /\ Len(ackbuf') - Count(up', DataSegments) = k
      BY <1>1, <2>2, <2>3 DEF Flying
    <3>2. InFlight = Total(Drop(ackbuf, Len(ackbuf) - Flying))
      BY DEF FlightInv, Flying
    <3> HIDE DEF k
    <3>3. Drop(ackbuf', k) = Drop(ackbuf, k + 1)
      BY <2>1, <3>1, DropTail
    <3>4. QED
      BY <1>1, <3>1, <3>2, <3>3
  <2>5. ASSUME NEW i \in DOMAIN up', up'[i] \in DataSegments
        PROVE  up'[i].n = ackbuf'[Len(ackbuf') + 1
                                   - Count(Drop(up', i - 1), DataSegments)]
    <3> DEFINE c == Count(Drop(up, i - 1), DataSegments)
    <3>1. up \in Seq(Segments) /\ i \in 1 .. Len(up) /\ i \in DOMAIN up
      BY <1>0, <1>1, <2>5, Types, LenProperties
    <3>2. c \in 0 .. Flying /\ c >= 1
      BY <1>1, <2>5, <3>1, CountFrom DEF Flying
    <3>3. up[i].n = ackbuf[Len(ackbuf) + 1 - c]
      BY <1>1, <2>5, <3>1 DEF FlightInv
    <3>a. Count(Drop(up', i - 1), DataSegments) = c
      BY <1>1
    <3> HIDE DEF c
    <3>4. /\ Len(ackbuf) + 1 - c = (Len(ackbuf') + 1 - c) + 1
          /\ Len(ackbuf') + 1 - c \in 1 .. Len(ackbuf) - 1
      BY <2>2, <2>3, <3>2
    <3>5. up[i].n = ackbuf'[Len(ackbuf') + 1 - c]
      BY <2>2, <3>3, <3>4
    <3>6. QED
      BY <1>1, <3>5, <3>a
  <2>6. QED
    BY <2>4, <2>5 DEF FlightInv
<1>4. QED
  BY <1>2, <1>3

LEMMA FlightReceive ==
  ASSUME Books, FlightInv, Receive
  PROVE  FlightInv'
<1>0. TypeOK
  BY DEF Books
<1>1. /\ up # <<>> /\ RSeg = up[1] /\ RSeg \in Segments /\ up' = Tail(up)
      /\ InFlight' = InFlight - RSeg.n /\ up \in Seq(Segments)
      /\ Count(up', DataSegments)
           = Flying - (IF RSeg \in DataSegments THEN 1 ELSE 0)
      /\ ackbuf' = ackbuf
  BY <1>0, Receiving, Received, Types DEF bookVars, Flying
<1>2. /\ Len(up) \in Nat \ {0} /\ Tail(up) \in Seq(Segments)
      /\ Len(Tail(up)) = Len(up) - 1
      /\ \A i \in 1 .. Len(up) - 1 : Tail(up)[i] = up[i + 1]
  BY <1>1, HeadAndTail
<1>3. ackbuf \in Seq(Nat) /\ Len(ackbuf) \in Nat /\ Flying \in 0 .. Len(ackbuf)
  BY <1>0, Types, FlyingBounds
<1>4. InFlight' = Total(Drop(ackbuf', Len(ackbuf') - Count(up', DataSegments)))
  <2> DEFINE k == Len(ackbuf) - Flying
  <2>1. InFlight = Total(Drop(ackbuf, k)) /\ k \in 0 .. Len(ackbuf)
    BY <1>3 DEF FlightInv, Flying
  <2>2. CASE RSeg \notin DataSegments
    <3>1. RSeg.n = 0 /\ Count(up', DataSegments) = Flying - 0
      BY <1>1, <2>2, SegmentFields
    <3>2. Len(ackbuf') - Count(up', DataSegments) = k
      BY <1>1, <1>3, <3>1
    <3>3. InFlight \in Nat
      BY <1>0, Types
    <3>4. InFlight' = InFlight
      BY <1>1, <3>1, <3>3
    <3>5. QED
      BY <1>1, <2>1, <3>2, <3>4, Zenon
  <2>3. CASE RSeg \in DataSegments
    <3>1. Count(up', DataSegments) = Flying - 1
      BY <1>1, <2>3
    <3>a. Flying >= 1
      <4>1. Count(up', DataSegments) \in 0 .. Len(up')
        BY <1>1, <1>2, CountRange
      <4>2. QED
        BY <1>1, <1>2, <1>3, <3>1, <4>1
    <3>2. RSeg.n = ackbuf[k + 1]
      <4>1. Drop(up, 0) = up
        BY <1>1, DropAll
      <4>2. 1 \in DOMAIN up
        BY <1>1, <1>2, LenProperties
      <4>3. up[1].n = ackbuf[Len(ackbuf) + 1 - Count(Drop(up, 1 - 1), DataSegments)]
        BY <1>1, <2>3, <4>2 DEF FlightInv
      <4>4. Len(ackbuf) + 1 - Count(Drop(up, 1 - 1), DataSegments) = k + 1
        <5>1. Drop(up, 1 - 1) = up
          BY <4>1
        <5>2. Len(ackbuf) + 1 - Flying = k + 1
          BY <1>3
        <5>3. QED
          BY <5>1, <5>2, Zenon DEF Flying
      <4>5. QED
        BY <1>1, <4>3, <4>4
    <3>3. k + 1 \in 1 .. Len(ackbuf) /\ k \in Nat
          /\ Len(ackbuf') - Count(up', DataSegments) = k + 1
      BY <1>1, <1>3, <3>1, <3>a
    <3> HIDE DEF k
    <3>4. Drop(ackbuf, k) \in Seq(Nat) /\ Len(Drop(ackbuf, k)) = Len(ackbuf) - k
          /\ Drop(ackbuf, k)[1] = ackbuf[k + 1]
      <4>1. /\ Drop(ackbuf, k) \in Seq(Nat)
            /\ Len(Drop(ackbuf, k)) = Len(ackbuf) - k
            /\ \A i \in 1 .. Len(ackbuf) - k : Drop(ackbuf, k)[i] = ackbuf[i + k]
        BY <1>3, <2>1, Dropped
      <4>2. 1 \in 1 .. Len(ackbuf) - k /\ 1 + k = k + 1
        BY <1>3, <3>3
      <4>3. QED
        BY <4>1, <4>2
    <3> DEFINE d == Drop(ackbuf, k)
    <3>5. d \in Seq(Nat) /\ Len(d) = Len(ackbuf) - k /\ d[1] = ackbuf[k + 1]
      BY <3>4
    <3>6. Tail(d) = Drop(ackbuf, k + 1)
      <4>1. d # <<>>
        <5>1. Len(d) > 0
          BY <1>3, <3>3, <3>5
        <5>2. QED
          BY <5>1
      <4>2. /\ Tail(d) \in Seq(Nat) /\ Len(Tail(d)) = Len(d) - 1
            /\ \A i \in 1 .. Len(d) - 1 : Tail(d)[i] = d[i + 1]
        BY <3>5, <4>1, HeadAndTail
      <4>3. /\ Drop(ackbuf, k + 1) \in Seq(Nat)
            /\ Len(Drop(ackbuf, k + 1)) = Len(ackbuf) - (k + 1)
            /\ \A i \in 1 .. Len(ackbuf) - (k + 1) :
                 Drop(ackbuf, k + 1)[i] = ackbuf[i + (k + 1)]
        BY <1>3, <3>3, Dropped
      <4>4. \A i \in 1 .. Len(ackbuf) - k : d[i] = ackbuf[i + k]
        BY <1>3, <2>1, Dropped
      <4> HIDE DEF d
      <4>5. Len(Tail(d)) = Len(Drop(ackbuf, k + 1))
        BY <1>3, <3>3, <3>5, <4>2, <4>3
      <4>6. ASSUME NEW i \in 1 .. Len(Tail(d))
            PROVE  Tail(d)[i] = Drop(ackbuf, k + 1)[i]
        <5>1. /\ i \in 1 .. Len(d) - 1 /\ i + 1 \in 1 .. Len(ackbuf) - k
              /\ i \in 1 .. Len(ackbuf) - (k + 1) /\ (i + 1) + k = i + (k + 1)
          <6>1. Len(d) = Len(ackbuf) - k /\ Len(Tail(d)) = Len(d) - 1
            BY <3>5, <4>2
          <6>2. Len(Tail(d)) = Len(ackbuf) - (k + 1)
            BY <1>3, <3>3, <6>1
          <6>3. i \in 1 .. Len(ackbuf) - (k + 1)
            BY <6>2
          <6>4. i \in 1 .. Len(d) - 1
            BY <6>1
          <6>5. i + 1 \in 1 .. Len(ackbuf) - k /\ (i + 1) + k = i + (k + 1)
            BY <1>3, <3>3, <6>3
          <6>6. QED
            BY <6>3, <6>4, <6>5
        <5>2. d[i + 1] = ackbuf[(i + 1) + k]
          BY <4>4, <5>1
        <5>3. QED
          BY <4>2, <4>3, <5>1, <5>2
      <4>7. QED
        BY <4>2, <4>3, <4>5, <4>6, SeqEqual
    <3>7. Total(d) = d[1] + Total(Tail(d))
      <4>1. d # <<>>
        <5>1. Len(d) > 0
          BY <1>3, <3>3, <3>5
        <5>2. QED
          BY <5>1
      <4> HIDE DEF d
      <4>2. QED
        BY <3>5, <4>1, TotalTail
    <3>8. Total(Tail(d)) \in Nat /\ d[1] \in Nat
      <4>1. Drop(ackbuf, k + 1) \in Seq(Nat)
        BY <1>3, <3>3, Dropped
      <4>2. Total(Drop(ackbuf, k + 1)) \in Nat
        BY <4>1, TotalType
      <4>3. ackbuf[k + 1] \in Nat
        BY <1>3, <3>3, ElementOfSeq
      <4> HIDE DEF d
      <4>4. QED
        BY <3>5, <3>6, <4>2, <4>3
    <3>9. InFlight' = Total(Tail(d))
      <4>1. InFlight = Total(d)
        BY <2>1
      <4> HIDE DEF d
      <4>2. InFlight' = Total(d) - d[1]
        BY <1>1, <3>2, <3>5, <4>1
      <4>3. QED
        BY <3>7, <3>8, <4>2
    <3>10. QED
      BY <1>1, <3>3, <3>6, <3>9, Zenon
  <2>4. QED
    BY <2>2, <2>3
<1>5. ASSUME NEW i \in DOMAIN up', up'[i] \in DataSegments
      PROVE  up'[i].n = ackbuf'[Len(ackbuf') + 1
                                 - Count(Drop(up', i - 1), DataSegments)]
  <2>1. i \in 1 .. Len(up) - 1 /\ up'[i] = up[i + 1]
    BY <1>1, <1>2, <1>5, LenProperties
  <2>2. i + 1 \in DOMAIN up /\ i - 1 \in Nat /\ i - 1 < Len(up)
        /\ (i - 1) + 1 = (i + 1) - 1
    BY <1>1, <1>2, <2>1, LenProperties
  <2>3. Drop(Tail(up), i - 1) = Drop(up, (i - 1) + 1)
    BY <1>1, <2>2, DropTail
  <2>4. up[i + 1].n = ackbuf[Len(ackbuf) + 1
                              - Count(Drop(up, (i + 1) - 1), DataSegments)]
    BY <1>5, <2>1, <2>2 DEF FlightInv
  <2>5. Drop(up', i - 1) = Drop(up, (i + 1) - 1)
    BY <1>1, <2>2, <2>3, Zenon
  <2>6. QED
    BY <1>1, <2>1, <2>4, <2>5, Zenon
<1>6. QED
  BY <1>4, <1>5 DEF FlightInv

(* BeginIfDue sends no data command.                                       *)
LEMMA FlightBegin ==
  ASSUME Books, FlightInv, BeginIfDue, UNCHANGED <<ackbuf, defer>>
  PROVE  FlightInv' /\ InFlight' = InFlight
<1>0. TypeOK
  BY DEF Books
<1>1. CASE SendAll(<<"b">>, 0)
  <2> DEFINE x == [cmds |-> <<"b">>, n |-> 0, acked |-> toAck]
  <2>1. x \in Segments \ DataSegments
    BY <1>0, SentSegments
  <2>2. up' = Append(up, x) /\ InFlight' = InFlight + 0
    BY <1>0, <1>1, <2>1, Sending
  <2>3. InFlight \in Nat
    BY <1>0, Types
  <2> HIDE DEF x
  <2>4. InFlight' = InFlight
    BY <2>2, <2>3
  <2>5. QED
    BY <2>1, <2>2, <2>4, FlightOther
<1>2. CASE UNCHANGED netVars
  <2>1. UNCHANGED <<up, ackbuf>> /\ InFlight' = InFlight
    BY <1>2 DEF netVars, InFlight
  <2>2. QED
    BY <2>1, FlightKept
<1>3. QED
  BY <1>1, <1>2 DEF BeginIfDue

LEMMA FlightStep == Books /\ FlightInv /\ [Next]_vars => FlightInv'
<1> SUFFICES ASSUME Books, FlightInv, [Next]_vars PROVE FlightInv'
  OBVIOUS
<1>0. TypeOK
  BY DEF Books
<1>1. CASE WriteFrame \/ EstimateFull \/ Waited \/ SendNothing \/ Arrive
           \/ PureAck \/ Tick \/ Estop \/ EstopClear \/ UNCHANGED vars
  <2>1. UNCHANGED <<up, ackbuf>>
    BY <1>1, Zenon DEF WriteFrame, EstimateFull, Waited, SendNothing, Arrive, PureAck,
                Tick, Estop, EstopClear, vars, bookVars, netVars
  <2>2. QED
    BY <2>1, FlightKept
<1>2. CASE EstimateIdle
  <2> DEFINE x == [cmds |-> <<"p">>, n |-> 0, acked |-> toAck]
  <2>1. SendAll(<<"p">>, 0) /\ UNCHANGED <<defer, ackbuf>>
    BY <1>2 DEF EstimateIdle, Estimated, replyVars
  <2>2. x \in Segments \ DataSegments
    BY <1>0, SentSegments
  <2>3. up' = Append(up, x) /\ InFlight' = InFlight + 0
    BY <1>0, <2>1, <2>2, Sending
  <2>4. InFlight \in Nat
    BY <1>0, Types
  <2> HIDE DEF x
  <2>5. InFlight' = InFlight
    BY <2>3, <2>4
  <2>6. QED
    BY <2>1, <2>2, <2>3, <2>5, FlightOther
<1>3. CASE Estimate \/ PrepareAcked
  <2>1. BeginIfDue /\ UNCHANGED <<ackbuf, defer>>
    BY <1>3 DEF Estimate, Estimated, PrepareAcked, replyVars
  <2>2. QED
    BY <2>1, FlightBegin
<1>4. CASE SendData
  <2> DEFINE x == [cmds |-> <<"q", "d">>, n |-> n, acked |-> toAck]
  <2>1. /\ SendAll(<<"q", "d">>, n) /\ ackbuf' = Append(ackbuf, n) /\ n > 0
        /\ UNCHANGED defer
    BY <1>4 DEF SendData, replyVars
  <2>2. x \in DataSegments /\ x.n = n
    BY <1>0, <2>1, SentSegments
  <2>3. x \in Segments
    BY <2>2 DEF Segments
  <2>4. up' = Append(up, x) /\ InFlight' = InFlight + n
    BY <1>0, <2>1, <2>3, Sending
  <2> HIDE DEF x
  <2>5. QED
    BY <2>1, <2>2, <2>4, FlightData
<1>5. CASE ReadAnswer
  BY <1>5, FlightRead
<1>6. CASE Receive
  BY <1>6, FlightReceive
<1>7. QED
  BY <1>1, <1>2, <1>3, <1>4, <1>5, <1>6 DEF Next, Worker

-----------------------------------------------------------------------------
(* What the host will have seen and not read, step by step.                *)

LEMMA SeenTypes ==
  ASSUME TypeOK
  PROVE  /\ 0 \in Known /\ Seen(0) = status
         /\ \A k \in Known : /\ Seen(k) \in Statuses /\ Seen(k).state \in DacStates
                             /\ Seen(k).full \in 0 .. Capacity
<1>1. /\ status \in Statuses /\ down \in Seq(Answers) /\ Len(down) \in Nat
  BY Types
<1>2. \A k \in 1 .. Len(down) : down[k] \in Answers
  BY <1>1, ElementOfSeq
<1>3. \A k \in 1 .. Len(down) : down[k].status \in Statuses
  BY <1>2, Members
<1>4. \A k \in Known : Seen(k) \in Statuses
  BY <1>1, <1>3 DEF Seen, Known
<1>5. \A s \in Statuses : s.state \in DacStates /\ s.full \in 0 .. Capacity
  BY DEF Statuses
<1>6. 0 \in Known /\ Seen(0) = status
  BY <1>1 DEF Known, Seen
<1>7. QED
  BY <1>4, <1>5, <1>6

LEMMA SeenKept ==
  ASSUME UNCHANGED <<status, down>>
  PROVE  Known' = Known /\ \A k : Seen(k)' = Seen(k)
BY DEF Known, Seen

LEMMA UnreadTypes ==
  ASSUME Books, NEW k \in Known
  PROVE  /\ Count(SubSeq(down, 1, k), AnswersTo({"d"})) \in 0 .. Len(ackbuf) - Flying
         /\ Unread(k) \in Seq(Nat) /\ Total(Unread(k)) \in Nat
<1>1. /\ down \in Seq(Answers) /\ Len(down) \in Nat /\ ackbuf \in Seq(Nat)
      /\ Len(ackbuf) \in Nat
  BY Types DEF Books
<1>2. k \in 0 .. Len(down)
  BY DEF Known
<1>3. Count(SubSeq(down, 1, k), AnswersTo({"d"})) \in 0 .. Count(down, AnswersTo({"d"}))
  BY <1>1, <1>2, CountTaken
<1>4. /\ Count(down, AnswersTo({"d"})) \in Nat /\ Flying \in 0 .. Len(ackbuf)
      /\ Count(down, AnswersTo({"d"})) + Flying <= Len(ackbuf)
  BY FlyingBounds
<1>5. Count(SubSeq(down, 1, k), AnswersTo({"d"})) \in 0 .. Len(ackbuf) - Flying
  BY <1>1, <1>3, <1>4
<1>6. Count(SubSeq(down, 1, k), AnswersTo({"d"})) \in 0 .. Len(ackbuf)
  BY <1>1, <1>4, <1>5
<1>7. Unread(k) \in Seq(Nat)
  BY <1>1, <1>6, Dropped DEF Unread
<1>8. QED
  BY <1>5, <1>7, TotalType

(* What is unread is no less than what is under way.                       *)
LEMMA UnreadFlight ==
  ASSUME Books, FlightInv, NEW k \in Known
  PROVE  InFlight <= Total(Unread(k))
<1>1. /\ ackbuf \in Seq(Nat) /\ Len(ackbuf) \in Nat /\ Flying \in 0 .. Len(ackbuf)
  BY Types, FlyingBounds DEF Books
<1>2. Count(SubSeq(down, 1, k), AnswersTo({"d"})) \in 0 .. Len(ackbuf) - Flying
  BY UnreadTypes
<1>3. InFlight = Total(Drop(ackbuf, Len(ackbuf) - Flying))
  BY DEF FlightInv, Flying
<1>4. Len(ackbuf) - Flying \in 0 .. Len(ackbuf)
  BY <1>1
<1>5. QED
  BY <1>1, <1>2, <1>3, <1>4, TotalOrder DEF Unread

LEMMA SeenRead ==
  ASSUME Books, ReadAnswer
  PROVE  /\ Len(down') = Len(down) - 1 /\ Len(down) \in Nat \ {0}
         /\ \A k \in Known' : /\ k + 1 \in Known /\ Seen(k)' = Seen(k + 1)
                              /\ Unread(k)' = Unread(k + 1)
<1>0. TypeOK
  BY DEF Books
<1>1. /\ down' = Tail(down) /\ status' = down[1].status
      /\ Len(down') = Len(down) - 1 /\ Len(down) \in Nat \ {0}
      /\ \A i \in 1 .. Len(down) - 1 : down'[i] = down[i + 1]
      /\ down[1] \in Answers /\ check_data_response(down[1])
      /\ Tail(down) \in Seq(Answers) /\ down # <<>>
  BY <1>0, Reading
<1>2. ASSUME NEW k \in 0 .. Len(down') PROVE k + 1 \in Known
  BY <1>1, <1>2 DEF Known
<1>3. ASSUME NEW k \in 0 .. Len(down') PROVE Seen(k)' = Seen(k + 1)
  <2>1. CASE k = 0
    BY <1>1, <2>1 DEF Seen
  <2>2. CASE k # 0
    <3>1. k \in 1 .. Len(down) - 1 /\ k + 1 # 0
      BY <1>1, <1>3, <2>2
    <3>2. down'[k] = down[k + 1]
      BY <1>1, <3>1
    <3>3. QED
      BY <2>2, <3>1, <3>2 DEF Seen
  <2>3. QED
    BY <2>1, <2>2
<1>4. ASSUME NEW k \in 0 .. Len(down') PROVE Unread(k)' = Unread(k + 1)
  <2> DEFINE D == AnswersTo({"d"})
             c == Count(SubSeq(Tail(down), 1, k), D)
             e == Count(SubSeq(down, 1, k + 1), D)
  <2>1. /\ down \in Seq(Answers) /\ ackbuf \in Seq(Nat) /\ Len(ackbuf) \in Nat
    BY <1>0, Types
  <2>2. k \in Nat /\ k < Len(down) /\ k \in 0 .. Len(Tail(down))
    BY <1>1, <1>4
  <2>3. e = (IF down[1] \in D THEN 1 ELSE 0) + c
    BY <2>1, <2>2, CountTailTaken
  <2>4. down[1] \in D <=> down[1].cmd = "d"
    BY <1>1, Members
  <2>5. c \in Nat
    <3>1. c \in 0 .. Count(Tail(down), D)
      BY <1>1, <2>2, CountTaken
    <3>2. QED
      BY <3>1
  <2>6. e \in 0 .. Len(ackbuf)
    <3>1. k + 1 \in Known
      BY <1>2
    <3>2. e \in 0 .. Len(ackbuf) - Flying /\ Flying \in 0 .. Len(ackbuf)
      BY <3>1, UnreadTypes, FlyingBounds
    <3>3. QED
      BY <2>1, <3>2
  <2> HIDE DEF c, e, D
  <2>7. Drop(ackbuf', c) = Drop(ackbuf, e)
    <3>1. CASE down[1].cmd = "d"
      <4>1. ackbuf' = Tail(ackbuf) /\ e = c + 1
        BY <1>1, <2>3, <2>4, <2>5, <3>1 DEF check_data_response
      <4>2. c < Len(ackbuf)
        BY <2>1, <2>5, <2>6, <4>1
      <4>3. Drop(Tail(ackbuf), c) = Drop(ackbuf, c + 1)
        BY <2>1, <2>5, <4>2, DropTail
      <4>4. QED
        BY <4>1, <4>3
    <3>2. CASE down[1].cmd # "d"
      <4>1. ackbuf' = ackbuf /\ e = 0 + c
        BY <1>1, <2>3, <2>4, <3>2 DEF check_data_response
      <4>2. e = c
        BY <2>5, <4>1
      <4>3. QED
        BY <4>1, <4>2
    <3>3. QED
      BY <3>1, <3>2
  <2>8. Unread(k)' = Drop(ackbuf', c) /\ Unread(k + 1) = Drop(ackbuf, e)
    BY <1>1 DEF Unread, c, e, D
  <2>9. QED
    BY <2>7, <2>8
<1>5. QED
  BY <1>1, <1>2, <1>3, <1>4 DEF Known

(* Statuses that have been sent are not changed by another segment; new    *)
(* ones are that of the end, but for a "q" that is answered at once.       *)
LEMMA SeenReceived ==
  ASSUME Books, Receive
  PROVE  /\ Len(down') \in Nat /\ Len(down) \in Nat /\ Len(down) <= Len(down')
         /\ \A k \in Known : /\ k \in Known' /\ Seen(k)' = Seen(k)
                             /\ Unread(k)' = Unread(k)
         /\ \A k \in Len(down) + 1 .. Len(down') :
              \/ /\ Seen(k)' = REnd
                 /\ RNow = Len(RSeg.cmds) => k >= Len(down) + Len(RSeg.cmds)
              \/ /\ RSeg \in DataSegments /\ Seen(k)' = Status /\ k = Len(down) + 1
                 /\ Count(SubSeq(down', 1, k), AnswersTo({"d"}))
                      = Count(down, AnswersTo({"d"}))
<1>0. TypeOK
  BY DEF Books
<1> DEFINE new == RFirst \o RLater
<1>1. /\ down' = down \o new /\ new \in Seq(Answers) /\ Len(new) = RNow + ROld
      /\ down' \in Seq(Answers) /\ Len(down') = Len(down) + RNow + ROld
      /\ up # <<>> /\ RSeg \in Segments
  BY <1>0, Receiving
<1>2. /\ down \in Seq(Answers) /\ Len(down) \in Nat /\ Len(defer) \in Nat
      /\ status' = status /\ ackbuf' = ackbuf
  BY <1>0, Types, Received DEF bookVars
<1>3. /\ RNow \in 0 .. Len(RSeg.cmds) /\ ROld \in 0 .. Len(defer)
      /\ RNow \in Nat /\ ROld \in Nat
  <2>1. /\ RNow \in 0 .. Len(RSeg.cmds) /\ ROld \in 0 .. Len(defer)
        /\ Len(RSeg.cmds) \in Nat
    BY <1>0, <1>1, ReceiveBounds
  <2>2. QED
    BY <1>2, <2>1
<1>4. /\ RFirst \in Seq(Answers) /\ Len(RFirst) = RNow
      /\ RLater \in Seq(Answers) /\ Len(RLater) = ROld
  BY <1>0, <1>1, ReceiveAnswers
<1>5. \A i \in 1 .. RNow + ROld :
        new[i] = IF i <= RNow THEN RFirst[i] ELSE RLater[i - RNow]
  BY <1>4, ConcatProperties
<1> HIDE DEF new
<1>6. \A i \in 1 .. Len(down) + (RNow + ROld) :
        down'[i] = IF i <= Len(down) THEN down[i] ELSE new[i - Len(down)]
  BY <1>1, <1>2, ConcatProperties
<1>7. /\ Len(down') \in Nat /\ Len(down) <= Len(down')
      /\ Len(down') = Len(down) + (RNow + ROld)
  BY <1>1, <1>2, <1>3
<1>8. ASSUME NEW k \in Known
      PROVE  k \in Known' /\ Seen(k)' = Seen(k) /\ Unread(k)' = Unread(k)
  <2>1. k \in 0 .. Len(down) /\ k \in Known'
    BY <1>2, <1>7 DEF Known
  <2>2. k # 0 => down'[k] = down[k]
    BY <1>2, <1>3, <1>6, <2>1
  <2>3. Seen(k)' = Seen(k)
    BY <1>2, <2>2 DEF Seen
  <2>4. SubSeq(down', 1, k) = SubSeq(down, 1, k)
    BY <1>1, <1>2, <2>1, TakenConcat
  <2>5. Unread(k)' = Unread(k)
    BY <1>2, <2>4 DEF Unread
  <2>6. QED
    BY <2>1, <2>3, <2>5
<1>9. ASSUME NEW k \in Len(down) + 1 .. Len(down')
      PROVE  \/ /\ Seen(k)' = REnd
                /\ RNow = Len(RSeg.cmds) => k >= Len(down) + Len(RSeg.cmds)
             \/ /\ RSeg \in DataSegments /\ Seen(k)' = Status /\ k = Len(down) + 1
                /\ Count(SubSeq(down', 1, k), AnswersTo({"d"}))
                     = Count(down, AnswersTo({"d"}))
  <2> DEFINE i == k - Len(down)
  <2>1. /\ i \in 1 .. RNow + ROld /\ k \in 1 .. Len(down) + (RNow + ROld)
        /\ ~(k <= Len(down)) /\ k # 0
    BY <1>2, <1>3, <1>7
  <2>2. down'[k] = new[i] /\ Seen(k)' = down'[k].status
    BY <1>6, <2>1 DEF Seen
  <2>3. CASE i > RNow
    <3>1. i - RNow \in 1 .. ROld
      BY <1>3, <2>1, <2>3
    <3>2. new[i] = RLater[i - RNow]
      BY <1>3, <1>5, <2>1, <2>3
    <3>3. RLater[i - RNow].status = REnd
      BY <3>1 DEF RLater, Answer
    <3>4. RNow = Len(RSeg.cmds) => k >= Len(down) + Len(RSeg.cmds)
      BY <1>2, <1>3, <2>1, <2>3
    <3>5. QED
      BY <2>2, <3>2, <3>3, <3>4
  <2>4. CASE i <= RNow
    <3>1. new[i] = RFirst[i] /\ i \in 1 .. RNow
      BY <1>3, <1>5, <2>1, <2>4
    <3>2. /\ RFirst[i].status = IF i < Len(RSeg.cmds) THEN Status ELSE REnd
          /\ RFirst[i].cmd = RSeg.cmds[i]
      BY <3>1 DEF RFirst, Answer
    <3>3. CASE ~(i < Len(RSeg.cmds))
      <4>1. Seen(k)' = REnd
        BY <2>2, <3>1, <3>2, <3>3
      <4>2. RNow = Len(RSeg.cmds) => k >= Len(down) + Len(RSeg.cmds)
        BY <1>2, <1>3, <2>1, <3>1, <3>3
      <4>3. QED
        BY <4>1, <4>2
    <3>4. CASE i < Len(RSeg.cmds)
      <4>1. RSeg \in DataSegments
        <5>1. RSeg \notin DataSegments => RSeg.cmds \in {<<"p">>, <<"b">>}
          BY <1>1, SegmentFields
        <5>2. RSeg.cmds \in {<<"p">>, <<"b">>} => Len(RSeg.cmds) = 1
          OBVIOUS
        <5>3. i \in Int /\ i >= 1 /\ RNow \in Nat
          BY <1>3, <3>1
        <5>4. ~(Len(RSeg.cmds) = 1)
          <6> SUFFICES ASSUME Len(RSeg.cmds) = 1 PROVE FALSE
            OBVIOUS
          <6>1. i < 1
            BY <3>4, Zenon
          <6>2. QED
            BY <5>3, <6>1
        <5>5. QED
          BY <5>1, <5>2, <5>4, Zenon
      <4>2. RSeg.cmds = <<"q", "d">>
        BY <1>1, <4>1, SegmentFields
      <4>3. i = 1
        BY <3>1, <3>4, <4>2
      <4>4. k = Len(down) + 1
        BY <1>2, <4>3
      <4>5. Seen(k)' = Status
        BY <2>2, <3>1, <3>2, <3>4
      <4>6. new[1].cmd = "q" /\ new[1] \in Answers
        <5>1. new[1].cmd = "q"
          BY <3>1, <3>2, <4>2, <4>3
        <5>2. 1 \in 1 .. Len(new)
          BY <1>1, <1>3, <2>1, <4>3
        <5>3. QED
          BY <1>1, <5>1, <5>2, ElementOfSeq
      <4>7. new[1] \notin AnswersTo({"d"})
        BY <4>6, Members
      <4>8. Count(SubSeq(down', 1, k), AnswersTo({"d"}))
              = Count(down, AnswersTo({"d"}))
        <5> DEFINE a == Append(down, new[1])
        <5>1. /\ a \in Seq(Answers) /\ Len(a) = Len(down) + 1
              /\ \A j \in 1 .. Len(down) : a[j] = down[j]
              /\ a[Len(down) + 1] = new[1]
          BY <1>2, <4>6, AppendProperties
        <5>2. Count(a, AnswersTo({"d"})) = Count(down, AnswersTo({"d"})) + 0
          BY <1>2, <4>6, <4>7, CountAppend
        <5> HIDE DEF a
        <5>3. k \in 0 .. Len(down')
          BY <1>2, <1>7
        <5>4. /\ SubSeq(down', 1, k) \in Seq(Answers)
              /\ Len(SubSeq(down', 1, k)) = k
              /\ \A j \in 1 .. k : SubSeq(down', 1, k)[j] = down'[j]
          BY <1>1, <5>3, Taken
        <5>5. \A j \in 1 .. k : down'[j] = a[j]
          <6> TAKE j \in 1 .. k
          <6>1. CASE j <= Len(down)
            BY <1>2, <1>3, <1>6, <5>1, <6>1
          <6>2. CASE j = Len(down) + 1
            BY <2>2, <4>3, <4>4, <5>1, <6>2
          <6>3. QED
            BY <1>2, <4>4, <6>1, <6>2
        <5>6. SubSeq(down', 1, k) = a
          BY <4>4, <5>1, <5>4, <5>5, SeqEqual
        <5>7. Count(down, AnswersTo({"d"})) \in 0 .. Len(down)
          BY <1>2, CountRange
        <5>8. Count(down, AnswersTo({"d"})) \in Int
          BY <1>2, <5>7
        <5>9. Count(a, AnswersTo({"d"})) = Count(down, AnswersTo({"d"}))
          BY <5>2, <5>8
        <5>10. QED
          BY <5>6, <5>9, Zenon
      <4>9. QED
        BY <4>1, <4>4, <4>5, <4>8
    <3>5. QED
      BY <3>3, <3>4
  <2>5. QED
    BY <1>3, <2>1, <2>3, <2>4
<1>10. QED
  BY <1>2, <1>7, <1>8, <1>9


-----------------------------------------------------------------------------
(* The states of the DAC that the host has seen and will see.              *)

LEMMA StateInit == Init => StateInv
<1> SUFFICES ASSUME Init PROVE StateInv
  OBVIOUS
<1>1. /\ down = <<>> /\ up = <<>> /\ pc = "idle" /\ status.state = dac
      /\ dac \in {"IDLE", "PREPARED"}
  BY DEF Init, Status
<1>2. Len(down) = 0 /\ DOMAIN up = {}
  BY <1>1
<1>3. Known = {0} /\ \A k \in {0} : k .. Len(down) = {0}
  BY <1>2 DEF Known
<1>4. Seen(0).state = dac
  BY <1>1 DEF Seen
<1>5. IdleFrom(0)
  BY <1>2, <1>3, <1>4 DEF IdleFrom
<1>6. QED
  BY <1>1, <1>2, <1>3, <1>4, <1>5 DEF StateInv

(* StateInv is kept by a step that changes nothing it speaks of, but that  *)
(* the DAC may stop.                                                       *)
LEMMA StateQuiet ==
  ASSUME StateInv, UNCHANGED <<status, down, up, pending_meta_acks>>,
         dac' \in {dac, "IDLE"}, pc' = "prepared" <=> pc = "prepared"
  PROVE  StateInv'
<1>1. Known' = Known /\ Len(down') = Len(down) /\ \A k : Seen(k)' = Seen(k)
  BY SeenKept
<1>2. ASSUME NEW k \in Known, Seen(k)'.state = "PLAYING"
      PROVE  dac' # "PREPARED" /\ \A l \in k .. Len(down') : Seen(l)'.state # "PREPARED"
  BY <1>1, <1>2 DEF StateInv
<1>3. ASSUME NEW i \in DOMAIN up, up[i].cmds = <<"p">>
      PROVE  /\ pc' = "prepared" /\ i = Len(up) /\ dac' = "IDLE"
             /\ \A k \in Known : Seen(k)'.state = "IDLE"
  BY <1>1, <1>3 DEF StateInv
<1>4. ASSUME NEW j, IdleFrom(j) PROVE IdleFrom(j)'
  BY <1>1, <1>4 DEF IdleFrom
<1>5. IF pc' # "prepared" THEN IdleFrom(0)'
      ELSE \A k \in Known :
             pending_meta_acks' = Count(SubSeq(down', 1, k), AnswersTo(Meta))
               => IdleFrom(k)'
  <2>1. CASE pc = "prepared"
    BY <1>4, <2>1 DEF StateInv
  <2>2. CASE pc # "prepared"
    BY <1>4, <2>2 DEF StateInv
  <2>3. QED
    BY <2>1, <2>2
<1>6. QED
  BY <1>1, <1>2, <1>3, <1>5 DEF StateInv

(* StateInv holds when no prepare is under way and the worker does not     *)
(* wait for the answer to one.                                             *)
LEMMA StateFree ==
  ASSUME StateInv, IdleFrom(0), UNCHANGED <<status, down, dac>>,
         \A i \in DOMAIN up' : up'[i].cmds # <<"p">>, pc' # "prepared"
  PROVE  StateInv'
<1>1. Known' = Known /\ Len(down') = Len(down) /\ \A k : Seen(k)' = Seen(k)
  BY SeenKept
<1>2. IdleFrom(0)'
  BY <1>1 DEF IdleFrom
<1>3. ASSUME NEW k \in Known, Seen(k)'.state = "PLAYING"
      PROVE  dac' # "PREPARED" /\ \A l \in k .. Len(down') : Seen(l)'.state # "PREPARED"
  BY <1>1, <1>3 DEF StateInv
<1>4. QED
  BY <1>1, <1>2, <1>3 DEF StateInv

LEMMA NoPrepare ==
  ASSUME Books, StateInv, pc # "prepared" \/ pending_meta_acks = 0
  PROVE  IdleFrom(0) /\ \A i \in DOMAIN up : up[i].cmds # <<"p">>
<1>1. /\ down \in Seq(Answers) /\ Len(down) \in Nat /\ up \in Seq(Segments)
      /\ Len(up) \in Nat
  BY Types DEF Books
<1>2. CASE pc # "prepared"
  BY <1>2 DEF StateInv
<1>3. CASE pc = "prepared"
  <2>1. pending_meta_acks = 0 /\ pending_meta_acks >= MetaComing
    BY <1>3 DEF Books, BooksInv
  <2>2. /\ Count(down, AnswersTo(Meta)) \in Nat /\ Count(defer, Meta) \in Nat
        /\ MetaComing \in Nat
    <3>1. /\ Count(down, AnswersTo(Meta)) \in 0 .. Len(down)
          /\ Count(defer, Meta) \in 0 .. Len(defer)
          /\ MetaComing \in Nat
      BY Types DEF Books
    <3>2. QED
      BY <3>1
  <2>3. Len(up) = 0
    <3>1. MetaComing = Count(down, AnswersTo(Meta)) + Count(defer, Meta) + Len(up)
      BY DEF MetaComing
    <3> HIDE DEF MetaComing
    <3>2. QED
      BY <1>1, <2>1, <2>2, <3>1
  <2>4. DOMAIN up = {}
    BY <1>1, <2>3, EmptySeq
  <2>5. SubSeq(down, 1, 0) = <<>>
    BY <1>1, SubSeqEmpty
  <2>6. Count(SubSeq(down, 1, 0), AnswersTo(Meta)) = 0
    BY <2>5, CountOne
  <2>7. 0 \in Known
    BY <1>1 DEF Known
  <2>8. IdleFrom(0)
    BY <1>3, <2>1, <2>6, <2>7 DEF StateInv
  <2>9. QED
    BY <2>4, <2>8
<1>4. QED
  BY <1>2, <1>3

(* BeginIfDue keeps StateInv when no prepare is under way.                 *)
LEMMA StateBegin ==
  ASSUME Books, StateInv, pc # "prepared" \/ pending_meta_acks = 0,
         pc' # "prepared", BeginIfDue, UNCHANGED <<status, dac>>
  PROVE  StateInv'
<1>1. IdleFrom(0) /\ \A i \in DOMAIN up : up[i].cmds # <<"p">>
  BY NoPrepare
<1>2. up \in Seq(Segments)
  BY Types DEF Books
<1>3. CASE SendAll(<<"b">>, 0)
  <2> DEFINE x == [cmds |-> <<"b">>, n |-> 0, acked |-> toAck]
  <2>1. up' = Append(up, x) /\ down' = down /\ x.cmds # <<"p">>
    BY <1>3 DEF SendAll
  <2>2. x \in Segments
    BY SentSegments DEF Books
  <2> HIDE DEF x
  <2>3. /\ up' \in Seq(Segments) /\ Len(up') = Len(up) + 1
        /\ \A i \in 1 .. Len(up) : up'[i] = up[i]
        /\ up'[Len(up) + 1] = x /\ Len(up) \in Nat
    BY <1>2, <2>1, <2>2, AppendProperties, LenProperties
  <2>4. \A i \in DOMAIN up' : i \in DOMAIN up \/ i = Len(up) + 1
    <3>1. DOMAIN up' = 1 .. Len(up) + 1 /\ DOMAIN up = 1 .. Len(up)
      BY <1>2, <2>3, LenProperties
    <3>2. QED
      BY <2>3, <3>1
  <2>5. \A i \in DOMAIN up : up'[i] = up[i]
    BY <1>2, <2>3, LenProperties
  <2>6. \A i \in DOMAIN up' : up'[i].cmds # <<"p">>
    BY <1>1, <2>1, <2>3, <2>4, <2>5, Zenon
  <2>7. QED
    BY <1>1, <2>1, <2>6, StateFree
<1>4. CASE UNCHANGED netVars
  BY <1>1, <1>4, StateFree DEF netVars
<1>5. QED
  BY <1>3, <1>4 DEF BeginIfDue

(* What is sent comes last.                                                *)
LEMMA SentLast ==
  ASSUME TypeOK, NEW x \in Segments, up' = Append(up, x)
  PROVE  /\ Len(up') = Len(up) + 1 /\ Len(up) \in Nat
         /\ DOMAIN up = 1 .. Len(up) /\ DOMAIN up' = 1 .. Len(up) + 1
         /\ up'[Len(up) + 1] = x
         /\ \A i \in DOMAIN up : up'[i] = up[i]
         /\ \A i \in DOMAIN up' : i \in DOMAIN up \/ i = Len(up) + 1
<1>1. up \in Seq(Segments) /\ Len(up) \in Nat /\ DOMAIN up = 1 .. Len(up)
  BY Types, LenProperties
<1>2. /\ up' \in Seq(Segments) /\ Len(up') = Len(up) + 1
      /\ \A i \in 1 .. Len(up) : up'[i] = up[i]
      /\ up'[Len(up) + 1] = x
  BY <1>1, AppendProperties
<1>3. DOMAIN up' = 1 .. Len(up) + 1
  BY <1>2, LenProperties
<1>4. QED
  BY <1>1, <1>2, <1>3

LEMMA StatePrepare ==
  ASSUME Books, StateInv, EstimateIdle
  PROVE  StateInv'
<1>0. TypeOK
  BY DEF Books
<1> DEFINE x == [cmds |-> <<"p">>, n |-> 0, acked |-> toAck]
<1>1. /\ status.state = "IDLE" /\ pc = "top" /\ pc' = "prepared"
      /\ up' = Append(up, x) /\ UNCHANGED <<down, status, dac>>
  BY DEF EstimateIdle, Estimated, SendAll, playVars
<1>2. x \in Segments
  BY <1>0, SentSegments
<1> HIDE DEF x
<1>3. /\ Len(up') = Len(up) + 1
      /\ \A i \in DOMAIN up : up'[i] = up[i]
      /\ \A i \in DOMAIN up' : i \in DOMAIN up \/ i = Len(up) + 1
  BY <1>0, <1>1, <1>2, SentLast
<1>4. IdleFrom(0) /\ \A i \in DOMAIN up : up[i].cmds # <<"p">>
  BY <1>1, NoPrepare
<1>5. 0 \in Known /\ Seen(0) = status /\ Len(down) \in Nat
  BY <1>0, SeenTypes, Types
<1>6. dac = "IDLE" /\ \A k \in Known : Seen(k).state = "IDLE"
  BY <1>1, <1>4, <1>5 DEF IdleFrom, Known
<1>7. Known' = Known /\ Len(down') = Len(down) /\ \A k : Seen(k)' = Seen(k)
  BY <1>1, SeenKept
<1>8. dac' = "IDLE" /\ \A k \in Known' : Seen(k)'.state = "IDLE"
  BY <1>1, <1>6, <1>7
<1>9. ASSUME NEW k \in Known' PROVE \A l \in k .. Len(down') : l \in Known'
  BY <1>5, <1>7 DEF Known
<1>10. \A k \in Known' : IdleFrom(k)'
  BY <1>8, <1>9 DEF IdleFrom
<1>11. \A i \in DOMAIN up' : up'[i].cmds = <<"p">> => i = Len(up')
  BY <1>3, <1>4
<1>12. QED
  BY <1>1, <1>8, <1>10, <1>11 DEF StateInv

LEMMA StateSend ==
  ASSUME Books, StateInv, SendData
  PROVE  StateInv'
<1>0. TypeOK
  BY DEF Books
<1> DEFINE x == [cmds |-> <<"q", "d">>, n |-> n, acked |-> toAck]
<1>1. /\ pc = "acks" /\ n > 0 /\ up' = Append(up, x)
      /\ UNCHANGED <<down, status, dac>> /\ x.cmds = <<"q", "d">>
  BY DEF SendData, SendAll, playVars
<1>2. pc' # "prepared"
  BY DEF SendData, Advance
<1>3. x \in Segments
  BY <1>0, <1>1, SentSegments DEF Segments
<1>4. x.cmds # <<"p">>
  BY <1>1
<1> HIDE DEF x
<1>5. /\ \A i \in DOMAIN up : up'[i] = up[i]
      /\ \A i \in DOMAIN up' : i \in DOMAIN up \/ i = Len(up) + 1
      /\ up'[Len(up) + 1] = x
  BY <1>0, <1>1, <1>3, SentLast
<1>6. IdleFrom(0) /\ \A i \in DOMAIN up : up[i].cmds # <<"p">>
  BY <1>1, NoPrepare
<1>7. \A i \in DOMAIN up' : up'[i].cmds # <<"p">>
  BY <1>4, <1>5, <1>6, Zenon
<1>8. QED
  BY <1>1, <1>2, <1>6, <1>7, StateFree

LEMMA StateRead ==
  ASSUME Books, StateInv, ReadAnswer
  PROVE  StateInv'
<1>0. TypeOK
  BY DEF Books
<1>1. /\ Len(down') = Len(down) - 1 /\ Len(down) \in Nat \ {0}
      /\ \A k \in Known' : k + 1 \in Known /\ Seen(k)' = Seen(k + 1)
  BY SeenRead
<1>2. /\ up' = up /\ down' = Tail(down) /\ check_data_response(down[1])
      /\ down[1] \in Answers
  BY <1>0, Reading
<1>3. UNCHANGED <<pc, dac>>
  BY DEF ReadAnswer, hostVars, playVars
<1>4. Known' = 0 .. Len(down')
  BY DEF Known
<1>5. ASSUME NEW k \in Known', NEW l \in k .. Len(down')
      PROVE  l \in Known' /\ l + 1 \in k + 1 .. Len(down)
  BY <1>1, <1>4
<1>6. ASSUME NEW k \in Known', IdleFrom(k + 1) PROVE IdleFrom(k)'
  <2>1. SUFFICES ASSUME NEW m \in k .. Len(down'), Seen(m)'.state = "IDLE"
                 PROVE  dac' = "IDLE" /\ \A l \in m .. Len(down') : Seen(l)'.state = "IDLE"
    BY DEF IdleFrom
  <2>2. m \in Known' /\ m + 1 \in k + 1 .. Len(down)
    BY <1>5
  <2>3. Seen(m + 1).state = "IDLE"
    BY <1>1, <2>1, <2>2
  <2>4. dac = "IDLE" /\ \A l \in m + 1 .. Len(down) : Seen(l).state = "IDLE"
    BY <1>6, <2>2, <2>3 DEF IdleFrom
  <2>5. ASSUME NEW l \in m .. Len(down') PROVE Seen(l)'.state = "IDLE"
    <3>1. l \in Known' /\ l + 1 \in m + 1 .. Len(down)
      BY <1>5, <2>2
    <3>2. QED
      BY <1>1, <2>4, <3>1
  <2>6. QED
    BY <1>3, <2>4, <2>5
<1>7. ASSUME NEW k \in Known', Seen(k)'.state = "PLAYING"
      PROVE  dac' # "PREPARED" /\ \A l \in k .. Len(down') : Seen(l)'.state # "PREPARED"
  <2>1. k + 1 \in Known /\ Seen(k + 1).state = "PLAYING"
    BY <1>1, <1>7
  <2>2. /\ dac # "PREPARED"
        /\ \A l \in k + 1 .. Len(down) : Seen(l).state # "PREPARED"
    BY <2>1 DEF StateInv
  <2>3. ASSUME NEW l \in k .. Len(down') PROVE Seen(l)'.state # "PREPARED"
    BY <1>1, <1>5, <2>2
  <2>4. QED
    BY <1>3, <2>2, <2>3
<1>8. ASSUME NEW i \in DOMAIN up, up[i].cmds = <<"p">>
      PROVE  /\ pc' = "prepared" /\ i = Len(up) /\ dac' = "IDLE"
             /\ \A k \in Known' : Seen(k)'.state = "IDLE"
  BY <1>1, <1>3, <1>8 DEF StateInv
<1>9. ASSUME pc # "prepared" PROVE IdleFrom(0)'
  <2>1. IdleFrom(0)
    BY <1>9 DEF StateInv
  <2>2. \A m \in 1 .. Len(down) : m \in 0 .. Len(down)
    OBVIOUS
  <2>3. IdleFrom(0 + 1)
    BY <2>1, <2>2 DEF IdleFrom
  <2>4. 0 \in Known'
    BY <1>1, <1>4
  <2>5. QED
    BY <1>6, <2>3, <2>4
<1>10. ASSUME pc = "prepared", NEW k \in Known',
              pending_meta_acks' = Count(SubSeq(down', 1, k), AnswersTo(Meta))
       PROVE  IdleFrom(k)'
  <2> DEFINE c == Count(SubSeq(Tail(down), 1, k), AnswersTo(Meta))
             e == Count(SubSeq(down, 1, k + 1), AnswersTo(Meta))
  <2>1. down \in Seq(Answers) /\ pending_meta_acks \in Nat
    BY <1>0, Types DEF TypeOK
  <2>2. k \in Nat /\ k < Len(down) /\ k \in 0 .. Len(Tail(down)) /\ k + 1 \in Known
    <3>1. Len(Tail(down)) = Len(down')
      BY <1>2
    <3>2. k \in 0 .. Len(down') /\ k + 1 \in Known
      BY <1>1, <1>4
    <3>3. k \in Nat /\ k < Len(down)
      BY <1>1, <3>2
    <3>4. QED
      BY <3>1, <3>2, <3>3, Zenon
  <2>3. e = (IF down[1] \in AnswersTo(Meta) THEN 1 ELSE 0) + c
    BY <2>1, <2>2, CountTailTaken
  <2>4. down[1] \in AnswersTo(Meta) <=> down[1].cmd # "d"
    BY <1>2, Members
  <2>5. pending_meta_acks' = c
    BY <1>2, <1>10
  <2> HIDE DEF c, e
  <2>7. pending_meta_acks = e
    <3>1. CASE down[1].cmd = "d"
      <4>1. pending_meta_acks' = pending_meta_acks
        BY <1>2, <3>1 DEF check_data_response
      <4>2. c \in Nat
        BY <2>1, <2>5, <4>1
      <4>3. e = 0 + c
        BY <2>3, <2>4, <3>1
      <4>4. e = c
        BY <4>2, <4>3
      <4>5. QED
        BY <2>5, <4>1, <4>4, Zenon
    <3>2. CASE down[1].cmd # "d"
      <4>1. pending_meta_acks' = pending_meta_acks - 1
        BY <1>2, <3>2 DEF check_data_response
      <4>2. e = 1 + c
        BY <2>3, <2>4, <3>2
      <4>3. c = pending_meta_acks - 1
        BY <2>5, <4>1
      <4>4. e = 1 + (pending_meta_acks - 1)
        BY <4>2, <4>3, Zenon
      <4>5. QED
        BY <2>1, <4>4
    <3>3. QED
      BY <3>1, <3>2
  <2>8. IdleFrom(k + 1)
    BY <1>10, <2>2, <2>7 DEF StateInv, e
  <2>9. QED
    BY <1>6, <2>8
<1>11. QED
  BY <1>2, <1>3, <1>7, <1>8, <1>9, <1>10 DEF StateInv

(* What the states are after a segment.                                    *)
LEMMA EndStates ==
  ASSUME Books, Receive
  PROVE  /\ RSeg.cmds # <<"p">> =>
              /\ dac' = dac \/ (dac = "PREPARED" /\ dac' = "PLAYING")
              /\ \A k \in Len(down) + 1 .. Len(down') : Seen(k)'.state = dac'
         /\ RSeg.cmds = <<"p">> =>
              /\ dac' = dac \/ (dac = "IDLE" /\ dac' = "PREPARED")
              /\ \A k \in Len(down) + 1 .. Len(down') : Seen(k)'.state = dac'
<1>0. TypeOK
  BY DEF Books
<1>1. /\ dac' = REnd.state /\ fullness' = REnd.full /\ up # <<>>
  BY Received
<1>2. RSeg \in Segments
  BY <1>0, Receiving
<1>3. \A k \in Len(down) + 1 .. Len(down') :
        Seen(k)' = REnd \/ (RSeg \in DataSegments /\ Seen(k)' = Status)
  BY SeenReceived
<1>4. CASE RSeg.cmds = <<"p">>
  <2>1. RSeg \notin DataSegments
    <3>1. <<"p">> # <<"q", "d">>
      OBVIOUS
    <3>2. QED
      BY <1>2, <1>4, <3>1, SegmentFields
  <2>2. REnd = IF dac = "IDLE" /\ ready
               THEN [state |-> "PREPARED", full |-> 0] ELSE Status
    BY <1>0, <1>1, <1>4, ReceiveEnd
  <2>3. dac' = dac \/ (dac = "IDLE" /\ dac' = "PREPARED")
    BY <1>1, <2>2 DEF Status
  <2>4. QED
    BY <1>1, <1>3, <1>4, <2>1, <2>3
<1>5. CASE RSeg.cmds = <<"b">>
  <2>1. RSeg \notin DataSegments /\ RSeg.cmds # <<"p">>
    <3>1. <<"b">> # <<"q", "d">> /\ <<"b">> # <<"p">>
      OBVIOUS
    <3>2. QED
      BY <1>2, <1>5, <3>1, SegmentFields
  <2>2. REnd = IF dac = "PREPARED"
               THEN [state |-> "PLAYING", full |-> fullness] ELSE Status
    BY <1>0, <1>1, <1>5, ReceiveEnd
  <2>3. dac' = dac \/ (dac = "PREPARED" /\ dac' = "PLAYING")
    BY <1>1, <2>2 DEF Status
  <2>4. QED
    BY <1>1, <1>3, <2>1, <2>3
<1>6. CASE RSeg.cmds = <<"q", "d">>
  <2>1. RSeg.cmds # <<"p">>
    BY <1>6
  <2>2. REnd = IF dac # "IDLE"
               THEN [state |-> dac,
                     full |-> Least(fullness + RSeg.n, Capacity)]
               ELSE Status
    BY <1>0, <1>1, <1>6, ReceiveEnd
  <2>3. dac' = dac /\ Status.state = dac
    BY <1>1, <2>2 DEF Status
  <2>4. QED
    BY <1>1, <1>3, <2>1, <2>3
<1>7. QED
  BY <1>2, <1>4, <1>5, <1>6, SegmentFields

(* A prepare is the only segment, and everything is idle.                  *)
LEMMA PrepareAlone ==
  ASSUME TypeOK, StateInv, up # <<>>, RSeg.cmds = <<"p">>
  PROVE  /\ pc = "prepared" /\ Len(up) = 1 /\ dac = "IDLE"
         /\ \A k \in Known : Seen(k).state = "IDLE"
<1>1. up \in Seq(Segments) /\ Len(up) \in Nat \ {0} /\ RSeg = up[1]
  BY Types, HeadAndTail DEF RSeg
<1>2. 1 \in DOMAIN up /\ up[1].cmds = <<"p">>
  BY <1>1, LenProperties
<1>3. QED
  BY <1>2 DEF StateInv

LEMMA StateReceiveOther ==
  ASSUME Books, StateInv, Receive, RSeg.cmds # <<"p">>
  PROVE  StateInv'
<1>0. TypeOK
  BY DEF Books
<1>1. /\ Len(down') \in Nat /\ Len(down) \in Nat /\ Len(down) <= Len(down')
      /\ \A k \in Known : Seen(k)' = Seen(k)
  BY SeenReceived
<1>2. /\ dac' = dac \/ (dac = "PREPARED" /\ dac' = "PLAYING")
      /\ \A k \in Len(down) + 1 .. Len(down') : Seen(k)'.state = dac'
  BY EndStates
<1>3. UNCHANGED <<pc, pending_meta_acks>>
  BY Received DEF hostVars, bookVars
<1>4. /\ up # <<>> /\ up' = Tail(up) /\ down' = down \o (RFirst \o RLater)
      /\ RFirst \o RLater \in Seq(Answers)
  BY <1>0, Receiving
<1>5. /\ up \in Seq(Segments) /\ down \in Seq(Answers)
  BY <1>0, Types
<1>6. /\ Known = 0 .. Len(down) /\ Known' = 0 .. Len(down')
  BY DEF Known
<1>7. ASSUME NEW k \in Known', NEW l \in k .. Len(down')
      PROVE  /\ l \in Known'
             /\ l \in Known \/ l \in Len(down) + 1 .. Len(down')
             /\ l \in Known => k \in Known /\ l \in k .. Len(down)
             /\ k \notin Known => l \in Len(down) + 1 .. Len(down')
  BY <1>1, <1>6
<1>8. \A k \in Known' : k \in Known \/ k \in Len(down) + 1 .. Len(down')
  BY <1>1, <1>6
<1>9. ASSUME NEW k \in Known', Seen(k)'.state = "PLAYING"
      PROVE  dac' # "PREPARED" /\ \A l \in k .. Len(down') : Seen(l)'.state # "PREPARED"
  <2>1. dac' # "PREPARED"
    <3>1. CASE k \in Known
      <4>1. dac # "PREPARED"
        BY <1>1, <1>9, <3>1 DEF StateInv
      <4>2. QED
        BY <1>2, <4>1
    <3>2. CASE k \in Len(down) + 1 .. Len(down')
      BY <1>2, <1>9, <3>2
    <3>3. QED
      BY <1>8, <3>1, <3>2
  <2>2. ASSUME NEW l \in k .. Len(down') PROVE Seen(l)'.state # "PREPARED"
    <3>1. CASE l \in Known
      <4>1. k \in Known /\ l \in k .. Len(down)
        BY <1>7, <3>1
      <4>2. Seen(l).state # "PREPARED"
        BY <1>1, <1>9, <4>1 DEF StateInv
      <4>3. QED
        BY <1>1, <3>1, <4>2
    <3>2. CASE l \in Len(down) + 1 .. Len(down')
      BY <1>2, <2>1, <3>2
    <3>3. QED
      BY <1>7, <3>1, <3>2
  <2>3. QED
    BY <2>1, <2>2
<1>10. ASSUME NEW i \in DOMAIN up', up'[i].cmds = <<"p">>
       PROVE  /\ pc' = "prepared" /\ i = Len(up') /\ dac' = "IDLE"
              /\ \A k \in Known' : Seen(k)'.state = "IDLE"
  <2>1. /\ Len(up') = Len(up) - 1 /\ Len(up) \in Nat /\ up' \in Seq(Segments)
        /\ \A j \in 1 .. Len(up) - 1 : up'[j] = up[j + 1]
    BY <1>4, <1>5, HeadAndTail
  <2>2. i \in 1 .. Len(up) - 1
    BY <2>1, LenProperties
  <2>3. i + 1 \in DOMAIN up /\ up[i + 1].cmds = <<"p">>
    <3>1. i + 1 \in 1 .. Len(up)
      BY <2>1, <2>2
    <3>2. QED
      BY <1>5, <1>10, <2>1, <2>2, <3>1, LenProperties
  <2>4. /\ pc = "prepared" /\ i + 1 = Len(up) /\ dac = "IDLE"
        /\ \A k \in Known : Seen(k).state = "IDLE"
    BY <2>3 DEF StateInv
  <2>5. dac' = "IDLE"
    BY <1>2, <2>4
  <2>6. i = Len(up')
    BY <2>1, <2>2, <2>4
  <2>7. \A k \in Known' : Seen(k)'.state = "IDLE"
    BY <1>1, <1>2, <1>8, <2>4, <2>5
  <2>8. QED
    BY <1>3, <2>4, <2>5, <2>6, <2>7
<1>11. ASSUME NEW j \in Known', j \in Known => IdleFrom(j)
       PROVE  IdleFrom(j)'
  <2>1. SUFFICES ASSUME NEW m \in j .. Len(down'), Seen(m)'.state = "IDLE"
                 PROVE  /\ dac' = "IDLE"
                        /\ \A l \in m .. Len(down') : Seen(l)'.state = "IDLE"
    BY DEF IdleFrom
  <2>2. m \in Known' /\ (m \in Known \/ m \in Len(down) + 1 .. Len(down'))
    BY <1>7
  <2>3. CASE m \in Known
    <3>1. j \in Known /\ m \in j .. Len(down) /\ Seen(m).state = "IDLE"
      BY <1>1, <1>7, <2>1, <2>3
    <3>2. dac = "IDLE" /\ \A l \in m .. Len(down) : Seen(l).state = "IDLE"
      BY <1>11, <3>1 DEF IdleFrom
    <3>3. dac' = "IDLE"
      BY <1>2, <3>2
    <3>4. ASSUME NEW l \in m .. Len(down') PROVE Seen(l)'.state = "IDLE"
      <4>1. /\ l \in Known \/ l \in Len(down) + 1 .. Len(down')
            /\ l \in Known => l \in m .. Len(down)
        BY <1>7, <2>2
      <4>2. QED
        BY <1>1, <1>2, <3>2, <3>3, <4>1
    <3>5. QED
      BY <3>3, <3>4
  <2>4. CASE m \in Len(down) + 1 .. Len(down') /\ m \notin Known
    <3>1. dac' = "IDLE"
      BY <1>2, <2>1, <2>4
    <3>2. ASSUME NEW l \in m .. Len(down') PROVE Seen(l)'.state = "IDLE"
      <4>1. l \in Len(down) + 1 .. Len(down')
        BY <1>7, <2>2, <2>4
      <4>2. QED
        BY <1>2, <3>1, <4>1
    <3>3. QED
      BY <3>1, <3>2
  <2>5. QED
    BY <2>2, <2>3, <2>4
<1>12. ASSUME pc # "prepared" PROVE IdleFrom(0)'
  <2>1. 0 \in Known' /\ IdleFrom(0)
    BY <1>1, <1>6, <1>12 DEF StateInv
  <2>2. QED
    BY <1>11, <2>1
<1>13. ASSUME pc = "prepared", NEW k \in Known',
              pending_meta_acks' = Count(SubSeq(down', 1, k), AnswersTo(Meta))
       PROVE  IdleFrom(k)'
  <2>1. ASSUME k \in Known PROVE IdleFrom(k)
    <3>1. SubSeq(down', 1, k) = SubSeq(down, 1, k)
      BY <1>4, <1>5, <1>6, <2>1, TakenConcat
    <3>2. QED
      BY <1>3, <1>13, <2>1, <3>1 DEF StateInv
  <2>2. QED
    BY <1>11, <2>1
<1>14. QED
  BY <1>3, <1>9, <1>10, <1>12, <1>13 DEF StateInv

LEMMA StateReceivePrepare ==
  ASSUME Books, StateInv, Receive, RSeg.cmds = <<"p">>
  PROVE  StateInv'
<1>0. TypeOK
  BY DEF Books
<1>1. /\ Len(down') \in Nat /\ Len(down) \in Nat /\ Len(down) <= Len(down')
      /\ \A k \in Known : Seen(k)' = Seen(k)
  BY SeenReceived
<1>2. /\ dac' = dac \/ (dac = "IDLE" /\ dac' = "PREPARED")
      /\ \A k \in Len(down) + 1 .. Len(down') : Seen(k)'.state = dac'
  BY EndStates
<1>3. UNCHANGED <<pc, pending_meta_acks>>
  BY Received DEF hostVars, bookVars
<1>4. /\ up # <<>> /\ up' = Tail(up) /\ down' = down \o (RFirst \o RLater)
      /\ RFirst \o RLater \in Seq(Answers)
  BY <1>0, Receiving
<1>5. /\ up \in Seq(Segments) /\ down \in Seq(Answers)
  BY <1>0, Types
<1>6. /\ Known = 0 .. Len(down) /\ Known' = 0 .. Len(down')
  BY DEF Known
<1>7. \A k \in Known' : k \in Known \/ k \in Len(down) + 1 .. Len(down')
  BY <1>1, <1>6
<1>8. /\ pc = "prepared" /\ Len(up) = 1 /\ dac = "IDLE"
      /\ \A k \in Known : Seen(k).state = "IDLE"
  BY <1>0, <1>4, PrepareAlone
<1>9. DOMAIN up' = {}
  <2>1. Len(up') = 0 /\ up' \in Seq(Segments)
    BY <1>4, <1>5, <1>8, HeadAndTail
  <2>2. QED
    BY <2>1, EmptySeq
<1>10. \A k \in Known' : Seen(k)'.state # "PLAYING"
  BY <1>1, <1>2, <1>7, <1>8
<1>11. ASSUME NEW k \in Known',
              pending_meta_acks' = Count(SubSeq(down', 1, k), AnswersTo(Meta))
       PROVE  k \notin Known
  <2>1. SUFFICES ASSUME k \in Known PROVE FALSE
    OBVIOUS
  <2>2. SubSeq(down', 1, k) = SubSeq(down, 1, k)
    BY <1>4, <1>5, <1>6, <2>1, TakenConcat
  <2>3. Count(SubSeq(down, 1, k), AnswersTo(Meta)) \in 0 .. Count(down, AnswersTo(Meta))
    BY <1>5, <1>6, <2>1, CountTaken
  <2>4. pending_meta_acks = Count(SubSeq(down, 1, k), AnswersTo(Meta))
    BY <1>3, <1>11, <2>2
  <2>5. pending_meta_acks <= Count(down, AnswersTo(Meta)) /\ pending_meta_acks \in Nat
    BY <2>3, <2>4
  <2>6. /\ Count(down, AnswersTo(Meta)) \in 0 .. Len(down)
        /\ Count(defer, Meta) \in 0 .. Len(defer)
    BY <1>0, Types
  <2>7. pending_meta_acks >= Count(down, AnswersTo(Meta)) + Count(defer, Meta) + 1
    BY <1>8 DEF Books, BooksInv, MetaComing
  <2>8. QED
    BY <2>5, <2>6, <2>7
<1>12. ASSUME NEW k \in Known', k \notin Known PROVE IdleFrom(k)'
  <2>1. \A l \in k .. Len(down') : l \in Len(down) + 1 .. Len(down')
    BY <1>1, <1>6, <1>12
  <2>2. \A m \in k .. Len(down') : \A l \in m .. Len(down') : l \in k .. Len(down')
    BY <1>1, <1>6, <1>12
  <2>3. QED
    BY <1>2, <2>1, <2>2 DEF IdleFrom
<1>13. QED
  BY <1>3, <1>8, <1>9, <1>10, <1>11, <1>12 DEF StateInv

LEMMA StateStep == Books /\ StateInv /\ [Next]_vars => StateInv'
<1> SUFFICES ASSUME Books, StateInv, [Next]_vars PROVE StateInv'
  OBVIOUS
<1>1. CASE WriteFrame \/ EstimateFull \/ Waited \/ SendNothing \/ Arrive
           \/ PureAck \/ Tick \/ Estop \/ EstopClear \/ UNCHANGED vars
  <2>1. UNCHANGED <<status, down, up, pending_meta_acks>>
    BY <1>1, Zenon DEF WriteFrame, EstimateFull, Waited, SendNothing, Arrive, PureAck,
                Tick, Estop, EstopClear, vars, bookVars, netVars
  <2>2. dac' \in {dac, "IDLE"}
    BY <1>1 DEF WriteFrame, EstimateFull, Waited, SendNothing, Arrive, PureAck,
                Tick, Estop, EstopClear, vars, playVars
  <2>3. pc' = "prepared" <=> pc = "prepared"
    BY <1>1 DEF WriteFrame, EstimateFull, Waited, SendNothing, Advance, Arrive,
                PureAck, Tick, Estop, EstopClear, vars, hostVars
  <2>4. QED
    BY <2>1, <2>2, <2>3, StateQuiet
<1>2. CASE EstimateIdle
  BY <1>2, StatePrepare
<1>3. CASE Estimate
  <2>1. /\ pc # "prepared" /\ pc' # "prepared" /\ BeginIfDue
        /\ UNCHANGED <<status, dac>>
    BY <1>3 DEF Estimate, Estimated, playVars
  <2>2. QED
    BY <2>1, StateBegin
<1>4. CASE PrepareAcked
  <2>1. /\ pending_meta_acks = 0 /\ pc' # "prepared" /\ BeginIfDue
        /\ UNCHANGED <<status, dac>>
    BY <1>4 DEF PrepareAcked, playVars
  <2>2. QED
    BY <2>1, StateBegin
<1>5. CASE SendData
  BY <1>5, StateSend
<1>6. CASE ReadAnswer
  BY <1>6, StateRead
<1>7. CASE Receive
  BY <1>7, StateReceiveOther, StateReceivePrepare
<1>8. QED
  BY <1>1, <1>2, <1>3, <1>4, <1>5, <1>6, <1>7 DEF Next, Worker

-----------------------------------------------------------------------------
(* The estimate of the host, and room for everything under way.            *)

LEMMA PlayedTypes ==
  ASSUME TypeOK
  PROVE  /\ \A k : Played(k) \in Nat
         /\ \A k : k # 0 => Played(k) = 0
         /\ status.state # "PLAYING" => Played(0) = 0
         /\ Played(0) <= MaxDelay
<1>1. elapsed \in 0 .. MaxDelay /\ MaxDelay \in Nat
  BY ConstantTypes DEF TypeOK
<1>2. QED
  BY <1>1 DEF Played

LEMMA EstimateInit == Init => EstimateInv
<1> SUFFICES ASSUME Init PROVE EstimateInv
  OBVIOUS
<1>1. /\ down = <<>> /\ up = <<>> /\ ackbuf = <<>> /\ fullness = 0
      /\ status = Status /\ elapsed = 0
  BY DEF Init
<1>2. Books
  BY BooksInit
<1>3. /\ InFlight = Total(PointsOf(up)) /\ Len(down) = 0
  BY <1>1, <1>2, Types DEF Books
<1>4. PointsOf(up) = <<>>
  BY <1>1 DEF PointsOf
<1>5. InFlight = 0
  BY <1>3, <1>4, TotalOne
<1>6. Known = {0} /\ Seen(0) = status
  BY <1>3 DEF Known, Seen
<1>7. Total(Unread(0)) \in Nat /\ Seen(0).full = 0 /\ Played(0) = 0
  BY <1>1, <1>2, <1>6, UnreadTypes DEF Status, Played
<1>8. QED
  BY <1>1, <1>5, <1>6, <1>7 DEF EstimateInv

(* EstimateInv is kept by a step that changes nothing it speaks of, but    *)
(* that the DAC may stop.                                                  *)
LEMMA EstimateQuiet ==
  ASSUME EstimateInv, UNCHANGED <<status, elapsed, down, ackbuf, fullness>>,
         InFlight' = InFlight, dac' \in {dac, "IDLE"}
  PROVE  EstimateInv'
<1>1. Known' = Known /\ \A k : Seen(k)' = Seen(k)
  BY SeenKept
<1>2. \A k : Unread(k)' = Unread(k) /\ Played(k)' = Played(k)
  BY DEF Unread, Played
<1>3. QED
  BY <1>1, <1>2 DEF EstimateInv

LEMMA UnreadAppend ==
  ASSUME Books, ackbuf' = Append(ackbuf, n), n \in Nat, down' = down,
         NEW k \in Known
  PROVE  Total(Unread(k)') = Total(Unread(k)) + n
<1>1. ackbuf \in Seq(Nat) /\ Len(ackbuf) \in Nat
  BY Types DEF Books
<1> DEFINE c == Count(SubSeq(down, 1, k), AnswersTo({"d"}))
<1>2. c \in 0 .. Len(ackbuf)
  <2>1. c \in 0 .. Len(ackbuf) - Flying /\ Flying \in 0 .. Len(ackbuf)
    BY UnreadTypes, FlyingBounds
  <2>2. QED
    BY <1>1, <2>1
<1>3. Unread(k) = Drop(ackbuf, c) /\ Unread(k)' = Drop(Append(ackbuf, n), c)
  BY DEF Unread
<1> HIDE DEF c
<1>4. Drop(Append(ackbuf, n), c) = Append(Drop(ackbuf, c), n)
  BY <1>1, <1>2, DropAppend
<1>5. Drop(ackbuf, c) \in Seq(Nat)
  BY <1>1, <1>2, Dropped
<1>6. QED
  BY <1>3, <1>4, <1>5, TotalAppend

LEMMA EstimateSend ==
  ASSUME Books, EstimateInv, SendData
  PROVE  EstimateInv'
<1>0. TypeOK
  BY DEF Books
<1> DEFINE x == [cmds |-> <<"q", "d">>, n |-> n, acked |-> toAck]
<1>1. /\ n > 0 /\ SendAll(<<"q", "d">>, n) /\ ackbuf' = Append(ackbuf, n)
      /\ UNCHANGED <<status, elapsed, fullness, dac, defer>>
  BY DEF SendData, playVars, replyVars
<1>2. down' = down
  BY <1>1 DEF SendAll
<1>3. x \in Segments
  BY <1>0, <1>1, SentSegments DEF Segments
<1>4. InFlight' = InFlight + n
  BY <1>0, <1>1, <1>3, Sending
<1>5. n \in Nat
  BY <1>0, <1>1 DEF TypeOK
<1>6. Known' = Known /\ \A k : Seen(k)' = Seen(k) /\ Played(k)' = Played(k)
  BY <1>1, <1>2, SeenKept DEF Played
<1>7. \A k \in Known : Total(Unread(k)') = Total(Unread(k)) + n
  BY <1>1, <1>2, <1>5, UnreadAppend
<1>8. ASSUME dac # "IDLE", NEW k \in Known
      PROVE  fullness + InFlight' + Played(k) <= Seen(k).full + Total(Unread(k)')
  <2>1. fullness + InFlight + Played(k) <= Seen(k).full + Total(Unread(k))
    BY <1>8 DEF EstimateInv
  <2>2. /\ fullness \in Nat /\ InFlight \in Nat /\ Played(k) \in Nat
    BY <1>0, Types, PlayedTypes
  <2>3. Seen(k).full \in Nat /\ Total(Unread(k)) \in Nat
    <3>1. Seen(k).full \in 0 .. Capacity
      BY <1>0, SeenTypes
    <3>2. QED
      BY <3>1, UnreadTypes
  <2>4. Total(Unread(k)') = Total(Unread(k)) + n
    BY <1>7
  <2>5. QED
    BY <1>4, <1>5, <2>1, <2>2, <2>3, <2>4
<1>9. QED
  BY <1>1, <1>6, <1>8 DEF EstimateInv

LEMMA EstimateRead ==
  ASSUME Books, EstimateInv, ReadAnswer
  PROVE  EstimateInv'
<1>0. TypeOK
  BY DEF Books
<1>1. \A k \in Known' : /\ k + 1 \in Known /\ Seen(k)' = Seen(k + 1)
                        /\ Unread(k)' = Unread(k + 1)
  BY SeenRead
<1>2. InFlight' = InFlight
  BY <1>0, Reading
<1>3. UNCHANGED <<fullness, dac>> /\ elapsed' = 0
  BY DEF ReadAnswer, playVars
<1>4. \A k : Played(k)' = 0
  BY <1>3 DEF Played
<1>5. ASSUME dac # "IDLE", NEW k \in Known'
      PROVE  fullness + InFlight + 0 <= Seen(k + 1).full + Total(Unread(k + 1))
  <2>1. k + 1 \in Known
    BY <1>1
  <2>2. fullness + InFlight + Played(k + 1)
          <= Seen(k + 1).full + Total(Unread(k + 1))
    BY <1>5, <2>1 DEF EstimateInv
  <2>3. fullness \in Nat /\ InFlight \in Nat /\ Played(k + 1) \in Nat
    BY <1>0, Types, PlayedTypes
  <2>4. Seen(k + 1).full \in Nat /\ Total(Unread(k + 1)) \in Nat
    <3>1. Seen(k + 1).full \in 0 .. Capacity
      BY <1>0, <2>1, SeenTypes
    <3>2. QED
      BY <2>1, <3>1, UnreadTypes
  <2>5. QED
    BY <2>2, <2>3, <2>4
<1>6. QED
  BY <1>1, <1>2, <1>3, <1>4, <1>5 DEF EstimateInv

LEMMA EstimateTick ==
  ASSUME Books, StateInv, EstimateInv, Tick
  PROVE  EstimateInv'
<1>0. TypeOK
  BY DEF Books
<1>1. /\ elapsed' = IF status.state = "PLAYING" THEN Least(elapsed + 1, MaxDelay)
                    ELSE 0
      /\ dac' = IF dac = "PLAYING" /\ fullness = 0 THEN "IDLE" ELSE dac
      /\ fullness' = IF dac = "PLAYING" /\ fullness > 0 THEN fullness - 1
                     ELSE fullness
      /\ UNCHANGED <<status, down, up, ackbuf>>
  BY DEF Tick, bookVars, netVars
<1>2. Known' = Known /\ InFlight' = InFlight
  BY <1>1, SeenKept DEF InFlight
<1>3. \A k : Seen(k)' = Seen(k) /\ Unread(k)' = Unread(k)
  BY <1>1, SeenKept DEF Unread
<1>4. ASSUME dac' # "IDLE", NEW k \in Known
      PROVE  fullness' + InFlight + Played(k)' <= Seen(k).full + Total(Unread(k))
  <2>1. dac # "IDLE" /\ dac' = dac
    BY <1>1, <1>4
  <2>2. fullness + InFlight + Played(k) <= Seen(k).full + Total(Unread(k))
    BY <1>4, <2>1 DEF EstimateInv
  <2>3. fullness \in Nat /\ InFlight \in Nat /\ Played(k) \in Nat
    BY <1>0, Types, PlayedTypes
  <2>4. Seen(k).full \in Nat /\ Total(Unread(k)) \in Nat
    <3>1. Seen(k).full \in 0 .. Capacity
      BY <1>0, <1>4, SeenTypes
    <3>2. QED
      BY <1>4, <3>1, UnreadTypes
  <2>5. elapsed \in Nat /\ elapsed <= MaxDelay /\ MaxDelay \in Nat
    BY <1>0, Types, ConstantTypes
  <2>6. CASE dac = "PLAYING"
    <3>1. fullness > 0 /\ fullness' = fullness - 1
      BY <1>1, <1>4, <2>3, <2>6
    <3>2. Played(k)' \in Nat /\ Played(k)' <= Played(k) + 1
      BY <1>1, <2>5 DEF Played, Least
    <3>3. QED
      BY <2>2, <2>3, <2>4, <3>1, <3>2
  <2>7. CASE dac # "PLAYING"
    <3>1. dac = "PREPARED" /\ fullness' = fullness
      BY <1>0, <1>1, <2>1, <2>7 DEF TypeOK, DacStates
    <3>2. 0 \in Known /\ Seen(0) = status
      BY <1>0, SeenTypes
    <3>3. status.state # "PLAYING"
      BY <3>1, <3>2 DEF StateInv
    <3>4. Played(k)' = 0
      BY <1>1, <3>3 DEF Played
    <3>5. QED
      BY <2>2, <2>3, <2>4, <3>1, <3>4
  <2>8. QED
    BY <2>6, <2>7
<1>5. QED
  BY <1>2, <1>3, <1>4 DEF EstimateInv

LEMMA LoadReceived ==
  ASSUME Books, StateInv, Receive, dac' # "IDLE"
  PROVE  /\ fullness' \in Nat /\ InFlight' \in Nat
         /\ \/ RSeg.cmds = <<"p">> /\ fullness' = 0 /\ InFlight' = 0
            \/ /\ RSeg.cmds # <<"p">> /\ dac # "IDLE"
               /\ fullness' + InFlight' <= fullness + InFlight
<1>0. TypeOK
  BY DEF Books
<1>1. Books'
  BY BooksStep DEF Next
<1>2. /\ dac' = REnd.state /\ fullness' = REnd.full /\ up # <<>> /\ up' = Tail(up)
  BY Received
<1>3. /\ RSeg \in Segments /\ InFlight' = InFlight - RSeg.n /\ InFlight' \in Nat
  BY <1>0, Receiving
<1>4. RSeg.n \in Nat /\ RSeg.cmds \in {<<"p">>, <<"b">>, <<"q", "d">>}
  BY <1>3, SegmentFields
<1>5. fullness \in Nat /\ InFlight \in Nat /\ Capacity \in Nat
  BY <1>0, Types, ConstantTypes
<1>6. fullness' \in Nat
  <2>1. fullness' \in 0 .. Capacity
    BY <1>1 DEF Books, TypeOK
  <2>2. QED
    BY <2>1
<1>7. CASE RSeg.cmds = <<"p">>
  <2>1. Len(up) = 1 /\ dac = "IDLE"
    BY <1>0, <1>2, <1>7, PrepareAlone
  <2>2. fullness' = 0
    <3>1. REnd = IF dac = "IDLE" /\ ready
                 THEN [state |-> "PREPARED", full |-> 0] ELSE Status
      BY <1>0, <1>2, <1>7, ReceiveEnd
    <3>2. QED
      BY <1>2, <2>1, <3>1 DEF Status
  <2>3. up' = <<>>
    <3>1. up \in Seq(Segments)
      BY <1>0, Types
    <3>2. Tail(up) \in Seq(Segments) /\ Len(Tail(up)) = 0
      BY <1>2, <2>1, <3>1, HeadAndTail
    <3>3. QED
      BY <1>2, <3>2, EmptySeq
  <2>4. PointsOf(up') = <<>>
    BY <2>3 DEF PointsOf
  <2>5. InFlight' = Total(PointsOf(up'))
    BY DEF InFlight, PointsOf
  <2>6. InFlight' = 0
    BY <2>4, <2>5, TotalOne
  <2>7. QED
    BY <1>3, <1>6, <1>7, <2>2, <2>6
<1>8. CASE RSeg.cmds = <<"b">>
  <2>1. REnd = IF dac = "PREPARED"
               THEN [state |-> "PLAYING", full |-> fullness] ELSE Status
    BY <1>0, <1>2, <1>8, ReceiveEnd
  <2>2. fullness' = fullness /\ dac # "IDLE"
    BY <1>2, <2>1 DEF Status
  <2>3. RSeg.cmds # <<"p">>
    BY <1>8
  <2>4. QED
    BY <1>3, <1>4, <1>5, <1>6, <2>2, <2>3
<1>9. CASE RSeg.cmds = <<"q", "d">>
  <2>1. REnd = IF dac # "IDLE"
               THEN [state |-> dac,
                     full |-> Least(fullness + RSeg.n, Capacity)]
               ELSE Status
    BY <1>0, <1>2, <1>9, ReceiveEnd
  <2>2. dac # "IDLE"
    BY <1>2, <2>1 DEF Status
  <2>3. fullness' = Least(fullness + RSeg.n, Capacity)
    BY <1>2, <2>1, <2>2
  <2>4. fullness' <= fullness + RSeg.n
    BY <1>4, <1>5, <2>3 DEF Least
  <2>5. RSeg.cmds # <<"p">>
    BY <1>9
  <2>6. QED
    BY <1>3, <1>4, <1>5, <1>6, <2>2, <2>4, <2>5
<1>10. QED
  BY <1>4, <1>7, <1>8, <1>9

(* The bounds of EstimateInv are numbers, for every status, now and after  *)
(* a step.                                                                 *)
LEMMA Bounds ==
  Books /\ FlightInv =>
    \A k \in Known : /\ Seen(k).full \in Nat /\ Total(Unread(k)) \in Nat
                     /\ InFlight <= Total(Unread(k))
                     /\ Total(Unread(k)) <= Total(ackbuf)
<1> SUFFICES ASSUME Books, FlightInv, NEW k \in Known
             PROVE  /\ Seen(k).full \in Nat /\ Total(Unread(k)) \in Nat
                    /\ InFlight <= Total(Unread(k))
                    /\ Total(Unread(k)) <= Total(ackbuf)
  OBVIOUS
<1>1. Seen(k).full \in 0 .. Capacity
  BY SeenTypes DEF Books
<1>2. Total(Unread(k)) <= Total(ackbuf)
  <2> DEFINE c == Count(SubSeq(down, 1, k), AnswersTo({"d"}))
  <2>1. /\ c \in 0 .. Len(ackbuf) - Flying /\ Flying \in 0 .. Len(ackbuf)
        /\ Len(ackbuf) \in Nat /\ ackbuf \in Seq(Nat)
    BY UnreadTypes, FlyingBounds, Types DEF Books
  <2>2. Unread(k) = Drop(ackbuf, c)
    BY DEF Unread
  <2> HIDE DEF c
  <2>3. c \in 0 .. Len(ackbuf) /\ 0 \in 0 .. c
    BY <2>1
  <2>4. Total(Drop(ackbuf, c)) <= Total(Drop(ackbuf, 0))
    BY <2>1, <2>3, TotalOrder
  <2>5. QED
    BY <2>1, <2>2, <2>4, DropAll
<1>3. QED
  BY <1>1, <1>2, UnreadTypes, UnreadFlight

LEMMA BoundsNext ==
  (Books /\ FlightInv =>
     \A k \in Known : /\ Seen(k).full \in Nat /\ Total(Unread(k)) \in Nat
                      /\ InFlight <= Total(Unread(k))
                      /\ Total(Unread(k)) <= Total(ackbuf))'
BY Bounds, PTL

LEMMA Sums ==
  ASSUME NEW a \in Nat, NEW b \in Nat, NEW c \in Nat, NEW d \in Nat, a + b <= c + d
  PROVE  /\ \A e, r \in Nat : c + d + e <= r => a + b + e <= r
         /\ \A r \in Nat : d <= r => a + b + 0 <= c + r
OBVIOUS

LEMMA EstimateReceive ==
  ASSUME Books, FlightInv, StateInv, EstimateInv, Receive
  PROVE  EstimateInv'
<1>0. TypeOK
  BY DEF Books
<1>1. Books' /\ FlightInv'
  BY BooksStep, FlightStep DEF Next
<1>2. /\ Len(down') \in Nat /\ Len(down) \in Nat /\ Len(down) <= Len(down')
      /\ \A k \in Known : k \in Known' /\ Seen(k)' = Seen(k) /\ Unread(k)' = Unread(k)
      /\ \A k \in Len(down) + 1 .. Len(down') :
           \/ Seen(k)' = REnd
           \/ /\ RSeg \in DataSegments /\ Seen(k)' = Status
              /\ Count(SubSeq(down', 1, k), AnswersTo({"d"}))
                   = Count(down, AnswersTo({"d"}))
  BY SeenReceived
<1>3. /\ UNCHANGED <<status, elapsed, ackbuf>> /\ up # <<>>
      /\ fullness' = REnd.full
  BY Received DEF bookVars
<1>4. \A k : Played(k)' = Played(k)
  BY <1>3 DEF Played
<1>5. SUFFICES ASSUME dac' # "IDLE", NEW k \in Known'
               PROVE  fullness' + InFlight' + Played(k)'
                        <= Seen(k)'.full + Total(Unread(k)')
  BY DEF EstimateInv
<1>6. /\ fullness' \in Nat /\ InFlight' \in Nat
      /\ \/ RSeg.cmds = <<"p">> /\ fullness' = 0 /\ InFlight' = 0
         \/ /\ RSeg.cmds # <<"p">> /\ dac # "IDLE"
            /\ fullness' + InFlight' <= fullness + InFlight
  BY <1>5, LoadReceived
<1>7. /\ fullness \in Nat /\ InFlight \in Nat /\ Played(k) \in Nat
  BY <1>0, Types, PlayedTypes
<1>8. /\ Seen(k)'.full \in Nat /\ Total(Unread(k)') \in Nat
      /\ InFlight' <= Total(Unread(k)')
  BY <1>1, <1>5, BoundsNext
<1>9. CASE k \in Known
  <2>1. Seen(k)' = Seen(k) /\ Unread(k)' = Unread(k)
    BY <1>2, <1>9
  <2>2. CASE RSeg.cmds = <<"p">>
    <3>1. 0 \in Known /\ Seen(0) = status /\ \A j \in Known : Seen(j).state = "IDLE"
      BY <1>0, <1>3, <2>2, PrepareAlone, SeenTypes
    <3>2. status.state # "PLAYING"
      BY <3>1
    <3>3. Played(k) = 0
      BY <3>2 DEF Played
    <3>4. fullness' = 0 /\ InFlight' = 0 /\ Played(k)' = 0
      BY <1>4, <1>6, <2>2, <3>3
    <3>5. QED
      BY <1>8, <3>4
  <2>3. CASE RSeg.cmds # <<"p">>
    <3>1. dac # "IDLE" /\ fullness' + InFlight' <= fullness + InFlight
      BY <1>6, <2>3
    <3>2. fullness + InFlight + Played(k) <= Seen(k).full + Total(Unread(k))
      BY <1>9, <3>1 DEF EstimateInv
    <3>3. fullness + InFlight + Played(k) <= Seen(k)'.full + Total(Unread(k)')
      BY <2>1, <3>2, Zenon
    <3>4. Played(k)' = Played(k)
      BY <1>4
    <3> DEFINE r == Seen(k)'.full + Total(Unread(k)')
    <3>5. r \in Nat /\ fullness + InFlight + Played(k) <= r
      BY <1>8, <3>3
    <3> HIDE DEF r
    <3>6. fullness' + InFlight' + Played(k) <= r
      BY <1>6, <1>7, <3>1, <3>5, Sums
    <3>7. fullness' + InFlight' + Played(k)' <= r
      BY <3>4, <3>6, Zenon
    <3>8. QED
      BY <3>7 DEF r
  <2>4. QED
    BY <2>2, <2>3
<1>10. CASE k \notin Known
  <2>1. k \in Len(down) + 1 .. Len(down') /\ k # 0
    BY <1>2, <1>5, <1>10 DEF Known
  <2>2. Played(k)' = 0
    BY <2>1 DEF Played
  <2>3. CASE Seen(k)' = REnd
    <3>1. Seen(k)'.full = fullness'
      BY <1>3, <2>3
    <3>2. InFlight' <= Total(Unread(k)')
      BY <1>8
    <3>3. QED
      BY <1>6, <1>8, <2>2, <3>1, <3>2
  <2>4. CASE /\ RSeg \in DataSegments /\ Seen(k)' = Status
             /\ Count(SubSeq(down', 1, k), AnswersTo({"d"}))
                  = Count(down, AnswersTo({"d"}))
    <3>1. Seen(k)'.full = fullness
      BY <2>4 DEF Status
    <3>2. Len(down) \in Known /\ SubSeq(down, 1, Len(down)) = down
      <4>1. down \in Seq(Answers)
        BY <1>0, Types
      <4>2. QED
        BY <1>2, <4>1, SubSeqFull DEF Known
    <3>3. Unread(k)' = Unread(Len(down))
      BY <1>3, <2>4, <3>2 DEF Unread
    <3>4. InFlight <= Total(Unread(Len(down)))
      BY <3>2, UnreadFlight
    <3>5. InFlight <= Total(Unread(k)')
      BY <3>3, <3>4, Zenon
    <3>6. RSeg.cmds # <<"p">>
      <4>1. RSeg \in Segments
        BY <2>4 DEF Segments
      <4>2. RSeg.cmds = <<"q", "d">>
        BY <2>4, <4>1, SegmentFields
      <4>3. QED
        BY <4>2
    <3>7. fullness' + InFlight' <= fullness + InFlight
      BY <1>6, <3>6
    <3> DEFINE r == Total(Unread(k)')
    <3>8. r \in Nat /\ InFlight <= r
      BY <1>8, <3>5
    <3> HIDE DEF r
    <3>9. fullness' + InFlight' + 0 <= fullness + r
      BY <1>6, <1>7, <3>7, <3>8, Sums
    <3>10. fullness' + InFlight' + Played(k)' <= Seen(k)'.full + r
      BY <2>2, <3>1, <3>9, Zenon
    <3>11. QED
      BY <3>10 DEF r
  <2>5. QED
    BY <1>2, <2>1, <2>3, <2>4
<1>11. QED
  BY <1>9, <1>10

LEMMA EstimateStep ==
  Books /\ FlightInv /\ StateInv /\ EstimateInv /\ [Next]_vars => EstimateInv'
<1> SUFFICES ASSUME Books, FlightInv, StateInv, EstimateInv, [Next]_vars
             PROVE  EstimateInv'
  OBVIOUS
<1>0. TypeOK
  BY DEF Books
<1>1. CASE WriteFrame \/ EstimateFull \/ Waited \/ SendNothing \/ Arrive
           \/ PureAck \/ Estop \/ EstopClear \/ UNCHANGED vars
  <2>1. UNCHANGED <<status, elapsed, down, ackbuf, fullness, up>>
    BY <1>1, Zenon DEF WriteFrame, EstimateFull, Waited, SendNothing, Arrive, PureAck,
                Estop, EstopClear, vars, bookVars, netVars, playVars
  <2>2. dac' \in {dac, "IDLE"}
    BY <1>1 DEF WriteFrame, EstimateFull, Waited, SendNothing, Arrive, PureAck,
                Estop, EstopClear, vars, playVars
  <2>3. InFlight' = InFlight
    BY <2>1 DEF InFlight
  <2>4. QED
    BY <2>1, <2>2, <2>3, EstimateQuiet
<1>2. CASE EstimateIdle
  <2> DEFINE x == [cmds |-> <<"p">>, n |-> 0, acked |-> toAck]
  <2>1. /\ SendAll(<<"p">>, 0)
        /\ UNCHANGED <<status, elapsed, ackbuf, fullness, dac, defer>>
    BY <1>2 DEF EstimateIdle, Estimated, playVars, replyVars
  <2>2. down' = down
    BY <2>1 DEF SendAll
  <2>3. x \in Segments
    BY <1>0, SentSegments
  <2>4. InFlight' = InFlight + 0 /\ InFlight \in Nat
    BY <1>0, <2>1, <2>3, Sending, Types
  <2>5. InFlight' = InFlight
    BY <2>4
  <2>6. QED
    BY <2>1, <2>2, <2>5, EstimateQuiet
<1>3. CASE Estimate \/ PrepareAcked
  <2>1. BeginIfDue /\ UNCHANGED <<ackbuf, defer, status, elapsed, fullness, dac>>
    BY <1>3 DEF Estimate, Estimated, PrepareAcked, replyVars, playVars
  <2>2. down' = down
    BY <2>1 DEF BeginIfDue, SendAll, netVars
  <2>3. InFlight' = InFlight
    BY <2>1, FlightBegin
  <2>4. QED
    BY <2>1, <2>2, <2>3, EstimateQuiet
<1>4. CASE SendData
  BY <1>4, EstimateSend
<1>5. CASE ReadAnswer
  BY <1>5, EstimateRead
<1>6. CASE Tick
  BY <1>6, EstimateTick
<1>7. CASE Receive
  BY <1>7, EstimateReceive
<1>8. QED
  BY <1>1, <1>2, <1>3, <1>4, <1>5, <1>6, <1>7 DEF Next, Worker

LEMMA RoomInit == Init => RoomInv
<1> SUFFICES ASSUME Init PROVE RoomInv
  OBVIOUS
<1>1. /\ up = <<>> /\ fullness = 0 /\ pc = "idle" /\ Target \in Nat
  BY ConstantTypes DEF Init
<1>2. InFlight = Total(PointsOf(up)) /\ PointsOf(up) = <<>>
  BY <1>1, BooksInit, Types DEF Books, PointsOf
<1>3. InFlight = 0
  BY <1>2, TotalOne
<1>4. QED
  BY <1>1, <1>3 DEF RoomInv, RoomForAll

LEMMA SumsOfRoom ==
  /\ \A a, b, c, d, t \in Nat : c + d <= a + b /\ a + b <= t => c + d <= t
  /\ \A a, b, c, d, t \in Nat : \A e \in Int :
       c + d <= a + b /\ a + b + e <= t => c + d + e <= t
  /\ \A a, b, p, s, u, t \in Nat : \A e \in Int :
       a + b + p <= s + u /\ e <= t - (s + u - p) => a + b + e <= t
  /\ \A a, b, c \in Nat : c <= a => c + b <= a + b
  /\ \A a, b, c \in Int : c <= a - b => b + c <= a
OBVIOUS

(* What the host sends fits by its estimate, and so it does fit.           *)
LEMMA RoomEstimated ==
  ASSUME Books, EstimateInv, RoomInv, Estimated, InFlight' = InFlight,
         Preparing' => status.state # "PLAYING"
  PROVE  RoomInv'
<1>0. TypeOK
  BY DEF Books
<1>1. UNCHANGED <<dac, fullness>>
  BY DEF Estimated, playVars
<1>2. cap \in Int /\ n' \in Int /\ n' <= cap
  BY <1>0, Capped
<1>3. /\ fullness \in Nat /\ InFlight \in Nat /\ Target \in Nat /\ Played(0) \in Nat
      /\ Total(ackbuf) \in Nat
  BY <1>0, Types, PlayedTypes, ConstantTypes
<1>4. 0 \in Known /\ Seen(0) = status /\ status.full \in Nat
  <2>1. 0 \in Known /\ Seen(0) = status /\ Seen(0).full \in 0 .. Capacity
    BY <1>0, SeenTypes
  <2>2. QED
    BY <2>1
<1>5. Unread(0) = ackbuf
  <2>1. /\ ackbuf \in Seq(Nat) /\ down \in Seq(Answers)
    BY <1>0, Types
  <2>2. SubSeq(down, 1, 0) = <<>>
    BY <2>1, SubSeqEmpty
  <2>3. Unread(0) = Drop(ackbuf, 0)
    BY <2>2, CountOne DEF Unread
  <2>4. QED
    BY <2>1, <2>3, DropAll
<1>6. unacked_points = Total(ackbuf)
  BY DEF Books, BooksInv
<1>7. cap = Target - (status.full + Total(ackbuf) - Played(0))
  BY <1>6 DEF cap, expected_fullness, Played
<1>8. ASSUME dac # "IDLE" PROVE fullness + InFlight + n' <= Target
  <2>1. fullness + InFlight + Played(0) <= status.full + Total(ackbuf)
    BY <1>4, <1>5, <1>8 DEF EstimateInv
  <2> DEFINE t == Total(ackbuf)
             p == Played(0)
             s == status.full
  <2>2. /\ t \in Nat /\ p \in Nat /\ s \in Nat /\ cap = Target - (s + t - p)
        /\ fullness + InFlight + p <= s + t
    BY <1>3, <1>4, <1>7, <2>1
  <2> HIDE DEF t, p, s, cap
  <2>3. n' <= Target - (s + t - p)
    BY <1>2, <2>2, Zenon
  <2>4. QED
    BY <1>2, <1>3, <2>2, <2>3, SumsOfRoom, Zenon
<1>9. ASSUME Preparing' PROVE n' <= Target
  <2>1. Played(0) = 0
    BY <1>9 DEF Played
  <2>2. cap = Target - (status.full + Total(ackbuf) - 0)
    BY <1>7, <2>1, Zenon
  <2> DEFINE t == Total(ackbuf)
             s == status.full
  <2>3. t \in Nat /\ s \in Nat /\ cap = Target - (s + t - 0)
    BY <1>3, <1>4, <2>2
  <2> HIDE DEF t, s, cap
  <2>4. cap <= Target
    BY <1>3, <2>3
  <2>5. QED
    BY <1>2, <1>3, <2>4
<1>10. (dac # "IDLE" => fullness + InFlight <= Target)'
  BY <1>1 DEF RoomInv, RoomForAll
<1>11. QED
  BY <1>1, <1>8, <1>9, <1>10 DEF RoomInv, RoomForAll

(* RoomInv is kept by a step that adds no points and does not change what  *)
(* the worker is about to send.                                            *)
LEMMA RoomKept ==
  ASSUME Books, RoomInv, n' = n, fullness' \in Nat, InFlight' \in Nat,
         dac' # "IDLE" => /\ dac # "IDLE"
                          /\ fullness' + InFlight' <= fullness + InFlight,
         pc' \in {"prepared", "acks"} /\ n > 0 =>
           /\ pc \in {"prepared", "acks"}
           /\ Preparing' => Preparing
  PROVE  RoomInv'
<1>1. /\ fullness \in Nat /\ InFlight \in Nat /\ Target \in Nat /\ n \in Int
  BY Types, ConstantTypes DEF Books, TypeOK
<1>2. ASSUME dac' # "IDLE" PROVE fullness' + InFlight' <= Target
  <2>1. /\ fullness + InFlight <= Target
        /\ fullness' + InFlight' <= fullness + InFlight
    BY <1>2 DEF RoomInv, RoomForAll
  <2>2. QED
    BY <1>1, <2>1, SumsOfRoom, Zenon
<1>3. ASSUME dac' # "IDLE", pc' \in {"prepared", "acks"}, n > 0
      PROVE  fullness' + InFlight' + n <= Target
  <2>1. /\ fullness + InFlight + n <= Target
        /\ fullness' + InFlight' <= fullness + InFlight
    BY <1>3 DEF RoomInv
  <2>2. QED
    BY <1>1, <2>1, SumsOfRoom, Zenon
<1>4. ASSUME Preparing', pc' \in {"prepared", "acks"}, n > 0 PROVE n <= Target
  BY <1>4 DEF RoomInv
<1>5. QED
  BY <1>2, <1>3, <1>4 DEF RoomInv, RoomForAll

LEMMA RoomStep ==
  Books /\ FlightInv /\ StateInv /\ EstimateInv /\ RoomInv /\ [Next]_vars
    => RoomInv'
<1> SUFFICES ASSUME Books, FlightInv, StateInv, EstimateInv, RoomInv, [Next]_vars
             PROVE  RoomInv'
  OBVIOUS
<1>0. TypeOK
  BY DEF Books
<1>t. /\ fullness \in Nat /\ InFlight \in Nat /\ n \in Int /\ Target \in Nat
  BY <1>0, Types, ConstantTypes DEF TypeOK
<1>1. CASE WriteFrame \/ EstimateFull \/ Waited \/ Arrive \/ PureAck \/ Estop
           \/ EstopClear \/ UNCHANGED vars \/ ReadAnswer
  <2>1. UNCHANGED <<n, fullness, up>>
    BY <1>1, Zenon DEF WriteFrame, EstimateFull, Waited, Arrive, PureAck, ReadAnswer,
                Estop, EstopClear, vars, hostVars, netVars, playVars
  <2>2. dac' \in {dac, "IDLE"}
    BY <1>1 DEF WriteFrame, EstimateFull, Waited, Arrive, PureAck, ReadAnswer,
                Estop, EstopClear, vars, playVars
  <2>3. pc' \in {"prepared", "acks"} => pc' = pc
    BY <1>1 DEF WriteFrame, EstimateFull, Waited, Arrive, PureAck, ReadAnswer,
                Estop, EstopClear, vars, hostVars
  <2>4. InFlight' = InFlight /\ Preparing' = Preparing
    BY <2>1 DEF InFlight, Preparing
  <2>5. QED
    BY <1>t, <2>1, <2>2, <2>3, <2>4, RoomKept
<1>2. CASE SendNothing
  <2>1. /\ n' = 0 /\ UNCHANGED <<up, fullness, dac>>
    BY <1>2 DEF SendNothing, netVars, playVars
  <2>2. InFlight' = InFlight
    BY <2>1 DEF InFlight
  <2>3. QED
    BY <2>1, <2>2 DEF RoomInv, RoomForAll
<1>3. CASE EstimateIdle
  <2> DEFINE x == [cmds |-> <<"p">>, n |-> 0, acked |-> toAck]
  <2>1. Estimated /\ SendAll(<<"p">>, 0) /\ UNCHANGED defer /\ status.state = "IDLE"
    BY <1>3 DEF EstimateIdle, Estimated, replyVars
  <2>2. x \in Segments
    BY <1>0, SentSegments
  <2>3. InFlight' = InFlight + 0
    BY <1>0, <2>1, <2>2, Sending
  <2>4. InFlight' = InFlight
    BY <1>t, <2>3
  <2>5. QED
    BY <2>1, <2>4, RoomEstimated
<1>4. CASE Estimate
  <2>1. /\ Estimated /\ BeginIfDue /\ pc # "prepared" /\ pc' # "prepared"
        /\ UNCHANGED <<ackbuf, defer, status, dac>>
    BY <1>4 DEF Estimate, Estimated, replyVars, playVars
  <2>2. InFlight' = InFlight
    BY <2>1, FlightBegin
  <2>3. StateInv'
    BY <2>1, StateBegin
  <2>4. ~Preparing'
    BY <2>1, <2>3 DEF StateInv, Preparing
  <2>5. QED
    BY <2>1, <2>2, <2>4, RoomEstimated
<1>5. CASE PrepareAcked
  <2>1. /\ BeginIfDue /\ pc = "prepared" /\ pc' # "prepared"
        /\ pending_meta_acks = 0
        /\ UNCHANGED <<ackbuf, defer, status, dac, n, fullness>>
    BY <1>5 DEF PrepareAcked, replyVars, playVars
  <2>2. InFlight' = InFlight
    BY <2>1, FlightBegin
  <2>3. StateInv'
    BY <2>1, StateBegin
  <2>4. ~Preparing'
    BY <2>1, <2>3 DEF StateInv, Preparing
  <2>5. QED
    BY <1>t, <2>1, <2>2, <2>4, RoomKept
<1>6. CASE SendData
  <2> DEFINE x == [cmds |-> <<"q", "d">>, n |-> n, acked |-> toAck]
  <2>1. /\ pc = "acks" /\ n > 0 /\ n' = 0 /\ SendAll(<<"q", "d">>, n)
        /\ UNCHANGED <<fullness, dac, defer>>
    BY <1>6 DEF SendData, playVars, replyVars
  <2>2. x \in Segments
    BY <1>0, <2>1, SentSegments DEF Segments
  <2>3. InFlight' = InFlight + n
    BY <1>0, <2>1, <2>2, Sending
  <2>4. dac # "IDLE" => fullness + InFlight + n <= Target
    BY <2>1 DEF RoomInv
  <2>5. dac # "IDLE" => fullness + InFlight' <= Target
    BY <1>t, <2>3, <2>4
  <2>6. QED
    BY <2>1, <2>5 DEF RoomInv, RoomForAll
<1>7. CASE Tick
  <2>1. /\ UNCHANGED <<n, up, pc>>
        /\ dac' = IF dac = "PLAYING" /\ fullness = 0 THEN "IDLE" ELSE dac
        /\ fullness' = IF dac = "PLAYING" /\ fullness > 0 THEN fullness - 1
                       ELSE fullness
    BY <1>7 DEF Tick, netVars, hostVars
  <2>2. InFlight' = InFlight /\ Preparing' = Preparing
    BY <2>1 DEF InFlight, Preparing
  <2>3. fullness' \in Nat /\ fullness' <= fullness
    BY <1>t, <2>1
  <2>4. fullness' + InFlight' <= fullness + InFlight
    <3>1. fullness' + InFlight <= fullness + InFlight
      BY <1>t, <2>3, SumsOfRoom, Zenon
    <3>2. QED
      BY <2>2, <3>1, Zenon
  <2>5. QED
    BY <1>t, <2>1, <2>2, <2>3, <2>4, RoomKept
<1>8. CASE Receive
  <2>1. UNCHANGED <<pc, n>> /\ up # <<>> /\ up' = Tail(up)
    BY <1>8, Received DEF hostVars
  <2>2. up \in Seq(Segments) /\ RSeg = up[1]
    BY <1>0, <2>1, Types, ReceiveBounds
  <2>3. /\ Len(up) \in Nat \ {0} /\ up' \in Seq(Segments)
        /\ Len(up') = Len(up) - 1
        /\ \A i \in 1 .. Len(up) - 1 : up'[i] = up[i + 1]
    BY <2>1, <2>2, HeadAndTail
  <2>4. Preparing' => Preparing
    <3>1. \A i \in DOMAIN up' : i + 1 \in DOMAIN up /\ up'[i] = up[i + 1]
      BY <2>2, <2>3, LenProperties
    <3>2. QED
      BY <3>1 DEF Preparing
  <2>5. CASE RSeg.cmds = <<"p">>
    <3>1. ASSUME dac' # "IDLE" PROVE fullness' = 0 /\ InFlight' = 0
      BY <1>8, <2>5, <3>1, LoadReceived
    <3>2. Preparing
      <4>1. 1 \in DOMAIN up
        BY <2>2, <2>3, LenProperties
      <4>2. QED
        BY <2>2, <2>5, <4>1 DEF Preparing
    <3>3. pc \in {"prepared", "acks"} /\ n > 0 => n <= Target
      BY <3>2 DEF RoomInv
    <3>4. dac' # "IDLE" /\ pc' \in {"prepared", "acks"} /\ n' > 0
            => fullness' + InFlight' + n' <= Target
      BY <1>t, <2>1, <3>1, <3>3
    <3>5. dac' # "IDLE" => fullness' + InFlight' <= Target
      BY <1>t, <3>1
    <3>6. QED
      BY <2>1, <3>3, <3>4, <3>5 DEF RoomInv, RoomForAll
  <2>6. CASE RSeg.cmds # <<"p">>
    <3>1. dac' # "IDLE" =>
            /\ dac # "IDLE" /\ fullness' \in Nat /\ InFlight' \in Nat
            /\ fullness' + InFlight' <= fullness + InFlight
      BY <1>8, <2>6, LoadReceived
    <3>2. fullness' \in Nat /\ InFlight' \in Nat
      <4>1. InFlight' \in Nat
        BY <1>0, <1>8, Receiving
      <4>2. TypeOK'
        BY <1>8, BooksStep DEF Books, Next
      <4>3. fullness' \in 0 .. Capacity
        BY <4>2 DEF TypeOK
      <4>4. QED
        BY <4>1, <4>3
    <3>3. QED
      BY <2>1, <2>4, <3>1, <3>2, RoomKept
  <2>7. QED
    BY <2>5, <2>6
<1>9. QED
  BY <1>1, <1>2, <1>3, <1>4, <1>5, <1>6, <1>7, <1>8 DEF Next, Worker

-----------------------------------------------------------------------------
(* What holds however late or out of order the answers are, and though     *)
(* some are dropped.                                                       *)

Flow == Books /\ FlightInv /\ StateInv /\ EstimateInv /\ RoomInv

LEMMA FlowSpec == Spec => []Flow
<1>1. Init => Flow
  BY BooksInit, FlightInit, StateInit, EstimateInit, RoomInit DEF Flow
<1>2. Flow /\ [Next]_vars => Flow'
  BY BooksStep, FlightStep, StateStep, EstimateStep, RoomStep DEF Flow
<1>3. QED
  BY <1>1, <1>2, PTL DEF Spec

(* Every variable keeps its type, and TCP holds exactly the answers under  *)
(* way and those not acknowledged yet (tcp_write and the acknowledgements  *)
(* of lwIP as send_resp relies on them).                                   *)
THEOREM TypeCorrect == Spec => []TypeOK
<1>1. Flow => TypeOK
  BY DEF Flow, Books
<1>2. QED
  BY <1>1, FlowSpec, PTL

(* Until an answer is dropped, unacked_points, the ring of late acks and   *)
(* pending_meta_acks of dac_send_data and check_data_response match the    *)
(* commands whose answers are to come.                                     *)
THEOREM Balanced == Spec => []BooksBalance
<1>1. Flow => BooksBalance
  BY DEF Flow, Books, BooksInv, BooksBalance
<1>2. QED
  BY <1>1, FlowSpec, PTL

(* A DAC that is not idle has room for every point in its buffer and under *)
(* way, whatever status dac_loop computes the room from: recv_fsm drops no *)
(* point of a stream that plays.                                           *)
THEOREM RoomAlways == Spec => []RoomForAll
<1>1. Flow => RoomForAll
  BY DEF Flow, RoomInv
<1>2. QED
  BY <1>1, FlowSpec, PTL

-----------------------------------------------------------------------------
(* Undisturbed, the points that are sent are points of the frame.          *)

LEMMA CalmTypes ==
  ASSUME Flow
  PROVE  /\ n \in Int /\ idx \in Int /\ points \in Nat /\ Total(ackbuf) \in Nat
         /\ Target \in Nat /\ BeginAbove \in Nat /\ InFlight \in Nat
         /\ FrameSizes \subseteq Nat \ {0}
         /\ fullness \in Nat /\ status.full \in Nat
         /\ 0 \in Known /\ Seen(0) = status /\ Unread(0) = ackbuf
         /\ \A k \in Known : /\ Seen(k).full \in Nat /\ Total(Unread(k)) \in Nat
                             /\ Sum(k) \in Nat /\ Seen(k).state \in DacStates
<1>0. Books /\ TypeOK /\ FlightInv
  BY DEF Flow, Books
<1>1. /\ Target \in Nat /\ BeginAbove \in Nat /\ FrameSizes \subseteq Nat \ {0}
  BY ConstantTypes
<1>2. n \in Int /\ idx \in Int /\ points \in Nat
  BY <1>0, <1>1 DEF TypeOK
<1>3. /\ Total(ackbuf) \in Nat /\ InFlight \in Nat /\ fullness \in Nat
      /\ ackbuf \in Seq(Nat) /\ down \in Seq(Answers)
  BY <1>0, Types, ConstantTypes
<1>4. 0 \in Known /\ Seen(0) = status /\ \A k \in Known : Seen(k).state \in DacStates
  BY <1>0, SeenTypes
<1>5. \A k \in Known : Seen(k).full \in Nat /\ Total(Unread(k)) \in Nat
  BY <1>0, Bounds
<1>6. \A k \in Known : Sum(k) \in Nat
  BY <1>5 DEF Sum
<1>7. Unread(0) = ackbuf
  <2>1. SubSeq(down, 1, 0) = <<>>
    BY <1>3, SubSeqEmpty
  <2>2. Unread(0) = Drop(ackbuf, 0)
    BY <2>1, CountOne DEF Unread
  <2>3. QED
    BY <1>3, <2>2, DropAll
<1>8. status.full \in Nat
  BY <1>4, <1>5
<1>9. QED
  BY <1>1, <1>2, <1>3, <1>4, <1>5, <1>6, <1>7, <1>8

(* Calm is kept by a step that changes nothing it speaks of but the place  *)
(* of the worker.                                                          *)
LEMMA CalmQuiet ==
  ASSUME Flow, Calm,
         UNCHANGED <<fullness, dac, up, status, down, ackbuf, dc_begin_sent, defer>>,
         pc' \in {"prepared", "acks"} => pc \in {"prepared", "acks"} /\ n' = n,
         pc' = "prepared" => pc = "prepared",
         FrameInv'
  PROVE  Calm'
<1>1. Known' = Known /\ \A k : Seen(k)' = Seen(k)
  BY SeenKept
<1>2. \A k : Unread(k)' = Unread(k)
  BY DEF Unread
<1>3. Begins' = Begins /\ InFlight' = InFlight
  BY DEF Begins, InFlight
<1>4. ASSUME Fresh PROVE Fresh'
  <2>1. Total(ackbuf) + (IF pc \in {"prepared", "acks"} THEN n ELSE 0) <= Target
    BY <1>4 DEF Fresh
  <2>2. pc \in {"prepared", "acks"} => n >= 0
    BY DEF Calm, FrameInv
  <2>3. Total(ackbuf) \in Nat /\ Target \in Nat /\ n \in Int
    BY CalmTypes
  <2>4. Total(ackbuf) + (IF pc' \in {"prepared", "acks"} THEN n' ELSE 0) <= Target
    <3>1. CASE pc' \in {"prepared", "acks"}
      BY <2>1, <3>1
    <3>2. CASE pc' \notin {"prepared", "acks"} /\ pc \in {"prepared", "acks"}
      <4>1. Total(ackbuf) + n <= Target /\ n >= 0
        BY <2>1, <2>2, <3>2
      <4>2. Total(ackbuf) + 0 <= Target
        BY <2>3, <4>1
      <4>3. QED
        BY <3>2, <4>2
    <3>3. CASE pc' \notin {"prepared", "acks"} /\ pc \notin {"prepared", "acks"}
      BY <2>1, <3>3
    <3>4. QED
      BY <3>1, <3>2, <3>3
  <2>5. QED
    BY <1>1, <1>3, <1>4, <2>4 DEF Fresh
<1>5. FreshInv'
  <2>1. FreshInv
    BY DEF Calm
  <2>2. QED
    BY <1>1, <1>4, <2>1 DEF FreshInv
<1>6. BeginInv'
  BY <1>3 DEF Calm, BeginInv
<1>7. SumInv'
  <2>1. Prepared' = Prepared
    BY <1>1 DEF Prepared
  <2>2. \A k : Sum(k)' = Sum(k)
    BY <1>1, <1>2 DEF Sum
  <2>3. SumInv
    BY DEF Calm
  <2>4. QED
    BY <1>3, <2>1, <2>2, <2>3 DEF SumInv
<1>8. QED
  BY <1>5, <1>6, <1>7 DEF Calm

LEMMA CalmIdle ==
  ASSUME Flow, Calm
  PROVE  /\ (\E k \in Known : Seen(k).state = "IDLE") => status.state = "IDLE"
         /\ (\E k \in Known : Seen(k).state = "IDLE") => Fresh
<1>1. 0 \in Known /\ Seen(0) = status
  BY CalmTypes
<1>2. \A k \in Known : 0 \in 0 .. k
  BY DEF Known
<1>3. QED
  BY <1>1, <1>2 DEF Calm, FreshInv

(* The worker does not ask for less than nothing.                          *)
LEMMA CalmEstimated ==
  ASSUME Flow, Calm, Estimated,
         cap > MIN_SEND_POINTS \/ status.state # "PLAYING"
  PROVE  /\ n' \in Nat /\ n' <= cap /\ cap \in Int
         /\ status.state # "PLAYING" => cap = Target - (status.full + Total(ackbuf))
         /\ pc' \in {"prepared", "acks"} => FrameInv'
<1>0. TypeOK /\ Books
  BY DEF Flow, Books
<1>1. cap \in Int /\ n' \in Int /\ n' <= cap /\ n' <= points - idx
  BY <1>0, Capped
<1>2. /\ Target \in Nat /\ Total(ackbuf) \in Nat /\ status.full \in Nat
      /\ points \in Nat /\ idx \in Int /\ 0 \in Known /\ Seen(0) = status
      /\ Unread(0) = ackbuf /\ Seen(0).state \in DacStates
  BY CalmTypes
<1>3. unacked_points = Total(ackbuf)
  BY <1>0 DEF Books, BooksInv
<1>4. ASSUME status.state # "PLAYING"
      PROVE  cap = Target - (status.full + Total(ackbuf))
  <2>1. cap = Target - (status.full + Total(ackbuf) - 0)
    BY <1>3, <1>4 DEF cap, expected_fullness
  <2> DEFINE t == status.full + Total(ackbuf)
  <2>2. t \in Nat /\ cap = Target - (t - 0)
    BY <1>2, <2>1
  <2> HIDE DEF t, cap
  <2>3. cap = Target - t
    BY <1>2, <2>2
  <2>4. QED
    BY <2>3 DEF t
<1>5. cap >= 0
  <2>1. CASE status.state = "IDLE"
    <3>1. Fresh
      BY <1>2, <2>1, CalmIdle
    <3>2. /\ status.full = 0 /\ pc = "top"
          /\ Total(ackbuf) + (IF pc \in {"prepared", "acks"} THEN n ELSE 0) <= Target
      BY <1>2, <3>1 DEF Fresh, Estimated
    <3>3. Total(ackbuf) + 0 <= Target
      BY <3>2
    <3>4. cap = Target - (0 + Total(ackbuf))
      BY <1>4, <2>1, <3>2
    <3> HIDE DEF cap
    <3>5. QED
      BY <1>1, <1>2, <3>3, <3>4
  <2>2. CASE status.state = "PREPARED"
    <3>1. 0 \in Prepared
      BY <1>2, <2>2 DEF Prepared
    <3>2. Sum(0) <= Target
      BY <3>1 DEF Calm, SumInv
    <3>3. status.full + Total(ackbuf) <= Target
      BY <1>2, <3>2 DEF Sum
    <3>4. cap = Target - (status.full + Total(ackbuf))
      BY <1>4, <2>2
    <3> DEFINE t == status.full + Total(ackbuf)
    <3>5. t \in Nat /\ t <= Target /\ cap = Target - t
      BY <1>2, <3>3, <3>4
    <3> HIDE DEF cap, t
    <3>6. QED
      BY <1>1, <1>2, <3>5
  <2>3. CASE status.state = "PLAYING"
    BY <1>1, <2>3, ConstantTypes
  <2>4. QED
    BY <1>2, <2>1, <2>2, <2>3 DEF DacStates
<1>6. pc = "top" /\ UNCHANGED <<points, idx>>
  BY DEF Estimated
<1>7. points > 0 /\ idx \in 0 .. points - 1
  BY <1>6 DEF Calm, FrameInv
<1>8. n' >= 0
  <2>1. n' = Least(Least(cap, points - idx), Chunk) /\ Chunk \in Nat
    BY ConstantTypes DEF Estimated
  <2> HIDE DEF cap
  <2>2. points - idx >= 0 /\ points - idx \in Int
    BY <1>2, <1>7
  <2>3. QED
    BY <1>1, <1>5, <2>1, <2>2 DEF Least
<1>9. idx + n' <= points
  <2>1. points \in Int
    BY <1>2
  <2>2. QED
    BY <1>1, <1>2, <2>1, SumsOfRoom, Zenon
<1>10. n' \in Nat
  BY <1>1, <1>8
<1>11. ASSUME pc' \in {"prepared", "acks"} PROVE FrameInv'
  BY <1>6, <1>7, <1>8, <1>9, <1>11 DEF FrameInv
<1>12. QED
  BY <1>1, <1>4, <1>10, <1>11

LEMMA CalmPrepare ==
  ASSUME Flow, Calm, EstimateIdle
  PROVE  Calm'
<1>0. TypeOK /\ Books /\ StateInv
  BY DEF Flow, Books
<1> DEFINE x == [cmds |-> <<"p">>, n |-> 0, acked |-> toAck]
<1>1. /\ Estimated /\ status.state = "IDLE" /\ pc = "top" /\ pc' = "prepared"
      /\ SendAll(<<"p">>, 0)
      /\ UNCHANGED <<dc_begin_sent, status, ackbuf, fullness, dac, defer>>
  BY DEF EstimateIdle, Estimated, playVars, replyVars
<1>2. down' = down /\ up' = Append(up, x) /\ x.cmds # <<"b">>
  BY <1>1 DEF SendAll
<1>3. x \in Segments
  BY <1>0, SentSegments
<1> HIDE DEF x
<1>4. /\ DOMAIN up' = 1 .. Len(up) + 1 /\ DOMAIN up = 1 .. Len(up)
      /\ \A i \in DOMAIN up : up'[i] = up[i]
      /\ \A i \in DOMAIN up' : i \in DOMAIN up \/ i = Len(up) + 1
      /\ up'[Len(up) + 1] = x
  BY <1>0, <1>2, <1>3, SentLast
<1>5. /\ n' \in Nat /\ n' <= cap /\ cap \in Int
      /\ cap = Target - (status.full + Total(ackbuf)) /\ FrameInv'
  BY <1>1, CalmEstimated
<1>6. /\ 0 \in Known /\ Seen(0) = status /\ Total(ackbuf) \in Nat /\ Target \in Nat
  BY CalmTypes
<1>7. Fresh /\ status.full = 0
  <2>1. Fresh
    BY <1>1, <1>6, CalmIdle
  <2>2. QED
    BY <1>6, <2>1 DEF Fresh
<1>8. Begins' = {}
  <2>1. \A i \in DOMAIN up : up[i].cmds # <<"b">>
    BY <1>7 DEF Fresh, Begins
  <2>2. \A i \in DOMAIN up' : up'[i].cmds # <<"b">>
    BY <1>2, <1>4, <2>1, Zenon
  <2>3. QED
    BY <2>2 DEF Begins
<1>9. dac = "IDLE" /\ \A k \in Known : Seen(k).state = "IDLE"
  <2>1. IdleFrom(0)
    BY <1>0, <1>1 DEF StateInv
  <2>2. QED
    BY <1>1, <1>6, <2>1 DEF IdleFrom, Known
<1>10. Known' = Known /\ \A k : Seen(k)' = Seen(k)
  BY <1>1, <1>2, SeenKept
<1>11. Total(ackbuf) + n' <= Target
  <2> HIDE DEF cap
  <2>1. cap = Target - (0 + Total(ackbuf))
    BY <1>5, <1>7
  <2>2. cap = Target - Total(ackbuf)
    BY <1>6, <2>1
  <2>3. n' <= Target - Total(ackbuf) /\ n' \in Int /\ Target \in Int /\ Total(ackbuf) \in Int
    BY <1>5, <1>6, <2>2
  <2>4. QED
    BY <2>3, SumsOfRoom, Zenon
<1>12. Fresh'
  BY <1>1, <1>2, <1>7, <1>8, <1>9, <1>10, <1>11 DEF Fresh
<1>13. FreshInv'
  <2>1. \A k \in Known : \A l \in 0 .. k : l \in Known
    BY DEF Known
  <2>2. QED
    BY <1>9, <1>10, <1>12, <2>1 DEF FreshInv
<1>14. BeginInv'
  BY <1>1, <1>8 DEF BeginInv
<1>15. SumInv'
  BY <1>9, <1>10 DEF SumInv, Prepared
<1>16. QED
  BY <1>1, <1>5, <1>13, <1>14, <1>15 DEF Calm

LEMMA CalmEstimate ==
  ASSUME Flow, Calm, Estimate
  PROVE  Calm'
<1>0. TypeOK /\ Books /\ StateInv /\ FlightInv
  BY DEF Flow, Books
<1>1. /\ Estimated /\ status.state # "IDLE" /\ pc = "top" /\ pc' = "acks" /\ BeginIfDue
      /\ cap > MIN_SEND_POINTS \/ status.state = "PREPARED"
      /\ UNCHANGED <<status, ackbuf, fullness, dac, defer>>
  BY DEF Estimate, Estimated, playVars, replyVars
<1>2. down' = down
  BY <1>1 DEF BeginIfDue, SendAll, netVars
<1>3. /\ n' \in Nat /\ n' <= cap /\ cap \in Int
      /\ status.state # "PLAYING" => cap = Target - (status.full + Total(ackbuf))
      /\ FrameInv'
  BY <1>1, CalmEstimated
<1>4. /\ 0 \in Known /\ Seen(0) = status /\ Total(ackbuf) \in Nat /\ Target \in Nat
      /\ Unread(0) = ackbuf /\ status.full \in Nat /\ Seen(0).state \in DacStates
      /\ \A k \in Known : Sum(k) \in Nat
  BY CalmTypes
<1>5. \A k \in Known : Seen(k).state # "IDLE"
  BY <1>1, CalmIdle
<1>6. InFlight' = InFlight
  BY <1>0, <1>1, FlightBegin
<1>7. Known' = Known /\ \A k : Seen(k)' = Seen(k)
  BY <1>1, <1>2, SeenKept
<1>8. \A k : Sum(k)' = Sum(k)
  BY <1>1, <1>2, <1>7 DEF Sum, Unread
<1>9. FreshInv'
  BY <1>1, <1>5, <1>7 DEF FreshInv
<1>10. SumInv'
  <2>1. Prepared' = Prepared
    BY <1>7 DEF Prepared
  <2>2. SumInv
    BY DEF Calm
  <2>3. ASSUME NEW k \in Prepared PROVE Sum(k) + n' <= Target
    <3>1. k \in Known /\ Seen(k).state = "PREPARED" /\ k \in 0 .. Len(down)
      BY <2>3 DEF Prepared, Known
    <3>2. status.state # "PLAYING"
      BY <1>0, <1>4, <3>1 DEF StateInv
    <3>3. 0 \in Prepared
      BY <1>1, <1>4, <3>2 DEF DacStates, Prepared
    <3>4. Sum(k) = Sum(0)
      BY <2>2, <2>3, <3>3 DEF SumInv
    <3>5. cap = Target - Sum(0)
      BY <1>3, <1>4, <3>2 DEF Sum
    <3> HIDE DEF cap
    <3>6. n' <= Target - Sum(k) /\ n' \in Int /\ Target \in Int /\ Sum(k) \in Int
      BY <1>3, <1>4, <3>1, <3>4, <3>5
    <3>7. QED
      BY <3>6, SumsOfRoom, Zenon
  <2>4. QED
    BY <1>1, <1>6, <1>8, <2>1, <2>2, <2>3 DEF SumInv
<1>11. BeginInv'
  <2>1. BeginInv
    BY DEF Calm
  <2>2. CASE BeginIsDue
    <3> DEFINE x == [cmds |-> <<"b">>, n |-> 0, acked |-> toAck]
    <3>1. /\ SendAll(<<"b">>, 0) /\ dc_begin_sent' = TRUE /\ ~dc_begin_sent
      BY <1>1, <2>2 DEF BeginIfDue, BeginIsDue
    <3>2. up' = Append(up, x)
      BY <3>1 DEF SendAll
    <3>3. x \in Segments
      BY <1>0, SentSegments
    <3> HIDE DEF x
    <3>4. /\ \A i \in DOMAIN up : up'[i] = up[i]
          /\ \A i \in DOMAIN up' : i \in DOMAIN up \/ i = Len(up) + 1
      BY <1>0, <3>2, <3>3, SentLast
    <3>5. Begins = {} /\ dac = "PREPARED"
      BY <1>1, <2>1, <3>1 DEF BeginInv
    <3>6. \A i \in DOMAIN up : up[i].cmds # <<"b">>
      BY <3>5 DEF Begins
    <3>7. \A i \in Begins' : i = Len(up) + 1
      <4>1. \A i \in DOMAIN up' : up'[i].cmds = <<"b">> => i = Len(up) + 1
        BY <3>4, <3>6, Zenon
      <4>2. QED
        BY <4>1 DEF Begins
    <3>8. QED
      BY <1>1, <3>1, <3>5, <3>7 DEF BeginInv
  <2>3. CASE ~BeginIsDue
    <3>1. UNCHANGED <<up, dc_begin_sent>>
      BY <1>1, <2>3 DEF BeginIfDue, netVars
    <3>2. Begins' = Begins
      BY <3>1 DEF Begins
    <3>3. QED
      BY <1>1, <2>1, <3>1, <3>2 DEF BeginInv
  <2>4. QED
    BY <2>2, <2>3
<1>12. QED
  BY <1>1, <1>3, <1>9, <1>10, <1>11 DEF Calm

LEMMA CalmAcked ==
  ASSUME Flow, Calm, PrepareAcked
  PROVE  Calm'
<1>1. /\ pc = "prepared" /\ pc' = "acks" /\ BeginIfDue
      /\ UNCHANGED <<n, points, idx, status, ackbuf, fullness, dac, defer>>
  BY DEF PrepareAcked, playVars, replyVars
<1>2. Fresh
  BY <1>1 DEF Calm, FreshInv
<1>3. status.full = 0
  BY <1>2, CalmTypes DEF Fresh
<1>4. ~BeginIsDue
  BY <1>3, CalmTypes DEF BeginIsDue
<1>5. UNCHANGED <<up, down, dc_begin_sent>>
  BY <1>1, <1>4 DEF BeginIfDue, netVars
<1>6. FrameInv'
  <2>1. FrameInv
    BY DEF Calm
  <2>2. QED
    BY <1>1, <2>1 DEF FrameInv
<1>7. QED
  BY <1>1, <1>5, <1>6, CalmQuiet

(* More of the frame is next, or another one.                              *)
LEMMA CalmAdvance ==
  ASSUME Flow, Calm, pc = "acks", Advance
  PROVE  FrameInv' /\ pc' \in {"top", "idle"}
<1>1. /\ n \in Int /\ idx \in Int /\ points \in Nat /\ FrameSizes \subseteq Nat \ {0}
  BY CalmTypes
<1>2. points > 0 /\ idx \in 0 .. points - 1 /\ n >= 0 /\ idx + n <= points
  BY DEF Calm, FrameInv
<1>3. CASE idx + n < points
  <2>1. idx' = idx + n /\ pc' = "top" /\ points' = points
    BY <1>3 DEF Advance
  <2>2. idx + n \in 0 .. points - 1
    BY <1>1, <1>2, <1>3
  <2>3. QED
    BY <1>2, <2>1, <2>2 DEF FrameInv
<1>4. CASE ~(idx + n < points)
  <2>1. /\ idx' = 0
        /\ \/ pc' = "top" /\ points' \in FrameSizes
           \/ pc' = "idle" /\ points' = 0
    BY <1>4 DEF Advance
  <2>2. ASSUME points' \in FrameSizes PROVE points' > 0 /\ 0 \in 0 .. points' - 1
    <3>1. points' \in Nat \ {0}
      BY <1>1, <2>2, Zenon
    <3>2. \A p \in Nat \ {0} : p > 0 /\ 0 \in 0 .. p - 1
      OBVIOUS
    <3>3. QED
      BY <3>1, <3>2, Zenon
  <2>3. QED
    BY <2>1, <2>2 DEF FrameInv
<1>5. QED
  BY <1>3, <1>4

LEMMA CalmSend ==
  ASSUME Flow, Calm, SendData
  PROVE  Calm'
<1>0. TypeOK /\ Books /\ StateInv
  BY DEF Flow, Books
<1> DEFINE x == [cmds |-> <<"q", "d">>, n |-> n, acked |-> toAck]
<1>1. /\ pc = "acks" /\ n > 0 /\ Advance /\ n' = 0 /\ SendAll(<<"q", "d">>, n)
      /\ ackbuf' = Append(ackbuf, n)
      /\ UNCHANGED <<status, dc_begin_sent, fullness, dac, defer>>
  BY DEF SendData, playVars, replyVars
<1>2. down' = down /\ up' = Append(up, x) /\ x.cmds = <<"q", "d">>
  BY <1>1 DEF SendAll
<1>3. x \in Segments
  BY <1>0, <1>1, SentSegments DEF Segments
<1>4. InFlight' = InFlight + n
  BY <1>0, <1>1, <1>3, Sending
<1>5. x.cmds # <<"b">>
  BY <1>2
<1> HIDE DEF x
<1>6. /\ \A i \in DOMAIN up : up'[i] = up[i]
      /\ \A i \in DOMAIN up' : i \in DOMAIN up \/ i = Len(up) + 1
      /\ up'[Len(up) + 1] = x
      /\ DOMAIN up \subseteq DOMAIN up'
  <2>1. /\ \A i \in DOMAIN up : up'[i] = up[i]
        /\ \A i \in DOMAIN up' : i \in DOMAIN up \/ i = Len(up) + 1
        /\ up'[Len(up) + 1] = x
        /\ DOMAIN up = 1 .. Len(up) /\ DOMAIN up' = 1 .. Len(up) + 1 /\ Len(up) \in Nat
    BY <1>0, <1>2, <1>3, SentLast
  <2>2. QED
    BY <2>1
<1>7. Begins' = Begins
  <2>1. ASSUME NEW i PROVE i \in Begins' <=> i \in Begins
    <3>1. i \in DOMAIN up' /\ up'[i].cmds = <<"b">>
            <=> i \in DOMAIN up /\ up[i].cmds = <<"b">>
      BY <1>5, <1>6, Zenon
    <3>2. QED
      BY <3>1, Zenon DEF Begins
  <2>2. QED
    BY <2>1
<1>8. /\ n \in Nat /\ n \in Int /\ Total(ackbuf) \in Nat /\ Target \in Nat
      /\ InFlight \in Nat /\ fullness \in Nat
      /\ \A k \in Known : /\ Seen(k).full \in Nat /\ Total(Unread(k)) \in Nat
                          /\ Sum(k) \in Nat
  BY <1>1, CalmTypes
<1>9. Known' = Known /\ \A k : Seen(k)' = Seen(k)
  BY <1>1, <1>2, SeenKept
<1>10. FrameInv' /\ pc' \in {"top", "idle"}
  BY <1>1, CalmAdvance
<1>11. \A k \in Known : Sum(k)' = Sum(k) + n
  <2>1. \A k \in Known : Total(Unread(k)') = Total(Unread(k)) + n
    BY <1>0, <1>1, <1>2, <1>8, UnreadAppend
  <2>2. TAKE k \in Known
  <2>3. Sum(k)' = Seen(k).full + (Total(Unread(k)) + n)
    BY <1>9, <2>1 DEF Sum
  <2>4. Sum(k) = Seen(k).full + Total(Unread(k))
    BY DEF Sum
  <2>5. Seen(k).full \in Nat /\ Total(Unread(k)) \in Nat
    BY <1>8
  <2>6. QED
    BY <1>8, <2>3, <2>4, <2>5
<1>12. ASSUME Fresh, dac = "IDLE" PROVE Fresh'
  <2>1. Total(ackbuf) + n <= Target
    BY <1>1, <1>12 DEF Fresh
  <2>2. ackbuf \in Seq(Nat)
    BY <1>0, Types
  <2>3. Total(ackbuf') = Total(ackbuf) + n
    BY <1>1, <1>8, <2>2, TotalAppend
  <2>4. Total(ackbuf') + 0 <= Target
    BY <1>8, <2>1, <2>3
  <2>5. QED
    BY <1>1, <1>2, <1>7, <1>9, <1>10, <1>12, <2>4 DEF Fresh
<1>13. FreshInv'
  <2>1. FreshInv
    BY DEF Calm
  <2>2. IdleFrom(0)
    BY <1>0, <1>1 DEF StateInv
  <2>3. \A k \in Known : Seen(k).state = "IDLE" => dac = "IDLE"
    BY <2>2 DEF IdleFrom, Known
  <2>4. QED
    BY <1>9, <1>10, <1>12, <2>1, <2>3 DEF FreshInv
<1>14. BeginInv'
  BY <1>1, <1>7 DEF Calm, BeginInv
<1>15. SumInv'
  <2>1. Prepared' = Prepared /\ Prepared \subseteq Known
    BY <1>9 DEF Prepared
  <2>2. SumInv
    BY DEF Calm
  <2>3. ASSUME NEW k \in Prepared
        PROVE  /\ \A l \in Prepared : Sum(k)' = Sum(l)'
               /\ dac' = "PREPARED" => Sum(k)' = fullness' + InFlight'
               /\ Sum(k)' <= Target
    <3>1. /\ \A l \in Prepared : Sum(k) = Sum(l)
          /\ dac = "PREPARED" => Sum(k) = fullness + InFlight
          /\ Sum(k) + n <= Target
      BY <1>1, <2>2 DEF SumInv
    <3>2. \A l \in Prepared : Sum(k)' = Sum(l)'
      BY <1>11, <2>1, <3>1
    <3>3. Sum(k)' = Sum(k) + n
      BY <1>11, <2>1
    <3>4. ASSUME dac' = "PREPARED" PROVE Sum(k)' = fullness' + InFlight'
      <4>1. Sum(k)' = (fullness + InFlight) + n
        BY <1>1, <3>1, <3>3, <3>4
      <4>2. fullness' + InFlight' = fullness + (InFlight + n)
        BY <1>1, <1>4
      <4>3. (fullness + InFlight) + n = fullness + (InFlight + n)
        BY <1>8
      <4>4. QED
        BY <4>1, <4>2, <4>3
    <3>5. QED
      BY <3>1, <3>2, <3>3, <3>4
  <2>4. QED
    BY <1>10, <2>1, <2>3 DEF SumInv
<1>16. QED
  BY <1>1, <1>10, <1>13, <1>14, <1>15 DEF Calm

LEMMA CalmRead ==
  ASSUME Flow, Calm, ReadAnswer
  PROVE  Calm'
<1>0. TypeOK /\ Books /\ StateInv
  BY DEF Flow, Books
<1>1. /\ Len(down') = Len(down) - 1 /\ Len(down) \in Nat \ {0}
      /\ \A k \in Known' : /\ k + 1 \in Known /\ Seen(k)' = Seen(k + 1)
                           /\ Unread(k)' = Unread(k + 1)
  BY <1>0, SeenRead
<1>2. /\ up' = up /\ down' = Tail(down) /\ check_data_response(down[1])
      /\ down[1] \in Answers /\ status' = down[1].status /\ down # <<>>
      /\ InFlight' = InFlight
  BY <1>0, Reading
<1>3. UNCHANGED <<pc, n, points, idx, dac, fullness, defer>>
  BY DEF ReadAnswer, hostVars, playVars, replyVars
<1>4. Known = 0 .. Len(down) /\ Known' = 0 .. Len(down')
  BY DEF Known
<1>5. Begins' = Begins
  BY <1>2 DEF Begins
<1>6. 1 \in Known /\ Seen(1) = down[1].status
  BY <1>1, <1>4 DEF Seen
<1>7. \A k \in Known' : Sum(k)' = Sum(k + 1)
  BY <1>1 DEF Sum
<1>8. ASSUME Fresh PROVE Fresh'
  <2>1. Count(down, AnswersTo({"d"})) = 0 /\ down \in Seq(Answers)
    BY <1>0, <1>8, Types DEF Fresh
  <2>2. /\ down[1] \notin AnswersTo({"d"}) /\ Count(down', AnswersTo({"d"})) = 0
    <3>1. Count(down, AnswersTo({"d"}))
            = (IF down[1] \in AnswersTo({"d"}) THEN 1 ELSE 0)
              + Count(Tail(down), AnswersTo({"d"}))
      BY <1>2, <2>1, CountTail
    <3>2. Count(Tail(down), AnswersTo({"d"})) \in Nat
      BY <1>0, <1>2, Reading
    <3>3. QED
      BY <1>2, <2>1, <3>1, <3>2
  <2>3. ackbuf' = ackbuf
    <3>1. down[1].cmd # "d"
      BY <1>2, <2>2, Members
    <3>2. QED
      BY <1>2, <3>1 DEF check_data_response
  <2>4. \A k \in Known' : Seen(k)'.full = 0 /\ Seen(k)'.state # "PLAYING"
    BY <1>1, <1>8 DEF Fresh
  <2>5. dac = "IDLE" => \A k \in Known' : Seen(k)'.state = "IDLE"
    BY <1>1, <1>8 DEF Fresh
  <2>6. QED
    BY <1>3, <1>5, <1>8, <2>2, <2>3, <2>4, <2>5 DEF Fresh
<1>9. FreshInv'
  <2>1. FreshInv
    BY DEF Calm
  <2>2. ASSUME NEW k \in Known', Seen(k)'.state = "IDLE"
        PROVE  Fresh /\ \A l \in 0 .. k : Seen(l)'.state = "IDLE"
    <3>1. k + 1 \in Known /\ Seen(k + 1).state = "IDLE"
      BY <1>1, <2>2
    <3>2. Fresh /\ \A l \in 0 .. k + 1 : Seen(l).state = "IDLE"
      BY <2>1, <3>1 DEF FreshInv
    <3>3. \A l \in 0 .. k : l \in Known' /\ l + 1 \in 0 .. k + 1
      BY <1>1, <1>4, <2>2
    <3>4. QED
      BY <1>1, <3>2, <3>3
  <2>3. QED
    BY <1>3, <1>8, <2>1, <2>2 DEF FreshInv
<1>10. BeginInv'
  <2>1. BeginInv
    BY DEF Calm
  <2>2. dc_begin_sent' = (dc_begin_sent /\ Seen(1).state # "IDLE")
    BY <1>2, <1>6 DEF check_data_response
  <2>3. ASSUME Begins # {} PROVE Seen(1).state # "IDLE"
    <3>1. SUFFICES ASSUME Seen(1).state = "IDLE" PROVE FALSE
      OBVIOUS
    <3>2. Fresh
      BY <1>6, <3>1, CalmIdle
    <3>3. QED
      BY <2>3, <3>2 DEF Fresh
  <2>4. ASSUME Seen(1).state # "IDLE", dac # "PREPARED" PROVE dc_begin_sent
    <3>1. 0 \in Known /\ Seen(0) = status
      BY CalmTypes
    <3>2. CASE status.state = "IDLE"
      <4>1. Fresh
        BY <3>1, <3>2, CalmIdle
      <4>2. dac = "IDLE"
        BY <1>0, <2>4, <4>1 DEF Fresh, TypeOK, DacStates
      <4>3. Seen(1).state = "IDLE"
        BY <1>6, <4>1, <4>2 DEF Fresh
      <4>4. QED
        BY <2>4, <4>3
    <3>3. CASE status.state # "IDLE"
      BY <2>1, <2>4, <3>3 DEF BeginInv
    <3>4. QED
      BY <3>2, <3>3
  <2>5. status' = Seen(1)
    BY <1>2, <1>6
  <2>6. QED
    BY <1>3, <1>5, <2>1, <2>2, <2>3, <2>4, <2>5 DEF BeginInv
<1>11. SumInv'
  <2>1. SumInv
    BY DEF Calm
  <2>2. \A k \in Prepared' : k \in Known' /\ k + 1 \in Prepared
    BY <1>1 DEF Prepared
  <2>3. QED
    BY <1>2, <1>3, <1>7, <2>1, <2>2 DEF SumInv
<1>12. FrameInv'
  BY <1>3 DEF Calm, FrameInv
<1>13. QED
  BY <1>3, <1>9, <1>10, <1>11, <1>12 DEF Calm

LEMMA CalmTick ==
  ASSUME Flow, Calm, Tick
  PROVE  Calm'
<1>0. TypeOK /\ Books
  BY DEF Flow, Books
<1>1. /\ dac' = IF dac = "PLAYING" /\ fullness = 0 THEN "IDLE" ELSE dac
      /\ fullness' = IF dac = "PLAYING" /\ fullness > 0 THEN fullness - 1
                     ELSE fullness
      /\ UNCHANGED <<status, down, up, ackbuf, dc_begin_sent, defer>>
      /\ UNCHANGED <<pc, n, points, idx>>
  BY DEF Tick, bookVars, netVars, hostVars, replyVars
<1>2. Known' = Known /\ \A k : Seen(k)' = Seen(k)
  BY <1>1, SeenKept
<1>3. \A k : Sum(k)' = Sum(k)
  BY <1>1, <1>2 DEF Sum, Unread
<1>4. Begins' = Begins /\ InFlight' = InFlight /\ Prepared' = Prepared
  BY <1>1, <1>2 DEF Begins, InFlight, Prepared
<1>5. ASSUME dac # "PLAYING" PROVE UNCHANGED <<dac, fullness>>
  BY <1>1, <1>5
<1>6. ASSUME Fresh PROVE Fresh'
  <2>1. UNCHANGED <<dac, fullness>>
    BY <1>5, <1>6 DEF Fresh
  <2>2. QED
    BY <1>1, <1>2, <1>4, <1>6, <2>1 DEF Fresh
<1>7. FreshInv'
  BY <1>1, <1>2, <1>6 DEF Calm, FreshInv
<1>8. BeginInv'
  BY <1>1, <1>4, <1>5 DEF Calm, BeginInv
<1>9. dac' = "PREPARED" => UNCHANGED <<dac, fullness>>
  BY <1>1
<1>10. SumInv'
  <2>1. SumInv
    BY DEF Calm
  <2>2. QED
    BY <1>1, <1>3, <1>4, <1>9, <2>1 DEF SumInv
<1>11. FrameInv'
  BY <1>1 DEF Calm, FrameInv
<1>12. QED
  BY <1>1, <1>7, <1>8, <1>10, <1>11 DEF Calm

(* A segment whose answers are given at once.                              *)
LEMMA AtOnce ==
  ASSUME Flow, Calm, Undisturbed, Receive, Undisturbed'
  PROVE  /\ RNow = Len(RSeg.cmds) /\ ROld = 0 /\ defer' = <<>>
         /\ ~lost /\ ~lost' /\ (RSeg.n > 0 => REnd.full = fullness + RSeg.n)
         /\ Len(down') = Len(down) + Len(RSeg.cmds)
         /\ \A k \in Known : /\ k \in Known' /\ Seen(k)' = Seen(k)
                             /\ Unread(k)' = Unread(k) /\ Sum(k)' = Sum(k)
         /\ \A k \in Known' \ Known :
              \/ Seen(k)' = REnd /\ k = Len(down')
              \/ /\ RSeg \in DataSegments /\ Seen(k)' = Status
                 /\ Count(SubSeq(down', 1, k), AnswersTo({"d"}))
                      = Count(down, AnswersTo({"d"}))
<1>0. TypeOK /\ Books
  BY DEF Flow, Books
<1>1. /\ up # <<>>
      /\ late' = (late \/ RNow < Len(RSeg.cmds))
      /\ lost' = (lost \/ Len(RKept) > DeferMax)
      /\ defer' = SubSeq(RKept, 1, Least(Len(RKept), DeferMax))
      /\ refused' = (refused \/ (RSeg.n > 0 /\ REnd.full # fullness + RSeg.n))
  BY Received
<1>2. /\ RNow \in 0 .. Len(RSeg.cmds) /\ ROld \in 0 .. Len(defer)
      /\ Len(RSeg.cmds) \in Nat \ {0} /\ RSeg \in Segments
  BY <1>0, <1>1, ReceiveBounds
<1>3. RNow = Len(RSeg.cmds)
  <2>1. ~(RNow < Len(RSeg.cmds))
    BY <1>1 DEF Undisturbed
  <2>2. QED
    BY <1>2, <2>1
<1>4. ROld = 0
  <2>1. Len(defer) = 0
    BY DEF Calm
  <2>2. QED
    BY <1>2, <2>1
<1>5. RKept = <<>>
  <2>1. RSeg.cmds \in Seq(Cmds) /\ defer \in Seq(Cmds) /\ defer = <<>>
    BY <1>0, <1>2, SegmentFields, Types DEF Calm
  <2>2. SubSeq(RSeg.cmds, RNow + 1, Len(RSeg.cmds)) = <<>>
    <3>1. Drop(RSeg.cmds, Len(RSeg.cmds)) = <<>>
      BY <2>1, DropAll
    <3>2. QED
      BY <1>3, <3>1 DEF Drop
  <2>3. SubSeq(defer, ROld + 1, Len(defer)) = <<>>
    <3>1. Drop(defer, Len(defer)) = <<>>
      BY <2>1, DropAll
    <3>2. ROld = Len(defer)
      BY <1>4, <2>1
    <3>3. QED
      BY <3>1, <3>2 DEF Drop
  <2>4. QED
    BY <2>2, <2>3 DEF RKept
<1>6. defer' = <<>>
  <2>1. Len(RKept) = 0 /\ DeferMax \in Nat
    BY <1>5, ConstantTypes
  <2>2. Least(Len(RKept), DeferMax) = 0
    BY <2>1 DEF Least
  <2>3. SubSeq(RKept, 1, 0) = <<>>
    BY <1>5
  <2>4. QED
    BY <1>1, <2>2, <2>3
<1>7. ~lost /\ ~lost'
  <2>1. ~(Len(RKept) > DeferMax)
    BY <1>5, ConstantTypes
  <2>2. ~lost
    BY <1>0 DEF Books, BooksInv, Undisturbed
  <2>3. QED
    BY <1>1, <2>1, <2>2
<1>8. RSeg.n > 0 => REnd.full = fullness + RSeg.n
  BY <1>1 DEF Undisturbed
<1>9. Len(down') = Len(down) + Len(RSeg.cmds) /\ Len(down) \in Nat
  <2>1. Len(down') = Len(down) + RNow + ROld /\ Len(down) \in Nat
    BY <1>0, Receiving, Types
  <2>2. QED
    BY <1>2, <1>3, <1>4, <2>1
<1>10. /\ \A k \in Known : /\ k \in Known' /\ Seen(k)' = Seen(k)
                           /\ Unread(k)' = Unread(k)
       /\ \A k \in Len(down) + 1 .. Len(down') :
            \/ /\ Seen(k)' = REnd
               /\ RNow = Len(RSeg.cmds) => k >= Len(down) + Len(RSeg.cmds)
            \/ /\ RSeg \in DataSegments /\ Seen(k)' = Status
               /\ Count(SubSeq(down', 1, k), AnswersTo({"d"}))
                    = Count(down, AnswersTo({"d"}))
  BY <1>0, SeenReceived
<1>11. \A k \in Known : Sum(k)' = Sum(k)
  BY <1>10 DEF Sum
<1>12. ASSUME NEW k \in Known' \ Known
       PROVE  \/ Seen(k)' = REnd /\ k = Len(down')
              \/ /\ RSeg \in DataSegments /\ Seen(k)' = Status
                 /\ Count(SubSeq(down', 1, k), AnswersTo({"d"}))
                      = Count(down, AnswersTo({"d"}))
  <2>1. k \in Len(down) + 1 .. Len(down')
    BY <1>2, <1>9, <1>12 DEF Known
  <2>2. k >= Len(down) + Len(RSeg.cmds) => k = Len(down')
    BY <1>2, <1>9, <2>1
  <2>3. QED
    BY <1>3, <1>10, <2>1, <2>2
<1>13. QED
  BY <1>3, <1>4, <1>6, <1>7, <1>8, <1>9, <1>10, <1>11, <1>12

(* With no answer deferred or dropped, the data commands that no answer is *)
(* under way to are those under way themselves.                            *)
LEMMA LastUnread ==
  Books /\ FlightInv /\ ~lost /\ defer = <<>> =>
    /\ Len(down) \in Known /\ Total(Unread(Len(down))) = InFlight
    /\ SubSeq(down, 1, Len(down)) = down
    /\ Count(down, AnswersTo({"d"})) = 0 /\ Flying = 0 => ackbuf = <<>>
<1> SUFFICES ASSUME Books, FlightInv, ~lost, defer = <<>>
             PROVE  /\ Len(down) \in Known /\ Total(Unread(Len(down))) = InFlight
                    /\ SubSeq(down, 1, Len(down)) = down
                    /\ Count(down, AnswersTo({"d"})) = 0 /\ Flying = 0
                         => ackbuf = <<>>
  OBVIOUS
<1>1. /\ down \in Seq(Answers) /\ Len(down) \in Nat /\ ackbuf \in Seq(Nat)
      /\ Len(ackbuf) \in Nat
  BY Types DEF Books
<1>2. Len(down) \in Known /\ SubSeq(down, 1, Len(down)) = down
  BY <1>1, SubSeqFull DEF Known
<1>3. /\ Count(down, AnswersTo({"d"})) \in Nat /\ Flying \in 0 .. Len(ackbuf)
  BY FlyingBounds
<1>4. Len(ackbuf) = Count(down, AnswersTo({"d"})) + 0 + Flying
  BY CountOne DEF Books, BooksInv, DataComing, Flying
<1>5. Count(down, AnswersTo({"d"})) = Len(ackbuf) - Flying
  BY <1>1, <1>3, <1>4
<1>6. Unread(Len(down)) = Drop(ackbuf, Len(ackbuf) - Flying)
  BY <1>2, <1>5 DEF Unread
<1>7. InFlight = Total(Drop(ackbuf, Len(ackbuf) - Flying))
  BY DEF FlightInv, Flying
<1>8. Count(down, AnswersTo({"d"})) = 0 /\ Flying = 0 => ackbuf = <<>>
  BY <1>1, <1>4, EmptySeq
<1>9. QED
  BY <1>2, <1>6, <1>7, <1>8

LEMMA LastUnreadNext ==
  (Books /\ FlightInv /\ ~lost /\ defer = <<>> =>
     /\ Len(down) \in Known /\ Total(Unread(Len(down))) = InFlight
     /\ SubSeq(down, 1, Len(down)) = down
     /\ Count(down, AnswersTo({"d"})) = 0 /\ Flying = 0 => ackbuf = <<>>)'
BY LastUnread, PTL

LEMMA ComingNext ==
  (Books => /\ Count(down, AnswersTo({"d"})) \in Nat
            /\ Count(down, AnswersTo({"d"})) <= Len(ackbuf))'
<1>1. Books => /\ Count(down, AnswersTo({"d"})) \in Nat
               /\ Count(down, AnswersTo({"d"})) <= Len(ackbuf)
  <2> SUFFICES ASSUME Books
               PROVE  /\ Count(down, AnswersTo({"d"})) \in Nat
                      /\ Count(down, AnswersTo({"d"})) <= Len(ackbuf)
    OBVIOUS
  <2>1. /\ Count(down, AnswersTo({"d"})) \in Nat /\ Flying \in 0 .. Len(ackbuf)
        /\ Count(down, AnswersTo({"d"})) + Flying <= Len(ackbuf)
        /\ Len(ackbuf) \in Nat
    BY FlyingBounds
  <2>2. QED
    BY <2>1
<1>2. QED
  BY <1>1, PTL

LEMMA BeginsReceived ==
  ASSUME TypeOK, Receive
  PROVE  /\ \A i \in Begins' : i \in Nat \ {0} /\ i + 1 \in Begins
         /\ RSeg = up[1] /\ 1 \in DOMAIN up /\ up \in Seq(Segments)
         /\ Len(up) = 1 => up' = <<>>
<1>1. up # <<>> /\ up' = Tail(up) /\ RSeg = up[1]
  BY Receiving
<1>2. up \in Seq(Segments)
  BY Types
<1>3. /\ Len(up) \in Nat \ {0} /\ up' \in Seq(Segments)
      /\ Len(up') = Len(up) - 1
      /\ \A i \in 1 .. Len(up) - 1 : up'[i] = up[i + 1]
  BY <1>1, <1>2, HeadAndTail
<1>4. \A i \in DOMAIN up' : i \in Nat \ {0} /\ i + 1 \in DOMAIN up /\ up'[i] = up[i + 1]
  BY <1>2, <1>3, LenProperties
<1>5. 1 \in DOMAIN up
  BY <1>2, <1>3, LenProperties
<1>6. Len(up) = 1 => up' = <<>>
  BY <1>3, EmptySeq
<1>7. QED
  BY <1>1, <1>2, <1>4, <1>5, <1>6 DEF Begins

LEMMA CalmReceivePrepare ==
  ASSUME Flow, Flow', Calm, Undisturbed, Receive, Undisturbed', RSeg.cmds = <<"p">>
  PROVE  Calm'
<1>0. TypeOK /\ Books /\ StateInv /\ FlightInv
  BY DEF Flow, Books
<1>1. /\ UNCHANGED <<pc, n, points, idx, status, ackbuf, dc_begin_sent>>
      /\ up # <<>> /\ dac' = REnd.state /\ fullness' = REnd.full
  BY Received DEF hostVars, bookVars
<1>2. /\ defer' = <<>> /\ ~lost /\ ~lost'
      /\ \A k \in Known : /\ k \in Known' /\ Seen(k)' = Seen(k)
      /\ \A k \in Known' \ Known : Seen(k)' = REnd \/ RSeg \in DataSegments
  BY AtOnce
<1>3. /\ pc = "prepared" /\ Len(up) = 1 /\ dac = "IDLE"
      /\ \A k \in Known : Seen(k).state = "IDLE"
  BY <1>0, <1>1, PrepareAlone
<1>4. RSeg \in Segments /\ RSeg \notin DataSegments
  <2>1. <<"p">> # <<"q", "d">>
    OBVIOUS
  <2>2. QED
    BY <1>0, <2>1, Receiving, SegmentFields
<1>5. up' = <<>> /\ Begins' = {}
  BY <1>0, <1>3, BeginsReceived DEF Begins
<1>6. Fresh /\ fullness = 0
  BY <1>3 DEF Calm, FreshInv, Fresh
<1>7. REnd = IF dac = "IDLE" /\ ready
             THEN [state |-> "PREPARED", full |-> 0] ELSE Status
  BY <1>0, <1>1, ReceiveEnd
<1>8. /\ fullness' = 0 /\ REnd.full = 0 /\ dac' \in {"IDLE", "PREPARED"}
      /\ REnd.state = dac'
  BY <1>1, <1>3, <1>6, <1>7 DEF Status
<1>9. ackbuf = <<>>
  <2>1. Count(down, AnswersTo({"d"})) = 0
    BY <1>6 DEF Fresh
  <2>2. Count(up', DataSegments) = Count(up, DataSegments) - 0
    BY <1>0, <1>4, Receiving
  <2>3. Count(up, DataSegments) \in 0 .. Len(up) /\ Count(up', DataSegments) = 0
    BY <1>0, <1>5, CountOne, Types
  <2>4. Flying = 0
    BY <1>3, <2>2, <2>3 DEF Flying
  <2>5. QED
    BY <1>0, <1>2, <2>1, <2>4, LastUnread DEF Calm
<1>10. Books' /\ FlightInv'
  BY DEF Flow
<1>11. Count(down', AnswersTo({"d"})) = 0
  <2>1. Len(ackbuf') = 0
    BY <1>1, <1>9
  <2>2. /\ Count(down', AnswersTo({"d"})) \in Nat
        /\ Count(down', AnswersTo({"d"})) <= Len(ackbuf')
    BY <1>10, ComingNext
  <2>3. QED
    BY <2>1, <2>2
<1>12. \A k \in Known' : /\ Seen(k)'.full = 0
                         /\ Seen(k)'.state \in {"IDLE", "PREPARED"}
                         /\ dac' = "IDLE" => Seen(k)'.state = "IDLE"
                         /\ k \notin Known => Seen(k)'.state = dac'
  BY <1>2, <1>3, <1>4, <1>6, <1>8 DEF Fresh
<1>13. Fresh'
  <2>1. Total(ackbuf') + (IF pc' \in {"prepared", "acks"} THEN n' ELSE 0) <= Target
    BY <1>1, <1>6 DEF Fresh
  <2>2. QED
    BY <1>1, <1>5, <1>8, <1>9, <1>11, <1>12, <2>1 DEF Fresh
<1>14. FreshInv'
  <2>1. ASSUME NEW k \in Known', Seen(k)'.state = "IDLE", NEW l \in 0 .. k
        PROVE  Seen(l)'.state = "IDLE"
    <3>1. l \in Known' /\ (k \in Known => l \in Known)
      <4>1. Len(down) \in Nat /\ k \in 0 .. Len(down')
        BY <1>0, <2>1, Types DEF Known
      <4>2. QED
        BY <2>1, <4>1 DEF Known
    <3>2. CASE dac' = "IDLE"
      BY <1>12, <3>1, <3>2
    <3>3. CASE dac' # "IDLE"
      <4>1. k \in Known
        BY <1>12, <2>1, <3>3
      <4>2. QED
        BY <1>2, <1>3, <3>1, <4>1
    <3>4. QED
      BY <3>2, <3>3
  <2>2. QED
    BY <1>13, <2>1 DEF FreshInv
<1>15. BeginInv'
  <2>1. status.state = "IDLE"
    BY <1>3, CalmTypes
  <2>2. QED
    BY <1>1, <1>5, <2>1 DEF BeginInv
<1>16. InFlight' = 0
  <2>1. PointsOf(up') = <<>> /\ InFlight' = Total(PointsOf(up'))
    BY <1>5 DEF PointsOf, InFlight
  <2>2. QED
    BY <2>1, TotalOne
<1>17. \A k \in Known' : Sum(k)' = 0
  <2> TAKE k \in Known'
  <2>1. /\ Total(Unread(k)') \in Nat /\ Total(Unread(k)') <= Total(ackbuf')
    BY <1>10, BoundsNext
  <2>2. Total(ackbuf') = 0
    BY <1>1, <1>9, TotalOne
  <2>3. Total(Unread(k)') = 0
    BY <2>1, <2>2
  <2>4. QED
    BY <1>12, <2>3 DEF Sum
<1>18. SumInv'
  <2>1. n <= Target /\ Target \in Nat /\ 0 <= Target /\ n \in Int
    <3>1. Total(ackbuf) + n <= Target /\ Total(ackbuf) = 0
      BY <1>3, <1>6, <1>9, TotalOne DEF Fresh
    <3>2. Target \in Nat /\ n \in Int
      BY CalmTypes
    <3>3. QED
      BY <3>1, <3>2
  <2>2. 0 + n <= Target
    BY <2>1
  <2>3. \A k \in Prepared' : k \in Known'
    BY DEF Prepared
  <2>4. fullness' + InFlight' = 0
    BY <1>8, <1>16
  <2>5. QED
    BY <1>1, <1>17, <2>1, <2>2, <2>3, <2>4 DEF SumInv
<1>19. FrameInv'
  BY <1>1 DEF Calm, FrameInv
<1>20. QED
  BY <1>2, <1>14, <1>15, <1>18, <1>19 DEF Calm

(* Once it was begun, or points are under way to a DAC that takes them,    *)
(* the host has seen and sees no idle one.                                 *)
LEMMA NotFresh ==
  ASSUME Flow, Calm, ~Fresh
  PROVE  /\ pc # "prepared" /\ \A k \in Known : Seen(k).state # "IDLE"
BY CalmIdle DEF Calm, FreshInv

LEMMA CalmReceiveBegin ==
  ASSUME Flow, Flow', Calm, Undisturbed, Receive, Undisturbed', RSeg.cmds = <<"b">>
  PROVE  Calm'
<1>0. TypeOK /\ Books /\ StateInv /\ FlightInv
  BY DEF Flow, Books
<1>1. /\ UNCHANGED <<pc, n, points, idx, status, ackbuf, dc_begin_sent>>
      /\ up # <<>> /\ dac' = REnd.state /\ fullness' = REnd.full
  BY Received DEF hostVars, bookVars
<1>2. /\ defer' = <<>>
      /\ \A k \in Known : k \in Known' /\ Seen(k)' = Seen(k) /\ Sum(k)' = Sum(k)
      /\ \A k \in Known' \ Known : Seen(k)' = REnd \/ RSeg \in DataSegments
  BY AtOnce
<1>3. RSeg \in Segments /\ RSeg \notin DataSegments
  <2>1. <<"b">> # <<"q", "d">>
    OBVIOUS
  <2>2. QED
    BY <1>0, <2>1, Receiving, SegmentFields
<1>4. 1 \in Begins
  BY <1>0, BeginsReceived DEF Begins
<1>5. dac = "PREPARED" /\ dc_begin_sent /\ \A i \in Begins : i = 1
  BY <1>4 DEF Calm, BeginInv
<1>6. Begins' = {}
  <2>1. \A i \in Begins' : i \in Nat \ {0} /\ i + 1 = 1
    BY <1>0, <1>5, BeginsReceived
  <2>2. QED
    BY <2>1
<1>7. REnd = [state |-> "PLAYING", full |-> fullness]
  BY <1>0, <1>1, <1>5, ReceiveEnd
<1>8. dac' = "PLAYING"
  BY <1>1, <1>7
<1>9. pc # "prepared" /\ \A k \in Known : Seen(k).state # "IDLE"
  BY <1>4, NotFresh DEF Fresh
<1>10. \A k \in Known' \ Known : Seen(k)'.state = "PLAYING"
  BY <1>2, <1>3, <1>7
<1>11. FreshInv'
  BY <1>1, <1>2, <1>9, <1>10 DEF FreshInv
<1>12. BeginInv'
  BY <1>1, <1>5, <1>6 DEF BeginInv
<1>13. SumInv'
  <2>1. \A k \in Prepared' : k \in Prepared /\ Sum(k)' = Sum(k)
    BY <1>2, <1>10 DEF Prepared
  <2>2. SumInv
    BY DEF Calm
  <2>3. QED
    BY <1>1, <1>8, <2>1, <2>2 DEF SumInv
<1>14. FrameInv'
  BY <1>1 DEF Calm, FrameInv
<1>15. QED
  BY <1>2, <1>11, <1>12, <1>13, <1>14 DEF Calm

LEMMA FlyingNext == (Books => Flying \in 0 .. Len(ackbuf))'
<1>1. Books => Flying \in 0 .. Len(ackbuf)
  BY FlyingBounds
<1>2. QED
  BY <1>1, PTL

LEMMA CalmReceiveData ==
  ASSUME Flow, Flow', Calm, Undisturbed, Receive, Undisturbed',
         RSeg.cmds = <<"q", "d">>
  PROVE  Calm'
<1>0. TypeOK /\ Books /\ StateInv /\ FlightInv /\ RoomInv
  BY DEF Flow, Books
<1>1. /\ UNCHANGED <<pc, n, points, idx, status, ackbuf, dc_begin_sent>>
      /\ up # <<>> /\ dac' = REnd.state /\ fullness' = REnd.full
  BY Received DEF hostVars, bookVars
<1>2. /\ defer' = <<>> /\ ~lost /\ ~lost'
      /\ RSeg.n > 0 => REnd.full = fullness + RSeg.n
      /\ \A k \in Known : k \in Known' /\ Seen(k)' = Seen(k) /\ Sum(k)' = Sum(k)
      /\ \A k \in Known' \ Known :
           \/ Seen(k)' = REnd /\ k = Len(down')
           \/ /\ RSeg \in DataSegments /\ Seen(k)' = Status
              /\ Count(SubSeq(down', 1, k), AnswersTo({"d"}))
                   = Count(down, AnswersTo({"d"}))
  BY AtOnce
<1>3. /\ RSeg \in Segments /\ InFlight' = InFlight - RSeg.n
      /\ Count(up', DataSegments)
           = Count(up, DataSegments) - (IF RSeg \in DataSegments THEN 1 ELSE 0)
  BY <1>0, Receiving
<1>4. RSeg \in DataSegments
  <2>1. <<"q", "d">> # <<"p">> /\ <<"q", "d">> # <<"b">>
    OBVIOUS
  <2>2. QED
    BY <1>3, <2>1, SegmentFields
<1>5. RSeg.n \in Nat /\ RSeg.n > 0
  BY <1>3, <1>4, SegmentFields
<1>6. fullness \in Nat /\ InFlight \in Nat /\ Target \in Nat /\ n \in Int
  BY CalmTypes
<1>7. REnd.full = fullness + RSeg.n
  BY <1>2, <1>5
<1>8. REnd = IF dac # "IDLE"
             THEN [state |-> dac, full |-> Least(fullness + RSeg.n, Capacity)]
             ELSE Status
  BY <1>0, <1>1, ReceiveEnd
<1>9. dac # "IDLE"
  <2>1. SUFFICES ASSUME dac = "IDLE" PROVE FALSE
    OBVIOUS
  <2>2. REnd.full = fullness
    BY <1>8, <2>1 DEF Status
  <2>3. QED
    BY <1>5, <1>6, <1>7, <2>2
<1>10. REnd.state = dac /\ dac' = dac
  BY <1>1, <1>8, <1>9
<1>11. fullness' + InFlight' = fullness + InFlight
  <2>1. fullness' + InFlight' = (fullness + RSeg.n) + (InFlight - RSeg.n)
    BY <1>1, <1>3, <1>7, Zenon
  <2>2. (fullness + RSeg.n) + (InFlight - RSeg.n) = fullness + InFlight
    BY <1>5, <1>6
  <2>3. QED
    BY <2>1, <2>2
<1>12. ~Fresh
  <2>1. SUFFICES ASSUME Fresh PROVE FALSE
    OBVIOUS
  <2>2. ackbuf = <<>>
    BY <1>9, <2>1 DEF Fresh
  <2>3. Flying \in 0 .. Len(ackbuf)
    BY <1>0, FlyingBounds
  <2>4. Flying = 0
    BY <2>2, <2>3
  <2>5. Count(up', DataSegments) = 0 - 1
    BY <1>3, <1>4, <2>4 DEF Flying
  <2>6. (Flying \in 0 .. Len(ackbuf))'
    <3>1. Books' /\ ackbuf' = ackbuf
      BY <1>1 DEF Flow
    <3>2. QED
      BY <3>1, FlyingNext
  <2>7. QED
    BY <2>5, <2>6 DEF Flying
<1>13. pc # "prepared" /\ \A k \in Known : Seen(k).state # "IDLE"
  BY <1>12, NotFresh
<1>14. \A k \in Known' \ Known : Seen(k)'.state = dac
  BY <1>2, <1>10 DEF Status
<1>15. FreshInv'
  BY <1>1, <1>2, <1>9, <1>13, <1>14 DEF FreshInv
<1>16. BeginInv'
  <2>1. BeginInv
    BY DEF Calm
  <2>2. \A i \in Begins' : i \in Nat \ {0} /\ i + 1 \in Begins
    BY <1>0, BeginsReceived
  <2>3. \A i, j \in Begins' : i = j
    <3>1. \A i, j \in Begins' : i \in Nat /\ j \in Nat /\ i + 1 = j + 1
      BY <2>1, <2>2 DEF BeginInv
    <3>2. QED
      BY <3>1
  <2>4. Begins' # {} => Begins # {}
    BY <2>2
  <2>5. QED
    BY <1>1, <1>10, <2>1, <2>3, <2>4 DEF BeginInv
<1>17. ASSUME NEW k \in Known' \ Known PROVE Sum(k)' = fullness + InFlight
  <2>1. CASE Seen(k)' = REnd /\ k = Len(down')
    <3>1. (Books /\ FlightInv /\ ~lost /\ defer = <<>>)'
      BY <1>2 DEF Flow
    <3>2. Total(Unread(k)') = InFlight'
      BY <2>1, <3>1, LastUnreadNext
    <3>3. Sum(k)' = fullness' + InFlight'
      BY <1>1, <2>1, <3>2 DEF Sum
    <3>4. QED
      BY <1>11, <3>3
  <2>2. CASE /\ Seen(k)' = Status
             /\ Count(SubSeq(down', 1, k), AnswersTo({"d"}))
                  = Count(down, AnswersTo({"d"}))
    <3>1. /\ SubSeq(down, 1, Len(down)) = down
          /\ Total(Unread(Len(down))) = InFlight
      BY <1>0, <1>2, LastUnread DEF Calm
    <3>2. Unread(k)' = Unread(Len(down))
      BY <1>1, <2>2, <3>1 DEF Unread
    <3>3. Seen(k)'.full = fullness
      BY <2>2 DEF Status
    <3>4. QED
      BY <3>1, <3>2, <3>3 DEF Sum
  <2>3. QED
    BY <1>2, <2>1, <2>2
<1>18. SumInv'
  <2>1. SumInv
    BY DEF Calm
  <2>2. CASE dac = "PREPARED"
    <3>1. \A k \in Prepared' : Sum(k)' = fullness + InFlight
      <4>1. ASSUME NEW k \in Prepared', k \in Known PROVE Sum(k)' = fullness + InFlight
        <5>1. k \in Prepared
          BY <1>2, <4>1 DEF Prepared
        <5>2. QED
          BY <1>2, <2>1, <2>2, <4>1, <5>1 DEF SumInv
      <4>2. QED
        BY <1>17, <4>1 DEF Prepared
    <3>2. fullness + InFlight <= Target
      BY <1>0, <1>9 DEF RoomInv, RoomForAll
    <3>3. pc \in {"prepared", "acks"} => fullness + InFlight + n <= Target
      <4>1. pc \in {"prepared", "acks"} => n >= 0
        BY DEF Calm, FrameInv
      <4>2. CASE n > 0
        BY <1>0, <1>9, <4>2 DEF RoomInv
      <4>3. CASE ~(n > 0)
        BY <1>6, <3>2, <4>1, <4>3
      <4>4. QED
        BY <4>2, <4>3
    <3>4. QED
      BY <1>1, <1>11, <3>1, <3>2, <3>3 DEF SumInv
  <2>3. CASE dac # "PREPARED"
    <3>1. \A k \in Prepared' : k \in Prepared /\ Sum(k)' = Sum(k)
      BY <1>2, <1>14, <2>3 DEF Prepared
    <3>2. QED
      BY <1>1, <1>10, <2>1, <2>3, <3>1 DEF SumInv
  <2>4. QED
    BY <2>2, <2>3
<1>19. FrameInv'
  BY <1>1 DEF Calm, FrameInv
<1>20. QED
  BY <1>2, <1>15, <1>16, <1>18, <1>19 DEF Calm

(* What has been disturbed stays so, and Estop disturbs.                   *)
LEMMA StillUndisturbed ==
  ASSUME TypeOK, [Next]_vars, Undisturbed'
  PROVE  Undisturbed /\ ~Estop
<1>1. estops \in Nat
  BY DEF TypeOK
<1>2. CASE WriteFrame \/ Worker \/ Arrive \/ PureAck \/ Tick \/ EstopClear
           \/ UNCHANGED vars
  <2>1. UNCHANGED <<late, refused, estops>>
    BY <1>2, Zenon DEF WriteFrame, Worker, EstimateIdle, Estimate, Estimated,
         EstimateFull, ReadAnswer, Waited, PrepareAcked, SendData, SendNothing,
         Arrive, PureAck, Tick, EstopClear, vars, playVars, replyVars
  <2>2. ~(estops' = estops + 1)
    BY <1>1, <2>1
  <2>3. QED
    BY <2>1, <2>2 DEF Undisturbed, Estop
<1>3. CASE Receive
  <2>1. /\ late' = (late \/ RNow < Len(RSeg.cmds))
        /\ refused' = (refused \/ (RSeg.n > 0 /\ REnd.full # fullness + RSeg.n))
        /\ estops' = estops
    BY <1>3, Received
  <2>2. ~(estops' = estops + 1)
    BY <1>1, <2>1
  <2>3. QED
    BY <2>1, <2>2 DEF Undisturbed, Estop
<1>4. CASE Estop
  BY <1>1, <1>4 DEF Estop, Undisturbed
<1>5. QED
  BY <1>2, <1>3, <1>4 DEF Next

LEMMA UndisturbedInit == Init => UndisturbedInv
<1> SUFFICES ASSUME Init PROVE UndisturbedInv
  OBVIOUS
<1>1. /\ down = <<>> /\ up = <<>> /\ ackbuf = <<>> /\ fullness = 0 /\ defer = <<>>
      /\ status = Status /\ pc = "idle" /\ dac \in {"IDLE", "PREPARED"} /\ idx = 0
      /\ Target \in Nat
  BY ConstantTypes DEF Init
<1>2. Flow
  BY BooksInit, FlightInit, StateInit, EstimateInit, RoomInit DEF Flow
<1>3. Known = {0} /\ Seen(0) = status /\ Total(ackbuf) = 0 /\ Unread(0) = ackbuf
  <2>1. Len(down) = 0
    BY <1>1
  <2>2. Known = {0}
    BY <2>1 DEF Known
  <2>3. Total(ackbuf) = 0
    BY <1>1, TotalOne
  <2>4. QED
    BY <1>2, <2>2, <2>3, CalmTypes
<1>4. Begins = {} /\ Count(down, AnswersTo({"d"})) = 0
  <2>1. Begins = {}
    BY <1>1 DEF Begins
  <2>2. Count(down, AnswersTo({"d"})) = 0
    BY <1>1, CountOne
  <2>3. QED
    BY <2>1, <2>2
<1>5. InFlight = 0
  <2>1. PointsOf(up) = <<>> /\ InFlight = Total(PointsOf(up))
    BY <1>1 DEF PointsOf, InFlight
  <2>2. QED
    BY <2>1, TotalOne
<1>6. Fresh
  <2>1. Total(ackbuf) + 0 <= Target
    BY <1>1, <1>3
  <2>2. QED
    BY <1>1, <1>3, <1>4, <2>1 DEF Fresh, Status
<1>7. FreshInv
  <2>1. 0 .. 0 = {0}
    OBVIOUS
  <2>2. QED
    BY <1>1, <1>3, <1>6, <2>1 DEF FreshInv
<1>8. BeginInv
  BY <1>1, <1>4 DEF BeginInv, Status
<1>9. SumInv
  <2>1. \A k \in Prepared : k = 0
    BY <1>3 DEF Prepared
  <2>2. Sum(0) = 0 + 0
    BY <1>1, <1>3 DEF Sum, Status
  <2>3. QED
    BY <1>1, <1>5, <2>1, <2>2 DEF SumInv
<1>10. QED
  BY <1>1, <1>7, <1>8, <1>9 DEF UndisturbedInv, Calm, FrameInv

LEMMA UndisturbedStep == Flow /\ UndisturbedInv /\ [Next]_vars => UndisturbedInv'
<1> SUFFICES ASSUME Flow, UndisturbedInv, [Next]_vars, Undisturbed' PROVE Calm'
  BY DEF UndisturbedInv
<1>0. TypeOK
  BY DEF Flow, Books
<1>1. Undisturbed /\ ~Estop
  BY <1>0, StillUndisturbed
<1>2. Calm
  BY <1>1 DEF UndisturbedInv
<1>3. FrameInv
  BY <1>2 DEF Calm
<1>t. /\ n \in Int /\ idx \in Int /\ points \in Nat /\ FrameSizes \subseteq Nat \ {0}
  BY CalmTypes
<1>4. CASE EstimateFull \/ Waited \/ Arrive \/ PureAck \/ EstopClear \/ UNCHANGED vars
  <2>1. UNCHANGED <<fullness, dac, up, status, down, ackbuf, dc_begin_sent, defer>>
    BY <1>4, Zenon DEF EstimateFull, Waited, Arrive, PureAck, EstopClear, vars,
         bookVars, netVars, playVars, replyVars
  <2>2. UNCHANGED <<n, points, idx>> /\ (pc' = pc \/ pc' \in {"top", "wait"})
    BY <1>4 DEF EstimateFull, Waited, Arrive, PureAck, EstopClear, vars, hostVars
  <2>3. pc = "idle" => pc' = "idle"
    BY <1>4 DEF EstimateFull, Waited, Arrive, PureAck, EstopClear, vars, hostVars
  <2>4. pc' = "idle" => pc = "idle"
    BY <2>2
  <2>5. FrameInv'
    BY <1>3, <2>2, <2>3, <2>4 DEF FrameInv
  <2>6. QED
    BY <1>2, <2>1, <2>2, <2>5, CalmQuiet
<1>5. CASE WriteFrame
  <2>1. /\ pc = "idle" /\ pc' = "top" /\ points' \in FrameSizes /\ idx' = idx
        /\ UNCHANGED <<fullness, dac, up, status, down, ackbuf, dc_begin_sent, defer>>
    BY <1>5 DEF WriteFrame, bookVars, netVars, playVars, replyVars
  <2>2. points' > 0 /\ 0 \in 0 .. points' - 1
    <3>1. points' \in Nat \ {0}
      BY <1>t, <2>1, Zenon
    <3>2. \A p \in Nat \ {0} : p > 0 /\ 0 \in 0 .. p - 1
      OBVIOUS
    <3>3. QED
      BY <3>1, <3>2, Zenon
  <2>3. idx' = 0
    BY <1>3, <2>1 DEF FrameInv
  <2>4. FrameInv'
    BY <2>1, <2>2, <2>3 DEF FrameInv
  <2>5. QED
    BY <1>2, <2>1, <2>4, CalmQuiet
<1>6. CASE SendNothing
  <2>1. /\ pc = "acks" /\ Advance
        /\ UNCHANGED <<fullness, dac, up, status, down, ackbuf, dc_begin_sent, defer>>
    BY <1>6 DEF SendNothing, bookVars, netVars, playVars, replyVars
  <2>2. FrameInv' /\ pc' \in {"top", "idle"}
    BY <1>2, <2>1, CalmAdvance
  <2>3. QED
    BY <1>2, <2>1, <2>2, CalmQuiet
<1>7. CASE EstimateIdle
  BY <1>2, <1>7, CalmPrepare
<1>8. CASE Estimate
  BY <1>2, <1>8, CalmEstimate
<1>9. CASE PrepareAcked
  BY <1>2, <1>9, CalmAcked
<1>10. CASE SendData
  BY <1>2, <1>10, CalmSend
<1>11. CASE ReadAnswer
  BY <1>2, <1>11, CalmRead
<1>12. CASE Tick
  BY <1>2, <1>12, CalmTick
<1>13. CASE Receive
  <2>1. Flow'
    BY BooksStep, FlightStep, StateStep, EstimateStep, RoomStep DEF Flow
  <2>2. RSeg.cmds \in {<<"p">>, <<"b">>, <<"q", "d">>}
    <3>1. RSeg \in Segments
      BY <1>0, <1>13, Receiving
    <3>2. QED
      BY <3>1, SegmentFields
  <2>3. QED
    BY <1>1, <1>2, <1>13, <2>1, <2>2, CalmReceivePrepare, CalmReceiveBegin,
       CalmReceiveData
<1>14. QED
  BY <1>1, <1>4, <1>5, <1>6, <1>7, <1>8, <1>9, <1>10, <1>11, <1>12, <1>13
     DEF Next, Worker

(* With no answer deferred, no point refused and no stop from outside, the *)
(* index of dac_loop stays within the frame of etherdream_write and what   *)
(* it sends are points of that frame.                                      *)
THEOREM FrameSent == Spec => []SendsTheFrameUndisturbed
<1>1. Flow /\ UndisturbedInv => SendsTheFrameUndisturbed
  BY DEF UndisturbedInv, Calm, FrameInv, SendsTheFrameUndisturbed, SendsTheFrame
<1>2. Init => Flow /\ UndisturbedInv
  BY BooksInit, FlightInit, StateInit, EstimateInit, RoomInit, UndisturbedInit DEF Flow
<1>3. UndisturbedInv /\ Flow /\ [Next]_vars => UndisturbedInv'
  BY UndisturbedStep
<1>4. QED
  BY <1>1, <1>2, <1>3, FlowSpec, PTL DEF Spec
=============================================================================
