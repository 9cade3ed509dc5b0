------------------------- MODULE PointStreamProofs -------------------------
(***************************************************************************)
(* Whatever the sizes of buffer, commands and rings, wherever TCP cuts the *)
(* stream and whenever the interrupt strikes, the parser stays in step,    *)
(* every command has one answer and the points are played in order.        *)
(***************************************************************************)
EXTENDS PointStreamSafety, FiniteSetTheorems, SequenceTheorems, TLAPS

-----------------------------------------------------------------------------
(* Arithmetic and sequences.                                               *)

LEMMA Whole ==
  ASSUME NEW a \in Nat, NEW b \in Nat \ {0}
  PROVE  /\ a \div b \in Nat /\ (a \div b) * b <= a
         /\ a >= b => a \div b >= 1
<1>1. a \div b \in Int /\ a % b \in 0 .. b - 1 /\ a = b * (a \div b) + (a % b)
  BY SMT
<1>2. (a \div b) * b = b * (a \div b)
  BY <1>1, SMT
<1>3. a \div b = 0 => b * (a \div b) = 0
  BY SMT
<1>4. QED
  BY <1>1, <1>2, <1>3, SMT

LEMMA Products ==
  ASSUME NEW a \in Nat, NEW b \in Nat, NEW c \in Nat \ {0}
  PROVE  /\ a * c \in Nat /\ (a + b) * c = a * c + b * c
         /\ a <= b => a * c <= b * c
         /\ a < b => a * c + c <= b * c
         /\ a > 0 => a * c >= c
<1>1. a * c \in Nat /\ b * c \in Nat /\ (a + b) * c = a * c + b * c
  BY SMT
<1>2. ASSUME NEW d \in Nat, d > 0 PROVE d * c >= c
  <2>1. (d - 1) * c >= 0 /\ d * c = (d - 1) * c + c
    BY <1>2, SMT
  <2>2. QED
    BY <2>1, <1>2, SMT
<1>3. a <= b => a * c <= b * c
  BY SMT
<1>4. ASSUME a < b PROVE a * c + c <= b * c
  <2>1. b * c = a * c + (b - a) * c
    BY SMT
  <2>2. (b - a) * c >= c
    BY <1>2, <1>4
  <2>3. QED
    BY <1>1, <2>1, <2>2, SMT
<1>5. QED
  BY <1>1, <1>2, <1>3, <1>4

LEMMA Dropped ==
  ASSUME NEW S, NEW s \in Seq(S), NEW k \in 0 .. Len(s)
  PROVE  /\ Drop(s, k) \in Seq(S) /\ Len(Drop(s, k)) = Len(s) - k
         /\ \A i \in 1 .. Len(s) - k : Drop(s, k)[i] = s[i + k]
<1>1. Len(s) \in Nat /\ \A i \in k + 1 .. Len(s) : s[i] \in S
  BY LenProperties, ElementOfSeq
<1>2. QED
  BY <1>1, SubSeqProperties, k + 1 \in Int DEF Drop

LEMMA Taken ==
  ASSUME NEW S, NEW s \in Seq(S), NEW k \in 0 .. Len(s)
  PROVE  /\ SubSeq(s, 1, k) \in Seq(S) /\ Len(SubSeq(s, 1, k)) = k
         /\ \A i \in 1 .. k : SubSeq(s, 1, k)[i] = s[i]
         /\ SubSeq(s, 1, k) \o Drop(s, k) = s
<1>1. Len(s) \in Nat /\ \A i \in 1 .. k : s[i] \in S
  BY LenProperties, ElementOfSeq
<1>2. /\ SubSeq(s, 1, k) \in Seq(S) /\ Len(SubSeq(s, 1, k)) = k
      /\ \A i \in 1 .. k : SubSeq(s, 1, k)[i] = s[i]
  BY <1>1, SubSeqProperties
<1>3. /\ Drop(s, k) \in Seq(S) /\ Len(Drop(s, k)) = Len(s) - k
      /\ \A i \in 1 .. Len(s) - k : Drop(s, k)[i] = s[i + k]
  BY Dropped
<1>4. /\ SubSeq(s, 1, k) \o Drop(s, k) \in Seq(S)
      /\ Len(SubSeq(s, 1, k) \o Drop(s, k)) = Len(s)
      /\ \A i \in 1 .. Len(s) :
           (SubSeq(s, 1, k) \o Drop(s, k))[i]
             = IF i <= k THEN SubSeq(s, 1, k)[i] ELSE Drop(s, k)[i - k]
  BY <1>1, <1>2, <1>3, ConcatProperties
<1>5. \A i \in 1 .. Len(s) : (SubSeq(s, 1, k) \o Drop(s, k))[i] = s[i]
  BY <1>1, <1>2, <1>3, <1>4, SMT
<1>6. QED
  BY <1>2, <1>4, <1>5, SeqEqual

LEMMA DropConcat ==
  ASSUME NEW S, NEW s \in Seq(S), NEW t \in Seq(S), NEW k \in 0 .. Len(s)
  PROVE  Drop(s, k) \o t = Drop(s \o t, k)
<1> DEFINE d == Drop(s, k)
           w == s \o t
           l == d \o t
           r == Drop(w, k)
<1>1. Len(s) \in Nat /\ Len(t) \in Nat
  BY LenProperties
<1>2. /\ d \in Seq(S) /\ Len(d) = Len(s) - k
      /\ \A i \in 1 .. Len(s) - k : d[i] = s[i + k]
  BY Dropped
<1>3. /\ w \in Seq(S) /\ Len(w) = Len(s) + Len(t)
      /\ \A i \in 1 .. Len(s) + Len(t) :
           w[i] = IF i <= Len(s) THEN s[i] ELSE t[i - Len(s)]
  BY ConcatProperties
<1> HIDE DEF d, w
<1>4. /\ l \in Seq(S) /\ Len(l) = Len(d) + Len(t)
      /\ \A i \in 1 .. Len(d) + Len(t) :
           l[i] = IF i <= Len(d) THEN d[i] ELSE t[i - Len(d)]
  BY <1>2, ConcatProperties
<1>5. k \in 0 .. Len(w)
  BY <1>1, <1>3
<1>6. /\ r \in Seq(S) /\ Len(r) = Len(w) - k
      /\ \A i \in 1 .. Len(w) - k : r[i] = w[i + k]
  BY <1>3, <1>5, Dropped
<1> HIDE DEF l, r
<1>7. \A i \in 1 .. Len(l) : l[i] = r[i]
  <2> TAKE i \in 1 .. Len(l)
  <2>1. /\ i + k \in 1 .. Len(w) /\ i \in 1 .. Len(w) - k
        /\ i \in 1 .. Len(d) + Len(t)
    BY <1>1, <1>2, <1>3, <1>4
  <2>2. CASE i <= Len(s) - k
    BY <1>1, <1>2, <1>3, <1>4, <1>6, <2>1, <2>2
  <2>3. CASE ~(i <= Len(s) - k)
    <3>1. l[i] = t[i - Len(d)]
      BY <1>1, <1>2, <1>4, <2>1, <2>3
    <3>2. r[i] = t[i + k - Len(s)]
      BY <1>1, <1>3, <1>6, <2>1, <2>3
    <3>3. i - Len(d) = i + k - Len(s)
      BY <1>1, <1>2
    <3>4. QED
      BY <3>1, <3>2, <3>3
  <2>4. QED
    BY <2>2, <2>3
<1>8. l = r
  <2>1. Len(l) = Len(r)
    BY <1>1, <1>2, <1>3, <1>4, <1>6
  <2>2. QED
    BY <1>4, <1>6, <1>7, <2>1, SeqEqual
<1>9. QED
  BY <1>8 DEF l, r, d, w

-----------------------------------------------------------------------------
(* The commands in the stream.                                             *)

LEMMA SizeConstants ==
  /\ PS_BUFFER_SIZE \in Nat /\ SndMax \in Nat \ {0}
  /\ PS_DEFERRED_ACK_MAX \in Nat \ {0} /\ Capacity \in Nat \ {0}
  /\ PointSize \in 2 .. PS_BUFFER_SIZE /\ BeginSize \in 2 .. PS_BUFFER_SIZE
  /\ QueueSize \in 2 .. PS_BUFFER_SIZE /\ DataSize \in 2 .. PS_BUFFER_SIZE
<1>1. /\ PointSize \in 2 .. PS_BUFFER_SIZE /\ BeginSize \in 2 .. PS_BUFFER_SIZE
      /\ QueueSize \in 2 .. PS_BUFFER_SIZE /\ DataSize \in 2 .. PS_BUFFER_SIZE
  BY SizeAssumption, Zenon DEF Sizes
<1>2. QED
  BY <1>1, SizeAssumption

LEMMA CommandFields ==
  ASSUME NEW u \in Commands
  PROVE  u.op \in Ops /\ u.n \in Nat /\ u.over \in BOOLEAN
BY CommandAssumption

LEMMA SizeType ==
  ASSUME NEW u \in Commands
  PROVE  /\ Size(u) \in Nat \ {0}
         /\ u.op \in {"b", "u"} => Size(u) = BeginSize
         /\ u.op = "q" => Size(u) = QueueSize
         /\ u.op = "d" => Size(u) = DataSize + u.n * PointSize
         /\ u.op \notin {"b", "u", "q", "d"} => Size(u) = 1
<1>1. u.n * PointSize \in Nat
  BY SizeConstants, CommandFields, Products
<1>2. QED
  BY <1>1, SizeConstants, CommandFields DEF Size

(* Bytes taken from the front.                                             *)
LEMMA EndOfDrop ==
  ASSUME NEW s \in Seq(Commands), NEW a \in Seq(Byte), NEW k \in 0 .. Len(a),
         EndOf(s, a)
  PROVE  EndOf(s, Drop(a, k))
<1> DEFINE d == Drop(a, k)
<1>1. /\ d \in Seq(Byte) /\ Len(d) = Len(a) - k
      /\ \A i \in 1 .. Len(a) - k : d[i] = a[i + k]
  BY Dropped
<1>2. Len(a) \in Nat
  BY LenProperties
<1> HIDE DEF d
<1> SUFFICES ASSUME NEW i \in 1 .. Len(d)
             PROVE  LET id == d[i][1] last == i + Size(s[id]) - d[i][2]
                    IN /\ id \in 1 .. Len(s) /\ d[i][2] \in 1 .. Size(s[id])
                       /\ last <= Len(d)
                       /\ \A m \in i .. last : d[m] = <<id, d[i][2] + m - i>>
                       /\ IF last < Len(d) THEN d[last + 1] = <<id + 1, 1>>
                          ELSE id = Len(s)
  BY DEF EndOf, d
<1> DEFINE id == a[i + k][1]
           n  == Size(s[id])
           j  == i + k
           last == j + n - a[j][2]
<1>3. i + k \in 1 .. Len(a) /\ d[i] = a[i + k]
  BY <1>1, <1>2
<1>4. /\ id \in 1 .. Len(s) /\ a[j][2] \in 1 .. n
      /\ last <= Len(a)
      /\ \A m \in j .. last : a[m] = <<id, a[j][2] + m - j>>
      /\ IF last < Len(a) THEN a[last + 1] = <<id + 1, 1>> ELSE id = Len(s)
  BY <1>3 DEF EndOf
<1>5. n \in Nat
  <2>1. s[id] \in Commands
    BY <1>4, ElementOfSeq
  <2>2. QED
    BY <2>1, SizeType
<1>6. i + n - d[i][2] = last - k
  BY <1>2, <1>3, <1>4, <1>5
<1>7. d[i][1] = id /\ d[i][2] = a[j][2] /\ a[j][2] \in Nat
  BY <1>3, <1>4, <1>5
<1>14. last \in Int /\ last <= Len(a) /\ j = i + k /\ i \in Nat /\ k \in Nat
  BY <1>1, <1>2, <1>4, <1>5, <1>7
<1>15. IF last < Len(a) THEN a[last + 1] = <<id + 1, 1>> ELSE id = Len(s)
  BY <1>4
<1>16. \A m \in j .. last : a[m] = <<id, a[j][2] + m - j>>
  BY <1>4
<1>17. last >= j
  BY <1>4, <1>5, <1>7
<1> HIDE DEF n, last, j
<1>8. \A m \in i .. last - k : d[m] = <<id, d[i][2] + m - i>>
  <2> TAKE m \in i .. last - k
  <2>1. m + k \in j .. last /\ m \in 1 .. Len(a) - k
    BY <1>2, <1>14
  <2>2. d[m] = a[m + k] /\ a[m + k] = <<id, a[j][2] + (m + k) - j>>
    BY <1>1, <1>16, <2>1
  <2>3. a[j][2] + (m + k) - j = d[i][2] + m - i
    BY <1>7, <1>14, <2>1
  <2>4. QED
    BY <2>2, <2>3
<1>9. IF last - k < Len(d) THEN d[last - k + 1] = <<id + 1, 1>> ELSE id = Len(s)
  <2>1. CASE last - k < Len(d)
    <3>1. last - k + 1 \in 1 .. Len(a) - k /\ last < Len(a)
      BY <1>1, <1>2, <1>14, <1>17, <2>1
    <3>2. d[last - k + 1] = a[(last - k + 1) + k]
      BY <1>1, <3>1
    <3>3. (last - k + 1) + k = last + 1
      BY <1>14
    <3>4. QED
      BY <3>1, <3>2, <3>3, <1>15, <2>1
  <2>2. CASE ~(last - k < Len(d))
    BY <1>1, <1>2, <1>14, <1>15, <2>2
  <2>3. QED
    BY <2>1, <2>2
<1>10. last - k <= Len(d)
  BY <1>1, <1>2, <1>14
<1>11. id \in 1 .. Len(s) /\ d[i][2] \in 1 .. n
  BY <1>4, <1>7
<1>12. Size(s[d[i][1]]) = n
  BY <1>7 DEF n
<1>13. QED
  BY <1>6, <1>7, <1>8, <1>9, <1>10, <1>11, <1>12

(* A command sent.                                                         *)
LEMMA EndOfSend ==
  ASSUME NEW s \in Seq(Commands), NEW a \in Seq(Byte), NEW u \in Commands,
         EndOf(s, a)
  PROVE  LET t == [i \in 1 .. Size(u) |-> <<Len(s) + 1, i>>] IN
           /\ t \in Seq(Byte) /\ t # <<>> /\ t[1] = <<Len(s) + 1, 1>>
           /\ EndOf(Append(s, u), a \o t)
<1> DEFINE N == Size(u)
           t == [i \in 1 .. N |-> <<Len(s) + 1, i>>]
           b == a \o t
           r == Append(s, u)
<1>1. N \in Nat \ {0} /\ Len(s) \in Nat /\ Len(a) \in Nat
  BY SizeType, LenProperties
<1>2. t \in Seq(Byte) /\ Len(t) = N /\ \A i \in 1 .. N : t[i] = <<Len(s) + 1, i>>
  <2>1. \A i \in 1 .. N : <<Len(s) + 1, i>> \in Byte
    BY <1>1 DEF Byte
  <2>2. t \in [1 .. N -> Byte]
    BY <2>1
  <2>3. t \in Seq(Byte)
    BY <1>1, <2>2, SeqDef
  <2>4. QED
    BY <1>1, <2>3, LenProperties, DOMAIN t = 1 .. N
<1> HIDE DEF t
<1>3. /\ b \in Seq(Byte) /\ Len(b) = Len(a) + N
      /\ \A i \in 1 .. Len(a) + N : b[i] = IF i <= Len(a) THEN a[i] ELSE t[i - Len(a)]
  BY <1>2, ConcatProperties
<1>4. /\ r \in Seq(Commands) /\ Len(r) = Len(s) + 1 /\ r[Len(s) + 1] = u
      /\ \A i \in 1 .. Len(s) : r[i] = s[i]
  BY AppendProperties
<1> HIDE DEF b, r, N
<1>5. ASSUME NEW i \in 1 .. Len(b)
      PROVE  LET id == b[i][1] last == i + Size(r[id]) - b[i][2]
             IN /\ id \in 1 .. Len(r) /\ b[i][2] \in 1 .. Size(r[id])
                /\ last <= Len(b)
                /\ \A m \in i .. last : b[m] = <<id, b[i][2] + m - i>>
                /\ IF last < Len(b) THEN b[last + 1] = <<id + 1, 1>> ELSE id = Len(r)
  <2> DEFINE id == b[i][1]
             n  == Size(r[id])
             last == i + n - b[i][2]
  <2>1. CASE i <= Len(a)
    <3>1. i \in 1 .. Len(a) /\ b[i] = a[i]
      BY <1>1, <1>3, <2>1
    <3>2. /\ id \in 1 .. Len(s) /\ b[i][2] \in 1 .. Size(s[id])
          /\ i + Size(s[id]) - b[i][2] <= Len(a)
          /\ \A m \in i .. i + Size(s[id]) - b[i][2] : a[m] = <<id, b[i][2] + m - i>>
          /\ IF i + Size(s[id]) - b[i][2] < Len(a)
             THEN a[i + Size(s[id]) - b[i][2] + 1] = <<id + 1, 1>> ELSE id = Len(s)
      BY <3>1 DEF EndOf
    <3>3. s[id] = r[id] /\ s[id] \in Commands
      BY <1>4, <3>2, ElementOfSeq
    <3>4. n \in Nat /\ n = Size(s[id])
      BY <3>3, SizeType
    <3> HIDE DEF n
    <3>5. /\ b[i][2] \in 1 .. n /\ last <= Len(a) /\ last >= i
          /\ \A m \in i .. last : a[m] = <<id, b[i][2] + m - i>>
          /\ IF last < Len(a) THEN a[last + 1] = <<id + 1, 1>> ELSE id = Len(s)
      BY SMTT(20), <3>2, <3>4, <1>1
    <3>6. last \in 1 .. Len(a) /\ last < Len(b)
      BY <1>1, <1>3, <3>4, <3>5
    <3>7. \A m \in i .. last : b[m] = <<id, b[i][2] + m - i>>
      <4> TAKE m \in i .. last
      <4>1. m \in 1 .. Len(a) + N /\ m <= Len(a)
        BY <1>1, <3>1, <3>6
      <4>2. b[m] = a[m]
        BY <1>3, <4>1
      <4>3. QED
        BY <3>5, <4>2
    <3>8. b[last + 1] = <<id + 1, 1>>
      <4>1. CASE last < Len(a)
        BY <1>1, <1>3, <3>5, <3>6, <4>1
      <4>2. CASE ~(last < Len(a))
        <5>1. last + 1 = Len(a) + 1 /\ id = Len(s)
          BY <1>1, <3>5, <3>6, <4>2
        <5>2. b[Len(a) + 1] = t[1]
          BY <1>1, <1>3
        <5>3. QED
          BY <1>1, <1>2, <5>1, <5>2
      <4>3. QED
        BY <4>1, <4>2
    <3>9. last <= Len(b) /\ id \in 1 .. Len(r)
      BY <1>1, <1>3, <1>4, <3>2, <3>6
    <3>10. QED
      BY <3>5, <3>6, <3>7, <3>8, <3>9 DEF n
  <2>2. CASE ~(i <= Len(a))
    <3>1. i - Len(a) \in 1 .. N /\ b[i] = t[i - Len(a)]
      BY <1>1, <1>3, <2>2
    <3>2. id = Len(s) + 1 /\ b[i][2] = i - Len(a)
      BY <1>2, <3>1
    <3>3. n = N
      BY <1>4, <3>2 DEF N
    <3> HIDE DEF n
    <3>4. last = Len(b)
      BY <1>1, <1>3, <3>1, <3>2, <3>3
    <3>5. \A m \in i .. last : b[m] = <<id, b[i][2] + m - i>>
      <4> TAKE m \in i .. last
      <4>1. m - Len(a) \in 1 .. N /\ m \in 1 .. Len(a) + N /\ ~(m <= Len(a))
        BY <1>1, <1>3, <2>2, <3>4
      <4>2. b[m] = <<Len(s) + 1, m - Len(a)>>
        BY <1>2, <1>3, <4>1
      <4>3. m - Len(a) = b[i][2] + m - i
        BY <1>1, <3>2
      <4>4. QED
        BY <3>2, <4>2, <4>3
    <3>6. id \in 1 .. Len(r) /\ b[i][2] \in 1 .. n /\ id = Len(r)
      BY <1>1, <1>4, <3>1, <3>2, <3>3
    <3>7. last <= Len(b) /\ ~(last < Len(b))
      BY <1>1, <1>3, <3>4
    <3>8. QED
      BY <3>5, <3>6, <3>7 DEF n
  <2>3. QED
    BY <2>1, <2>2
<1>6. EndOf(r, b)
  BY <1>5, Zenon DEF EndOf
<1>7. t # <<>> /\ t[1] = <<Len(s) + 1, 1>>
  BY <1>1, <1>2, EmptySeq
<1>8. QED
  BY <1>2, <1>6, <1>7 DEF b, r, t, N

(* Where the parser looks after k bytes of the command at the front.       *)
LEMMA EndOfTake ==
  ASSUME NEW s \in Seq(Commands), NEW a \in Seq(Byte), EndOf(s, a), a # <<>>,
         NEW k \in Nat, k > 0, k + a[1][2] <= Size(s[a[1][1]]) + 1
  PROVE  /\ k <= Len(a) /\ a[1][1] \in 1 .. Len(s) /\ a[1][2] \in Nat
         /\ s[a[1][1]] \in Commands
         /\ \A m \in 1 .. k : a[m] = <<a[1][1], a[1][2] + m - 1>>
         /\ IF k + a[1][2] <= Size(s[a[1][1]])
            THEN /\ Drop(a, k) # <<>>
                 /\ Head(Drop(a, k)) = <<a[1][1], a[1][2] + k>>
            ELSE IF Drop(a, k) = <<>> THEN a[1][1] = Len(s)
                 ELSE Head(Drop(a, k)) = <<a[1][1] + 1, 1>>
<1> DEFINE id == a[1][1]
           n  == Size(s[id])
           f  == a[1][2]
           last == 1 + n - f
           d  == Drop(a, k)
<1>1. Len(a) \in Nat \ {0}
  BY EmptySeq
<1>2. /\ id \in 1 .. Len(s) /\ f \in 1 .. n /\ last <= Len(a)
      /\ \A m \in 1 .. last : a[m] = <<id, f + m - 1>>
      /\ IF last < Len(a) THEN a[last + 1] = <<id + 1, 1>> ELSE id = Len(s)
  BY <1>1, 1 \in 1 .. Len(a) DEF EndOf
<1>3. s[id] \in Commands /\ n \in Nat /\ f \in Nat
  <2>1. s[id] \in Commands
    BY <1>2, ElementOfSeq
  <2>2. n \in Nat
    BY <2>1, SizeType
  <2>3. QED
    BY <1>2, <2>1, <2>2
<1> HIDE DEF id, n, f
<1>4. k + f <= n + 1
  BY DEF id, n, f
<1>12. /\ last \in Nat /\ last = 1 + n - f
       /\ \A m \in 1 .. last : a[m] = <<id, f + m - 1>>
       /\ IF last < Len(a) THEN a[last + 1] = <<id + 1, 1>> ELSE id = Len(s)
       /\ last <= Len(a)
  <2>1. last \in Nat /\ last = 1 + n - f
    BY <1>2, <1>3
  <2>2. QED
    BY <1>2, <2>1
<1> HIDE DEF last
<1>5. k \in 1 .. last /\ k \in 0 .. Len(a)
  BY <1>1, <1>3, <1>4, <1>12
<1>13. /\ k <= Len(a) /\ id \in 1 .. Len(s) /\ f \in Nat /\ s[id] \in Commands
       /\ \A m \in 1 .. k : a[m] = <<id, f + m - 1>>
  BY SMTT(20), <1>2, <1>3, <1>5, <1>12
<1>6. /\ d \in Seq(Byte) /\ Len(d) = Len(a) - k
      /\ \A i \in 1 .. Len(a) - k : d[i] = a[i + k]
  BY <1>5, Dropped
<1> HIDE DEF d
<1>7. d # <<>> <=> k < Len(a)
  BY <1>1, <1>5, <1>6, EmptySeq
<1>8. d # <<>> => Head(d) = a[k + 1]
  BY <1>1, <1>5, <1>6, <1>7
<1>9. CASE k + f <= n
  <2>0. last = 1 + n - f /\ last \in Nat
    BY <1>12
  <2>1. k + 1 \in 1 .. last
    BY <1>3, <1>9, <2>0
  <2>2. k < Len(a) /\ a[k + 1] = <<id, f + (k + 1) - 1>>
    BY <1>1, <1>12, <2>1
  <2>3. f + (k + 1) - 1 = f + k
    BY <1>3
  <2>4. d # <<>> /\ Head(d) = <<id, f + k>>
    BY <1>7, <1>8, <2>2, <2>3
  <2>5. QED
    BY <1>9, <1>13, <2>4 DEF d, id, n, f
<1>10. CASE ~(k + f <= n)
  <2>1. k = last
    BY <1>3, <1>4, <1>10, <1>12
  <2>2. IF d = <<>> THEN id = Len(s) ELSE Head(d) = <<id + 1, 1>>
    BY <1>1, <1>7, <1>8, <1>12, <2>1
  <2>3. QED
    BY <1>10, <1>13, <2>2 DEF d, id, n, f
<1>11. QED
  BY <1>9, <1>10

-----------------------------------------------------------------------------
(* What the parser looks at.                                               *)

LEMMA AheadType ==
  ASSUME TypeOK
  PROVE  /\ Rest \in Seq(Byte) /\ Len(Rest) = Len(buf) + Len(seg)
         /\ Ahead \in Seq(Byte) /\ Len(Ahead) = Len(Rest) + Len(wire)
         /\ Len(buf) \in Nat /\ Len(seg) \in Nat /\ Len(wire) \in Nat
         /\ \A i \in 1 .. Len(buf) : Rest[i] = buf[i]
         /\ \A i \in 1 .. Len(Rest) : Ahead[i] = Rest[i]
         /\ Ahead = <<>> <=> Len(Ahead) = 0
         /\ Ahead # <<>> => Head(Ahead) = Ahead[1] /\ Ahead[1] \in Byte
         /\ buf = <<>> => Rest = seg
<1>1. /\ buf \in Seq(Byte) /\ seg \in Seq(Byte) /\ wire \in Seq(Byte)
      /\ Len(buf) \in Nat /\ Len(seg) \in Nat /\ Len(wire) \in Nat
  BY LenProperties DEF TypeOK
<1>2. /\ Rest \in Seq(Byte) /\ Len(Rest) = Len(buf) + Len(seg)
      /\ \A i \in 1 .. Len(buf) : Rest[i] = buf[i]
  BY <1>1, ConcatProperties DEF Rest
<1>3. /\ Ahead \in Seq(Byte) /\ Len(Ahead) = Len(Rest) + Len(wire)
      /\ \A i \in 1 .. Len(Rest) : Ahead[i] = Rest[i]
  <2>1. /\ Ahead \in Seq(Byte) /\ Len(Ahead) = Len(Rest) + Len(wire)
        /\ \A i \in 1 .. Len(Rest) + Len(wire) :
             Ahead[i] = IF i <= Len(Rest) THEN Rest[i] ELSE wire[i - Len(Rest)]
    <3>1. Rest \in Seq(Byte) /\ wire \in Seq(Byte)
      BY <1>1, <1>2
    <3>2. QED
      BY ONLY <3>1, ConcatProperties, SMT DEF Ahead
  <2>2. QED
    BY <1>1, <1>2, <2>1
<1>4. Ahead = <<>> <=> Len(Ahead) = 0
  BY <1>3, EmptySeq
<1>5. Ahead # <<>> => Head(Ahead) = Ahead[1] /\ Ahead[1] \in Byte
  BY <1>1, <1>2, <1>3, <1>4, ElementOfSeq
<1>6. buf = <<>> => Rest = seg
  BY <1>1, ConcatEmptySeq DEF Rest
<1>7. QED
  BY <1>1, <1>2, <1>3, <1>4, <1>5, <1>6

LEMMA Looks ==
  ASSUME TypeOK, seg # <<>>
  PROVE  /\ Window \in Seq(Byte) /\ Len(Window) \in 1 .. Len(Rest)
         /\ Len(buf) < Len(Rest) /\ Len(Rest) <= Len(Ahead)
         /\ Len(Window) = IF buf = <<>> THEN Len(seg)
                          ELSE Least(PS_BUFFER_SIZE, Len(Rest))
         /\ Len(Window) = Len(Rest) => Window = Rest
         /\ Ahead # <<>> /\ Front = Ahead[1] /\ Front = Head(Ahead)
<1>1. /\ Rest \in Seq(Byte) /\ Len(Rest) = Len(buf) + Len(seg)
      /\ Len(buf) \in Nat /\ Len(seg) \in Nat /\ Len(wire) \in Nat
      /\ Len(Ahead) = Len(Rest) + Len(wire)
      /\ \A i \in 1 .. Len(Rest) : Ahead[i] = Rest[i]
      /\ Ahead = <<>> <=> Len(Ahead) = 0
      /\ Ahead # <<>> => Head(Ahead) = Ahead[1]
      /\ buf = <<>> => Rest = seg
  BY AheadType
<1>2. Len(seg) > 0
  BY <1>1, EmptySeq DEF TypeOK
<1>3. CASE buf = <<>>
  <2>1. Window = seg /\ Window = Rest
    BY <1>1, <1>3 DEF Window
  <2>2. Front = Rest[1] /\ Len(buf) < Len(Rest)
    BY <1>1, <1>2, <2>1, EmptySeq DEF Front
  <2>3. QED
    BY <1>1, <1>2, <1>3, <2>1, <2>2
<1>4. CASE buf # <<>>
  <2> DEFINE n == Least(PS_BUFFER_SIZE, Len(Rest))
  <2>1. n \in 1 .. Len(Rest)
    BY <1>1, <1>2, SizeConstants DEF Least
  <2>2. Window = SubSeq(Rest, 1, n)
    BY <1>4 DEF Window
  <2> HIDE DEF n
  <2>3. /\ Window \in Seq(Byte) /\ Len(Window) = n
        /\ \A i \in 1 .. n : Window[i] = Rest[i]
    BY <1>1, <2>1, <2>2, Taken
  <2>4. Window # <<>> /\ Front = Rest[1]
    BY <2>1, <2>3, EmptySeq DEF Front
  <2>5. Len(Window) = Len(Rest) => Window = Rest
    BY <1>1, <2>2, <2>3, SubSeqFull
  <2>6. QED
    BY <1>1, <1>2, <1>4, <2>1, <2>3, <2>4, <2>5 DEF n
<1>5. QED
  BY <1>3, <1>4

(* The first command ahead.                                                *)
LEMMA FirstAhead ==
  ASSUME TypeOK, seg # <<>>, EndOf(sent, Ahead)
  PROVE  /\ Front[1] \in 1 .. Len(sent) /\ Unit \in Commands
         /\ Front[2] \in 1 .. Size(Unit) /\ Unit = sent[Head(Ahead)[1]]
         /\ Current = Front[1]
<1>1. Ahead # <<>> /\ Front = Ahead[1] /\ Front = Head(Ahead) /\ 1 \in 1 .. Len(Ahead)
  BY Looks, AheadType
<1>2. Front[1] \in 1 .. Len(sent) /\ Front[2] \in 1 .. Size(sent[Front[1]])
  BY <1>1 DEF EndOf
<1>3. sent[Front[1]] \in Commands
  BY <1>2, ElementOfSeq DEF TypeOK
<1>4. QED
  BY <1>1, <1>2, <1>3 DEF Unit, Current

(* k bytes of the command at the front are taken.                          *)
LEMMA TookBytes ==
  ASSUME TypeOK, seg # <<>>, EndOf(sent, Ahead), Short,
         NEW k \in 1 .. Len(Rest), k + Front[2] <= Size(Unit) + 1,
         Took(k), UNCHANGED <<sent, wire>>
  PROVE  /\ buf' = <<>> /\ seg' \in Seq(Byte) /\ failed' = (k <= Len(buf))
         /\ EndOf(sent, Ahead)' /\ Short'
         /\ IF k + Front[2] <= Size(Unit)
            THEN Ahead' # <<>> /\ Head(Ahead') = <<Front[1], Front[2] + k>>
            ELSE IF Ahead' = <<>> THEN Front[1] = Len(sent)
                 ELSE Head(Ahead') = <<Front[1] + 1, 1>>
<1>1. /\ Rest \in Seq(Byte) /\ Ahead \in Seq(Byte)
      /\ wire \in Seq(Byte) /\ sent \in Seq(Commands)
  BY AheadType DEF TypeOK
<1>2. Ahead # <<>> /\ Front = Ahead[1] /\ Len(Rest) <= Len(Ahead) /\ Unit = sent[Front[1]]
  BY Looks DEF Unit
<1>3. buf' = <<>> /\ seg' = Drop(Rest, k) /\ failed' = (k <= Len(buf))
  BY DEF Took
<1>4. k \in 0 .. Len(Rest) /\ k \in 0 .. Len(Ahead)
  BY <1>1, <1>2, LenProperties
<1>5. seg' \in Seq(Byte)
  BY <1>1, <1>3, <1>4, Dropped
<1>6. Ahead' = Drop(Ahead, k)
  <2>1. Rest' = seg'
    BY <1>3, <1>5, ConcatEmptySeq DEF Rest
  <2>2. Ahead' = Drop(Rest, k) \o wire
    BY <1>3, <2>1 DEF Ahead
  <2>3. QED
    BY <1>1, <1>4, <2>2, DropConcat DEF Ahead
<1>7. EndOf(sent, Drop(Ahead, k))
  BY <1>1, <1>4, EndOfDrop
<1>8. EndOf(sent, Ahead)'
  BY <1>6, <1>7 DEF EndOf
<1>9. IF k + Front[2] <= Size(Unit)
      THEN /\ Drop(Ahead, k) # <<>>
           /\ Head(Drop(Ahead, k)) = <<Front[1], Front[2] + k>>
      ELSE IF Drop(Ahead, k) = <<>> THEN Front[1] = Len(sent)
           ELSE Head(Drop(Ahead, k)) = <<Front[1] + 1, 1>>
  <2>1. k + Ahead[1][2] <= Size(sent[Ahead[1][1]]) + 1 /\ k \in Nat /\ k > 0
    BY <1>2
  <2>2. IF k + Ahead[1][2] <= Size(sent[Ahead[1][1]])
        THEN /\ Drop(Ahead, k) # <<>>
             /\ Head(Drop(Ahead, k)) = <<Ahead[1][1], Ahead[1][2] + k>>
        ELSE IF Drop(Ahead, k) = <<>> THEN Ahead[1][1] = Len(sent)
             ELSE Head(Drop(Ahead, k)) = <<Ahead[1][1] + 1, 1>>
    BY <1>1, <1>2, <2>1, EndOfTake
  <2>3. QED
    BY <1>2, <2>2, Zenon
<1>10. QED
  BY <1>3, <1>5, <1>6, <1>8, <1>9 DEF Short

-----------------------------------------------------------------------------
(* What is kept in the buffer is still too short.                          *)

LEMMA HeadKept ==
  ASSUME NEW b \in Seq(Byte), NEW s \in Seq(Byte), b # <<>>
  PROVE  Head(SubSeq(b \o s, 1, Least(PS_BUFFER_SIZE, Len(b \o s)))) = b[1]
<1> DEFINE r == b \o s
           n == Least(PS_BUFFER_SIZE, Len(r))
           w == SubSeq(r, 1, n)
<1>1. Len(b) \in Nat \ {0} /\ Len(s) \in Nat
  BY EmptySeq, LenProperties
<1>2. r \in Seq(Byte) /\ Len(r) = Len(b) + Len(s) /\ r[1] = b[1]
  BY <1>1, ConcatProperties
<1> HIDE DEF r
<1>3. n \in 1 .. Len(r)
  BY <1>1, <1>2, SizeConstants DEF Least
<1> HIDE DEF n
<1>4. w \in Seq(Byte) /\ Len(w) = n /\ w[1] = r[1]
  BY <1>2, <1>3, Taken
<1> HIDE DEF w
<1>5. Head(w) = b[1]
  BY <1>2, <1>3, <1>4, EmptySeq
<1>6. QED
  BY <1>5 DEF w, n, r

LEMMA ShortKept ==
  ASSUME TypeOK, Short, UNCHANGED <<buf, st>>, seg' \in Seq(Byte),
         buf # <<>> => sent'[buf[1][1]] = sent[buf[1][1]]
  PROVE  Short'
<1> SUFFICES ASSUME buf # <<>> PROVE Len(buf) < HeaderSize'
  BY DEF Short
<1>1. buf \in Seq(Byte) /\ seg \in Seq(Byte)
  BY DEF TypeOK
<1>2. Front = buf[1]
  BY <1>1, HeadKept DEF Front, Window, Rest
<1>3. Front' = buf[1]
  BY <1>1, HeadKept DEF Front, Window, Rest
<1>4. Unit' = Unit /\ Front' = Front
  BY <1>2, <1>3 DEF Unit
<1>5. HeaderSize' = HeaderSize
  BY <1>4 DEF HeaderSize, Cmd
<1>6. QED
  BY <1>5 DEF Short

LEMMA HeaderType ==
  HeaderSize \in 1 .. PS_BUFFER_SIZE
BY SizeConstants DEF HeaderSize

(* The bytes of an incomplete command are put into the buffer.             *)
LEMMA KeptBytes ==
  ASSUME TypeOK, seg # <<>>, Len(Window) < HeaderSize, NeedMore,
         UNCHANGED <<sent, wire, st>>
  PROVE  /\ Ahead' = Ahead /\ Short' /\ ~failed'
         /\ buf' \in Seq(Byte) /\ Len(buf') <= PS_BUFFER_SIZE /\ seg' \in Seq(Byte)
<1>1. /\ Rest \in Seq(Byte) /\ Len(Rest) = Len(buf) + Len(seg)
      /\ Len(buf) \in Nat /\ Len(seg) \in Nat
      /\ buf = <<>> => Rest = seg
      /\ \A i \in 1 .. Len(Rest) : Ahead[i] = Rest[i]
  BY AheadType
<1>2. /\ Len(Window) \in 1 .. Len(Rest) /\ Front = Ahead[1]
      /\ Len(Window) = IF buf = <<>> THEN Len(seg)
                       ELSE Least(PS_BUFFER_SIZE, Len(Rest))
      /\ Len(Window) = Len(Rest) => Window = Rest
  BY Looks
<1>3. HeaderSize \in 1 .. PS_BUFFER_SIZE /\ PS_BUFFER_SIZE \in Nat
  BY HeaderType, SizeConstants
<1>4. Len(Window) = Len(Rest)
  <2>1. CASE buf = <<>>
    BY <1>1, <1>2, <2>1
  <2>2. CASE buf # <<>>
    BY <1>1, <1>2, <1>3, <2>2 DEF Least
  <2>3. QED
    BY <2>1, <2>2
<1>5. Len(Rest) < HeaderSize /\ Len(Rest) > 0
  BY <1>1, <1>2, <1>3, <1>4
<1>6. buf' = Rest /\ seg' = <<>> /\ ~failed'
  <2>1. buf = <<>> => ~(Len(seg) >= PS_BUFFER_SIZE)
    BY <1>1, <1>2, <1>3, <1>4
  <2>2. Window = Rest
    BY <1>2, <1>4
  <2>3. /\ buf' = Rest /\ seg' = <<>>
        /\ failed' = IF buf = <<>> THEN Len(seg) >= PS_BUFFER_SIZE
                     ELSE Window # Rest
    BY DEF NeedMore
  <2>4. CASE buf = <<>>
    BY <2>1, <2>3, <2>4, Zenon
  <2>5. CASE buf # <<>>
    BY <2>2, <2>3, <2>5, Zenon
  <2>6. QED
    BY <2>4, <2>5
<1>7. <<>> \in Seq(Byte)
  BY EmptySeq
<1>8. Rest' = Rest
  BY <1>1, <1>6, ConcatEmptySeq DEF Rest
<1>9. Ahead' = Ahead
  BY <1>8 DEF Ahead
<1>10. Rest # <<>> /\ Rest[1] = Front
  BY <1>1, <1>2, <1>5, EmptySeq
<1>11. Front' = Front
  <2>1. Front' = Head(SubSeq(Rest \o <<>>, 1,
                             Least(PS_BUFFER_SIZE, Len(Rest \o <<>>))))
    <3>1. Window' = SubSeq(Rest', 1, Least(PS_BUFFER_SIZE, Len(Rest')))
      BY <1>6, <1>10 DEF Window
    <3>2. Rest' = Rest \o <<>>
      BY <1>1, <1>8, ConcatEmptySeq
    <3>3. QED
      BY <3>1, <3>2 DEF Front
  <2>2. QED
    BY <1>1, <1>7, <1>10, <2>1, HeadKept
<1>12. HeaderSize' = HeaderSize
  BY <1>11 DEF HeaderSize, Cmd, Unit
<1>13. Short'
  BY <1>5, <1>6, <1>12 DEF Short
<1>14. QED
  BY <1>1, <1>3, <1>5, <1>6, <1>7, <1>9, <1>13

-----------------------------------------------------------------------------
(* What a step of the callback does to the place of the parser.            *)

(* The command at the front is done with.                                  *)
Finishes ==
  /\ UNCHANGED <<sent, wire>> /\ ~failed' /\ Place' /\ InPlace'
  /\ Current' = Current + 1 /\ Current \in 1 .. Len(sent) /\ st' = "MAIN"

(* The parser stays within the command.                                    *)
Stays ==
  /\ UNCHANGED <<sent, wire>> /\ ~failed' /\ Place' /\ Current' = Current
  /\ Astray' => Astray

(* It leaves its place, because of an over-rate command.                   *)
Strays ==
  /\ UNCHANGED <<sent, wire>> /\ (failed' \/ Place')
  /\ ~WithinRate /\ st = "MAIN" /\ st' = "MAIN"
  /\ Current' \in {Current, Current + 1}

(* A whole command is taken.                                               *)
LEMMA TakesCommand ==
  ASSUME TypeOK, Place, seg # <<>>, NEW k \in 1 .. Len(Rest),
         k + Front[2] = Size(Unit) + 1, k >= HeaderSize,
         Took(k), st' = "MAIN", UNCHANGED <<sent, wire>>
  PROVE  Finishes /\ buf' = <<>> /\ seg' \in Seq(Byte)
<1>1. /\ Front[1] \in 1 .. Len(sent) /\ Unit \in Commands
      /\ Front[2] \in 1 .. Size(Unit) /\ Current = Front[1]
  BY FirstAhead DEF Place
<1>2. Size(Unit) \in Nat
  BY <1>1, SizeType
<1>3. /\ buf' = <<>> /\ seg' \in Seq(Byte) /\ failed' = (k <= Len(buf))
      /\ EndOf(sent, Ahead)' /\ Short'
      /\ IF k + Front[2] <= Size(Unit)
         THEN Ahead' # <<>> /\ Head(Ahead') = <<Front[1], Front[2] + k>>
         ELSE IF Ahead' = <<>> THEN Front[1] = Len(sent)
              ELSE Head(Ahead') = <<Front[1] + 1, 1>>
  BY <1>1, <1>2, TookBytes DEF Place
<1>4. IF Ahead' = <<>> THEN Front[1] = Len(sent)
      ELSE Head(Ahead') = <<Front[1] + 1, 1>>
  BY <1>1, <1>2, <1>3
<1>5. ~(k <= Len(buf))
  <2>1. buf = <<>> => Len(buf) = 0
    BY EmptySeq
  <2>2. Len(buf) \in Nat /\ HeaderSize \in 1 .. PS_BUFFER_SIZE
    BY HeaderType, AheadType
  <2>3. Short /\ k \in Int
    BY DEF Place
  <2>4. QED
    BY <2>1, <2>2, <2>3 DEF Short
<1>6. InPlace'
  BY <1>4 DEF InPlace
<1>7. Current' = Current + 1
  BY <1>1, <1>4 DEF Current
<1>8. ~failed'
  BY <1>3, <1>5, Zenon
<1>9. QED
  BY <1>1, <1>3, <1>6, <1>7, <1>8 DEF Finishes, Place

LEMMA Dispatch ==
  ASSUME TypeOK, Place, NEW op, Command(op)
  PROVE  /\ seg # <<>> /\ st = "MAIN" /\ UNCHANGED <<sent, wire>>
         /\ Unit \in Commands /\ Cmd = op
         /\ HeaderSize \in 1 .. PS_BUFFER_SIZE /\ HeaderSize <= Len(Rest)
         /\ \/ Front[2] = 1 /\ Unit.op = op
            \/ Astray /\ Front[2] > 1 /\ op \in {"e", "x"} /\ ~WithinRate
<1>1. /\ seg # <<>> /\ st = "MAIN" /\ Cmd = op /\ Len(Window) >= HeaderSize
      /\ UNCHANGED <<sent, wire>>
  BY DEF Command, Parsing
<1>2. /\ Front[1] \in 1 .. Len(sent) /\ Unit \in Commands
      /\ Front[2] \in 1 .. Size(Unit) /\ Unit = sent[Head(Ahead)[1]]
  BY <1>1, FirstAhead DEF Place
<1>3. /\ Len(Window) \in 1 .. Len(Rest) /\ Front = Head(Ahead) /\ Ahead # <<>>
      /\ Len(Rest) \in Nat
  BY <1>1, Looks, AheadType, LenProperties
<1>4. HeaderSize \in 1 .. PS_BUFFER_SIZE
  BY HeaderType
<1>5. HeaderSize <= Len(Rest)
  BY <1>1, <1>3, <1>4
<1>6. CASE InPlace
  <2>1. Front[2] = 1
    BY <1>1, <1>3, <1>6 DEF InPlace
  <2>2. Cmd = Unit.op
    BY <2>1 DEF Cmd
  <2>3. QED
    BY <1>1, <1>2, <1>4, <1>5, <2>1, <2>2
<1>7. CASE Astray
  <2>1. Front[2] > 1 /\ Unit.over
    BY <1>2, <1>3, <1>7 DEF Astray
  <2>2. ~(Front[2] = 1)
    BY <1>2, <1>3, <2>1
  <2>3. op \in {"e", "x"}
    BY <1>1, <2>2 DEF Cmd
  <2>4. ~WithinRate
    <3>1. Front[1] \in DOMAIN sent
      BY <1>2, LenProperties DEF TypeOK
    <3>2. QED
      BY <2>1, <3>1 DEF WithinRate, Unit
  <2>5. QED
    BY <1>1, <1>2, <1>4, <1>5, <1>7, <2>1, <2>3, <2>4
<1>8. QED
  BY <1>6, <1>7 DEF Place

(* The types of what the parser keeps.                                     *)
Fits ==
  /\ buf' \in Seq(Byte) /\ Len(buf') <= PS_BUFFER_SIZE
  /\ seg' \in Seq(Byte) /\ failed' \in BOOLEAN

LEMMA TookFits ==
  ASSUME TypeOK, NEW k \in 1 .. Len(Rest), Took(k)
  PROVE  Fits
<1>1. Rest \in Seq(Byte) /\ k \in 0 .. Len(Rest)
  BY AheadType
<1>2. seg' \in Seq(Byte)
  BY <1>1, Dropped DEF Took
<1>3. buf' = <<>> /\ buf' \in Seq(Byte) /\ Len(buf') = 0
  BY EmptySeq DEF Took
<1>4. failed' \in BOOLEAN
  BY DEF Took
<1>5. QED
  BY <1>2, <1>3, <1>4, SizeConstants DEF Fits

LEMMA OneByteTaken ==
  ASSUME TypeOK, Place, NEW op \in {"p", "s", "c", "?", "v"}, Command(op),
         Took(1), st' = st
  PROVE  Fits /\ Finishes
<1>1. /\ seg # <<>> /\ st = "MAIN" /\ UNCHANGED <<sent, wire>>
      /\ Unit \in Commands /\ Cmd = op /\ HeaderSize <= Len(Rest)
      /\ HeaderSize \in 1 .. PS_BUFFER_SIZE
      /\ Front[2] = 1 /\ Unit.op = op
  BY Dispatch
<1>2. HeaderSize = 1 /\ Size(Unit) = 1
  BY <1>1, SizeType DEF HeaderSize
<1>3. 1 \in 1 .. Len(Rest)
  BY <1>1, <1>2, AheadType, LenProperties
<1>4. QED
  BY <1>1, <1>2, <1>3, TakesCommand, TookFits

LEMMA CommandTaken ==
  ASSUME TypeOK, Place, NEW op \in {"b", "u", "q", "d"}, Command(op),
         op = "d" => Unit.n = 0, Took(HeaderSize), st' = st
  PROVE  Fits /\ Finishes
<1>1. /\ seg # <<>> /\ st = "MAIN" /\ UNCHANGED <<sent, wire>>
      /\ Unit \in Commands /\ Cmd = op /\ HeaderSize <= Len(Rest)
      /\ HeaderSize \in 1 .. PS_BUFFER_SIZE
      /\ Front[2] = 1 /\ Unit.op = op
  BY Dispatch
<1>2. HeaderSize = Size(Unit)
  <2>1. 0 * PointSize = 0
    BY SizeConstants
  <2>2. HeaderSize = CASE op \in {"b", "u"} -> BeginSize
                       [] op = "q" -> QueueSize
                       [] op = "d" -> DataSize
                       [] OTHER -> 1
    BY <1>1 DEF HeaderSize
  <2>3. QED
    BY <1>1, <2>1, <2>2, SizeType, SizeConstants
<1>3. HeaderSize \in 1 .. Len(Rest)
  BY <1>1, AheadType, LenProperties
<1>4. HeaderSize + Front[2] = Size(Unit) + 1
  BY <1>1, <1>2
<1>5. QED
  BY <1>1, <1>3, <1>4, TakesCommand, TookFits

LEMMA SimplePlace ==
  ASSUME TypeOK, Place,
         \/ RecvPrepare \/ RecvBegin \/ RecvUpdate \/ RecvQueue \/ RecvStop
         \/ RecvClear \/ RecvPing \/ RecvVersion
  PROVE  Fits /\ Finishes
<1>1. CASE RecvPrepare
  BY <1>1, OneByteTaken DEF RecvPrepare, MainNext, Reply
<1>2. CASE RecvBegin
  <2>1. HeaderSize = BeginSize /\ Command("b")
    BY <1>2 DEF RecvBegin, Command, HeaderSize
  <2>2. QED
    BY <1>2, <2>1, CommandTaken DEF RecvBegin, MainNext, Reply
<1>3. CASE RecvUpdate
  <2>1. HeaderSize = BeginSize /\ Command("u")
    BY <1>3 DEF RecvUpdate, Command, HeaderSize
  <2>2. QED
    BY <1>3, <2>1, CommandTaken DEF RecvUpdate, MainNext, Reply
<1>4. CASE RecvQueue
  <2>1. HeaderSize = QueueSize /\ Command("q")
    BY <1>4 DEF RecvQueue, Command, HeaderSize
  <2>2. QED
    BY <1>4, <2>1, CommandTaken DEF RecvQueue, MainNext, Reply
<1>5. CASE RecvStop
  BY <1>5, OneByteTaken DEF RecvStop, MainNext, Reply
<1>6. CASE RecvClear
  BY <1>6, OneByteTaken DEF RecvClear, MainNext, Reply
<1>7. CASE RecvPing
  BY <1>7, OneByteTaken DEF RecvPing, MainNext, Reply
<1>8. CASE RecvVersion
  BY <1>8, OneByteTaken DEF RecvVersion
<1>9. QED
  BY <1>1, <1>2, <1>3, <1>4, <1>5, <1>6, <1>7, <1>8

(* A byte of an over-rate command is taken for a command.                  *)
LEMMA StrayTaken ==
  ASSUME TypeOK, Place, seg # <<>>, st = "MAIN", st' = "MAIN",
         UNCHANGED <<sent, wire>>, 1 <= Len(Rest), Took(1), ~WithinRate,
         Unit.over, Unit.op \in {"b", "u", "q"}
  PROVE  Fits /\ Strays
<1>1. /\ Front[1] \in 1 .. Len(sent) /\ Unit \in Commands
      /\ Front[2] \in 1 .. Size(Unit) /\ Current = Front[1]
      /\ Unit = sent[Front[1]]
  BY FirstAhead DEF Place, Unit
<1>2. Size(Unit) \in Nat /\ 1 \in 1 .. Len(Rest)
  BY <1>1, SizeType, AheadType, LenProperties
<1>3. /\ EndOf(sent, Ahead)' /\ Short'
      /\ IF 1 + Front[2] <= Size(Unit)
         THEN Ahead' # <<>> /\ Head(Ahead') = <<Front[1], Front[2] + 1>>
         ELSE IF Ahead' = <<>> THEN Front[1] = Len(sent)
              ELSE Head(Ahead') = <<Front[1] + 1, 1>>
  BY <1>1, <1>2, TookBytes DEF Place
<1>4. CASE 1 + Front[2] <= Size(Unit)
  <2>1. Ahead' # <<>> /\ Head(Ahead') = <<Front[1], Front[2] + 1>>
    BY <1>3, <1>4
  <2>2. Head(Ahead')[1] = Front[1] /\ Head(Ahead')[2] > 1
    BY <1>1, <2>1
  <2>3. Astray'
    BY <1>1, <2>1, <2>2 DEF Astray
  <2>4. Current' = Current
    BY <1>1, <2>1, <2>2 DEF Current
  <2>5. QED
    BY <1>1, <1>2, <1>3, <2>3, <2>4, TookFits DEF Strays, Place
<1>5. CASE ~(1 + Front[2] <= Size(Unit))
  <2>1. IF Ahead' = <<>> THEN Front[1] = Len(sent)
        ELSE Head(Ahead') = <<Front[1] + 1, 1>>
    BY <1>3, <1>5
  <2>2. InPlace'
    BY <2>1 DEF InPlace
  <2>3. Current' = Current + 1
    BY <1>1, <2>1 DEF Current
  <2>4. QED
    BY <1>1, <1>2, <1>3, <2>2, <2>3, TookFits DEF Strays, Place
<1>6. QED
  BY <1>4, <1>5

LEMMA EstopPlace ==
  ASSUME TypeOK, Place, RecvEstop
  PROVE  Fits /\ (Finishes \/ Strays)
<1>1. Command("e") /\ Took(1) /\ st' = st
  BY DEF RecvEstop, MainNext, Reply
<1>2. /\ seg # <<>> /\ st = "MAIN" /\ UNCHANGED <<sent, wire>>
      /\ Unit \in Commands /\ Cmd = "e" /\ HeaderSize <= Len(Rest)
      /\ HeaderSize \in 1 .. PS_BUFFER_SIZE
      /\ \/ Front[2] = 1 /\ Unit.op = "e"
         \/ Astray /\ Front[2] > 1 /\ ~WithinRate
  BY <1>1, Dispatch
<1>3. HeaderSize = 1 /\ 1 \in 1 .. Len(Rest)
  BY <1>2, AheadType, LenProperties DEF HeaderSize
<1>4. CASE Front[2] = 1 /\ Unit.op = "e"
  <2>1. Size(Unit) = 1
    BY <1>2, <1>4, SizeType
  <2>2. QED
    BY <1>1, <1>2, <1>3, <1>4, <2>1, TakesCommand, TookFits
<1>5. CASE Astray /\ Front[2] > 1 /\ ~WithinRate
  <2>1. Unit.over /\ Unit.op \in {"b", "u", "q"}
    BY <1>2, <1>5, FirstAhead DEF Astray, Place
  <2>2. QED
    BY <1>1, <1>2, <1>3, <1>5, <2>1, StrayTaken
<1>6. QED
  BY <1>2, <1>4, <1>5

LEMMA OverRatePlace ==
  ASSUME TypeOK, Place, RecvOverRate
  PROVE  Fits /\ Strays
<1>1. PICK op \in {"b", "u", "q"} : Command(op)
  BY DEF RecvOverRate
<1>2. Unit.over /\ Took(1) /\ st' = st
  BY DEF RecvOverRate, MainNext, Reply
<1>3. /\ seg # <<>> /\ st = "MAIN" /\ UNCHANGED <<sent, wire>>
      /\ HeaderSize <= Len(Rest) /\ HeaderSize \in 1 .. PS_BUFFER_SIZE
      /\ Unit.op = op
  BY <1>1, Dispatch
<1>4. ~WithinRate
  <2>1. Front[1] \in DOMAIN sent
    BY <1>3, FirstAhead, LenProperties DEF Place, TypeOK
  <2>2. QED
    BY <1>2, <2>1 DEF WithinRate, Unit
<1>5. 1 <= Len(Rest)
  BY <1>3, AheadType, LenProperties
<1>6. QED
  BY <1>2, <1>3, <1>4, <1>5, StrayTaken

(* Data commands, from the header to the last point.                       *)
LEMMA DataPlace ==
  ASSUME TypeOK, Place, RecvData
  PROVE  /\ Fits
         /\ \/ Finishes /\ pointsleft' = pointsleft /\ send_resp(Front[1], TRUE)
            \/ /\ Stays /\ st = "MAIN" /\ st' = "DATA"
               /\ pointsleft' \in Nat /\ UNCHANGED answerVars
               /\ Ahead' # <<>> /\ Head(Ahead') = <<Front[1], DataSize + 1>>
<1>1. Command("d")
  BY DEF RecvData
<1>2. /\ seg # <<>> /\ st = "MAIN" /\ UNCHANGED <<sent, wire>>
      /\ Unit \in Commands /\ Cmd = "d" /\ HeaderSize <= Len(Rest)
      /\ HeaderSize \in 1 .. PS_BUFFER_SIZE
      /\ Front[2] = 1 /\ Unit.op = "d"
  BY <1>1, Dispatch
<1>3. HeaderSize = DataSize
  BY <1>2 DEF HeaderSize
<1>4. CASE Unit.n = 0 /\ UNCHANGED <<st, pointsleft>> /\ Reply(TRUE, DataSize)
  BY <1>1, <1>3, <1>4, CommandTaken DEF Reply
<1>5. CASE /\ Unit.n > 0 /\ st' = "DATA" /\ pointsleft' = Unit.n
           /\ Took(DataSize) /\ UNCHANGED answerVars
  <2> DEFINE k == DataSize
  <2>1. /\ Front[1] \in 1 .. Len(sent) /\ Current = Front[1] /\ Unit = sent[Front[1]]
    BY <1>2, FirstAhead DEF Place, Unit
  <2>2. /\ Unit.n \in Nat /\ Size(Unit) = DataSize + Unit.n * PointSize
        /\ PointSize \in Nat \ {0} /\ DataSize \in Nat \ {0}
    BY <1>2, CommandFields, SizeType, SizeConstants
  <2>3. Unit.n * PointSize >= PointSize /\ Unit.n * PointSize \in Nat
    BY <1>5, <2>2, Products
  <2>4. k \in 1 .. Len(Rest) /\ k + Front[2] <= Size(Unit)
    BY SMTT(20), <1>2, <1>3, <2>2, <2>3, AheadType, LenProperties
  <2>5. Size(Unit) \in Nat /\ Front[2] \in Nat
    BY <1>2, SizeType
  <2>6. k + Front[2] <= Size(Unit) + 1
    BY <1>2, <2>2, <2>4, <2>5
  <2>7. /\ failed' = (k <= Len(buf)) /\ EndOf(sent, Ahead)' /\ Short'
        /\ Ahead' # <<>> /\ Head(Ahead') = <<Front[1], Front[2] + k>>
    BY <1>2, <1>5, <2>4, <2>6, TookBytes DEF Place
  <2>8. ~(k <= Len(buf))
    <3>1. buf = <<>> => Len(buf) = 0
      BY EmptySeq
    <3>2. QED
      BY <1>3, <2>2, <3>1, AheadType DEF Place, Short
  <2>9. ~failed'
    BY <2>7, <2>8, Zenon
  <2>10. InPlace'
    <3>1. (Unit.n - Unit.n) * PointSize = 0
      BY <2>2
    <3>2. Head(Ahead')[1] = Front[1] /\ Head(Ahead')[2] = 1 + DataSize
      BY <1>2, <2>7
    <3>3. sent'[Head(Ahead')[1]] = Unit
      BY <1>2, <2>1, <3>2
    <3>4. Head(Ahead')[2] = DataSize + (Unit.n - pointsleft') * PointSize + 1
      BY <1>5, <2>2, <3>1, <3>2
    <3>5. pointsleft' \in 1 .. Unit.n
      BY <1>5, <2>2
    <3>6. QED
      BY <1>2, <1>5, <2>7, <3>3, <3>4, <3>5 DEF InPlace
  <2>11. Current' = Current
    BY <2>1, <2>7 DEF Current
  <2>12. Stays
    BY <1>2, <1>5, <2>7, <2>9, <2>10, <2>11 DEF Stays, Place, Astray
  <2>13. Fits
    BY <1>5, <2>4, TookFits
  <2>14. Head(Ahead') = <<Front[1], DataSize + 1>>
    <3>1. 1 + DataSize = DataSize + 1 /\ k + Front[2] = DataSize + 1
      BY <1>2, <2>2
    <3>2. Front[2] + k = DataSize + 1
      BY <1>2, <2>2
    <3>3. QED
      BY <2>7, <3>2
  <2>15. QED
    BY <1>2, <1>5, <2>2, <2>7, <2>12, <2>13, <2>14
<1>6. QED
  BY <1>4, <1>5 DEF RecvData

LEMMA InsideData ==
  ASSUME TypeOK, Place, st # "MAIN", seg # <<>>, NEW m \in 1 .. pointsleft
  PROVE  /\ Unit \in Commands /\ Unit.op = "d" /\ pointsleft \in 1 .. Unit.n
         /\ Front[2] = DataSize + (Unit.n - pointsleft) * PointSize + 1
         /\ m * PointSize \in Nat /\ m * PointSize >= PointSize
         /\ m * PointSize + Front[2]
              = DataSize + (Unit.n - (pointsleft - m)) * PointSize + 1
         /\ m * PointSize + Front[2] <= Size(Unit) + 1
         /\ m * PointSize + Front[2] <= Size(Unit) <=> m < pointsleft
<1>1. /\ Unit \in Commands /\ Unit = sent[Head(Ahead)[1]] /\ Front = Head(Ahead)
  BY FirstAhead, Looks DEF Place
<1>2. /\ Unit.op = "d" /\ pointsleft \in 1 .. Unit.n
      /\ Front[2] = DataSize + (Unit.n - pointsleft) * PointSize + 1
  BY <1>1 DEF Place, InPlace, Astray
<1>3. /\ Unit.n \in Nat /\ Size(Unit) = DataSize + Unit.n * PointSize
      /\ PointSize \in Nat \ {0} /\ DataSize \in Nat \ {0}
  BY <1>1, <1>2, CommandFields, SizeType, SizeConstants
<1> DEFINE a == Unit.n - pointsleft
           b == Unit.n
           size == Size(Unit)
           front == Front[2]
<1>4. /\ a \in Nat /\ m \in Nat /\ a + m <= b /\ b \in Nat
      /\ Unit.n - (pointsleft - m) = a + m
      /\ a + m < b <=> m < pointsleft
  BY SMTT(20), <1>2, <1>3
<1>5. front = DataSize + a * PointSize + 1 /\ size = DataSize + b * PointSize
  BY <1>2, <1>3
<1> HIDE DEF a, b, size, front
<1>6. /\ m * PointSize \in Nat /\ m * PointSize >= PointSize /\ a * PointSize \in Nat
      /\ b * PointSize \in Nat /\ (a + m) * PointSize \in Nat
      /\ (a + m) * PointSize = a * PointSize + m * PointSize
  BY <1>3, <1>4, Products
<1>7. /\ (a + m) * PointSize <= b * PointSize
      /\ a + m < b => (a + m) * PointSize + PointSize <= b * PointSize
      /\ ~(a + m < b) => a + m = b
  BY <1>3, <1>4, Products
<1>8. m * PointSize + front = DataSize + (a + m) * PointSize + 1
  BY <1>3, <1>5, <1>6
<1>9. m * PointSize + front <= size + 1
  BY SMTT(20), <1>3, <1>5, <1>6, <1>7, <1>8
<1>10. m * PointSize + front <= size <=> a + m < b
  <2>1. CASE a + m < b
    BY SMTT(20), <1>3, <1>5, <1>6, <1>7, <1>8, <2>1
  <2>2. CASE a + m = b
    <3>1. (a + m) * PointSize = b * PointSize
      BY <2>2
    <3>2. m * PointSize + front = size + 1 /\ size \in Nat
      BY SMTT(20), <1>3, <1>5, <1>6, <1>8, <3>1
    <3>3. ~(m * PointSize + front <= size)
      BY <3>2
    <3>4. QED
      BY <1>4, <2>2, <3>3
  <2>3. QED
    BY <1>7, <2>1, <2>2
<1>11. QED
  BY <1>1, <1>2, <1>4, <1>6, <1>8, <1>9, <1>10 DEF a, b, size, front

LEMMA PointsPlace ==
  ASSUME TypeOK, Place, st # "MAIN", seg # <<>>, NEW m \in 1 .. pointsleft,
         m * PointSize <= Len(Rest), NEW ok \in BOOLEAN,
         NEW next \in {"DATA", "DATA_ABORTING"}, PointsDone(m, ok, next),
         UNCHANGED <<sent, wire>>
  PROVE  /\ Fits /\ pointsleft' \in Nat
         /\ \/ Finishes /\ send_resp(Front[1], ok)
            \/ /\ Stays /\ st' = next /\ UNCHANGED answerVars
               /\ Ahead' # <<>>
               /\ Head(Ahead') = <<Front[1], Front[2] + m * PointSize>>
<1>1. pointsleft \in Nat /\ pointsleft' = pointsleft - m /\ Took(m * PointSize)
  BY DEF PointsDone, TypeOK
<1>2. /\ Unit \in Commands /\ Unit.op = "d" /\ pointsleft \in 1 .. Unit.n
      /\ Front[2] = DataSize + (Unit.n - pointsleft) * PointSize + 1
      /\ m * PointSize \in Nat /\ m * PointSize >= PointSize
      /\ m * PointSize + Front[2]
           = DataSize + (Unit.n - (pointsleft - m)) * PointSize + 1
      /\ m * PointSize + Front[2] <= Size(Unit) + 1
      /\ m * PointSize + Front[2] <= Size(Unit) <=> m < pointsleft
  BY InsideData
<1>3. /\ Front[1] \in 1 .. Len(sent) /\ Current = Front[1] /\ Unit = sent[Front[1]]
      /\ Front[2] \in 1 .. Size(Unit)
  BY FirstAhead DEF Place, Unit
<1>4. Size(Unit) \in Nat /\ PointSize \in Nat \ {0} /\ Unit.n \in Nat
  BY <1>2, SizeType, SizeConstants, CommandFields
<1> DEFINE p == m * PointSize
<1>11. p \in Nat /\ p >= PointSize /\ p <= Len(Rest)
  BY <1>2
<1>12. /\ p + Front[2] <= Size(Unit) + 1
       /\ p + Front[2] <= Size(Unit) <=> m < pointsleft
  BY <1>2
<1> HIDE DEF p
<1>5. p \in 1 .. Len(Rest)
  BY <1>4, <1>11, AheadType, LenProperties
<1>13. Took(p)
  BY <1>1 DEF p
<1>6. Fits
  BY <1>5, <1>13, TookFits
<1>7. HeaderSize = PointSize
  BY DEF HeaderSize
<1>8. CASE m = pointsleft
  <2>1. st' = "MAIN" /\ send_resp(Front[1], ok)
    BY <1>8 DEF PointsDone
  <2>2. ~(p + Front[2] <= Size(Unit))
    BY <1>1, <1>8, <1>12
  <2>3. p + Front[2] = Size(Unit) + 1
    BY SMTT(20), <1>3, <1>4, <1>11, <1>12, <2>2
  <2>4. Finishes
    BY <1>5, <1>7, <1>11, <1>13, <2>1, <2>3, TakesCommand
  <2>5. QED
    BY <1>1, <1>6, <1>8, <2>1, <2>4
<1>9. CASE m # pointsleft
  <2>1. st' = next /\ UNCHANGED answerVars
    BY <1>9 DEF PointsDone
  <2>2. m < pointsleft /\ p + Front[2] <= Size(Unit)
    BY <1>1, <1>9, <1>12
  <2>3. /\ failed' = (p <= Len(buf)) /\ EndOf(sent, Ahead)' /\ Short'
        /\ Ahead' # <<>> /\ Head(Ahead') = <<Front[1], Front[2] + p>>
    BY <1>5, <1>12, <1>13, <2>2, TookBytes DEF Place
  <2>4. ~(p <= Len(buf))
    <3>1. buf = <<>> => Len(buf) = 0
      BY EmptySeq
    <3>2. QED
      BY <1>4, <1>7, <1>11, <3>1, AheadType DEF Place, Short
  <2>5. ~failed'
    BY <2>3, <2>4, Zenon
  <2>6. InPlace'
    <3>1. Head(Ahead')[1] = Front[1] /\ Head(Ahead')[2] = Front[2] + m * PointSize
      BY <2>3 DEF p
    <3>2. sent'[Head(Ahead')[1]] = Unit
      BY <1>3, <3>1
    <3>3. pointsleft' \in 1 .. Unit.n
      <4>1. pointsleft \in 1 .. Unit.n /\ pointsleft' = pointsleft - m
        BY <1>1, <1>2
      <4>2. QED
        BY <1>4, <2>2, <4>1
    <3>4. Head(Ahead')[2] = DataSize + (Unit.n - pointsleft') * PointSize + 1
      BY <1>1, <1>2, <1>3, <3>1
    <3>5. st' # "MAIN"
      BY <2>1
    <3>6. QED
      BY <1>2, <2>3, <3>2, <3>3, <3>4, <3>5 DEF InPlace
  <2>7. Current' = Current
    BY <1>3, <2>3 DEF Current
  <2>8. Stays
    BY <2>1, <2>3, <2>5, <2>6, <2>7 DEF Stays, Place, Astray
  <2>9. pointsleft' \in Nat
    BY <1>1, <2>2
  <2>10. QED
    BY <1>6, <2>1, <2>3, <2>8, <2>9 DEF p
<1>10. QED
  BY <1>8, <1>9

(* Steps that take nothing.                                                *)
LEMMA Waits ==
  ASSUME EndOf(sent, Ahead), InPlace \/ Astray, Short', ~failed',
         Ahead' = Ahead, UNCHANGED <<sent, wire, st, pointsleft>>
  PROVE  Stays
<1>1. EndOf(sent, Ahead)'
  BY DEF EndOf
<1>2. (InPlace' <=> InPlace) /\ (Astray' <=> Astray)
  BY DEF InPlace, Astray
<1>3. Current' = Current
  BY DEF Current
<1>4. QED
  BY <1>1, <1>2, <1>3 DEF Stays, Place

LEMMA WaitingPlace ==
  ASSUME TypeOK, Place, ~failed, RecvShort \/ DataRequest \/ Flush
  PROVE  Fits /\ Stays
<1>1. CASE RecvShort
  <2>1. /\ Ahead' = Ahead /\ Short' /\ ~failed'
        /\ buf' \in Seq(Byte) /\ Len(buf') <= PS_BUFFER_SIZE /\ seg' \in Seq(Byte)
    BY <1>1, KeptBytes DEF RecvShort, Parsing, netVars
  <2>2. failed' \in BOOLEAN
    <3>1. failed' = IF buf = <<>> THEN Len(seg) >= PS_BUFFER_SIZE
                    ELSE Window # Rest
      BY <1>1 DEF RecvShort, NeedMore
    <3>2. CASE buf = <<>>
      BY <3>1, <3>2
    <3>3. CASE buf # <<>>
      BY <3>1, <3>3
    <3>4. QED
      BY <3>2, <3>3
  <2>3. Stays
    BY <1>1, <2>1, Waits DEF RecvShort, Place, netVars
  <2>4. QED
    BY <2>1, <2>2, <2>3 DEF Fits
<1>2. CASE DataRequest \/ Flush
  <2>1. UNCHANGED <<netVars, st, pointsleft, buf, seg, failed>>
    BY <1>2 DEF DataRequest, Flush
  <2>2. UNCHANGED <<sent, wire, st, pointsleft, buf, seg, failed>>
    BY <2>1 DEF netVars
  <2>3. Rest' = Rest /\ Ahead' = Ahead
    BY <2>2 DEF Rest, Ahead
  <2>4. Short'
    <3>1. HeaderSize' = HeaderSize
      BY <2>2, <2>3 DEF HeaderSize, Cmd, Unit, Front, Window
    <3>2. QED
      BY <2>2, <3>1 DEF Place, Short
  <2>5. Stays
    BY <2>2, <2>3, <2>4, Waits DEF Place
  <2>6. QED
    BY <2>2, <2>5 DEF Fits, TypeOK
<1>3. QED
  BY <1>1, <1>2

(* The points the parser can pass on at once.                              *)
LEMMA NPoints ==
  ASSUME TypeOK, Place, Parsing, st # "MAIN", Len(Window) >= PointSize
  PROVE  /\ npoints \in 1 .. pointsleft
         /\ \A m \in 1 .. npoints : m * PointSize <= Len(Rest)
<1>1. Len(Window) \in 1 .. Len(Rest) /\ Len(Rest) \in Nat
  BY Looks, AheadType, LenProperties DEF Parsing
<1>2. PointSize \in Nat \ {0}
  BY SizeConstants
<1> DEFINE w == Len(Window)
           q == w \div PointSize
<1>3. w \in Nat /\ w <= Len(Rest) /\ w >= PointSize
  BY <1>1
<1> HIDE DEF w
<1>4. q \in Nat /\ q * PointSize <= w /\ q >= 1
  BY <1>2, <1>3, Whole
<1> HIDE DEF q
<1>5. pointsleft \in Nat /\ pointsleft > 0
  BY DEF Place, InPlace, Astray, TypeOK
<1>6. npoints = Least(q, pointsleft)
  BY DEF npoints, q, w
<1>7. npoints \in 1 .. pointsleft /\ npoints <= q
  BY <1>4, <1>5, <1>6 DEF Least
<1>8. \A m \in 1 .. npoints : m * PointSize <= Len(Rest)
  <2> TAKE m \in 1 .. npoints
  <2>1. m \in Nat /\ m <= q
    BY <1>4, <1>5, <1>7
  <2>2. m * PointSize <= q * PointSize /\ m * PointSize \in Nat /\ q * PointSize \in Nat
    BY <1>2, <1>4, <2>1, Products
  <2>3. QED
    BY <1>1, <1>3, <1>4, <2>2
<1>9. QED
  BY <1>7, <1>8

LEMMA SkipPlace ==
  ASSUME TypeOK, Place, DataSkip
  PROVE  /\ Fits /\ pointsleft' \in Nat
         /\ \/ Finishes /\ send_resp(Front[1], FALSE)
            \/ Stays /\ st' = "DATA_ABORTING" /\ UNCHANGED answerVars
<1>1. /\ Parsing /\ Len(Window) >= PointSize /\ st # "MAIN" /\ seg # <<>>
      /\ UNCHANGED <<sent, wire>> /\ PointsDone(npoints, FALSE, "DATA_ABORTING")
  BY DEF DataSkip, Parsing, netVars
<1>2. npoints \in 1 .. pointsleft /\ \A m \in 1 .. npoints : m * PointSize <= Len(Rest)
  BY <1>1, NPoints
<1>3. npoints * PointSize <= Len(Rest)
  <2>1. npoints \in 1 .. npoints
    BY <1>2 DEF TypeOK
  <2>2. QED
    BY <1>2, <2>1
<1>4. QED
  BY <1>1, <1>2, <1>3, PointsPlace

LEMMA AdvancePlace ==
  ASSUME TypeOK, Place, AdvanceInv, DataAdvance
  PROVE  /\ Fits /\ pointsleft' \in Nat
         /\ \/ Finishes /\ send_resp(Front[1], TRUE)
            \/ /\ Stays /\ st' = "DATA" /\ UNCHANGED answerVars
               /\ Ahead' # <<>>
               /\ Head(Ahead') = <<Front[1], Front[2] + chunk * PointSize>>
<1>1. /\ seg # <<>> /\ st # "MAIN" /\ UNCHANGED <<sent, wire>>
      /\ chunk \in 1 .. pointsleft /\ chunk * PointSize <= Len(Rest)
      /\ PointsDone(chunk, TRUE, "DATA")
  BY DEF DataAdvance, AdvanceInv, netVars
<1>2. QED
  BY <1>1, PointsPlace

-----------------------------------------------------------------------------
(* The types, and the place of the parser, are kept.                       *)

(* The answers and the DAC, as far as their types go.                      *)
AnswersFit ==
  /\ got' \in Seq(Answer) /\ unacked' \in 0 .. SndMax
  /\ defer' \in Seq(Answer) /\ Len(defer') < PS_DEFERRED_ACK_MAX
  /\ dropped' \in Seq(Answer)

DacFits ==
  /\ dac' \in {"IDLE", "PREPARED", "PLAYING"} /\ le' \in {"READY", "ESTOP"}
  /\ ring' \in Seq(Byte) /\ Len(ring') <= Capacity

LEMMA AnswersKept ==
  ASSUME TypeOK, UNCHANGED answerVars
  PROVE  AnswersFit
BY DEF AnswersFit, TypeOK, answerVars

LEMMA DacKept ==
  ASSUME TypeOK, UNCHANGED playVars
  PROVE  DacFits
BY DEF DacFits, TypeOK, playVars

LEMMA RespFits ==
  ASSUME TypeOK, NEW id \in Nat, NEW ok \in BOOLEAN, send_resp(id, ok)
  PROVE  AnswersFit
<1> DEFINE a == [id |-> id, ok |-> ok]
<1>1. a \in Answer
  BY DEF Answer
<1> HIDE DEF a
<1>2. /\ got \in Seq(Answer) /\ defer \in Seq(Answer) /\ dropped \in Seq(Answer)
      /\ unacked \in 0 .. SndMax /\ Len(defer) < PS_DEFERRED_ACK_MAX
      /\ SndMax \in Nat \ {0} /\ PS_DEFERRED_ACK_MAX \in Nat \ {0}
      /\ Len(defer) \in Nat
  BY SizeConstants, LenProperties DEF TypeOK
<1>3. /\ Append(got, a) \in Seq(Answer) /\ Append(dropped, a) \in Seq(Answer)
      /\ Append(defer, a) \in Seq(Answer) /\ Len(Append(defer, a)) = Len(defer) + 1
  BY <1>1, <1>2, AppendProperties
<1>4. CASE /\ unacked < SndMax /\ got' = Append(got, a) /\ unacked' = unacked + 1
           /\ UNCHANGED <<defer, dropped>>
  BY <1>2, <1>3, <1>4 DEF AnswersFit
<1>5. CASE /\ Len(defer) < PS_DEFERRED_ACK_MAX - 1
           /\ defer' = Append(defer, a) /\ UNCHANGED <<got, unacked, dropped>>
  BY <1>2, <1>3, <1>5 DEF AnswersFit
<1>6. CASE dropped' = Append(dropped, a) /\ UNCHANGED <<got, unacked, defer>>
  BY <1>2, <1>3, <1>6 DEF AnswersFit
<1>7. CASE UNCHANGED answerVars
  BY <1>7, AnswersKept
<1>8. QED
  BY <1>4, <1>5, <1>6, <1>7 DEF send_resp, a

LEMMA FlushFits ==
  ASSUME TypeOK, Flush
  PROVE  /\ AnswersFit
         /\ got' \o defer' = got \o defer /\ dropped' = dropped
<1>1. /\ got \in Seq(Answer) /\ defer \in Seq(Answer) /\ dropped \in Seq(Answer)
      /\ unacked \in 0 .. SndMax /\ Len(defer) < PS_DEFERRED_ACK_MAX
      /\ SndMax \in Nat \ {0} /\ PS_DEFERRED_ACK_MAX \in Nat \ {0}
      /\ Len(defer) \in Nat
  BY SizeConstants, LenProperties DEF TypeOK
<1> DEFINE n == IF conn = "open" THEN Least(SndMax - unacked, Len(defer)) ELSE 0
<1>2. /\ got' = got \o SubSeq(defer, 1, n) /\ defer' = Drop(defer, n)
      /\ unacked' = unacked + n /\ dropped' = dropped
  BY DEF Flush
<1>3. n \in 0 .. Len(defer) /\ unacked + n \in 0 .. SndMax
  BY <1>1 DEF Least
<1> HIDE DEF n
<1>4. /\ SubSeq(defer, 1, n) \in Seq(Answer) /\ Drop(defer, n) \in Seq(Answer)
      /\ Len(Drop(defer, n)) = Len(defer) - n
      /\ SubSeq(defer, 1, n) \o Drop(defer, n) = defer
  BY <1>1, <1>3, Taken, Dropped
<1>5. got \o SubSeq(defer, 1, n) \in Seq(Answer)
  BY <1>1, <1>4, ConcatProperties
<1>6. AnswersFit
  BY <1>1, <1>2, <1>3, <1>4, <1>5 DEF AnswersFit
<1>7. got' \o defer' = got \o defer
  <2> DEFINE x == SubSeq(defer, 1, n)
             y == Drop(defer, n)
  <2>1. x \in Seq(Answer) /\ y \in Seq(Answer) /\ x \o y = defer
    BY <1>4
  <2>2. got' = got \o x /\ defer' = y
    BY <1>2
  <2> HIDE DEF x, y
  <2>3. (got \o x) \o y = got \o (x \o y)
    <3>1. got \in Seq(Answer) /\ x \in Seq(Answer) /\ y \in Seq(Answer)
      BY <1>1, <2>1
    <3>2. QED
      BY ONLY <3>1, ConcatAssociative
  <2>4. QED
    BY <2>1, <2>2, <2>3
<1>8. QED
  BY <1>2, <1>6, <1>7

(* Points that go into the ring: the first byte of each of those taken.    *)
LEMMA PointsTaken ==
  ASSUME TypeOK, NEW m \in Nat, \A k \in 1 .. m : k * PointSize <= Len(Rest)
  PROVE  LET p == [k \in 1 .. m |-> Rest[(k - 1) * PointSize + 1]] IN
           /\ p \in Seq(Byte) /\ Len(p) = m
           /\ \A k \in 1 .. m : /\ p[k] = Rest[(k - 1) * PointSize + 1]
                                /\ (k - 1) * PointSize + 1 \in 1 .. Len(Rest)
<1> DEFINE p == [k \in 1 .. m |-> Rest[(k - 1) * PointSize + 1]]
<1>1. \A k \in 1 .. m : (k - 1) * PointSize + 1 \in 1 .. Len(Rest)
  <2> TAKE k \in 1 .. m
  <2>1. /\ PointSize \in Nat \ {0} /\ k - 1 \in Nat /\ k \in Nat /\ k - 1 < k
        /\ Len(Rest) \in Nat
    BY SizeConstants, AheadType, LenProperties
  <2>2. (k - 1) * PointSize \in Nat /\ k * PointSize \in Nat
        /\ (k - 1) * PointSize + PointSize <= k * PointSize
    BY <2>1, Products
  <2>3. QED
    BY <2>1, <2>2
<1>2. \A k \in 1 .. m : Rest[(k - 1) * PointSize + 1] \in Byte
  BY <1>1, AheadType, ElementOfSeq
<1>3. p \in [1 .. m -> Byte]
  BY <1>2
<1>4. p \in Seq(Byte) /\ DOMAIN p = 1 .. m
  BY <1>3, SeqDef
<1>5. Len(p) = m
  BY <1>4, LenProperties
<1>6. QED
  BY <1>1, <1>4, <1>5

(* Every answer is to the command at the front.                            *)
LEMMA FrontIsNat ==
  ASSUME TypeOK, Place, seg # <<>>
  PROVE  Front[1] \in Nat
BY FirstAhead DEF Place

LEMMA MainTypes ==
  ASSUME TypeOK, Place, RecvMain
  PROVE  AnswersFit /\ DacFits /\ pointsleft' \in Nat
<1>1. ASSUME NEW op, Command(op) PROVE Front[1] \in Nat
  BY <1>1, FrontIsNat DEF Command, Parsing
<1>2. <<>> \in Seq(Byte) /\ Len(<<>>) = 0 /\ Capacity \in Nat /\ pointsleft \in Nat
  BY EmptySeq, SizeConstants DEF TypeOK
<1>3. CASE RecvPrepare
  <2>1. Front[1] \in Nat /\ pointsleft' = pointsleft
    BY <1>1, <1>3 DEF RecvPrepare, MainNext
  <2>2. \E ok \in BOOLEAN : send_resp(Front[1], ok)
    BY <1>3 DEF RecvPrepare, Reply
  <2>3. DacFits
    <3>1. /\ dac' \in {"PREPARED", dac} /\ le' = le
          /\ ring' = <<>> \/ ring' = ring
      BY <1>3 DEF RecvPrepare
    <3>2. /\ dac' \in {"IDLE", "PREPARED", "PLAYING"}
          /\ le' \in {"READY", "ESTOP"}
      BY <3>1 DEF TypeOK
    <3>3. ring' \in Seq(Byte) /\ Len(ring') <= Capacity
      <4>1. ring \in Seq(Byte) /\ Len(ring) <= Capacity
        BY DEF TypeOK
      <4>2. CASE ring' = <<>>
        BY <1>2, <4>2
      <4>3. CASE ring' = ring
        BY <4>1, <4>3
      <4>4. QED
        BY <3>1, <4>2, <4>3
    <3>4. QED
      BY <3>2, <3>3 DEF DacFits
  <2>4. QED
    BY <1>2, <2>1, <2>2, <2>3, RespFits
<1>4. CASE RecvOverRate
  <2>1. Front[1] \in Nat /\ pointsleft' = pointsleft
    BY <1>1, <1>4 DEF RecvOverRate, MainNext
  <2>2. send_resp(Front[1], FALSE)
    BY <1>4 DEF RecvOverRate, Reply
  <2>3. DacFits
    BY <1>4, DacKept DEF RecvOverRate
  <2>4. QED
    BY <1>2, <2>1, <2>2, <2>3, RespFits
<1>5. CASE RecvBegin
  <2>1. Front[1] \in Nat /\ pointsleft' = pointsleft
    BY <1>1, <1>5 DEF RecvBegin, MainNext
  <2>2. send_resp(Front[1], TRUE)
    BY <1>5 DEF RecvBegin, Reply
  <2>3. DacFits
    BY <1>5 DEF RecvBegin, DacFits, TypeOK
  <2>4. QED
    BY <1>2, <2>1, <2>2, <2>3, RespFits
<1>6. CASE RecvUpdate \/ RecvQueue \/ RecvPing
  <2>1. Front[1] \in Nat /\ pointsleft' = pointsleft
    BY <1>1, <1>6 DEF RecvUpdate, RecvQueue, RecvPing, MainNext
  <2>2. send_resp(Front[1], TRUE)
    BY <1>6 DEF RecvUpdate, RecvQueue, RecvPing, Reply
  <2>3. DacFits
    BY <1>6, DacKept DEF RecvUpdate, RecvQueue, RecvPing
  <2>4. QED
    BY <1>2, <2>1, <2>2, <2>3, RespFits
<1>7. CASE RecvData
  <2>1. Front[1] \in Nat
    BY <1>1, <1>7 DEF RecvData
  <2>2. DacFits
    BY <1>7, DacKept DEF RecvData
  <2>3. CASE UNCHANGED answerVars /\ pointsleft' \in Nat
    BY <2>2, <2>3, AnswersKept
  <2>4. CASE pointsleft' = pointsleft /\ send_resp(Front[1], TRUE)
    BY <1>2, <2>1, <2>2, <2>4, RespFits
  <2>5. QED
    BY <1>7, <2>3, <2>4, DataPlace
<1>8. CASE RecvStop
  <2>1. Front[1] \in Nat /\ pointsleft' = pointsleft
    BY <1>1, <1>8 DEF RecvStop, MainNext
  <2>2. send_resp(Front[1], dac # "IDLE")
    BY <1>8 DEF RecvStop, Reply
  <2>3. DacFits
    BY <1>2, <1>8 DEF RecvStop, DacFits, TypeOK
  <2>4. QED
    BY <1>2, <2>1, <2>2, <2>3, RespFits
<1>9. CASE RecvEstop
  <2>1. Front[1] \in Nat /\ pointsleft' = pointsleft
    BY <1>1, <1>9 DEF RecvEstop, MainNext
  <2>2. send_resp(Front[1], TRUE)
    BY <1>9 DEF RecvEstop, Reply
  <2>3. DacFits
    BY <1>2, <1>9 DEF RecvEstop, DacFits, TypeOK
  <2>4. QED
    BY <1>2, <2>1, <2>2, <2>3, RespFits
<1>10. CASE RecvClear
  <2>1. Front[1] \in Nat /\ pointsleft' = pointsleft
    BY <1>1, <1>10 DEF RecvClear, MainNext
  <2>2. send_resp(Front[1], TRUE)
    BY <1>10 DEF RecvClear, Reply
  <2>3. DacFits
    BY <1>10 DEF RecvClear, DacFits, TypeOK
  <2>4. QED
    BY <1>2, <2>1, <2>2, <2>3, RespFits
<1>11. CASE RecvVersion
  <2>1. Front[1] \in Nat /\ pointsleft' = pointsleft
    BY <1>1, <1>11 DEF RecvVersion
  <2>2. send_resp(Front[1], TRUE) \/ UNCHANGED answerVars
    BY <1>11 DEF RecvVersion
  <2>3. DacFits
    BY <1>11, DacKept DEF RecvVersion
  <2>4. QED
    BY <1>2, <2>1, <2>2, <2>3, RespFits, AnswersKept
<1>12. CASE RecvUnknown
  BY <1>2, <1>12, DacKept, AnswersKept DEF RecvUnknown
<1>13. QED
  BY <1>3, <1>4, <1>5, <1>6, <1>7, <1>8, <1>9, <1>10, <1>11, <1>12
     DEF RecvMain

(* Where the parser is after each command, and whether it is called again. *)
LEMMA MainPlace ==
  ASSUME TypeOK, Place, ~failed, RecvMain
  PROVE  /\ Fits /\ sent' = sent /\ wire' = wire /\ chunk' = chunk
         /\ \/ (Finishes \/ Stays \/ Strays) /\ pc' = pc
            \/ Ended' /\ ~failed' /\ UNCHANGED <<buf, ring, dac>>
         /\ \/ conn' = conn
            \/ conn' = "closed" /\ (pc' = "idle" \/ ~NoVersionAsk)
         /\ st' \in {"MAIN", "DATA", "DATA_ABORTING"} /\ pc' \in {pc, "idle"}
<1>1. st \in {"MAIN", "DATA", "DATA_ABORTING"}
  BY DEF TypeOK
<1>2. ASSUME NEW op, Command(op) PROVE UNCHANGED <<sent, wire, chunk>>
  BY <1>2 DEF Command
<1>3. CASE RecvPrepare \/ RecvBegin \/ RecvUpdate \/ RecvQueue \/ RecvStop
           \/ RecvClear \/ RecvPing
  <2>1. Fits /\ Finishes
    BY <1>3, SimplePlace
  <2>2. UNCHANGED <<sent, wire, chunk>> /\ MainNext
    BY <1>2, <1>3 DEF RecvPrepare, RecvBegin, RecvUpdate, RecvQueue, RecvStop,
                      RecvClear, RecvPing
  <2>3. QED
    BY <1>1, <2>1, <2>2 DEF MainNext
<1>4. CASE RecvOverRate
  <2>1. Fits /\ Strays
    BY <1>4, OverRatePlace
  <2>2. UNCHANGED <<sent, wire, chunk>> /\ MainNext
    BY <1>2, <1>4 DEF RecvOverRate
  <2>3. QED
    BY <1>1, <2>1, <2>2 DEF MainNext
<1>5. CASE RecvEstop
  <2>1. Fits /\ (Finishes \/ Strays)
    BY <1>5, EstopPlace
  <2>2. UNCHANGED <<sent, wire, chunk>> /\ MainNext
    BY <1>2, <1>5 DEF RecvEstop
  <2>3. QED
    BY <1>1, <2>1, <2>2 DEF MainNext
<1>6. CASE RecvData
  <2>1. Fits /\ (Finishes \/ Stays)
    BY <1>6, DataPlace
  <2>2. UNCHANGED <<sent, wire, chunk>> /\ UNCHANGED <<conn, pc>>
    BY <1>2, <1>6 DEF RecvData
  <2>3. st' \in {"MAIN", "DATA"}
    BY <1>6, DataPlace DEF Finishes
  <2>4. QED
    BY <2>1, <2>2, <2>3
<1>7. CASE RecvVersion
  <2>1. Fits /\ Finishes
    BY <1>7, SimplePlace
  <2>2. UNCHANGED <<sent, wire, chunk>> /\ UNCHANGED <<st, pc>> /\ Command("v")
    BY <1>2, <1>7 DEF RecvVersion
  <2>3. conn' = conn \/ conn' = "closed"
    BY <1>7 DEF RecvVersion
  <2>4. ~NoVersionAsk
    <3>1. seg # <<>> /\ Unit.op = "v"
      BY <2>2, Dispatch
    <3>2. Front[1] \in DOMAIN sent
      BY <3>1, FirstAhead, LenProperties DEF Place, TypeOK
    <3>3. QED
      BY <3>1, <3>2 DEF NoVersionAsk, Unit
  <2>5. QED
    BY <1>1, <2>1, <2>2, <2>3, <2>4
<1>8. CASE RecvUnknown
  <2>1. /\ conn' = "closed" /\ seg' = <<>> /\ pc' = "idle"
        /\ UNCHANGED <<st, buf, playVars, failed>> /\ UNCHANGED <<sent, wire, chunk>>
    BY <1>2, <1>8 DEF RecvUnknown
  <2>2. Fits
    BY <2>1, EmptySeq DEF Fits, TypeOK
  <2>3. Ended' /\ ~failed' /\ UNCHANGED <<buf, ring, dac>>
    BY <2>1 DEF Ended, playVars
  <2>4. QED
    BY <1>1, <2>1, <2>2, <2>3
<1>9. QED
  BY <1>3, <1>4, <1>5, <1>6, <1>7, <1>8 DEF RecvMain

-----------------------------------------------------------------------------
(* The three are kept by every step.                                       *)

Inv == TypeOK /\ PlaceInv /\ AdvanceInv

(* After a step of the parser: where it is, and who may call it.           *)
LEMMA PlaceStep ==
  ASSUME PlaceInv, Place, ~failed, pc # "idle", sent' = sent,
         \/ Finishes \/ Stays \/ Strays
         \/ Ended' /\ ~failed',
         \/ conn' = conn
         \/ conn' = "closed" /\ (pc' = "idle" \/ ~NoVersionAsk)
  PROVE  PlaceInv'
<1>1. (WithinRate' <=> WithinRate) /\ (NoVersionAsk' <=> NoVersionAsk)
  BY DEF WithinRate, NoVersionAsk
<1>2. failed' \/ Ended' \/ Place'
  BY DEF Finishes, Stays, Strays
<1>3. failed' \/ (Astray' /\ ~Ended') => ~WithinRate'
  <2>1. CASE Finishes
    <3>1. ~Astray' /\ ~failed'
      BY <2>1 DEF Finishes, InPlace, Astray, Place
    <3>2. QED
      BY <3>1
  <2>2. CASE Stays
    <3>1. Astray' => Astray
      BY <2>2 DEF Stays
    <3>2. Astray => ~WithinRate
      BY DEF PlaceInv, Ended
    <3>3. ~failed'
      BY <2>2 DEF Stays
    <3>4. QED
      BY <1>1, <3>1, <3>2, <3>3
  <2>3. CASE Strays
    BY <1>1, <2>3 DEF Strays
  <2>4. CASE Ended' /\ ~failed'
    BY <2>4
  <2>5. QED
    BY <2>1, <2>2, <2>3, <2>4
<1>4. conn' = "closed" /\ NoVersionAsk' => pc' = "idle"
  BY <1>1 DEF PlaceInv
<1>5. conn' = "none" => sent' = <<>>
  BY DEF PlaceInv
<1>6. QED
  BY <1>2, <1>3, <1>4, <1>5 DEF PlaceInv

(* The types are kept, put together.                                       *)
LEMMA TypeStep ==
  ASSUME TypeOK, Fits, AnswersFit, DacFits, pointsleft' \in Nat,
         UNCHANGED <<sent, wire>>, chunk' \in 0 .. Capacity,
         conn' \in {"none", "open", "closed"},
         st' \in {"MAIN", "DATA", "DATA_ABORTING"},
         pc' \in {"idle", "parse", "advance"}
  PROVE  TypeOK'
<1>1. sent' \in Seq(Commands) /\ wire' \in Seq(Byte)
  BY DEF TypeOK
<1>2. QED
  BY <1>1 DEF TypeOK, Fits, AnswersFit, DacFits

LEMMA CallbackKeepsInv ==
  ASSUME Inv, ~failed, Callback
  PROVE  Inv'
<1>1. TypeOK /\ PlaceInv /\ AdvanceInv
  BY DEF Inv
<1>2. pc # "idle" /\ Place
  <2>1. pc # "idle"
    BY DEF Callback, RecvShort, RecvMain, RecvPrepare, RecvOverRate, RecvBegin,
           RecvUpdate, RecvQueue, RecvData, RecvStop, RecvEstop, RecvClear, RecvPing,
           RecvVersion, RecvUnknown, Command, Parsing, DataRequest, DataAdvance,
           DataSkip, Flush
  <2>2. QED
    BY <1>1, <2>1 DEF PlaceInv, Ended
<1>3. /\ pointsleft \in Nat /\ chunk \in 0 .. Capacity /\ Capacity \in Nat
      /\ pc \in {"idle", "parse", "advance"} /\ conn \in {"none", "open", "closed"}
      /\ st \in {"MAIN", "DATA", "DATA_ABORTING"}
  BY <1>1, SizeConstants DEF TypeOK
<1>4. CASE RecvShort
  <2>1. Fits /\ Stays
    BY <1>1, <1>2, <1>4, WaitingPlace
  <2>2. /\ pc = "parse" /\ sent' = sent /\ wire' = wire
        /\ UNCHANGED <<conn, st, pointsleft, pc, chunk, answerVars, playVars>>
    BY <1>4 DEF RecvShort, Parsing, netVars
  <2>3. PlaceInv'
    BY <1>1, <1>2, <2>1, <2>2, PlaceStep
  <2>4. TypeOK'
    BY <1>1, <1>3, <2>1, <2>2, AnswersKept, DacKept, TypeStep
  <2>5. AdvanceInv'
    BY <2>2 DEF AdvanceInv
  <2>6. QED
    BY <2>3, <2>4, <2>5 DEF Inv
<1>5. CASE RecvMain
  <2>1. /\ Fits /\ sent' = sent /\ wire' = wire /\ chunk' = chunk
        /\ \/ Finishes \/ Stays \/ Strays
           \/ Ended' /\ ~failed'
        /\ \/ conn' = conn
           \/ conn' = "closed" /\ (pc' = "idle" \/ ~NoVersionAsk)
        /\ st' \in {"MAIN", "DATA", "DATA_ABORTING"} /\ pc' \in {pc, "idle"}
    BY <1>1, <1>2, <1>5, MainPlace
  <2>2. AnswersFit /\ DacFits /\ pointsleft' \in Nat
    BY <1>1, <1>2, <1>5, MainTypes
  <2>3. PlaceInv'
    BY <1>1, <1>2, <2>1, PlaceStep
  <2>4. conn' \in {"none", "open", "closed"} /\ pc' \in {"idle", "parse", "advance"}
    BY <1>3, <2>1
  <2>5. TypeOK'
    BY <1>1, <1>3, <2>1, <2>2, <2>4, TypeStep
  <2>6. pc = "parse"
    BY <1>5 DEF RecvMain, RecvPrepare, RecvOverRate, RecvBegin, RecvUpdate, RecvQueue,
           RecvData, RecvStop, RecvEstop, RecvClear, RecvPing, RecvVersion,
           RecvUnknown, Command, Parsing
  <2>7. AdvanceInv'
    BY <2>1, <2>6 DEF AdvanceInv
  <2>8. QED
    BY <2>3, <2>5, <2>7 DEF Inv
<1>6. CASE DataRequest
  <2>1. Fits /\ Stays
    BY <1>1, <1>2, <1>6, WaitingPlace
  <2>2. /\ sent' = sent /\ wire' = wire /\ conn' = conn /\ pc' = "advance"
        /\ UNCHANGED <<st, pointsleft, buf, seg, answerVars, playVars>>
        /\ chunk' \in 1 .. Least(npoints, Room)
        /\ Parsing /\ st = "DATA" /\ Len(Window) >= PointSize
    BY <1>6 DEF DataRequest, netVars
  <2>3. PlaceInv'
    BY <1>1, <1>2, <2>1, <2>2, PlaceStep
  <2>4. /\ npoints \in 1 .. pointsleft
        /\ \A m \in 1 .. npoints : m * PointSize <= Len(Rest)
    BY <1>1, <1>2, <2>2, NPoints
  <2>5. Room \in 0 .. Capacity /\ (dac # "IDLE" => Room = Capacity - Len(ring))
    BY <1>1, <1>3, LenProperties DEF Room, TypeOK
  <2>6. chunk' \in 1 .. npoints /\ chunk' \in 1 .. Room
    BY <1>3, <2>2, <2>4, <2>5 DEF Least
  <2>7. chunk' \in 0 .. Capacity /\ chunk' \in 1 .. pointsleft
    BY <1>3, <2>4, <2>5, <2>6
  <2>8. TypeOK'
    BY <1>1, <1>3, <2>1, <2>2, <2>7, AnswersKept, DacKept, TypeStep
  <2>9. AdvanceInv'
    <3>1. chunk' * PointSize <= Len(Rest)
      BY <2>4, <2>6
    <3>2. Rest' = Rest
      BY <2>2 DEF Rest
    <3>3. seg # <<>>
      BY <2>2 DEF Parsing
    <3>4. dac # "IDLE" => Len(ring) + chunk' <= Capacity
      BY <1>1, <1>3, <2>5, <2>6, LenProperties DEF TypeOK
    <3>5. dac' = dac /\ ring' = ring
      BY <2>2 DEF playVars
    <3>6. QED
      BY <2>2, <2>7, <3>1, <3>2, <3>3, <3>4, <3>5 DEF AdvanceInv
  <2>10. QED
    BY <2>3, <2>8, <2>9 DEF Inv
<1>7. CASE DataAdvance
  <2>1. /\ Fits /\ pointsleft' \in Nat
        /\ \/ Finishes /\ send_resp(Front[1], TRUE)
           \/ Stays /\ st' = "DATA" /\ UNCHANGED answerVars
    BY <1>1, <1>2, <1>7, AdvancePlace
  <2>2. /\ sent' = sent /\ wire' = wire /\ conn' = conn /\ pc' = "parse" /\ chunk' = 0
        /\ pc = "advance" /\ UNCHANGED <<dac, le>>
        /\ ring' = IF dac = "IDLE" THEN ring
             ELSE ring \o [k \in 1 .. chunk |-> Rest[(k - 1) * PointSize + 1]]
    BY <1>7 DEF DataAdvance, netVars
  <2>3. /\ seg # <<>> /\ chunk \in 1 .. pointsleft /\ chunk * PointSize <= Len(Rest)
        /\ dac # "IDLE" => Len(ring) + chunk <= Capacity
    BY <1>1, <2>2 DEF AdvanceInv
  <2>4. PlaceInv'
    BY <1>1, <1>2, <2>1, <2>2, PlaceStep
  <2>5. AnswersFit
    BY <1>1, <1>2, <2>1, <2>3, FrontIsNat, RespFits, AnswersKept
  <2>6. \A k \in 1 .. chunk : k * PointSize <= Len(Rest)
    <3> TAKE k \in 1 .. chunk
    <3>1. k \in Nat /\ chunk \in Nat /\ k <= chunk /\ PointSize \in Nat \ {0}
      BY <1>3, SizeConstants
    <3>2. k * PointSize <= chunk * PointSize /\ k * PointSize \in Nat
          /\ chunk * PointSize \in Nat /\ Len(Rest) \in Nat
      BY <1>1, <3>1, Products, AheadType, LenProperties
    <3>3. QED
      BY <2>3, <3>2
  <2>7. DacFits
    <3> DEFINE p == [k \in 1 .. chunk |-> Rest[(k - 1) * PointSize + 1]]
    <3>1. p \in Seq(Byte) /\ Len(p) = chunk
      BY <1>1, <1>3, <2>6, PointsTaken
    <3>2. ring' = IF dac = "IDLE" THEN ring ELSE ring \o p
      BY <2>2
    <3>3. /\ ring \in Seq(Byte) /\ Len(ring) <= Capacity /\ le \in {"READY", "ESTOP"}
          /\ dac \in {"IDLE", "PREPARED", "PLAYING"} /\ Len(ring) \in Nat
      BY <1>1, LenProperties DEF TypeOK
    <3> HIDE DEF p
    <3>4. ring \o p \in Seq(Byte) /\ Len(ring \o p) = Len(ring) + chunk
      BY <3>1, <3>3, ConcatProperties
    <3>5. QED
      BY <2>2, <2>3, <3>2, <3>3, <3>4 DEF DacFits
  <2>8. st' \in {"MAIN", "DATA"}
    BY <2>1 DEF Finishes
  <2>9. TypeOK'
    BY <1>1, <1>3, <2>1, <2>2, <2>5, <2>7, <2>8, TypeStep
  <2>10. AdvanceInv'
    BY <2>2 DEF AdvanceInv
  <2>11. QED
    BY <2>4, <2>9, <2>10 DEF Inv
<1>8. CASE DataSkip
  <2>1. /\ Fits /\ pointsleft' \in Nat
        /\ \/ Finishes /\ send_resp(Front[1], FALSE)
           \/ Stays /\ st' = "DATA_ABORTING" /\ UNCHANGED answerVars
    BY <1>1, <1>2, <1>8, SkipPlace
  <2>2. /\ sent' = sent /\ wire' = wire /\ conn' = conn /\ pc' = pc /\ chunk' = chunk
        /\ pc = "parse" /\ seg # <<>> /\ UNCHANGED playVars
    BY <1>8 DEF DataSkip, netVars, Parsing
  <2>3. PlaceInv'
    BY <1>1, <1>2, <2>1, <2>2, PlaceStep
  <2>4. AnswersFit
    BY <1>1, <1>2, <2>1, <2>2, FrontIsNat, RespFits, AnswersKept
  <2>5. st' \in {"MAIN", "DATA_ABORTING"}
    BY <2>1 DEF Finishes
  <2>6. TypeOK'
    BY <1>1, <1>3, <2>1, <2>2, <2>4, <2>5, DacKept, TypeStep
  <2>7. AdvanceInv'
    BY <2>2 DEF AdvanceInv
  <2>8. QED
    BY <2>3, <2>6, <2>7 DEF Inv
<1>9. CASE Flush
  <2>1. Fits /\ Stays
    BY <1>1, <1>2, <1>9, WaitingPlace
  <2>2. /\ sent' = sent /\ wire' = wire /\ conn' = conn /\ pc' = "idle"
        /\ UNCHANGED <<st, pointsleft, chunk, playVars>>
    BY <1>9 DEF Flush, netVars
  <2>3. PlaceInv'
    BY <1>1, <1>2, <2>1, <2>2, PlaceStep
  <2>4. AnswersFit
    BY <1>1, <1>9, FlushFits
  <2>5. TypeOK'
    BY <1>1, <1>3, <2>1, <2>2, <2>4, DacKept, TypeStep
  <2>6. AdvanceInv'
    BY <2>2 DEF AdvanceInv
  <2>7. QED
    BY <2>3, <2>5, <2>6 DEF Inv
<1>10. QED
  BY <1>4, <1>5, <1>6, <1>7, <1>8, <1>9 DEF Callback

(* A step that leaves the parser and what it has to look at alone.         *)
LEMMA Elsewhere ==
  ASSUME PlaceInv, Ahead' = Ahead,
         UNCHANGED <<sent, st, pointsleft, buf, failed>>,
         failed \/ Ended \/ Short',
         \/ pc' = pc /\ conn' = conn
         \/ pc' = pc /\ conn' = "open" /\ conn # "closed"
         \/ pc' = pc /\ conn' = "closed" /\ pc = "idle"
         \/ conn' = conn /\ pc' = "parse" /\ (pc = "parse" \/ conn = "open")
  PROVE  PlaceInv'
<1>1. Place /\ Short' => Place'
  BY DEF Place, EndOf, InPlace, Astray
<1>2. Ended => Ended'
  BY DEF Ended
<1>3. failed' \/ Ended' \/ Place'
  BY <1>1, <1>2 DEF PlaceInv
<1>4. Astray' <=> Astray
  BY DEF Astray
<1>5. (WithinRate' <=> WithinRate) /\ (NoVersionAsk' <=> NoVersionAsk)
  BY DEF WithinRate, NoVersionAsk
<1>6. failed' \/ (Astray' /\ ~Ended') => ~WithinRate'
  BY <1>2, <1>4, <1>5 DEF PlaceInv
<1>7. conn' = "closed" /\ NoVersionAsk' => pc' = "idle"
  BY <1>5 DEF PlaceInv
<1>8. conn' = "none" => sent' = <<>>
  BY DEF PlaceInv
<1>9. QED
  BY <1>3, <1>6, <1>7, <1>8 DEF PlaceInv

(* What a command sent adds at the end of what the parser has to look at.  *)
LEMMA SentAhead ==
  ASSUME TypeOK, Place, NEW u \in Commands, Send(u)
  PROVE  /\ EndOf(sent, Ahead)' /\ Short' /\ Current' = Current /\ Ahead' # <<>>
         /\ IF Ahead = <<>> THEN Head(Ahead') = <<Len(sent) + 1, 1>>
            ELSE /\ Head(Ahead') = Head(Ahead)
                 /\ sent'[Head(Ahead')[1]] = sent[Head(Ahead)[1]]
<1> DEFINE t == [i \in 1 .. Size(u) |-> <<Len(sent) + 1, i>>]
<1>1. /\ sent' = Append(sent, u) /\ wire' = wire \o t /\ UNCHANGED <<st, buf, seg>>
  BY DEF Send, parserVars
<1>2. /\ sent \in Seq(Commands) /\ wire \in Seq(Byte) /\ Len(sent) \in Nat
      /\ seg \in Seq(Byte)
  BY LenProperties DEF TypeOK
<1>3. /\ sent' \in Seq(Commands) /\ Len(sent') = Len(sent) + 1
      /\ \A id \in 1 .. Len(sent) : sent'[id] = sent[id]
  BY <1>1, <1>2, AppendProperties
<1>4. /\ Rest \in Seq(Byte) /\ Ahead \in Seq(Byte)
      /\ Len(Ahead) \in Nat
      /\ \A i \in 1 .. Len(buf) : Rest[i] = buf[i]
      /\ \A i \in 1 .. Len(Rest) : Ahead[i] = Rest[i]
      /\ Ahead # <<>> => Head(Ahead) = Ahead[1] /\ Ahead[1] \in Byte
      /\ Len(buf) \in Nat /\ Len(seg) \in Nat /\ Len(wire) \in Nat
      /\ Len(Rest) = Len(buf) + Len(seg) /\ Len(Ahead) = Len(Rest) + Len(wire)
  BY AheadType, LenProperties
<1>5. t \in Seq(Byte) /\ t # <<>> /\ t[1] = <<Len(sent) + 1, 1>>
      /\ EndOf(Append(sent, u), Ahead \o t)
  BY <1>2, <1>4, EndOfSend DEF Place
<1> HIDE DEF t
<1>6. Ahead' = Ahead \o t
  <2>1. Rest' = Rest
    BY <1>1 DEF Rest
  <2>2. Ahead' = Rest \o (wire \o t)
    BY <1>1, <2>1 DEF Ahead
  <2>3. (Rest \o wire) \o t = Rest \o (wire \o t)
    <3>1. Rest \in Seq(Byte) /\ wire \in Seq(Byte) /\ t \in Seq(Byte)
      BY <1>2, <1>4, <1>5
    <3>2. QED
      BY ONLY <3>1, ConcatAssociative
  <2>4. QED
    BY <2>2, <2>3 DEF Ahead
<1>7. EndOf(sent, Ahead)'
  BY <1>1, <1>5, <1>6 DEF EndOf
<1>8. Short'
  <2>1. ASSUME buf # <<>> PROVE buf[1][1] \in 1 .. Len(sent)
    <3>1. 1 \in 1 .. Len(buf)
      BY <1>4, <2>1, EmptySeq DEF TypeOK
    <3>2. buf[1] = Ahead[1] /\ 1 \in 1 .. Len(Ahead)
      BY <1>4, <3>1
    <3>3. QED
      BY <3>2 DEF Place, EndOf
  <2>2. buf # <<>> => sent'[buf[1][1]] = sent[buf[1][1]]
    BY <1>3, <2>1
  <2>3. QED
    BY <1>1, <1>2, <2>2, ShortKept DEF Place
<1>9. CASE Ahead = <<>>
  <2>1. Ahead' = t
    BY <1>5, <1>6, <1>9, ConcatEmptySeq
  <2>2. Ahead' # <<>> /\ Head(Ahead') = <<Len(sent) + 1, 1>>
    BY <1>5, <2>1, EmptySeq
  <2>3. Current' = Current
    BY <1>9, <2>2 DEF Current
  <2>4. QED
    BY <1>7, <1>8, <1>9, <2>2, <2>3
<1>10. CASE Ahead # <<>>
  <2>1. 1 \in 1 .. Len(Ahead) /\ Len(t) \in Nat
    BY <1>4, <1>5, <1>10, EmptySeq, LenProperties
  <2>2. /\ (Ahead \o t)[1] = Ahead[1] /\ Ahead \o t \in Seq(Byte)
        /\ Len(Ahead \o t) = Len(Ahead) + Len(t)
    <3>1. /\ Ahead \in Seq(Byte) /\ t \in Seq(Byte)
          /\ 1 \in 1 .. Len(Ahead) /\ Len(Ahead) \in Nat /\ Len(t) \in Nat
      BY <1>4, <1>5, <2>1
    <3>2. QED
      BY ONLY <3>1, ConcatProperties
  <2>3. Ahead \o t # <<>>
    BY <2>1, <2>2, EmptySeq
  <2>4. Ahead[1][1] \in 1 .. Len(sent)
    BY <2>1 DEF Place, EndOf
  <2>5. Ahead' # <<>> /\ Head(Ahead') = Head(Ahead)
    BY <1>4, <1>6, <1>10, <2>2, <2>3
  <2>6. sent'[Head(Ahead')[1]] = sent[Head(Ahead)[1]]
    BY <1>3, <1>4, <1>10, <2>4, <2>5
  <2>7. Current' = Current
    BY <1>10, <2>5 DEF Current
  <2>8. QED
    BY <1>7, <1>8, <1>10, <2>5, <2>6, <2>7
<1>11. QED
  BY <1>9, <1>10

LEMMA SendKeepsInv ==
  ASSUME Inv, NEW u \in Commands, Send(u)
  PROVE  Inv'
<1> DEFINE t == [i \in 1 .. Size(u) |-> <<Len(sent) + 1, i>>]
<1>1. TypeOK /\ PlaceInv /\ AdvanceInv
  BY DEF Inv
<1>2. /\ conn = "open" /\ conn' = conn
      /\ sent' = Append(sent, u) /\ wire' = wire \o t
      /\ UNCHANGED <<st, pointsleft, buf, seg, pc, chunk, failed>>
      /\ UNCHANGED <<answerVars, playVars>>
  BY DEF Send, parserVars
<1>3. /\ sent \in Seq(Commands) /\ wire \in Seq(Byte) /\ Len(sent) \in Nat
      /\ seg \in Seq(Byte)
  BY <1>1, LenProperties DEF TypeOK
<1>4. t \in Seq(Byte)
  <2>1. Size(u) \in Nat
    BY SizeType
  <2>2. \A i \in 1 .. Size(u) : <<Len(sent) + 1, i>> \in Byte
    BY <1>3, <2>1 DEF Byte
  <2>3. t \in [1 .. Size(u) -> Byte]
    BY <2>2
  <2>4. QED
    BY <2>1, <2>3, SeqDef
<1>5. /\ sent' \in Seq(Commands) /\ Len(sent') = Len(sent) + 1
      /\ sent'[Len(sent) + 1] = u
      /\ \A id \in 1 .. Len(sent) : sent'[id] = sent[id]
  BY <1>2, <1>3, AppendProperties
<1>6. wire \o t \in Seq(Byte)
  BY <1>3, <1>4, ConcatProperties
<1>7. TypeOK'
  BY <1>1, <1>2, <1>5, <1>6 DEF TypeOK, answerVars, playVars
<1>8. DOMAIN sent = 1 .. Len(sent) /\ DOMAIN sent' = 1 .. Len(sent) + 1
  BY <1>3, <1>5, LenProperties
<1>9. (WithinRate' => WithinRate) /\ (NoVersionAsk' => NoVersionAsk)
  BY <1>3, <1>5, <1>8 DEF WithinRate, NoVersionAsk
<1>10. ASSUME failed PROVE PlaceInv'
  BY <1>1, <1>2, <1>9, <1>10 DEF PlaceInv
<1>11. ASSUME ~failed PROVE PlaceInv'
  <2>1. Place
    BY <1>1, <1>2, <1>11 DEF PlaceInv, Ended
  <2>2. /\ EndOf(sent, Ahead)' /\ Short' /\ Ahead' # <<>>
        /\ IF Ahead = <<>> THEN Head(Ahead') = <<Len(sent) + 1, 1>>
           ELSE /\ Head(Ahead') = Head(Ahead)
                /\ sent'[Head(Ahead')[1]] = sent[Head(Ahead)[1]]
    BY <1>1, <2>1, SentAhead
  <2>3. CASE Ahead = <<>>
    <3>1. st = "MAIN"
      BY <2>1, <2>3 DEF Place, InPlace, Astray
    <3>2. InPlace' /\ ~Astray'
      BY <1>2, <2>2, <2>3, <3>1 DEF InPlace, Astray
    <3>3. Place' /\ ~failed'
      BY <1>2, <1>11, <2>2, <3>2 DEF Place
    <3>4. QED
      BY <1>2, <3>2, <3>3 DEF PlaceInv
  <2>4. CASE Ahead # <<>>
    <3>1. (InPlace' <=> InPlace) /\ (Astray' <=> Astray)
      BY <1>2, <2>2, <2>4 DEF InPlace, Astray
    <3>2. Place' /\ ~failed'
      BY <1>2, <1>11, <2>1, <2>2, <3>1 DEF Place
    <3>3. Astray' => ~WithinRate'
      BY <1>1, <1>2, <1>9, <3>1 DEF PlaceInv, Ended
    <3>4. QED
      BY <1>2, <3>2, <3>3 DEF PlaceInv
  <2>5. QED
    BY <2>3, <2>4
<1>12. AdvanceInv'
  BY <1>1, <1>2 DEF AdvanceInv, Rest, playVars
<1>13. QED
  BY <1>7, <1>10, <1>11, <1>12 DEF Inv

LEMMA DeliveredAhead ==
  ASSUME TypeOK, NEW n \in 1 .. Len(wire), Deliver(n)
  PROVE  Ahead' = Ahead /\ seg' \in Seq(Byte) /\ wire' \in Seq(Byte)
<1>1. /\ seg = <<>> /\ buf' = buf
      /\ seg' = SubSeq(wire, 1, n) /\ wire' = Drop(wire, n)
  BY DEF Deliver
<1>2. wire \in Seq(Byte) /\ buf \in Seq(Byte) /\ Len(wire) \in Nat /\ n \in 0 .. Len(wire)
  BY LenProperties DEF TypeOK
<1>3. /\ seg' \in Seq(Byte) /\ wire' \in Seq(Byte) /\ seg' \o wire' = wire
  BY <1>1, <1>2, Taken, Dropped
<1>4. Rest = buf /\ Ahead = buf \o wire
  <2>1. buf \o <<>> = buf
    BY <1>2, ConcatEmptySeq
  <2>2. Rest = buf \o seg /\ seg = <<>>
    BY <1>1 DEF Rest
  <2>3. Rest = buf
    BY <2>1, <2>2, Zenon
  <2>4. Ahead = Rest \o wire
    BY DEF Ahead
  <2>5. QED
    BY <2>3, <2>4, Zenon
<1>5. Ahead' = (buf \o seg') \o wire'
  BY <1>1 DEF Rest, Ahead
<1>6. (buf \o seg') \o wire' = buf \o (seg' \o wire')
  <2>1. buf \in Seq(Byte) /\ seg' \in Seq(Byte) /\ wire' \in Seq(Byte)
    BY <1>2, <1>3
  <2>2. QED
    BY ONLY <2>1, ConcatAssociative
<1>7. QED
  BY <1>3, <1>4, <1>5, <1>6

LEMMA DeliverKeepsInv ==
  ASSUME Inv, NEW n \in 1 .. Len(wire), Deliver(n)
  PROVE  Inv'
<1>1. TypeOK /\ PlaceInv /\ AdvanceInv
  BY DEF Inv
<1>2. /\ seg = <<>>
      /\ pc = "parse" \/ (conn = "open" /\ pc = "idle")
      /\ seg' = SubSeq(wire, 1, n) /\ wire' = Drop(wire, n) /\ pc' = "parse"
      /\ UNCHANGED <<sent, conn, st, pointsleft, buf, chunk, failed>>
      /\ UNCHANGED <<answerVars, playVars>>
  BY DEF Deliver
<1>3. Ahead' = Ahead /\ seg' \in Seq(Byte) /\ wire' \in Seq(Byte)
  BY <1>1, DeliveredAhead
<1>4. TypeOK'
  BY <1>1, <1>2, <1>3 DEF TypeOK, answerVars, playVars
<1>5. failed \/ Ended \/ Short'
  <2>1. failed \/ Ended \/ Short
    BY <1>1 DEF PlaceInv, Place
  <2>2. Short => Short'
    BY <1>1, <1>2, <1>3, ShortKept
  <2>3. QED
    BY <2>1, <2>2
<1>6. PlaceInv'
  BY <1>1, <1>2, <1>3, <1>5, Elsewhere
<1>7. AdvanceInv'
  BY <1>2 DEF AdvanceInv
<1>8. QED
  BY <1>4, <1>6, <1>7 DEF Inv

LEMMA InitInv == Init => Inv
<1> SUFFICES ASSUME Init PROVE Inv
  OBVIOUS
<1>1. /\ <<>> \in Seq(Byte) /\ <<>> \in Seq(Commands) /\ <<>> \in Seq(Answer)
      /\ Len(<<>>) = 0
  BY EmptySeq
<1>2. TypeOK
  <2>1. /\ sent \in Seq(Commands) /\ wire \in Seq(Byte) /\ seg \in Seq(Byte)
        /\ buf \in Seq(Byte) /\ Len(buf) <= PS_BUFFER_SIZE
    BY <1>1, SizeConstants DEF Init
  <2>2. /\ got \in Seq(Answer) /\ defer \in Seq(Answer) /\ dropped \in Seq(Answer)
        /\ Len(defer) < PS_DEFERRED_ACK_MAX /\ unacked \in 0 .. SndMax
    BY <1>1, SizeConstants DEF Init
  <2>3. ring \in Seq(Byte) /\ Len(ring) <= Capacity /\ chunk \in 0 .. Capacity
    BY <1>1, SizeConstants DEF Init
  <2>4. /\ conn \in {"none", "open", "closed"} /\ pointsleft \in Nat
        /\ st \in {"MAIN", "DATA", "DATA_ABORTING"}
        /\ pc \in {"idle", "parse", "advance"} /\ failed \in BOOLEAN
        /\ dac \in {"IDLE", "PREPARED", "PLAYING"} /\ le \in {"READY", "ESTOP"}
    BY DEF Init
  <2>5. QED
    BY <2>1, <2>2, <2>3, <2>4 DEF TypeOK
<1>3. Ahead = <<>>
  <2>1. Len(Ahead) = 0
    BY <1>2, AheadType DEF Init
  <2>2. QED
    BY <1>2, <2>1, AheadType
<1>4. Place /\ ~Astray
  <2>1. EndOf(sent, Ahead)
    BY <1>1, <1>3 DEF EndOf
  <2>2. InPlace /\ ~Astray
    BY <1>3 DEF Init, InPlace, Astray
  <2>3. QED
    BY <2>1, <2>2 DEF Init, Place, Short
<1>5. PlaceInv
  BY <1>4 DEF Init, PlaceInv
<1>6. AdvanceInv
  BY DEF Init, AdvanceInv
<1>7. QED
  BY <1>2, <1>5, <1>6 DEF Inv

LEMMA OthersKeepInv ==
  ASSUME Inv, Accept \/ ClientClose \/ TcpAcked \/ Play \/ UNCHANGED vars
  PROVE  Inv'
<1>1. TypeOK /\ PlaceInv /\ AdvanceInv
  BY DEF Inv
<1>2. UNCHANGED <<sent, wire, parserVars, failed>>
  BY DEF Accept, ClientClose, TcpAcked, Play, vars, netVars
<1>3. UNCHANGED <<sent, wire, st, pointsleft, buf, seg, pc, chunk, failed>>
  BY <1>2 DEF parserVars
<1>4. Rest' = Rest /\ Ahead' = Ahead
  BY <1>3 DEF Rest, Ahead
<1>5. Short' <=> Short
  <2>1. HeaderSize' = HeaderSize
    BY <1>3, <1>4 DEF HeaderSize, Cmd, Unit, Front, Window
  <2>2. QED
    BY <1>3, <2>1 DEF Short
<1>6. \/ conn = "none" /\ conn' = "open"
      \/ conn' = "closed" /\ pc = "idle"
      \/ conn' = conn
  BY DEF Accept, ClientClose, TcpAcked, Play, vars, netVars
<1>7. PlaceInv'
  <2>1. failed \/ Ended \/ Short'
    BY <1>1, <1>5 DEF PlaceInv, Place
  <2>2. QED
    BY <1>1, <1>3, <1>4, <1>6, <2>1, Elsewhere
<1>8. /\ got \in Seq(Answer) /\ unacked \in 0 .. SndMax /\ SndMax \in Nat \ {0}
      /\ ring \in Seq(Byte) /\ Len(ring) <= Capacity /\ Len(ring) \in Nat
      /\ Capacity \in Nat
  BY <1>1, SizeConstants, LenProperties DEF TypeOK
<1>9. CASE Accept
  <2>1. got' = <<[id |-> 0, ok |-> TRUE]>> /\ unacked' = 1 /\ conn' = "open"
        /\ UNCHANGED <<defer, dropped, playVars>>
    BY <1>9 DEF Accept
  <2>2. got' \in Seq(Answer)
    BY <2>1 DEF Answer
  <2>3. TypeOK'
    BY <1>1, <1>3, <1>8, <2>1, <2>2 DEF TypeOK, playVars
  <2>4. AdvanceInv'
    BY <1>1, <1>3, <1>4, <2>1 DEF AdvanceInv, playVars
  <2>5. QED
    BY <1>7, <2>3, <2>4 DEF Inv
<1>10. CASE ClientClose \/ UNCHANGED vars
  <2>1. UNCHANGED <<answerVars, playVars>> /\ conn' \in {conn, "closed"}
    BY <1>10 DEF ClientClose, vars, netVars
  <2>2. TypeOK'
    BY <1>1, <1>3, <2>1 DEF TypeOK, answerVars, playVars
  <2>3. AdvanceInv'
    BY <1>1, <1>3, <1>4, <2>1 DEF AdvanceInv, playVars
  <2>4. QED
    BY <1>7, <2>2, <2>3 DEF Inv
<1>11. CASE TcpAcked
  <2>1. UNCHANGED <<got, defer, dropped, playVars, conn>> /\ unacked' \in 0 .. unacked - 1
    BY <1>11 DEF TcpAcked, netVars
  <2>2. unacked' \in 0 .. SndMax
    BY <1>8, <2>1
  <2>3. TypeOK'
    BY <1>1, <1>3, <2>1, <2>2 DEF TypeOK, playVars
  <2>4. AdvanceInv'
    BY <1>1, <1>3, <1>4, <2>1 DEF AdvanceInv, playVars
  <2>5. QED
    BY <1>7, <2>3, <2>4 DEF Inv
<1>12. CASE Play
  <2>1. /\ dac = "PLAYING" /\ UNCHANGED <<conn, le, answerVars>>
        /\ dac' \in {dac, "IDLE"}
        /\ ring' = ring \/ (ring # <<>> /\ ring' = Tail(ring))
    BY <1>12 DEF Play, netVars
  <2>2. ring' \in Seq(Byte) /\ Len(ring') <= Len(ring) /\ Len(ring') \in Nat
    BY <1>8, <2>1, HeadTailProperties, EmptySeq, LenProperties
  <2>3. TypeOK'
    BY <1>1, <1>3, <1>8, <2>1, <2>2 DEF TypeOK, answerVars
  <2>4. AdvanceInv'
    <3> SUFFICES ASSUME pc = "advance" PROVE AdvanceInv'
      BY <1>3 DEF AdvanceInv
    <3>1. chunk \in Nat /\ Len(ring) + chunk <= Capacity
      BY <1>1, <2>1 DEF AdvanceInv, TypeOK
    <3>2. Len(ring') + chunk <= Capacity
      BY <1>8, <2>2, <3>1
    <3>3. QED
      BY <1>1, <1>3, <1>4, <3>2 DEF AdvanceInv
  <2>5. QED
    BY <1>7, <2>3, <2>4 DEF Inv
<1>13. QED
  BY <1>9, <1>10, <1>11, <1>12

LEMMA NextKeepsInv == Inv /\ [Next]_vars => Inv'
<1> SUFFICES ASSUME Inv, [Next]_vars PROVE Inv'
  OBVIOUS
<1>1. CASE Accept \/ ClientClose \/ TcpAcked \/ Play \/ UNCHANGED vars
  BY <1>1, OthersKeepInv
<1>2. ASSUME NEW u \in Commands, Send(u) PROVE Inv'
  BY <1>2, SendKeepsInv
<1>3. ASSUME NEW n \in 1 .. Len(wire), Deliver(n) PROVE Inv'
  BY <1>3, DeliverKeepsInv
<1>4. CASE ~failed /\ Callback
  BY <1>4, CallbackKeepsInv
<1>5. QED
  BY <1>1, <1>2, <1>3, <1>4 DEF Next, Client, FirmwareStep, DeliverSome, Quiet

LEMMA Invariance == Spec => []Inv
<1>1. Init => Inv
  BY InitInv
<1>2. Inv /\ [Next]_vars => Inv'
  BY NextKeepsInv
<1>3. QED
  BY <1>1, <1>2, PTL DEF Spec

(* Every reachable state is well typed, whatever the sizes: the buffer     *)
(* never holds more than its bytes, neither ring more than its slots.      *)
THEOREM TypeCorrect == Spec => []TypeOK
<1>1. Inv => TypeOK
  BY DEF Inv
<1>2. QED
  BY <1>1, Invariance, PTL

(* The parser never loses its place, wherever TCP cuts the stream, and its *)
(* assertions hold, unless a command is over rate.                         *)
THEOREM ParserInStep == Spec => []InStep
<1>1. Inv => InStep
  <2> SUFFICES ASSUME Inv, conn = "open", WithinRate
               PROVE  ~failed /\ InPlace
    BY DEF InStep, InPlace
  <2>1. ~failed /\ ~Ended /\ Place
    BY DEF Inv, PlaceInv, Ended
  <2>2. ~Astray
    BY <2>1 DEF Inv, PlaceInv
  <2>3. QED
    BY <2>1, <2>2 DEF Place
<1>2. QED
  BY <1>1, Invariance, PTL

-----------------------------------------------------------------------------
(* The points in the ring.                                                 *)

(* The points in the ring are of the current command or an earlier one.    *)
LEMMA LastBefore ==
  ASSUME TypeOK, Place, RingInv, ~failed, ~Ended, ring # <<>>
  PROVE  /\ Len(ring) \in Nat \ {0} /\ ring[Len(ring)] \in Byte
         /\ ring[Len(ring)][1] \in Nat /\ ring[Len(ring)][2] \in Nat
         /\ Current \in Nat
         /\ ring[Len(ring)][1] <= Current
         /\ st = "MAIN" => ring[Len(ring)][1] < Current
<1> DEFINE last == ring[Len(ring)]
<1>1. Len(ring) \in Nat \ {0} /\ last \in Byte
  <2>1. ring \in Seq(Byte)
    BY DEF TypeOK
  <2>2. Len(ring) \in Nat \ {0}
    BY <2>1, EmptySeq
  <2>3. QED
    BY <2>1, <2>2, ElementOfSeq
<1>2. last[1] \in Nat /\ last[2] \in Nat
  BY <1>1 DEF Byte
<1>3. Current \in Nat /\ (Ahead # <<>> => Current = Head(Ahead)[1])
  <2>1. Len(sent) \in Nat
    BY LenProperties DEF TypeOK
  <2>2. Ahead # <<>> => Head(Ahead)[1] \in Nat
    BY AheadType DEF Byte
  <2>3. QED
    BY <2>1, <2>2 DEF Current
<1>4. /\ st = "MAIN" => last[1] < Current
      /\ st = "DATA" => Follows(last, Head(Ahead))
      /\ st \notin {"MAIN", "DATA"} => last[1] <= Current
  BY DEF RingInv
<1>5. CASE st = "MAIN"
  BY <1>1, <1>2, <1>3, <1>4, <1>5
<1>6. CASE st = "DATA"
  <2>1. Ahead # <<>> /\ Follows(last, Head(Ahead))
    BY <1>4, <1>6 DEF Place, InPlace, Astray
  <2>2. Head(Ahead)[1] = last[1] \/ Head(Ahead)[1] > last[1]
    BY <2>1 DEF Follows
  <2>3. QED
    BY <1>1, <1>2, <1>3, <1>6, <2>1, <2>2
<1>7. CASE st \notin {"MAIN", "DATA"}
  BY <1>1, <1>2, <1>3, <1>4, <1>7
<1>8. QED
  BY <1>5, <1>6, <1>7

(* Steps that put nothing into the ring.                                   *)
LEMMA RingKept ==
  ASSUME TypeOK, Place, RingInv, ~failed, ~Ended, TypeOK',
         ring' \in {ring, <<>>}, dac' = "IDLE" => ring' = <<>>,
         \/ Finishes \/ Strays \/ Ended'
         \/ Stays /\ st' = st /\ Ahead' = Ahead
         \/ /\ Stays /\ st = "MAIN" /\ st' = "DATA"
            /\ Head(Ahead') = <<Current, DataSize + 1>>
         \/ Stays /\ st' = "DATA_ABORTING"
  PROVE  RingInv'
<1>1. CASE ring' = <<>>
  <2>1. Len(ring') = 0
    BY <1>1, EmptySeq
  <2>2. RingInOrder'
    BY <2>1 DEF RingInOrder
  <2>3. QED
    BY <1>1, <2>2 DEF RingInv
<1>2. CASE ring' = ring /\ ring # <<>>
  <2> DEFINE last == ring[Len(ring)]
  <2>1. /\ last[1] \in Nat /\ last[2] \in Nat /\ Current \in Nat /\ last[1] <= Current
        /\ st = "MAIN" => last[1] < Current
    BY <1>2, LastBefore
  <2>2. /\ st = "MAIN" => last[1] < Current
        /\ st = "DATA" => Follows(last, Head(Ahead))
        /\ st \notin {"MAIN", "DATA"} => last[1] <= Current
    BY <1>2 DEF RingInv
  <2>4. RingInOrder'
    BY <1>2 DEF RingInv, RingInOrder
  <2>5. dac' # "IDLE"
    BY <1>2
  <2>6. last' = last
    BY <1>2
  <2> HIDE DEF last
  <2>7. CASE Finishes
    <3>1. st' = "MAIN" /\ Current' = Current + 1
      BY <2>7 DEF Finishes
    <3>2. last[1] < Current'
      BY <2>1, <3>1
    <3>3. QED
      BY <2>4, <2>5, <2>6, <3>1, <3>2 DEF RingInv, last
  <2>8. CASE Strays
    <3>1. st = "MAIN" /\ st' = "MAIN" /\ Current' \in {Current, Current + 1}
      BY <2>8 DEF Strays
    <3>2. last[1] < Current'
      BY <2>1, <3>1
    <3>3. QED
      BY <2>4, <2>5, <2>6, <3>1, <3>2 DEF RingInv, last
  <2>9. CASE Stays /\ st' = st /\ Ahead' = Ahead
    <3>1. Current' = Current
      BY <2>9 DEF Stays
    <3>2. QED
      BY <2>2, <2>4, <2>5, <2>6, <2>9, <3>1 DEF RingInv, last
  <2>10. CASE /\ Stays /\ st = "MAIN" /\ st' = "DATA"
              /\ Head(Ahead') = <<Current, DataSize + 1>>
    <3>1. Follows(last, Head(Ahead'))
      BY <2>1, <2>10 DEF Follows
    <3>2. QED
      BY <2>4, <2>5, <2>6, <2>10, <3>1 DEF RingInv, last
  <2>11. CASE Stays /\ st' = "DATA_ABORTING"
    <3>1. last[1] <= Current'
      BY <2>1, <2>11 DEF Stays
    <3>2. QED
      BY <2>4, <2>5, <2>6, <2>11, <3>1 DEF RingInv, last
  <2>12. CASE Ended'
    BY <2>4, <2>5, <2>12 DEF RingInv
  <2>13. QED
    BY <2>7, <2>8, <2>9, <2>10, <2>11, <2>12
<1>3. QED
  BY <1>1, <1>2

(* Points of one command are put behind those of the ring.                 *)
LEMMA RingAdvances ==
  ASSUME Inv, RingInv, ~failed, DataAdvance
  PROVE  RingInv'
<1> DEFINE p == [k \in 1 .. chunk |-> Rest[(k - 1) * PointSize + 1]]
           c == chunk * PointSize
           id == Front[1]
           f  == Front[2]
<1>1. TypeOK /\ PlaceInv /\ AdvanceInv /\ TypeOK'
  BY CallbackKeepsInv DEF Inv, Callback
<1>2. /\ pc = "advance" /\ dac' = dac /\ UNCHANGED <<sent, wire>>
      /\ ring' = IF dac = "IDLE" THEN ring ELSE ring \o p
      /\ PointsDone(chunk, TRUE, "DATA")
  BY DEF DataAdvance, netVars
<1>3. Place /\ ~Ended
  BY <1>1, <1>2 DEF PlaceInv, Ended
<1>4. /\ st = "DATA" /\ seg # <<>> /\ chunk \in 1 .. pointsleft /\ c <= Len(Rest)
      /\ chunk \in Nat /\ Capacity \in Nat /\ Len(Rest) \in Nat
      /\ PointSize \in Nat \ {0}
  BY SMTT(20), <1>1, <1>2, SizeConstants, AheadType, LenProperties DEF AdvanceInv, TypeOK
<1>5. CASE dac = "IDLE"
  <2>1. ring = <<>> /\ ring' = <<>>
    BY <1>2, <1>5 DEF RingInv
  <2>2. Len(ring') = 0
    BY <2>1, EmptySeq
  <2>3. QED
    BY <2>1, <2>2 DEF RingInv, RingInOrder
<1>6. CASE dac # "IDLE"
  <2>1. /\ c \in Nat /\ c >= PointSize /\ c + f <= Size(Unit) + 1
    BY <1>1, <1>3, <1>4, InsideData
  <2>2. /\ id \in Nat /\ f \in Nat /\ Unit = sent[Ahead[1][1]] /\ Ahead # <<>>
        /\ Front = Ahead[1] /\ Ahead \in Seq(Byte) /\ Len(Rest) <= Len(Ahead)
        /\ \A i \in 1 .. Len(Rest) : Ahead[i] = Rest[i]
        /\ Current = id /\ Front = Head(Ahead)
    BY <1>1, <1>3, <1>4, Looks, AheadType, FirstAhead DEF Unit, Place, Byte
  <2>3. \A m \in 1 .. c : Ahead[m] = <<id, f + m - 1>>
    <3>1. sent \in Seq(Commands) /\ EndOf(sent, Ahead) /\ c > 0
      BY <1>1, <1>3, <1>4, <2>1 DEF TypeOK, Place
    <3>2. c + Ahead[1][2] <= Size(sent[Ahead[1][1]]) + 1
      BY <2>1, <2>2
    <3> HIDE DEF c
    <3>3. \A m \in 1 .. c : Ahead[m] = <<Ahead[1][1], Ahead[1][2] + m - 1>>
      BY <2>1, <2>2, <3>1, <3>2, EndOfTake
    <3>4. QED
      BY <2>2, <3>3
  <2>4. \A k \in 1 .. chunk : /\ k * PointSize <= c
                              /\ k * PointSize <= Len(Rest)
    <3> TAKE k \in 1 .. chunk
    <3>1. k \in Nat /\ k <= chunk
      BY <1>4
    <3>2. k * PointSize <= c /\ k * PointSize \in Nat
      BY <1>4, <3>1, Products
    <3>3. QED
      BY <1>4, <2>1, <3>2
  <2>5. /\ p \in Seq(Byte) /\ Len(p) = chunk
        /\ \A k \in 1 .. chunk : /\ p[k] = Rest[(k - 1) * PointSize + 1]
                                 /\ (k - 1) * PointSize + 1 \in 1 .. Len(Rest)
    BY <1>1, <1>4, <2>4, PointsTaken
  <2> HIDE DEF p, c
  <2>6. ASSUME NEW k \in 1 .. chunk
        PROVE  /\ p[k] = <<id, f + (k - 1) * PointSize>>
               /\ (k - 1) * PointSize \in Nat
               /\ (k - 1) * PointSize + PointSize = k * PointSize
    <3> DEFINE b == (k - 1) * PointSize
    <3>1. b \in Nat /\ b + PointSize = k * PointSize /\ k * PointSize \in Nat
      <4>1. k - 1 \in Nat /\ 1 \in Nat /\ (k - 1) + 1 = k /\ 1 * PointSize = PointSize
        BY <1>4
      <4>2. ((k - 1) + 1) * PointSize = (k - 1) * PointSize + 1 * PointSize
        BY <1>4, <4>1, Products
      <4>3. b \in Nat /\ k * PointSize \in Nat
        BY <1>4, <4>1, Products
      <4>4. QED
        BY <4>1, <4>2, <4>3
    <3>2. k * PointSize <= c /\ p[k] = Rest[b + 1] /\ b + 1 \in 1 .. Len(Rest)
      BY <2>4, <2>5
    <3> HIDE DEF b
    <3>3. b + 1 \in 1 .. c
      BY <1>4, <2>1, <3>1, <3>2
    <3>4. Ahead[b + 1] = <<id, f + (b + 1) - 1>> /\ Rest[b + 1] = Ahead[b + 1]
      BY <2>2, <2>3, <3>2, <3>3
    <3>5. f + (b + 1) - 1 = f + b
      BY <2>2, <3>1
    <3>6. p[k] = <<id, f + b>>
      BY <3>2, <3>4, <3>5
    <3>7. QED
      BY <3>1, <3>6 DEF b
  <2>7. \A k \in 1 .. chunk - 1 : Follows(p[k], p[k + 1])
    <3> TAKE k \in 1 .. chunk - 1
    <3>1. k \in 1 .. chunk /\ k + 1 \in 1 .. chunk /\ (k + 1) - 1 = k
      BY <1>4
    <3>2. /\ p[k] = <<id, f + (k - 1) * PointSize>>
          /\ (k - 1) * PointSize + PointSize = k * PointSize
          /\ (k - 1) * PointSize \in Nat
      BY <2>6, <3>1
    <3>3. p[k + 1] = <<id, f + ((k + 1) - 1) * PointSize>>
      BY <2>6, <3>1
    <3>4. ((k + 1) - 1) * PointSize = k * PointSize
      BY <3>1
    <3>5. f + k * PointSize = (f + (k - 1) * PointSize) + PointSize
      BY <1>4, <2>2, <3>2
    <3>6. p[k + 1] = <<id, (f + (k - 1) * PointSize) + PointSize>>
      BY <3>3, <3>4, <3>5
    <3>7. QED
      BY <3>2, <3>6 DEF Follows
  <2>8. p[1] = Head(Ahead)
    <3>1. 1 \in 1 .. chunk /\ (1 - 1) * PointSize = 0
      BY <1>4
    <3>2. p[1] = <<id, f + 0>> /\ f + 0 = f
      BY <2>2, <2>6, <3>1
    <3>3. Front = <<id, f>>
      <4>1. Ahead[1] \in Byte
        BY <2>2, AheadType, <1>1
      <4>2. QED
        BY <2>2, <4>1 DEF Byte
    <3>4. QED
      BY <2>2, <3>2, <3>3
  <2>9. p[chunk] = <<id, f + (chunk - 1) * PointSize>>
        /\ (chunk - 1) * PointSize \in Nat
        /\ (chunk - 1) * PointSize + PointSize = c
    BY <1>4, <2>6 DEF c
  <2>10. /\ ring \in Seq(Byte) /\ Len(ring) \in Nat
    BY <1>1, LenProperties DEF TypeOK
  <2>11. /\ ring' \in Seq(Byte) /\ Len(ring') = Len(ring) + chunk
         /\ \A i \in 1 .. Len(ring) + chunk :
              ring'[i] = IF i <= Len(ring) THEN ring[i] ELSE p[i - Len(ring)]
    <3>1. ring' = ring \o p
      BY <1>2, <1>6 DEF p
    <3>2. ring \in Seq(Byte) /\ p \in Seq(Byte) /\ Len(p) = chunk
      BY <2>5, <2>10
    <3>3. QED
      BY ONLY <3>1, <3>2, ConcatProperties
  <2>12. RingInOrder'
    <3> SUFFICES ASSUME NEW k \in 1 .. Len(ring') - 1
                 PROVE  Follows(ring'[k], ring'[k + 1])
      BY DEF RingInOrder, Follows
    <3>1. CASE k < Len(ring)
      <4>1. /\ k \in 1 .. Len(ring) - 1 /\ k + 1 <= Len(ring)
            /\ k \in 1 .. Len(ring) + chunk /\ k + 1 \in 1 .. Len(ring) + chunk
        BY <1>4, <2>10, <2>11, <3>1
      <4>2. ring'[k] = ring[k] /\ ring'[k + 1] = ring[k + 1]
        BY <2>10, <2>11, <4>1, <3>1
      <4>3. QED
        BY <4>1, <4>2 DEF RingInv, RingInOrder
    <3>2. CASE k = Len(ring)
      <4>1. /\ k \in 1 .. Len(ring) + chunk /\ k + 1 \in 1 .. Len(ring) + chunk
            /\ ~(k + 1 <= Len(ring)) /\ k + 1 - Len(ring) = 1
        BY <1>4, <2>10, <2>11, <3>2
      <4>2. ring'[k] = ring[Len(ring)] /\ ring'[k + 1] = p[1]
        BY <2>10, <2>11, <4>1, <3>2
      <4>3. ring # <<>>
        BY <2>10, <3>2, EmptySeq
      <4>4. Follows(ring[Len(ring)], Head(Ahead))
        BY <1>3, <1>4, <4>3 DEF RingInv
      <4>5. QED
        BY <2>8, <4>2, <4>4
    <3>3. CASE k > Len(ring)
      <4>1. /\ k \in 1 .. Len(ring) + chunk /\ k + 1 \in 1 .. Len(ring) + chunk
            /\ ~(k <= Len(ring)) /\ ~(k + 1 <= Len(ring))
            /\ k - Len(ring) \in 1 .. chunk - 1
            /\ (k + 1) - Len(ring) = (k - Len(ring)) + 1
        BY <1>4, <2>10, <2>11, <3>3
      <4>2. ring'[k] = p[k - Len(ring)] /\ ring'[k + 1] = p[(k - Len(ring)) + 1]
        BY <2>11, <4>1
      <4>3. QED
        BY <2>7, <4>1, <4>2
    <3>4. QED
      BY <2>10, <2>11, <3>1, <3>2, <3>3
  <2>13. /\ Len(ring') \in 1 .. Len(ring) + chunk
         /\ ring'[Len(ring')] = p[chunk] /\ ring' # <<>>
    <3>1. /\ Len(ring') \in 1 .. Len(ring) + chunk /\ ~(Len(ring') <= Len(ring))
          /\ Len(ring') - Len(ring) = chunk
      BY <1>4, <2>10, <2>11
    <3>2. QED
      BY <2>11, <3>1, EmptySeq
  <2>14. \/ Finishes
         \/ /\ Stays /\ st' = "DATA"
            /\ Head(Ahead') = <<id, f + c>>
    BY <1>1, <1>3, AdvancePlace DEF c
  <2>15. CASE Finishes
    <3>1. st' = "MAIN" /\ Current' = id + 1
      BY <2>2, <2>15 DEF Finishes
    <3>2. ring'[Len(ring')][1] < Current'
      BY <2>2, <2>9, <2>13, <3>1
    <3>3. QED
      BY <1>2, <1>6, <2>12, <3>1, <3>2 DEF RingInv
  <2>16. CASE Stays /\ st' = "DATA" /\ Head(Ahead') = <<id, f + c>>
    <3>1. f + c = (f + (chunk - 1) * PointSize) + PointSize
      <4> DEFINE g == (chunk - 1) * PointSize
      <4>1. g \in Nat /\ g + PointSize = c
        BY <2>9
      <4> HIDE DEF g
      <4>2. f + c = (f + g) + PointSize
        BY <1>4, <2>2, <4>1
      <4>3. QED
        BY <4>2 DEF g
    <3>2. Head(Ahead') = <<id, (f + (chunk - 1) * PointSize) + PointSize>>
      BY <2>16, <3>1
    <3>3. Follows(ring'[Len(ring')], Head(Ahead'))
      BY <2>9, <2>13, <3>2 DEF Follows
    <3>4. QED
      BY <1>2, <1>6, <2>12, <2>16, <3>3 DEF RingInv
  <2>17. QED
    BY <2>14, <2>15, <2>16
<1>7. QED
  BY <1>5, <1>6

LEMMA CallbackKeepsRing ==
  ASSUME Inv, RingInv, ~failed, Callback
  PROVE  RingInv'
<1>1. TypeOK /\ PlaceInv /\ AdvanceInv /\ TypeOK'
  BY CallbackKeepsInv DEF Inv
<1>2. Place /\ ~Ended
  <2>1. pc # "idle"
    BY DEF Callback, RecvShort, RecvMain, RecvPrepare, RecvOverRate, RecvBegin,
           RecvUpdate, RecvQueue, RecvData, RecvStop, RecvEstop, RecvClear, RecvPing,
           RecvVersion, RecvUnknown, Command, Parsing, DataRequest, DataAdvance,
           DataSkip, Flush
  <2>2. QED
    BY <1>1, <2>1 DEF PlaceInv, Ended
<1>3. dac = "IDLE" => ring = <<>>
  BY DEF RingInv
<1>4. CASE RecvShort \/ DataRequest \/ Flush
  <2>1. Stays
    BY <1>1, <1>2, <1>4, WaitingPlace
  <2>2. UNCHANGED <<st, playVars>>
    BY <1>4 DEF RecvShort, DataRequest, Flush
  <2>3. Ahead' = Ahead
    <3>1. CASE RecvShort
      BY <1>1, <3>1, KeptBytes DEF RecvShort, Parsing, netVars
    <3>2. CASE DataRequest \/ Flush
      BY <3>2 DEF DataRequest, Flush, netVars, Ahead, Rest
    <3>3. QED
      BY <1>4, <3>1, <3>2
  <2>4. ring' = ring /\ dac' = dac
    BY <2>2 DEF playVars
  <2>5. QED
    BY <1>1, <1>2, <1>3, <2>1, <2>2, <2>3, <2>4, RingKept
<1>5. CASE RecvData
  <2>1. ring' = ring /\ dac' = dac
    BY <1>5 DEF RecvData, playVars
  <2>2. /\ seg # <<>>
        /\ \/ Finishes
           \/ /\ Stays /\ st = "MAIN" /\ st' = "DATA"
              /\ Head(Ahead') = <<Front[1], DataSize + 1>>
    BY <1>1, <1>2, <1>5, DataPlace DEF RecvData, Command, Parsing
  <2>3. Current = Front[1]
    BY <1>1, <1>2, <2>2, FirstAhead DEF Place
  <2>4. QED
    BY <1>1, <1>2, <1>3, <2>1, <2>2, <2>3, RingKept
<1>6. CASE RecvMain /\ ~RecvData
  <2>1. Finishes \/ Strays \/ Ended'
    <3>1. CASE RecvUnknown
      BY <3>1 DEF RecvUnknown, Ended
    <3>2. CASE RecvEstop
      BY <1>1, <1>2, <3>2, EstopPlace
    <3>3. CASE RecvOverRate
      BY <1>1, <1>2, <3>3, OverRatePlace
    <3>4. CASE ~(RecvUnknown \/ RecvEstop \/ RecvOverRate)
      BY <1>1, <1>2, <1>6, <3>4, SimplePlace DEF RecvMain
    <3>5. QED
      BY <3>1, <3>2, <3>3, <3>4
  <2>2. ring' \in {ring, <<>>} /\ (dac' = "IDLE" => ring' = <<>>)
    <3>1. CASE RecvPrepare
      BY <1>3, <3>1 DEF RecvPrepare
    <3>2. CASE RecvBegin
      BY <1>3, <3>2 DEF RecvBegin
    <3>3. CASE RecvStop \/ RecvEstop
      BY <3>3 DEF RecvStop, RecvEstop
    <3>4. CASE \/ RecvOverRate \/ RecvUpdate \/ RecvQueue \/ RecvClear \/ RecvPing
               \/ RecvVersion \/ RecvUnknown
      BY <1>3, <3>4 DEF RecvOverRate, RecvUpdate, RecvQueue, RecvClear, RecvPing,
                        RecvVersion, RecvUnknown, playVars
    <3>5. QED
      BY <1>6, <3>1, <3>2, <3>3, <3>4 DEF RecvMain
  <2>3. QED
    BY <1>1, <1>2, <2>1, <2>2, RingKept
<1>7. CASE DataAdvance
  BY <1>7, RingAdvances
<1>8. CASE DataSkip
  <2>1. Finishes \/ (Stays /\ st' = "DATA_ABORTING")
    BY <1>1, <1>2, <1>8, SkipPlace
  <2>2. ring' = ring /\ dac' = dac
    BY <1>8 DEF DataSkip, playVars
  <2>3. QED
    BY <1>1, <1>2, <1>3, <2>1, <2>2, RingKept
<1>9. QED
  BY <1>4, <1>5, <1>6, <1>7, <1>8 DEF Callback

(* Outside the callback: the last point stays, or the ring runs empty.     *)
LEMMA RingElsewhere ==
  ASSUME RingInv, UNCHANGED <<st, failed>>, Ended => Ended',
         failed \/ Ended \/ Current' = Current,
         failed \/ Ended \/ st # "DATA" \/ Head(Ahead') = Head(Ahead),
         RingInOrder', dac' = "IDLE" => ring' = <<>>,
         ring' # <<>> => ring # <<>> /\ ring'[Len(ring')] = ring[Len(ring)]
  PROVE  RingInv'
<1> SUFFICES ASSUME ~(failed' \/ Ended' \/ ring' = <<>>)
             PROVE  LET last == ring'[Len(ring')] IN
                      CASE st' = "MAIN" -> last[1] < Current'
                        [] st' = "DATA" -> Follows(last, Head(Ahead'))
                        [] OTHER -> last[1] <= Current'
  BY DEF RingInv, Follows
<1> DEFINE last == ring[Len(ring)]
<1>1. /\ Current' = Current /\ st' = st /\ ring'[Len(ring')] = last
      /\ st = "DATA" => Head(Ahead') = Head(Ahead)
      /\ ~(failed \/ Ended \/ ring = <<>>)
  OBVIOUS
<1>2. /\ st = "MAIN" => last[1] < Current
      /\ st = "DATA" => Follows(last, Head(Ahead))
      /\ st \notin {"MAIN", "DATA"} => last[1] <= Current
  BY <1>1 DEF RingInv
<1> HIDE DEF last
<1>3. QED
  BY <1>1, <1>2

LEMMA NextKeepsRing == Inv /\ RingInv /\ [Next]_vars => RingInv'
<1> SUFFICES ASSUME Inv, RingInv, [Next]_vars PROVE RingInv'
  OBVIOUS
<1>1. TypeOK /\ PlaceInv
  BY DEF Inv
<1>2. ring \in Seq(Byte) /\ Len(ring) \in Nat /\ (dac = "IDLE" => ring = <<>>)
  BY <1>1, LenProperties DEF TypeOK, RingInv
<1>3. CASE ~failed /\ Callback
  BY <1>3, CallbackKeepsRing
<1>4. CASE Accept \/ ClientClose \/ TcpAcked \/ UNCHANGED vars
  <2>1. UNCHANGED <<sent, wire, st, buf, seg, pc, failed, ring, dac>>
    BY <1>4 DEF Accept, ClientClose, TcpAcked, vars, netVars, parserVars, playVars
  <2>2. Ahead' = Ahead /\ Current' = Current
    BY <2>1 DEF Ahead, Rest, Current
  <2>3. Ended => Ended'
    BY <1>4 DEF Ended, Accept, ClientClose, TcpAcked, vars, netVars, parserVars
  <2>4. RingInOrder'
    BY <2>1 DEF RingInOrder, RingInv
  <2>5. QED
    BY <1>2, <2>1, <2>2, <2>3, <2>4, RingElsewhere
<1>5. CASE Play
  <2>1. UNCHANGED <<sent, wire, conn, st, buf, seg, pc, failed>>
    BY <1>5 DEF Play, netVars, parserVars
  <2>2. Ahead' = Ahead /\ Current' = Current
    BY <2>1 DEF Ahead, Rest, Current
  <2>3. Ended => Ended'
    BY <2>1 DEF Ended
  <2>4. CASE ring = <<>> /\ ring' = ring
    <3>1. Len(ring') = 0
      BY <2>4, EmptySeq
    <3>2. RingInOrder'
      BY <3>1 DEF RingInOrder
    <3>3. QED
      BY <1>2, <2>1, <2>2, <2>3, <2>4, <3>2, RingElsewhere
  <2>5. CASE ring # <<>> /\ ring' = Tail(ring) /\ dac' = dac
    <3>1. /\ ring' \in Seq(Byte) /\ Len(ring') = Len(ring) - 1
          /\ \A i \in 1 .. Len(ring) - 1 : ring'[i] = ring[i + 1]
      BY <1>2, <2>5, HeadTailProperties
    <3>2. RingInOrder'
      <4> SUFFICES ASSUME NEW k \in 1 .. Len(ring') - 1
                   PROVE  Follows(ring'[k], ring'[k + 1])
        BY DEF RingInOrder, Follows
      <4>1. /\ k \in 1 .. Len(ring) - 1 /\ k + 1 \in 1 .. Len(ring) - 1
        BY <1>2, <3>1
      <4>2. ring'[k] = ring[k + 1] /\ ring'[k + 1] = ring[(k + 1) + 1]
        BY <3>1, <4>1
      <4>3. QED
        BY <4>1, <4>2 DEF RingInv, RingInOrder
    <3>3. ring' # <<>> => ring'[Len(ring')] = ring[Len(ring)]
      <4> SUFFICES ASSUME ring' # <<>> PROVE ring'[Len(ring')] = ring[Len(ring)]
        OBVIOUS
      <4>1. Len(ring') \in 1 .. Len(ring) - 1 /\ Len(ring') + 1 = Len(ring)
        BY <1>2, <3>1, EmptySeq
      <4>2. QED
        BY <3>1, <4>1
    <3>4. dac' = "IDLE" => ring' = <<>>
      BY <1>2, <2>5
    <3>5. QED
      BY <2>1, <2>2, <2>3, <2>5, <3>2, <3>3, <3>4, RingElsewhere
  <2>6. QED
    BY <1>5, <2>4, <2>5 DEF Play
<1>6. ASSUME NEW u \in Commands, Send(u) PROVE RingInv'
  <2>1. UNCHANGED <<conn, st, pc, failed, ring, dac>> /\ conn = "open"
    BY <1>6 DEF Send, parserVars, playVars
  <2>2. RingInOrder' /\ ~Ended
    BY <2>1 DEF RingInOrder, RingInv, Ended
  <2>3. CASE failed
    BY <1>2, <2>1, <2>2, <2>3, RingElsewhere
  <2>4. CASE ~failed
    <3>1. Place
      BY <1>1, <2>2, <2>4 DEF PlaceInv
    <3>2. /\ Current' = Current
          /\ IF Ahead = <<>> THEN TRUE ELSE Head(Ahead') = Head(Ahead)
      BY <1>1, <1>6, <3>1, SentAhead
    <3>3. Ahead = <<>> => st # "DATA"
      BY <3>1 DEF Place, InPlace, Astray
    <3>4. QED
      BY <1>2, <2>1, <2>2, <3>2, <3>3, RingElsewhere
  <2>5. QED
    BY <2>3, <2>4
<1>7. ASSUME NEW n \in 1 .. Len(wire), Deliver(n) PROVE RingInv'
  <2>1. /\ UNCHANGED <<sent, conn, st, failed, ring, dac>>
        /\ pc = "parse" \/ conn = "open"
    BY <1>7 DEF Deliver, playVars
  <2>2. Ahead' = Ahead
    BY <1>1, <1>7, DeliveredAhead
  <2>3. Current' = Current
    BY <2>1, <2>2 DEF Current
  <2>4. RingInOrder' /\ ~Ended
    BY <2>1 DEF RingInOrder, RingInv, Ended
  <2>5. QED
    BY <1>2, <2>1, <2>2, <2>3, <2>4, RingElsewhere
<1>8. QED
  BY <1>3, <1>4, <1>5, <1>6, <1>7 DEF Next, Client, FirmwareStep, DeliverSome, Quiet

(* The ring holds the points in the order they were sent and within a      *)
(* command without a gap, over-rate commands and version queries included. *)
THEOREM PointsInOrder == Spec => []RingInOrder
<1>1. Init => RingInv
  <2> SUFFICES ASSUME Init PROVE RingInv
    OBVIOUS
  <2>1. ring = <<>> /\ Len(ring) = 0
    BY EmptySeq DEF Init
  <2>2. QED
    BY <2>1 DEF RingInv, RingInOrder
<1>2. Inv /\ RingInv /\ [Next]_vars => RingInv'
  BY NextKeepsRing
<1>3. RingInv => RingInOrder
  BY DEF RingInv
<1>4. QED
  BY <1>1, <1>2, <1>3, Invariance, PTL DEF Spec
-----------------------------------------------------------------------------
(* The answers: one more, put in at any place, for the next command.       *)
LEMMA Inserted ==
  ASSUME NEW x, NEW y, NEW next \in Nat, NEW a, NEW n \in Nat, Len(x) \in Nat,
         Len(y) = Len(x) + 1, n <= Len(x), a.id = next, next > 0,
         OneEach(x, next),
         \A i \in 1 .. n : y[i] = x[i],
         y[n + 1] = a,
         \A i \in n + 2 .. Len(x) + 1 : y[i] = x[i - 1]
  PROVE  OneEach(y, next + 1)
<1> DEFINE from(i) == IF i <= n THEN i ELSE i - 1
<1>1. \A i \in 1 .. Len(y) : i # n + 1 => from(i) \in 1 .. Len(x) /\ y[i] = x[from(i)]
  <2> TAKE i \in 1 .. Len(y)
  <2>1. CASE i <= n
    BY <2>1
  <2>2. CASE i >= n + 2
    <3>1. i \in n + 2 .. Len(x) + 1 /\ ~(i <= n)
      BY <2>2
    <3>2. y[i] = x[i - 1] /\ i - 1 \in 1 .. Len(x)
      BY <3>1
    <3>3. QED
      BY <3>1, <3>2
  <2>3. CASE i = n + 1
    BY <2>3
  <2>4. QED
    BY <2>1, <2>2, <2>3
<1>2. \A k \in 1 .. Len(x) : x[k].id \in 0 .. next - 1
  BY DEF OneEach
<1>3. \A j, k \in 1 .. Len(x) : x[j].id = x[k].id => j = k
  BY DEF OneEach
<1>4. \A id \in 1 .. next - 1 : \E k \in 1 .. Len(x) : x[k].id = id
  BY DEF OneEach
<1>5. \A i \in 1 .. Len(y) : i # n + 1 => y[i].id \in 0 .. next - 1
  BY <1>1, <1>2
<1>6. n + 1 \in 1 .. Len(y) /\ y[n + 1].id = next
  OBVIOUS
<1>7. \A k \in 1 .. Len(y) : y[k].id \in 0 .. (next + 1) - 1
  <2> TAKE k \in 1 .. Len(y)
  <2>1. CASE k = n + 1
    BY <1>6, <2>1
  <2>2. CASE k # n + 1
    BY <1>5, <2>2
  <2>3. QED
    BY <2>1, <2>2
<1>8. ASSUME NEW j \in 1 .. Len(y), NEW k \in 1 .. Len(y), y[j].id = y[k].id
      PROVE  j = k
  <2>1. CASE j = n + 1
    <3>1. y[k].id = next
      BY <1>6, <1>8, <2>1
    <3>2. ~(next \in 0 .. next - 1)
      OBVIOUS
    <3>3. QED
      BY <1>5, <2>1, <3>1, <3>2
  <2>2. CASE k = n + 1
    <3>1. y[j].id = next
      BY <1>6, <1>8, <2>2
    <3>2. ~(next \in 0 .. next - 1)
      OBVIOUS
    <3>3. QED
      BY <1>5, <2>2, <3>1, <3>2
  <2>3. CASE j # n + 1 /\ k # n + 1
    <3>1. /\ from(j) \in 1 .. Len(x) /\ y[j] = x[from(j)]
          /\ from(k) \in 1 .. Len(x) /\ y[k] = x[from(k)]
      BY <1>1, <2>3
    <3>2. x[from(j)].id = x[from(k)].id
      BY <1>8, <3>1
    <3>3. from(j) = from(k)
      BY ONLY <1>3, <3>1, <3>2
    <3>4. QED
      BY <2>3, <3>3
  <2>4. QED
    BY <2>1, <2>2, <2>3
<1>9. ASSUME NEW id \in 1 .. (next + 1) - 1
      PROVE  \E k \in 1 .. Len(y) : y[k].id = id
  <2>1. CASE id = next
    BY <1>6, <2>1
  <2>2. CASE id # next
    <3>1. id \in 1 .. next - 1
      BY <2>2
    <3>2. PICK k \in 1 .. Len(x) : x[k].id = id
      BY <1>4, <3>1
    <3>3. CASE k <= n
      BY <3>2, <3>3
    <3>4. CASE ~(k <= n)
      <4>1. k + 1 \in n + 2 .. Len(x) + 1 /\ k + 1 \in 1 .. Len(y) /\ (k + 1) - 1 = k
        BY <3>4
      <4>2. y[k + 1] = x[(k + 1) - 1]
        BY <4>1
      <4>3. y[k + 1].id = id
        BY <3>2, <4>1, <4>2
      <4>4. QED
        BY <4>1, <4>3
    <3>5. QED
      BY <3>3, <3>4
  <2>3. QED
    BY <2>1, <2>2
<1>10. QED
  BY <1>7, <1>8, <1>9 DEF OneEach

LEMMA ThreeParts ==
  ASSUME NEW S, NEW g \in Seq(S), NEW d \in Seq(S), NEW r \in Seq(S)
  PROVE  LET x == g \o d \o r IN
           /\ x \in Seq(S) /\ Len(x) = Len(g) + Len(d) + Len(r)
           /\ Len(g) \in Nat /\ Len(d) \in Nat /\ Len(r) \in Nat
           /\ \A i \in 1 .. Len(g) : x[i] = g[i]
           /\ \A i \in 1 .. Len(d) : x[Len(g) + i] = d[i]
           /\ \A i \in 1 .. Len(r) : x[Len(g) + Len(d) + i] = r[i]
<1> DEFINE w == g \o d
           x == w \o r
<1>1. Len(g) \in Nat /\ Len(d) \in Nat /\ Len(r) \in Nat
  BY LenProperties
<1>2. /\ w \in Seq(S) /\ Len(w) = Len(g) + Len(d)
      /\ \A i \in 1 .. Len(g) + Len(d) :
           w[i] = IF i <= Len(g) THEN g[i] ELSE d[i - Len(g)]
  BY ConcatProperties
<1> HIDE DEF w
<1>3. /\ x \in Seq(S) /\ Len(x) = Len(w) + Len(r)
      /\ \A i \in 1 .. Len(w) + Len(r) :
           x[i] = IF i <= Len(w) THEN w[i] ELSE r[i - Len(w)]
  <2>1. w \in Seq(S) /\ r \in Seq(S) /\ x = w \o r
    BY <1>2
  <2>2. QED
    BY ONLY <2>1, ConcatProperties
<1> HIDE DEF x
<1>4. ASSUME NEW i \in 1 .. Len(g) PROVE x[i] = g[i]
  <2>1. /\ i \in 1 .. Len(w) + Len(r) /\ i <= Len(w)
        /\ i \in 1 .. Len(g) + Len(d) /\ i <= Len(g)
    BY <1>1, <1>2
  <2>2. x[i] = w[i]
    BY <1>3, <2>1
  <2>3. QED
    BY <1>2, <2>1, <2>2
<1>5. ASSUME NEW i \in 1 .. Len(d) PROVE x[Len(g) + i] = d[i]
  <2>1. /\ Len(g) + i \in 1 .. Len(w) + Len(r) /\ Len(g) + i <= Len(w)
        /\ Len(g) + i \in 1 .. Len(g) + Len(d) /\ ~(Len(g) + i <= Len(g))
        /\ (Len(g) + i) - Len(g) = i
    BY <1>1, <1>2
  <2>2. QED
    BY <1>2, <1>3, <2>1
<1>6. ASSUME NEW i \in 1 .. Len(r) PROVE x[Len(g) + Len(d) + i] = r[i]
  <2>1. /\ Len(g) + Len(d) + i \in 1 .. Len(w) + Len(r)
        /\ ~(Len(g) + Len(d) + i <= Len(w))
        /\ (Len(g) + Len(d) + i) - Len(w) = i
    BY <1>1, <1>2
  <2>2. QED
    BY <1>3, <2>1
<1>7. Len(x) = Len(g) + Len(d) + Len(r)
  BY <1>2, <1>3
<1>8. QED
  BY <1>1, <1>3, <1>4, <1>5, <1>6, <1>7 DEF x, w

(* Wherever send_resp puts it, it is one answer more.                      *)
LEMMA OneMore ==
  ASSUME TypeOK, TypeOK', NEW id \in Nat, id > 0, NEW ok \in BOOLEAN,
         conn = "open", send_resp(id, ok), OneEach(Answers, id)
  PROVE  OneEach(Answers', id + 1)
<1> DEFINE a == [id |-> id, ok |-> ok]
           G == Len(got)
           D == Len(defer)
           R == Len(dropped)
           x == Answers
           y == Answers'
<1>1. /\ got \in Seq(Answer) /\ defer \in Seq(Answer) /\ dropped \in Seq(Answer)
      /\ got' \in Seq(Answer) /\ defer' \in Seq(Answer) /\ dropped' \in Seq(Answer)
  BY DEF TypeOK
<1>2. a \in Answer /\ a.id = id
  BY DEF Answer
<1> HIDE DEF a
<1>3. /\ Len(x) = G + D + R /\ G \in Nat /\ D \in Nat /\ R \in Nat
      /\ \A i \in 1 .. G : x[i] = got[i]
      /\ \A i \in 1 .. D : x[G + i] = defer[i]
      /\ \A i \in 1 .. R : x[G + D + i] = dropped[i]
  <2>1. got \in Seq(Answer) /\ defer \in Seq(Answer) /\ dropped \in Seq(Answer)
    BY <1>1
  <2> HIDE DEF x
  <2>2. x = got \o defer \o dropped
    BY DEF Answers, x
  <2>3. QED
    BY ONLY <2>1, <2>2, ThreeParts DEF G, D, R
<1>4. /\ Len(y) = Len(got') + Len(defer') + Len(dropped')
      /\ \A i \in 1 .. Len(got') : y[i] = got'[i]
      /\ \A i \in 1 .. Len(defer') : y[Len(got') + i] = defer'[i]
      /\ \A i \in 1 .. Len(dropped') : y[Len(got') + Len(defer') + i] = dropped'[i]
  <2>1. /\ got' \in Seq(Answer) /\ defer' \in Seq(Answer)
        /\ dropped' \in Seq(Answer)
    BY <1>1
  <2> HIDE DEF y
  <2>2. y = got' \o defer' \o dropped'
    BY DEF Answers, y
  <2>3. QED
    BY ONLY <2>1, <2>2, ThreeParts
<1>5. OneEach(x, id)
  OBVIOUS
<1> HIDE DEF G, D, R, x, y
<1>6. \A i \in 1 .. Len(x) : \/ i \in 1 .. G
                             \/ i - G \in 1 .. D /\ i = G + (i - G)
                             \/ i - G - D \in 1 .. R /\ i = G + D + (i - G - D)
  BY <1>3
<1>7. \/ got' = Append(got, a) /\ defer' = defer /\ dropped' = dropped
      \/ got' = got /\ defer' = Append(defer, a) /\ dropped' = dropped
      \/ got' = got /\ defer' = defer /\ dropped' = Append(dropped, a)
  BY DEF send_resp, a
<1>8. CASE got' = Append(got, a) /\ defer' = defer /\ dropped' = dropped
  <2>1. /\ Len(got') = G + 1 /\ got'[G + 1] = a
        /\ \A i \in 1 .. G : got'[i] = got[i]
    BY <1>1, <1>2, <1>8, AppendProperties DEF G
  <2>2. Len(defer') = D /\ Len(dropped') = R
    BY <1>8 DEF D, R
  <2>3. Len(y) = Len(x) + 1 /\ Len(x) \in Nat /\ G <= Len(x)
    BY <1>3, <1>4, <2>1, <2>2
  <2>4. \A i \in 1 .. G : y[i] = x[i]
    BY <1>3, <1>4, <2>1
  <2>5. y[G + 1] = a
    BY <1>3, <1>4, <2>1
  <2>6. \A i \in G + 2 .. Len(x) + 1 : y[i] = x[i - 1]
    <3> TAKE i \in G + 2 .. Len(x) + 1
    <3>1. CASE i - 1 <= G + D
      <4>1. i - 1 - G \in 1 .. D /\ i = (G + 1) + (i - 1 - G) /\ i - 1 = G + (i - 1 - G)
        BY <1>3, <3>1
      <4>2. y[i] = defer'[i - 1 - G] /\ x[i - 1] = defer[i - 1 - G]
        BY <1>3, <1>4, <2>1, <2>2, <4>1
      <4>3. QED
        BY <1>8, <4>2
    <3>2. CASE ~(i - 1 <= G + D)
      <4> DEFINE m == i - 1 - G - D
      <4>1. m \in 1 .. R /\ i = (G + 1) + D + m /\ i - 1 = G + D + m
        BY <1>3, <3>2
      <4> HIDE DEF m
      <4>2. y[i] = dropped'[m] /\ x[i - 1] = dropped[m]
        BY <1>3, <1>4, <2>1, <2>2, <4>1
      <4>3. QED
        BY <1>8, <4>2
    <3>3. QED
      BY <3>1, <3>2
  <2>7. OneEach(y, id + 1)
    BY <1>2, <1>3, <1>5, <2>3, <2>4, <2>5, <2>6, Inserted
  <2>8. QED
    BY <2>7 DEF y
<1>9. CASE got' = got /\ defer' = Append(defer, a) /\ dropped' = dropped
  <2>1. /\ Len(defer') = D + 1 /\ defer'[D + 1] = a
        /\ \A i \in 1 .. D : defer'[i] = defer[i]
    BY <1>1, <1>2, <1>9, AppendProperties DEF D
  <2>2. Len(got') = G /\ Len(dropped') = R
    BY <1>9 DEF G, R
  <2>3. Len(y) = Len(x) + 1 /\ Len(x) \in Nat /\ G + D <= Len(x) /\ G + D \in Nat
    BY <1>3, <1>4, <2>1, <2>2
  <2>4. \A i \in 1 .. G + D : y[i] = x[i]
    <3> TAKE i \in 1 .. G + D
    <3>1. CASE i <= G
      BY <1>3, <1>4, <1>9, <2>2, <3>1
    <3>2. CASE ~(i <= G)
      <4> DEFINE m == i - G
      <4>1. m \in 1 .. D /\ i = G + m
        BY <1>3, <3>2
      <4> HIDE DEF m
      <4>2. y[i] = defer'[m] /\ x[i] = defer[m]
        BY <1>3, <1>4, <2>1, <2>2, <4>1
      <4>3. QED
        BY <2>1, <4>1, <4>2
    <3>3. QED
      BY <3>1, <3>2
  <2>5. y[G + D + 1] = a
    <3>1. G + D + 1 = G + (D + 1) /\ D + 1 \in 1 .. D + 1
      BY <1>3
    <3>2. y[G + (D + 1)] = defer'[D + 1]
      BY <1>4, <2>1, <2>2, <3>1
    <3>3. QED
      BY <2>1, <3>1, <3>2
  <2>6. \A i \in G + D + 2 .. Len(x) + 1 : y[i] = x[i - 1]
    <3> TAKE i \in G + D + 2 .. Len(x) + 1
    <3> DEFINE m == i - 1 - G - D
    <3>1. m \in 1 .. R /\ i = G + (D + 1) + m /\ i - 1 = G + D + m
      <4>1. Len(x) = G + D + R /\ G \in Nat /\ D \in Nat /\ R \in Nat
        BY <1>3
      <4>2. QED
        BY ONLY <4>1, i \in G + D + 2 .. Len(x) + 1
    <3> HIDE DEF m
    <3>2. y[i] = dropped'[m] /\ x[i - 1] = dropped[m]
      BY <1>3, <1>4, <2>1, <2>2, <3>1
    <3>3. QED
      BY <1>9, <3>2
  <2>7. OneEach(y, id + 1)
    BY <1>2, <1>3, <1>5, <2>3, <2>4, <2>5, <2>6, Inserted
  <2>8. QED
    BY <2>7 DEF y
<1>10. CASE got' = got /\ defer' = defer /\ dropped' = Append(dropped, a)
  <2>1. /\ Len(dropped') = R + 1 /\ dropped'[R + 1] = a
        /\ \A i \in 1 .. R : dropped'[i] = dropped[i]
    BY <1>1, <1>2, <1>10, AppendProperties DEF R
  <2>2. Len(got') = G /\ Len(defer') = D
    BY <1>10 DEF G, D
  <2>3. Len(y) = Len(x) + 1 /\ Len(x) \in Nat
    BY <1>3, <1>4, <2>1, <2>2
  <2>4. \A i \in 1 .. Len(x) : y[i] = x[i]
    <3> TAKE i \in 1 .. Len(x)
    <3>1. CASE i <= G
      BY <1>3, <1>4, <1>10, <2>2, <3>1
    <3>2. CASE ~(i <= G) /\ i <= G + D
      <4> DEFINE m == i - G
      <4>1. m \in 1 .. D /\ i = G + m
        BY <1>3, <3>2
      <4> HIDE DEF m
      <4>2. QED
        <5>1. y[i] = defer'[m]
          BY <1>4, <2>2, <4>1
        <5>2. x[i] = defer[m]
          BY <1>3, <4>1
        <5>3. QED
          BY <1>10, <5>1, <5>2
    <3>3. CASE ~(i <= G + D)
      <4> DEFINE m == i - G - D
      <4>1. m \in 1 .. R /\ m \in 1 .. R + 1 /\ i = G + D + m
        BY <1>3, <3>3
      <4> HIDE DEF m
      <4>2. y[i] = dropped'[m] /\ x[i] = dropped[m]
        BY <1>3, <1>4, <2>1, <2>2, <4>1
      <4>3. QED
        BY <2>1, <4>1, <4>2
    <3>4. QED
      BY <3>1, <3>2, <3>3
  <2>5. y[Len(x) + 1] = a
    <3>1. Len(x) + 1 = G + D + (R + 1) /\ R + 1 \in 1 .. R + 1
      BY <1>3
    <3>2. y[G + D + (R + 1)] = dropped'[R + 1]
      BY <1>4, <2>1, <2>2, <3>1
    <3>3. QED
      BY <2>1, <3>1, <3>2
  <2>6. \A i \in Len(x) + 2 .. Len(x) + 1 : y[i] = x[i - 1]
    BY <2>3
  <2>7. Len(x) <= Len(x)
    BY <2>3
  <2>8. OneEach(y, id + 1)
    BY ONLY <1>2, <1>5, <2>3, <2>4, <2>5, <2>6, <2>7, Inserted, id \in Nat, id > 0
  <2>9. QED
    BY <2>8 DEF y
<1>11. QED
  BY <1>7, <1>8, <1>9, <1>10

(* A command is finished: with its answer, or not at all.                  *)
LEMMA AnswerStep ==
  ASSUME TypeOK, TypeOK', Place, seg # <<>>, OneEach(Answers, Current),
         conn = "open", NEW ok \in BOOLEAN,
         \/ Finishes /\ send_resp(Front[1], ok)
         \/ Stays /\ UNCHANGED answerVars
  PROVE  OneEach(Answers', Current')
<1>1. Front[1] = Current /\ Front[1] \in 1 .. Len(sent) /\ Len(sent) \in Nat
  BY FirstAhead, LenProperties DEF Place, TypeOK
<1>2. CASE Finishes /\ send_resp(Front[1], ok)
  <2> DEFINE id == Front[1]
  <2>1. id \in Nat /\ id > 0 /\ OneEach(Answers, id) /\ send_resp(id, ok)
        /\ Current' = id + 1
    BY <1>1, <1>2 DEF Finishes
  <2> HIDE DEF id
  <2>2. OneEach(Answers', id + 1)
    BY <2>1, OneMore
  <2>3. QED
    BY <2>1, <2>2
<1>3. CASE Stays /\ UNCHANGED answerVars
  <2>1. Answers' = Answers /\ Current' = Current
    BY <1>3 DEF Stays, answerVars, Answers
  <2>2. QED
    BY <2>1
<1>4. QED
  BY <1>2, <1>3

LEMMA CallbackKeepsAnswers ==
  ASSUME Inv, AnswersInv, ~failed, Callback
  PROVE  AnswersInv'
<1>1. TypeOK /\ PlaceInv /\ AdvanceInv /\ TypeOK'
  BY CallbackKeepsInv DEF Inv
<1>2. pc # "idle"
  BY DEF Callback, RecvShort, RecvMain, RecvPrepare, RecvOverRate, RecvBegin,
         RecvUpdate, RecvQueue, RecvData, RecvStop, RecvEstop, RecvClear, RecvPing,
         RecvVersion, RecvUnknown, Command, Parsing, DataRequest, DataAdvance,
         DataSkip, Flush
<1>3. Place
  BY <1>1, <1>2 DEF PlaceInv, Ended
<1>4. seg # <<>> \/ Flush
  BY <1>1 DEF Callback, RecvShort, RecvMain, RecvPrepare, RecvOverRate, RecvBegin,
         RecvUpdate, RecvQueue, RecvData, RecvStop, RecvEstop, RecvClear, RecvPing,
         RecvVersion, RecvUnknown, Command, Parsing, DataRequest, DataAdvance,
         DataSkip, AdvanceInv
<1>5. sent' = sent /\ conn' \in {conn, "closed"}
  BY DEF Callback, RecvShort, RecvMain, RecvPrepare, RecvOverRate, RecvBegin,
         RecvUpdate, RecvQueue, RecvData, RecvStop, RecvEstop, RecvClear, RecvPing,
         RecvVersion, RecvUnknown, Command, MainNext, DataRequest, DataAdvance,
         DataSkip, Flush, netVars
<1>6. ASSUME conn' = "none" PROVE defer' = <<>> /\ dropped' = <<>>
  <2>1. conn = "none" /\ sent = <<>> /\ defer = <<>> /\ dropped = <<>>
    BY <1>1, <1>5, <1>6 DEF AnswersInv, PlaceInv
  <2>2. seg = <<>>
    <3>1. seg # <<>> => Front[1] \in 1 .. Len(sent)
      BY <1>1, <1>3, FirstAhead DEF Place
    <3>2. QED
      BY <2>1, <3>1
  <2>3. Flush
    BY <1>4, <2>2
  <2>4. defer' = Drop(defer, 0) /\ dropped' = dropped
    BY <2>1, <2>3 DEF Flush
  <2>5. Drop(defer, 0) \in Seq(Answer) /\ Len(Drop(defer, 0)) = 0
    <3>1. defer \in Seq(Answer) /\ Len(defer) = 0 /\ 0 \in 0 .. Len(defer)
      BY <1>1, <2>1 DEF TypeOK
    <3>2. Drop(defer, 0) \in Seq(Answer) /\ Len(Drop(defer, 0)) = Len(defer) - 0
      BY ONLY <3>1, Dropped
    <3>3. QED
      BY <3>1, <3>2
  <2>6. QED
    BY <2>1, <2>4, <2>5, EmptySeq
<1>7. ASSUME conn' = "open", WithinRate' PROVE OneEach(Answers', Current')
  <2>1. conn = "open" /\ WithinRate
    BY <1>5, <1>7 DEF WithinRate
  <2>2. OneEach(Answers, Current)
    BY <2>1 DEF AnswersInv
  <2>3. CASE RecvShort \/ DataRequest
    <3>1. Stays
      BY <1>1, <1>3, <2>3, WaitingPlace
    <3>2. UNCHANGED answerVars
      BY <2>3 DEF RecvShort, DataRequest
    <3>3. Answers' = Answers /\ Current' = Current
      BY <3>1, <3>2 DEF Stays, answerVars, Answers
    <3>4. QED
      BY <2>2, <3>3
  <2>4. CASE Flush
    <3>1. Stays
      BY <1>1, <1>3, <2>4, WaitingPlace
    <3>2. Answers' = Answers
      BY <1>1, <2>4, FlushFits DEF Answers
    <3>3. QED
      BY <2>2, <3>1, <3>2 DEF Stays
  <2>5. CASE RecvData
    <3>1. \/ Finishes /\ send_resp(Front[1], TRUE)
          \/ Stays /\ UNCHANGED answerVars
      BY <1>1, <1>3, <2>5, DataPlace
    <3>2. seg # <<>>
      BY <2>5 DEF RecvData, Command, Parsing
    <3>3. QED
      BY <1>1, <1>3, <2>1, <2>2, <3>1, <3>2, AnswerStep
  <2>6. CASE DataAdvance
    <3>1. \/ Finishes /\ send_resp(Front[1], TRUE)
          \/ Stays /\ UNCHANGED answerVars
      BY <1>1, <1>3, <2>6, AdvancePlace
    <3>2. seg # <<>>
      BY <1>1, <2>6 DEF DataAdvance, AdvanceInv
    <3>3. QED
      BY <1>1, <1>3, <2>1, <2>2, <3>1, <3>2, AnswerStep
  <2>7. CASE DataSkip
    <3>1. \/ Finishes /\ send_resp(Front[1], FALSE)
          \/ Stays /\ UNCHANGED answerVars
      BY <1>1, <1>3, <2>7, SkipPlace
    <3>2. seg # <<>>
      BY <2>7 DEF DataSkip, Parsing
    <3>3. QED
      BY <1>1, <1>3, <2>1, <2>2, <3>1, <3>2, AnswerStep
  <2>8. CASE RecvUnknown
    BY <1>7, <2>8 DEF RecvUnknown
  <2>9. CASE RecvOverRate
    <3>1. Strays
      BY <1>1, <1>3, <2>9, OverRatePlace
    <3>2. QED
      BY <2>1, <3>1 DEF Strays
  <2>10. CASE RecvEstop
    <3>1. Finishes
      BY <1>1, <1>3, <2>1, <2>10, EstopPlace DEF Strays
    <3>2. send_resp(Front[1], TRUE) /\ seg # <<>>
      BY <2>10 DEF RecvEstop, Reply, Command, Parsing
    <3>3. QED
      BY <1>1, <1>3, <2>1, <2>2, <3>1, <3>2, AnswerStep
  <2>11. CASE \/ RecvPrepare \/ RecvBegin \/ RecvUpdate \/ RecvQueue \/ RecvStop
              \/ RecvClear \/ RecvPing \/ RecvVersion
    <3>1. Finishes
      BY <1>1, <1>3, <2>11, SimplePlace
    <3>2. seg # <<>>
      BY <1>4, <2>11 DEF RecvPrepare, RecvBegin, RecvUpdate, RecvQueue, RecvStop,
                         RecvClear, RecvPing, RecvVersion, Command, Parsing
    <3>3. \E ok \in BOOLEAN : send_resp(Front[1], ok)
      <4>1. CASE RecvPrepare
        BY <4>1 DEF RecvPrepare, Reply
      <4>2. CASE RecvBegin \/ RecvUpdate \/ RecvQueue \/ RecvClear \/ RecvPing
        BY <4>2 DEF RecvBegin, RecvUpdate, RecvQueue, RecvClear, RecvPing, Reply
      <4>3. CASE RecvStop
        <5>1. send_resp(Front[1], dac # "IDLE")
          BY <4>3 DEF RecvStop, Reply
        <5>2. CASE dac = "IDLE"
          <6>1. (dac # "IDLE") = FALSE
            BY <5>2
          <6>2. QED
            BY <5>1, <6>1
        <5>3. CASE dac # "IDLE"
          <6>1. (dac # "IDLE") = TRUE
            BY <5>3
          <6>2. QED
            BY <5>1, <6>1
        <5>4. QED
          BY <5>2, <5>3
      <4>4. CASE RecvVersion
        BY <1>7, <4>4 DEF RecvVersion
      <4>5. QED
        BY <2>11, <4>1, <4>2, <4>3, <4>4
    <3>4. QED
      BY <1>1, <1>3, <2>1, <2>2, <3>1, <3>2, <3>3, AnswerStep
  <2>12. QED
    BY <2>3, <2>4, <2>5, <2>6, <2>7, <2>8, <2>9, <2>10, <2>11 DEF Callback, RecvMain
<1>8. QED
  BY <1>6, <1>7 DEF AnswersInv

LEMMA NextKeepsAnswers == Inv /\ AnswersInv /\ [Next]_vars => AnswersInv'
<1> SUFFICES ASSUME Inv, AnswersInv, [Next]_vars PROVE AnswersInv'
  OBVIOUS
<1>1. TypeOK /\ PlaceInv
  BY DEF Inv
<1>2. CASE ~failed /\ Callback
  BY <1>2, CallbackKeepsAnswers
<1>3. CASE ClientClose \/ TcpAcked \/ Play \/ UNCHANGED vars
  <2>1. /\ UNCHANGED <<sent, wire, buf, seg, got, defer, dropped>>
        /\ conn' = conn \/ conn' = "closed"
    BY <1>3 DEF ClientClose, TcpAcked, Play, vars, netVars, parserVars, answerVars
  <2>2. Answers' = Answers /\ Current' = Current /\ (WithinRate' <=> WithinRate)
    BY <2>1 DEF Answers, Current, Ahead, Rest, WithinRate
  <2>3. QED
    BY <2>1, <2>2 DEF AnswersInv
<1>4. CASE Accept
  <2>1. /\ UNCHANGED <<sent, wire, buf, seg, pc, failed, defer, dropped>>
        /\ conn = "none" /\ conn' = "open" /\ got' = <<[id |-> 0, ok |-> TRUE]>>
        /\ UNCHANGED <<pointsleft, st>>
    BY <1>4 DEF Accept, parserVars
  <2>2. sent = <<>> /\ defer = <<>> /\ dropped = <<>>
    BY <1>1, <2>1 DEF PlaceInv, AnswersInv
  <2>3. ~failed
    <3>1. WithinRate
      BY <2>2 DEF WithinRate
    <3>2. QED
      BY <1>1, <3>1 DEF PlaceInv
  <2>4. Place
    BY <1>1, <2>1, <2>3 DEF PlaceInv, Ended
  <2>5. Ahead = <<>>
    <3>1. Ahead # <<>> => Ahead[1][1] \in 1 .. Len(sent)
      <4> SUFFICES ASSUME Ahead # <<>> PROVE Ahead[1][1] \in 1 .. Len(sent)
        OBVIOUS
      <4>1. Ahead \in Seq(Byte) /\ Len(Ahead) \in Nat \ {0}
        BY <1>1, AheadType, LenProperties
      <4>2. 1 \in 1 .. Len(Ahead) /\ EndOf(sent, Ahead)
        BY <2>4, <4>1 DEF Place
      <4>3. QED
        BY <4>2 DEF EndOf
    <3>2. QED
      BY <2>2, <3>1
  <2>6. Ahead' = <<>> /\ Current' = 1
    <3>1. Ahead' = Ahead
      BY <2>1 DEF Ahead, Rest
    <3>2. QED
      BY <2>1, <2>2, <2>5, <3>1 DEF Current
  <2>7. Answers' = got'
    <3>1. got' \in Seq(Answer) /\ defer' = <<>> /\ dropped' = <<>>
      BY <2>1, <2>2 DEF Answer
    <3>2. got' \o <<>> = got'
      BY ONLY <3>1, ConcatEmptySeq
    <3>3. QED
      BY <3>1, <3>2 DEF Answers
  <2>8. OneEach(got', 1)
    BY <2>1 DEF OneEach
  <2>9. QED
    BY <2>1, <2>6, <2>7, <2>8 DEF AnswersInv
<1>5. ASSUME NEW u \in Commands, Send(u) PROVE AnswersInv'
  <2>1. UNCHANGED <<conn, pc, failed, got, defer, dropped>> /\ conn = "open"
    BY <1>5 DEF Send, parserVars, answerVars
  <2>2. SUFFICES ASSUME WithinRate' PROVE OneEach(Answers', Current')
    BY <2>1 DEF AnswersInv
  <2>3. WithinRate
    <3>1. /\ sent \in Seq(Commands) /\ sent' = Append(sent, u) /\ Len(sent) \in Nat
      BY <1>1, <1>5, LenProperties DEF TypeOK, Send
    <3>2. /\ Len(sent') = Len(sent) + 1 /\ sent' \in Seq(Commands)
          /\ \A i \in 1 .. Len(sent) : sent'[i] = sent[i]
      BY <3>1, AppendProperties
    <3>3. DOMAIN sent = 1 .. Len(sent) /\ DOMAIN sent' = 1 .. Len(sent) + 1
      BY <3>1, <3>2, LenProperties
    <3>4. QED
      BY <2>2, <3>1, <3>2, <3>3 DEF WithinRate
  <2>4. ~failed /\ Place
    BY <1>1, <2>1, <2>3 DEF PlaceInv, Ended
  <2>5. Current' = Current
    BY <1>1, <1>5, <2>4, SentAhead
  <2>6. Answers' = Answers
    BY <2>1 DEF Answers
  <2>7. QED
    BY <2>1, <2>3, <2>5, <2>6 DEF AnswersInv
<1>6. ASSUME NEW n \in 1 .. Len(wire), Deliver(n) PROVE AnswersInv'
  <2>1. UNCHANGED <<sent, conn, got, defer, dropped>>
    BY <1>6 DEF Deliver, answerVars
  <2>2. Ahead' = Ahead
    BY <1>1, <1>6, DeliveredAhead
  <2>3. Answers' = Answers /\ Current' = Current /\ (WithinRate' <=> WithinRate)
    BY <2>1, <2>2 DEF Answers, Current, WithinRate
  <2>4. QED
    BY <2>1, <2>3 DEF AnswersInv
<1>7. QED
  BY <1>2, <1>3, <1>4, <1>5, <1>6 DEF Next, Client, FirmwareStep, DeliverSome, Quiet

LEMMA CurrentIsNat ==
  ASSUME Inv
  PROVE  Current \in Int
<1>1. sent \in Seq(Commands) /\ Len(sent) \in Nat
  BY LenProperties DEF Inv, TypeOK
<1>2. Ahead # <<>> => Head(Ahead) \in Nat \X Nat
  BY AheadType DEF Inv, Byte
<1>3. QED
  BY <1>1, <1>2 DEF Current

(* Every command the parser is done with has one answer, given to TCP,     *)
(* kept for later or thrown away for want of room; the others have none.   *)
THEOREM EachAnsweredOnce == Spec => []AnsweredOnce
<1>1. Init => AnswersInv
  BY DEF Init, AnswersInv
<1>2. Inv /\ AnswersInv /\ [Next]_vars => AnswersInv'
  BY NextKeepsAnswers
<1>3. Inv /\ AnswersInv => AnsweredOnce
  <2> SUFFICES ASSUME Inv, AnswersInv, conn = "open", WithinRate,
                      NEW id \in 1 .. Len(sent)
               PROVE  Cardinality({k \in DOMAIN Answers : Answers[k].id = id})
                        = IF id < Current THEN 1 ELSE 0
    BY DEF AnsweredOnce
  <2> DEFINE K == {k \in DOMAIN Answers : Answers[k].id = id}
  <2>1. OneEach(Answers, Current)
    BY DEF AnswersInv
  <2>2. DOMAIN Answers = 1 .. Len(Answers)
    <3>1. got \in Seq(Answer) /\ defer \in Seq(Answer) /\ dropped \in Seq(Answer)
      BY DEF Inv, TypeOK
    <3>2. Answers \in Seq(Answer)
      BY <3>1, ThreeParts DEF Answers
    <3>3. QED
      BY <3>2, LenProperties
  <2>3. CASE id < Current
    <3>1. id \in 1 .. Current - 1
      <4>1. Current \in Int
        BY CurrentIsNat
      <4>2. QED
        BY <2>3, <4>1
    <3>2. PICK k \in 1 .. Len(Answers) : Answers[k].id = id
      BY <2>1, <3>1 DEF OneEach
    <3>3. K = {k}
      BY <2>1, <2>2, <3>2 DEF OneEach
    <3>4. QED
      BY <2>3, <3>3, FS_Singleton
  <2>4. CASE ~(id < Current)
    <3>1. ~(id \in 0 .. Current - 1)
      <4>1. Current \in Int
        BY CurrentIsNat
      <4>2. QED
        BY <2>4, <4>1
    <3>2. K = {}
      BY <2>1, <2>2, <3>1 DEF OneEach
    <3>3. QED
      BY <2>4, <3>2, FS_EmptySet
  <2>5. QED
    BY <2>3, <2>4
<1>4. QED
  BY <1>1, <1>2, <1>3, Invariance, PTL DEF Spec

-----------------------------------------------------------------------------
(* After the connection is closed no callback runs: the interrupt alone    *)
(* still takes points, and stops when there are none.                      *)
THEOREM NothingAfterClose == Spec => ClosedIsFinal
<1> DEFINE Final == conn = "closed" /\ NoVersionAsk =>
                        /\ UNCHANGED <<le, st, pointsleft>>
                        /\ dac' # dac => dac = "PLAYING" /\ ring = <<>>
<1>1. Inv /\ [Next]_vars => Final
  <2> SUFFICES ASSUME Inv, [Next]_vars, conn = "closed", NoVersionAsk PROVE Final
    BY DEF Final
  <2>1. pc = "idle"
    BY DEF Inv, PlaceInv
  <2>2. ~Callback /\ ~Accept
    BY <2>1 DEF Callback, RecvShort, RecvMain, RecvPrepare, RecvOverRate, RecvBegin,
         RecvUpdate, RecvQueue, RecvData, RecvStop, RecvEstop, RecvClear, RecvPing,
         RecvVersion, RecvUnknown, Command, Parsing, DataRequest, DataAdvance,
         DataSkip, Flush, Accept
  <2>3. CASE Client \/ DeliverSome \/ TcpAcked \/ UNCHANGED vars
    BY <2>3 DEF Client, Send, ClientClose, DeliverSome, Deliver, TcpAcked, vars,
                parserVars, playVars
  <2>4. CASE Play
    BY <2>4 DEF Play, parserVars
  <2>5. QED
    BY <2>2, <2>3, <2>4 DEF Next, FirmwareStep, Quiet
<1>2. QED
  BY <1>1, Invariance, PTL DEF Spec, ClosedIsFinal
=============================================================================
