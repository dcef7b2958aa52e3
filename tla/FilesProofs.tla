---------------------------- MODULE FilesProofs ----------------------------
(***************************************************************************)
(* Theorems about Files.tla, for every directory, every set of names,      *)
(* every size of a block and every length read: what open finds, what it   *)
(* leaves behind, and what reads copy.                                     *)
(*                                                                         *)
(* The core is ReadData: whatever the offset and the length, and however   *)
(* they lie to the blocks, read_data copies one stretch of the file from   *)
(* the offset on, no longer than asked, to the end of one or the other.    *)
(* The blocks are joined by a fold, so that it takes induction over them;  *)
(* Induction gives that from the least element of a set of numbers.        *)
(***************************************************************************)
EXTENDS Files, WellFoundedInduction, SequenceTheorems, TLAPS

(* The descriptors: one that is open has an entry and its type, the entry  *)
(* has the name it was opened by, and a free one starts at zero.           *)
IInv ==
  /\ flags \subseteq Fds
  /\ entry \in [Fds -> {0} \cup Indices]
  /\ DOMAIN fops_table = Fds /\ DOMAIN file_position = Fds /\ DOMAIN named = Fds
  /\ DescriptorsMatch
  /\ OpensNamed

-----------------------------------------------------------------------------
LEMMA MinOfTwo ==
  ASSUME NEW a \in Int, NEW b \in Int PROVE Min({a, b}) = IF a <= b THEN a ELSE b
BY DEF Min

LEMMA MinFound ==
  ASSUME NEW S \in SUBSET Nat, S # {} PROVE Min(S) \in S /\ \A x \in S : Min(S) <= x
<1>1. PICK m \in S : \A j \in S : <<j, m>> \notin OpToRel(<, Nat)
  BY NatLessThanWellFounded, WFMin
<1>2. \A j, k \in Nat : j < k => <<j, k>> \in OpToRel(<, Nat)
  BY Zenon DEF OpToRel
<1>3. \A j \in S : ~(j < m)
  BY <1>1, <1>2
<1>4. \A j \in S : m <= j
  BY <1>3
<1> QED
  BY <1>4 DEF Min

(***************************************************************************)
(* Induction over the naturals as a fact about sets, by a least element.   *)
(***************************************************************************)
LEMMA Induction ==
  ASSUME NEW S, 0 \in S, \A n \in Nat : n \in S => n + 1 \in S PROVE Nat \subseteq S
<1> SUFFICES ASSUME Nat \ S # {} PROVE FALSE
  OBVIOUS
<1>1. PICK m \in Nat \ S : \A j \in Nat \ S : <<j, m>> \notin OpToRel(<, Nat)
  BY NatLessThanWellFounded, WFMin
<1>2. \A j, k \in Nat : j < k => <<j, k>> \in OpToRel(<, Nat)
  BY Zenon DEF OpToRel
<1>3. m # 0
  OBVIOUS
<1>4. m - 1 \in Nat /\ m - 1 < m /\ (m - 1) + 1 = m
  BY <1>3
<1>5. m - 1 \in S
  BY <1>1, <1>2, <1>4
<1> QED
  BY <1>4, <1>5

(* The bytes of a file from place a up to b.                               *)
Bytes(a, b) == [k \in 1 .. b - a |-> a + k - 1]

LEMMA BytesProperties ==
  ASSUME NEW a \in Nat, NEW b \in Nat, a <= b
  PROVE  /\ Bytes(a, b) \in Seq(Nat) /\ Len(Bytes(a, b)) = b - a
         /\ \A k \in 1 .. b - a : Bytes(a, b)[k] = a + k - 1
BY DEF Bytes

LEMMA BytesJoin ==
  ASSUME NEW a \in Nat, NEW b \in Nat, NEW c \in Nat, a <= b, b <= c
  PROVE  Bytes(a, b) \o Bytes(b, c) = Bytes(a, c)
<1>0. a <= c
  OBVIOUS
<1>1. /\ Bytes(a, b) \in Seq(Nat) /\ Len(Bytes(a, b)) = b - a
      /\ \A k \in 1 .. b - a : Bytes(a, b)[k] = a + k - 1
  BY BytesProperties
<1>2. /\ Bytes(b, c) \in Seq(Nat) /\ Len(Bytes(b, c)) = c - b
      /\ \A k \in 1 .. c - b : Bytes(b, c)[k] = b + k - 1
  BY BytesProperties
<1>3. /\ Bytes(a, c) \in Seq(Nat) /\ Len(Bytes(a, c)) = c - a
      /\ \A k \in 1 .. c - a : Bytes(a, c)[k] = a + k - 1
  BY <1>0, BytesProperties
<1>4. /\ Bytes(a, b) \o Bytes(b, c) \in Seq(Nat)
      /\ Len(Bytes(a, b) \o Bytes(b, c)) = Len(Bytes(a, b)) + Len(Bytes(b, c))
      /\ \A k \in 1 .. Len(Bytes(a, b)) + Len(Bytes(b, c)) : (Bytes(a, b) \o Bytes(b, c))[k] =
            IF k <= Len(Bytes(a, b)) THEN Bytes(a, b)[k] ELSE Bytes(b, c)[k - Len(Bytes(a, b))]
  BY <1>1, <1>2, ConcatProperties
<1>5. Len(Bytes(a, b) \o Bytes(b, c)) = Len(Bytes(a, c))
  BY <1>1, <1>2, <1>3, <1>4
<1>6. ASSUME NEW k \in 1 .. c - a
      PROVE  (Bytes(a, b) \o Bytes(b, c))[k] = Bytes(a, c)[k]
  <2>1. k \in 1 .. Len(Bytes(a, b)) + Len(Bytes(b, c))
    BY <1>1, <1>2
  <2>2. CASE k <= b - a
    BY <1>1, <1>3, <1>4, <2>1, <2>2
  <2>3. CASE ~(k <= b - a)
    <3>1. k - (b - a) \in 1 .. c - b
      BY <2>3
    <3>2. (Bytes(a, b) \o Bytes(b, c))[k] = Bytes(b, c)[k - (b - a)]
      BY <1>1, <1>4, <2>1, <2>3
    <3>3. Bytes(b, c)[k - (b - a)] = b + (k - (b - a)) - 1
      BY <1>2, <3>1
    <3>4. Bytes(a, c)[k] = a + k - 1
      BY <1>3
    <3> QED
      BY <3>2, <3>3, <3>4
  <2> QED
    BY <2>2, <2>3
<1> QED
  BY <1>3, <1>4, <1>5, <1>6, SeqEqual

(***************************************************************************)
(* FlattenSeq is the last value of the one function that satisfies its     *)
(* recursion.                                                              *)
(***************************************************************************)
LEMMA Flattened ==
  \A n \in Nat \ {0} : \A s, F :
    Len(s) = n /\ F = [i \in 1 .. n |-> IF i = 1 THEN s[i] ELSE F[i - 1] \o s[i]] => FlattenSeq(s) = F[n]
<1> TAKE n \in Nat \ {0}
<1> TAKE s, F
<1> HAVE Len(s) = n /\ F = [i \in 1 .. n |-> IF i = 1 THEN s[i] ELSE F[i - 1] \o s[i]]
<1> DEFINE Solves(f) == f = [i \in 1 .. n |-> IF i = 1 THEN s[i] ELSE f[i - 1] \o s[i]]
           G == CHOOSE f : Solves(f)
           S == {k \in Nat : k + 1 \in 1 .. n => G[k + 1] = F[k + 1]}
<1>1. FlattenSeq(s) = G[n]
  BY DEF FlattenSeq
<1>2. Solves(G)
  <2>1. Solves(F)
    OBVIOUS
  <2> QED
    BY <2>1
<1> HIDE DEF G
<1>3. 0 \in S
  BY <1>2
<1>4. ASSUME NEW k \in Nat, k \in S PROVE k + 1 \in S
  <2> SUFFICES ASSUME k + 2 \in 1 .. n PROVE G[k + 2] = F[k + 2]
    OBVIOUS
  <2>1. k + 1 \in 1 .. n /\ G[k + 1] = F[k + 1]
    BY <1>4
  <2>2. k + 2 # 1 /\ (k + 2) - 1 = k + 1
    OBVIOUS
  <2>3. G[k + 2] = G[k + 1] \o s[k + 2]
    BY <1>2, <2>2
  <2>4. F[k + 2] = F[k + 1] \o s[k + 2]
    BY <2>2
  <2> QED
    BY <2>1, <2>3, <2>4
<1>5. Nat \subseteq S
  BY <1>3, <1>4, Induction
<1> HIDE DEF S
<1>6. n - 1 \in Nat /\ (n - 1) + 1 = n /\ n \in 1 .. n
  OBVIOUS
<1>7. n - 1 \in S
  BY <1>5, <1>6
<1> QED
  BY <1>1, <1>6, <1>7 DEF S

-----------------------------------------------------------------------------
(* Division by the size of a block.                                        *)
LEMMA Division ==
  ASSUME NEW x \in Nat, NEW b \in Nat \ {0}
  PROVE  /\ x \div b \in Nat /\ x % b \in Nat /\ x % b < b
         /\ x = (x \div b) * b + (x % b)
OBVIOUS

LEMMA Blocks ==
  ASSUME NEW b \in Nat \ {0}, NEW i \in Int, NEW j \in Int
  PROVE  i < j => i * b + b <= j * b
<1> SUFFICES ASSUME i < j PROVE i * b + b <= j * b
  OBVIOUS
<1>1. j - i >= 1 /\ j - i \in Int
  OBVIOUS
<1>2. (j - i - 1) * b >= 0
  BY <1>1
<1>3. (j - i - 1) * b = j * b - i * b - b
  OBVIOUS
<1> QED
  BY <1>2, <1>3

LEMMA Remainder ==
  ASSUME NEW b \in Nat \ {0}, NEW x \in Nat, NEW q \in Nat, q * b <= x, x < q * b + b
  PROVE  x % b = x - q * b
<1>1. /\ x \div b \in Nat /\ x % b \in Nat /\ x % b < b
      /\ x = (x \div b) * b + (x % b)
  BY Division
<1>2. ~(x \div b < q)
  <2>1. x \div b < q => (x \div b) * b + b <= q * b
    BY <1>1, Blocks
  <2> QED
    BY <1>1, <2>1
<1>3. ~(q < x \div b)
  <2>1. q < x \div b => q * b + b <= (x \div b) * b
    BY <1>1, Blocks
  <2> QED
    BY <1>1, <2>1
<1>4. q = x \div b
  BY <1>1, <1>2, <1>3
<1> QED
  BY <1>1, <1>4

(***************************************************************************)
(* What read_data copies is one stretch of the file that begins at the     *)
(* offset, is no longer than was asked for and, if it is shorter, reaches  *)
(* the end of the file.  Block k of it goes from Begin(k) to End(k).       *)
(***************************************************************************)
LEMMA ReadData ==
  ASSUME FilesAssumption, NEW size \in Nat, NEW offset \in Nat, NEW length \in Nat
  PROVE  \E e \in Nat :
           /\ read_data(size, offset, length) = Bytes(offset, e)
           /\ offset <= e /\ e <= offset + length
           /\ e = offset + length \/ e >= size
<1>0. Block \in Nat \ {0}
  BY DEF FilesAssumption
<1>1. CASE offset >= size
  <2>1. read_data(size, offset, length) = <<>> /\ Bytes(offset, offset) = <<>>
    BY <1>1 DEF read_data, Bytes
  <2> QED
    BY <1>1, <2>1
<1>2. CASE offset < size
  <2> DEFINE first == offset \div Block
             final == (offset + length) \div Block
             end == offset + CutLength(size, offset, length)
             whole == final * Block > size
             n == final - first + (IF whole THEN 0 ELSE 1)
             e == IF whole THEN final * Block ELSE end
             Begin(k) == IF k = 1 THEN offset ELSE (first + k - 1) * Block
             End(k) == IF k = n THEN e ELSE (first + k) * Block
             F == [k \in 1 .. n |-> Bytes(offset, End(k))]
             s == [k \in 1 .. n |-> Bytes(Begin(k), End(k))]
  <2>1. /\ first \in Nat /\ final \in Nat
        /\ first * Block <= offset /\ offset < first * Block + Block
        /\ offset = first * Block + (offset % Block) /\ offset % Block \in Nat
        /\ final * Block <= offset + length /\ offset + length < final * Block + Block
    BY <1>0, Division
  <2>2. /\ end \in Nat /\ end <= offset + length /\ offset <= end /\ end <= size
        /\ end = offset + length \/ end = size
    BY <1>2 DEF CutLength
  <2> HIDE DEF end
  <2>3. first <= final
    <3> SUFFICES ASSUME final < first PROVE FALSE
      BY <2>1
    <3>1. final * Block + Block <= first * Block
      BY <1>0, <2>1, Blocks
    <3> QED
      BY <1>0, <2>1, <3>1
  <2>4. n \in Nat \ {0} /\ n \in 1 .. n
    BY <1>0, <1>2, <2>1, <2>3
  <2>5. e \in Nat /\ e <= offset + length /\ (e = offset + length \/ e >= size)
    BY <1>0, <2>1, <2>2
  <2> HIDE DEF first, final
  <2>6. ~whole => n = final - first + 1 /\ final * Block <= end /\ e = end /\ end - final * Block < Block
    BY <1>0, <1>2, <2>1, <2>2
  <2>7. ASSUME whole PROVE n = final - first /\ e = final * Block /\ final * Block > size
    <3>1. (IF whole THEN 0 ELSE 1) = 0 /\ e = final * Block
      BY <2>7
    <3> QED
      BY <2>1, <2>7, <3>1
  <2> HIDE DEF whole, e, n
  <2>8. ASSUME NEW k \in 1 .. n
        PROVE  /\ Begin(k) \in Nat /\ End(k) \in Nat
               /\ offset <= Begin(k) /\ Begin(k) <= End(k)
               /\ k # 1 => k - 1 \in 1 .. n /\ End(k - 1) = Begin(k)
    <3>1. (first + k - 1) * Block \in Nat /\ (first + k) * Block \in Nat
          /\ (first + k) * Block = (first + k - 1) * Block + Block
      BY <1>0, <2>1
    <3>2. k # 1 => first * Block + Block <= (first + k - 1) * Block
      BY <1>0, <2>1, Blocks
    <3>3. Begin(k) \in Nat /\ offset <= Begin(k)
      BY <2>1, <3>1, <3>2, <1>0
    <3>4. End(k) \in Nat
      BY <2>5, <3>1
    <3>5. ASSUME k = n PROVE Begin(k) <= End(k)
      <4>1. CASE k = 1
        BY <3>5, <4>1, <2>2, <2>6, <2>7, <1>2, <1>0, <2>1
      <4>2. CASE k # 1
        <5>1. whole => first + k - 1 = final - 1 /\ first + k = final
          BY <3>5, <2>7, <2>1, <2>4
        <5>2. ~whole => first + k - 1 = final
          BY <3>5, <2>6, <2>1, <2>4
        <5>3. CASE whole
          <6>1. Begin(k) = (first + k - 1) * Block /\ End(k) = (first + k) * Block
            BY <4>2, <5>1, <5>3, <3>5, <2>7
          <6> QED
            BY <6>1, <3>1, <1>0
        <5>4. CASE ~whole
          <6>1. Begin(k) = final * Block /\ End(k) = end
            BY <4>2, <5>2, <5>4, <3>5, <2>6
          <6> QED
            BY <6>1, <2>6, <5>4
        <5> QED
          BY <5>3, <5>4
      <4> QED
        BY <4>1, <4>2
    <3>6. ASSUME k # n PROVE Begin(k) <= End(k)
      <4>1. End(k) = (first + k) * Block
        BY <3>6
      <4>2. CASE k = 1
        BY <4>1, <4>2, <2>1, <1>0
      <4>3. CASE k # 1
        BY <4>1, <4>3, <3>1, <1>0
      <4> QED
        BY <4>2, <4>3
    <3>7. ASSUME k # 1 PROVE k - 1 \in 1 .. n /\ End(k - 1) = Begin(k)
      <4>1. k - 1 \in 1 .. n /\ k - 1 # n /\ first + (k - 1) = first + k - 1
        BY <2>1, <2>4, <3>7
      <4> QED
        BY <3>7, <4>1
    <3> QED
      BY <3>3, <3>4, <3>5, <3>6, <3>7
  <2>9. ASSUME NEW k \in 1 .. n
        PROVE  F[k] = IF k = 1 THEN s[k] ELSE F[k - 1] \o s[k]
    <3>1. CASE k = 1
      <4>1. Begin(k) = offset
        BY <3>1
      <4> QED
        BY <3>1, <4>1
    <3>2. CASE k # 1
      <4> HIDE DEF Begin, End
      <4>1. k - 1 \in 1 .. n /\ End(k - 1) = Begin(k)
        BY <2>8, <3>2
      <4>2. F[k] = Bytes(offset, End(k)) /\ F[k - 1] = Bytes(offset, Begin(k))
            /\ s[k] = Bytes(Begin(k), End(k))
        BY <4>1
      <4>3. Bytes(offset, Begin(k)) \o Bytes(Begin(k), End(k)) = Bytes(offset, End(k))
        BY <2>8, BytesJoin
      <4> QED
        BY <3>2, <4>2, <4>3
    <3> QED
      BY <3>1, <3>2
  <2>10. F = [k \in 1 .. n |-> IF k = 1 THEN s[k] ELSE F[k - 1] \o s[k]]
    <3> HIDE DEF s, Begin, End
    <3> QED
      BY <2>9
  <2>11. Len(s) = n
    BY <2>4
  <2>12. FlattenSeq(s) = F[n]
    <3> HIDE DEF s, F, n
    <3>1. n \in Nat \ {0}
      BY <2>4
    <3> QED
      BY <2>10, <2>11, <3>1, Flattened, Zenon
  <2>13. F[n] = Bytes(offset, e)
    BY <2>4
  <2>14. read_data(size, offset, length) = FlattenSeq(s)
    <3> DEFINE Piece(i) ==
                 LET start == StartOffset(i, offset)
                 IN [b \in 1 .. EndOffset(i, final, end) - start |-> i * Block + start + b - 1]
               list == BlocksRead(first, final, size)
    <3>1. read_data(size, offset, length) = FlattenSeq([k \in DOMAIN list |-> Piece(list[k])])
      BY <1>2 DEF read_data, first, final, end
    <3>2. DOMAIN list = 1 .. n /\ \A k \in 1 .. n : list[k] = first + k - 1
      BY DEF BlocksRead, n, whole
    <3>3. ASSUME NEW k \in 1 .. n PROVE Piece(first + k - 1) = Bytes(Begin(k), End(k))
      <4> DEFINE i == first + k - 1
      <4>1. i \in Nat /\ i * Block \in Nat /\ (first + k) * Block = i * Block + Block
        BY <1>0, <2>1
      <4>2. i * Block + StartOffset(i, offset) = Begin(k)
        <5>1. CASE k = 1
          BY <5>1, <2>1 DEF StartOffset, first
        <5>2. CASE k # 1
          <6>1. i # first
            BY <5>2, <2>1
          <6> QED
            BY <5>2, <6>1, <4>1 DEF StartOffset, first
        <5> QED
          BY <5>1, <5>2
      <4>3. i = final <=> k = n /\ ~whole
        BY <2>1, <2>4, <2>6, <2>7
      <4>4. i * Block + EndOffset(i, final, end) = End(k)
        <5>1. CASE i = final
          <6>0. final * Block <= end /\ end < final * Block + Block
            BY <1>0, <2>1, <2>2, <2>6, <4>3, <5>1
          <6>1. end % Block = end - final * Block
            BY <1>0, <2>1, <2>2, <6>0, Remainder
          <6>2. EndOffset(i, final, end) = end - final * Block
            BY <5>1, <6>1 DEF EndOffset
          <6>3. End(k) = end
            BY <2>6, <4>3, <5>1
          <6> QED
            BY <6>2, <6>3, <5>1, <4>1, <2>2
        <5>2. CASE i # final
          <6>1. EndOffset(i, final, end) = Block
            BY <5>2 DEF EndOffset
          <6>2. End(k) = (first + k) * Block
            <7>1. CASE k = n
              <8>1. whole /\ first + k = final
                BY <7>1, <5>2, <4>3, <2>7, <2>1, <2>4
              <8> QED
                BY <7>1, <8>1, <2>7
            <7> QED
              BY <7>1
          <6> QED
            BY <6>1, <6>2, <4>1
        <5> QED
          BY <5>1, <5>2
      <4>5. /\ Piece(i) = [b \in 1 .. EndOffset(i, final, end) - StartOffset(i, offset) |->
                             i * Block + StartOffset(i, offset) + b - 1]
            /\ StartOffset(i, offset) \in Int /\ EndOffset(i, final, end) \in Int
        BY <1>0, <2>1, <2>2, Division DEF StartOffset, EndOffset
      <4> HIDE DEF i, Begin, End, Piece
      <4>6. EndOffset(i, final, end) - StartOffset(i, offset) = End(k) - Begin(k)
        BY <4>1, <4>2, <4>4, <4>5
      <4>7. Piece(i) = [b \in 1 .. End(k) - Begin(k) |-> Begin(k) + b - 1]
        BY <4>2, <4>5, <4>6
      <4> QED
        BY <4>7 DEF Bytes, i
    <3>4. [k \in DOMAIN list |-> Piece(list[k])] = s
      <4> HIDE DEF list, Piece, Begin, End
      <4> QED
        BY <3>2, <3>3
    <3> QED
      BY <3>1, <3>4
  <2> QED
    <3> HIDE DEF F, s
    <3> QED
      BY <2>2, <2>5, <2>6, <2>7, <2>12, <2>13, <2>14
<1> QED
  BY <1>1, <1>2

(* Agreement up to the NUL that ends the shorter one is equality.          *)
LEMMA SameToTheEnd ==
  ASSUME NEW S, NEW T, NEW s \in Seq(S), NEW t \in Seq(T),
         \A k \in 1 .. Len(s) : s[k] # EndMark, \A k \in 1 .. Len(t) : t[k] # EndMark,
         \A k \in 1 .. Len(s) + 1 : At(s, k) = At(t, k)
  PROVE  s = t
<1>1. Len(s) \in Nat /\ Len(t) \in Nat
  OBVIOUS
<1>2. ~(Len(t) < Len(s))
  <2> SUFFICES ASSUME Len(t) < Len(s) PROVE FALSE
    OBVIOUS
  <2>1. Len(t) + 1 \in 1 .. Len(s) /\ Len(t) + 1 \in 1 .. Len(s) + 1 /\ ~(Len(t) + 1 <= Len(t))
    BY <1>1
  <2>2. At(s, Len(t) + 1) = s[Len(t) + 1] /\ At(t, Len(t) + 1) = EndMark
    BY <2>1 DEF At
  <2> QED
    BY <2>1, <2>2
<1>3. ~(Len(s) < Len(t))
  <2> SUFFICES ASSUME Len(s) < Len(t) PROVE FALSE
    OBVIOUS
  <2>1. Len(s) + 1 \in 1 .. Len(t) /\ Len(s) + 1 \in 1 .. Len(s) + 1 /\ ~(Len(s) + 1 <= Len(s))
    BY <1>1
  <2>2. At(t, Len(s) + 1) = t[Len(s) + 1] /\ At(s, Len(s) + 1) = EndMark
    BY <2>1 DEF At
  <2> QED
    BY <2>1, <2>2
<1>4. Len(s) = Len(t)
  BY <1>1, <1>2, <1>3
<1>5. \A k \in 1 .. Len(s) : s[k] = t[k]
  <2> SUFFICES ASSUME NEW k \in 1 .. Len(s) PROVE s[k] = t[k]
    OBVIOUS
  <2>1. k \in 1 .. Len(s) + 1 /\ k <= Len(s) /\ k <= Len(t)
    BY <1>1, <1>4
  <2> QED
    BY <2>1 DEF At
<1> QED
  BY <1>4, <1>5

(* What open can be given: a string, without the NUL that ends it.         *)
IsName(name) == (\E S : name \in Seq(S)) /\ \A k \in 1 .. Len(name) : name[k] # EndMark

LEMMA NamesAreNames ==
  ASSUME FilesAssumption
  PROVE  /\ \A name \in Names : IsName(name)
         /\ \A i \in Indices : IsName(Directory[i].name)
BY DEF FilesAssumption, Names, IsName

(* strncmp as read_dentry_by_name calls it finds names equal only when     *)
(* they are: the length it compares takes in the NUL, or the whole room of *)
(* a name.                                                                 *)
LEMMA ComparesWholeNames ==
  ASSUME FilesAssumption, NEW fname, IsName(fname), Len(fname) <= MAX_FILENAME, NEW i \in Indices,
         SameUpTo(fname, Directory[i].name, CompareLength(Len(fname), i))
  PROVE  Directory[i].name = fname
<1> DEFINE s == fname
           t == Directory[i].name
           n == Len(fname)
<1>0. PICK S : s \in Seq(S)
  BY DEF IsName
<1>1. t \in Seq(STRING) /\ n \in Nat /\ MAX_FILENAME \in Nat /\ i \in Nat /\ i >= 1
  BY <1>0 DEF FilesAssumption, Indices, Names
<1>2. (\A k \in 1 .. Len(s) : s[k] # EndMark) /\ (\A k \in 1 .. Len(t) : t[k] # EndMark)
  BY NamesAreNames DEF IsName
<1>3. Len(t) \in Nat /\ Len(t) <= MAX_FILENAME
  BY <1>1 DEF FilesAssumption
<1> HIDE DEF t
<1>4. CASE n < MAX_FILENAME
  <2>1. CompareLength(n, i) >= n + 1 /\ CompareLength(n, i) \in Int
    BY <1>1, <1>4, MinOfTwo DEF CompareLength
  <2>2. Min({CompareLength(n, i), n + 1}) = n + 1
    BY <1>1, <2>1, MinOfTwo
  <2>3. \A k \in 1 .. n + 1 : At(s, k) = At(t, k)
    BY <2>2 DEF SameUpTo, t
  <2> QED
    BY <1>0, <1>1, <1>2, <2>3, SameToTheEnd DEF t
<1>5. CASE n = MAX_FILENAME
  <2>1. CompareLength(n, i) = n
    BY <1>1, <1>5, MinOfTwo DEF CompareLength
  <2>2. Min({CompareLength(n, i), n + 1}) = n
    BY <1>1, <2>1, MinOfTwo
  <2>3. \A k \in 1 .. n : At(s, k) = At(t, k)
    BY <2>2 DEF SameUpTo, t
  <2>4. Len(t) = n
    <3> SUFFICES ASSUME Len(t) < n PROVE FALSE
      BY <1>1, <1>3, <1>5
    <3>1. Len(t) + 1 \in 1 .. n /\ Len(t) + 1 <= n /\ ~(Len(t) + 1 <= Len(t))
      BY <1>1, <1>3
    <3>2. At(t, Len(t) + 1) = EndMark /\ At(s, Len(t) + 1) = s[Len(t) + 1]
      BY <3>1 DEF At
    <3> QED
      BY <1>2, <2>3, <3>1, <3>2
  <2>5. At(s, n + 1) = EndMark /\ At(t, n + 1) = EndMark
    BY <1>1, <2>4 DEF At
  <2>6. \A k \in 1 .. n + 1 : k \in 1 .. n \/ k = n + 1
    BY <1>1
  <2>7. \A k \in 1 .. Len(s) + 1 : At(s, k) = At(t, k)
    BY <2>3, <2>5, <2>6
  <2> QED
    BY <1>0, <1>1, <1>2, <2>7, SameToTheEnd DEF t
<1> QED
  BY <1>1, <1>4, <1>5

(* What open looks up is the entry with exactly that name.                 *)
LEMMA DentryFound ==
  ASSUME FilesAssumption, NEW fname, IsName(fname), read_dentry_by_name(fname) # 0
  PROVE  /\ read_dentry_by_name(fname) \in Indices
         /\ Directory[read_dentry_by_name(fname)].name = fname
<1> DEFINE Matching == {i \in Indices : SameUpTo(fname, Directory[i].name, CompareLength(Len(fname), i))}
<1>1. Len(fname) \in Nat /\ MAX_FILENAME \in Nat
  BY DEF FilesAssumption, IsName
<1>2. ~(Len(fname) > MAX_FILENAME) /\ Matching # {} /\ read_dentry_by_name(fname) = Min(Matching)
  BY DEF read_dentry_by_name
<1>3. Matching \in SUBSET Nat
  BY DEF Indices
<1>4. Min(Matching) \in Matching
  BY <1>2, <1>3, MinFound
<1> QED
  BY <1>1, <1>2, <1>4, ComparesWholeNames

(* and when there is one it is found. *)
LEMMA NamedFound ==
  ASSUME FilesAssumption, NEW i \in Indices PROVE read_dentry_by_name(Directory[i].name) = i
<1> DEFINE s == Directory[i].name
           Matching == {j \in Indices : SameUpTo(s, Directory[j].name, CompareLength(Len(s), j))}
<1>1. IsName(s) /\ Len(s) <= MAX_FILENAME /\ Len(s) \in Nat /\ MAX_FILENAME \in Nat
  BY NamesAreNames DEF FilesAssumption, IsName
<1>2. i \in Matching
  BY DEF SameUpTo
<1>3. \A j \in Matching : Directory[j].name = s
  BY <1>1, ComparesWholeNames
<1>4. Matching = {i}
  BY <1>2, <1>3 DEF FilesAssumption
<1>5. read_dentry_by_name(s) = Min(Matching)
  BY <1>1, <1>2 DEF read_dentry_by_name
<1>6. Matching \in SUBSET Nat
  BY DEF Indices
<1>7. Min(Matching) \in Matching
  BY <1>2, <1>6, MinFound
<1> QED
  BY <1>4, <1>5, <1>7

LEMMA LowestFreeFound ==
  ASSUME FilesAssumption, flags \subseteq Fds, flags # Fds PROVE LowestFree \in Fds \ flags
<1>1. LAST_FD \in Nat
  BY DEF FilesAssumption
<1>2. Fds \ flags \in SUBSET Nat
  BY <1>1 DEF Fds
<1>3. Fds \ flags # {}
  OBVIOUS
<1> QED
  BY <1>2, <1>3, MinFound DEF LowestFree

-----------------------------------------------------------------------------
THEOREM InitInv == Init => IInv
BY DEF Init, IInv, DescriptorsMatch, OpensNamed

LEMMA OpenInv ==
  ASSUME FilesAssumption, IInv, NEW name, IsName(name), Open(name) PROVE IInv'
<1> DEFINE f == LowestFree
           i == read_dentry_by_name(name)
<1>1. /\ i # 0 /\ flags # Fds
      /\ flags' = flags \cup {f}
      /\ entry' = [entry EXCEPT ![f] = i]
      /\ fops_table' = [fops_table EXCEPT ![f] = Directory[i].type]
      /\ named' = [named EXCEPT ![f] = name]
      /\ UNCHANGED file_position
  BY DEF Open, SetInode
<1>2. f \in Fds \ flags
  BY <1>1, LowestFreeFound DEF IInv
<1>3. i \in Indices /\ Directory[i].name = name
  BY <1>1, DentryFound
<1> HIDE DEF f, i
<1>4. DescriptorsMatch'
  BY <1>1, <1>2, <1>3 DEF IInv, DescriptorsMatch
<1>5. OpensNamed'
  BY <1>1, <1>2, <1>3 DEF IInv, OpensNamed
<1> QED
  BY <1>1, <1>2, <1>3, <1>4, <1>5 DEF IInv

LEMMA OpenMissingInv ==
  ASSUME FilesAssumption, IInv, NEW name, OpenMissing(name) PROVE IInv'
<1>1. UNCHANGED <<flags, entry, file_position, named>>
  BY DEF OpenMissing
<1>2. DOMAIN fops_table' = Fds /\ \A f \in flags : fops_table'[f] = fops_table[f]
  <2>1. CASE fops_table' = fops_table
    BY <2>1 DEF IInv
  <2>2. CASE flags # Fds /\ fops_table' = [fops_table EXCEPT ![LowestFree] = name[1]]
    <3>1. LowestFree \in Fds \ flags
      BY <2>2, LowestFreeFound DEF IInv
    <3> QED
      BY <2>2, <3>1 DEF IInv
  <2> QED
    BY <2>1, <2>2 DEF OpenMissing
<1> QED
  BY <1>1, <1>2 DEF IInv, DescriptorsMatch, OpensNamed

(* A read moves the position of an open descriptor, and nothing else.      *)
LEMMA ReadKeeps ==
  ASSUME IInv, NEW f \in Fds, NEW n, ReadFile(f, n) \/ ReadClock(f, n) \/ ReadDirectory(f, n)
  PROVE  IInv'
<1>1. f \in flags
  BY DEF ReadFile, ReadClock, ReadDirectory
<1>2. UNCHANGED <<flags, entry, fops_table, named>>
  BY DEF ReadFile, ReadClock, ReadDirectory, Answered, vars
<1>3. DOMAIN file_position' = Fds /\ \A g \in Fds \ {f} : file_position'[g] = file_position[g]
  BY DEF IInv, ReadFile, ReadClock, ReadDirectory, Advance, vars
<1> QED
  BY <1>1, <1>2, <1>3 DEF IInv, DescriptorsMatch, OpensNamed

LEMMA CloseInv ==
  ASSUME IInv, NEW f \in Fds, Close(f) PROVE IInv'
<1>1. /\ flags' = flags \ {f}
      /\ entry' = [entry EXCEPT ![f] = IF fops_table[f] = "rtc" THEN @ ELSE 0]
      /\ file_position' = [file_position EXCEPT ![f] = 0]
      /\ UNCHANGED <<fops_table, named>>
  BY DEF Close, ClearInode, ResetPosition
<1>2. DescriptorsMatch' /\ OpensNamed'
  BY <1>1 DEF IInv, DescriptorsMatch, OpensNamed
<1> QED
  BY <1>1, <1>2 DEF IInv

THEOREM NextInv ==
  ASSUME FilesAssumption, IInv, [Next]_vars PROVE IInv'
<1>1. CASE UNCHANGED vars
  BY <1>1 DEF vars, IInv, DescriptorsMatch, OpensNamed
<1>2. CASE Next
  BY <1>2, NamesAreNames, OpenInv, OpenMissingInv, ReadKeeps, CloseInv DEF Next
<1> QED
  BY <1>1, <1>2

THEOREM SpecInv == ASSUME FilesAssumption PROVE Spec => []IInv
<1>1. IInv /\ [Next]_vars => IInv'
  BY NextInv
<1> QED
  BY InitInv, <1>1, PTL DEF Spec

-----------------------------------------------------------------------------
(***************************************************************************)
(* What was read.  Through an open file came its bytes up to the position, *)
(* through a directory the names of the entries before it; the last answer *)
(* was as long as it could be.                                             *)
(***************************************************************************)
Seen ==
  \A f \in Fds :
    /\ f \notin flags => seen[f] = <<>>
    /\ f \in flags /\ fops_table[f] = "file" => seen[f] = Bytes(0, file_position[f])
    /\ f \in flags /\ fops_table[f] = "directory" =>
         /\ file_position[f] <= Len(Directory)
         /\ seen[f] \in Seq(Seq(STRING)) /\ Len(seen[f]) = file_position[f]
         /\ \A i \in 1 .. Len(seen[f]) : IsPrefix(seen[f][i], Directory[i].name)

LastAnswer ==
  last.fd \in flags =>
    IF fops_table[last.fd] = "directory"
    THEN /\ last.got = <<>> \/ Len(last.got[1]) <= last.asked
         /\ last.asked > 0 =>
              IF last.got = <<>> THEN file_position[last.fd] = Len(Directory)
              ELSE Len(last.got[1]) = Min({last.asked, Len(Directory[file_position[last.fd]].name)})
    ELSE /\ Len(last.got) <= last.asked
         /\ fops_table[last.fd] = "file" =>
              Len(last.got) = last.asked \/ file_position[last.fd] >= Size(last.fd)

ReadInv ==
  /\ IInv
  /\ TypeOK
  /\ Seen
  /\ LastAnswer

LEMMA FdsFacts == ASSUME FilesAssumption PROVE Fds \subseteq Nat /\ 0 \notin Fds
BY DEF FilesAssumption, Fds

(* directory_read answers the next name, cut to the length asked for.      *)
LEMMA DirectoryRead ==
  ASSUME FilesAssumption, NEW offset \in Nat, NEW length \in Nat
  PROVE  IF offset < Len(Directory)
         THEN LET name == Directory[offset + 1].name
                  answer == directory_read(offset, length)
              IN /\ answer \in Seq(STRING) /\ IsPrefix(answer, name)
                 /\ Len(answer) = Min({length, Len(name)})
                 /\ Len(answer) <= length
                 /\ answer = <<>> <=> length = 0
         ELSE directory_read(offset, length) = <<>>
<1> DEFINE answer == directory_read(offset, length)
<1>1. CASE offset < Len(Directory)
  <2> DEFINE name == Directory[offset + 1].name
             m == Min({length, MAX_FILENAME, Len(name)})
  <2>1. /\ offset + 1 \in Indices /\ name \in Seq(STRING)
        /\ Len(name) \in 1 .. MAX_FILENAME /\ MAX_FILENAME \in Nat
    <3>1. offset + 1 \in Indices
      BY <1>1 DEF FilesAssumption, Indices
    <3> QED
      BY <3>1 DEF FilesAssumption, Names
  <2>2. answer = SubSeq(name, 1, m)
    BY <1>1 DEF directory_read
  <2> HIDE DEF name, answer
  <2>3. m = (IF length <= Len(name) THEN length ELSE Len(name)) /\ m \in 0 .. Len(name)
    BY <2>1 DEF Min
  <2>4. Min({length, Len(name)}) = m
    BY <2>1, <2>3, MinOfTwo
  <2> HIDE DEF m
  <2>5. answer \in Seq(STRING) /\ Len(answer) = m
    BY <2>1, <2>2, <2>3
  <2>6. SubSeq(answer, 1, Len(answer)) = SubSeq(name, 1, Len(answer))
    BY <2>2, <2>5, SubSeqFull
  <2>7. IsPrefix(answer, name)
    BY <2>3, <2>5, <2>6 DEF IsPrefix
  <2>8. answer = <<>> <=> length = 0
    BY <2>1, <2>3, <2>5, EmptySeq
  <2> QED
    BY <1>1, <2>3, <2>4, <2>5, <2>7, <2>8 DEF name, answer
<1>2. CASE ~(offset < Len(Directory))
  <2>1. answer = SubSeq(<<>>, 1, Min({length, MAX_FILENAME, 0}))
    BY <1>2 DEF directory_read
  <2>2. Min({length, MAX_FILENAME, 0}) = 0
    BY DEF Min, FilesAssumption
  <2> QED
    BY <1>2, <2>1, <2>2
<1> QED
  BY <1>1, <1>2

THEOREM InitRead == ASSUME FilesAssumption, Init PROVE ReadInv
<1>1. TypeOK
  BY DEF Init, TypeOK, NoRead
<1>2. Seen /\ LastAnswer
  BY DEF Init, Seen, LastAnswer
<1> QED
  BY <1>1, <1>2, InitInv DEF ReadInv

(* A step that reads nothing. *)
LEMMA NoAnswer == ASSUME FilesAssumption, IInv', last' = NoRead PROVE LastAnswer'
BY FdsFacts DEF IInv, LastAnswer, NoRead

LEMMA OpenRead ==
  ASSUME FilesAssumption, ReadInv, NEW name, IsName(name), Open(name) PROVE ReadInv'
<1> USE DEF ReadInv
<1> DEFINE g == LowestFree
           i == read_dentry_by_name(name)
<1>1. IInv'
  BY OpenInv
<1>2. /\ i # 0 /\ flags # Fds
      /\ flags' = flags \cup {g}
      /\ entry' = [entry EXCEPT ![g] = i]
      /\ fops_table' = [fops_table EXCEPT ![g] = Directory[i].type]
      /\ UNCHANGED file_position /\ UNCHANGED seen /\ last' = NoRead
  BY DEF Open, SetInode
<1>3. g \in Fds \ flags
  BY <1>2, LowestFreeFound DEF IInv
<1>4. i \in Indices /\ Directory[i].type \in Types
  BY <1>2, DentryFound DEF FilesAssumption
<1> HIDE DEF g, i
<1>5. TypeOK'
  BY <1>2, <1>3, <1>4 DEF TypeOK, NoRead
<1>6. seen[g] = <<>> /\ file_position[g] = 0
  BY <1>3 DEF Seen, IInv, DescriptorsMatch
<1>7. Bytes(0, 0) = <<>> /\ <<>> \in Seq(Seq(STRING)) /\ Len(<<>>) = 0 /\ 0 <= Len(Directory)
  BY DEF Bytes, FilesAssumption
<1>8. Seen'
  <2> SUFFICES ASSUME NEW f \in Fds
               PROVE  /\ f \notin flags' => seen'[f] = <<>>
                      /\ f \in flags' /\ fops_table'[f] = "file" => seen'[f] = Bytes(0, file_position'[f])
                      /\ f \in flags' /\ fops_table'[f] = "directory" =>
                           /\ file_position'[f] <= Len(Directory)
                           /\ seen'[f] \in Seq(Seq(STRING)) /\ Len(seen'[f]) = file_position'[f]
                           /\ \A k \in 1 .. Len(seen'[f]) : IsPrefix(seen'[f][k], Directory[k].name)
    BY DEF Seen
  <2>1. CASE f = g
    <3>1. seen'[f] = <<>> /\ file_position'[f] = 0 /\ f \in flags'
      BY <1>2, <1>3, <1>6, <2>1
    <3>2. 1 .. Len(seen'[f]) = {}
      BY <3>1, <1>7
    <3> QED
      BY <1>7, <3>1, <3>2
  <2>2. CASE f # g
    <3>1. /\ seen'[f] = seen[f] /\ file_position'[f] = file_position[f]
          /\ fops_table'[f] = fops_table[f] /\ (f \in flags' <=> f \in flags)
      BY <1>2, <1>3, <2>2 DEF TypeOK
    <3> QED
      BY <3>1 DEF Seen
  <2> QED
    BY <2>1, <2>2
<1> QED
  BY <1>1, <1>2, <1>5, <1>8, NoAnswer

LEMMA OpenMissingRead ==
  ASSUME FilesAssumption, ReadInv, NEW name, OpenMissing(name) PROVE ReadInv'
<1> USE DEF ReadInv
<1>1. IInv'
  BY OpenMissingInv
<1>2. UNCHANGED <<flags, entry, file_position, seen>> /\ last' = NoRead
  BY DEF OpenMissing
<1>3. /\ fops_table' \in [Fds -> Types \cup {"null", "stdin", "stdout"}]
      /\ \A f \in flags : fops_table'[f] = fops_table[f]
  <2>1. CASE fops_table' = fops_table
    BY <2>1 DEF TypeOK
  <2>2. CASE /\ flags # Fds /\ name \in {<<"stdin">>, <<"stdout">>}
             /\ fops_table' = [fops_table EXCEPT ![LowestFree] = name[1]]
    <3>1. LowestFree \in Fds \ flags
      BY <2>2, LowestFreeFound DEF IInv
    <3>2. name[1] \in {"stdin", "stdout"}
      BY <2>2
    <3> QED
      BY <2>2, <3>1, <3>2 DEF TypeOK
  <2> QED
    BY <2>1, <2>2 DEF OpenMissing
<1>4. TypeOK'
  BY <1>2, <1>3 DEF TypeOK, NoRead
<1>5. Seen'
  BY <1>2, <1>3 DEF Seen, TypeOK
<1> QED
  BY <1>1, <1>2, <1>4, <1>5, NoAnswer

LEMMA CloseRead ==
  ASSUME FilesAssumption, ReadInv, NEW f \in Fds, Close(f) PROVE ReadInv'
<1> USE DEF ReadInv
<1>1. IInv'
  BY CloseInv
<1>2. /\ flags' = flags \ {f}
      /\ entry' = [entry EXCEPT ![f] = IF fops_table[f] = "rtc" THEN @ ELSE 0]
      /\ file_position' = [file_position EXCEPT ![f] = 0]
      /\ seen' = [seen EXCEPT ![f] = <<>>]
      /\ UNCHANGED fops_table /\ last' = NoRead
  BY DEF Close, ClearInode, ResetPosition
<1>3. TypeOK'
  BY <1>2 DEF TypeOK, NoRead
<1>4. Seen'
  <2>1. seen'[f] = <<>> /\ f \notin flags'
    BY <1>2 DEF TypeOK
  <2>2. ASSUME NEW g \in Fds \ {f}
        PROVE  /\ seen'[g] = seen[g] /\ file_position'[g] = file_position[g]
               /\ fops_table'[g] = fops_table[g] /\ (g \in flags' <=> g \in flags)
    BY <1>2 DEF TypeOK
  <2> QED
    BY <2>1, <2>2 DEF Seen
<1> QED
  BY <1>1, <1>2, <1>3, <1>4, NoAnswer

(* A read of a file: ReadData says what it copies.                         *)
LEMMA ReadFileRead ==
  ASSUME FilesAssumption, ReadInv, NEW f \in Fds, NEW n \in Nat, ReadFile(f, n) PROVE ReadInv'
<1> USE DEF ReadInv
<1> DEFINE pos == file_position[f]
           size == Directory[entry[f]].length
           got == read_data(size, pos, n)
<1>1. IInv'
  BY ReadKeeps
<1>2. /\ f \in flags /\ fops_table[f] = "file"
      /\ file_position' = [file_position EXCEPT ![f] = @ + Len(got)]
      /\ seen' = [seen EXCEPT ![f] = @ \o got]
      /\ last' = [fd |-> f, asked |-> n, got |-> got]
      /\ UNCHANGED <<flags, entry, fops_table, named>>
  BY DEF ReadFile, Advance, Answered
<1>3. pos \in Nat /\ size \in Nat
  BY <1>2 DEF TypeOK, IInv, DescriptorsMatch, FilesAssumption
<1> HIDE DEF pos, size
<1>4. PICK e \in Nat : /\ got = Bytes(pos, e) /\ pos <= e /\ e <= pos + n
                       /\ e = pos + n \/ e >= size
  BY <1>3, ReadData
<1> HIDE DEF got
<1>5. Len(got) = e - pos
  BY <1>3, <1>4, BytesProperties
<1>6. file_position'[f] = e
  BY <1>2, <1>3, <1>4, <1>5 DEF TypeOK, pos
<1>7. seen[f] = Bytes(0, pos)
  BY <1>2 DEF Seen, pos
<1>8. Bytes(0, pos) \o Bytes(pos, e) = Bytes(0, e)
  <2>1. 0 \in Nat /\ 0 <= pos
    BY <1>3
  <2> QED
    BY <1>3, <1>4, <2>1, BytesJoin
<1>9. seen'[f] = Bytes(0, e)
  BY <1>2, <1>4, <1>7, <1>8 DEF TypeOK
<1>10. TypeOK'
  <2>1. file_position' \in [Fds -> Nat]
    BY <1>2, <1>6 DEF TypeOK
  <2> QED
    BY <1>2, <2>1 DEF TypeOK
<1>11. Seen'
  <2>1. \A g \in Fds \ {f} : file_position'[g] = file_position[g] /\ seen'[g] = seen[g]
    BY <1>2 DEF TypeOK
  <2> QED
    BY <1>2, <1>6, <1>9, <2>1 DEF Seen
<1>12. LastAnswer'
  <2>1. Size(f)' = size
    BY <1>2 DEF Size, size
  <2>2. last'.fd = f /\ last'.asked = n /\ last'.got = got
    BY <1>2
  <2>3. Len(got) <= n /\ (Len(got) = n \/ e >= size)
    BY <1>3, <1>4, <1>5
  <2> QED
    BY <1>2, <1>6, <2>1, <2>2, <2>3 DEF LastAnswer
<1> QED
  BY <1>1, <1>10, <1>11, <1>12

LEMMA ReadClockRead ==
  ASSUME FilesAssumption, ReadInv, NEW f \in Fds, NEW n \in Nat, ReadClock(f, n) PROVE ReadInv'
<1> USE DEF ReadInv
<1>1. IInv'
  BY ReadKeeps
<1>2. /\ f \in flags /\ fops_table[f] = "rtc"
      /\ seen' = [seen EXCEPT ![f] = @ \o <<>>]
      /\ last' = [fd |-> f, asked |-> n, got |-> <<>>]
      /\ UNCHANGED <<flags, entry, fops_table, named, file_position>>
  BY DEF ReadClock, Answered
<1>3. TypeOK'
  BY <1>2 DEF TypeOK
<1>4. Seen'
  BY <1>2 DEF Seen, TypeOK
<1>5. LastAnswer'
  BY <1>2 DEF LastAnswer
<1> QED
  BY <1>1, <1>3, <1>4, <1>5

(* A read of a directory: DirectoryRead says what it answers.              *)
LEMMA ReadDirectoryRead ==
  ASSUME FilesAssumption, ReadInv, NEW f \in Fds, NEW n \in Nat, ReadDirectory(f, n)
  PROVE  ReadInv'
<1> USE DEF ReadInv
<1> DEFINE pos == file_position[f]
           name == directory_read(pos, n)
<1>1. IInv'
  BY ReadKeeps
<1>2. f \in flags /\ fops_table[f] = "directory"
  BY DEF ReadDirectory
<1>3. /\ pos \in Nat /\ pos <= Len(Directory) /\ Len(Directory) \in Nat
      /\ seen[f] \in Seq(Seq(STRING)) /\ Len(seen[f]) = pos
      /\ \A i \in 1 .. pos : IsPrefix(seen[f][i], Directory[i].name)
  BY <1>2 DEF TypeOK, Seen, FilesAssumption
<1>4. CASE pos >= MAX_FILECOUNT
  <2>1. UNCHANGED vars
    BY <1>4 DEF ReadDirectory
  <2> QED
    BY <1>1, <2>1 DEF vars, TypeOK, Seen, LastAnswer, Size
<1>5. CASE ~(pos >= MAX_FILECOUNT) /\ name = <<>>
  <2>1. /\ seen' = [seen EXCEPT ![f] = @ \o <<>>]
        /\ last' = [fd |-> f, asked |-> n, got |-> <<>>]
        /\ UNCHANGED <<flags, entry, fops_table, named, file_position>>
    BY <1>5 DEF ReadDirectory, Answered
  <2>2. n > 0 => pos = Len(Directory)
    <3>1. pos < Len(Directory) => (directory_read(pos, n) = <<>> <=> n = 0)
      BY <1>3, DirectoryRead
    <3> QED
      BY <1>3, <1>5, <3>1
  <2>3. seen[f] \o <<>> = seen[f]
    BY <1>3, ConcatEmptySeq
  <2>4. DOMAIN seen' = Fds /\ \A g \in Fds : seen'[g] = seen[g]
    BY <2>1, <2>3 DEF TypeOK
  <2>5. TypeOK' /\ Seen'
    BY <2>1, <2>4 DEF TypeOK, Seen
  <2>6. LastAnswer'
    BY <1>2, <2>1, <2>2 DEF LastAnswer
  <2> QED
    BY <1>1, <2>5, <2>6
<1>6. CASE ~(pos >= MAX_FILECOUNT) /\ name # <<>>
  <2>1. /\ file_position' = [file_position EXCEPT ![f] = @ + 1]
        /\ seen' = [seen EXCEPT ![f] = @ \o <<name>>]
        /\ last' = [fd |-> f, asked |-> n, got |-> <<name>>]
        /\ UNCHANGED <<flags, entry, fops_table, named>>
    BY <1>6 DEF ReadDirectory, Answered, Advance, NamesPerRead
  <2>2. pos < Len(Directory)
    BY <1>3, <1>6, DirectoryRead
  <2>3. /\ name \in Seq(STRING) /\ IsPrefix(name, Directory[pos + 1].name)
        /\ Len(name) = Min({n, Len(Directory[pos + 1].name)}) /\ Len(name) <= n
    BY <1>3, <2>2, DirectoryRead
  <2> HIDE DEF name
  <2>4. file_position'[f] = pos + 1 /\ seen'[f] = seen[f] \o <<name>>
    BY <2>1 DEF TypeOK
  <2>5. <<name>> \in Seq(Seq(STRING)) /\ Len(<<name>>) = 1 /\ <<name>>[1] = name
    BY <2>3
  <2>6. /\ seen'[f] \in Seq(Seq(STRING)) /\ Len(seen'[f]) = pos + 1
        /\ \A i \in 1 .. pos + 1 : seen'[f][i] = IF i <= pos THEN seen[f][i] ELSE <<name>>[i - pos]
    <3>1. /\ seen[f] \o <<name>> \in Seq(Seq(STRING))
          /\ Len(seen[f] \o <<name>>) = Len(seen[f]) + Len(<<name>>)
          /\ \A i \in 1 .. Len(seen[f]) + Len(<<name>>) :
               (seen[f] \o <<name>>)[i] = IF i <= Len(seen[f]) THEN seen[f][i]
                                          ELSE <<name>>[i - Len(seen[f])]
      BY <1>3, <2>5, ConcatProperties
    <3> QED
      BY <1>3, <2>4, <2>5, <3>1
  <2>7. \A i \in 1 .. pos + 1 : IsPrefix(seen'[f][i], Directory[i].name)
    <3> SUFFICES ASSUME NEW i \in 1 .. pos + 1 PROVE IsPrefix(seen'[f][i], Directory[i].name)
      OBVIOUS
    <3>1. CASE i <= pos
      BY <1>3, <2>6, <3>1
    <3>2. CASE ~(i <= pos)
      <4>1. i = pos + 1 /\ i - pos = 1
        BY <1>3, <3>2
      <4>2. seen'[f][i] = name
        BY <2>5, <2>6, <3>2, <4>1
      <4> QED
        BY <2>3, <4>1, <4>2
    <3> QED
      BY <3>1, <3>2
  <2>8. TypeOK'
    <3>1. file_position' \in [Fds -> Nat]
      BY <1>3, <2>1, <2>4 DEF TypeOK
    <3> QED
      BY <2>1, <3>1 DEF TypeOK
  <2>9. Seen'
    <3>1. \A g \in Fds \ {f} : file_position'[g] = file_position[g] /\ seen'[g] = seen[g]
      BY <2>1 DEF TypeOK
    <3>2. pos + 1 <= Len(Directory)
      BY <1>3, <2>2
    <3>3. ASSUME NEW g \in Fds \ {f}
          PROVE  /\ g \notin flags' => seen'[g] = <<>>
                 /\ g \in flags' /\ fops_table'[g] = "file" => seen'[g] = Bytes(0, file_position'[g])
                 /\ g \in flags' /\ fops_table'[g] = "directory" =>
                      /\ file_position'[g] <= Len(Directory)
                      /\ seen'[g] \in Seq(Seq(STRING)) /\ Len(seen'[g]) = file_position'[g]
                      /\ \A i \in 1 .. Len(seen'[g]) : IsPrefix(seen'[g][i], Directory[i].name)
      BY <1>2, <2>1, <3>1 DEF Seen
    <3>4. /\ f \in flags' /\ fops_table'[f] = "directory"
          /\ file_position'[f] = pos + 1 /\ Len(seen'[f]) = pos + 1
      <4>1. f \in flags' /\ fops_table'[f] = "directory"
        BY <1>2, <2>1
      <4> QED
        BY <2>4, <2>6, <4>1
    <3> QED
      BY <2>6, <2>7, <3>2, <3>3, <3>4 DEF Seen
  <2>10. LastAnswer'
    <3>1. last'.fd = f /\ last'.asked = n /\ last'.got = <<name>>
      BY <2>1
    <3>2. last'.got # <<>> /\ last'.got[1] = name
      BY <3>1, <2>5
    <3> QED
      BY <1>2, <2>1, <2>3, <2>4, <3>1, <3>2 DEF LastAnswer
  <2> QED
    BY <1>1, <2>8, <2>9, <2>10
<1> QED
  BY <1>4, <1>5, <1>6

(* The answers, for the programs that make something of them.              *)
LEMMA FileAnswer ==
  ASSUME FilesAssumption, ReadInv, NEW f \in Fds, NEW n \in Nat, ReadFile(f, n)
  PROVE  /\ f \in flags /\ fops_table[f] = "file"
         /\ entry[f] \in Indices /\ Directory[entry[f]].type = "file"
         /\ last' = [fd |-> f, asked |-> n, got |-> last'.got]
         /\ last'.got \in Seq(Nat) /\ Len(last'.got) <= n
         /\ Len(last'.got) = n \/ file_position'[f] >= Directory[entry[f]].length
         /\ seen[f] \in Seq(Nat) /\ seen'[f] = seen[f] \o last'.got
         /\ UNCHANGED <<flags, entry, fops_table, named>>
<1> USE DEF ReadInv
<1> DEFINE pos == file_position[f]
           size == Directory[entry[f]].length
           got == read_data(size, pos, n)
<1>1. /\ f \in flags /\ fops_table[f] = "file"
      /\ file_position' = [file_position EXCEPT ![f] = @ + Len(got)]
      /\ seen' = [seen EXCEPT ![f] = @ \o got]
      /\ last' = [fd |-> f, asked |-> n, got |-> got]
      /\ UNCHANGED <<flags, entry, fops_table, named>>
  BY DEF ReadFile, Advance, Answered
<1>2. pos \in Nat /\ size \in Nat /\ entry[f] \in Indices /\ Directory[entry[f]].type = "file"
  BY <1>1 DEF TypeOK, IInv, DescriptorsMatch, FilesAssumption
<1>3. seen[f] = Bytes(0, pos)
  BY <1>1 DEF Seen
<1>4. seen'[f] = seen[f] \o got
  BY <1>1 DEF TypeOK
<1>5. file_position'[f] = pos + Len(got)
  BY <1>1 DEF TypeOK
<1> HIDE DEF pos, size
<1>6. PICK e \in Nat : /\ got = Bytes(pos, e) /\ pos <= e /\ e <= pos + n
                       /\ e = pos + n \/ e >= size
  BY <1>2, ReadData
<1> HIDE DEF got
<1>7. got \in Seq(Nat) /\ Len(got) = e - pos
  BY <1>2, <1>6, BytesProperties
<1>8. seen[f] \in Seq(Nat)
  <2>1. 0 \in Nat /\ 0 <= pos
    BY <1>2
  <2> QED
    BY <1>2, <1>3, <2>1, BytesProperties
<1>9. Len(got) <= n /\ (Len(got) = n \/ pos + Len(got) >= size)
  BY <1>2, <1>6, <1>7
<1>10. last'.got = got
  BY <1>1
<1> QED
  BY <1>1, <1>2, <1>4, <1>5, <1>7, <1>8, <1>9, <1>10 DEF size

LEMMA DirectoryAnswer ==
  ASSUME FilesAssumption, ReadInv, NEW f \in Fds, NEW n \in Nat, ReadDirectory(f, n)
  PROVE  /\ f \in flags /\ fops_table[f] = "directory"
         /\ file_position[f] \in 0 .. Len(Directory)
         /\ UNCHANGED <<flags, entry, fops_table, named>>
         /\ IF file_position[f] >= MAX_FILECOUNT
            THEN UNCHANGED vars
            ELSE /\ last' = [fd |-> f, asked |-> n, got |-> last'.got]
                 /\ seen'[f] = seen[f] \o last'.got
                 /\ \/ /\ last'.got = <<>> /\ file_position'[f] = file_position[f]
                       /\ n > 0 => file_position[f] = Len(Directory)
                    \/ \E name \in Seq(STRING) :
                         /\ file_position[f] < Len(Directory)
                         /\ last'.got = <<name>> /\ file_position'[f] = file_position[f] + 1
                         /\ name # <<>>
                         /\ IsPrefix(name, Directory[file_position[f] + 1].name)
                         /\ Len(name) = Min({n, Len(Directory[file_position[f] + 1].name)})
<1> USE DEF ReadInv
<1> DEFINE pos == file_position[f]
           name == directory_read(pos, n)
<1>1. f \in flags /\ fops_table[f] = "directory"
  BY DEF ReadDirectory
<1>2. pos \in Nat /\ pos <= Len(Directory) /\ Len(Directory) \in Nat
  BY <1>1 DEF TypeOK, Seen, FilesAssumption
<1>3. CASE pos >= MAX_FILECOUNT
  <2>1. UNCHANGED vars
    BY <1>3 DEF ReadDirectory
  <2>2. UNCHANGED <<flags, entry, fops_table, named>>
    BY <2>1 DEF vars
  <2>3. file_position[f] \in 0 .. Len(Directory) /\ file_position[f] >= MAX_FILECOUNT
    BY <1>2, <1>3
  <2> HIDE DEF name, pos
  <2> QED
    BY <1>1, <2>1, <2>2, <2>3, Zenon
<1>4. CASE ~(pos >= MAX_FILECOUNT) /\ name = <<>>
  <2>1. /\ seen' = [seen EXCEPT ![f] = @ \o <<>>]
        /\ last' = [fd |-> f, asked |-> n, got |-> <<>>]
        /\ UNCHANGED <<flags, entry, fops_table, named, file_position>>
    BY <1>4 DEF ReadDirectory, Answered
  <2>2. n > 0 => pos = Len(Directory)
    <3>1. pos < Len(Directory) => (directory_read(pos, n) = <<>> <=> n = 0)
      BY <1>2, DirectoryRead
    <3> QED
      BY <1>2, <1>4, <3>1
  <2>3. seen'[f] = seen[f] \o <<>>
    BY <2>1 DEF TypeOK
  <2>4. last'.got = <<>> /\ last' = [fd |-> f, asked |-> n, got |-> last'.got]
    BY <2>1
  <2>5. seen'[f] = seen[f] \o last'.got
    BY <2>3, <2>4
  <2>6. UNCHANGED <<flags, entry, fops_table, named>> /\ file_position'[f] = pos
    BY <2>1
  <2> HIDE DEF name
  <2> QED
    BY <1>1, <1>2, <1>4, <2>2, <2>4, <2>5, <2>6
<1>5. CASE ~(pos >= MAX_FILECOUNT) /\ name # <<>>
  <2>1. /\ file_position' = [file_position EXCEPT ![f] = @ + 1]
        /\ seen' = [seen EXCEPT ![f] = @ \o <<name>>]
        /\ last' = [fd |-> f, asked |-> n, got |-> <<name>>]
        /\ UNCHANGED <<flags, entry, fops_table, named>>
    BY <1>5 DEF ReadDirectory, Answered, Advance, NamesPerRead
  <2>2. pos < Len(Directory)
    BY <1>2, <1>5, DirectoryRead
  <2>3. /\ name \in Seq(STRING) /\ IsPrefix(name, Directory[pos + 1].name)
        /\ Len(name) = Min({n, Len(Directory[pos + 1].name)})
    BY <1>2, <2>2, DirectoryRead
  <2> HIDE DEF name
  <2>4. file_position'[f] = pos + 1 /\ seen'[f] = seen[f] \o <<name>> /\ last'.got = <<name>>
    BY <2>1 DEF TypeOK
  <2>5. last' = [fd |-> f, asked |-> n, got |-> last'.got] /\ seen'[f] = seen[f] \o last'.got
    BY <2>1, <2>4
  <2>6. \E nm \in Seq(STRING) :
          /\ pos < Len(Directory)
          /\ last'.got = <<nm>> /\ file_position'[f] = pos + 1
          /\ nm # <<>>
          /\ IsPrefix(nm, Directory[pos + 1].name)
          /\ Len(nm) = Min({n, Len(Directory[pos + 1].name)})
    BY <1>5, <2>2, <2>3, <2>4
  <2> QED
    BY <1>1, <1>2, <1>5, <2>1, <2>5, <2>6
<1> QED
  BY <1>3, <1>4, <1>5

THEOREM NextRead ==
  ASSUME FilesAssumption, ReadInv, [Next]_vars PROVE ReadInv'
<1>1. CASE UNCHANGED vars
  <2>1. IInv'
    BY <1>1, NextInv DEF ReadInv
  <2> QED
    BY <1>1, <2>1 DEF ReadInv, vars, TypeOK, Seen, LastAnswer, Size
<1>2. CASE Next
  <2>1. \A n \in ReadLengths : n \in Nat
    BY DEF FilesAssumption
  <2> QED
    BY <1>2, <2>1, NamesAreNames, OpenRead, OpenMissingRead, CloseRead, ReadFileRead, ReadClockRead,
       ReadDirectoryRead DEF Next
<1> QED
  BY <1>1, <1>2

THEOREM SpecRead == ASSUME FilesAssumption PROVE Spec => []ReadInv
<1>1. ReadInv /\ [Next]_vars => ReadInv'
  BY NextRead
<1> QED
  BY InitRead, <1>1, PTL DEF Spec

LEMMA Implied ==
  ASSUME FilesAssumption, ReadInv PROVE FitsBuffer /\ NothingSkipped /\ DirectorySeen
<1> USE DEF ReadInv
<1>1. FitsBuffer
  BY DEF FitsBuffer, LastAnswer
<1>2. NothingSkipped
  <2> SUFFICES ASSUME NEW f \in flags, fops_table[f] = "file"
               PROVE  /\ Len(seen[f]) = file_position[f]
                      /\ \A i \in 1 .. Len(seen[f]) : seen[f][i] = i - 1
                      /\ last.fd = f => Len(last.got) = last.asked \/ Len(seen[f]) >= Size(f)
    BY DEF NothingSkipped
  <2>1. f \in Fds /\ file_position[f] \in Nat /\ seen[f] = Bytes(0, file_position[f])
    BY DEF Seen, TypeOK
  <2>2. /\ Len(seen[f]) = file_position[f]
        /\ \A i \in 1 .. Len(seen[f]) : seen[f][i] = i - 1
    <3> DEFINE n == file_position[f]
    <3>1. n \in Nat /\ 0 <= n /\ seen[f] = Bytes(0, n)
      BY <2>1
    <3> HIDE DEF n
    <3>2. Len(Bytes(0, n)) = n - 0 /\ \A k \in 1 .. n - 0 : Bytes(0, n)[k] = 0 + k - 1
      BY <3>1, BytesProperties
    <3>3. n - 0 = n /\ \A k \in 1 .. n : 0 + k - 1 = k - 1
      BY <3>1
    <3> QED
      BY <3>1, <3>2, <3>3 DEF n
  <2> QED
    BY <2>2 DEF LastAnswer
<1>3. DirectorySeen
  BY DEF DirectorySeen, Seen, LastAnswer, TypeOK
<1> QED
  BY <1>1, <1>2, <1>3

-----------------------------------------------------------------------------
(* An open descriptor reads as the type of its file says, and a free one   *)
(* will start at the beginning of its file (open sets no position).        *)
THEOREM DescriptorsCorrect == ASSUME FilesAssumption PROVE Spec => []DescriptorsMatch
<1>1. IInv => DescriptorsMatch
  BY DEF IInv
<1> QED
  BY <1>1, SpecInv, PTL

(* open finds the file with the name it was given, whole, although         *)
(* read_dentry_by_name compares a length that grows with every entry.      *)
THEOREM OpenExact == ASSUME FilesAssumption PROVE Spec => []OpensNamed
<1>1. IInv => OpensNamed
  BY DEF IInv
<1> QED
  BY <1>1, SpecInv, PTL

(* read never writes past the caller's buffer, in whatever blocks the      *)
(* bytes lie and wherever the file ends.                                   *)
THEOREM ReadsFit == ASSUME FilesAssumption PROVE Spec => []FitsBuffer
<1>1. ReadInv => FitsBuffer
  BY Implied
<1> QED
  BY <1>1, SpecRead, PTL

(* Reads of any lengths one after the other give the file from its first   *)
(* byte on, and each all that was asked for while there is some.           *)
THEOREM ReadsInOrder == ASSUME FilesAssumption PROVE Spec => []NothingSkipped
<1>1. ReadInv => NothingSkipped
  BY Implied
<1> QED
  BY <1>1, SpecRead, PTL

(* Reading a directory until nothing comes shows every entry.              *)
THEOREM DirectoryShown == ASSUME FilesAssumption PROVE Spec => []DirectorySeen
<1>1. ReadInv => DirectorySeen
  BY Implied
<1> QED
  BY <1>1, SpecRead, PTL

THEOREM TypeCorrect == ASSUME FilesAssumption PROVE Spec => []TypeOK
<1>1. ReadInv => TypeOK
  BY DEF ReadInv
<1> QED
  BY <1>1, SpecRead, PTL
=============================================================================
