----------------------------- MODULE FishProofs -----------------------------
(***************************************************************************)
(* fish shows its drawings: a theorem about Programs.tla.  While it reads, *)
(* row and col are those of the next byte of every drawing whose row is    *)
(* not over, and the list holds what lies before it; from then on every    *)
(* structure of the list is where the number of interrupts puts it.        *)
(***************************************************************************)
EXTENDS ProgramsProofs, FiniteSetTheorems

-----------------------------------------------------------------------------
(***************************************************************************)
(* Rows and columns of a text, byte by byte.                               *)
(***************************************************************************)
LEMMA GreatestIs ==
  ASSUME NEW S \in SUBSET Nat, NEW m \in S, \A x \in S : x <= m PROVE Cmd!Max(S) = m
<1> DEFINE n == Cmd!Max(S)
<1>1. n \in S /\ \A x \in S : n >= x
  BY DEF Cmd!Max
<1> HIDE DEF n
<1>2. n >= m /\ n <= m /\ n \in Nat /\ m \in Nat
  BY <1>1
<1> QED
  BY <1>2 DEF n

LEMMA TextBegins ==
  ASSUME NEW t PROVE Row(t, 0) = 0 /\ Column(t, 0) = 0
<1>1. NewLines(t, 0) = {}
  BY DEF NewLines
<1>2. {q + 1 : q \in {}} \cup {0} = {0}
  OBVIOUS
<1>3. Cmd!Max({0}) = 0
  BY GreatestIs
<1> QED
  BY <1>1, <1>2, <1>3, FS_EmptySet DEF Row, Column

LEMMA GreatestFound ==
  ASSUME NEW n \in Nat, NEW S, S # {}, S \subseteq 0 .. n
  PROVE  Cmd!Max(S) \in S /\ \A x \in S : x <= Cmd!Max(S)
<1> DEFINE D == {n - x : x \in S}
<1>1. D \in SUBSET Nat /\ D # {}
  <2>1. \A x \in S : n - x \in Nat
    OBVIOUS
  <2> QED
    BY <2>1
<1>2. PICK m \in S : Cmd!Min(D) = n - m
  BY <1>1, Least
<1>3. ASSUME NEW x \in S PROVE x <= m
  <2>1. n - m <= n - x
    BY <1>1, <1>2, Least
  <2>2. m \in Nat /\ x \in Nat
    OBVIOUS
  <2> QED
    BY <2>1, <2>2
<1>4. S \in SUBSET Nat
  OBVIOUS
<1> QED
  BY <1>3, <1>4, GreatestIs

(* The next byte is in the column behind the last one's, or begins a row.  *)
LEMMA TextGoesOn ==
  ASSUME NEW t, NEW n \in Nat
  PROVE  /\ Row(t, n) \in Nat /\ Column(t, n) \in Nat
         /\ IF t[n] = NL THEN Row(t, n + 1) = Row(t, n) + 1 /\ Column(t, n + 1) = 0
            ELSE Row(t, n + 1) = Row(t, n) /\ Column(t, n + 1) = Column(t, n) + 1
<1> DEFINE N == NewLines(t, n)
           S == {q + 1 : q \in N} \cup {0}
           m == Cmd!Max(S)
<1>1. N \subseteq 0 .. n - 1 /\ n \notin N
  BY DEF NewLines
<1>2. IsFiniteSet(N) /\ Cardinality(N) \in Nat
  <2>1. 0 \in Int /\ n - 1 \in Int
    OBVIOUS
  <2>2. IsFiniteSet(0 .. n - 1)
    BY <2>1, FS_Interval
  <2> HIDE DEF N
  <2> QED
    BY <1>1, <2>2, FS_Subset, FS_CardinalityType
<1>3. S # {} /\ S \subseteq 0 .. n
  <2>1. \A q \in N : q \in Nat /\ q + 1 \in 0 .. n
    BY <1>1
  <2> QED
    BY <2>1
<1>4. m \in S /\ \A x \in S : x <= m
  BY <1>3, GreatestFound
<1>5. m \in 0 .. n
  BY <1>3, <1>4
<1>6. Row(t, n) = Cardinality(N) /\ Column(t, n) = n - m
  BY DEF Row, Column
<1>7. NewLines(t, n + 1) = IF t[n] = NL THEN N \cup {n} ELSE N
  <2>1. \A q : q \in 0 .. (n + 1) - 1 <=> q \in 0 .. n - 1 \/ q = n
    OBVIOUS
  <2> QED
    BY <2>1 DEF NewLines
<1> HIDE DEF N
<1>8. CASE t[n] = NL
  <2>1. NewLines(t, n + 1) = N \cup {n}
    BY <1>7, <1>8
  <2>2. Row(t, n + 1) = Row(t, n) + 1
    BY <1>1, <1>2, <1>6, <2>1, FS_AddElement DEF Row
  <2> DEFINE T == {q + 1 : q \in N \cup {n}} \cup {0}
  <2>3. \A x \in T : x \in S \/ x = n + 1
    OBVIOUS
  <2>4. T \in SUBSET Nat /\ n + 1 \in T /\ \A x \in T : x <= n + 1
    BY <1>3, <2>3
  <2>5. Column(t, n + 1) = (n + 1) - (n + 1)
    BY <2>1, <2>4, GreatestIs DEF Column
  <2> QED
    BY <1>2, <1>5, <1>6, <1>8, <2>2, <2>5
<1>9. CASE t[n] # NL
  <2>1. NewLines(t, n + 1) = N
    BY <1>7, <1>9
  <2>2. Row(t, n + 1) = Row(t, n) /\ Column(t, n + 1) = (n + 1) - m
    BY <1>6, <2>1 DEF Row, Column
  <2> HIDE DEF m
  <2> QED
    BY <1>2, <1>5, <1>6, <1>9, <2>2
<1> QED
  BY <1>8, <1>9

-----------------------------------------------------------------------------
(***************************************************************************)
(* The list and the page, when first and second have been added of the     *)
(* drawings and w interrupts have come.  The structure at Spot is not      *)
(* there yet, has its own lengths, or those of the drawings (spot).        *)
(***************************************************************************)
HasChar(drawing, l, c) ==
  /\ \A m \in drawing : m.location = l => c = m.char
  /\ l \notin Locations(drawing) => c = SPACE

InStep(b, w) ==
  /\ b.on_length = 15 /\ b.off_length = 15
  /\ b.on <=> On(w, 15, 30)
  /\ b.countdown = 15 - (w % 15)

OwnStep(b, w) ==
  LET r == (w - WAIT) % 13
  IN /\ b.on_length = 7 /\ b.off_length = 6
     /\ b.on <=> r < 7
     /\ b.countdown = IF r < 7 THEN 7 - r ELSE 13 - r

RightAt(b, first, second, w, spot) ==
  IF b.location = Spot
  THEN /\ b.on_char = "I" /\ b.off_char = "M" /\ spot # "none"
       /\ IF spot = "drawn" THEN InStep(b, w) ELSE OwnStep(b, w)
  ELSE /\ HasChar(first, b.location, b.on_char) /\ HasChar(second, b.location, b.off_char)
       /\ InStep(b, w)

Glowing(b) == IF b.on THEN b.on_char ELSE b.off_char

Listed(list, page, first, second, w, spot) ==
  /\ \A i, j \in 1 .. Len(list) : list[i].location = list[j].location => i = j
  /\ \A i \in 1 .. Len(list) :
       /\ page[list[i].location] = Glowing(list[i])
       /\ RightAt(list[i], first, second, w, spot)
  /\ \A l \in DOMAIN page :
       IF l = Spot THEN spot # "none"
       ELSE /\ l \in Locations(first) \cup Locations(second)
            /\ \E i \in 1 .. Len(list) : list[i].location = l
  /\ Locations(first) \cup Locations(second) \subseteq DOMAIN page
  /\ spot # "none" /\ w < 3 * WAIT => \E i \in 1 .. Len(list) : list[i].location = Spot
  /\ spot = "none" /\ Len(list) > 0 => Len(list) <= list[1].location - Corner + 1

(* The page and its list, as FishInv has them. *)
LEMMA ListIs ==
  ASSUME FishInv
  PROVE  /\ Len(blinks) \in Nat /\ DOMAIN blinks = 1 .. Len(blinks)
         /\ \A l \in DOMAIN screen : l \in Nat /\ l < SCREEN
         /\ \A i \in 1 .. Len(blinks) : blinks[i] \in Blinks /\ blinks[i].location \in DOMAIN screen
<1>1. SCREEN = 2000
  BY DEF SCREEN
<1>2. DOMAIN screen \subseteq 0 .. SCREEN - 1
  BY DEF FishInv
<1>3. \A l \in DOMAIN screen : l \in Nat /\ l < SCREEN
  <2> DEFINE page == DOMAIN screen
  <2>1. page \subseteq 0 .. SCREEN - 1
    BY <1>2
  <2> HIDE DEF page
  <2>2. \A l \in page : l \in Nat /\ l < SCREEN
    BY <1>1, <2>1
  <2> QED
    BY <2>2 DEF page
<1>4. \A i \in 1 .. Len(blinks) : blinks[i].location \in DOMAIN screen
  BY DEF FishInv
<1>5. /\ Len(blinks) \in Nat /\ DOMAIN blinks = 1 .. Len(blinks)
      /\ \A i \in 1 .. Len(blinks) : blinks[i] \in Blinks
  BY DEF FishInv
<1> QED
  BY <1>3, <1>4, <1>5

LEMMA InStepTicks ==
  ASSUME NEW b \in Blinks, NEW w \in Nat, InStep(b, w) PROVE InStep(Ticked(b), w + 1)
<1>1. /\ (w + 1) % 30 < 15 <=> IF w % 15 = 14 THEN ~(w % 30 < 15) ELSE w % 30 < 15
      /\ 15 - ((w + 1) % 15) = IF w % 15 = 14 THEN 15 ELSE (15 - (w % 15)) - 1
      /\ w % 15 \in 0 .. 14
  BY SMTT(30)
<1>2. Due(b) <=> w % 15 = 14
  BY <1>1 DEF InStep, Due
<1>3. CASE Due(b)
  <2>1. Ticked(b) = [b EXCEPT !.countdown = IF b.on THEN b.off_length ELSE b.on_length, !.on = ~b.on]
    BY <1>3 DEF Ticked
  <2>2. /\ Ticked(b).countdown = 15 /\ Ticked(b).on_length = 15 /\ Ticked(b).off_length = 15
        /\ Ticked(b).on <=> ~b.on
    BY <2>1 DEF InStep, Blinks
  <2> QED
    BY <1>1, <1>2, <1>3, <2>2 DEF InStep, On
<1>4. CASE ~Due(b)
  <2>1. Ticked(b) = [b EXCEPT !.countdown = b.countdown - 1]
    BY <1>4 DEF Ticked
  <2>2. /\ Ticked(b).countdown = b.countdown - 1 /\ Ticked(b).on_length = 15 /\ Ticked(b).off_length = 15
        /\ Ticked(b).on = b.on
    BY <2>1 DEF InStep, Blinks
  <2> QED
    BY <1>1, <1>2, <1>4, <2>2 DEF InStep, On
<1> QED
  BY <1>3, <1>4

LEMMA OwnStepTicks ==
  ASSUME NEW b \in Blinks, NEW w \in Nat, w >= WAIT, OwnStep(b, w) PROVE OwnStep(Ticked(b), w + 1)
<1> DEFINE v == w - WAIT
           r == v % 13
           s == (v + 1) % 13
<1>1. v \in Nat /\ (w + 1) - WAIT = v + 1
  BY DEF WAIT
<1> HIDE DEF v
<1>2. r \in 0 .. 12 /\ s = IF r = 12 THEN 0 ELSE r + 1
  BY <1>1, SMTT(30)
<1>3. /\ b.on_length = 7 /\ b.off_length = 6 /\ (b.on <=> r < 7)
      /\ b.countdown = IF r < 7 THEN 7 - r ELSE 13 - r
  BY DEF OwnStep, v
<1> HIDE DEF r
<1>4. Due(b) <=> r \in {6, 12}
  BY <1>2, <1>3 DEF Due
<1>5. CASE Due(b)
  <2>1. Ticked(b) = [b EXCEPT !.countdown = IF b.on THEN b.off_length ELSE b.on_length, !.on = ~b.on]
    BY <1>5 DEF Ticked
  <2>2. /\ Ticked(b).countdown = (IF b.on THEN 6 ELSE 7)
        /\ Ticked(b).on_length = 7 /\ Ticked(b).off_length = 6
        /\ Ticked(b).on <=> ~b.on
    BY <1>3, <2>1 DEF Blinks
  <2> QED
    BY <1>1, <1>2, <1>3, <1>4, <1>5, <2>2 DEF OwnStep
<1>6. CASE ~Due(b)
  <2>1. Ticked(b) = [b EXCEPT !.countdown = b.countdown - 1]
    BY <1>6 DEF Ticked
  <2>2. /\ Ticked(b).countdown = b.countdown - 1 /\ Ticked(b).on_length = 7 /\ Ticked(b).off_length = 6
        /\ Ticked(b).on = b.on
    BY <1>3, <2>1 DEF Blinks
  <2> QED
    BY <1>1, <1>2, <1>3, <1>4, <1>6, <2>2 DEF OwnStep
<1> QED
  BY <1>5, <1>6

LEMMA TickedIs ==
  ASSUME NEW b \in Blinks
  PROVE  /\ Ticked(b).location = b.location
         /\ Ticked(b).on_char = b.on_char /\ Ticked(b).off_char = b.off_char
         /\ Glowing(Ticked(b)) = IF Due(b) THEN IF b.on THEN b.off_char ELSE b.on_char ELSE Glowing(b)
<1>1. CASE Due(b)
  <2>1. Ticked(b) = [b EXCEPT !.countdown = IF b.on THEN b.off_length ELSE b.on_length, !.on = ~b.on]
    BY <1>1 DEF Ticked
  <2>2. /\ Ticked(b).location = b.location /\ Ticked(b).on_char = b.on_char
        /\ Ticked(b).off_char = b.off_char /\ (Ticked(b).on <=> ~b.on)
    BY <2>1 DEF Blinks
  <2> QED
    BY <1>1, <2>2 DEF Glowing
<1>2. CASE ~Due(b)
  <2>1. Ticked(b) = [b EXCEPT !.countdown = b.countdown - 1]
    BY <1>2 DEF Ticked
  <2>2. /\ Ticked(b).location = b.location /\ Ticked(b).on_char = b.on_char
        /\ Ticked(b).off_char = b.off_char /\ Ticked(b).on = b.on
    BY <2>1 DEF Blinks
  <2> QED
    BY <1>2, <2>2 DEF Glowing
<1> QED
  BY <1>1, <1>2

(* An interrupt of the clock: every structure counts down and shows itself. *)
LEMMA TickLists ==
  ASSUME FishInv, NEW first, NEW second, NEW w \in Nat, NEW spot,
         Listed(blinks, screen, first, second, w, spot), spot # "none" => w >= WAIT, mp1_rtc_tasklet
  PROVE  Listed(blinks', screen', first, second, w + 1, spot)
<1> DEFINE n == Len(blinks)
<1>1. /\ n \in Nat /\ DOMAIN blinks = 1 .. n
      /\ \A i \in 1 .. n : blinks[i] \in Blinks /\ blinks[i].location \in DOMAIN screen
  BY ListIs
<1>2. blinks' = [k \in 1 .. n |-> Ticked(blinks[k])] /\ DOMAIN screen' = DOMAIN screen
  BY <1>1 DEF mp1_rtc_tasklet
<1>3. Len(blinks') = n /\ \A i \in 1 .. n : blinks'[i] = Ticked(blinks[i])
  <2> HIDE DEF n
  <2> QED
    BY <1>1, <1>2
<1>4. \A i \in 1 .. n :
        /\ blinks'[i].location = blinks[i].location
        /\ blinks'[i].on_char = blinks[i].on_char /\ blinks'[i].off_char = blinks[i].off_char
  BY <1>1, <1>3, TickedIs
<1>5. ASSUME NEW i \in 1 .. n PROVE screen'[blinks[i].location] = Glowing(blinks'[i])
  <2> DEFINE l == blinks[i].location
             due == {k \in 1 .. n : blinks[k].location = l /\ Due(blinks[k])}
             b == blinks[Cmd!Max(due)]
  <2>1. l \in DOMAIN screen /\ blinks[i] \in Blinks /\ screen[l] = Glowing(blinks[i])
    BY <1>1 DEF Listed
  <2>2. screen'[l] = IF due = {} THEN screen[l] ELSE IF b.on THEN b.off_char ELSE b.on_char
    BY <1>1, <2>1 DEF mp1_rtc_tasklet
  <2>3. Glowing(blinks'[i]) = IF Due(blinks[i]) THEN IF blinks[i].on THEN blinks[i].off_char ELSE blinks[i].on_char
                              ELSE Glowing(blinks[i])
    BY <1>3, <2>1, TickedIs
  <2>4. \A k \in due : k = i
    BY DEF Listed
  <2>5. CASE Due(blinks[i])
    <3>1. due = {i}
      BY <2>4, <2>5
    <3>2. Cmd!Max({i}) = i
      <4>1. i \in Nat /\ {i} \in SUBSET Nat /\ i \in {i} /\ \A x \in {i} : x <= i
        BY <1>1
      <4> QED
        BY <4>1, GreatestIs
    <3>3. due # {} /\ b = blinks[i]
      BY <3>1, <3>2
    <3> QED
      BY <2>2, <2>3, <2>5, <3>3
  <2>6. CASE ~Due(blinks[i])
    <3>1. due = {}
      BY <2>4, <2>6
    <3> QED
      BY <2>1, <2>2, <2>3, <2>6, <3>1
  <2> QED
    BY <2>5, <2>6
<1>6. ASSUME NEW i \in 1 .. n PROVE RightAt(blinks'[i], first, second, w + 1, spot)
  <2>1. RightAt(blinks[i], first, second, w, spot) /\ blinks[i] \in Blinks
    BY <1>1 DEF Listed
  <2>2. InStep(blinks[i], w) => InStep(blinks'[i], w + 1)
    BY <1>1, <1>3, InStepTicks
  <2>3. w >= WAIT /\ OwnStep(blinks[i], w) => OwnStep(blinks'[i], w + 1)
    BY <1>1, <1>3, OwnStepTicks
  <2> QED
    BY <1>4, <2>1, <2>2, <2>3 DEF RightAt
<1>7. w + 1 < 3 * WAIT => w < 3 * WAIT
  BY DEF WAIT
<1> HIDE DEF n
<1>8. /\ \A i, j \in 1 .. n : blinks'[i].location = blinks'[j].location => i = j
      /\ \A i \in 1 .. n :
           /\ screen'[blinks'[i].location] = Glowing(blinks'[i])
           /\ RightAt(blinks'[i], first, second, w + 1, spot)
  BY <1>4, <1>5, <1>6 DEF Listed, n
<1>9. /\ \A l \in DOMAIN screen' :
           IF l = Spot THEN spot # "none"
           ELSE /\ l \in Locations(first) \cup Locations(second)
                /\ \E i \in 1 .. n : blinks'[i].location = l
      /\ Locations(first) \cup Locations(second) \subseteq DOMAIN screen'
      /\ spot # "none" /\ w + 1 < 3 * WAIT => \E i \in 1 .. n : blinks'[i].location = Spot
  BY <1>2, <1>4, <1>7 DEF Listed, n
<1>10. spot = "none" /\ n > 0 => n <= blinks'[1].location - Corner + 1
  <2>1. n > 0 => 1 \in 1 .. n
    BY <1>1
  <2> QED
    BY <1>4, <2>1 DEF Listed, n
<1> QED
  BY <1>3, <1>8, <1>9, <1>10 DEF Listed

(* What an add that is not refused leaves. *)
InFront(l, c0, c1, n0, n1) ==
  /\ Len(blinks') = Len(blinks) + 1
  /\ \A i \in 1 .. Len(blinks) : blinks'[i + 1] = blinks[i]
  /\ \A i \in 1 .. Len(blinks') : i = 1 \/ (i - 1 \in 1 .. Len(blinks) /\ blinks'[i] = blinks[i - 1])
  /\ blinks'[1].location = l /\ blinks'[1].on_char = c0 /\ blinks'[1].off_char = c1
  /\ blinks'[1].on_length = n0 /\ blinks'[1].off_length = n1
  /\ blinks'[1].countdown = n0 /\ blinks'[1].on
  /\ DOMAIN screen' = DOMAIN screen \cup {l} /\ screen'[l] = c0
  /\ \A k \in DOMAIN screen : k # l => screen'[k] = screen[k]

LEMMA Added ==
  ASSUME FishInv, NEW l \in Nat, l < SCREEN, NEW c0 \in Glyphs, NEW c1 \in Glyphs,
         NEW n0 \in Phase, NEW n1 \in Phase,
         Len(blinks) < SCREEN, mp1_ioctl_add(Blink(l, c0, c1, n0, n1))
  PROVE  InFront(l, c0, c1, n0, n1)
<1> DEFINE b == Blink(l, c0, c1, n0, n1)
           new == [b EXCEPT !.on = TRUE, !.countdown = b.on_length]
<1>0. /\ b \in Passed /\ b.location = l /\ b.on_char = c0 /\ b.off_char = c1
      /\ b.on_length = n0 /\ b.off_length = n1
  BY PassedIs DEF Blink
<1> HIDE DEF b
<1>1. /\ ~(b.location >= SCREEN) /\ ~(Len(blinks) = SCREEN)
  <2> DEFINE n == Len(blinks)
  <2>1. SCREEN = 2000 /\ n \in Nat /\ n < SCREEN
    BY ListIs DEF SCREEN
  <2> HIDE DEF n
  <2>2. ~(l >= SCREEN) /\ ~(n = SCREEN)
    BY <2>1
  <2> QED
    BY <1>0, <2>2 DEF n
<1>2. blinks' = <<new>> \o blinks /\ Shown(l, c0)
  BY <1>0, <1>1 DEF mp1_ioctl_add, b
<1>3. /\ new.location = l /\ new.on_char = c0 /\ new.off_char = c1
      /\ new.on_length = n0 /\ new.off_length = n1 /\ new.countdown = n0 /\ new.on
  BY <1>0 DEF Passed
<1>4. new \in Blinks /\ blinks \in Seq(Blinks)
  <2>1. l \in 0 .. SCREEN - 1
    <3>1. SCREEN = 2000
      BY DEF SCREEN
    <3> QED
      BY <3>1
  <2>2. blinks \in Seq(Blinks)
    BY DEF FishInv
  <2>3. new \in Blinks
    BY <1>0, <2>1 DEF Blinks, Passed
  <2> QED
    BY <2>2, <2>3
<1> HIDE DEF new
<1>5. /\ Len(blinks') = Len(blinks) + 1 /\ Len(blinks) \in Nat
      /\ \A i \in 1 .. Len(blinks') : blinks'[i] = IF i = 1 THEN new ELSE blinks[i - 1]
  BY <1>2, <1>4
<1>6. \A i \in 1 .. Len(blinks) : blinks'[i + 1] = blinks[i]
  <2> SUFFICES ASSUME NEW i \in 1 .. Len(blinks) PROVE blinks'[i + 1] = blinks[i]
    OBVIOUS
  <2>1. i + 1 \in 1 .. Len(blinks') /\ i + 1 # 1 /\ (i + 1) - 1 = i
    BY <1>5
  <2> QED
    BY <1>5, <2>1
<1>7. \A i \in 1 .. Len(blinks') : i = 1 \/ (i - 1 \in 1 .. Len(blinks) /\ blinks'[i] = blinks[i - 1])
  BY <1>5
<1>8. blinks'[1] = new
  BY <1>5
<1>9. /\ DOMAIN screen' = DOMAIN screen \cup {l} /\ screen'[l] = c0
      /\ \A k \in DOMAIN screen : k # l => screen'[k] = screen[k]
  BY <1>2 DEF Shown
<1> QED
  BY <1>3, <1>5, <1>6, <1>7, <1>8, <1>9 DEF InFront

(* What is drawn and not a blank. *)
Mark(l, c) == IF c = SPACE THEN {} ELSE {[location |-> l, char |-> c]}

LEMMA MarkIs ==
  ASSUME NEW drawing, NEW l, NEW c
  PROVE  /\ \A k : k \in Locations(drawing \cup Mark(l, c)) <=> k \in Locations(drawing) \/ (k = l /\ c # SPACE)
         /\ \A m : m \in drawing \cup Mark(l, c) <=>
                     m \in drawing \/ (c # SPACE /\ m = [location |-> l, char |-> c])
<1>1. \A m : m \in Mark(l, c) <=> c # SPACE /\ m = [location |-> l, char |-> c]
  BY DEF Mark
<1>2. [location |-> l, char |-> c].location = l
  OBVIOUS
<1> QED
  BY <1>1, <1>2, Zenon DEF Locations

(* A character of the drawings, behind all that were added. *)
LEMMA DrawnLists ==
  ASSUME FishInv, NEW first, NEW second, Listed(blinks, screen, first, second, 0, "none"),
         NEW l \in Nat, l >= Corner, l < SCREEN, l # Spot, \A k \in DOMAIN screen : k < l,
         NEW c0 \in Glyphs, NEW c1 \in Glyphs, ~(c0 = SPACE /\ c1 = SPACE),
         mp1_ioctl_add(Blink(l, c0, c1, 15, 15))
  PROVE  Listed(blinks', screen', first \cup Mark(l, c0), second \cup Mark(l, c1), 0, "none")
<1> DEFINE n == Len(blinks)
           drawn0 == first \cup Mark(l, c0)
           drawn1 == second \cup Mark(l, c1)
<1>1. /\ n \in Nat /\ Corner = 40 /\ SCREEN = 2000
      /\ \A i \in 1 .. n : blinks[i].location \in DOMAIN screen /\ blinks[i].location \in Nat
      /\ \A i \in 1 .. n : blinks[i].location < l
  BY ListIs DEF Corner, SCREEN
<1>2. n <= l - Corner
  <2>1. CASE n = 0
    BY <1>1, <2>1
  <2>2. CASE n # 0
    <3> DEFINE m == blinks[1].location
    <3>1. 1 \in 1 .. n
      BY <1>1, <2>2
    <3>2. m < l /\ m \in Nat
      BY <1>1, <3>1
    <3>3. n <= m - Corner + 1
      BY <1>1, <2>2 DEF Listed
    <3> HIDE DEF m, n
    <3> QED
      BY <1>1, <3>2, <3>3
  <2> QED
    BY <2>1, <2>2
<1>3. n < SCREEN /\ 15 \in Phase
  <2> HIDE DEF n
  <2> QED
    BY <1>1, <1>2 DEF Phase
<1>4. /\ Len(blinks') = n + 1
      /\ \A i \in 1 .. n : blinks'[i + 1] = blinks[i]
      /\ \A i \in 1 .. n + 1 : i = 1 \/ (i - 1 \in 1 .. n /\ blinks'[i] = blinks[i - 1])
      /\ blinks'[1].location = l /\ blinks'[1].on_char = c0 /\ blinks'[1].off_char = c1
      /\ blinks'[1].on_length = 15 /\ blinks'[1].off_length = 15
      /\ blinks'[1].countdown = 15 /\ blinks'[1].on
      /\ DOMAIN screen' = DOMAIN screen \cup {l} /\ screen'[l] = c0
      /\ \A k \in DOMAIN screen : k # l => screen'[k] = screen[k]
  <2>1. InFront(l, c0, c1, 15, 15)
    BY <1>3, Added
  <2>2. \A i \in 1 .. n + 1 : i = 1 \/ (i - 1 \in 1 .. n /\ blinks'[i] = blinks[i - 1])
    BY <2>1 DEF InFront
  <2> QED
    BY <2>1, <2>2 DEF InFront
<1>5. /\ Locations(drawn0) \cup Locations(drawn1) = Locations(first) \cup Locations(second) \cup {l}
      /\ l \notin Locations(first) /\ l \notin Locations(second)
  <2>1. Locations(first) \cup Locations(second) \subseteq DOMAIN screen /\ l \notin DOMAIN screen
    BY DEF Listed
  <2>2. \A k : k \in Locations(drawn0) <=> k \in Locations(first) \/ (k = l /\ c0 # SPACE)
    BY MarkIs
  <2>3. \A k : k \in Locations(drawn1) <=> k \in Locations(second) \/ (k = l /\ c1 # SPACE)
    BY MarkIs
  <2> HIDE DEF drawn0, drawn1
  <2> QED
    BY <2>1, <2>2, <2>3
<1>6. ASSUME NEW drawing \in {first, second}, NEW c, NEW k, NEW d
      PROVE  /\ k # l /\ HasChar(drawing, k, d) => HasChar(drawing \cup Mark(l, c), k, d)
             /\ HasChar(drawing \cup Mark(l, c), l, c)
  <2> DEFINE m0 == [location |-> l, char |-> c]
             D == drawing \cup Mark(l, c)
  <2>1. \A m \in drawing : m.location # l
    BY <1>5 DEF Locations
  <2>2. m0.location = l /\ m0.char = c
    OBVIOUS
  <2> HIDE DEF m0
  <2>3. /\ \A i : i \in Locations(D) <=> i \in Locations(drawing) \/ (i = l /\ c # SPACE)
        /\ \A m : m \in D <=> m \in drawing \/ (c # SPACE /\ m = m0)
    BY MarkIs DEF m0
  <2> HIDE DEF D
  <2>4. k # l /\ HasChar(drawing, k, d) => HasChar(D, k, d)
    BY <2>2, <2>3 DEF HasChar
  <2>5. HasChar(D, l, c)
    BY <1>5, <2>1, <2>2, <2>3 DEF HasChar
  <2> QED
    BY <2>4, <2>5 DEF D
<1>7. InStep(blinks'[1], 0)
  BY <1>4 DEF InStep, On
<1>8. RightAt(blinks'[1], drawn0, drawn1, 0, "none")
  BY <1>4, <1>6, <1>7 DEF RightAt
<1>9. ASSUME NEW i \in 1 .. n
      PROVE  /\ RightAt(blinks[i], drawn0, drawn1, 0, "none") /\ blinks[i].location # l
             /\ screen'[blinks[i].location] = Glowing(blinks[i])
  <2>1. /\ blinks[i].location # l /\ blinks[i].location \in DOMAIN screen
    BY <1>1
  <2>2. RightAt(blinks[i], first, second, 0, "none") /\ screen[blinks[i].location] = Glowing(blinks[i])
    BY DEF Listed
  <2> QED
    BY <1>4, <1>6, <2>1, <2>2 DEF RightAt
<1>10. Glowing(blinks'[1]) = c0
  BY <1>4 DEF Glowing
<1>11. \A i, j \in 1 .. n + 1 : blinks'[i].location = blinks'[j].location => i = j
  <2> SUFFICES ASSUME NEW i \in 1 .. n + 1, NEW j \in 1 .. n + 1, blinks'[i].location = blinks'[j].location
               PROVE  i = j
    OBVIOUS
  <2>1. CASE i = 1 \/ j = 1
    <3>1. \A k \in 1 .. n + 1 : k = 1 \/ blinks'[k].location # l
      <4> SUFFICES ASSUME NEW k \in 1 .. n + 1, k # 1 PROVE blinks'[k].location # l
        OBVIOUS
      <4>1. k - 1 \in 1 .. n /\ blinks'[k] = blinks[k - 1]
        BY <1>4
      <4> HIDE DEF n, drawn0, drawn1
      <4> QED
        BY <1>9, <4>1
    <3>2. blinks'[1].location = l
      BY <1>4
    <3> QED
      BY <2>1, <3>1, <3>2, Zenon
  <2>2. CASE i # 1 /\ j # 1
    <3>1. /\ i - 1 \in 1 .. n /\ j - 1 \in 1 .. n
          /\ blinks[i - 1].location = blinks[j - 1].location
      BY <1>4, <2>2
    <3>2. i - 1 = j - 1
      BY <3>1 DEF Listed
    <3> QED
      BY <1>1, <3>2
  <2> QED
    BY <2>1, <2>2
<1>12. \A i \in 1 .. n + 1 :
         /\ screen'[blinks'[i].location] = Glowing(blinks'[i])
         /\ RightAt(blinks'[i], drawn0, drawn1, 0, "none")
  <2> SUFFICES ASSUME NEW i \in 1 .. n + 1
               PROVE  /\ screen'[blinks'[i].location] = Glowing(blinks'[i])
                      /\ RightAt(blinks'[i], drawn0, drawn1, 0, "none")
    OBVIOUS
  <2> HIDE DEF n, drawn0, drawn1
  <2>1. CASE i = 1
    BY <1>4, <1>8, <1>10, <2>1
  <2>2. CASE i # 1
    <3>1. i - 1 \in 1 .. n /\ blinks'[i] = blinks[i - 1]
      BY <1>4, <2>2
    <3> QED
      BY <1>9, <3>1
  <2> QED
    BY <2>1, <2>2
<1>13. ASSUME NEW k \in DOMAIN screen'
       PROVE  /\ k # Spot /\ k \in Locations(drawn0) \cup Locations(drawn1)
              /\ \E i \in 1 .. n + 1 : blinks'[i].location = k
  <2>1. CASE k = l
    <3>1. 1 \in 1 .. n + 1
      BY <1>1
    <3> QED
      BY <1>4, <1>5, <2>1, <3>1
  <2>2. CASE k # l
    <3>1. k \in DOMAIN screen
      BY <1>4, <2>2
    <3>2. k # Spot /\ k \in Locations(first) \cup Locations(second)
      BY <3>1 DEF Listed
    <3>3. PICK i \in 1 .. n : blinks[i].location = k
      BY <3>1, <3>2 DEF Listed
    <3>4. i + 1 \in 1 .. n + 1 /\ blinks'[i + 1].location = k
      BY <1>1, <1>4, <3>3
    <3> QED
      BY <1>5, <3>2, <3>4
  <2> QED
    BY <2>1, <2>2
<1>14. Locations(drawn0) \cup Locations(drawn1) \subseteq DOMAIN screen'
  BY <1>4, <1>5 DEF Listed
<1>15. n + 1 <= l - Corner + 1
  BY <1>1, <1>2 DEF Corner
<1> HIDE DEF n, drawn0, drawn1
<1>16. Listed(blinks', screen', drawn0, drawn1, 0, "none")
  BY <1>4, <1>11, <1>12, <1>13, <1>14, <1>15 DEF Listed
<1> QED
  BY <1>16 DEF drawn0, drawn1

(* What main adds of its own blinks in its own time.                       *)
LEMMA SpotAdd ==
  ASSUME FishInv, NEW first, NEW second, Listed(blinks, screen, first, second, WAIT, "none"),
         mp1_ioctl_add(Blink(Spot, "I", "M", 7, 6))
  PROVE  Listed(blinks', screen', first, second, WAIT, "own")
<1> DEFINE n == Len(blinks)
<1>1. /\ n \in Nat /\ Corner = 40 /\ SCREEN = 2000 /\ Spot = 540
      /\ \A i \in 1 .. n : blinks[i].location \in DOMAIN screen /\ blinks[i].location < SCREEN
                           /\ blinks[i].location \in Nat
  BY ListIs DEF Corner, SCREEN, Spot, COLS
<1>2. Spot \notin DOMAIN screen
  BY DEF Listed
<1>3. n < SCREEN
  <2>1. CASE n = 0
    BY <1>1, <2>1
  <2>2. CASE n # 0
    <3> DEFINE m == blinks[1].location
    <3>1. 1 \in 1 .. n
      BY <1>1, <2>2
    <3>2. m < SCREEN /\ m \in Nat
      BY <1>1, <3>1
    <3>3. n <= m - Corner + 1
      BY <1>1, <2>2 DEF Listed
    <3> HIDE DEF m, n
    <3> QED
      BY <1>1, <3>2, <3>3
  <2> QED
    BY <2>1, <2>2
<1>4. InFront(Spot, "I", "M", 7, 6)
  <2>1. Spot \in Nat /\ Spot < SCREEN /\ "I" \in Glyphs /\ "M" \in Glyphs /\ 7 \in Phase /\ 6 \in Phase
    BY <1>1 DEF Glyphs, Phase
  <2> QED
    BY <1>3, <2>1, Added
<1>5. /\ Len(blinks') = n + 1
      /\ \A i \in 1 .. n : blinks'[i + 1] = blinks[i]
      /\ \A i \in 1 .. n + 1 : i = 1 \/ (i - 1 \in 1 .. n /\ blinks'[i] = blinks[i - 1])
      /\ blinks'[1].location = Spot /\ blinks'[1].on_char = "I" /\ blinks'[1].off_char = "M"
      /\ DOMAIN screen' = DOMAIN screen \cup {Spot} /\ screen'[Spot] = Glowing(blinks'[1])
      /\ \A k \in DOMAIN screen : k # Spot => screen'[k] = screen[k]
  <2>1. \A i \in 1 .. n + 1 : i = 1 \/ (i - 1 \in 1 .. n /\ blinks'[i] = blinks[i - 1])
    BY <1>4 DEF InFront
  <2>2. screen'[Spot] = Glowing(blinks'[1])
    BY <1>4 DEF InFront, Glowing
  <2> QED
    BY <1>4, <2>1, <2>2 DEF InFront
<1>6. RightAt(blinks'[1], first, second, WAIT, "own")
  <2>1. (WAIT - WAIT) % 13 = 0
    BY DEF WAIT
  <2>2. OwnStep(blinks'[1], WAIT)
    BY <1>4, <2>1 DEF OwnStep, InFront
  <2> QED
    BY <1>5, <2>2 DEF RightAt
<1>7. ASSUME NEW i \in 1 .. n
      PROVE  /\ RightAt(blinks[i], first, second, WAIT, "own") /\ blinks[i].location # Spot
             /\ screen'[blinks[i].location] = Glowing(blinks[i])
  <2>1. /\ blinks[i].location # Spot /\ blinks[i].location \in DOMAIN screen
    BY <1>1, <1>2
  <2>2. RightAt(blinks[i], first, second, WAIT, "none") /\ screen[blinks[i].location] = Glowing(blinks[i])
    BY DEF Listed
  <2> QED
    BY <1>5, <2>1, <2>2 DEF RightAt
<1>8. \A i, j \in 1 .. n + 1 : blinks'[i].location = blinks'[j].location => i = j
  <2> SUFFICES ASSUME NEW i \in 1 .. n + 1, NEW j \in 1 .. n + 1, blinks'[i].location = blinks'[j].location
               PROVE  i = j
    OBVIOUS
  <2>1. CASE i = 1 \/ j = 1
    <3>1. \A k \in 1 .. n + 1 : k = 1 \/ blinks'[k].location # Spot
      <4> SUFFICES ASSUME NEW k \in 1 .. n + 1, k # 1 PROVE blinks'[k].location # Spot
        OBVIOUS
      <4>1. k - 1 \in 1 .. n /\ blinks'[k] = blinks[k - 1]
        BY <1>5
      <4> HIDE DEF n
      <4> QED
        BY <1>7, <4>1
    <3>2. blinks'[1].location = Spot
      BY <1>5
    <3> QED
      BY <2>1, <3>1, <3>2, Zenon
  <2>2. CASE i # 1 /\ j # 1
    <3>1. /\ i - 1 \in 1 .. n /\ j - 1 \in 1 .. n
          /\ blinks[i - 1].location = blinks[j - 1].location
      BY <1>5, <2>2
    <3>2. i - 1 = j - 1
      BY <3>1 DEF Listed
    <3> QED
      BY <1>1, <3>2
  <2> QED
    BY <2>1, <2>2
<1>9. \A i \in 1 .. n + 1 :
        /\ screen'[blinks'[i].location] = Glowing(blinks'[i])
        /\ RightAt(blinks'[i], first, second, WAIT, "own")
  <2> SUFFICES ASSUME NEW i \in 1 .. n + 1
               PROVE  /\ screen'[blinks'[i].location] = Glowing(blinks'[i])
                      /\ RightAt(blinks'[i], first, second, WAIT, "own")
    OBVIOUS
  <2> HIDE DEF n
  <2>1. CASE i = 1
    BY <1>5, <1>6, <2>1
  <2>2. CASE i # 1
    <3>1. i - 1 \in 1 .. n /\ blinks'[i] = blinks[i - 1]
      BY <1>5, <2>2
    <3> QED
      BY <1>7, <3>1
  <2> QED
    BY <2>1, <2>2
<1>10. 1 \in 1 .. n + 1
  BY <1>1
<1>11. ASSUME NEW k \in DOMAIN screen', k # Spot
       PROVE  /\ k \in Locations(first) \cup Locations(second)
              /\ \E i \in 1 .. n + 1 : blinks'[i].location = k
  <2>1. k \in DOMAIN screen
    BY <1>5, <1>11
  <2>2. k \in Locations(first) \cup Locations(second)
    BY <1>11, <2>1 DEF Listed
  <2>3. PICK i \in 1 .. n : blinks[i].location = k
    BY <1>11, <2>1 DEF Listed
  <2>4. i + 1 \in 1 .. n + 1 /\ blinks'[i + 1].location = k
    BY <1>1, <1>5, <2>3
  <2> QED
    BY <2>2, <2>4
<1>12. Locations(first) \cup Locations(second) \subseteq DOMAIN screen'
  BY <1>5 DEF Listed
<1> HIDE DEF n
<1> QED
  BY <1>5, <1>8, <1>9, <1>10, <1>11, <1>12 DEF Listed

(* Brought together, the two blink as one, if the drawings have a corner.  *)
LEMMA SpotSync ==
  ASSUME FishInv, NEW first, NEW second, Listed(blinks, screen, first, second, 2 * WAIT, "own"),
         mp1_ioctl_sync(Corner, Spot)
  PROVE  Listed(blinks', screen', first, second, 2 * WAIT, IF Corner \in DOMAIN screen THEN "drawn" ELSE "own")
<1> DEFINE n == Len(blinks)
           w == 2 * WAIT
           x == Find(Corner)
           y == Find(Spot)
<1>1. /\ n \in Nat /\ DOMAIN blinks = 1 .. n /\ blinks \in Seq(Blinks)
      /\ \A i \in 1 .. n : blinks[i] \in Blinks /\ blinks[i].location \in DOMAIN screen
  BY ListIs DEF FishInv
<1>2. Corner # Spot
  BY DEF Corner, Spot, COLS
<1>3. /\ x # 0 => x \in 1 .. n /\ blinks[x].location = Corner
      /\ y # 0 => y \in 1 .. n /\ blinks[y].location = Spot
  BY <1>1, FindIs
<1>4. \A l : (\E i \in 1 .. n : blinks[i].location = l) => Find(l) # 0
  <2> SUFFICES ASSUME NEW l, NEW i \in 1 .. n, blinks[i].location = l PROVE Find(l) # 0
    OBVIOUS
  <2> DEFINE there == {k \in DOMAIN blinks : blinks[k].location = l}
  <2>1. i \in there /\ there \in SUBSET Nat
    BY <1>1
  <2>2. Cmd!Min(there) \in there
    BY <2>1, Least
  <2>3. 0 \notin there
    BY <1>1
  <2> QED
    BY <2>1, <2>2, <2>3 DEF Find
<1>5. \E i \in 1 .. n : blinks[i].location = Spot
  <2>1. 2 * WAIT < 3 * WAIT
    BY DEF WAIT
  <2> QED
    BY <2>1 DEF Listed
<1>6. y # 0
  BY <1>4, <1>5
<1>7. x # 0 <=> Corner \in DOMAIN screen
  <2>1. Corner \in DOMAIN screen => \E i \in 1 .. n : blinks[i].location = Corner
    BY <1>2 DEF Listed
  <2> QED
    BY <1>1, <1>3, <1>4, <2>1
<1>8. CASE Corner \notin DOMAIN screen
  <2>1. blinks' = blinks /\ screen' = screen
    BY <1>7, <1>8 DEF mp1_ioctl_sync
  <2>2. Listed(blinks, screen, first, second, w, "own")
    OBVIOUS
  <2> HIDE DEF n, w, x, y
  <2>3. Listed(blinks', screen', first, second, w, "own")
    BY <2>1, <2>2 DEF Listed
  <2> QED
    BY <1>8, <2>1, <2>3 DEF w
<1>9. CASE Corner \in DOMAIN screen
  <2> DEFINE b == blinks[y]
             c == Synced(blinks[x], b)
  <2>1. x \in 1 .. n /\ y \in 1 .. n /\ blinks[x].location = Corner /\ b.location = Spot
    BY <1>3, <1>6, <1>7, <1>9
  <2>2. blinks' = [blinks EXCEPT ![y] = c] /\ Shown(Spot, b.off_char)
    BY <1>6, <1>7, <1>9 DEF mp1_ioctl_sync
  <2>3. /\ RightAt(blinks[x], first, second, w, "own") /\ RightAt(b, first, second, w, "own")
        /\ blinks[x] \in Blinks /\ b \in Blinks
    BY <1>1, <2>1 DEF Listed
  <2>4. InStep(blinks[x], w) /\ b.on_char = "I" /\ b.off_char = "M"
    BY <1>2, <2>1, <2>3 DEF RightAt
  <2> HIDE DEF b, x, y
  <2>5. /\ c.location = Spot /\ c.on_char = "I" /\ c.off_char = "M"
        /\ c.on_length = blinks[x].on_length /\ c.off_length = blinks[x].off_length
        /\ c.countdown = blinks[x].countdown /\ c.on = blinks[x].on
    BY <2>1, <2>3, <2>4 DEF Synced, Blinks
  <2> HIDE DEF c
  <2>6. InStep(c, w) /\ Glowing(c) = "M"
    <3>1. ~On(w, 15, 30)
      BY DEF On, w, WAIT
    <3>2. InStep(c, w)
      BY <2>4, <2>5 DEF InStep
    <3> QED
      BY <2>5, <3>1, <3>2 DEF InStep, Glowing
  <2>7. Len(blinks') = n /\ \A i \in 1 .. n : blinks'[i] = IF i = y THEN c ELSE blinks[i]
    <3> HIDE DEF n
    <3> QED
      BY <1>1, <2>1, <2>2 DEF n
  <2>8. \A i \in 1 .. n : blinks'[i].location = blinks[i].location
    BY <2>1, <2>5, <2>7 DEF b
  <2>9. /\ DOMAIN screen' = DOMAIN screen /\ screen'[Spot] = "M"
        /\ \A l \in DOMAIN screen : l # Spot => screen'[l] = screen[l]
    BY <1>1, <2>1, <2>2, <2>4 DEF Shown, b
  <2>10. \A i \in 1 .. n : i # y => blinks[i].location # Spot
    BY <2>1 DEF Listed, b
  <2>11. ASSUME NEW i \in 1 .. n
         PROVE  /\ screen'[blinks'[i].location] = Glowing(blinks'[i])
                /\ RightAt(blinks'[i], first, second, w, "drawn")
    <3>1. CASE i = y
      BY <2>5, <2>6, <2>7, <2>9, <3>1 DEF RightAt
    <3>2. CASE i # y
      <4>1. blinks'[i] = blinks[i] /\ blinks[i].location # Spot
        BY <2>7, <2>10, <3>2
      <4>2. /\ RightAt(blinks[i], first, second, w, "own") /\ screen[blinks[i].location] = Glowing(blinks[i])
            /\ blinks[i].location \in DOMAIN screen
        BY <1>1 DEF Listed
      <4> QED
        BY <2>9, <4>1, <4>2 DEF RightAt
    <3> QED
      BY <3>1, <3>2
  <2>12. \A i, j \in 1 .. n : blinks'[i].location = blinks'[j].location => i = j
    BY <2>8 DEF Listed
  <2>13. \A l \in DOMAIN screen' :
           l # Spot => /\ l \in Locations(first) \cup Locations(second)
                       /\ \E i \in 1 .. n : blinks'[i].location = l
    BY <2>8, <2>9 DEF Listed
  <2>14. Locations(first) \cup Locations(second) \subseteq DOMAIN screen'
    BY <2>9 DEF Listed
  <2>15. \E i \in 1 .. n : blinks'[i].location = Spot
    BY <1>5, <2>8
  <2> HIDE DEF n, w
  <2>16. Listed(blinks', screen', first, second, w, "drawn")
    BY <2>7, <2>11, <2>12, <2>13, <2>14, <2>15 DEF Listed
  <2> QED
    BY <1>9, <2>9, <2>16 DEF w
<1> QED
  BY <1>8, <1>9

(* Removed, it stays on the screen as it was.                              *)
LEMMA SpotRemove ==
  ASSUME FishInv, NEW first, NEW second, NEW spot \in {"own", "drawn"},
         Listed(blinks, screen, first, second, 3 * WAIT, spot), mp1_ioctl_remove(Spot)
  PROVE  Listed(blinks', screen', first, second, 3 * WAIT, spot)
<1> DEFINE n == Len(blinks)
           w == 3 * WAIT
           x == Find(Spot)
<1>1. /\ n \in Nat /\ DOMAIN blinks = 1 .. n /\ blinks \in Seq(Blinks)
  BY ListIs DEF FishInv
<1>2. x \in 0 .. n /\ (x # 0 => blinks[x].location = Spot)
  BY <1>1, FindIs
<1>3. screen' = screen /\ blinks' = IF x = 0 THEN blinks ELSE RemoveAt(blinks, x)
  BY DEF mp1_ioctl_remove
<1> HIDE DEF x
<1>4. CASE x = 0
  <2>1. blinks' = blinks /\ screen' = screen
    BY <1>3, <1>4
  <2>2. Listed(blinks, screen, first, second, w, spot)
    OBVIOUS
  <2> HIDE DEF n, w
  <2>3. Listed(blinks', screen', first, second, w, spot)
    BY <2>1, <2>2 DEF Listed
  <2> QED
    BY <2>3 DEF w
<1>5. CASE x # 0
  <2> DEFINE Old(i) == IF i < x THEN i ELSE i + 1
  <2>1. Len(blinks') = n - 1 /\ \A i \in 1 .. n - 1 : blinks'[i] = blinks[Old(i)]
    <3> DEFINE a == SubSeq(blinks, 1, x - 1)
               z == SubSeq(blinks, x + 1, n)
    <3>1. blinks' = a \o z
      BY <1>3, <1>5 DEF RemoveAt
    <3>2. /\ a \in Seq(Blinks) /\ Len(a) = x - 1 /\ \A k \in 1 .. x - 1 : a[k] = blinks[k]
          /\ z \in Seq(Blinks) /\ Len(z) = n - x /\ \A k \in 1 .. n - x : z[k] = blinks[x + k]
      <4>1. blinks \in Seq(Blinks) /\ x \in 1 .. Len(blinks)
        BY <1>1, <1>2, <1>5
      <4>2. a \in Seq(Blinks) /\ Len(a) = x - 1 /\ \A k \in 1 .. x - 1 : a[k] = blinks[k]
        BY <4>1
      <4>3. z \in Seq(Blinks) /\ Len(z) = n - x /\ \A k \in 1 .. n - x : z[k] = blinks[x + k]
        BY <4>1
      <4> QED
        BY <4>2, <4>3
    <3> HIDE DEF a, z, n
    <3>3. /\ Len(blinks') = n - 1
          /\ \A k \in 1 .. n - 1 : blinks'[k] = IF k <= x - 1 THEN a[k] ELSE z[k - (x - 1)]
      BY <1>1, <1>2, <1>5, <3>1, <3>2
    <3>4. ASSUME NEW k \in 1 .. n - 1 PROVE blinks'[k] = blinks[Old(k)]
      <4>1. CASE k < x
        BY <1>1, <1>2, <3>2, <3>3, <4>1
      <4>2. CASE ~(k < x)
        <5> DEFINE m == k - (x - 1)
        <5>1. m \in 1 .. n - x /\ x + m = k + 1 /\ ~(k <= x - 1)
          BY <1>1, <1>2, <4>2
        <5> HIDE DEF m
        <5>2. z[m] = blinks[k + 1]
          BY <3>2, <5>1
        <5> QED
          BY <3>3, <4>2, <5>1, <5>2 DEF m
      <4> QED
        BY <4>1, <4>2
    <3> QED
      BY <3>3, <3>4
  <2>2. \A i \in 1 .. n - 1 : Old(i) \in 1 .. n
    BY <1>1, <1>2, <1>5
  <2>3. \A i, j \in 1 .. n - 1 : Old(i) = Old(j) => i = j
    BY <1>1, <1>2, <1>5
  <2>4. \A k \in 1 .. n : k # x => \E i \in 1 .. n - 1 : Old(i) = k
    <3> SUFFICES ASSUME NEW k \in 1 .. n, k # x PROVE \E i \in 1 .. n - 1 : Old(i) = k
      OBVIOUS
    <3>1. CASE k < x
      <4>1. k \in 1 .. n - 1 /\ Old(k) = k
        BY <1>1, <1>2, <1>5, <3>1
      <4> QED
        BY <4>1
    <3>2. CASE k > x
      <4>1. k - 1 \in 1 .. n - 1 /\ Old(k - 1) = k
        BY <1>1, <1>2, <1>5, <3>2
      <4> QED
        BY <4>1
    <3> QED
      BY <1>1, <1>2, <3>1, <3>2
  <2> HIDE DEF Old
  <2>5. \A i, j \in 1 .. n - 1 : blinks'[i].location = blinks'[j].location => i = j
    BY <2>1, <2>2, <2>3 DEF Listed
  <2>6. \A i \in 1 .. n - 1 :
          /\ screen'[blinks'[i].location] = Glowing(blinks'[i])
          /\ RightAt(blinks'[i], first, second, w, spot)
    BY <1>3, <2>1, <2>2 DEF Listed
  <2>7. ASSUME NEW l \in DOMAIN screen', l # Spot
        PROVE  /\ l \in Locations(first) \cup Locations(second)
               /\ \E i \in 1 .. n - 1 : blinks'[i].location = l
    <3>1. l \in DOMAIN screen /\ l \in Locations(first) \cup Locations(second)
      BY <1>3, <2>7 DEF Listed
    <3>2. PICK k \in 1 .. n : blinks[k].location = l
      BY <2>7, <3>1 DEF Listed
    <3>3. k # x
      BY <1>2, <1>5, <2>7, <3>2
    <3>4. PICK i \in 1 .. n - 1 : Old(i) = k
      BY <2>4, <3>3
    <3> QED
      BY <2>1, <3>1, <3>2, <3>4
  <2>8. Locations(first) \cup Locations(second) \subseteq DOMAIN screen'
    BY <1>3 DEF Listed
  <2>9. ~(w < 3 * WAIT) /\ spot # "none"
    BY DEF WAIT
  <2> HIDE DEF n, w
  <2>10. Listed(blinks', screen', first, second, w, spot)
    BY <2>1, <2>5, <2>6, <2>7, <2>8, <2>9 DEF Listed
  <2> QED
    BY <2>10 DEF w
<1> QED
  BY <1>4, <1>5

-----------------------------------------------------------------------------
(***************************************************************************)
(* Where fish is in its two files.                                         *)
(***************************************************************************)
Scanning == {"read0", "read1", "blink", "close0", "close1"}
Showing == {"wait", "ioctl", "fishdone"}

(* The bytes of drawing k that were added or passed over: a byte that was  *)
(* read counts only once its column is done.                               *)
Taken(k) == (pc = "blink" \/ (pc = "read1" /\ k = 0)) /\ ch[k] # NL
Upto(k) ==
  IF eof[k] THEN Directory[FrameFile(k)].length
  ELSE file_position[frame_fd[k]] - (IF Taken(k) THEN 1 ELSE 0)

(* The next byte of a drawing is at row and col, or begins the next row.   *)
RowOver(k) == ch[k] = NL \/ (pc = "close1" /\ k = 0)
OpenedAs(k) ==
  /\ frame_fd[k] \in flags /\ entry[frame_fd[k]] = FrameFile(k)
  /\ file_position[frame_fd[k]] \in Nat

FrameInv(k) ==
  LET t == text[FrameFile(k)]
  IN IF eof[k] THEN ch[k] = NL
     ELSE /\ OpenedAs(k)
          /\ Upto(k) \in 0 .. Directory[FrameFile(k)].length
          /\ Row(t, Upto(k)) = row + (IF RowOver(k) THEN 1 ELSE 0)
          /\ Column(t, Upto(k)) = IF RowOver(k) THEN 0 ELSE col
          /\ Taken(k) => Upto(k) < Directory[FrameFile(k)].length /\ t[Upto(k)] = ch[k]

ScanInv ==
  /\ waits = 0 /\ frame_fd[0] # frame_fd[1] /\ eof \in [Both -> BOOLEAN]
  /\ DOMAIN frame_fd = Both
  /\ \A k \in Both : FrameInv(k)
  /\ pc \in {"close0", "close1"} => ch[1] = NL
  /\ pc = "close0" => ch[0] = NL
  /\ pc = "close1" /\ ~eof[0] => ch[0] # NL

OpenInv ==
  /\ row = 0 /\ col = 0 /\ waits = 0 /\ blinks = <<>> /\ screen = <<>>
  /\ eof = [k \in Both |-> FALSE] /\ ch = [k \in Both |-> Unread] /\ DOMAIN frame_fd = Both
  /\ pc = "open1" => OpenedAs(0) /\ file_position[frame_fd[0]] = 0

PlaceInv ==
  /\ pc \notin Scanning \cup Showing => OpenInv
  /\ pc \in Scanning => ScanInv
  /\ pc \in Showing => \A k \in Both : eof[k]

LEMMA SameText ==
  ASSUME NEW k, text' = text
  PROVE  /\ Marks(k)' = Marks(k) /\ Drawing(k)' = Drawing(k) /\ DrawingsFit' = DrawingsFit
         /\ text'[FrameFile(k)'] = text[FrameFile(k)]
BY DEF Marks, Drawing, DrawingsFit, FrameFile

LEMMA FrameFound ==
  ASSUME ProgramInv, NEW k \in Both
  PROVE  /\ FrameFile(k) \in TextFiles /\ Directory[FrameFile(k)].length \in Nat
         /\ Directory[FrameFile(k)].type = "file"
<1>1. PICK i \in TextFiles : Directory[i].name = Frame[k]
  BY ProgramsAssumption DEF ProgramsAssumption, Frame, Both
<1>2. i \in Fp!Indices
  BY SameConstants DEF TextFiles
<1>3. FrameFile(k) = i
  BY <1>1, <1>2, FilesOK, Fp!NamedFound, SameDentry DEF FrameFile
<1> QED
  BY <1>3, SizesOf DEF TextFiles

(* A read of one byte of a drawing. *)
LEMMA OneByte ==
  ASSUME ProgramInv, ProgramInv', ScanInv, NEW k \in Both, ~eof[k], Fs!ReadFile(frame_fd[k], 1)
  PROVE  LET pos == file_position[frame_fd[k]]
             got == answer'.got
         IN /\ \A g \in flags : g # frame_fd[k] => file_position'[g] = file_position[g]
            /\ UNCHANGED <<flags, entry>>
            /\ pos \in Nat
            /\ IF pos < Directory[FrameFile(k)].length
               THEN /\ got # <<>> /\ file_position'[frame_fd[k]] = pos + 1
                    /\ Byte(entry[frame_fd[k]], got[1]) = text[FrameFile(k)][pos]
               ELSE got = <<>> /\ file_position'[frame_fd[k]] = pos
<1> DEFINE f == frame_fd[k]
           pos == file_position[f]
           got == answer'.got
           size == Directory[FrameFile(k)].length
<1>1. OpenedAs(k)
  BY DEF ScanInv, FrameInv
<1>2. /\ pos \in Nat /\ got \in Seq(Nat) /\ Len(got) <= 1
      /\ file_position'[f] = pos + Len(got)
      /\ \A g \in flags : g # f => file_position'[g] = file_position[g]
      /\ \A j \in 1 .. Len(got) : got[j] = pos + j - 1
      /\ Len(got) = 1 \/ file_position'[f] >= size
      /\ pos >= size => got = <<>>
  BY <1>1, BytesRead DEF ProgramInv, OpenedAs
<1>3. UNCHANGED <<flags, entry>>
  BY FileRead DEF ProgramInv
<1>4. size \in Nat /\ Len(got) \in {0, 1} /\ (Len(got) = 1 => got # <<>>)
  <2>1. size \in Nat
    BY FrameFound
  <2> HIDE DEF got
  <2>2. Len(got) \in Nat /\ (Len(got) = 1 => got # <<>>)
    <3>1. Len(got) \in Nat
      BY <1>2
    <3>2. Len(<<>>) = 0
      OBVIOUS
    <3>3. ASSUME got = <<>> PROVE Len(got) # 1
      <4>1. Len(got) = 0
        BY <3>2, <3>3, Zenon
      <4> QED
        BY <4>1
    <3> QED
      BY <3>1, <3>3
  <2>3. Len(got) \in {0, 1}
    <3> DEFINE l == Len(got)
    <3>1. l \in Nat /\ l <= 1
      BY <1>2, <2>2
    <3> HIDE DEF l
    <3>2. l \in {0, 1}
      BY <3>1
    <3> QED
      BY <3>2 DEF l
  <2> QED
    BY <2>1, <2>2, <2>3
<1> HIDE DEF f, pos, got, size
<1>5. CASE pos < size
  <2>1. Len(got) = 1
    BY <1>2, <1>4, <1>5
  <2>2. got # <<>> /\ got[1] = pos
    BY <1>2, <1>4, <2>1
  <2>3. Byte(entry[f], got[1]) = text[FrameFile(k)][pos]
    BY <1>1, <1>5, <2>2 DEF Byte, OpenedAs, f, size, pos
  <2> QED
    BY <1>2, <1>3, <1>5, <2>1, <2>2, <2>3 DEF f, pos, got, size
<1>6. CASE ~(pos < size)
  <2>1. got = <<>>
    BY <1>2, <1>4, <1>6
  <2> QED
    BY <1>2, <1>3, <1>6, <2>1 DEF f, pos, got, size
<1> QED
  BY <1>5, <1>6

(* A drawing that a step leaves alone. *)
LEMMA FrameStays ==
  ASSUME NEW j \in Both, FrameInv(j), UNCHANGED <<text, row, col>>,
         eof'[j] = eof[j], eof[j] => ch'[j] = NL, Taken(j)' => ch'[j] = ch[j],
         frame_fd'[j] = frame_fd[j], Taken(j)' <=> Taken(j), RowOver(j)' <=> RowOver(j),
         ~eof[j] => /\ frame_fd[j] \in flags' /\ entry'[frame_fd[j]] = entry[frame_fd[j]]
                    /\ file_position'[frame_fd[j]] = file_position[frame_fd[j]]
  PROVE  FrameInv(j)' /\ Upto(j)' = Upto(j)
<1>1. FrameFile(j)' = FrameFile(j) /\ text'[FrameFile(j)'] = text[FrameFile(j)]
  BY SameText DEF FrameFile
<1>2. Upto(j)' = Upto(j)
  BY <1>1 DEF Upto, FrameInv
<1>3. ~eof[j] => OpenedAs(j)'
  BY <1>1 DEF OpenedAs, FrameInv
<1> QED
  BY <1>1, <1>2, <1>3 DEF FrameInv

(* What a read passes over is at most the end of a row. *)
PassesOn(j) ==
  Upto(j)' = Upto(j) \/ (Upto(j)' = Upto(j) + 1 /\ text[FrameFile(j)][Upto(j)] = NL)

LEMMA FrameRead ==
  ASSUME ProgramInv, ProgramInv', FishInv, ScanInv, NEW k \in Both, ReadFrame(k),
         text' = text, ch[k] # NL, ~Taken(k), ~RowOver(k)
  PROVE  FrameInv(k)' /\ PassesOn(k)
<1> DEFINE t == text[FrameFile(k)]
           size == Directory[FrameFile(k)].length
           f == frame_fd[k]
           pos == file_position[f]
           got == answer'.got
<1>1. pc' \notin {"close1"} /\ (pc' = "blink" \/ (pc' = "read1" /\ k = 0))
  BY DEF ReadFrame, Both
<1>2. ch \in [Both -> Glyphs] /\ eof \in [Both -> BOOLEAN] /\ FrameInv(k) /\ row \in Nat /\ col \in Nat
  BY DEF FishInv, ScanInv
<1>3. ~eof[k] /\ OpenedAs(k) /\ Upto(k) = pos
  BY <1>2 DEF FrameInv, Upto, OpenedAs
<1>4. pos \in 0 .. size /\ Row(t, pos) = row /\ Column(t, pos) = col
  BY <1>2, <1>3 DEF FrameInv
<1>5. /\ Fs!ReadFile(f, 1) /\ UNCHANGED <<frame_fd, row, col>>
      /\ ch' = [ch EXCEPT ![k] = IF got = <<>> THEN NL ELSE Byte(entry[f], got[1])]
      /\ eof' = [eof EXCEPT ![k] = eof[k] \/ got = <<>>]
  BY DEF ReadFrame
<1>6. /\ UNCHANGED <<flags, entry>> /\ pos \in Nat
      /\ IF pos < size
         THEN got # <<>> /\ file_position'[f] = pos + 1 /\ Byte(entry[f], got[1]) = t[pos]
         ELSE got = <<>> /\ file_position'[f] = pos
  BY <1>3, <1>5, OneByte
<1>7. OpenedAs(k)'
  BY <1>3, <1>5, <1>6 DEF OpenedAs, FrameFile
<1>8. size \in Nat /\ text'[FrameFile(k)'] = t
  BY FrameFound, SameText
<1>9. Taken(k)' <=> ch'[k] # NL
  BY <1>1 DEF Taken
<1>10. RowOver(k)' <=> ch'[k] = NL
  BY <1>1 DEF RowOver
<1>11. CASE pos < size
  <2>1. ch'[k] = t[pos] /\ ~eof'[k]
    BY <1>2, <1>3, <1>5, <1>6, <1>11
  <2>2. Upto(k)' = (pos + 1) - (IF t[pos] = NL THEN 0 ELSE 1)
    BY <1>5, <1>6, <1>9, <1>11, <2>1 DEF Upto
  <2>3. IF t[pos] = NL THEN Row(t, pos + 1) = row + 1 /\ Column(t, pos + 1) = 0
        ELSE Row(t, pos) = row /\ Column(t, pos) = col
    BY <1>4, <1>6, TextGoesOn
  <2> HIDE DEF pos, size, t
  <2>4. CASE t[pos] = NL
    <3>1. Upto(k)' = pos + 1 /\ pos + 1 \in 0 .. size
      BY <1>4, <1>6, <1>8, <1>11, <2>2, <2>4
    <3>2. FrameInv(k)'
      BY <1>5, <1>7, <1>8, <1>9, <1>10, <2>1, <2>3, <2>4, <3>1 DEF FrameInv, size
    <3> QED
      BY <1>3, <2>4, <3>1, <3>2 DEF PassesOn, t
  <2>5. CASE t[pos] # NL
    <3>1. Upto(k)' = pos
      BY <1>6, <2>2, <2>5
    <3>2. FrameInv(k)'
      BY <1>2, <1>4, <1>5, <1>7, <1>8, <1>9, <1>10, <1>11, <2>1, <2>3, <2>5, <3>1 DEF FrameInv, size
    <3> QED
      BY <1>3, <3>1, <3>2 DEF PassesOn
  <2> QED
    BY <2>4, <2>5
<1>12. CASE ~(pos < size)
  <2>1. pos = size
    <3> HIDE DEF pos, size
    <3> QED
      BY <1>4, <1>6, <1>8, <1>12
  <2>2. ch'[k] = NL /\ eof'[k]
    BY <1>2, <1>5, <1>6, <1>12
  <2>3. Upto(k)' = size
    BY <2>2 DEF Upto, FrameFile
  <2> QED
    BY <1>3, <2>1, <2>2, <2>3 DEF FrameInv, PassesOn
<1> QED
  BY <1>11, <1>12

LEMMA ReadPlace ==
  ASSUME ProgramInv, ProgramInv', FishInv, PlaceInv, NEW k \in Both, ReadFrame(k), text' = text
  PROVE  PlaceInv' /\ \A j \in Both : PassesOn(j)
<1>1. /\ pc = (IF k = 0 THEN "read0" ELSE "read1") /\ pc' = (IF k = 0 THEN "read1" ELSE "blink")
      /\ UNCHANGED <<frame_fd, row, col, waits>>
  BY DEF ReadFrame, Both
<1>2. ScanInv
  BY <1>1 DEF PlaceInv, Scanning
<1>3. ch \in [Both -> Glyphs] /\ eof \in [Both -> BOOLEAN]
  BY <1>2 DEF FishInv, ScanInv
<1>4. \A j \in Both : ~RowOver(j) <=> ch[j] # NL
  BY <1>1 DEF RowOver
<1>5. \A j \in Both : RowOver(j)' <=> ch'[j] = NL
  BY <1>1 DEF RowOver
<1>6. ~Taken(k)
  BY <1>1 DEF Taken, Both
<1>7. \A j \in Both : j # k => ch'[j] = ch[j] /\ eof'[j] = eof[j]
  BY <1>3 DEF ReadFrame
<1>8. ASSUME NEW j \in Both, j # k PROVE Taken(j)' <=> Taken(j)
  <2>1. (pc' = "blink" \/ (pc' = "read1" /\ j = 0)) <=> (pc = "blink" \/ (pc = "read1" /\ j = 0))
    BY <1>1, <1>8 DEF Both
  <2> QED
    BY <1>7, <1>8, <2>1 DEF Taken
<1>9. ~eof[k] \/ ch[k] = NL
  BY <1>2 DEF ScanInv, FrameInv
<1>10. CASE ch[k] = NL
  <2>1. UNCHANGED <<flags, entry, file_position, ch, eof>>
    BY <1>10 DEF ReadFrame, files
  <2>2. \A j \in Both : FrameInv(j) /\ (~eof[j] => frame_fd[j] \in flags) /\ (eof[j] => ch[j] = NL)
    BY <1>2 DEF ScanInv, FrameInv, OpenedAs
  <2>3. ASSUME NEW j \in Both PROVE FrameInv(j)' /\ Upto(j)' = Upto(j)
    <3>1. Taken(j)' <=> Taken(j)
      BY <1>6, <1>8, <1>10, <2>1 DEF Taken
    <3>2. RowOver(j)' <=> RowOver(j)
      BY <1>4, <1>5, <2>1
    <3> QED
      BY <1>1, <2>1, <2>2, <3>1, <3>2, FrameStays
  <2> QED
    BY <1>1, <1>2, <2>1, <2>3 DEF PlaceInv, ScanInv, PassesOn, Scanning, Showing
<1>11. CASE ch[k] # NL
  <2>1. FrameInv(k)' /\ PassesOn(k)
    BY <1>2, <1>4, <1>6, <1>11, FrameRead
  <2>2. \A g \in flags : g # frame_fd[k] => file_position'[g] = file_position[g]
    BY <1>2, <1>9, <1>11, OneByte DEF ReadFrame
  <2>3. UNCHANGED <<flags, entry>>
    BY <1>2, <1>9, <1>11, OneByte DEF ReadFrame
  <2>4. ASSUME NEW j \in Both, j # k PROVE FrameInv(j)' /\ Upto(j)' = Upto(j)
    <3>1. FrameInv(j) /\ (~eof[j] => frame_fd[j] \in flags) /\ (eof[j] => ch[j] = NL)
      BY <1>2 DEF ScanInv, FrameInv, OpenedAs
    <3>2. Taken(j)' <=> Taken(j)
      BY <1>8, <2>4
    <3>3. RowOver(j)' <=> RowOver(j)
      BY <1>4, <1>5, <1>7, <2>4
    <3>4. frame_fd[j] # frame_fd[k]
      BY <1>2, <2>4 DEF ScanInv, Both
    <3> QED
      BY <1>1, <1>7, <2>2, <2>3, <2>4, <3>1, <3>2, <3>3, <3>4, FrameStays
  <2>5. eof' \in [Both -> BOOLEAN]
    BY <1>3, <1>11 DEF ReadFrame
  <2> QED
    BY <1>1, <1>2, <2>1, <2>4, <2>5 DEF PlaceInv, ScanInv, PassesOn, Scanning, Showing
<1> QED
  BY <1>10, <1>11

LEMMA OpenPlace ==
  ASSUME ProgramInv, FishInv, PlaceInv, NEW k \in Both, OpenFrame(k), text' = text
  PROVE  PlaceInv' /\ (pc' \in Scanning => OpenInv /\ \A j \in Both : Upto(j)' = 0)
<1> DEFINE f == Fs!LowestFree
           i == FrameFile(k)
<1>1. /\ pc = (IF k = 0 THEN "open0" ELSE "open1") /\ pc' = (IF k = 0 THEN "open1" ELSE "read0")
      /\ Fs!Open(Frame[k]) /\ frame_fd' = [frame_fd EXCEPT ![k] = f]
      /\ UNCHANGED <<ch, eof, row, col, waits, blinks, screen>>
  BY DEF OpenFrame, Both
<1>2. OpenInv
  BY <1>1 DEF PlaceInv, Scanning, Showing
<1>3. /\ f \in flags' /\ file_position'[f] = 0
  BY <1>1, Opened, SomeNames DEF ProgramInv
<1>4. flags' = flags \cup {f} /\ entry' = [entry EXCEPT ![f] = i] /\ file_position' = file_position
      /\ flags # Fs!Fds
  BY <1>1 DEF Fs!Open, Fs!SetInode, FrameFile
<1>5. f \in Fs!Fds /\ f \notin flags /\ DOMAIN entry = Fs!Fds
  BY <1>4, FilesOK, SameConstants, SameLowest, Fp!LowestFreeFound DEF ProgramInv, Fp!ReadInv, Fp!IInv
<1>6. FrameFile(k)' = i
  BY DEF FrameFile
<1> HIDE DEF f, i
<1>7. OpenedAs(k)' /\ file_position'[frame_fd'[k]] = 0
  <2>1. frame_fd'[k] = f /\ entry'[f] = i
    BY <1>1, <1>2, <1>4, <1>5 DEF OpenInv
  <2> QED
    BY <1>3, <1>6, <2>1 DEF OpenedAs
<1>8. DOMAIN frame_fd' = Both
  BY <1>1, <1>2 DEF OpenInv
<1>9. CASE k = 0
  BY <1>1, <1>2, <1>7, <1>8, <1>9 DEF PlaceInv, OpenInv, Scanning, Showing
<1>10. CASE k = 1
  <2>1. OpenedAs(0) /\ file_position[frame_fd[0]] = 0 /\ frame_fd'[0] = frame_fd[0]
    BY <1>1, <1>2, <1>10 DEF OpenInv, Both
  <2>2. frame_fd[0] # f /\ entry'[frame_fd[0]] = entry[frame_fd[0]] /\ frame_fd'[1] = f
    BY <1>1, <1>2, <1>4, <1>5, <1>10, <2>1 DEF OpenedAs, OpenInv, Both
  <2>3. OpenedAs(0)' /\ file_position'[frame_fd'[0]] = 0
    BY <1>4, <2>1, <2>2 DEF OpenedAs, FrameFile
  <2>4. ASSUME NEW j \in Both PROVE FrameInv(j)' /\ Upto(j)' = 0
    <3>1. OpenedAs(j)' /\ file_position'[frame_fd'[j]] = 0
      BY <1>7, <1>10, <2>3 DEF Both
    <3>2. ~Taken(j)' /\ ~RowOver(j)' /\ ~eof'[j] /\ row' = 0 /\ col' = 0
      BY <1>1, <1>2, <1>10, ProgramsAssumption DEF Taken, RowOver, OpenInv, ProgramsAssumption
    <3>3. Upto(j)' = 0
      <4>1. Upto(j)' = file_position'[frame_fd'[j]] - 0
        BY <3>2 DEF Upto
      <4> QED
        BY <3>1, <4>1
    <3>4. Directory[FrameFile(j)].length \in Nat /\ text'[FrameFile(j)'] = text[FrameFile(j)]
          /\ FrameFile(j)' = FrameFile(j)
      BY FrameFound, SameText DEF FrameFile
    <3> QED
      BY <3>1, <3>2, <3>3, <3>4, TextBegins DEF FrameInv
  <2>5. eof' \in [Both -> BOOLEAN]
    BY <1>1, <1>2 DEF OpenInv
  <2> QED
    BY <1>1, <1>2, <1>8, <1>10, <2>2, <2>4, <2>5 DEF PlaceInv, OpenInv, ScanInv, Scanning, Showing
<1> QED
  BY <1>9, <1>10 DEF Both

LEMMA AddPlace ==
  ASSUME ProgramInv, FishInv, PlaceInv, AddBlink, text' = text
  PROVE  /\ PlaceInv'
         /\ \A j \in Both : Upto(j)' = IF ch[j] = NL THEN Upto(j) ELSE Upto(j) + 1
<1>1. /\ pc = "blink" /\ pc' = "read0" /\ col' = col + 1
      /\ UNCHANGED <<flags, entry, file_position, frame_fd, ch, eof, row, waits>>
  BY DEF AddBlink, files
<1>2. ScanInv /\ col \in Nat
  BY <1>1 DEF PlaceInv, Scanning, FishInv
<1>3. ASSUME NEW j \in Both
      PROVE  /\ Upto(j)' = (IF ch[j] = NL THEN Upto(j) ELSE Upto(j) + 1)
             /\ FrameInv(j)'
  <2> DEFINE t == text[FrameFile(j)]
             size == Directory[FrameFile(j)].length
             n == Upto(j)
  <2>1. FrameInv(j) /\ size \in Nat
    BY <1>2, FrameFound DEF ScanInv
  <2>2. FrameFile(j)' = FrameFile(j) /\ text'[FrameFile(j)'] = t
    BY SameText DEF FrameFile
  <2>3. (Taken(j) <=> ch[j] # NL) /\ ~Taken(j)' /\ (RowOver(j) <=> ch[j] = NL) /\ (RowOver(j)' <=> ch[j] = NL)
    BY <1>1 DEF Taken, RowOver
  <2>4. CASE eof[j]
    <3>1. Upto(j)' = Upto(j) /\ ch[j] = NL
      BY <1>1, <2>1, <2>2, <2>4 DEF Upto, FrameInv
    <3> QED
      BY <1>1, <2>4, <3>1 DEF FrameInv
  <2>5. CASE ~eof[j]
    <3>1. /\ OpenedAs(j) /\ OpenedAs(j)' /\ n \in 0 .. size
          /\ Row(t, n) = row + (IF RowOver(j) THEN 1 ELSE 0)
          /\ Column(t, n) = (IF RowOver(j) THEN 0 ELSE col)
          /\ Taken(j) => n < size /\ t[n] = ch[j]
      BY <1>1, <2>1, <2>2, <2>5 DEF FrameInv, OpenedAs
    <3> DEFINE p == file_position[frame_fd[j]]
    <3>2. p \in Nat /\ n = p - (IF ch[j] = NL THEN 0 ELSE 1) /\ Upto(j)' = p
      BY <1>1, <2>3, <2>5, <3>1 DEF Upto, OpenedAs
    <3> HIDE DEF n, p, t, size
    <3>3. CASE ch[j] = NL
      <4>1. Upto(j)' = n
        BY <3>2, <3>3
      <4> QED
        BY <1>1, <2>2, <2>3, <2>5, <3>1, <3>3, <4>1 DEF FrameInv, n, t, size
    <3>4. CASE ch[j] # NL
      <4>1. Upto(j)' = n + 1 /\ n + 1 \in 0 .. size /\ n \in Nat
        BY <2>1, <2>3, <3>1, <3>2, <3>4
      <4>2. Row(t, n) = row /\ Column(t, n) = col /\ t[n] # NL /\ row \in Nat
        BY <2>3, <3>1, <3>4 DEF FishInv
      <4>3. Row(t, n + 1) = row /\ Column(t, n + 1) = col + 1
        BY <4>1, <4>2, TextGoesOn
      <4> QED
        BY <1>1, <2>2, <2>3, <2>5, <3>1, <3>4, <4>1, <4>2, <4>3 DEF FrameInv, n, t, size
    <3> QED
      BY <3>3, <3>4
  <2> QED
    BY <2>4, <2>5
<1> QED
  BY <1>1, <1>2, <1>3 DEF PlaceInv, ScanInv, Scanning, Showing

LEMMA EndPlace ==
  ASSUME PlaceInv, EndRow, text' = text
  PROVE  PlaceInv' /\ \A j \in Both : Upto(j)' = Upto(j)
<1>1. /\ pc = "blink" /\ pc' = "close0" /\ \A j \in Both : ch[j] = NL
      /\ UNCHANGED <<flags, entry, file_position, frame_fd, ch, eof, row, col, waits>>
  BY DEF EndRow, files
<1>2. ScanInv
  BY <1>1 DEF PlaceInv, Scanning
<1>3. ASSUME NEW j \in Both PROVE FrameInv(j)' /\ Upto(j)' = Upto(j)
  <2>1. FrameInv(j) /\ (~eof[j] => frame_fd[j] \in flags)
    BY <1>2 DEF ScanInv, FrameInv, OpenedAs
  <2>2. ch[j] = NL /\ ~Taken(j) /\ ~Taken(j)' /\ RowOver(j) /\ RowOver(j)'
    BY <1>1 DEF Taken, RowOver
  <2> QED
    BY <1>1, <2>1, <2>2, FrameStays
<1>4. ch[0] = NL /\ ch[1] = NL
  BY <1>1 DEF Both
<1> QED
  BY <1>1, <1>2, <1>3, <1>4 DEF PlaceInv, ScanInv, Scanning, Showing

LEMMA ClosePlace ==
  ASSUME ProgramInv, FishInv, PlaceInv, NEW k \in Both, CloseFrame(k), text' = text
  PROVE  PlaceInv' /\ \A j \in Both : Upto(j)' = Upto(j)
<1>1. /\ pc = (IF k = 0 THEN "close0" ELSE "close1")
      /\ IF eof[k] /\ frame_fd[k] \in flags THEN Fs!Close(frame_fd[k]) ELSE UNCHANGED files
      /\ ch' = [ch EXCEPT ![k] = IF eof[k] THEN NL ELSE Unread]
      /\ UNCHANGED <<frame_fd, eof, waits>>
      /\ IF k = 0 THEN pc' = "close1" /\ UNCHANGED <<row, col>>
         ELSE /\ row' = row + 1 /\ col' = 0
              /\ pc' = IF eof[0] /\ eof[1] THEN "wait" ELSE "read0"
  BY DEF CloseFrame, Both
<1>2. ScanInv /\ ch[1] = NL /\ ch \in [Both -> Glyphs] /\ eof \in [Both -> BOOLEAN]
  BY <1>1 DEF PlaceInv, ScanInv, Scanning, FishInv
<1>3. ASSUME NEW j \in Both, ~eof[j]
      PROVE  /\ frame_fd[j] \in flags' /\ entry'[frame_fd[j]] = entry[frame_fd[j]]
             /\ file_position'[frame_fd[j]] = file_position[frame_fd[j]]
  <2> DEFINE f == frame_fd[j]
             g == frame_fd[k]
  <2>1. f \in flags /\ DOMAIN entry = Fs!Fds /\ DOMAIN file_position = Fs!Fds /\ f \in Fs!Fds
    BY <1>2, <1>3, Positions DEF ScanInv, FrameInv, OpenedAs, ProgramInv
  <2>2. CASE eof[k] /\ g \in flags
    <3>1. f # g
      BY <1>2, <1>3, <2>2 DEF ScanInv, Both
    <3>2. /\ flags' = flags \ {g} /\ file_position' = [file_position EXCEPT ![g] = 0]
          /\ entry' = [entry EXCEPT ![g] = IF fops_table[g] = "rtc" THEN @ ELSE 0]
      BY <1>1, <2>2 DEF Fs!Close, Fs!ResetPosition, Fs!ClearInode
    <3> HIDE DEF f, g
    <3>3. f \in flags' /\ entry'[f] = entry[f] /\ file_position'[f] = file_position[f]
      BY <2>1, <3>1, <3>2
    <3> QED
      BY <3>3 DEF f
  <2>3. CASE ~(eof[k] /\ g \in flags)
    BY <1>1, <2>1, <2>3 DEF files
  <2> QED
    BY <2>2, <2>3
<1>4. \A j \in Both : ~Taken(j) /\ ~Taken(j)'
  BY <1>1 DEF Taken
<1>5. NL # Unread
  BY ProgramsAssumption DEF ProgramsAssumption
<1>6. \A j \in Both : FrameInv(j) /\ (eof[j] => ch[j] = NL)
  BY <1>2 DEF ScanInv, FrameInv
<1>7. CASE k = 0
  <2>1. ASSUME NEW j \in Both PROVE FrameInv(j)' /\ Upto(j)' = Upto(j)
    <3>1. RowOver(j) /\ RowOver(j)'
      BY <1>1, <1>2, <1>7 DEF RowOver, PlaceInv, ScanInv, Both, Scanning
    <3>2. eof[j] => ch'[j] = NL
      BY <1>1, <1>2, <1>6, <1>7
    <3> QED
      BY <1>1, <1>3, <1>4, <1>6, <1>7, <3>1, <3>2, FrameStays
  <2>2. ch'[1] = NL /\ (~eof'[0] => ch'[0] # NL)
    BY <1>1, <1>2, <1>5, <1>7 DEF Both
  <2> QED
    BY <1>1, <1>2, <1>7, <2>1, <2>2 DEF PlaceInv, ScanInv, Scanning, Showing
<1>8. CASE k = 1
  <2>1. ASSUME NEW j \in Both PROVE FrameInv(j)' /\ Upto(j)' = Upto(j)
    <3> DEFINE t == text[FrameFile(j)]
    <3>1. FrameFile(j)' = FrameFile(j) /\ text'[FrameFile(j)'] = t
      BY SameText DEF FrameFile
    <3>2. CASE eof[j]
      <4>1. ch'[j] = NL
        BY <1>1, <1>2, <1>6, <1>8, <3>2
      <4> QED
        BY <1>1, <3>1, <3>2, <4>1 DEF FrameInv, Upto
    <3>3. CASE ~eof[j]
      <4>1. RowOver(j) /\ ~RowOver(j)'
        BY <1>1, <1>2, <1>5, <1>8, <3>3 DEF RowOver, ScanInv, Both
      <4>2. Upto(j)' = Upto(j)
        BY <1>1, <1>3, <1>4, <3>1, <3>3 DEF Upto
      <4>3. OpenedAs(j)'
        BY <1>1, <1>3, <1>6, <3>1, <3>3 DEF OpenedAs, FrameInv
      <4>4. Row(t, Upto(j)) = row' /\ Column(t, Upto(j)) = col' /\ Upto(j) \in 0 .. Directory[FrameFile(j)].length
        BY <1>1, <1>6, <1>8, <3>3, <4>1 DEF FrameInv
      <4>5. row' = row' + 0
        BY <1>1, <1>8 DEF FishInv
      <4> QED
        BY <1>1, <1>4, <3>1, <3>3, <4>1, <4>2, <4>3, <4>4, <4>5 DEF FrameInv
    <3> QED
      BY <3>2, <3>3
  <2>2. CASE eof[0] /\ eof[1]
    BY <1>1, <1>8, <2>1, <2>2 DEF PlaceInv, Scanning, Showing, Both
  <2>3. CASE ~(eof[0] /\ eof[1])
    BY <1>1, <1>2, <1>8, <2>1, <2>3 DEF PlaceInv, ScanInv, Scanning, Showing
  <2> QED
    BY <2>1, <2>2, <2>3
<1> QED
  BY <1>7, <1>8 DEF Both

-----------------------------------------------------------------------------
(***************************************************************************)
(* The list, as far as the drawings were dealt with.                       *)
(***************************************************************************)
Dealt(k) == {n \in Marks(k) : n < Upto(k)}
Part(k) == {[location |-> Cell(text[FrameFile(k)], n), char |-> text[FrameFile(k)][n]] : n \in Dealt(k)}

(* What main adds of its own: a wait comes behind the ioctl. *)
Mode ==
  IF waits < WAIT \/ (waits = WAIT /\ pc # "wait") THEN "none"
  ELSE IF waits < 2 * WAIT \/ (waits = 2 * WAIT /\ pc # "wait") \/ Corner \notin DOMAIN screen
  THEN "own" ELSE "drawn"

Pen == row * COLS + col + Corner

ListInv ==
  DrawingsFit /\ pc \in Scanning \cup Showing =>
    /\ Listed(blinks, screen, Part(0), Part(1), waits, Mode)
    /\ pc \in Scanning =>
         \A k \in Both : \A n \in Dealt(k) :
           Row(text[FrameFile(k)], n) <= row /\ Cell(text[FrameFile(k)], n) < Pen

LEMMA UptoIs ==
  ASSUME ProgramInv, NEW j \in Both, eof[j] \/ FrameInv(j) PROVE Upto(j) \in Nat
<1>1. Directory[FrameFile(j)].length \in Nat
  BY FrameFound
<1>2. CASE eof[j]
  BY <1>1, <1>2 DEF Upto
<1>3. CASE ~eof[j]
  BY <1>1, <1>3 DEF FrameInv
<1> QED
  BY <1>2, <1>3

LEMMA MarkAt ==
  ASSUME ProgramInv, NEW j \in Both, NEW n \in Marks(j)
  PROVE  LET t == text[FrameFile(j)]
         IN /\ n \in Nat /\ n < Directory[FrameFile(j)].length /\ t[n] \notin {SPACE, NL}
            /\ Row(t, n) \in Nat /\ Column(t, n) \in Nat
            /\ Cell(t, n) = Corner + COLS * Row(t, n) + Column(t, n)
<1>1. Directory[FrameFile(j)].length \in Nat
  BY FrameFound
<1>2. n \in Nat /\ n < Directory[FrameFile(j)].length /\ text[FrameFile(j)][n] \notin {SPACE, NL}
  BY <1>1 DEF Marks
<1> QED
  BY <1>2, TextGoesOn DEF Cell

(* What a byte passed over leaves. *)
LEMMA PartStays ==
  ASSUME ProgramInv, NEW j \in Both, text' = text, Upto(j) \in Nat, PassesOn(j)
  PROVE  Dealt(j)' = Dealt(j) /\ Part(j)' = Part(j)
<1>1. Marks(j)' = Marks(j) /\ FrameFile(j)' = FrameFile(j)
  BY SameText DEF FrameFile
<1>2. ASSUME NEW n \in Marks(j) PROVE n < Upto(j)' <=> n < Upto(j)
  <2>1. n \in Nat /\ text[FrameFile(j)][n] # NL
    BY MarkAt
  <2> QED
    BY <2>1 DEF PassesOn
<1>3. Dealt(j)' = Dealt(j)
  BY <1>1, <1>2 DEF Dealt
<1> QED
  BY <1>1, <1>3 DEF Part

(* A step that shows nothing. *)
LEMMA ListStays ==
  ASSUME ProgramInv, FishInv, ListInv, text' = text, UNCHANGED <<blinks, screen, waits>>,
         \A j \in Both : Upto(j) \in Nat /\ PassesOn(j),
         pc \in Scanning, pc' \in Scanning \cup {"wait"}, waits = 0,
         UNCHANGED <<row, col>> \/ (row' = row + 1 /\ col' = 0)
  PROVE  ListInv'
<1> SUFFICES ASSUME DrawingsFit' PROVE ListInv'
  BY DEF ListInv
<1>1. DrawingsFit
  BY SameText
<1>2. \A j \in Both : Dealt(j)' = Dealt(j) /\ Part(j)' = Part(j)
  BY PartStays
<1>3. Mode = "none" /\ Mode' = "none"
  BY DEF Mode, WAIT
<1>4. Listed(blinks, screen, Part(0), Part(1), waits, "none")
  BY <1>1, <1>3 DEF ListInv
<1>5. Listed(blinks, screen, Part(0), Part(1), waits, Mode)'
  BY <1>2, <1>3, <1>4 DEF Both
<1>6. ASSUME NEW k \in Both, NEW n \in Dealt(k)'
      PROVE  Row(text[FrameFile(k)], n) <= row' /\ Cell(text[FrameFile(k)], n) < Pen'
  <2> DEFINE t == text[FrameFile(k)]
             r == Row(t, n)
             c == Column(t, n)
             cell == Cell(t, n)
  <2>1. n \in Dealt(k) /\ n \in Marks(k)
    BY <1>2, <1>6 DEF Dealt
  <2>2. r \in Nat /\ c \in Nat /\ cell = Corner + COLS * r + c
    BY <2>1, MarkAt
  <2>3. r <= row /\ cell < Pen /\ c < COLS
    BY <1>1, <2>1 DEF ListInv, DrawingsFit
  <2>4. row \in Nat /\ col \in Nat /\ COLS = 80 /\ Corner = 40
    BY DEF FishInv, COLS, Corner
  <2> HIDE DEF r, c, cell
  <2>5. CASE UNCHANGED <<row, col>>
    BY <2>3, <2>5 DEF Pen, r, cell
  <2>6. CASE row' = row + 1 /\ col' = 0
    <3>1. Pen' = 80 * (row + 1) + 40
      BY <2>4, <2>6 DEF Pen
    <3>2. r <= row' /\ cell < Pen'
      BY <2>2, <2>3, <2>4, <2>6, <3>1
    <3> QED
      BY <3>2 DEF r, cell
  <2> QED
    BY <2>5, <2>6
<1>7. \A k \in Both : text'[FrameFile(k)'] = text[FrameFile(k)]
  BY SameText
<1> QED
  BY <1>5, <1>6, <1>7 DEF ListInv

(* A column: the byte that was read of each drawing is added to its part.  *)
LEMMA PartGrows ==
  ASSUME ProgramInv, FishInv, PlaceInv, AddBlink, text' = text, NEW j \in Both
  PROVE  LET n == Upto(j)
         IN /\ Dealt(j)' = Dealt(j) \cup (IF Glyph(j) = SPACE THEN {} ELSE {n})
            /\ Part(j)' = Part(j) \cup Mark(Pen, Glyph(j))
            /\ Glyph(j) # SPACE => /\ n \in Marks(j) /\ Cell(text[FrameFile(j)], n) = Pen
                                   /\ Row(text[FrameFile(j)], n) = row
<1> DEFINE t == text[FrameFile(j)]
           n == Upto(j)
<1>1. pc = "blink"
  BY DEF AddBlink
<1>2. FrameInv(j) /\ row \in Nat /\ col \in Nat
  BY <1>1 DEF PlaceInv, ScanInv, Scanning, FishInv
<1>3. n \in Nat /\ Upto(j)' = IF ch[j] = NL THEN n ELSE n + 1
  BY <1>2, AddPlace, UptoIs
<1>4. Marks(j)' = Marks(j) /\ FrameFile(j)' = FrameFile(j) /\ text'[FrameFile(j)'] = t
  BY SameText DEF FrameFile
<1>5. NL # SPACE
  BY GrepAssumption DEF GrepAssumption
<1>6. ch[j] # NL => /\ t[n] = ch[j] /\ n < Directory[FrameFile(j)].length
                    /\ Row(t, n) = row /\ Cell(t, n) = Pen
  <2> SUFFICES ASSUME ch[j] # NL
               PROVE  /\ t[n] = ch[j] /\ n < Directory[FrameFile(j)].length
                      /\ Row(t, n) = row /\ Cell(t, n) = Pen
    OBVIOUS
  <2>1. Taken(j) /\ ~RowOver(j) /\ ~eof[j]
    BY <1>1, <1>2 DEF Taken, RowOver, FrameInv
  <2>2. /\ t[n] = ch[j] /\ n < Directory[FrameFile(j)].length
        /\ Row(t, n) = row /\ Column(t, n) = col
    BY <1>2, <2>1 DEF FrameInv
  <2>3. Cell(t, n) = Pen
    BY <1>2, <2>2 DEF Cell, Pen, Corner, COLS
  <2> QED
    BY <2>2, <2>3
<1>7. n \in Marks(j) <=> n < Directory[FrameFile(j)].length /\ t[n] \notin {SPACE, NL}
  <2>1. Directory[FrameFile(j)].length \in Nat
    BY FrameFound
  <2> HIDE DEF n
  <2> QED
    BY <1>3, <2>1 DEF Marks
<1>8. Glyph(j) # SPACE <=> ch[j] \notin {SPACE, NL}
  BY <1>5 DEF Glyph
<1>9. \A m \in Marks(j) : m \in Nat
  BY MarkAt
<1> HIDE DEF n
<1>10. Dealt(j) = {m \in Marks(j) : m < n} /\ Dealt(j)' = {m \in Marks(j) : m < Upto(j)'}
  BY <1>4 DEF Dealt, n
<1>11. Dealt(j)' = Dealt(j) \cup (IF Glyph(j) = SPACE THEN {} ELSE {n})
  <2>1. CASE ch[j] = NL
    BY <1>3, <1>8, <1>10, <2>1
  <2>2. CASE ch[j] # NL
    <3>1. \A m \in Marks(j) : m < n + 1 <=> m < n \/ m = n
      BY <1>3, <1>9
    <3>2. n \in Marks(j) <=> Glyph(j) # SPACE
      BY <1>6, <1>7, <1>8, <2>2
    <3>3. n < n + 1
      BY <1>3
    <3> QED
      BY <1>3, <1>10, <2>2, <3>1, <3>2, <3>3
  <2> QED
    BY <2>1, <2>2
<1> DEFINE Shown1(m) == [location |-> Cell(t, m), char |-> t[m]]
<1>12. Part(j) = {Shown1(m) : m \in Dealt(j)} /\ Part(j)' = {Shown1(m) : m \in Dealt(j)'}
  BY <1>4 DEF Part
<1>13. Glyph(j) # SPACE => Shown1(n) = [location |-> Pen, char |-> Glyph(j)]
  BY <1>6, <1>8 DEF Glyph
<1> HIDE DEF Shown1
<1>14. Part(j)' = Part(j) \cup Mark(Pen, Glyph(j))
  <2>1. CASE Glyph(j) = SPACE
    BY <1>11, <1>12, <2>1 DEF Mark
  <2>2. CASE Glyph(j) # SPACE
    BY <1>11, <1>12, <1>13, <2>2 DEF Mark
  <2> QED
    BY <2>1, <2>2
<1> QED
  BY <1>6, <1>7, <1>8, <1>11, <1>14 DEF n

LEMMA AddLists ==
  ASSUME ProgramInv, FishInv, PlaceInv, ListInv, AddBlink, text' = text
  PROVE  ListInv'
<1> SUFFICES ASSUME DrawingsFit' PROVE ListInv'
  BY DEF ListInv
<1>1. /\ pc = "blink" /\ pc' = "read0" /\ col' = col + 1 /\ row' = row /\ waits' = waits
      /\ DrawingsFit
  BY SameText DEF AddBlink
<1>2. waits = 0 /\ row \in Nat /\ col \in Nat /\ ch \in [Both -> Glyphs]
  BY <1>1 DEF PlaceInv, ScanInv, Scanning, FishInv
<1>3. Mode = "none" /\ Mode' = "none"
  BY <1>1, <1>2 DEF Mode, WAIT
<1>4. Listed(blinks, screen, Part(0), Part(1), 0, "none")
  BY <1>1, <1>2, <1>3 DEF ListInv, Scanning
<1>5. Pen \in Nat /\ Pen >= Corner /\ Pen' = Pen + 1
  BY <1>1, <1>2 DEF Pen, COLS, Corner
<1>6. ASSUME NEW k \in Both, NEW n \in Dealt(k)
      PROVE  /\ Row(text[FrameFile(k)], n) <= row /\ Cell(text[FrameFile(k)], n) < Pen
             /\ Cell(text[FrameFile(k)], n) \in Nat
  <2>1. Row(text[FrameFile(k)], n) <= row /\ Cell(text[FrameFile(k)], n) < Pen
    BY <1>1 DEF ListInv, Scanning
  <2>2. Cell(text[FrameFile(k)], n) \in Nat
    BY MarkAt DEF Dealt, COLS, Corner
  <2> QED
    BY <2>1, <2>2
<1>7. \A j \in Both : Glyph(j) \in Glyphs
  BY <1>2 DEF Glyph, Glyphs
<1>8. \A k \in DOMAIN screen : k < Pen
  <2> SUFFICES ASSUME NEW l \in DOMAIN screen PROVE l < Pen
    OBVIOUS
  <2>1. l \in Locations(Part(0)) \cup Locations(Part(1))
    BY <1>4 DEF Listed
  <2>2. PICK k \in Both : l \in Locations(Part(k))
    BY <2>1 DEF Both
  <2>3. PICK n \in Dealt(k) : l = Cell(text[FrameFile(k)], n)
    BY <2>2 DEF Locations, Part
  <2> QED
    BY <1>6, <2>3
<1>9. /\ Part(0)' = Part(0) \cup Mark(Pen, Glyph(0))
      /\ Part(1)' = Part(1) \cup Mark(Pen, Glyph(1))
  BY PartGrows DEF Both
<1>10. Listed(blinks', screen', Part(0)', Part(1)', 0, "none")
  <2>1. CASE \E j \in Both : ch[j] \notin {SPACE, NL}
    <3>1. PICK j \in Both : ch[j] \notin {SPACE, NL}
      BY <2>1
    <3>2. Glyph(j) # SPACE
      BY <3>1 DEF Glyph
    <3>3. Pen < SCREEN /\ Pen # Spot
      <4>1. Upto(j) \in Marks(j) /\ Cell(text[FrameFile(j)], Upto(j)) = Pen
        BY <3>2, PartGrows
      <4> QED
        BY <1>1, <4>1 DEF DrawingsFit
    <3>4. ~(Glyph(0) = SPACE /\ Glyph(1) = SPACE)
      BY <3>2 DEF Both
    <3>5. mp1_ioctl_add(Blink(Pen, Glyph(0), Glyph(1), 15, 15))
      BY <2>1 DEF AddBlink, Pen
    <3>6. Listed(blinks', screen', Part(0) \cup Mark(Pen, Glyph(0)), Part(1) \cup Mark(Pen, Glyph(1)), 0, "none")
      BY <1>4, <1>5, <1>7, <1>8, <3>3, <3>4, <3>5, DrawnLists DEF Both
    <3> QED
      BY <1>9, <3>6
  <2>2. CASE ~\E j \in Both : ch[j] \notin {SPACE, NL}
    <3>1. blinks' = blinks /\ screen' = screen
      BY <2>2 DEF AddBlink
    <3>2. Glyph(0) = SPACE /\ Glyph(1) = SPACE
      BY <2>2 DEF Glyph, Both
    <3>3. Part(0)' = Part(0) /\ Part(1)' = Part(1)
      BY <1>9, <3>2 DEF Mark
    <3> QED
      BY <1>4, <3>1, <3>3
  <2> QED
    BY <2>1, <2>2
<1>11. ASSUME NEW k \in Both, NEW n \in Dealt(k)'
       PROVE  Row(text[FrameFile(k)], n) <= row /\ Cell(text[FrameFile(k)], n) < Pen + 1
  <2>1. Glyph(k) # SPACE => Cell(text[FrameFile(k)], Upto(k)) = Pen /\ Row(text[FrameFile(k)], Upto(k)) = row
    BY PartGrows
  <2>2. n \in Dealt(k) \/ (Glyph(k) # SPACE /\ n = Upto(k))
    BY <1>11, PartGrows
  <2>3. CASE n \in Dealt(k)
    BY <1>5, <1>6, <2>3
  <2>4. CASE Glyph(k) # SPACE /\ n = Upto(k)
    BY <1>2, <1>5, <2>1, <2>4
  <2> QED
    BY <2>2, <2>3, <2>4
<1>12. \A k \in Both : text'[FrameFile(k)'] = text[FrameFile(k)]
  BY SameText
<1>13. Listed(blinks, screen, Part(0), Part(1), waits, Mode)'
  BY <1>1, <1>2, <1>3, <1>10
<1> QED
  BY <1>1, <1>5, <1>11, <1>12, <1>13 DEF ListInv

(* The interrupts, and what main does between them. *)
LEMMA ShowStays ==
  ASSUME ProgramInv, NEW j \in Both, text' = text, eof[j], eof'[j]
  PROVE  Part(j)' = Part(j)
<1>1. Upto(j) \in Nat /\ Upto(j)' = Upto(j)
  BY UptoIs DEF Upto, FrameFile
<1> QED
  BY <1>1, PartStays DEF PassesOn

LEMMA WaitLists ==
  ASSUME ProgramInv, FishInv, PlaceInv, ListInv, Wait, text' = text
  PROVE  ListInv'
<1> SUFFICES ASSUME DrawingsFit' PROVE ListInv'
  BY DEF ListInv
<1>1. /\ pc = "wait" /\ waits' = waits + 1 /\ mp1_rtc_tasklet /\ eof' = eof
      /\ pc' = IF waits' % WAIT = 0 THEN "ioctl" ELSE "wait"
      /\ DrawingsFit
  BY SameText DEF Wait
<1>2. waits \in Nat /\ eof[0] /\ eof[1]
  BY <1>1 DEF PlaceInv, Showing, FishInv, Both
<1>3. Listed(blinks, screen, Part(0), Part(1), waits, Mode)
  BY <1>1 DEF ListInv, Showing
<1>4. Mode # "none" => waits >= WAIT
  BY <1>2 DEF Mode, WAIT
<1>5. Listed(blinks', screen', Part(0), Part(1), waits + 1, Mode)
  BY <1>1, <1>2, <1>3, <1>4, TickLists
<1>6. Part(0)' = Part(0) /\ Part(1)' = Part(1)
  BY <1>1, <1>2, ShowStays DEF Both
<1>7. Mode' = Mode
  <2>1. DOMAIN screen' = DOMAIN screen
    BY <1>1 DEF mp1_rtc_tasklet
  <2>2. waits' = WAIT \/ waits' = 2 * WAIT => pc' = "ioctl"
    BY <1>1 DEF WAIT
  <2>3. /\ (waits' < WAIT \/ (waits' = WAIT /\ pc' # "wait")) <=> waits < WAIT
        /\ (waits' < 2 * WAIT \/ (waits' = 2 * WAIT /\ pc' # "wait")) <=> waits < 2 * WAIT
    BY <1>1, <1>2, <2>2 DEF WAIT
  <2> QED
    BY <1>1, <2>1, <2>3 DEF Mode
<1>8. pc' \notin Scanning
  BY <1>1 DEF Scanning
<1>9. Listed(blinks, screen, Part(0), Part(1), waits, Mode)'
  BY <1>1, <1>5, <1>6, <1>7
<1> QED
  BY <1>8, <1>9 DEF ListInv

LEMMA IoctlLists ==
  ASSUME ProgramInv, FishInv, PlaceInv, ListInv, Ioctl, text' = text
  PROVE  ListInv'
<1> SUFFICES ASSUME DrawingsFit' PROVE ListInv'
  BY DEF ListInv
<1>1. /\ pc = "ioctl" /\ pc' = "wait" /\ waits' = waits /\ eof' = eof /\ waits < 4 * WAIT
      /\ DrawingsFit
  BY SameText DEF Ioctl
<1>2. eof[0] /\ eof[1]
  BY <1>1 DEF PlaceInv, Showing, Both
<1>3. Listed(blinks, screen, Part(0), Part(1), waits, Mode)
  BY <1>1 DEF ListInv, Showing
<1>4. Part(0)' = Part(0) /\ Part(1)' = Part(1)
  BY <1>1, <1>2, ShowStays DEF Both
<1>5. waits \in {WAIT, 2 * WAIT, 3 * WAIT}
  BY <1>1 DEF FishInv, WAIT
<1>6. Listed(blinks', screen', Part(0), Part(1), waits, Mode')
  <2>1. CASE waits = WAIT
    <3>1. mp1_ioctl_add(Blink(Spot, "I", "M", 7, 6))
      BY <2>1 DEF Ioctl, WAIT
    <3>2. Mode = "none" /\ Mode' = "own"
      BY <1>1, <2>1 DEF Mode, WAIT
    <3> QED
      BY <1>3, <2>1, <3>1, <3>2, SpotAdd
  <2>2. CASE waits = 2 * WAIT
    <3>1. mp1_ioctl_sync(Corner, Spot)
      BY <2>2 DEF Ioctl, WAIT
    <3>2. Mode = "own" /\ Mode' = IF Corner \in DOMAIN screen' THEN "drawn" ELSE "own"
      BY <1>1, <2>2 DEF Mode, WAIT
    <3>3. Corner \in DOMAIN screen' <=> Corner \in DOMAIN screen
      <4>1. Corner # Spot
        BY DEF Corner, Spot, COLS
      <4> QED
        BY <3>1, <4>1 DEF mp1_ioctl_sync, Shown
    <3>4. Listed(blinks', screen', Part(0), Part(1), 2 * WAIT, IF Corner \in DOMAIN screen THEN "drawn" ELSE "own")
      BY <1>3, <2>2, <3>1, <3>2, SpotSync
    <3> QED
      BY <2>2, <3>2, <3>3, <3>4
  <2>3. CASE waits = 3 * WAIT
    <3>1. mp1_ioctl_remove(Spot)
      BY <2>3 DEF Ioctl, WAIT
    <3>2. Mode \in {"own", "drawn"} /\ Mode' = Mode
      BY <1>1, <2>3, <3>1 DEF Mode, WAIT, mp1_ioctl_remove
    <3> QED
      BY <1>3, <2>3, <3>1, <3>2, SpotRemove
  <2> QED
    BY <1>5, <2>1, <2>2, <2>3
<1>7. pc' \notin Scanning
  BY <1>1 DEF Scanning
<1>8. Listed(blinks, screen, Part(0), Part(1), waits, Mode)'
  BY <1>1, <1>4, <1>6
<1> QED
  BY <1>7, <1>8 DEF ListInv

LEMMA FishDraws ==
  ASSUME ProgramInv, ProgramInv', FishInv, PlaceInv, ListInv, Fish PROVE PlaceInv' /\ ListInv'
<1>1. text' = text
  BY DEF Fish, FishNext, others, image
<1>2. ASSUME pc' \notin Scanning \cup Showing PROVE ListInv'
  BY <1>2 DEF ListInv
<1>3. CASE OpenClock
  <2>1. /\ pc = "openclock" /\ pc' = "open0"
        /\ UNCHANGED <<row, col, waits, blinks, screen, eof, ch, frame_fd>>
    BY <1>3 DEF OpenClock
  <2> QED
    BY <1>2, <2>1 DEF PlaceInv, OpenInv, Scanning, Showing
<1>4. ASSUME NEW k \in Both, OpenFrame(k) PROVE PlaceInv' /\ ListInv'
  <2>1. PlaceInv' /\ (pc' \in Scanning => OpenInv /\ \A j \in Both : Upto(j)' = 0)
    BY <1>1, <1>4, OpenPlace
  <2>2. pc' \in {"open1", "read0"} /\ UNCHANGED <<blinks, screen, waits>>
    BY <1>4 DEF OpenFrame, Both
  <2>3. CASE pc' = "open1"
    BY <1>2, <2>1, <2>3 DEF Scanning, Showing
  <2>4. CASE pc' = "read0"
    <3>1. OpenInv /\ \A j \in Both : Upto(j)' = 0
      BY <2>1, <2>4 DEF Scanning
    <3>2. \A j \in Both : Dealt(j)' = {} /\ Part(j)' = {}
      <4> SUFFICES ASSUME NEW j \in Both PROVE Dealt(j)' = {} /\ Part(j)' = {}
        OBVIOUS
      <4>1. \A n \in Marks(j)' : n \in Nat
        BY <1>1, SameText, MarkAt
      <4>2. Dealt(j)' = {}
        BY <3>1, <4>1 DEF Dealt
      <4> QED
        BY <4>2 DEF Part
    <3>3. blinks' = <<>> /\ DOMAIN screen' = {} /\ Mode' = "none" /\ waits' = 0
      BY <2>2, <2>4, <3>1 DEF OpenInv, Mode, WAIT
    <3>4. Locations({}) = {} /\ Len(<<>>) = 0
      BY DEF Locations
    <3>5. Listed(blinks', screen', {}, {}, 0, "none")
      BY <3>3, <3>4 DEF Listed
    <3>6. Part(0)' = {} /\ Part(1)' = {}
      BY <3>2 DEF Both
    <3>7. Listed(blinks, screen, Part(0), Part(1), waits, Mode)'
      BY <3>3, <3>5, <3>6
    <3> QED
      BY <2>1, <3>2, <3>7 DEF ListInv
  <2> QED
    BY <2>2, <2>3, <2>4
<1>5. ASSUME NEW k \in Both, ReadFrame(k) \/ CloseFrame(k) PROVE PlaceInv' /\ ListInv'
  <2>1. pc \in Scanning /\ pc' \in Scanning \cup {"wait"} /\ UNCHANGED <<blinks, screen, waits>>
        /\ (UNCHANGED <<row, col>> \/ (row' = row + 1 /\ col' = 0))
    BY <1>5 DEF ReadFrame, CloseFrame, Scanning, Both
  <2>2. ScanInv
    BY <2>1 DEF PlaceInv
  <2>3. PlaceInv' /\ \A j \in Both : PassesOn(j)
    BY <1>1, <1>5, ReadPlace, ClosePlace DEF PassesOn
  <2>4. \A j \in Both : Upto(j) \in Nat
    BY <2>2, UptoIs DEF ScanInv
  <2> QED
    BY <1>1, <2>1, <2>2, <2>3, <2>4, ListStays DEF ScanInv
<1>6. CASE EndRow
  <2>1. pc \in Scanning /\ pc' \in Scanning /\ UNCHANGED <<blinks, screen, waits, row, col>>
    BY <1>6 DEF EndRow, Scanning
  <2>2. ScanInv
    BY <2>1 DEF PlaceInv
  <2>3. PlaceInv' /\ \A j \in Both : PassesOn(j)
    BY <1>1, <1>6, EndPlace DEF PassesOn
  <2>4. \A j \in Both : Upto(j) \in Nat
    BY <2>2, UptoIs DEF ScanInv
  <2> QED
    BY <1>1, <2>1, <2>2, <2>3, <2>4, ListStays DEF ScanInv
<1>7. CASE AddBlink
  BY <1>1, <1>7, AddPlace, AddLists
<1>8. ASSUME Wait \/ Ioctl \/ CloseClock PROVE PlaceInv'
  <2>1. pc \in Showing /\ pc' \in Showing /\ eof' = eof
    BY <1>8 DEF Wait, Ioctl, CloseClock, Showing
  <2> QED
    BY <2>1 DEF PlaceInv, Scanning, Showing
<1>9. CASE CloseClock
  <2> SUFFICES ASSUME DrawingsFit' PROVE ListInv'
    BY <1>8, <1>9 DEF ListInv
  <2>1. /\ pc = "ioctl" /\ pc' = "fishdone" /\ waits = 4 * WAIT /\ DrawingsFit
        /\ UNCHANGED <<eof, waits, blinks, screen>>
    BY <1>1, <1>9, SameText DEF CloseClock
  <2>2. eof[0] /\ eof[1]
    BY <2>1 DEF PlaceInv, Showing, Both
  <2>3. Part(0)' = Part(0) /\ Part(1)' = Part(1)
    BY <1>1, <2>1, <2>2, ShowStays DEF Both
  <2>4. Mode' = Mode
    BY <2>1 DEF Mode, WAIT
  <2>5. Listed(blinks, screen, Part(0), Part(1), waits, Mode)
    BY <2>1 DEF ListInv, Showing
  <2>6. Listed(blinks, screen, Part(0), Part(1), waits, Mode)'
    BY <2>1, <2>3, <2>4, <2>5
  <2> QED
    BY <2>1, <2>6 DEF ListInv, Scanning
<1> QED
  BY <1>1, <1>3, <1>4, <1>5, <1>6, <1>7, <1>8, <1>9, WaitLists, IoctlLists DEF Fish, FishNext

(* Where no drawing is read or shown, fish has nothing yet. *)
LEMMA NoneDrawn ==
  ASSUME pc \notin Scanning \cup Showing, OpenInv PROVE PlaceInv /\ ListInv
BY DEF PlaceInv, ListInv, Scanning, Showing

LEMMA DrawStart == Init => PlaceInv /\ ListInv
<1> SUFFICES ASSUME Init PROVE PlaceInv /\ ListInv
  OBVIOUS
<1>1. OpenInv /\ pc = "prompt"
  BY DEF Init, Memory, FishMemory, OpenInv, NoFds
<1> QED
  BY <1>1, NoneDrawn DEF Scanning, Showing

THEOREM DrawNext ==
  ASSUME ProgramInv, ProgramInv', FishInv, PlaceInv, ListInv, [Next]_vars PROVE PlaceInv' /\ ListInv'
<1>1. CASE Fish
  BY <1>1, FishDraws
<1>2. CASE Halt
  <2>1. OpenInv' /\ pc' = "prompt"
    BY <1>2 DEF Halt, FishGone, OpenInv, NoFds
  <2> QED
    BY <2>1 DEF PlaceInv, ListInv, Scanning, Showing
<1>3. CASE Shell \/ Grep \/ Cat \/ Ls \/ Other
  <2>1. UNCHANGED fish
    BY <1>3 DEF Shell, Grep, Cat, CatArgs, CatOpen, CatRead, Ls, OpenNames, List, Other, kept
  <2>2. pc \notin Scanning \cup Showing /\ pc' \notin Scanning \cup Showing \cup {"open1"}
    <3>1. CASE Shell
      BY <3>1, ProgramsAssumption DEF Shell, Execute, Entry, ProgramsAssumption, Scanning, Showing
    <3>2. CASE ~Shell
      BY <1>3, <3>2, GrepStays, CatStays, LsStays, OtherStays DEF Pcs, Scanning, Showing
    <3> QED
      BY <3>1, <3>2
  <2>3. OpenInv
    BY <2>2 DEF PlaceInv
  <2>4. OpenInv'
    BY <2>1, <2>2, <2>3 DEF OpenInv, fish
  <2> QED
    BY <2>2, <2>4 DEF PlaceInv, ListInv
<1>4. CASE UNCHANGED vars
  <2>1. UNCHANGED <<pc, text, flags, entry, file_position, frame_fd, ch, eof, row, col, waits, blinks, screen>>
    BY <1>4 DEF vars, files, image, fish
  <2>2. OpenInv' <=> OpenInv
    BY <2>1 DEF OpenInv, OpenedAs, FrameFile
  <2>3. \A j \in Both : Upto(j)' = Upto(j) /\ FrameInv(j)' = FrameInv(j)
    BY <2>1 DEF Upto, Taken, FrameInv, RowOver, OpenedAs, FrameFile
  <2>4. PlaceInv'
    BY <2>1, <2>2, <2>3 DEF PlaceInv, ScanInv
  <2>5. \A j \in Both : Dealt(j)' = Dealt(j) /\ Part(j)' = Part(j)
    BY <2>1, <2>3 DEF Dealt, Part, Marks, FrameFile
  <2>6. DrawingsFit' = DrawingsFit /\ \A j \in Both : text'[FrameFile(j)'] = text[FrameFile(j)]
    BY <2>1, SameText
  <2>7. Part(0)' = Part(0) /\ Part(1)' = Part(1) /\ Mode' = Mode /\ Pen' = Pen
    BY <2>1, <2>5 DEF Both, Mode, Pen
  <2>8. ListInv'
    BY <2>1, <2>5, <2>6, <2>7 DEF ListInv
  <2> QED
    BY <2>4, <2>8
<1> QED
  BY <1>1, <1>2, <1>3, <1>4 DEF Next

THEOREM SpecDraw == Spec => [](PlaceInv /\ ListInv)
<1>1. ProgramInv /\ ProgramInv' /\ FishInv /\ (PlaceInv /\ ListInv) /\ [Next]_vars => (PlaceInv /\ ListInv)'
  BY DrawNext
<1> QED
  BY <1>1, DrawStart, SpecProgram, SpecFish, PTL DEF Spec

-----------------------------------------------------------------------------
(* A whole drawing was dealt with. *)
LEMMA DrawnWhole ==
  ASSUME ProgramInv, NEW k \in Both, eof[k] PROVE Part(k) = Drawing(k)
<1>1. Dealt(k) = Marks(k)
  BY MarkAt DEF Dealt, Upto
<1> QED
  BY <1>1 DEF Part, Drawing

(* What the list promises of a cell. *)
LEMMA CellShown ==
  ASSUME NEW first, NEW second, NEW w, NEW spot, NEW l \in DOMAIN screen, l # Spot,
         Listed(blinks, screen, first, second, w, spot)
  PROVE  IF On(w, 15, 30) THEN HasChar(first, l, screen[l]) ELSE HasChar(second, l, screen[l])
<1>1. PICK i \in 1 .. Len(blinks) : blinks[i].location = l
  BY DEF Listed
<1> DEFINE b == blinks[i]
<1>2. screen[l] = Glowing(b) /\ RightAt(b, first, second, w, spot)
  BY <1>1 DEF Listed
<1> HIDE DEF b
<1>3. /\ HasChar(first, l, b.on_char) /\ HasChar(second, l, b.off_char)
      /\ b.on <=> On(w, 15, 30)
  BY <1>1, <1>2 DEF RightAt, InStep, b
<1> QED
  BY <1>2, <1>3 DEF Glowing

LEMMA SpotShown ==
  ASSUME NEW first, NEW second, NEW w, NEW spot, Spot \in DOMAIN screen, w < 3 * WAIT,
         Listed(blinks, screen, first, second, w, spot)
  PROVE  /\ spot # "none"
         /\ screen[Spot] = IF IF spot = "drawn" THEN On(w, 15, 30) ELSE On(w - WAIT, 7, 13) THEN "I" ELSE "M"
<1>1. spot # "none"
  BY DEF Listed
<1>2. PICK i \in 1 .. Len(blinks) : blinks[i].location = Spot
  BY <1>1 DEF Listed
<1> DEFINE b == blinks[i]
<1>3. screen[Spot] = Glowing(b) /\ RightAt(b, first, second, w, spot)
  BY <1>2 DEF Listed
<1> HIDE DEF b
<1>4. b.on_char = "I" /\ b.off_char = "M" /\ IF spot = "drawn" THEN InStep(b, w) ELSE OwnStep(b, w)
  BY <1>2, <1>3 DEF RightAt, b
<1>5. b.on <=> IF spot = "drawn" THEN On(w, 15, 30) ELSE On(w - WAIT, 7, 13)
  BY <1>4 DEF InStep, OwnStep, On
<1> QED
  BY <1>1, <1>3, <1>4, <1>5 DEF Glowing

LEMMA Drawn == ASSUME ProgramInv, FishInv, PlaceInv, ListInv PROVE DrawingsBlink
<1> SUFFICES ASSUME pc \in Showing, DrawingsFit PROVE DrawingsBlink
  BY DEF DrawingsBlink, Showing
<1> DEFINE on == On(waits, 15, 30)
           shown == Drawing(IF on THEN 0 ELSE 1)
           hidden == Drawing(IF on THEN 1 ELSE 0)
           synced == waits > 2 * WAIT \/ (waits = 2 * WAIT /\ pc = "wait")
           together == synced /\ Corner \in DOMAIN screen
<1>1. Listed(blinks, screen, Drawing(0), Drawing(1), waits, Mode)
  BY DrawnWhole DEF PlaceInv, ListInv, Both
<1>2. \A k \in Both : \A m \in Drawing(k) : m.location # Spot
  BY DEF Drawing, DrawingsFit
<1>3. Locations(Drawing(0)) \cup Locations(Drawing(1)) = DOMAIN screen \ {Spot}
  BY <1>1, <1>2 DEF Listed, Locations, Both
<1>4. /\ shown \in {Drawing(0), Drawing(1)} /\ Locations(shown) \cup Locations(hidden) = DOMAIN screen \ {Spot}
  BY <1>3
<1>5. \A l \in DOMAIN screen : l # Spot => HasChar(shown, l, screen[l])
  BY <1>1, CellShown
<1>6. \A m \in shown : m.location \in DOMAIN screen /\ m.location # Spot
  BY <1>4 DEF Locations
<1>7. \A m \in shown : screen[m.location] = m.char
  BY <1>5, <1>6 DEF HasChar
<1>8. \A l \in Locations(hidden) \ Locations(shown) : screen[l] = SPACE
  BY <1>4, <1>5 DEF HasChar
<1>9. Spot \in DOMAIN screen /\ waits < 3 * WAIT =>
        screen[Spot] = IF IF together THEN on ELSE On(waits - WAIT, 7, 13) THEN "I" ELSE "M"
  <2> SUFFICES ASSUME Spot \in DOMAIN screen, waits < 3 * WAIT
               PROVE  screen[Spot] = IF IF together THEN on ELSE On(waits - WAIT, 7, 13) THEN "I" ELSE "M"
    OBVIOUS
  <2>1. /\ Mode # "none"
        /\ screen[Spot] = IF IF Mode = "drawn" THEN on ELSE On(waits - WAIT, 7, 13) THEN "I" ELSE "M"
    BY <1>1, SpotShown
  <2>2. Mode = "drawn" <=> together
    BY <2>1 DEF Mode, FishInv, WAIT
  <2> QED
    BY <2>1, <2>2
<1> HIDE DEF shown, hidden, on, together
<1>10. /\ DOMAIN screen \ {Spot} = Locations(shown) \cup Locations(hidden)
       /\ \A m \in shown : screen[m.location] = m.char
       /\ \A l \in Locations(hidden) \ Locations(shown) : screen[l] = SPACE
       /\ Spot \in DOMAIN screen /\ waits < 3 * WAIT =>
            screen[Spot] = IF IF together THEN on ELSE On(waits - WAIT, 7, 13) THEN "I" ELSE "M"
  BY <1>4, <1>7, <1>8, <1>9
<1> QED
  BY <1>10, Zenon DEF DrawingsBlink, shown, hidden, on, together

(* fish shows its drawings in turn, every character at its place, for all  *)
(* texts of the two files and whichever of them or of their rows is longer. *)
THEOREM FishShowsDrawings == Spec => []DrawingsBlink
<1>1. ProgramInv /\ FishInv /\ PlaceInv /\ ListInv => DrawingsBlink
  BY Drawn
<1> QED
  BY <1>1, SpecProgram, SpecFish, SpecDraw, PTL
=============================================================================
