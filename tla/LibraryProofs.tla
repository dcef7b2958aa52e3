--------------------------- MODULE LibraryProofs ---------------------------
(***************************************************************************)
(* memset, memcpy and memmove do what their callers expect, for every      *)
(* alignment, length and overlap: the invariants of Library.tla.           *)
(*                                                                         *)
(* The inductive invariant says how far a call is: Left bytes are still to *)
(* be stored, the registers point at the next one, and the memory holds    *)
(* the new bytes up to there and the old ones elsewhere.                   *)
(***************************************************************************)
EXTENDS Library, TLAPS

(* The bytes a call has still to store. *)
Left ==
  IF pc = "dwords" THEN 4 * ecx + edx
  ELSE IF pc = "bottom" THEN edx ELSE ecx

Moved(a) == IF call.fn = "memset" THEN Fill ELSE call.src + (a - call.dest)

(* In m the cells from lo to before hi are new, the others as they were. *)
Holds(m, lo, hi) ==
  \A a \in Cells :
    IF lo <= a /\ a < hi THEN MayOverlap => m[a] = Moved(a) ELSE m[a] = a

PointAt(k) ==
  /\ edi = call.dest + k
  /\ call.fn # "memset" => esi = call.src + k

(* A call that stores from the first byte on. *)
GoingUp ==
  /\ call.fn = "memmove" => call.dest <= call.src
  /\ PointAt(call.n - Left)
  /\ Holds(mem, call.dest, call.dest + call.n - Left)

(* A memmove that stores from the last byte down. *)
GoingDown ==
  /\ call.fn = "memmove" /\ call.dest > call.src
  /\ PointAt(Left - 1)
  /\ Holds(mem, call.dest + Left, call.dest + call.n)

Progress ==
  /\ pc = "idle" => call = NoCall /\ mem = Untouched
  /\ pc \in {"top", "dwords", "bottom"} => call.fn # "memmove" /\ GoingUp
  /\ pc = "dwords" => ~df
  /\ pc = "bottom" => ecx = 0
  /\ pc = "direction" => call.fn = "memmove" /\ PointAt(0) /\ ecx = call.n /\ mem = Untouched
  /\ pc = "bytes" => call.fn = "memmove" /\ IF df THEN GoingDown ELSE GoingUp
  /\ pc = "returned" => ecx = 0 /\ Holds(mem, call.dest, call.dest + call.n)

IInv == TypeOK /\ Left <= call.n /\ Progress

-----------------------------------------------------------------------------
(* A store of the next bytes of an upward call (HeadByte, Dword, TailByte, *)
(* and MoveByte of a memmove to lower addresses).                          *)
LEMMA StoreUp ==
  ASSUME LastCell \in Nat, TypeOK, NEW k \in Nat, NEW w \in {1, 4}, k + w <= call.n,
         PointAt(k), call.fn = "memmove" => call.dest <= call.src,
         Holds(mem, call.dest, call.dest + k), Store(w)
  PROVE  mem' \in [Cells -> Cells \cup {Fill}]
         /\ \A a \in Cells :
              IF call.dest <= a /\ a < call.dest + k + w
              THEN MayOverlap => mem'[a] = Moved(a) ELSE mem'[a] = a
<1> USE DEF Cells
<1>c. /\ call.fn \in Functions /\ call.dest \in Cells /\ call.src \in Cells /\ call.n \in Nat
      /\ call.dest + call.n <= LastCell + 1 /\ call.src + call.n <= LastCell + 1
  BY DEF TypeOK, Calls
<1>m. mem' = [a \in Cells |-> IF a \in edi .. edi + w - 1 THEN Stored(a) ELSE mem[a]]
  BY DEF Store
<1>e. edi \in Int /\ esi \in Int /\ edi = call.dest + k
  BY DEF TypeOK, PointAt
<1>1. ASSUME NEW a \in Cells, a \in edi .. edi + w - 1
      PROVE  Stored(a) \in Cells \cup {Fill} /\ (MayOverlap => Stored(a) = Moved(a))
  <2>1. CASE call.fn = "memset"
    BY <2>1 DEF Stored, Moved
  <2>2. CASE call.fn # "memset"
    <3> DEFINE b == esi + (a - edi)
    <3>1. b \in Cells /\ b = call.src + (a - call.dest) /\ b >= call.src + k
      BY <1>1, <1>c, <1>e, <2>2 DEF PointAt
    <3>2. Stored(a) = mem[b] /\ Moved(a) = b
      BY <2>2, <3>1 DEF Stored, Moved
    <3>3. MayOverlap => ~(call.dest <= b /\ b < call.dest + k)
      BY <1>1, <1>c, <1>e, <2>2, <3>1 DEF MayOverlap, Functions
    <3>4. MayOverlap => mem[b] = b
      BY <3>1, <3>3 DEF Holds
    <3>5. mem[b] \in Cells \cup {Fill}
      BY <3>1 DEF TypeOK
    <3> QED BY <3>2, <3>4, <3>5
  <2> QED BY <2>1, <2>2
<1>2. mem' \in [Cells -> Cells \cup {Fill}]
  BY <1>1, <1>m DEF TypeOK
<1>3. ASSUME NEW a \in Cells
      PROVE  IF call.dest <= a /\ a < call.dest + k + w
             THEN MayOverlap => mem'[a] = Moved(a) ELSE mem'[a] = a
  <2>1. CASE a \in edi .. edi + w - 1
    <3>1. mem'[a] = Stored(a)
      BY <1>m, <2>1
    <3>2. call.dest <= a /\ a < call.dest + k + w
      BY <1>c, <1>e, <2>1
    <3> QED
      BY <1>1, <2>1, <3>1, <3>2
  <2>2. CASE a \notin edi .. edi + w - 1
    <3>1. mem'[a] = mem[a]
      BY <1>m, <2>2
    <3>2. call.dest <= a /\ a < call.dest + k + w <=> call.dest <= a /\ a < call.dest + k
      BY <1>c, <1>e, <2>2
    <3> QED BY <3>1, <3>2 DEF Holds
  <2> QED BY <2>1, <2>2
<1> QED BY <1>2, <1>3

(* A store of the next byte of a memmove to higher addresses. *)
LEMMA StoreDown ==
  ASSUME LastCell \in Nat, TypeOK, NEW k \in Nat, k < call.n,
         PointAt(k), call.fn = "memmove", call.dest > call.src,
         Holds(mem, call.dest + k + 1, call.dest + call.n), Store(1)
  PROVE  mem' \in [Cells -> Cells \cup {Fill}]
         /\ \A a \in Cells :
              IF call.dest + k <= a /\ a < call.dest + call.n
              THEN MayOverlap => mem'[a] = Moved(a) ELSE mem'[a] = a
<1> USE DEF Cells
<1>c. /\ call.dest \in Cells /\ call.src \in Cells /\ call.n \in Nat
      /\ call.dest + call.n <= LastCell + 1 /\ call.src + call.n <= LastCell + 1
  BY DEF TypeOK, Calls
<1>e. edi = call.dest + k /\ esi = call.src + k /\ esi \in Cells /\ edi \in Cells
  BY <1>c DEF PointAt
<1>m. mem' = [a \in Cells |-> IF a = edi THEN mem[esi] ELSE mem[a]]
  <2>1. ASSUME NEW a \in Cells
        PROVE  (IF a \in edi .. edi + 1 - 1 THEN Stored(a) ELSE mem[a])
               = IF a = edi THEN mem[esi] ELSE mem[a]
    <3>1. a \in edi .. edi + 1 - 1 <=> a = edi
      BY <1>e
    <3>2. a = edi => esi + (a - edi) = esi
      BY <1>e
    <3> QED BY <3>1, <3>2 DEF Stored
  <2> QED BY <2>1 DEF Store
<1>1. mem[esi] = esi /\ Moved(edi) = esi
  BY <1>c, <1>e DEF Holds, Moved
<1>2. mem' \in [Cells -> Cells \cup {Fill}]
  BY <1>1, <1>e, <1>m DEF TypeOK
<1>3. ASSUME NEW a \in Cells
      PROVE  IF call.dest + k <= a /\ a < call.dest + call.n
             THEN MayOverlap => mem'[a] = Moved(a) ELSE mem'[a] = a
  <2>1. CASE a = edi
    BY <1>1, <1>c, <1>e, <1>m, <2>1
  <2>2. CASE a # edi
    <3>1. mem'[a] = mem[a]
      BY <1>m, <2>2
    <3>2. call.dest + k <= a <=> call.dest + k + 1 <= a
      BY <1>c, <1>e, <2>2
    <3> QED BY <3>1, <3>2 DEF Holds
  <2> QED BY <2>1, <2>2
<1> QED BY <1>2, <1>3

-----------------------------------------------------------------------------
LEMMA InitInv == Init => IInv
<1> SUFFICES ASSUME Init PROVE IInv
  OBVIOUS
<1>1. LastCell \in Nat
  BY LibraryAssumption
<1>2. NoCall \in Calls
  BY <1>1 DEF NoCall, Calls, Functions, Cells
<1>3. Untouched \in [Cells -> Cells \cup {Fill}]
  BY DEF Untouched
<1>4. /\ pc = "idle" /\ call = NoCall /\ mem = Untouched
      /\ edi = 0 /\ esi = 0 /\ ecx = 0 /\ edx = 0 /\ df = FALSE
  BY DEF Init
<1>t. mem \in [Cells -> Cells \cup {Fill}] /\ call \in Calls /\ df \in BOOLEAN
  BY <1>2, <1>3, <1>4
<1>6. TypeOK
  BY <1>t, <1>4 DEF TypeOK
<1>5. NoCall.n = 0
  BY DEF NoCall
<1> QED BY <1>4, <1>5, <1>6 DEF IInv, Progress, Left

(* A call begins: nothing is stored yet. *)
LEMMA CallInv == ASSUME IInv, NEW c \in Calls, Call(c) PROVE IInv'
<1>c. /\ c.fn \in Functions /\ c.dest \in Nat /\ c.src \in Nat /\ c.n \in Nat
      /\ pc = "idle" /\ call' = c /\ edi' = c.dest /\ esi' = c.src /\ ecx' = c.n
      /\ mem' = mem /\ edx' = edx /\ df' = df
      /\ pc' = IF c.fn = "memmove" THEN "direction" ELSE "top"
  BY LibraryAssumption DEF Call, Calls, Cells
<1>m. mem = Untouched
  BY <1>c DEF IInv, Progress
<1>1. TypeOK'
  BY <1>c DEF IInv, TypeOK
<1>2. Left' = c.n
  BY <1>c DEF Left
<1>3. PointAt(0)'
  BY <1>c DEF PointAt
<1>4. CASE c.fn = "memmove"
  BY <1>c, <1>m, <1>1, <1>2, <1>3, <1>4 DEF IInv, Progress
<1>5. CASE c.fn # "memmove"
  <2>1. Holds(mem, call.dest, call.dest + call.n - Left)'
    <3>1. call'.dest + call'.n - Left' = c.dest /\ call'.dest = c.dest
      BY <1>c, <1>2
    <3>2. ASSUME NEW a \in Cells PROVE mem'[a] = a /\ ~(c.dest <= a /\ a < c.dest)
      BY <1>c, <1>m, LibraryAssumption DEF Untouched, Cells
    <3> QED BY <3>1, <3>2 DEF Holds
  <2>2. GoingUp'
    BY <1>c, <1>2, <1>3, <1>5, <2>1 DEF GoingUp
  <2> QED BY <1>c, <1>1, <1>2, <1>5, <2>2 DEF IInv, Progress
<1> QED BY <1>4, <1>5

(* The facts every step of a call in progress starts from. *)
LEMMA CallFacts ==
  ASSUME IInv
  PROVE  /\ LastCell \in Nat
         /\ call.fn \in Functions /\ call.dest \in Nat /\ call.src \in Nat /\ call.n \in Nat
         /\ edi \in Int /\ esi \in Int /\ ecx \in Nat /\ edx \in 0 .. 3 /\ df \in BOOLEAN
         /\ Left \in Nat /\ Left <= call.n
<1> QED BY LibraryAssumption DEF IInv, TypeOK, Calls, Cells, Left

(* The step of an upward call that stores w bytes; the caller says what    *)
(* the counters become.                                                    *)
LEMMA UpInv ==
  ASSUME IInv, NEW w \in {1, 4}, w <= Left, GoingUp, Store(w), Advance(w),
         pc \in {"top", "dwords", "bottom", "bytes"},
         UNCHANGED <<df, pc, call>>, ecx' \in Nat, edx' \in 0 .. 3, Left' = Left - w
  PROVE  TypeOK' /\ Left' <= call'.n /\ GoingUp'
<1> DEFINE k == call.n - Left
<1>f. /\ LastCell \in Nat /\ call.fn \in Functions
      /\ call.dest \in Nat /\ call.src \in Nat /\ call.n \in Nat
      /\ edi \in Int /\ esi \in Int /\ Left \in Nat /\ Left <= call.n /\ w \in Nat
  BY CallFacts
<1>k. k \in Nat /\ k + w <= call.n /\ call.dest + k = call.dest + call.n - Left
  BY <1>f
<1>1. PointAt(k) /\ Holds(mem, call.dest, call.dest + k)
      /\ (call.fn = "memmove" => call.dest <= call.src)
  BY <1>k DEF GoingUp
<1>2. /\ mem' \in [Cells -> Cells \cup {Fill}]
      /\ \A a \in Cells :
           IF call.dest <= a /\ a < call.dest + k + w
           THEN MayOverlap => mem'[a] = Moved(a) ELSE mem'[a] = a
  BY <1>f, <1>k, <1>1, StoreUp DEF IInv
<1>3. TypeOK'
  BY <1>2, <1>f DEF IInv, TypeOK, Advance
<1>4. call' = call /\ call.n - Left' = k + w /\ call.dest + call.n - Left' = call.dest + k + w
  BY <1>f
<1>5. PointAt(call.n - Left)'
  BY <1>1, <1>4, <1>f, <1>k DEF PointAt, Advance
<1>6. Holds(mem, call.dest, call.dest + call.n - Left)'
  BY <1>2, <1>4 DEF Holds, MayOverlap, Moved
<1>8. GoingUp'
  BY <1>1, <1>4, <1>5, <1>6 DEF GoingUp
<1> QED BY <1>3, <1>4, <1>8, <1>f

LEMMA HeadByteInv == ASSUME IInv, HeadByte PROVE IInv'
<1>f. ecx \in Nat /\ edx \in 0 .. 3 /\ Left \in Nat
  BY CallFacts
<1>1. /\ pc = "top" /\ ecx # 0 /\ ecx' = ecx - 1 /\ UNCHANGED <<edx, df, pc, call>>
      /\ Store(1) /\ Advance(1)
  BY DEF HeadByte
<1>2. Left' = Left - 1 /\ 1 <= Left
  BY <1>1, <1>f DEF Left
<1>3. GoingUp /\ call.fn # "memmove"
  BY <1>1 DEF IInv, Progress
<1>4. TypeOK' /\ Left' <= call'.n /\ GoingUp'
  BY <1>1, <1>2, <1>3, <1>f, UpInv
<1> QED BY <1>1, <1>3, <1>4 DEF IInv, Progress

(* The dwords and the bytes behind them are what was left: 4 * (n \div 4) *)
(* + n % 4 = n.                                                            *)
LEMMA AlignedInv == ASSUME IInv, Aligned PROVE IInv'
<1>f. ecx \in Nat /\ edx \in 0 .. 3 /\ Left \in Nat
  BY CallFacts
<1>1. /\ pc = "top" /\ edx' = ecx % 4 /\ ecx' = ecx \div 4 /\ df' = FALSE /\ pc' = "dwords"
      /\ UNCHANGED <<mem, edi, esi, call>>
  BY DEF Aligned, Remainder, ClearDirection
<1>2. ecx' \in Nat /\ edx' \in 0 .. 3 /\ 4 * ecx' + edx' = ecx
  BY <1>1, <1>f
<1>3. Left' = Left
  BY <1>1, <1>2 DEF Left
<1>4. TypeOK'
  BY <1>1, <1>2 DEF IInv, TypeOK
<1>5. GoingUp' /\ call'.fn # "memmove"
  <2>1. GoingUp /\ call.fn # "memmove"
    BY <1>1 DEF IInv, Progress
  <2> QED BY <2>1, <1>1, <1>3 DEF GoingUp, PointAt, Holds, MayOverlap, Moved
<1> QED BY <1>1, <1>3, <1>4, <1>5 DEF IInv, Progress

LEMMA DwordInv == ASSUME IInv, Dword PROVE IInv'
<1>f. ecx \in Nat /\ edx \in 0 .. 3 /\ Left \in Nat
  BY CallFacts
<1>1. /\ pc = "dwords" /\ ecx # 0 /\ ecx' = ecx - 1 /\ UNCHANGED <<edx, df, pc, call>>
      /\ Store(4)
  BY DEF Dword
<1>2. Left' = Left - 4 /\ 4 <= Left
  BY <1>1, <1>f DEF Left
<1>3. GoingUp /\ call.fn # "memmove" /\ ~df
  BY <1>1 DEF IInv, Progress
<1>4. Advance(4)
  BY <1>3 DEF Dword
<1>5. TypeOK' /\ Left' <= call'.n /\ GoingUp'
  BY <1>1, <1>2, <1>3, <1>4, <1>f, UpInv
<1> QED BY <1>1, <1>3, <1>5 DEF IInv, Progress

LEMMA DwordsDoneInv == ASSUME IInv, DwordsDone PROVE IInv'
<1>f. ecx \in Nat /\ edx \in 0 .. 3
  BY CallFacts
<1>1. pc = "dwords" /\ ecx = 0 /\ pc' = "bottom" /\ UNCHANGED <<mem, regs, df, call>>
  BY DEF DwordsDone
<1>2. Left' = Left
  BY <1>1, <1>f DEF Left, regs
<1>3. TypeOK'
  BY <1>1 DEF IInv, TypeOK, regs
<1>4. GoingUp' /\ call'.fn # "memmove"
  <2>1. GoingUp /\ call.fn # "memmove"
    BY <1>1 DEF IInv, Progress
  <2> QED BY <2>1, <1>1, <1>2 DEF GoingUp, PointAt, Holds, MayOverlap, Moved, regs
<1> QED BY <1>1, <1>2, <1>3, <1>4 DEF IInv, Progress, regs

LEMMA TailByteInv == ASSUME IInv, TailByte PROVE IInv'
<1>f. ecx \in Nat /\ edx \in 0 .. 3 /\ Left \in Nat
  BY CallFacts
<1>1. /\ pc = "bottom" /\ edx # 0 /\ edx' = edx - 1 /\ UNCHANGED <<ecx, df, pc, call>>
      /\ Store(1) /\ Advance(1)
  BY DEF TailByte
<1>2. Left' = Left - 1 /\ 1 <= Left /\ edx' \in 0 .. 3
  BY <1>1, <1>f DEF Left
<1>3. GoingUp /\ call.fn # "memmove" /\ ecx = 0
  BY <1>1 DEF IInv, Progress
<1>4. TypeOK' /\ Left' <= call'.n /\ GoingUp'
  BY <1>1, <1>2, <1>3, <1>f, UpInv
<1> QED BY <1>1, <1>3, <1>4 DEF IInv, Progress

(* memmove takes the direction in which no byte is overwritten unread. *)
LEMMA DirectionInv == ASSUME IInv, Direction PROVE IInv'
<1>f. /\ LastCell \in Nat /\ call.dest \in Nat /\ call.src \in Nat /\ call.n \in Nat
      /\ edi \in Int /\ esi \in Int /\ ecx \in Nat /\ edx \in 0 .. 3
  BY CallFacts
<1>1. /\ pc = "direction" /\ pc' = "bytes" /\ UNCHANGED <<mem, ecx, edx, call>>
      /\ IF esi >= edi
         THEN df' = FALSE /\ edi' = edi /\ esi' = esi
         ELSE df' = TRUE /\ esi' = esi + (ecx - 1) /\ edi' = edi + (ecx - 1)
  BY DEF Direction, Forwards, LastByte
<1>2. call.fn = "memmove" /\ edi = call.dest /\ esi = call.src /\ ecx = call.n /\ mem = Untouched
  BY <1>1, <1>f DEF IInv, Progress, PointAt
<1>3. Left' = call.n
  BY <1>1, <1>2 DEF Left
<1>n. edi' \in Int /\ esi' \in Int
  BY <1>1, <1>f
<1>d. df' \in BOOLEAN
  BY <1>1, Zenon
<1>t. edi' \in Int /\ esi' \in Int /\ df' \in BOOLEAN
  BY <1>n, <1>d
<1>4. TypeOK'
  BY <1>1, <1>t DEF IInv, TypeOK
<1>5. \A a \in Cells : mem'[a] = a
  BY <1>1, <1>2 DEF Untouched
<1>6. CASE esi >= edi
  <2>1. PointAt(call.n - Left)'
    BY <1>1, <1>2, <1>3, <1>6, <1>f DEF PointAt
  <2>2. Holds(mem, call.dest, call.dest + call.n - Left)'
    BY <1>1, <1>3, <1>5, <1>f DEF Holds, Cells
  <2> QED BY <1>1, <1>2, <1>3, <1>4, <1>6, <1>f, <2>1, <2>2 DEF IInv, Progress, GoingUp
<1>7. CASE ~(esi >= edi)
  <2>1. PointAt(Left - 1)'
    BY <1>1, <1>2, <1>3, <1>7, <1>f DEF PointAt
  <2>2. Holds(mem, call.dest + Left, call.dest + call.n)'
    BY <1>1, <1>3, <1>5, <1>f DEF Holds, Cells
  <2> QED BY <1>1, <1>2, <1>3, <1>4, <1>7, <1>f, <2>1, <2>2 DEF IInv, Progress, GoingDown
<1> QED BY <1>6, <1>7

LEMMA MoveByteInv == ASSUME IInv, MoveByte PROVE IInv'
<1>f. /\ LastCell \in Nat /\ call.dest \in Nat /\ call.src \in Nat /\ call.n \in Nat
      /\ edi \in Int /\ esi \in Int /\ ecx \in Nat /\ edx \in 0 .. 3 /\ df \in BOOLEAN
      /\ Left <= call.n
  BY CallFacts
<1>1. /\ pc = "bytes" /\ ecx # 0 /\ ecx' = ecx - 1 /\ UNCHANGED <<edx, df, pc, call>>
      /\ Store(1) /\ Advance(IF df THEN -1 ELSE 1)
  BY DEF MoveByte
<1>2. Left = ecx /\ Left' = ecx - 1
  BY <1>1 DEF Left
<1>3. call.fn = "memmove" /\ IF df THEN GoingDown ELSE GoingUp
  BY <1>1 DEF IInv, Progress
<1>4. CASE df
  <2> DEFINE k == ecx - 1
  <2>1. /\ PointAt(k) /\ call.dest > call.src
        /\ Holds(mem, call.dest + k + 1, call.dest + call.n)
    <3>1. PointAt(Left - 1) /\ Holds(mem, call.dest + Left, call.dest + call.n)
      BY <1>3, <1>4 DEF GoingDown
    <3>2. Left - 1 = k /\ call.dest + Left = call.dest + k + 1
      BY <1>2, <1>f
    <3> QED BY <1>3, <1>4, <3>1, <3>2 DEF GoingDown
  <2>2. k \in Nat /\ k < call.n
    BY <1>1, <1>2, <1>f
  <2>3. /\ mem' \in [Cells -> Cells \cup {Fill}]
        /\ \A a \in Cells :
             IF call.dest + k <= a /\ a < call.dest + call.n
             THEN MayOverlap => mem'[a] = Moved(a) ELSE mem'[a] = a
    BY <1>1, <1>3, <1>f, <2>1, <2>2, StoreDown DEF IInv
  <2>4. call' = call /\ df' = df /\ Left' = k /\ edi' = edi - 1 /\ esi' = esi - 1
    BY <1>1, <1>2, <1>3, <1>4 DEF Advance
  <2>5. TypeOK'
    BY <1>1, <1>f, <2>3, <2>4 DEF IInv, TypeOK
  <2>6. PointAt(Left - 1)'
    BY <1>3, <1>f, <2>1, <2>4 DEF PointAt
  <2>7. Holds(mem, call.dest + Left, call.dest + call.n)'
    BY <2>3, <2>4 DEF Holds, MayOverlap, Moved
  <2>8. GoingDown'
    BY <1>3, <2>1, <2>4, <2>6, <2>7 DEF GoingDown
  <2> QED BY <1>1, <1>2, <1>3, <1>4, <1>f, <2>4, <2>5, <2>8 DEF IInv, Progress
<1>5. CASE ~df
  <2>1. Left' = Left - 1 /\ 1 <= Left /\ Advance(1)
    BY <1>1, <1>2, <1>5, <1>f
  <2>2. TypeOK' /\ Left' <= call'.n /\ GoingUp'
    BY <1>1, <1>3, <1>5, <1>f, <2>1, UpInv
  <2> QED BY <1>1, <1>3, <1>5, <2>2 DEF IInv, Progress
<1> QED BY <1>4, <1>5, <1>f

LEMMA ReturnInv == ASSUME IInv, Return PROVE IInv'
<1>f. /\ LastCell \in Nat /\ call.dest \in Nat /\ call.n \in Nat
      /\ ecx \in Nat /\ edx \in 0 .. 3 /\ df \in BOOLEAN
  BY CallFacts
<1>1. /\ (pc \in {"top", "bytes"} /\ ecx = 0) \/ (pc = "bottom" /\ edx = 0)
      /\ pc' = "returned" /\ UNCHANGED <<mem, regs, df, call>>
  BY DEF Return
<1>2. ecx = 0 /\ Left = 0 /\ Left' = 0
  BY <1>1, <1>f DEF Left, regs, IInv, Progress
<1>3. TypeOK'
  BY <1>1 DEF IInv, TypeOK, regs
<1>4. Holds(mem, call.dest, call.dest + call.n)
  <2>1. GoingUp \/ GoingDown
    BY <1>1 DEF IInv, Progress
  <2>2. call.dest + call.n - 0 = call.dest + call.n /\ call.dest + 0 = call.dest
    BY <1>f
  <2> QED BY <2>1, <2>2, <1>2 DEF GoingUp, GoingDown
<1>5. Holds(mem, call.dest, call.dest + call.n)'
  BY <1>1, <1>4 DEF Holds, MayOverlap, Moved
<1> QED BY <1>1, <1>2, <1>3, <1>5, <1>f DEF IInv, Progress, regs

LEMMA ContinueInv == ASSUME IInv, Continue PROVE IInv'
<1>1. NoCall \in Calls /\ NoCall.n = 0
  BY LibraryAssumption DEF NoCall, Calls, Functions, Cells
<1>2. Untouched \in [Cells -> Cells \cup {Fill}]
  BY DEF Untouched
<1>3. /\ pc' = "idle" /\ call' = NoCall /\ mem' = Untouched /\ ecx' = 0 /\ edx' = 0
      /\ edi' = 0 /\ esi' = 0 /\ df' = df
  BY DEF Continue
<1>4. TypeOK'
  BY <1>1, <1>2, <1>3 DEF IInv, TypeOK
<1> QED BY <1>1, <1>3, <1>4 DEF IInv, Progress, Left

LEMMA StepInv == IInv /\ [Next]_vars => IInv'
<1> SUFFICES ASSUME IInv, [Next]_vars PROVE IInv'
  OBVIOUS
<1>1. CASE \E c \in Calls : Call(c)
  BY <1>1, CallInv
<1>2. CASE HeadByte \/ Aligned \/ Dword \/ DwordsDone \/ TailByte
  BY <1>2, HeadByteInv, AlignedInv, DwordInv, DwordsDoneInv, TailByteInv
<1>3. CASE Direction \/ MoveByte
  BY <1>3, DirectionInv, MoveByteInv
<1>4. CASE Return \/ Continue
  BY <1>4, ReturnInv, ContinueInv
<1>5. CASE UNCHANGED vars
  BY <1>5 DEF vars, regs, IInv, TypeOK, Left, Progress, GoingUp, GoingDown, PointAt,
              Holds, MayOverlap, Moved
<1> QED BY <1>1, <1>2, <1>3, <1>4, <1>5 DEF Next

-----------------------------------------------------------------------------
LEMMA Invariance == Spec => []IInv
<1> QED BY InitInv, StepInv, PTL DEF Spec

(* The registers stay numbers, the counters never run below zero, and      *)
(* every byte is an old byte or the one memset stores (lib.c, memset to    *)
(* memmove).                                                               *)
THEOREM LibraryTypeCorrect == Spec => []TypeOK
<1>1. IInv => TypeOK
  BY DEF IInv
<1> QED BY <1>1, Invariance, PTL

(* No call of memset, memcpy or memmove ever writes outside the n bytes it *)
(* was given, at any moment, for any alignment or length.                  *)
THEOREM LibraryOnlyDestWritten == Spec => []OnlyDestWritten
<1>1. ASSUME IInv PROVE OnlyDestWritten
  <2>f. /\ LastCell \in Nat /\ call.dest \in Nat /\ call.n \in Nat
        /\ Left \in Nat /\ Left <= call.n
    BY <1>1, CallFacts
  <2> SUFFICES ASSUME NEW a \in Cells, a \notin Dest PROVE mem[a] = a
    BY DEF OnlyDestWritten
  <2>1. a \in Int /\ ~(call.dest <= a /\ a < call.dest + call.n)
    BY <2>f DEF Dest, Cells
  <2>2. CASE mem = Untouched
    BY <2>2 DEF Untouched
  <2>3. CASE GoingUp
    BY <2>1, <2>3, <2>f DEF GoingUp, Holds
  <2>4. CASE GoingDown
    BY <2>1, <2>4, <2>f DEF GoingDown, Holds
  <2>5. CASE Holds(mem, call.dest, call.dest + call.n)
    BY <2>1, <2>5 DEF Holds
  <2> QED BY <1>1, <2>2, <2>3, <2>4, <2>5 DEF IInv, Progress, TypeOK
<1> QED BY <1>1, Invariance, PTL

(* When a call returns its destination holds what was asked for: the byte  *)
(* of memset, or what the source held when the call began, though memmove  *)
(* may overlap in any way and leaves the direction flag to the next call.  *)
THEOREM LibraryDelivered == Spec => []Delivered
<1>1. ASSUME IInv PROVE Delivered
  <2>f. LastCell \in Nat /\ call.dest \in Nat /\ call.n \in Nat
        /\ call.dest + call.n <= LastCell + 1
    BY <1>1, LibraryAssumption DEF IInv, TypeOK, Calls, Cells
  <2> SUFFICES ASSUME pc = "returned", MayOverlap, NEW a \in Dest
               PROVE  mem[a] = Moved(a)
    BY DEF Delivered, Moved
  <2>1. a \in Cells /\ call.dest <= a /\ a < call.dest + call.n
    BY <2>f DEF Dest, Cells
  <2>2. Holds(mem, call.dest, call.dest + call.n)
    BY <1>1 DEF IInv, Progress
  <2> QED BY <2>1, <2>2 DEF Holds
<1> QED BY <1>1, Invariance, PTL
=============================================================================
