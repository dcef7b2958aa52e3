-------------------------- MODULE ProgramsProofs --------------------------
(***************************************************************************)
(* Theorems about Programs.tla: what the files promise (FilesProofs.tla)   *)
(* holds of the descriptors of whatever program runs, and what the         *)
(* programs make of it: grep stops at the end of a file, cat shows a file  *)
(* whole, ls every name; and the words of a command reach the program.     *)
(***************************************************************************)
EXTENDS Programs, SequenceTheorems, TLAPS

Fp == INSTANCE FilesProofs WITH last <- answer

-----------------------------------------------------------------------------
(* The two instances of Files.tla are one.                                 *)
LEMMA SameAssumption == Fs!FilesAssumption = Fp!FilesAssumption
BY DEF Fs!FilesAssumption, Fp!FilesAssumption, Fs!Names, Fp!Names, Fs!Indices, Fp!Indices,
       Fs!Types, Fp!Types, Fs!EndMark, Fp!EndMark

LEMMA SameConstants ==
  /\ Fs!Fds = Fp!Fds /\ Fs!Indices = Fp!Indices /\ Fs!Types = Fp!Types
  /\ Fs!Names = Fp!Names /\ Fs!EndMark = Fp!EndMark /\ Fs!NoRead = Fp!NoRead
BY DEF Fs!Fds, Fp!Fds, Fs!Indices, Fp!Indices, Fs!Types, Fp!Types, Fs!Names, Fp!Names,
       Fs!EndMark, Fp!EndMark, Fs!NoRead, Fp!NoRead

LEMMA SameDentry ==
  ASSUME NEW name PROVE Fs!read_dentry_by_name(name) = Fp!read_dentry_by_name(name)
BY DEF Fs!read_dentry_by_name, Fp!read_dentry_by_name, Fs!Indices, Fp!Indices, Fs!Min, Fp!Min,
       Fs!SameUpTo, Fp!SameUpTo, Fs!At, Fp!At, Fs!EndMark, Fp!EndMark,
       Fs!CompareLength, Fp!CompareLength

LEMMA SameLowest == Fs!LowestFree = Fp!LowestFree
BY DEF Fs!LowestFree, Fp!LowestFree, Fs!Fds, Fp!Fds, Fs!Min, Fp!Min

LEMMA SameOpen ==
  ASSUME NEW name
  PROVE  (Fs!Open(name) <=> Fp!Open(name)) /\ (Fs!OpenMissing(name) <=> Fp!OpenMissing(name))
BY SameDentry, SameLowest, SameConstants
   DEF Fs!Open, Fp!Open, Fs!OpenMissing, Fp!OpenMissing, Fs!SetInode, Fp!SetInode

LEMMA SameClose == ASSUME NEW f PROVE Fs!Close(f) <=> Fp!Close(f)
BY SameConstants DEF Fs!Close, Fp!Close, Fs!ClearInode, Fp!ClearInode, Fs!ResetPosition, Fp!ResetPosition

LEMMA SameReadData ==
  ASSUME NEW size, NEW offset, NEW length
  PROVE  Fs!read_data(size, offset, length) = Fp!read_data(size, offset, length)
BY DEF Fs!read_data, Fp!read_data, Fs!BlocksRead, Fp!BlocksRead, Fs!CutLength, Fp!CutLength,
       Fs!StartOffset, Fp!StartOffset, Fs!EndOffset, Fp!EndOffset, Fs!FlattenSeq, Fp!FlattenSeq

LEMMA SameDirectoryRead ==
  ASSUME NEW offset, NEW length
  PROVE  Fs!directory_read(offset, length) = Fp!directory_read(offset, length)
BY DEF Fs!directory_read, Fp!directory_read, Fs!Min, Fp!Min

LEMMA SameRead ==
  ASSUME NEW f, NEW n
  PROVE  /\ Fs!ReadFile(f, n) <=> Fp!ReadFile(f, n)
         /\ Fs!ReadClock(f, n) <=> Fp!ReadClock(f, n)
         /\ Fs!ReadDirectory(f, n) <=> Fp!ReadDirectory(f, n)
<1>1. \A g, m, got : Fs!Answered(g, m, got) <=> Fp!Answered(g, m, got)
  BY DEF Fs!Answered, Fp!Answered
<1>2. \A g, m : Fs!Advance(g, m) <=> Fp!Advance(g, m)
  BY DEF Fs!Advance, Fp!Advance
<1>3. Fs!ReadFile(f, n) <=> Fp!ReadFile(f, n)
  BY <1>1, <1>2, SameReadData DEF Fs!ReadFile, Fp!ReadFile
<1>4. Fs!ReadClock(f, n) <=> Fp!ReadClock(f, n)
  BY <1>1 DEF Fs!ReadClock, Fp!ReadClock
<1>5. Fs!ReadDirectory(f, n) <=> Fp!ReadDirectory(f, n)
  BY <1>1, <1>2, SameDirectoryRead
     DEF Fs!ReadDirectory, Fp!ReadDirectory, Fs!NamesPerRead, Fp!NamesPerRead, Fs!vars, Fp!vars
<1> QED
  BY <1>3, <1>4, <1>5

LEMMA SameProperties ==
  /\ Fs!TypeOK <=> Fp!TypeOK
  /\ Fs!DescriptorsMatch <=> Fp!DescriptorsMatch
  /\ Fs!OpensNamed <=> Fp!OpensNamed
  /\ Fs!FitsBuffer <=> Fp!FitsBuffer
  /\ Fs!NothingSkipped <=> Fp!NothingSkipped
  /\ Fs!DirectorySeen <=> Fp!DirectorySeen
<1>1. Fs!TypeOK <=> Fp!TypeOK
  BY SameConstants DEF Fs!TypeOK, Fp!TypeOK
<1>2. Fs!DescriptorsMatch <=> Fp!DescriptorsMatch
  BY SameConstants DEF Fs!DescriptorsMatch, Fp!DescriptorsMatch
<1>3. Fs!OpensNamed <=> Fp!OpensNamed
  BY DEF Fs!OpensNamed, Fp!OpensNamed
<1>4. Fs!FitsBuffer <=> Fp!FitsBuffer
  BY DEF Fs!FitsBuffer, Fp!FitsBuffer
<1>5. Fs!NothingSkipped <=> Fp!NothingSkipped
  BY DEF Fs!NothingSkipped, Fp!NothingSkipped, Fs!Size, Fp!Size
<1>6. Fs!DirectorySeen <=> Fp!DirectorySeen
  BY DEF Fs!DirectorySeen, Fp!DirectorySeen, Fs!Min, Fp!Min, Fs!IsPrefix, Fp!IsPrefix
<1> QED
  BY <1>1, <1>2, <1>3, <1>4, <1>5, <1>6

LEMMA FilesOK == Fp!FilesAssumption
BY SameAssumption, GrepAssumption DEF GrepAssumption
-----------------------------------------------------------------------------
(* What a step of a program may do to the files, and that this is enough.  *)
FilesStep ==
  \/ \E name : Fp!IsName(name) /\ (Fs!Open(name) \/ Fs!OpenMissing(name))
  \/ \E f \in Fs!Fds, n \in Nat : ReadAny(f, n)
  \/ \E f \in Fs!Fds : Fs!Close(f)
  \/ Fs!Init'
  \/ UNCHANGED files

LEMMA FilesInit == Fs!Init => Fp!ReadInv
<1>1. Fs!Init => Fp!Init
  BY SameConstants DEF Fs!Init, Fp!Init
<1> QED
  BY <1>1, FilesOK, Fp!InitRead

LEMMA FilesKept == ASSUME Fp!ReadInv, FilesStep PROVE Fp!ReadInv'
<1>1. ASSUME NEW name, Fp!IsName(name), Fs!Open(name) \/ Fs!OpenMissing(name) PROVE Fp!ReadInv'
  BY <1>1, FilesOK, SameOpen, Fp!OpenRead, Fp!OpenMissingRead
<1>2. ASSUME NEW f \in Fs!Fds, NEW n \in Nat, ReadAny(f, n) PROVE Fp!ReadInv'
  <2>1. f \in Fp!Fds
    BY SameConstants
  <2> QED
    BY <1>2, <2>1, FilesOK, SameRead, Fp!ReadFileRead, Fp!ReadClockRead, Fp!ReadDirectoryRead
       DEF ReadAny
<1>3. ASSUME NEW f \in Fs!Fds, Fs!Close(f) PROVE Fp!ReadInv'
  <2>1. f \in Fp!Fds
    BY SameConstants
  <2> QED
    BY <1>3, <2>1, FilesOK, SameClose, Fp!CloseRead
<1>4. ASSUME Fs!Init' PROVE Fp!ReadInv'
  <2>1. Fs!Init' => Fp!ReadInv'
    BY FilesInit, PTL
  <2> QED
    BY <1>4, <2>1
<1>5. ASSUME UNCHANGED files PROVE Fp!ReadInv'
  BY <1>5, FilesOK, Fp!NextRead DEF files, Fp!vars
<1> QED
  BY <1>1, <1>2, <1>3, <1>4, <1>5 DEF FilesStep
-----------------------------------------------------------------------------
(***************************************************************************)
(* The words of a command.  parse stops where the definition says a word   *)
(* begins or ends; a name that is too long is where they differ.           *)
(***************************************************************************)
LEMMA Least ==
  ASSUME NEW S \in SUBSET Nat, S # {} PROVE Cmd!Min(S) \in S /\ \A x \in S : Cmd!Min(S) <= x
BY Fp!MinFound DEF Cmd!Min, Fp!Min

LEMMA LeastIs ==
  ASSUME NEW S \in SUBSET Nat, NEW m \in S, \A x \in S : m <= x PROVE Cmd!Min(S) = m
<1> DEFINE n == Cmd!Min(S)
<1>1. n \in S /\ n <= m
  BY Least
<1> HIDE DEF n
<1>2. n \in Nat /\ m \in Nat /\ m <= n
  BY <1>1
<1>3. n = m
  BY <1>1, <1>2
<1> QED
  BY <1>3 DEF n

IsCommand(c) == c \in Seq(STRING) /\ \A k \in 1 .. Len(c) : c[k] # NUL /\ c[k] # NL

LEMMA Spaces ==
  ASSUME NEW c, IsCommand(c), NEW from \in 1 .. Len(c) + 1
  PROVE  /\ Cmd!AfterSpaces(c, from) =
              Cmd!Min({i \in DOMAIN c \ {k \in DOMAIN c : c[k] = SPACE} : i >= from} \cup {Len(c) + 1})
         /\ Cmd!AfterSpaces(c, from) \in from .. Len(c) + 1
         /\ Cmd!AfterSpaces(c, from) <= Len(c) => c[Cmd!AfterSpaces(c, from)] # SPACE
<1> DEFINE S == {i \in from .. Len(c) + 1 : Cmd!At(c, i) # SPACE}
           T == {i \in DOMAIN c \ {k \in DOMAIN c : c[k] = SPACE} : i >= from} \cup {Len(c) + 1}
<1>1. DOMAIN c = 1 .. Len(c) /\ Len(c) \in Nat /\ NUL # SPACE
  BY GrepAssumption DEF IsCommand, GrepAssumption
<1>2. Cmd!AfterSpaces(c, from) = Cmd!Min(S)
  BY DEF Cmd!AfterSpaces, Cmd!First
<1>3. S = T
  BY <1>1 DEF Cmd!At
<1>4. S \in SUBSET Nat /\ Len(c) + 1 \in S
  BY <1>1 DEF Cmd!At
<1>5. Cmd!Min(S) \in S
  BY <1>4, Least
<1>6. Cmd!Min(S) <= Len(c) => c[Cmd!Min(S)] # SPACE
  BY <1>5 DEF Cmd!At
<1> QED
  BY <1>2, <1>3, <1>5, <1>6

(* A name ends where a space or the command does, if it is not too long.   *)
LEMMA NameEnds ==
  ASSUME NEW c, IsCommand(c), NEW start \in 1 .. Len(c) + 1, start <= Len(c) => c[start] # SPACE
  PROVE  LET stop == Cmd!NameEnd(c, start)
             spaces == {k \in DOMAIN c : c[k] = SPACE}
         IN /\ stop \in start .. Len(c) + 1
            /\ stop - start <= TASKNAME_SIZE - 1
            /\ ~Cmd!TooLong(c, start, stop) =>
                 /\ stop = Cmd!Min({i \in spaces : i > start} \cup {Len(c) + 1})
                 /\ stop = Len(c) + 1 \/ c[stop] = SPACE
<1> DEFINE stop == Cmd!NameEnd(c, start)
           S == {i \in start .. Len(c) + 1 : Cmd!EndsWord(c, i) \/ i - start = TASKNAME_SIZE - 1}
           B == {i \in {k \in DOMAIN c : c[k] = SPACE} : i > start} \cup {Len(c) + 1}
<1>1. DOMAIN c = 1 .. Len(c) /\ Len(c) \in Nat /\ NUL # SPACE /\ start \in Nat
  BY GrepAssumption DEF IsCommand, GrepAssumption
<1>2. TASKNAME_SIZE - 1 \in Nat
  BY GrepAssumption DEF GrepAssumption, Fs!FilesAssumption
<1>3. stop = Cmd!Min(S)
  BY DEF Cmd!NameEnd, Cmd!First
<1>4. S \in SUBSET Nat /\ Len(c) + 1 \in S
  BY <1>1 DEF Cmd!EndsWord, Cmd!At
<1>5. stop \in S /\ \A i \in S : stop <= i
  BY <1>3, <1>4, Least
<1> HIDE DEF stop
<1>6. stop - start <= TASKNAME_SIZE - 1
  <2> SUFFICES ASSUME start + (TASKNAME_SIZE - 1) < stop PROVE FALSE
    BY <1>1, <1>2, <1>5
  <2>1. start + (TASKNAME_SIZE - 1) \in S
    BY <1>1, <1>2, <1>5
  <2> QED
    BY <1>1, <1>2, <1>5, <2>1
<1>7. \A i \in B : i \in S
  BY <1>1 DEF Cmd!EndsWord, Cmd!At
<1>8. ASSUME ~Cmd!TooLong(c, start, stop)
      PROVE  stop = Cmd!Min(B) /\ (stop = Len(c) + 1 \/ c[stop] = SPACE)
  <2>1. Cmd!EndsWord(c, stop)
    BY <1>5, <1>8 DEF Cmd!TooLong
  <2>2. stop = Len(c) + 1 \/ (stop <= Len(c) /\ c[stop] = SPACE)
    BY <1>1, <1>5, <2>1 DEF Cmd!EndsWord, Cmd!At, IsCommand
  <2>3. stop \in B
    BY <1>1, <1>5, <2>2
  <2>4. B \in SUBSET Nat
    BY <1>1
  <2> QED
    BY <1>5, <1>7, <2>2, <2>3, <2>4, LeastIs
<1> QED
  BY <1>5, <1>6, <1>8 DEF stop
LEMMA ArgumentEnds ==
  ASSUME NEW c, IsCommand(c), NEW from \in 1 .. Len(c) + 1
  PROVE  Cmd!ArgumentEnd(c, from) =
           from + (IF Len(c) + 1 - from <= ARGUMENT_SIZE - 1 THEN Len(c) + 1 - from ELSE ARGUMENT_SIZE - 1)
<1> DEFINE S == {i \in from .. Len(c) + 1 : Cmd!At(c, i) \in {NL, NUL} \/ i - from = ARGUMENT_SIZE - 1}
           n == IF Len(c) + 1 - from <= ARGUMENT_SIZE - 1 THEN Len(c) + 1 - from ELSE ARGUMENT_SIZE - 1
<1>1. Len(c) \in Nat /\ from \in Nat /\ from <= Len(c) + 1 /\ ARGUMENT_SIZE - 1 \in Nat
  BY GrepAssumption DEF IsCommand, GrepAssumption
<1>2. Cmd!ArgumentEnd(c, from) = Cmd!Min(S)
  BY DEF Cmd!ArgumentEnd, Cmd!First
<1>3. n \in Nat /\ from + n <= Len(c) + 1 /\ n <= ARGUMENT_SIZE - 1
      /\ (n = Len(c) + 1 - from \/ n = ARGUMENT_SIZE - 1)
  BY <1>1
<1> HIDE DEF n
<1>4. from + n \in S
  BY <1>1, <1>3 DEF Cmd!At
<1>5. \A i \in S : from + n <= i
  <2> SUFFICES ASSUME NEW i \in S, i < from + n PROVE FALSE
    BY <1>1, <1>3
  <2>1. i \in 1 .. Len(c) /\ i - from # ARGUMENT_SIZE - 1
    BY <1>1, <1>3
  <2> QED
    BY <1>1, <2>1 DEF Cmd!At, IsCommand
<1>6. S \in SUBSET Nat
  BY <1>1
<1>7. Cmd!Min(S) = from + n
  BY <1>4, <1>5, <1>6, LeastIs
<1> QED
  BY <1>2, <1>7 DEF n

(* parse finds the words of a command, unless the first is refused.        *)
LEMMA Parsed ==
  ASSUME NEW c, IsCommand(c)
  PROVE  LET p == Cmd!parse(c)
             whole == Words(c).argument
         IN /\ ~p.toolong => p.name = Words(c).name /\ Len(p.name) <= TASKNAME_SIZE - 1
            /\ ~p.toolong => p.argument = SubSeq(whole, 1, Cmd!Min({Len(whole), ARGUMENT_SIZE - 1}))
            /\ p.argument \in Seq(STRING) /\ Len(p.argument) <= ARGUMENT_SIZE - 1
            /\ \A k \in 1 .. Len(p.argument) : p.argument[k] # NUL
<1> DEFINE L == Len(c)
           start == Cmd!AfterSpaces(c, 1)
           stop == Cmd!NameEnd(c, start)
           from == Cmd!AfterSpaces(c, stop)
           end == Cmd!ArgumentEnd(c, from)
           spaces == {k \in DOMAIN c : c[k] = SPACE}
           Lst(S) == Cmd!Min(S \cup {L + 1})
           name == Lst(DOMAIN c \ spaces)
           behind == Lst({i \in spaces : i > name})
           argument == Lst({i \in DOMAIN c \ spaces : i > behind})
           whole == SubSeq(c, argument, L)
<1>1. L \in Nat /\ DOMAIN c = 1 .. L /\ c \in Seq(STRING) /\ ARGUMENT_SIZE - 1 \in Nat /\ 1 \in 1 .. L + 1
      /\ TASKNAME_SIZE - 1 \in Nat
  BY GrepAssumption DEF IsCommand, GrepAssumption, Fs!FilesAssumption
<1>2. start \in 1 .. L + 1 /\ (start <= L => c[start] # SPACE) /\ start = name
  <2>1. {i \in DOMAIN c \ spaces : i >= 1} = DOMAIN c \ spaces
    BY <1>1
  <2> QED
    BY <1>1, <2>1, Spaces
<1>3. /\ stop \in start .. L + 1 /\ stop - start <= TASKNAME_SIZE - 1
      /\ ~Cmd!TooLong(c, start, stop) =>
           stop = Lst({i \in spaces : i > start}) /\ (stop = L + 1 \/ c[stop] = SPACE)
  BY <1>2, NameEnds
<1>4. stop \in 1 .. L + 1
  BY <1>2, <1>3
<1>5. from \in stop .. L + 1 /\ from = Lst({i \in DOMAIN c \ spaces : i >= stop})
  BY <1>4, Spaces
<1>6. from \in 1 .. L + 1
  BY <1>4, <1>5
<1> DEFINE n == IF L + 1 - from <= ARGUMENT_SIZE - 1 THEN L + 1 - from ELSE ARGUMENT_SIZE - 1
<1>7. end = from + n
  BY <1>6, ArgumentEnds
<1>8. /\ Cmd!parse(c).name = SubSeq(c, start, stop - 1)
      /\ Cmd!parse(c).toolong = Cmd!TooLong(c, start, stop)
      /\ Cmd!parse(c).argument = SubSeq(c, from, end - 1)
  BY DEF Cmd!parse
<1>9. Words(c).name = SubSeq(c, name, behind - 1) /\ Words(c).argument = whole
  BY DEF Words
<1>10. ~Cmd!TooLong(c, start, stop) => stop = behind
  BY <1>2, <1>3
<1>11. ~Cmd!TooLong(c, start, stop) => from = argument
  <2> SUFFICES ASSUME ~Cmd!TooLong(c, start, stop) PROVE from = argument
    OBVIOUS
  <2>1. stop = L + 1 \/ stop \in spaces
    BY <1>1, <1>3, <1>4
  <2>2. {i \in DOMAIN c \ spaces : i >= stop} = {i \in DOMAIN c \ spaces : i > stop}
    BY <1>1, <1>4, <2>1
  <2> QED
    BY <1>5, <1>10, <2>2
<1> HIDE DEF start, stop, from, end, name, behind, argument, spaces
<1>12. n \in Nat /\ n <= ARGUMENT_SIZE - 1 /\ from + n <= L + 1 /\ from + n - 1 \in Int
  BY <1>1, <1>6
<1>13. Cmd!Min({L + 1 - from, ARGUMENT_SIZE - 1}) = n
  BY <1>1, <1>6, LeastIs
<1> HIDE DEF n
<1> DEFINE cut == SubSeq(c, from, from + n - 1)
<1>14. cut \in Seq(STRING) /\ Len(cut) = n /\ \A i \in 1 .. n : cut[i] = c[from + i - 1]
  <2>1. \A i \in from .. from + n - 1 : i \in 1 .. L
    BY <1>1, <1>6, <1>12
  <2>2. \A i \in from .. from + n - 1 : c[i] \in STRING
    BY <1>1, <2>1
  <2>3. /\ cut \in Seq(STRING)
        /\ Len(cut) = IF from <= from + n - 1 THEN from + n - 1 - from + 1 ELSE 0
        /\ \A i \in 1 .. from + n - 1 - from + 1 : cut[i] = c[from + i - 1]
    BY <1>6, <1>12, <2>2, SubSeqProperties
  <2>4. from + n - 1 - from + 1 = n
    BY <1>6, <1>12
  <2> QED
    BY <1>6, <1>12, <2>3, <2>4
<1>15. \A i \in 1 .. n : cut[i] # NUL
  <2>1. \A i \in 1 .. n : from + i - 1 \in 1 .. L
    BY <1>1, <1>6, <1>12
  <2> QED
    BY <1>14, <2>1 DEF IsCommand
<1>16. Cmd!parse(c).argument = cut
  <2>1. end - 1 = from + n - 1
    BY <1>6, <1>7, <1>12
  <2> QED
    BY <1>8, <2>1, Zenon
<1>17. from = argument => /\ Len(whole) = L + 1 - from
                         /\ cut = SubSeq(whole, 1, n)
  <2> SUFFICES ASSUME from = argument
               PROVE  Len(whole) = L + 1 - from /\ cut = SubSeq(whole, 1, n)
    OBVIOUS
  <2>1. \A i \in from .. L : c[i] \in STRING
    BY <1>1, <1>6
  <2>2. /\ Len(whole) = L + 1 - from
        /\ \A i \in 1 .. L - from + 1 : whole[i] = c[from + i - 1]
    BY <1>1, <1>6, <2>1, SubSeqProperties
  <2>3. \A i \in 1 .. n : whole[i] = cut[i] /\ whole[i] \in STRING
    BY <1>1, <1>6, <1>12, <1>14, <2>2
  <2> HIDE DEF cut, whole
  <2>4. /\ SubSeq(whole, 1, n) \in Seq(STRING)
        /\ Len(SubSeq(whole, 1, n)) = n
        /\ \A i \in 1 .. n : SubSeq(whole, 1, n)[i] = whole[i]
    BY <1>12, <2>3, SubSeqProperties
  <2> QED
    BY <1>14, <2>2, <2>3, <2>4, SeqEqual
<1>18. ~Cmd!TooLong(c, start, stop) =>
         /\ Cmd!parse(c).name = Words(c).name
         /\ Len(Cmd!parse(c).name) <= TASKNAME_SIZE - 1
  <2> SUFFICES ASSUME ~Cmd!TooLong(c, start, stop)
               PROVE  SubSeq(c, start, stop - 1) = SubSeq(c, name, behind - 1)
                      /\ Len(SubSeq(c, start, stop - 1)) <= TASKNAME_SIZE - 1
    BY <1>8, <1>9
  <2>1. \A i \in start .. stop - 1 : c[i] \in STRING
    BY <1>1, <1>2, <1>4
  <2>2. Len(SubSeq(c, start, stop - 1)) = IF start <= stop - 1 THEN stop - 1 - start + 1 ELSE 0
    BY <1>2, <1>4, <2>1, SubSeqProperties
  <2>3. Len(SubSeq(c, start, stop - 1)) <= TASKNAME_SIZE - 1
    <3> DEFINE m == Len(SubSeq(c, start, stop - 1))
    <3>1. m = IF start <= stop - 1 THEN stop - 1 - start + 1 ELSE 0
      BY <2>2
    <3> HIDE DEF m
    <3> QED
      BY <1>1, <1>2, <1>3, <1>4, <3>1 DEF m
  <2> QED
    BY <1>2, <1>10, <2>3, Zenon
<1> QED
  BY <1>8, <1>9, <1>11, <1>12, <1>13, <1>14, <1>15, <1>16, <1>17, <1>18
(***************************************************************************)
(* What getargs makes of the argument in the PCB, for a buffer of n bytes. *)
(***************************************************************************)
LEMMA ArgumentArrives ==
  ASSUME NEW a \in Seq(STRING), Len(a) <= ARGUMENT_SIZE - 1, \A k \in 1 .. Len(a) : a[k] # NUL,
         NEW stack, NEW n \in Nat,
         args = [asked |-> n, got |-> Cmd!getargs(Cmd!ArgumentBuf(a, stack), n)]
  PROVE  IF Len(a) \in 1 .. n THEN ~Refused /\ Given = a ELSE Refused
<1> DEFINE buf == Cmd!ArgumentBuf(a, stack)
           got == Cmd!getargs(buf, n)
<1>1. Len(a) \in 0 .. ARGUMENT_SIZE - 1 /\ ARGUMENT_SIZE \in Nat
  BY GrepAssumption DEF GrepAssumption
<1>2. /\ DOMAIN buf = 0 .. ARGUMENT_SIZE - 1
      /\ \A k \in 0 .. ARGUMENT_SIZE - 1 :
           buf[k] = IF k < Len(a) THEN a[k + 1] ELSE IF k = Len(a) THEN NUL ELSE stack[k]
  BY DEF Cmd!ArgumentBuf
<1> HIDE DEF buf
<1>3. Cmd!strlen(buf) = Len(a)
  <2> DEFINE S == {k \in DOMAIN buf : buf[k] = NUL}
  <2>1. Len(a) \in S
    BY <1>1, <1>2
  <2>2. \A k \in S : Len(a) <= k
    <3> SUFFICES ASSUME NEW k \in S, k < Len(a) PROVE FALSE
      BY <1>1, <1>2
    <3>1. k + 1 \in 1 .. Len(a) /\ buf[k] = a[k + 1]
      BY <1>1, <1>2
    <3> QED
      BY <3>1
  <2>3. S \in SUBSET Nat
    BY <1>1, <1>2
  <2>4. Cmd!Min(S) = Len(a)
    BY <2>1, <2>2, <2>3, LeastIs
  <2> QED
    BY <2>4 DEF Cmd!strlen
<1>4. buf[0] = NUL <=> Len(a) = 0
  <2>1. 0 \in 0 .. ARGUMENT_SIZE - 1
    BY <1>1
  <2>2. Len(a) # 0 => 1 \in 1 .. Len(a)
    BY <1>1
  <2> QED
    BY <1>1, <1>2, <2>1, <2>2
<1>5. args.asked = n /\ args.got = got
  BY DEF buf
<1>6. CASE Len(a) \notin 1 .. n
  <2>1. got = Cmd!Refused
    BY <1>1, <1>3, <1>4, <1>6 DEF Cmd!getargs, Cmd!Fits
  <2> QED
    BY <1>5, <1>6, <2>1 DEF Refused
<1>7. CASE Len(a) \in 1 .. n
  <2>1. got = [k \in 0 .. n - 1 |-> IF k < ARGUMENT_SIZE THEN buf[k] ELSE NUL]
    BY <1>1, <1>3, <1>4, <1>7 DEF Cmd!getargs, Cmd!Fits
  <2> HIDE DEF got
  <2>2. ~Refused
    <3>1. 0 \in DOMAIN got
      BY <1>7, <2>1
    <3>2. DOMAIN <<>> = {}
      OBVIOUS
    <3> QED
      BY <1>5, <3>1, <3>2 DEF Refused, Cmd!Refused
  <2> DEFINE ends == {k \in 0 .. n - 1 : got[k] = NUL} \cup {n}
  <2>3. \A k \in 0 .. Len(a) - 1 : got[k] = a[k + 1] /\ got[k] # NUL
    <3> SUFFICES ASSUME NEW k \in 0 .. Len(a) - 1 PROVE got[k] = a[k + 1] /\ got[k] # NUL
      OBVIOUS
    <3>1. k \in 0 .. n - 1 /\ k < ARGUMENT_SIZE /\ k \in 0 .. ARGUMENT_SIZE - 1 /\ k + 1 \in 1 .. Len(a)
          /\ k < Len(a)
      BY <1>1, <1>7
    <3> QED
      BY <1>2, <2>1, <3>1
  <2>4. Len(a) \in ends
    <3>1. CASE Len(a) = n
      BY <3>1
    <3>2. CASE Len(a) # n
      <4>1. Len(a) \in 0 .. n - 1 /\ Len(a) < ARGUMENT_SIZE /\ Len(a) \in 0 .. ARGUMENT_SIZE - 1
            /\ ~(Len(a) < Len(a))
        BY <1>1, <1>7, <3>2
      <4> QED
        BY <1>2, <2>1, <4>1
    <3> QED
      BY <3>1, <3>2
  <2>5. \A k \in ends : Len(a) <= k
    <3> SUFFICES ASSUME NEW k \in ends, k < Len(a) PROVE FALSE
      BY <1>1, <1>7
    <3>1. k \in 0 .. Len(a) - 1 /\ k # n
      BY <1>1, <1>7
    <3> QED
      BY <2>3, <3>1
  <2>6. Cmd!Min(ends) = Len(a)
    <3>1. ends \in SUBSET Nat
      OBVIOUS
    <3> HIDE DEF ends
    <3> QED
      BY <2>4, <2>5, <3>1, LeastIs
  <2>7. Given = [k \in 1 .. Len(a) |-> got[k - 1]]
    BY <1>5, <2>6 DEF Given
  <2>8. \A k \in 1 .. Len(a) : got[k - 1] = a[k]
    <3> SUFFICES ASSUME NEW k \in 1 .. Len(a) PROVE got[k - 1] = a[k]
      OBVIOUS
    <3>1. k - 1 \in 0 .. Len(a) - 1 /\ (k - 1) + 1 = k
      BY <1>1
    <3> QED
      BY <2>3, <3>1
  <2>9. a = [k \in 1 .. Len(a) |-> a[k]]
    OBVIOUS
  <2>10. Given = a
    BY <2>7, <2>8, <2>9
  <2> QED
    BY <1>7, <2>2, <2>10
<1> QED
  BY <1>6, <1>7
-----------------------------------------------------------------------------
(***************************************************************************)
(* A program stays itself until it halts, and keeps its command.           *)
(***************************************************************************)
LEMMA GrepStays == Grep => pc \in Pcs.grep /\ pc' \in Pcs.grep \cup {"failed"}
BY DEF Grep, GrepNext, GetSearch, OpenDir, NextName, OpenFile, Read, MoveDown, SearchLine, CloseFile, Pcs

LEMMA FishStays == Fish => pc \in Pcs.fish /\ pc' \in Pcs.fish
<1>1. ASSUME NEW k \in Both, OpenFrame(k) \/ ReadFrame(k) \/ CloseFrame(k)
      PROVE  pc \in Pcs.fish /\ pc' \in Pcs.fish
  <2>1. CASE k = 0
    BY <1>1, <2>1 DEF OpenFrame, ReadFrame, CloseFrame, Pcs
  <2>2. CASE k = 1
    BY <1>1, <2>2 DEF OpenFrame, ReadFrame, CloseFrame, Pcs
  <2> QED
    BY <2>1, <2>2 DEF Both
<1>2. OpenClock \/ AddBlink \/ EndRow \/ Wait \/ Ioctl \/ CloseClock => pc \in Pcs.fish /\ pc' \in Pcs.fish
  BY DEF OpenClock, AddBlink, EndRow, Wait, Ioctl, CloseClock, Pcs
<1> QED
  BY <1>1, <1>2 DEF Fish, FishNext

LEMMA CatStays == Cat => pc \in Pcs.cat /\ pc' \in Pcs.cat \cup {"failed"}
BY DEF Cat, CatArgs, CatOpen, CatRead, Pcs

LEMMA LsStays == Ls => pc \in Pcs.ls /\ pc' \in Pcs.ls
BY DEF Ls, OpenNames, List, Pcs

LEMMA OtherStays == Other => pc \in Pcs.other /\ pc' \in Pcs.other
BY DEF Other, kept, Pcs

Program == Grep \/ Fish \/ Cat \/ Ls \/ Other

LEMMA Stays ==
  ASSUME Program, NEW p \in DOMAIN Pcs, pc \in Pcs[p] PROVE pc' \in Pcs[p] \cup {"failed"}
BY GrepStays, FishStays, CatStays, LsStays, OtherStays DEF Program, Pcs

LEMMA Runs ==
  ASSUME Program
  PROVE  /\ pc \notin {"prompt", "failed"} /\ pc' # "prompt"
         /\ UNCHANGED <<image, command>>
<1>1. pc \notin {"prompt", "failed"} /\ pc' # "prompt"
  BY GrepStays, FishStays, CatStays, LsStays, OtherStays DEF Program, Pcs
<1>2. Grep => UNCHANGED <<image, command>>
  BY DEF Grep, GrepNext, GetSearch, OpenDir, NextName, OpenFile, Read, MoveDown, SearchLine, CloseFile
<1>3. Fish \/ Cat \/ Ls \/ Other => UNCHANGED <<image, command>>
  BY DEF Fish, FishNext, others, Cat, CatArgs, CatOpen, CatRead, Ls, OpenNames, List, Other, kept
<1> QED
  BY <1>1, <1>2, <1>3 DEF Program

(* An answer of getargs is of this program, or there was none yet.         *)
LEMMA ArgsOf ==
  ASSUME Program
  PROVE  \/ args' \in {args, Fresh} /\ (pc' = "catopen" => pc = "catopen" /\ args' = args)
         \/ \E n \in Nat : Getargs(n) /\ (pc' = "catopen" => n > 0 /\ ~Refused')
<1>1. BUFSIZE \in Nat /\ BUFSIZE > 0 /\ Sizes \subseteq Nat
  BY GrepAssumption, ProgramsAssumption DEF GrepAssumption, ProgramsAssumption
<1>2. CASE Grep
  <2>1. pc' # "catopen"
    BY <1>2, GrepStays DEF Pcs
  <2>2. CASE GetSearch
    BY <1>1, <2>1, <2>2 DEF GetSearch
  <2>3. CASE ~GetSearch
    BY <1>2, <2>1, <2>3 DEF Grep, GrepNext, OpenDir, NextName, OpenFile, Read, MoveDown, SearchLine, CloseFile
  <2> QED
    BY <2>2, <2>3
<1>3. CASE Fish
  BY <1>3, FishStays DEF Fish, FishNext, others, Pcs
<1>4. CASE Cat
  <2>1. CASE CatArgs
    BY <1>1, <2>1 DEF CatArgs
  <2>2. CASE CatOpen \/ CatRead
    BY <2>2 DEF CatOpen, CatRead
  <2> QED
    BY <1>4, <2>1, <2>2 DEF Cat
<1>5. CASE Ls
  BY <1>5 DEF Ls, OpenNames, List
<1>6. CASE Other
  BY <1>1, <1>6 DEF Other, kept
<1> QED
  BY <1>2, <1>3, <1>4, <1>5, <1>6 DEF Program
(***************************************************************************)
(* The program that runs is the one the command names, and its argument is *)
(* what parse found.                                                       *)
(***************************************************************************)
Started ==
  pc \notin {"prompt", "failed"} =>
    \E e \in DOMAIN Executables :
      /\ pc \in Pcs[Executables[e]]
      /\ Fs!read_dentry_by_name(Cmd!parse(command).name) \in {0, e}

CommandInv ==
  /\ pc # "prompt" =>
       /\ IsCommand(command) /\ ~Cmd!parse(command).toolong
       /\ \E stack : argument_buf = Cmd!ArgumentBuf(Cmd!parse(command).argument, stack)
  /\ args # Fresh =>
       /\ pc # "prompt" /\ args.asked \in Nat
       /\ args = [asked |-> args.asked, got |-> Cmd!getargs(argument_buf, args.asked)]
  /\ pc = "catopen" => args # Fresh /\ ~Refused
  /\ Started

LEMMA CommandInit == Init => CommandInv
BY DEF Init, CommandInv, Started, Memory

LEMMA StrippedIs == ASSUME NEW line \in Lines PROVE IsCommand(Stripped(line))
<1>1. line \in Seq(STRING) /\ \A k \in 1 .. Len(line) : line[k] # NUL /\ (line[k] = NL => k = Len(line))
  BY ProgramsAssumption DEF ProgramsAssumption
<1>2. CASE line # <<>> /\ line[Len(line)] = NL
  <2>1. Len(line) \in Nat /\ Len(line) - 1 \in Int /\ \A k \in 1 .. Len(line) - 1 : line[k] \in STRING
    BY <1>1
  <2>2. /\ SubSeq(line, 1, Len(line) - 1) \in Seq(STRING)
        /\ Len(SubSeq(line, 1, Len(line) - 1)) = IF 1 <= Len(line) - 1 THEN Len(line) - 1 - 1 + 1 ELSE 0
        /\ \A k \in 1 .. Len(line) - 1 - 1 + 1 : SubSeq(line, 1, Len(line) - 1)[k] = line[1 + k - 1]
    BY <2>1, SubSeqProperties
  <2>3. \A k \in 1 .. Len(line) - 1 : SubSeq(line, 1, Len(line) - 1)[k] = line[k]
    BY <2>1, <2>2
  <2>4. \A k \in 1 .. Len(SubSeq(line, 1, Len(line) - 1)) : k \in 1 .. Len(line) - 1 /\ k \in 1 .. Len(line) /\ k # Len(line)
    BY <2>1, <2>2
  <2> QED
    BY <1>1, <1>2, <2>2, <2>3, <2>4 DEF IsCommand, Stripped, Front
<1>3. CASE line = <<>>
  BY <1>1, <1>3 DEF IsCommand, Stripped
<1>4. CASE line # <<>> /\ line[Len(line)] # NL
  BY <1>1, <1>4 DEF IsCommand, Stripped
<1> QED
  BY <1>2, <1>3, <1>4

LEMMA ShellCommand == ASSUME CommandInv, Shell PROVE CommandInv'
<1>1. PICK line \in Lines : Execute(Stripped(line))
  BY DEF Shell
<1> DEFINE c == Stripped(line)
           i == Fs!read_dentry_by_name(Cmd!parse(c).name)
<1>2. IsCommand(c)
  BY StrippedIs
<1> HIDE DEF c
<1>3. /\ ~Cmd!parse(c).toolong /\ command' = c
      /\ \E stack \in Junk : argument_buf' = Cmd!ArgumentBuf(Cmd!parse(c).argument, stack)
      /\ \E e \in IF i = 0 THEN OnStack ELSE {i} :
           e \in DOMAIN Executables /\ pc' = Entry(Executables[e])
  BY <1>1 DEF Execute, c
<1>4. PICK e \in DOMAIN Executables : i \in {0, e} /\ pc' = Entry(Executables[e])
  BY <1>3
<1>5. Executables[e] \in {"grep", "fish", "cat", "ls", "other"}
  BY ProgramsAssumption DEF ProgramsAssumption
<1>6. pc' \in Pcs[Executables[e]] /\ pc' \notin {"prompt", "catopen"}
  BY <1>4, <1>5 DEF Entry, Pcs
<1>7. args = Fresh /\ args' = args
  BY DEF Shell, CommandInv
<1>8. Started'
  <2>1. Fs!read_dentry_by_name(Cmd!parse(command).name)' \in {0, e}
    BY <1>3, <1>4
  <2> QED
    BY <1>6, <2>1 DEF Started
<1> QED
  BY <1>2, <1>3, <1>6, <1>7, <1>8 DEF CommandInv

LEMMA ProgramCommand == ASSUME CommandInv, Program PROVE CommandInv'
<1>1. pc \notin {"prompt", "failed"} /\ pc' # "prompt" /\ UNCHANGED <<image, command>>
  BY Runs
<1>2. Started'
  <2>1. PICK e \in DOMAIN Executables :
               pc \in Pcs[Executables[e]] /\ Fs!read_dentry_by_name(Cmd!parse(command).name) \in {0, e}
    BY <1>1 DEF CommandInv, Started
  <2>2. Executables[e] \in DOMAIN Pcs
    BY ProgramsAssumption DEF ProgramsAssumption, Pcs
  <2>3. pc' \in Pcs[Executables[e]] \cup {"failed"}
    BY <2>1, <2>2, Stays
  <2>4. Fs!read_dentry_by_name(Cmd!parse(command).name)' \in {0, e}
    BY <1>1, <2>1
  <2> QED
    BY <2>3, <2>4 DEF Started
<1>3. CASE args' \in {args, Fresh} /\ (pc' = "catopen" => pc = "catopen" /\ args' = args)
  BY <1>1, <1>2, <1>3 DEF CommandInv, Refused, image
<1>4. CASE \E n \in Nat : Getargs(n) /\ (pc' = "catopen" => n > 0 /\ ~Refused')
  <2>1. PICK n \in Nat : Getargs(n) /\ (pc' = "catopen" => n > 0 /\ ~Refused')
    BY <1>4
  <2>2. args' = [asked |-> n, got |-> Cmd!getargs(argument_buf, n)]
    BY <2>1 DEF Getargs
  <2>3. n > 0 => args' # Fresh
    BY <2>2 DEF Fresh
  <2>4. argument_buf' = argument_buf /\ command' = command
    BY <1>1 DEF image
  <2>5. args'.asked = n
    BY <2>2
  <2> QED
    BY <1>1, <1>2, <2>1, <2>2, <2>3, <2>4, <2>5 DEF CommandInv
<1> QED
  BY <1>3, <1>4, ArgsOf

THEOREM NextCommand == ASSUME CommandInv, [Next]_vars PROVE CommandInv'
<1>1. CASE UNCHANGED vars
  BY <1>1 DEF vars, image, CommandInv, Started, Refused
<1>2. CASE Halt
  BY <1>2 DEF Halt, CommandInv, Started
<1> QED
  BY <1>1, <1>2, ShellCommand, ProgramCommand DEF Next, Program

LEMMA ArgumentOf ==
  ASSUME CommandInv, args # Fresh
  PROVE  LET a == Cmd!parse(command).argument
         IN IF Len(a) \in 1 .. args.asked THEN ~Refused /\ Given = a ELSE Refused
<1> DEFINE a == Cmd!parse(command).argument
<1>1. /\ a \in Seq(STRING) /\ Len(a) <= ARGUMENT_SIZE - 1
      /\ \A k \in 1 .. Len(a) : a[k] # NUL
  BY Parsed DEF CommandInv
<1>2. PICK stack : argument_buf = Cmd!ArgumentBuf(a, stack)
  BY DEF CommandInv
<1>3. /\ args.asked \in Nat
      /\ args = [asked |-> args.asked, got |-> Cmd!getargs(Cmd!ArgumentBuf(a, stack), args.asked)]
  BY <1>2 DEF CommandInv
<1> HIDE DEF a
<1>4. IF Len(a) \in 1 .. args.asked THEN ~Refused /\ Given = a ELSE Refused
  BY <1>1, <1>3, ArgumentArrives
<1> QED
  BY <1>4 DEF a

LEMMA CommandImplies == CommandInv => RunsNamed /\ ArgumentGiven
<1> SUFFICES ASSUME CommandInv PROVE RunsNamed /\ ArgumentGiven
  OBVIOUS
<1>1. pc # "prompt" =>
        /\ Cmd!parse(command).name = Words(command).name
        /\ Len(Words(command).name) <= MAX_FILENAME
        /\ Cmd!parse(command).argument =
             SubSeq(Words(command).argument, 1, Cmd!Min({Len(Words(command).argument), ARGUMENT_SIZE - 1}))
  <2>1. TASKNAME_SIZE - 1 = MAX_FILENAME
    BY GrepAssumption DEF GrepAssumption, Fs!FilesAssumption
  <2> QED
    BY <2>1, Parsed DEF CommandInv
<1>2. RunsNamed
  <2> SUFFICES ASSUME pc \notin {"prompt", "failed"},
                      NEW i \in Fs!Indices, Directory[i].name = Words(command).name
               PROVE  i \in DOMAIN Executables /\ pc \in Pcs[Executables[i]]
    BY <1>1 DEF RunsNamed
  <2>1. Fs!read_dentry_by_name(Directory[i].name) = i
    BY FilesOK, SameConstants, SameDentry, Fp!NamedFound
  <2>2. i # 0
    BY DEF Fs!Indices
  <2> QED
    BY <1>1, <2>1, <2>2 DEF CommandInv, Started
<1>3. ArgumentGiven
  BY <1>1, ArgumentOf DEF ArgumentGiven, CommandInv
<1> QED
  BY <1>2, <1>3
-----------------------------------------------------------------------------
(***************************************************************************)
(* The buffers of grep, and the names programs open.  The texts are bytes, *)
(* what lies in data behind a read is what the stack held; a read is asked *)
(* for the room that is left, and there is some.                           *)
(***************************************************************************)
Bytes == Chars \cup {NUL}

BufferInv ==
  /\ text \in [TextFiles -> [0 .. Longest - 1 -> Bytes]]
  /\ data \in [0 .. BUFSIZE -> Bytes]
  /\ last \in 0 .. BUFSIZE /\ cnt \in 0 .. BUFSIZE
  /\ pc = "line" => line_start \in 0 .. last
  /\ pc = "read" => last < BUFSIZE

ProgramInv ==
  /\ Fp!ReadInv
  /\ CommandInv
  /\ Fp!IsName(fname)
  /\ BufferInv

LEMMA Longer == Longest \in Nat /\ \A i \in TextFiles : Directory[i].length <= Longest
<1> DEFINE Length(i) == Directory[i].length
           S == {n \in Nat : (\E i \in TextFiles : i <= n) =>
                   \E j \in TextFiles : \A i \in TextFiles : i <= n => Length(i) <= Length(j)}
<1>1. /\ TextFiles # {} /\ TextFiles \subseteq 1 .. Len(Directory) /\ Len(Directory) \in Nat
      /\ \A i \in TextFiles : i \in Nat /\ i <= Len(Directory) /\ Length(i) \in Nat
  BY GrepAssumption DEF GrepAssumption, TextFiles, Fs!FilesAssumption, Fs!Indices
<1> HIDE DEF Length
<1>0. \A i \in TextFiles : i \in Nat /\ Length(i) \in Nat
  BY <1>1
<1>2. 0 \in S
  BY <1>1
<1>3. ASSUME NEW n \in Nat, n \in S PROVE n + 1 \in S
  <2> SUFFICES ASSUME \E i \in TextFiles : i <= n + 1
               PROVE  \E j \in TextFiles : \A i \in TextFiles : i <= n + 1 => Length(i) <= Length(j)
    OBVIOUS
  <2>1. \A i \in TextFiles : (i <= n + 1) <=> (i <= n \/ i = n + 1)
    <3> SUFFICES ASSUME NEW i \in TextFiles PROVE (i <= n + 1) <=> (i <= n \/ i = n + 1)
      OBVIOUS
    <3> QED
      BY <1>0
  <2>2. CASE n + 1 \notin TextFiles
    BY <1>3, <2>1, <2>2
  <2>3. CASE n + 1 \in TextFiles /\ ~\E i \in TextFiles : i <= n
    <3>1. \A i \in TextFiles : i <= n + 1 => Length(i) <= Length(n + 1)
      BY <1>0, <2>1, <2>3
    <3> QED
      BY <2>3, <3>1
  <2>4. CASE n + 1 \in TextFiles /\ \E i \in TextFiles : i <= n
    <3>1. PICK j \in TextFiles : \A i \in TextFiles : i <= n => Length(i) <= Length(j)
      BY <1>3, <2>4
    <3>2. CASE Length(n + 1) <= Length(j)
      BY <2>1, <3>1, <3>2
    <3>3. CASE ~(Length(n + 1) <= Length(j))
      <4>1. \A i \in TextFiles : i <= n + 1 => Length(i) <= Length(n + 1)
        <5> SUFFICES ASSUME NEW i \in TextFiles, i <= n + 1 PROVE Length(i) <= Length(n + 1)
          OBVIOUS
        <5>1. Length(i) \in Nat /\ Length(j) \in Nat /\ Length(n + 1) \in Nat
          BY <1>0, <2>4
        <5> QED
          BY <2>1, <3>1, <3>3, <5>1
      <4> QED
        BY <2>4, <4>1
    <3> QED
      BY <3>2, <3>3
  <2> QED
    BY <2>2, <2>3, <2>4
<1>4. \A n \in Nat : n \in S
  <2> HIDE DEF S
  <2> QED
    BY <1>1, <1>2, <1>3, Fp!Induction
<1>5. PICK j \in TextFiles : \A i \in TextFiles : Length(i) <= Length(j)
  BY <1>1, <1>4
<1>6. /\ Longest \in {Length(i) : i \in TextFiles}
      /\ \A i \in TextFiles : Length(i) <= Longest
  BY <1>5 DEF Longest, Length
<1> QED
  BY <1>1, <1>6 DEF Length

LEMMA LineEnd ==
  ASSUME last \in Nat, line_start \in 0 .. last
  PROVE  line_end \in line_start .. last
<1> DEFINE S == {e \in line_start .. last : e = last \/ data[e] = NL}
<1>1. S \in SUBSET Nat /\ last \in S
  OBVIOUS
<1>2. Cmd!Min(S) \in S /\ \A e \in S : Cmd!Min(S) <= e
  BY <1>1, Least
<1>3. \A k \in line_start .. Cmd!Min(S) - 1 : data[k] # NL
  <2> SUFFICES ASSUME NEW k \in line_start .. Cmd!Min(S) - 1, data[k] = NL PROVE FALSE
    OBVIOUS
  <2>1. k \in S /\ k < Cmd!Min(S)
    BY <1>2
  <2> QED
    BY <1>2, <2>1
<1> QED
  BY <1>2, <1>3 DEF line_end

LEMMA StringEnds ==
  ASSUME NEW d, NEW from \in 0 .. BUFSIZE, NEW e \in from .. BUFSIZE, d[e] = NUL
  PROVE  StringEnd(d, from) \in from .. BUFSIZE /\ d[StringEnd(d, from)] = NUL
<1> DEFINE S == {k \in from .. BUFSIZE : d[k] = NUL}
<1>0. BUFSIZE \in Nat
  BY GrepAssumption DEF GrepAssumption
<1>1. S \in SUBSET Nat /\ e \in S
  BY <1>0
<1>2. Cmd!Min(S) \in S /\ \A k \in S : Cmd!Min(S) <= k
  BY <1>1, Least
<1>3. \A k \in from .. Cmd!Min(S) - 1 : d[k] # NUL
  <2> SUFFICES ASSUME NEW k \in from .. Cmd!Min(S) - 1, d[k] = NUL PROVE FALSE
    OBVIOUS
  <2>1. k \in S /\ k < Cmd!Min(S)
    BY <1>0, <1>2
  <2> QED
    BY <1>2, <2>1
<1> QED
  BY <1>2, <1>3 DEF StringEnd
LEMMA SomeNames ==
  /\ Fp!IsName(<<".">>) /\ Fp!IsName(<<"rtc">>)
  /\ \A k \in Both : Fp!IsName(Frame[k])
<1>1. Fp!IsName(<<".">>) /\ Fp!IsName(<<"rtc">>)
  <2>1. <<".">> \in Seq({"."}) /\ Len(<<".">>) = 1 /\ <<".">>[1] = "."
        /\ <<"rtc">> \in Seq({"rtc"}) /\ Len(<<"rtc">>) = 1 /\ <<"rtc">>[1] = "rtc"
    OBVIOUS
  <2>2. \A k \in 1 .. 1 : k = 1
    OBVIOUS
  <2> QED
    BY <2>1, <2>2 DEF Fp!IsName, Fp!EndMark
<1>2. \A k \in Both : Fp!IsName(Frame[k])
  <2>1. \A i \in TextFiles : Fp!IsName(Directory[i].name)
    BY FilesOK, SameConstants, Fp!NamesAreNames DEF TextFiles
  <2> QED
    BY <2>1, ProgramsAssumption DEF ProgramsAssumption, Frame, Both
<1> QED
  BY <1>1, <1>2

LEMMA GivenIsName ==
  ASSUME CommandInv, pc = "catopen" PROVE Fp!IsName(Given)
<1> DEFINE a == Cmd!parse(command).argument
<1>1. Given = a
  BY ArgumentOf DEF CommandInv
<1>2. a \in Seq(STRING) /\ \A k \in 1 .. Len(a) : a[k] # NUL
  BY Parsed DEF CommandInv
<1> HIDE DEF a
<1>3. NUL = Fp!EndMark
  BY GrepAssumption, SameConstants DEF GrepAssumption
<1> QED
  BY <1>1, <1>2, <1>3 DEF Fp!IsName

LEMMA FdsIn == ASSUME Fp!ReadInv, NEW f \in flags PROVE f \in Fs!Fds /\ f \in Fp!Fds
BY SameConstants DEF Fp!ReadInv, Fp!IInv

(* Reads, in the terms of the programs. *)
LEMMA FileRead ==
  ASSUME Fp!ReadInv, NEW f, NEW n \in Nat, Fs!ReadFile(f, n)
  PROVE  /\ f \in flags /\ f \in Fs!Fds /\ fops_table[f] = "file" /\ entry[f] \in TextFiles
         /\ answer' = [fd |-> f, asked |-> n, got |-> answer'.got]
         /\ answer'.got \in Seq(Nat) /\ Len(answer'.got) <= n
         /\ Len(answer'.got) = n \/ file_position'[f] >= Directory[entry[f]].length
         /\ seen[f] \in Seq(Nat) /\ seen'[f] = seen[f] \o answer'.got
         /\ UNCHANGED <<flags, entry, fops_table, named>>
<1>1. Fp!ReadFile(f, n) /\ f \in flags
  BY SameRead DEF Fs!ReadFile
<1>2. f \in Fs!Fds /\ f \in Fp!Fds
  BY <1>1, FdsIn
<1> QED
  BY <1>1, <1>2, FilesOK, SameConstants, Fp!FileAnswer DEF TextFiles

LEMMA SizesOf ==
  ASSUME NEW i \in TextFiles
  PROVE  /\ i \in Nat /\ i > 0 /\ i \in Fs!Indices /\ Directory[i].length \in Nat
         /\ Directory[i].length <= Longest /\ Longest \in Nat
BY Longer, FilesOK, SameConstants DEF Fp!FilesAssumption, TextFiles, Fs!Indices

LEMMA Skips == Fp!ReadInv => Fp!NothingSkipped
BY FilesOK, Fp!Implied

LEMMA Positions ==
  ASSUME Fp!ReadInv, NEW f \in flags
  PROVE  /\ f \in Fs!Fds /\ file_position[f] \in Nat /\ entry[f] \in Fs!Indices
         /\ fops_table[f] = Directory[entry[f]].type
         /\ DOMAIN file_position = Fs!Fds /\ DOMAIN fops_table = Fs!Fds /\ DOMAIN entry = Fs!Fds
         /\ fops_table[f] = "directory" => file_position[f] <= Len(Directory)
<1>1. f \in Fs!Fds /\ f \in Fp!Fds
  BY FdsIn
<1> QED
  BY <1>1, SameConstants
     DEF Fp!ReadInv, Fp!IInv, Fp!TypeOK, Fp!DescriptorsMatch, Fp!Seen

LEMMA Behind ==
  ASSUME NEW a \in Seq(Nat), NEW b \in Seq(Nat), \A k \in 1 .. Len(a \o b) : (a \o b)[k] = k - 1
  PROVE  Len(a \o b) = Len(a) + Len(b) /\ \A j \in 1 .. Len(b) : b[j] = Len(a) + j - 1
<1>1. Len(a \o b) = Len(a) + Len(b) /\ Len(a) \in Nat /\ Len(b) \in Nat
  OBVIOUS
<1>2. ASSUME NEW j \in 1 .. Len(b) PROVE b[j] = Len(a) + j - 1
  <2>1. Len(a) + j \in 1 .. Len(a \o b)
    BY <1>1
  <2>2. (a \o b)[Len(a) + j] = b[j]
    OBVIOUS
  <2>3. (a \o b)[Len(a) + j] = (Len(a) + j) - 1
    BY <2>1
  <2> QED
    BY <1>1, <2>2, <2>3
<1> QED
  BY <1>1, <1>2

(* What comes of a read lies in the file behind what came before. *)
LEMMA BytesRead ==
  ASSUME Fp!ReadInv, Fp!ReadInv', NEW f, NEW n \in Nat, Fs!ReadFile(f, n)
  PROVE  LET got == answer'.got
             pos == file_position[f]
         IN /\ pos \in Nat /\ got \in Seq(Nat) /\ Len(got) <= n
            /\ file_position'[f] = pos + Len(got)
            /\ \A g \in flags : g # f => file_position'[g] = file_position[g]
            /\ \A j \in 1 .. Len(got) : got[j] = pos + j - 1
            /\ Len(got) = n \/ file_position'[f] >= Directory[entry[f]].length
            /\ pos >= Directory[entry[f]].length => got = <<>>
<1> DEFINE got == answer'.got
           pos == file_position[f]
<1>1. /\ f \in flags /\ fops_table[f] = "file"
      /\ UNCHANGED <<flags, entry, fops_table, named>>
      /\ got \in Seq(Nat) /\ Len(got) <= n
      /\ Len(got) = n \/ file_position'[f] >= Directory[entry[f]].length
      /\ seen[f] \in Seq(Nat) /\ seen'[f] = seen[f] \o got
  BY FileRead
<1>2. Fp!NothingSkipped /\ Fp!NothingSkipped'
  BY Skips, PTL
<1>3. Len(seen[f]) = pos
  BY <1>1, <1>2 DEF Fp!NothingSkipped
<1>4. Len(seen'[f]) = file_position'[f] /\ \A j \in 1 .. Len(seen'[f]) : seen'[f][j] = j - 1
  <2>1. f \in flags' /\ fops_table'[f] = "file"
    BY <1>1
  <2> QED
    BY <1>2, <2>1 DEF Fp!NothingSkipped
<1>5. /\ file_position' = [file_position EXCEPT ![f] = pos + Len(Fs!read_data(Directory[entry[f]].length, pos, n))]
      /\ answer'.got = Fs!read_data(Directory[entry[f]].length, pos, n)
  BY DEF Fs!ReadFile, Fs!Advance, Fs!Answered
<1>6. \A g \in flags : g # f => file_position'[g] = file_position[g]
  BY <1>5, Positions
<1>7. pos >= Directory[entry[f]].length => got = <<>>
  BY <1>5 DEF Fs!read_data
<1> HIDE DEF got, pos
<1>8. pos \in Nat /\ Len(got) \in Nat
  BY <1>1, <1>3
<1>9. Len(seen'[f]) = pos + Len(got) /\ \A j \in 1 .. Len(got) : got[j] = pos + j - 1
  <2> DEFINE before == seen[f]
  <2>1. seen'[f] = before \o got /\ before \in Seq(Nat) /\ got \in Seq(Nat) /\ Len(before) = pos
    BY <1>1, <1>3
  <2> HIDE DEF before
  <2>2. \A k \in 1 .. Len(before \o got) : (before \o got)[k] = k - 1
    BY <1>4, <2>1
  <2>3. /\ Len(before \o got) = Len(before) + Len(got)
        /\ \A j \in 1 .. Len(got) : got[j] = Len(before) + j - 1
    BY <2>1, <2>2, Behind
  <2> QED
    BY <2>1, <2>3
<1> QED
  BY <1>1, <1>4, <1>6, <1>7, <1>8, <1>9 DEF got, pos

LEMMA ClockRead ==
  ASSUME Fp!ReadInv, NEW f, NEW n \in Nat, Fs!ReadClock(f, n)
  PROVE  /\ f \in flags /\ f \in Fs!Fds /\ fops_table[f] = "rtc" /\ entry[f] \notin TextFiles
         /\ answer'.got = <<>>
         /\ UNCHANGED <<flags, entry, fops_table, named>>
<1>1. f \in flags /\ fops_table[f] = "rtc"
  BY DEF Fs!ReadClock
<1>2. f \in Fs!Fds /\ f \in Fp!Fds
  BY <1>1, FdsIn
<1>3. Directory[entry[f]].type = "rtc"
  BY <1>1, <1>2 DEF Fp!ReadInv, Fp!IInv, Fp!DescriptorsMatch
<1> QED
  BY <1>1, <1>2, <1>3 DEF Fs!ReadClock, Fs!Answered, TextFiles

LEMMA DirectoryRead ==
  ASSUME Fp!ReadInv, NEW f, NEW n \in Nat, Fs!ReadDirectory(f, n)
  PROVE  /\ f \in flags /\ f \in Fs!Fds /\ fops_table[f] = "directory"
         /\ file_position[f] \in 0 .. Len(Directory)
         /\ UNCHANGED <<flags, entry, fops_table, named>>
         /\ IF file_position[f] >= MAX_FILECOUNT
            THEN UNCHANGED files
            ELSE /\ answer' = [fd |-> f, asked |-> n, got |-> answer'.got]
                 /\ seen'[f] = seen[f] \o answer'.got
                 /\ \/ /\ answer'.got = <<>> /\ file_position'[f] = file_position[f]
                       /\ n > 0 => file_position[f] = Len(Directory)
                    \/ \E name \in Seq(STRING) :
                         /\ file_position[f] < Len(Directory)
                         /\ answer'.got = <<name>> /\ file_position'[f] = file_position[f] + 1
                         /\ name # <<>>
                         /\ Fp!IsPrefix(name, Directory[file_position[f] + 1].name)
                         /\ Len(name) = Fp!Min({n, Len(Directory[file_position[f] + 1].name)})
<1>1. Fp!ReadDirectory(f, n) /\ f \in flags
  BY SameRead DEF Fs!ReadDirectory
<1>2. f \in Fs!Fds /\ f \in Fp!Fds
  BY <1>1, FdsIn
<1>3. (UNCHANGED files) <=> (UNCHANGED Fp!vars)
  BY DEF files, Fp!vars
<1>4. /\ f \in flags /\ fops_table[f] = "directory"
      /\ file_position[f] \in 0 .. Len(Directory)
      /\ UNCHANGED <<flags, entry, fops_table, named>>
  BY <1>1, <1>2, FilesOK, Fp!DirectoryAnswer
<1> QED
  BY <1>1, <1>2, <1>3, <1>4, FilesOK, Fp!DirectoryAnswer

(* A whole name of the directory. *)
LEMMA PrefixOfName ==
  ASSUME NEW i \in Fs!Indices, NEW name \in Seq(STRING),
         Fp!IsPrefix(name, Directory[i].name),
         Len(name) = Fp!Min({MAX_FILENAME, Len(Directory[i].name)})
  PROVE  name = Directory[i].name
<1>1. /\ Directory[i].name \in Seq(STRING) /\ Len(Directory[i].name) \in 1 .. MAX_FILENAME
      /\ MAX_FILENAME \in Nat
  BY FilesOK, SameConstants DEF Fp!FilesAssumption, Fp!Names
<1>2. Len(name) = Len(Directory[i].name)
  BY <1>1, Fp!MinOfTwo
<1>3. SubSeq(name, 1, Len(name)) = SubSeq(Directory[i].name, 1, Len(name))
  BY DEF Fp!IsPrefix
<1> QED
  BY <1>1, <1>2, <1>3, SubSeqFull
LEMMA Sizes1 ==
  /\ BUFSIZE \in Nat /\ BUFSIZE > 0 /\ MAX_FILENAME \in Nat
  /\ MAX_FILECOUNT \in Nat /\ Len(Directory) \in 0 .. MAX_FILECOUNT
  /\ Junk \subseteq [0 .. BUFSIZE -> Bytes] /\ NL \in Bytes /\ NUL \in Bytes
BY GrepAssumption DEF GrepAssumption, Fs!FilesAssumption, Bytes

(* grep: a read puts bytes of the file behind what is left of the last.    *)
LEMMA ReadStep == ASSUME ProgramInv, Read PROVE FilesStep /\ BufferInv' /\ fname' = fname
<1> DEFINE got == answer'.got
<1>0. BUFSIZE \in Nat /\ last \in 0 .. BUFSIZE /\ Room \in Nat /\ pc = "read" /\ last < BUFSIZE /\ Room = BUFSIZE - last
  BY Sizes1 DEF Read, ProgramInv, BufferInv, Room
<1>1. Fp!ReadInv
  BY DEF ProgramInv
<1>2. Fs!ReadFile(fd, Room) \/ Fs!ReadClock(fd, Room)
  BY DEF Read
<1>3. FilesStep
  <2>1. fd \in Fs!Fds
    BY <1>0, <1>1, <1>2, FileRead, ClockRead
  <2> QED
    BY <1>0, <1>2, <2>1 DEF FilesStep, ReadAny
<1>4. /\ got \in Seq(Nat) /\ Len(got) \in 0 .. Room
      /\ got = <<>> \/ entry[fd] \in TextFiles
  <2>1. CASE Fs!ReadFile(fd, Room)
    <3>1. got \in Seq(Nat) /\ Len(got) <= Room /\ entry[fd] \in TextFiles
      BY <1>0, <1>1, <2>1, FileRead
    <3> QED
      BY <1>0, <3>1
  <2>2. CASE Fs!ReadClock(fd, Room)
    <3>1. got = <<>>
      BY <1>0, <1>1, <2>2, ClockRead
    <3>2. <<>> \in Seq(Nat) /\ Len(<<>>) = 0
      OBVIOUS
    <3> HIDE DEF got
    <3> QED
      BY <1>0, <3>1, <3>2
  <2> QED
    BY <1>2, <2>1, <2>2
<1>5. /\ cnt' = Len(got) /\ last' = last + cnt' /\ line_start' = 0 /\ pc' = "line"
      /\ data' = [k \in 0 .. BUFSIZE |-> IF k - last \in 0 .. Len(got) - 1
                                         THEN Byte(entry[fd], got[k - last + 1]) ELSE data[k]]
      /\ UNCHANGED <<text, fname>>
  BY DEF Read, image
<1> HIDE DEF got
<1>6. data' \in [0 .. BUFSIZE -> Bytes]
  <2> SUFFICES ASSUME NEW k \in 0 .. BUFSIZE, k - last \in 0 .. Len(got) - 1
               PROVE  Byte(entry[fd], got[k - last + 1]) \in Bytes
    BY <1>5 DEF ProgramInv, BufferInv
  <2> DEFINE b == got[k - last + 1]
             i == entry[fd]
  <2>1. k - last + 1 \in 1 .. Len(got)
    BY <1>0, <1>4
  <2>2. b \in Nat /\ got # <<>>
    BY <1>4, <2>1
  <2>3. i \in TextFiles
    BY <1>4, <2>2
  <2> HIDE DEF b, i
  <2>4. b < Directory[i].length => b \in 0 .. Longest - 1
    <3>1. Longest \in Nat /\ Directory[i].length <= Longest /\ Directory[i].length \in Nat
      BY <2>3, Longer, GrepAssumption DEF GrepAssumption, Fs!FilesAssumption, TextFiles
    <3> QED
      BY <2>2, <3>1
  <2>5. Byte(i, b) \in Bytes
    BY <2>3, <2>4, Sizes1 DEF Byte, ProgramInv, BufferInv
  <2> QED
    BY <2>5 DEF b, i
<1>7. cnt' \in 0 .. BUFSIZE /\ last' \in 0 .. BUFSIZE /\ line_start' \in 0 .. last'
  BY <1>0, <1>4, <1>5
<1> QED
  BY <1>3, <1>5, <1>6, <1>7 DEF ProgramInv, BufferInv

(* What it does with a line of the buffer. *)
LEMMA LineStep ==
  ASSUME ProgramInv, MoveDown \/ SearchLine PROVE FilesStep /\ BufferInv' /\ fname' = fname
<1>1. /\ BUFSIZE \in Nat /\ last \in 0 .. BUFSIZE /\ line_start \in 0 .. last /\ last \in Nat
      /\ data \in [0 .. BUFSIZE -> Bytes] /\ BUFSIZE > 0
  BY Sizes1 DEF MoveDown, SearchLine, ProgramInv, BufferInv
<1>2. line_end \in line_start .. last
  BY <1>1, LineEnd
<1>3. Terminated \in [0 .. BUFSIZE -> Bytes] /\ Terminated[line_end] = NUL /\ line_end \in line_start .. BUFSIZE
  <2>1. line_end \in 0 .. BUFSIZE /\ line_end \in line_start .. BUFSIZE
    BY <1>1, <1>2
  <2> QED
    BY <1>1, <2>1, Sizes1 DEF Terminated
<1>4. FilesStep /\ fname' = fname /\ text' = text /\ cnt' = cnt
  BY DEF MoveDown, SearchLine, FilesStep, image
<1>5. CASE MoveDown
  <2>1. line_start # 0 /\ data' = CopyDown(Terminated, line_start) /\ last' = last - line_start /\ pc' = "read"
    BY <1>5 DEF MoveDown, Unfinished, Rest
  <2>2. StringEnd(Terminated, line_start) \in line_start .. BUFSIZE
    <3>1. line_start \in 0 .. BUFSIZE
      BY <1>1
    <3> QED
      BY <1>3, <3>1, StringEnds
  <2>3. CopyDown(Terminated, line_start) \in [0 .. BUFSIZE -> Bytes]
    <3>1. \A k \in 0 .. BUFSIZE : line_start + k <= StringEnd(Terminated, line_start) => line_start + k \in 0 .. BUFSIZE
      BY <1>1, <2>2
    <3> HIDE DEF Terminated
    <3> QED
      BY <1>3, <3>1 DEF CopyDown
  <2>4. last' \in 0 .. BUFSIZE /\ last' < BUFSIZE
    BY <1>1, <2>1
  <2> QED
    BY <1>4, <2>1, <2>3, <2>4 DEF ProgramInv, BufferInv
<1>6. CASE SearchLine
  <2>1. /\ data' = Terminated /\ line_start' = line_end + 1
        /\ \/ line_end + 1 < last /\ UNCHANGED <<last, pc>>
           \/ last' = 0 /\ pc' \in {"close", "read"}
    BY <1>6 DEF SearchLine
  <2>2. pc = "line"
    BY <1>6 DEF SearchLine
  <2>3. CASE line_end + 1 < last /\ UNCHANGED <<last, pc>>
    <3>1. line_start' \in 0 .. last' /\ last' \in 0 .. BUFSIZE /\ pc' = "line"
      BY <1>1, <1>2, <2>1, <2>2, <2>3
    <3> QED
      BY <1>3, <1>4, <2>1, <3>1 DEF ProgramInv, BufferInv
  <2>4. CASE last' = 0 /\ pc' \in {"close", "read"}
    BY <1>1, <1>3, <1>4, <2>1, <2>4 DEF ProgramInv, BufferInv
  <2> QED
    BY <2>1, <2>3, <2>4
<1> QED
  BY <1>4, <1>5, <1>6

LEMMA NameStep == ASSUME ProgramInv, NextName PROVE FilesStep /\ BufferInv' /\ Fp!IsName(fname')
<1>1. Fp!ReadInv /\ Fs!ReadDirectory(dir, MAX_FILENAME) /\ MAX_FILENAME \in Nat
  BY Sizes1 DEF ProgramInv, NextName
<1>2. dir \in Fs!Fds
  BY <1>1, DirectoryRead
<1>3. FilesStep
  BY <1>1, <1>2 DEF FilesStep, ReadAny
<1>4. BufferInv'
  <2>1. pc' \in {"exit", "names", "open"} /\ UNCHANGED <<image, buffer>>
    BY DEF NextName
  <2> QED
    BY <2>1 DEF ProgramInv, BufferInv, image, buffer
<1>5. CASE file_position[dir] >= MAX_FILECOUNT \/ answer'.got = <<>>
  BY <1>3, <1>4, <1>5 DEF NextName, ProgramInv
<1>6. CASE ~(file_position[dir] >= MAX_FILECOUNT \/ answer'.got = <<>>)
  <2>1. fname' = answer'.got[1]
    BY <1>6 DEF NextName
  <2>2. file_position[dir] \in 0 .. Len(Directory)
    BY <1>1, DirectoryRead
  <2>3. PICK name \in Seq(STRING) :
               /\ file_position[dir] < Len(Directory)
               /\ answer'.got = <<name>>
               /\ Fp!IsPrefix(name, Directory[file_position[dir] + 1].name)
               /\ Len(name) = Fp!Min({MAX_FILENAME, Len(Directory[file_position[dir] + 1].name)})
    BY <1>1, <1>6, DirectoryRead
  <2>4. file_position[dir] + 1 \in Fs!Indices
    BY <2>2, <2>3, Sizes1 DEF Fs!Indices
  <2>5. fname' = Directory[file_position[dir] + 1].name
    BY <2>1, <2>3, <2>4, PrefixOfName
  <2> QED
    BY <1>3, <1>4, <2>4, <2>5, FilesOK, SameConstants, Fp!NamesAreNames
<1> QED
  BY <1>5, <1>6

LEMMA GrepStep == ASSUME ProgramInv, Grep PROVE FilesStep /\ BufferInv' /\ Fp!IsName(fname')
<1>0. Fp!ReadInv /\ Fp!IsName(fname) /\ BufferInv
  BY DEF ProgramInv
<1>1. CASE GetSearch
  BY <1>0, <1>1 DEF GetSearch, FilesStep, BufferInv, image, buffer
<1>2. CASE OpenDir
  BY <1>0, <1>2, SomeNames DEF OpenDir, FilesStep, BufferInv, image, buffer
<1>3. CASE OpenFile
  <2>1. FilesStep /\ fname' = fname
    BY <1>0, <1>3 DEF OpenFile, FilesStep
  <2>2. data' \in [0 .. BUFSIZE -> Bytes] /\ last' = 0 /\ cnt' = cnt /\ text' = text /\ pc' = "read"
    BY <1>3, Sizes1 DEF OpenFile, image
  <2> QED
    BY <1>0, <2>1, <2>2, Sizes1 DEF BufferInv
<1>4. CASE CloseFile
  <2>1. fd \in flags
    BY <1>4 DEF CloseFile, Fs!Close
  <2>2. fd \in Fs!Fds
    BY <1>0, <2>1, FdsIn
  <2> QED
    BY <1>0, <1>4, <2>2 DEF CloseFile, FilesStep, BufferInv, image, buffer
<1> QED
  BY <1>0, <1>1, <1>2, <1>3, <1>4, ReadStep, LineStep, NameStep DEF Grep, GrepNext
(* The other programs leave the buffers of grep alone. *)
LEMMA Elsewhere ==
  ASSUME ProgramInv, pc' \notin {"line", "read"}, UNCHANGED <<text, data, last>>, cnt' \in 0 .. BUFSIZE
  PROVE  BufferInv'
BY DEF ProgramInv, BufferInv

LEMMA FishStep == ASSUME ProgramInv, Fish PROVE FilesStep /\ BufferInv' /\ Fp!IsName(fname')
<1>0. Fp!ReadInv /\ Fp!IsName(fname) /\ BufferInv
  BY DEF ProgramInv
<1>1. BufferInv' /\ fname' = fname
  <2>1. pc' \notin {"line", "read"} /\ UNCHANGED others
    BY FishStays DEF Fish, FishNext, Pcs
  <2> QED
    BY <1>0, <2>1, Elsewhere DEF others, image, buffer, BufferInv
<1>2. \A f : Fs!Close(f) => f \in Fs!Fds
  BY <1>0, FdsIn DEF Fs!Close
<1>3. ASSUME OpenClock PROVE FilesStep
  BY <1>3, SomeNames DEF OpenClock, FilesStep
<1>4. ASSUME AddBlink \/ EndRow \/ Ioctl PROVE FilesStep
  BY <1>4 DEF AddBlink, EndRow, Ioctl, FilesStep
<1>5. ASSUME Wait PROVE FilesStep
  <2>1. Fs!ReadClock(rtc_fd, 4)
    BY <1>5 DEF Wait
  <2>2. rtc_fd \in Fs!Fds
    BY <1>0, <2>1, ClockRead
  <2> QED
    BY <2>1, <2>2 DEF FilesStep, ReadAny
<1>6. ASSUME CloseClock PROVE FilesStep
  BY <1>2, <1>6 DEF CloseClock, FilesStep
<1>7. ASSUME NEW k \in Both, OpenFrame(k) PROVE FilesStep
  BY <1>7, SomeNames DEF OpenFrame, FilesStep
<1>8. ASSUME NEW k \in Both, ReadFrame(k) PROVE FilesStep
  <2>1. UNCHANGED files \/ Fs!ReadFile(frame_fd[k], 1)
    BY <1>8 DEF ReadFrame
  <2>2. Fs!ReadFile(frame_fd[k], 1) => frame_fd[k] \in Fs!Fds
    BY <1>0, FileRead
  <2> QED
    BY <2>1, <2>2 DEF FilesStep, ReadAny
<1>9. ASSUME NEW k \in Both, CloseFrame(k) PROVE FilesStep
  BY <1>2, <1>9 DEF CloseFrame, FilesStep
<1>10. FilesStep
  BY <1>3, <1>4, <1>5, <1>6, <1>7, <1>8, <1>9 DEF Fish, FishNext
<1> QED
  BY <1>0, <1>1, <1>10

LEMMA CatStep == ASSUME ProgramInv, Cat PROVE FilesStep /\ BufferInv' /\ Fp!IsName(fname')
<1>0. Fp!ReadInv /\ Fp!IsName(fname) /\ BufferInv /\ CommandInv
  BY DEF ProgramInv
<1>1. pc' \notin {"line", "read"} /\ UNCHANGED <<text, data, last, fname>>
  BY CatStays DEF Cat, CatArgs, CatOpen, CatRead, kept, image, Pcs
<1>2. CASE CatArgs
  <2>1. UNCHANGED files /\ cnt' = cnt
    BY <1>2 DEF CatArgs
  <2> QED
    BY <1>0, <1>1, <2>1, Elsewhere DEF FilesStep, BufferInv
<1>3. CASE CatOpen
  <2>1. Fp!IsName(Given) /\ (Fs!Open(Given) \/ Fs!OpenMissing(Given)) /\ cnt' = cnt
    BY <1>0, <1>3, GivenIsName DEF CatOpen
  <2> QED
    BY <1>0, <1>1, <2>1, Elsewhere DEF FilesStep, BufferInv
<1>4. CASE CatRead
  <2>1. ReadAny(fd, BUFSIZE) /\ BUFSIZE \in Nat /\ BUFSIZE > 0
    BY <1>4, Sizes1 DEF CatRead
  <2>2. fd \in Fs!Fds
    BY <1>0, <2>1, FileRead, ClockRead, DirectoryRead DEF ReadAny
  <2>3. FilesStep
    BY <2>1, <2>2 DEF FilesStep
  <2>4. cnt' \in 0 .. BUFSIZE
    <3>1. CASE fops_table[fd] = "directory" /\ file_position[fd] >= MAX_FILECOUNT
      BY <1>0, <1>4, <3>1 DEF CatRead, BufferInv
    <3>2. CASE ~(fops_table[fd] = "directory" /\ file_position[fd] >= MAX_FILECOUNT)
      <4>1. cnt' = Len(answer'.got)
        BY <1>4, <3>2 DEF CatRead
      <4>2. CASE Fs!ReadFile(fd, BUFSIZE)
        <5>1. answer'.got \in Seq(Nat) /\ Len(answer'.got) <= BUFSIZE
          BY <1>0, <2>1, <4>2, FileRead
        <5> QED
          BY <2>1, <4>1, <5>1
      <4>3. CASE Fs!ReadClock(fd, BUFSIZE)
        <5>1. answer'.got = <<>>
          BY <1>0, <2>1, <4>3, ClockRead
        <5> QED
          BY <2>1, <4>1, <5>1
      <4>4. CASE Fs!ReadDirectory(fd, BUFSIZE)
        <5>1. answer'.got = <<>> \/ \E name \in Seq(STRING) : answer'.got = <<name>>
          BY <1>0, <2>1, <3>2, <4>4, DirectoryRead
        <5>2. CASE answer'.got = <<>>
          BY <2>1, <4>1, <5>2
        <5>3. ASSUME NEW name, answer'.got = <<name>> PROVE cnt' \in 0 .. BUFSIZE
          <6>1. Len(<<name>>) = 1
            OBVIOUS
          <6> QED
            BY <2>1, <4>1, <5>3, <6>1
        <5> QED
          BY <5>1, <5>2, <5>3
      <4> QED
        BY <2>1, <4>2, <4>3, <4>4 DEF ReadAny
    <3> QED
      BY <3>1, <3>2
  <2> QED
    BY <1>0, <1>1, <2>3, <2>4, Elsewhere
<1> QED
  BY <1>2, <1>3, <1>4 DEF Cat

LEMMA LsStep == ASSUME ProgramInv, Ls PROVE FilesStep /\ BufferInv' /\ Fp!IsName(fname')
<1>0. Fp!ReadInv /\ Fp!IsName(fname) /\ BufferInv
  BY DEF ProgramInv
<1>1. pc' \notin {"line", "read"} /\ UNCHANGED <<text, data, last, fname, cnt>>
  BY LsStays DEF Ls, OpenNames, List, kept, image, Pcs
<1>2. CASE OpenNames
  BY <1>0, <1>1, <1>2, SomeNames, Elsewhere DEF OpenNames, FilesStep, BufferInv
<1>3. CASE List
  <2>1. Fs!ReadDirectory(fd, ListRoom) /\ ListRoom \in Nat
    BY <1>3, Sizes1 DEF List, ListRoom
  <2>2. fd \in Fs!Fds
    BY <1>0, <2>1, DirectoryRead
  <2>3. FilesStep
    BY <2>1, <2>2 DEF FilesStep, ReadAny
  <2> QED
    BY <1>0, <1>1, <2>3, Elsewhere DEF BufferInv
<1> QED
  BY <1>2, <1>3 DEF Ls

LEMMA OtherStep == ASSUME ProgramInv, Other PROVE FilesStep /\ BufferInv' /\ Fp!IsName(fname')
<1>0. Fp!ReadInv /\ Fp!IsName(fname) /\ BufferInv
  BY DEF ProgramInv
<1>1. pc' \notin {"line", "read"} /\ UNCHANGED <<text, data, last, fname, cnt>>
  BY OtherStays DEF Other, kept, image, Pcs
<1>2. FilesStep
  <2>1. CASE UNCHANGED files
    BY <2>1 DEF FilesStep
  <2>2. CASE Fs!Next
    <3>1. \A name \in Fs!Names : Fp!IsName(name)
      BY FilesOK, SameConstants, Fp!NamesAreNames
    <3>2. ReadLengths \subseteq Nat
      BY GrepAssumption DEF GrepAssumption, Fs!FilesAssumption
    <3> QED
      BY <2>2, <3>1, <3>2 DEF Fs!Next, FilesStep, ReadAny
  <2> QED
    BY <2>1, <2>2 DEF Other
<1> QED
  BY <1>0, <1>1, <1>2, Elsewhere DEF BufferInv

LEMMA ShellStep == ASSUME ProgramInv, Shell PROVE FilesStep /\ BufferInv' /\ Fp!IsName(fname')
<1>1. PICK line \in Lines : Execute(Stripped(line))
  BY DEF Shell
<1>2. text' \in [TextFiles -> [0 .. Longest - 1 -> Bytes]]
  BY <1>1, ProgramsAssumption DEF Execute, ProgramsAssumption, Bytes
<1>3. pc' \in {"getargs", "openclock", "catargs", "opennames", "other"}
  BY <1>1, ProgramsAssumption DEF Execute, ProgramsAssumption, Entry
<1>4. UNCHANGED <<files, fname, buffer>>
  BY DEF Shell
<1> QED
  BY <1>2, <1>3, <1>4 DEF ProgramInv, FilesStep, BufferInv, buffer

LEMMA BufferStart ==
  NoText \in [TextFiles -> [0 .. Longest - 1 -> Bytes]] /\ NoJunk \in [0 .. BUFSIZE -> Bytes]
BY Sizes1 DEF NoText, NoJunk

LEMMA HaltStep == ASSUME ProgramInv, Halt PROVE FilesStep /\ BufferInv' /\ Fp!IsName(fname')
<1>1. FilesStep
  BY DEF Halt, FilesStep, Fs!Init
<1>2. BufferInv'
  <2>1. pc' = "prompt" /\ text' = NoText /\ data' = NoJunk /\ last' = 0 /\ cnt' = 0
    BY DEF Halt
  <2> QED
    BY <2>1, BufferStart, Sizes1 DEF BufferInv
<1> QED
  BY <1>1, <1>2, SomeNames DEF Halt

THEOREM ProgramInit == Init => ProgramInv
<1> SUFFICES ASSUME Init PROVE ProgramInv
  OBVIOUS
<1>1. BufferInv
  BY BufferStart, Sizes1 DEF Init, Memory, BufferInv
<1> QED
  BY <1>1, FilesInit, CommandInit, SomeNames DEF Init, Memory, ProgramInv

THEOREM ProgramNext == ASSUME ProgramInv, [Next]_vars PROVE ProgramInv'
<1>1. CommandInv'
  BY NextCommand DEF ProgramInv
<1>2. CASE UNCHANGED vars
  <2>1. FilesStep
    BY <1>2 DEF FilesStep, vars
  <2>2. BufferInv' /\ fname' = fname
    BY <1>2 DEF vars, image, buffer, BufferInv, ProgramInv
  <2> QED
    BY <1>1, <2>1, <2>2, FilesKept DEF ProgramInv
<1>3. CASE Next
  <2>1. FilesStep /\ BufferInv' /\ Fp!IsName(fname')
    BY <1>3, ShellStep, GrepStep, FishStep, CatStep, LsStep, OtherStep, HaltStep DEF Next
  <2> QED
    BY <1>1, <2>1, FilesKept DEF ProgramInv
<1> QED
  BY <1>2, <1>3

THEOREM SpecProgram == Spec => []ProgramInv
<1>1. ProgramInv /\ [Next]_vars => ProgramInv'
  BY ProgramNext
<1> QED
  BY ProgramInit, <1>1, PTL DEF Spec
-----------------------------------------------------------------------------
(***************************************************************************)
(* What the programs make of it.                                           *)
(***************************************************************************)
LEMMA Opened ==
  ASSUME Fp!ReadInv, NEW name, Fp!IsName(name), Fs!Open(name)
  PROVE  LET f == Fs!LowestFree
         IN /\ f \in flags' /\ f \in Fs!Fds
            /\ seen'[f] = <<>> /\ file_position'[f] = 0
            /\ entry'[f] \in Fs!Indices /\ Directory[entry'[f]].name = name
            /\ fops_table'[f] = Directory[entry'[f]].type
<1> DEFINE f == Fs!LowestFree
           i == Fs!read_dentry_by_name(name)
<1>1. /\ i # 0 /\ flags # Fs!Fds
      /\ flags' = flags \cup {f}
      /\ entry' = [entry EXCEPT ![f] = i]
      /\ fops_table' = [fops_table EXCEPT ![f] = Directory[i].type]
      /\ UNCHANGED <<file_position, seen>>
  BY DEF Fs!Open, Fs!SetInode
<1>2. f \in Fs!Fds /\ f \notin flags
  BY <1>1, FilesOK, SameConstants, SameLowest, Fp!LowestFreeFound DEF Fp!ReadInv, Fp!IInv
<1>3. i \in Fs!Indices /\ Directory[i].name = name
  BY <1>1, FilesOK, SameConstants, SameDentry, Fp!DentryFound
<1>4. seen[f] = <<>> /\ file_position[f] = 0
  BY <1>2, SameConstants DEF Fp!ReadInv, Fp!Seen, Fp!IInv, Fp!DescriptorsMatch
<1>5. f \in DOMAIN entry /\ f \in DOMAIN fops_table
  BY <1>2, SameConstants DEF Fp!ReadInv, Fp!IInv
<1> HIDE DEF f, i
<1>6. entry'[f] = i /\ fops_table'[f] = Directory[i].type /\ f \in flags'
      /\ seen'[f] = <<>> /\ file_position'[f] = 0
  BY <1>1, <1>4, <1>5
<1> QED
  BY <1>2, <1>3, <1>6 DEF f

(* grep: an answer of nothing came at the end of the file, for there was   *)
(* room; cat and ls have shown what was read through their descriptor.     *)
OutputInv ==
  /\ StopsAtEnd
  /\ pc \in {"prompt", "catargs", "catopen", "opennames"} => output = <<>>
  /\ pc \in {"catread", "catdone"} => fd \in flags
  /\ pc \in {"catread", "catdone"} /\ fops_table[fd] = "file" =>
       /\ output = seen[fd]
       /\ pc = "catdone" => file_position[fd] >= Directory[entry[fd]].length
  /\ pc \in {"list", "listed"} =>
       /\ fd \in flags /\ fops_table[fd] = "directory" /\ output = seen[fd]
       /\ \A i \in 1 .. file_position[fd] : output[i] = Directory[i].name
       /\ pc = "listed" => file_position[fd] = Len(Directory)

LEMMA OutputGrep == ASSUME ProgramInv, OutputInv, Grep PROVE OutputInv'
<1>1. pc' \in Pcs.grep \cup {"failed"} /\ pc \in Pcs.grep
  BY GrepStays
<1>2. SUFFICES ASSUME pc' \in {"line", "close"} PROVE StopsAtEnd'
  BY <1>1 DEF Pcs, OutputInv, StopsAtEnd
<1>3. CASE Read
  <2>1. BUFSIZE \in Nat /\ last \in 0 .. BUFSIZE /\ Room \in Nat /\ Room > 0 /\ Fp!ReadInv
    BY <1>3, Sizes1 DEF Read, ProgramInv, BufferInv, Room
  <2>2. cnt' = Len(answer'.got) /\ fd' = fd
    BY <1>3 DEF Read
  <2>3. CASE Fs!ReadFile(fd, Room)
    <3>1. /\ Len(answer'.got) = Room \/ file_position'[fd] >= Directory[entry[fd]].length
          /\ entry' = entry
      BY <2>1, <2>3, FileRead
    <3> QED
      BY <2>1, <2>2, <3>1 DEF StopsAtEnd
  <2>4. CASE Fs!ReadClock(fd, Room)
    <3>1. entry[fd] \notin TextFiles /\ entry' = entry
      BY <2>1, <2>4, ClockRead
    <3> QED
      BY <2>2, <3>1 DEF StopsAtEnd
  <2> QED
    BY <1>3, <2>3, <2>4 DEF Read
<1>4. CASE SearchLine
  BY <1>4 DEF SearchLine, StopsAtEnd, OutputInv, files
<1>5. ~(GetSearch \/ OpenDir \/ NextName \/ OpenFile \/ MoveDown \/ CloseFile)
  BY <1>2 DEF GetSearch, OpenDir, NextName, OpenFile, MoveDown, CloseFile
<1> QED
  BY <1>3, <1>4, <1>5 DEF Grep, GrepNext

LEMMA OutputCat == ASSUME ProgramInv, OutputInv, Cat PROVE OutputInv'
<1>0. Fp!ReadInv /\ CommandInv /\ BUFSIZE \in Nat /\ BUFSIZE > 0
  BY Sizes1 DEF ProgramInv
<1>1. pc' \in Pcs.cat \cup {"failed"}
  BY CatStays
<1>2. CASE CatArgs
  <2>1. pc = "catargs" /\ pc' \in {"failed", "catopen"} /\ output' = output
    BY <1>2 DEF CatArgs
  <2> QED
    BY <2>1 DEF OutputInv, StopsAtEnd
<1>3. CASE CatOpen
  <2>1. pc = "catopen" /\ output' = output /\ pc' \in {"catread", "failed"}
    BY <1>3 DEF CatOpen
  <2>2. CASE Fs!Open(Given) /\ fd' = Fs!LowestFree /\ pc' = "catread"
    <3>1. fd' \in flags' /\ seen'[fd'] = <<>>
      BY <1>0, <2>1, <2>2, GivenIsName, Opened
    <3> QED
      BY <2>1, <2>2, <3>1 DEF OutputInv, StopsAtEnd
  <2>3. CASE pc' = "failed"
    BY <2>3 DEF OutputInv, StopsAtEnd
  <2> QED
    BY <1>3, <2>2, <2>3 DEF CatOpen
<1>4. CASE CatRead
  <2>1. pc = "catread" /\ ReadAny(fd, BUFSIZE) /\ fd' = fd /\ pc' \in {"catdone", "catread", "failed"}
    BY <1>4 DEF CatRead
  <2>2. fd \in flags /\ UNCHANGED <<flags, entry, fops_table>>
    BY <1>0, <2>1, FileRead, ClockRead, DirectoryRead DEF ReadAny
  <2>3. CASE fops_table[fd] # "file"
    BY <2>1, <2>2, <2>3 DEF OutputInv, StopsAtEnd
  <2>4. CASE fops_table[fd] = "file"
    <3>1. Fs!ReadFile(fd, BUFSIZE)
      BY <2>1, <2>4 DEF ReadAny, Fs!ReadClock, Fs!ReadDirectory
    <3>2. /\ seen'[fd] = seen[fd] \o answer'.got
          /\ Len(answer'.got) = BUFSIZE \/ file_position'[fd] >= Directory[entry[fd]].length
      BY <1>0, <3>1, FileRead
    <3>3. /\ cnt' = Len(answer'.got) /\ output' = output \o answer'.got
          /\ pc' = "catdone" => cnt' = 0
      BY <1>4, <2>4 DEF CatRead
    <3>4. output' = seen'[fd']
      BY <2>1, <2>4, <3>2, <3>3 DEF OutputInv
    <3>5. pc' = "catdone" => file_position'[fd'] >= Directory[entry'[fd']].length
      BY <1>0, <2>1, <2>2, <3>2, <3>3
    <3> QED
      BY <2>1, <2>2, <3>4, <3>5 DEF OutputInv, StopsAtEnd
  <2> QED
    BY <2>3, <2>4
<1> QED
  BY <1>2, <1>3, <1>4 DEF Cat

LEMMA OutputLs == ASSUME ProgramInv, OutputInv, Ls PROVE OutputInv'
<1>0. Fp!ReadInv /\ MAX_FILENAME \in Nat
  BY Sizes1 DEF ProgramInv
<1>1. CASE OpenNames
  <2>1. pc = "opennames" /\ pc' = "list" /\ output' = output /\ Fs!Open(<<".">>) /\ fd' = Fs!LowestFree
    BY <1>1 DEF OpenNames
  <2>2. /\ fd' \in flags' /\ seen'[fd'] = <<>> /\ file_position'[fd'] = 0
        /\ entry'[fd'] \in Fs!Indices /\ Directory[entry'[fd']].name = <<".">>
        /\ fops_table'[fd'] = Directory[entry'[fd']].type
    BY <1>0, <2>1, SomeNames, Opened
  <2>3. Directory[entry'[fd']].type = "directory"
    <3>1. <<".">>[1] = "."
      OBVIOUS
    <3> QED
      BY <2>2, <3>1, GrepAssumption DEF GrepAssumption
  <2>4. output' = <<>>
    BY <2>1 DEF OutputInv
  <2>5. \A i \in 1 .. file_position'[fd'] : output'[i] = Directory[i].name
    BY <2>2
  <2> QED
    BY <2>1, <2>2, <2>3, <2>4, <2>5 DEF OutputInv, StopsAtEnd
<1>2. CASE List
  <2> DEFINE pos == file_position[fd]
  <2>1. /\ pc = "list" /\ fd' = fd /\ Fs!ReadDirectory(fd, MAX_FILENAME)
        /\ IF pos >= MAX_FILECOUNT \/ answer'.got = <<>>
           THEN pc' = "listed" /\ UNCHANGED output
           ELSE pc' = "list" /\ output' = output \o answer'.got
    BY <1>2 DEF List, ListRoom
  <2>2. /\ fd \in flags /\ fops_table[fd] = "directory" /\ pos \in 0 .. Len(Directory)
        /\ UNCHANGED <<flags, fops_table>>
    BY <1>0, <2>1, DirectoryRead
  <2>3. /\ output = seen[fd]
        /\ \A i \in 1 .. pos : output[i] = Directory[i].name
    BY <2>1 DEF OutputInv
  <2>4. seen[fd] \in Seq(Seq(STRING)) /\ Len(seen[fd]) = pos
    BY <1>0, <2>2, FdsIn DEF Fp!ReadInv, Fp!Seen
  <2>5. CASE pos >= MAX_FILECOUNT
    <3>1. UNCHANGED files
      BY <1>0, <2>1, <2>5, DirectoryRead
    <3>2. pos = Len(Directory)
      BY <2>2, <2>5, Sizes1
    <3> QED
      BY <2>1, <2>2, <2>3, <2>5, <3>1, <3>2 DEF OutputInv, StopsAtEnd, files
  <2>6. CASE ~(pos >= MAX_FILECOUNT) /\ answer'.got = <<>>
    <3>1. file_position'[fd] = pos /\ pos = Len(Directory) /\ seen'[fd] = seen[fd] \o <<>>
      <4>1. MAX_FILENAME > 0 \/ Len(Directory) = 0
        BY GrepAssumption DEF GrepAssumption, Fs!FilesAssumption, Fs!Indices
      <4>2. /\ seen'[fd] = seen[fd] \o answer'.got
            /\ file_position'[fd] = pos /\ (MAX_FILENAME > 0 => pos = Len(Directory))
        BY <1>0, <2>1, <2>6, DirectoryRead
      <4> QED
        BY <2>2, <2>6, <4>1, <4>2
    <3>2. seen'[fd] = seen[fd]
      BY <2>4, <3>1, ConcatEmptySeq
    <3> QED
      BY <2>1, <2>2, <2>3, <2>6, <3>1, <3>2 DEF OutputInv, StopsAtEnd
  <2>7. CASE ~(pos >= MAX_FILECOUNT) /\ answer'.got # <<>>
    <3>1. PICK name \in Seq(STRING) :
                 /\ pos < Len(Directory)
                 /\ answer'.got = <<name>> /\ file_position'[fd] = pos + 1
                 /\ Fp!IsPrefix(name, Directory[pos + 1].name)
                 /\ Len(name) = Fp!Min({MAX_FILENAME, Len(Directory[pos + 1].name)})
      BY <1>0, <2>1, <2>7, DirectoryRead
    <3>2. pos + 1 \in Fs!Indices
      BY <2>2, <3>1 DEF Fs!Indices
    <3>3. name = Directory[pos + 1].name
      BY <3>1, <3>2, PrefixOfName
    <3>4. pc' = "list" /\ output' = output \o <<name>> /\ seen'[fd] = seen[fd] \o <<name>>
      BY <1>0, <2>1, <2>7, <3>1, DirectoryRead
    <3>5. <<name>> \in Seq(Seq(STRING)) /\ Len(<<name>>) = 1 /\ <<name>>[1] = name
      OBVIOUS
    <3>6. \A i \in 1 .. pos + 1 : output'[i] = Directory[i].name
      <4> SUFFICES ASSUME NEW i \in 1 .. pos + 1 PROVE output'[i] = Directory[i].name
        OBVIOUS
      <4> HIDE DEF pos
      <4>1. \A k \in 1 .. Len(output) + Len(<<name>>) :
              (output \o <<name>>)[k] = IF k <= Len(output) THEN output[k] ELSE <<name>>[k - Len(output)]
        BY <2>3, <2>4, <3>5, ConcatProperties
      <4>2. output'[i] = IF i <= pos THEN output[i] ELSE <<name>>[i - pos]
        BY <2>2, <2>3, <2>4, <3>4, <3>5, <4>1
      <4>3. CASE i <= pos
        BY <2>2, <2>3, <4>2, <4>3
      <4>4. CASE ~(i <= pos)
        <5>1. i = pos + 1 /\ i - pos = 1
          BY <2>2, <4>4
        <5> QED
          BY <3>3, <3>5, <4>2, <4>4, <5>1
      <4> QED
        BY <4>3, <4>4
    <3> QED
      BY <2>1, <2>2, <2>3, <3>1, <3>4, <3>6 DEF OutputInv, StopsAtEnd
  <2> QED
    BY <2>5, <2>6, <2>7
<1> QED
  BY <1>1, <1>2 DEF Ls
LEMMA OutputElse ==
  ASSUME ProgramInv, OutputInv, Shell \/ Fish \/ Other \/ Halt PROVE OutputInv'
<1>1. CASE Shell
  <2>1. pc' \in {"getargs", "openclock", "catargs", "opennames", "other"}
    BY <1>1, ProgramsAssumption DEF Shell, Execute, ProgramsAssumption, Entry
  <2>2. pc = "prompt" /\ output' = output
    BY <1>1 DEF Shell
  <2> QED
    BY <2>1, <2>2 DEF OutputInv, StopsAtEnd
<1>2. CASE Fish \/ Other
  BY <1>2, FishStays, OtherStays DEF Pcs, OutputInv, StopsAtEnd
<1>3. CASE Halt
  BY <1>3 DEF Halt, OutputInv, StopsAtEnd
<1> QED
  BY <1>1, <1>2, <1>3

THEOREM OutputNext == ASSUME ProgramInv, OutputInv, [Next]_vars PROVE OutputInv'
<1>1. CASE UNCHANGED vars
  BY <1>1 DEF vars, files, buffer, OutputInv, StopsAtEnd
<1>2. CASE Next
  BY <1>2, OutputGrep, OutputCat, OutputLs, OutputElse DEF Next
<1> QED
  BY <1>1, <1>2

THEOREM SpecOutput == Spec => []OutputInv
<1>1. Init => OutputInv
  BY DEF Init, Memory, OutputInv, StopsAtEnd
<1>2. ProgramInv /\ OutputInv /\ [Next]_vars => OutputInv'
  BY OutputNext
<1> QED
  BY <1>1, <1>2, SpecProgram, PTL DEF Spec

LEMMA Shows == ASSUME ProgramInv, OutputInv PROVE CatShowsFile /\ ListsDirectory
<1>0. Fp!ReadInv
  BY DEF ProgramInv
<1>1. CatShowsFile
  <2> SUFFICES ASSUME pc = "catdone", fops_table[fd] = "file"
               PROVE  LET size == Directory[entry[fd]].length
                      IN Len(output) >= size /\ SubSeq(output, 1, size) = [k \in 1 .. size |-> k - 1]
    BY DEF CatShowsFile
  <2> DEFINE size == Directory[entry[fd]].length
             pos == file_position[fd]
  <2>1. fd \in flags /\ output = seen[fd] /\ pos >= size
    BY DEF OutputInv
  <2>2. Len(output) = pos /\ \A i \in 1 .. Len(output) : output[i] = i - 1
    BY <1>0, <2>1, FilesOK, Fp!Implied DEF Fp!NothingSkipped
  <2>3. pos \in Nat /\ size \in Nat
    <3>1. fd \in Fp!Fds
      BY <1>0, <2>1, FdsIn
    <3> QED
      BY <1>0, <2>1, <3>1, FilesOK
         DEF Fp!ReadInv, Fp!TypeOK, Fp!IInv, Fp!DescriptorsMatch, Fp!FilesAssumption
  <2> HIDE DEF size, pos
  <2>4. \A i \in 1 .. size : output[i] = i - 1 /\ output[i] \in Nat
    <3> SUFFICES ASSUME NEW i \in 1 .. size PROVE output[i] = i - 1 /\ output[i] \in Nat
      OBVIOUS
    <3>1. i \in 1 .. Len(output) /\ i - 1 \in Nat
      BY <2>1, <2>2, <2>3
    <3> QED
      BY <2>2, <3>1
  <2>5. /\ SubSeq(output, 1, size) \in Seq(Nat)
        /\ Len(SubSeq(output, 1, size)) = size
        /\ \A i \in 1 .. size : SubSeq(output, 1, size)[i] = output[i]
    <3>1. size - 1 + 1 = size /\ (1 <= size <=> size # 0)
      BY <2>3
    <3> QED
      BY <2>3, <2>4, <3>1, SubSeqProperties
  <2>6. SubSeq(output, 1, size) = [k \in 1 .. size |-> k - 1]
    <3> DEFINE s == SubSeq(output, 1, size)
    <3>1. s = [k \in 1 .. Len(s) |-> s[k]]
      BY <2>5
    <3> HIDE DEF s
    <3> QED
      BY <2>4, <2>5, <3>1 DEF s
  <2> QED
    BY <2>1, <2>2, <2>6 DEF size
<1>2. ListsDirectory
  <2> SUFFICES ASSUME pc = "listed" PROVE output = [i \in Fs!Indices |-> Directory[i].name]
    BY DEF ListsDirectory
  <2>1. /\ fd \in flags /\ fops_table[fd] = "directory" /\ output = seen[fd]
        /\ file_position[fd] = Len(Directory)
        /\ \A i \in 1 .. file_position[fd] : output[i] = Directory[i].name
    BY DEF OutputInv
  <2>2. output \in Seq(Seq(STRING)) /\ Len(output) = Len(Directory)
    BY <1>0, <2>1, FdsIn DEF Fp!ReadInv, Fp!Seen
  <2>3. output = [i \in 1 .. Len(output) |-> output[i]]
    BY <2>2
  <2> QED
    BY <2>1, <2>2, <2>3 DEF Fs!Indices
<1> QED
  BY <1>1, <1>2

-----------------------------------------------------------------------------
(***************************************************************************)
(* fish: what blinks is a list of structures in the page, each with a      *)
(* phase left, and main's loops end with the fourth hundred of reads.      *)
(***************************************************************************)
Glyphs == Bytes \cup {Unread, SPACE, "I", "M"}
Phase == 1 .. 15
Blinks == [location : 0 .. SCREEN - 1, on_char : Glyphs, off_char : Glyphs,
           on_length : Phase, off_length : Phase, countdown : Phase, on : BOOLEAN]

FishInv ==
  /\ ch \in [Both -> Glyphs] /\ row \in Nat /\ col \in Nat
  /\ waits \in 0 .. 4 * WAIT
  /\ pc \notin {"ioctl", "fishdone"} => waits < 4 * WAIT
  /\ pc = "ioctl" => waits \in {WAIT, 2 * WAIT, 3 * WAIT, 4 * WAIT}
  /\ blinks \in Seq(Blinks)
  /\ DOMAIN screen \subseteq 0 .. SCREEN - 1
  /\ \A k \in 1 .. Len(blinks) : blinks[k].location \in DOMAIN screen

(* The list and the page alone. *)
BlinksOn(list, page) ==
  /\ list \in Seq(Blinks) /\ page \subseteq 0 .. SCREEN - 1
  /\ \A k \in 1 .. Len(list) : list[k].location \in page

LEMMA FishPage ==
  ASSUME FishInv, BlinksOn(blinks, DOMAIN screen)',
         ch' \in [Both -> Glyphs], row' \in Nat, col' \in Nat,
         waits' = waits, pc \notin {"ioctl", "fishdone"}, pc' \notin {"ioctl", "fishdone"}
  PROVE  FishInv'
BY DEF FishInv, BlinksOn

LEMMA ShownAt ==
  ASSUME NEW location, NEW char, Shown(location, char)
  PROVE  DOMAIN screen' = DOMAIN screen \cup {location}
BY DEF Shown

LEMMA FindIs ==
  ASSUME blinks \in Seq(Blinks), NEW location
  PROVE  /\ Find(location) \in 0 .. Len(blinks)
         /\ Find(location) # 0 => blinks[Find(location)].location = location
<1> DEFINE there == {k \in DOMAIN blinks : blinks[k].location = location}
<1>1. there \in SUBSET Nat /\ there \subseteq 1 .. Len(blinks) /\ Len(blinks) \in Nat
  OBVIOUS
<1>2. CASE there = {}
  BY <1>1, <1>2 DEF Find
<1>3. CASE there # {}
  <2>1. Find(location) \in there
    BY <1>1, <1>3, Least DEF Find
  <2> QED
    BY <1>1, <2>1
<1> QED
  BY <1>2, <1>3

(* A structure as the program passes it. *)
Passed == [location : Nat, on_char : Glyphs, off_char : Glyphs,
           on_length : Phase, off_length : Phase, countdown : {0}, on : {FALSE}]

LEMMA PassedIs ==
  ASSUME NEW location \in Nat, NEW on_char \in Glyphs, NEW off_char \in Glyphs,
         NEW on_length \in Phase, NEW off_length \in Phase
  PROVE  Blink(location, on_char, off_char, on_length, off_length) \in Passed
BY DEF Blink, Passed

LEMMA AddKeeps ==
  ASSUME BlinksOn(blinks, DOMAIN screen), NEW b \in Passed, mp1_ioctl_add(b)
  PROVE  BlinksOn(blinks, DOMAIN screen)'
<1> DEFINE new == [b EXCEPT !.on = TRUE, !.countdown = b.on_length]
<1>1. b.location \in Nat /\ SCREEN = 2000
  BY DEF Passed, SCREEN, COLS
<1>2. CASE UNCHANGED <<blinks, screen>>
  BY <1>2 DEF BlinksOn
<1>3. CASE ~UNCHANGED <<blinks, screen>>
  <2>1. ~(b.location >= SCREEN) /\ blinks' = <<new>> \o blinks /\ Shown(b.location, b.on_char)
    BY <1>3 DEF mp1_ioctl_add
  <2>2. b.location \in 0 .. SCREEN - 1
    <3> DEFINE l == b.location
    <3>1. ~(l >= SCREEN) /\ l \in Nat /\ SCREEN = 2000
      BY <1>1, <2>1
    <3> HIDE DEF l
    <3>2. l \in 0 .. SCREEN - 1
      BY <3>1
    <3> QED
      BY <3>2 DEF l
  <2>3. new \in Blinks /\ new.location = b.location
    BY <2>2 DEF Blinks, Passed
  <2> HIDE DEF new
  <2>4. /\ blinks' \in Seq(Blinks) /\ Len(blinks') = Len(blinks) + 1 /\ Len(blinks) \in Nat
        /\ \A k \in 1 .. Len(blinks') : blinks'[k] = IF k = 1 THEN new ELSE blinks[k - 1]
    BY <2>1, <2>3 DEF BlinksOn
  <2>5. DOMAIN screen' = DOMAIN screen \cup {b.location}
    BY <2>1, ShownAt
  <2>6. \A k \in 1 .. Len(blinks') : blinks'[k].location \in DOMAIN screen'
    <3> SUFFICES ASSUME NEW k \in 1 .. Len(blinks') PROVE blinks'[k].location \in DOMAIN screen'
      OBVIOUS
    <3>1. CASE k = 1
      BY <2>3, <2>4, <2>5, <3>1
    <3>2. CASE k # 1
      <4>1. k - 1 \in 1 .. Len(blinks)
        BY <2>4, <3>2
      <4> QED
        BY <2>4, <2>5, <3>2, <4>1 DEF BlinksOn
    <3> QED
      BY <3>1, <3>2
  <2>7. DOMAIN screen' \subseteq 0 .. SCREEN - 1
    BY <2>2, <2>5 DEF BlinksOn
  <2> QED
    BY <2>4, <2>6, <2>7 DEF BlinksOn
<1> QED
  BY <1>2, <1>3

LEMMA SyncKeeps ==
  ASSUME BlinksOn(blinks, DOMAIN screen), NEW first, NEW second, mp1_ioctl_sync(first, second)
  PROVE  BlinksOn(blinks, DOMAIN screen)'
<1>1. CASE UNCHANGED <<blinks, screen>>
  BY <1>1 DEF BlinksOn
<1>2. CASE ~UNCHANGED <<blinks, screen>>
  <2> DEFINE x == Find(first)
             y == Find(second)
  <2>1. /\ x # 0 /\ y # 0 /\ blinks' = [blinks EXCEPT ![y] = Synced(blinks[x], blinks[y])]
        /\ Shown(second, blinks[y].off_char)
    BY <1>2 DEF mp1_ioctl_sync
  <2>2. x \in 1 .. Len(blinks) /\ y \in 1 .. Len(blinks) /\ blinks[y].location = second
    BY <2>1, FindIs DEF BlinksOn
  <2> HIDE DEF x, y
  <2>3. blinks[x] \in Blinks /\ blinks[y] \in Blinks
    BY <2>2 DEF BlinksOn
  <2>4. Synced(blinks[x], blinks[y]) \in Blinks /\ Synced(blinks[x], blinks[y]).location = second
    BY <2>2, <2>3 DEF Blinks, Synced
  <2>5. DOMAIN screen' = DOMAIN screen
    BY <2>1, <2>2, ShownAt DEF BlinksOn
  <2>6. /\ blinks' \in Seq(Blinks) /\ Len(blinks') = Len(blinks)
        /\ \A k \in 1 .. Len(blinks) : blinks'[k].location = blinks[k].location
    BY <2>1, <2>2, <2>4 DEF BlinksOn
  <2> QED
    BY <2>5, <2>6 DEF BlinksOn
<1> QED
  BY <1>1, <1>2

LEMMA RemoveKeeps ==
  ASSUME BlinksOn(blinks, DOMAIN screen), NEW location, mp1_ioctl_remove(location)
  PROVE  BlinksOn(blinks, DOMAIN screen)'
<1> DEFINE x == Find(location)
<1>1. screen' = screen /\ blinks' = IF x = 0 THEN blinks ELSE RemoveAt(blinks, x)
  BY DEF mp1_ioctl_remove
<1>2. x \in 0 .. Len(blinks) /\ blinks \in Seq(Blinks)
  BY FindIs DEF BlinksOn
<1> HIDE DEF x
<1>3. CASE x = 0
  BY <1>1, <1>3 DEF BlinksOn
<1>4. CASE x # 0
  <2>1. /\ blinks' \in Seq(Blinks)
        /\ \A k \in 1 .. Len(blinks') : \E j \in 1 .. Len(blinks) : blinks'[k] = blinks[j]
    <3>1. blinks' = SubSeq(blinks, 1, x - 1) \o SubSeq(blinks, x + 1, Len(blinks))
      BY <1>1, <1>4 DEF RemoveAt
    <3>2. /\ SubSeq(blinks, 1, x - 1) \in Seq(Blinks) /\ Len(SubSeq(blinks, 1, x - 1)) = x - 1
          /\ \A k \in 1 .. x - 1 : SubSeq(blinks, 1, x - 1)[k] = blinks[k]
      BY <1>2, <1>4
    <3>3. /\ SubSeq(blinks, x + 1, Len(blinks)) \in Seq(Blinks)
          /\ Len(SubSeq(blinks, x + 1, Len(blinks))) = Len(blinks) - x
          /\ \A k \in 1 .. Len(blinks) - x : SubSeq(blinks, x + 1, Len(blinks))[k] = blinks[x + k]
      BY <1>2, <1>4
    <3>4. /\ blinks' \in Seq(Blinks) /\ Len(blinks') = Len(blinks) - 1
          /\ \A k \in 1 .. Len(blinks) - 1 : blinks'[k] = IF k <= x - 1 THEN blinks[k] ELSE blinks[k + 1]
      <4> DEFINE a == SubSeq(blinks, 1, x - 1)
                 z == SubSeq(blinks, x + 1, Len(blinks))
      <4>1. a \in Seq(Blinks) /\ z \in Seq(Blinks) /\ blinks' = a \o z
        BY <3>1, <3>2, <3>3
      <4>2. /\ Len(a) = x - 1 /\ Len(z) = Len(blinks) - x /\ x \in 1 .. Len(blinks) /\ Len(blinks) \in Nat
            /\ \A k \in 1 .. x - 1 : a[k] = blinks[k]
            /\ \A k \in 1 .. Len(blinks) - x : z[k] = blinks[x + k]
        BY <1>2, <1>4, <3>2, <3>3
      <4> HIDE DEF a, z
      <4>3. /\ blinks' \in Seq(Blinks) /\ Len(blinks') = Len(blinks) - 1
            /\ \A k \in 1 .. Len(blinks) - 1 : blinks'[k] = IF k <= x - 1 THEN a[k] ELSE z[k - (x - 1)]
        BY <4>1, <4>2
      <4>4. \A k \in 1 .. Len(blinks) - 1 : k > x - 1 => z[k - (x - 1)] = blinks[k + 1]
        <5> SUFFICES ASSUME NEW k \in 1 .. Len(blinks) - 1, k > x - 1 PROVE z[k - (x - 1)] = blinks[k + 1]
          OBVIOUS
        <5> DEFINE m == k - (x - 1)
        <5>1. m \in 1 .. Len(blinks) - x /\ x + m = k + 1
          BY <4>2
        <5> HIDE DEF m
        <5>2. z[m] = blinks[k + 1]
          BY <4>2, <5>1
        <5> QED
          BY <5>2 DEF m
      <4>5. \A k \in 1 .. Len(blinks) - 1 : k <= x - 1 => a[k] = blinks[k]
        BY <4>2
      <4>6. \A k \in 1 .. Len(blinks) - 1 : k <= x - 1 \/ k > x - 1
        BY <4>2
      <4> QED
        BY <4>3, <4>4, <4>5, <4>6
    <3>5. ASSUME NEW k \in 1 .. Len(blinks) - 1 PROVE \E j \in 1 .. Len(blinks) : blinks'[k] = blinks[j]
      <4>1. k \in 1 .. Len(blinks) /\ k + 1 \in 1 .. Len(blinks)
        BY <1>2
      <4> QED
        BY <3>4, <4>1
    <3> QED
      BY <3>4, <3>5
  <2> QED
    BY <1>1, <2>1 DEF BlinksOn
<1> QED
  BY <1>2, <1>3, <1>4

LEMMA TickKeeps ==
  ASSUME BlinksOn(blinks, DOMAIN screen), mp1_rtc_tasklet
  PROVE  BlinksOn(blinks, DOMAIN screen)'
<1>1. DOMAIN screen' = DOMAIN screen /\ blinks' = [k \in 1 .. Len(blinks) |-> Ticked(blinks[k])]
  BY DEF mp1_rtc_tasklet, BlinksOn
<1>2. ASSUME NEW b \in Blinks PROVE Ticked(b) \in Blinks /\ Ticked(b).location = b.location
  <2> DEFINE c == IF b.on THEN b.off_length ELSE b.on_length
  <2>1. b.countdown \in Phase /\ c \in Phase /\ b.on \in BOOLEAN
    BY DEF Blinks
  <2> HIDE DEF c
  <2>2. CASE Due(b)
    <3>1. Ticked(b) = [b EXCEPT !.countdown = c, !.on = ~b.on]
      BY <2>2 DEF Ticked, c
    <3>2. (~b.on) \in BOOLEAN
      OBVIOUS
    <3> QED
      BY <2>1, <3>1, <3>2 DEF Blinks
  <2>3. CASE ~Due(b)
    <3>1. Ticked(b) = [b EXCEPT !.countdown = b.countdown - 1]
      BY <2>3 DEF Ticked
    <3>2. b.countdown - 1 \in Phase
      BY <2>1, <2>3 DEF Due, Phase
    <3> QED
      BY <3>1, <3>2 DEF Blinks
  <2> QED
    BY <2>2, <2>3
<1>3. \A k \in 1 .. Len(blinks) : blinks[k] \in Blinks
  BY DEF BlinksOn
<1>4. \A k \in 1 .. Len(blinks) : Ticked(blinks[k]) \in Blinks /\ Ticked(blinks[k]).location = blinks[k].location
  BY <1>2, <1>3
<1>5. /\ blinks' \in Seq(Blinks) /\ Len(blinks') = Len(blinks)
      /\ \A k \in 1 .. Len(blinks) : blinks'[k].location = blinks[k].location
  BY <1>1, <1>4 DEF BlinksOn
<1> QED
  BY <1>1, <1>5 DEF BlinksOn
(* A byte of a drawing. *)
LEMMA FrameByte ==
  ASSUME ProgramInv, FishInv, NEW k \in Both, ReadFrame(k)
  PROVE  ch' \in [Both -> Glyphs]
<1>1. CASE ch[k] = NL
  BY <1>1 DEF ReadFrame, FishInv
<1>2. CASE ch[k] # NL
  <2> DEFINE got == answer'.got
             i == entry[frame_fd[k]]
  <2>1. /\ Fs!ReadFile(frame_fd[k], 1)
        /\ ch' = [ch EXCEPT ![k] = IF got = <<>> THEN NL ELSE Byte(i, got[1])]
    BY <1>2 DEF ReadFrame
  <2>2. got \in Seq(Nat) /\ i \in TextFiles
    BY <2>1, FileRead DEF ProgramInv
  <2> HIDE DEF got, i
  <2>3. got # <<>> => Byte(i, got[1]) \in Bytes
    <3> SUFFICES ASSUME got # <<>> PROVE Byte(i, got[1]) \in Bytes
      OBVIOUS
    <3> DEFINE b == got[1]
    <3>1. b \in Nat
      BY <2>2
    <3> HIDE DEF b
    <3>2. Longest \in Nat /\ Directory[i].length <= Longest /\ Directory[i].length \in Nat
      BY <2>2, Longer, GrepAssumption DEF GrepAssumption, Fs!FilesAssumption, TextFiles
    <3>3. b < Directory[i].length => b \in 0 .. Longest - 1
      BY <3>1, <3>2
    <3>4. Byte(i, b) \in Bytes
      BY <2>2, <3>3, Sizes1 DEF Byte, ProgramInv, BufferInv
    <3> QED
      BY <3>4 DEF b
  <2>4. NL \in Glyphs /\ Bytes \subseteq Glyphs
    BY Sizes1 DEF Glyphs
  <2> QED
    BY <2>1, <2>3, <2>4 DEF FishInv
<1> QED
  BY <1>1, <1>2

LEMMA FishInvStep == ASSUME ProgramInv, FishInv, Fish PROVE FishInv'
<1>0. /\ BlinksOn(blinks, DOMAIN screen) /\ ch \in [Both -> Glyphs]
      /\ row \in Nat /\ col \in Nat
  BY DEF FishInv, BlinksOn
<1>1. CASE OpenClock \/ EndRow
  <2>1. UNCHANGED <<ch, row, col, waits, blinks, screen>> /\ pc \in {"openclock", "blink"} /\ pc' \in {"open0", "close0"}
    BY <1>1 DEF OpenClock, EndRow
  <2> QED
    BY <2>1 DEF FishInv
<1>2. CASE AddBlink
  <2>1. UNCHANGED <<ch, row, waits>> /\ col' = col + 1 /\ pc = "blink" /\ pc' = "read0"
    BY <1>2 DEF AddBlink
  <2>2. BlinksOn(blinks, DOMAIN screen)'
    <3>1. CASE UNCHANGED <<blinks, screen>>
      BY <1>0, <3>1 DEF BlinksOn
    <3>2. CASE ~UNCHANGED <<blinks, screen>>
      <4>1. mp1_ioctl_add(Blink(row * COLS + col + Corner, Glyph(0), Glyph(1), 15, 15))
        BY <1>2, <3>2 DEF AddBlink
      <4>2. row * COLS + col + Corner \in Nat
        BY <1>0 DEF COLS, Corner
      <4>3. Glyph(0) \in Glyphs /\ Glyph(1) \in Glyphs
        BY <1>0 DEF Glyph, Glyphs, Both
      <4>4. 15 \in Phase
        BY DEF Phase
      <4>5. Blink(row * COLS + col + Corner, Glyph(0), Glyph(1), 15, 15) \in Passed
        BY <4>2, <4>3, <4>4, PassedIs
      <4> QED
        BY <1>0, <4>1, <4>5, AddKeeps
    <3> QED
      BY <3>1, <3>2
  <2> QED
    BY <1>0, <2>1, <2>2, FishPage
<1>3. CASE Wait
  <2>1. /\ mp1_rtc_tasklet /\ pc = "wait" /\ waits' = waits + 1
        /\ pc' = IF waits' % WAIT = 0 THEN "ioctl" ELSE "wait"
        /\ UNCHANGED <<ch, row, col>>
    BY <1>3 DEF Wait
  <2>2. BlinksOn(blinks, DOMAIN screen)'
    BY <1>0, <2>1, TickKeeps
  <2>3. waits \in 0 .. 4 * WAIT /\ waits < 4 * WAIT
    BY <2>1 DEF FishInv
  <2>4. /\ waits' \in 1 .. 4 * WAIT
        /\ waits' % WAIT = 0 => waits' \in {WAIT, 2 * WAIT, 3 * WAIT, 4 * WAIT}
        /\ waits' % WAIT # 0 => waits' < 4 * WAIT
    <3>1. waits' \in 1 .. 4 * WAIT
      BY <2>1, <2>3 DEF WAIT
    <3> DEFINE Hundreds(w) == /\ w % WAIT = 0 => w \in {WAIT, 2 * WAIT, 3 * WAIT, 4 * WAIT}
                              /\ w % WAIT # 0 => w < 4 * WAIT
    <3>2. \A w \in 1 .. 4 * WAIT : Hundreds(w)
      BY SMTT(30) DEF WAIT
    <3> HIDE DEF Hundreds
    <3>3. Hundreds(waits')
      BY <3>1, <3>2
    <3> QED
      BY <3>1, <3>3 DEF Hundreds
  <2> QED
    BY <1>0, <2>1, <2>2, <2>4 DEF FishInv, BlinksOn, WAIT
<1>4. CASE Ioctl
  <2>1. UNCHANGED <<ch, row, col, waits>> /\ pc = "ioctl" /\ pc' = "wait" /\ waits < 4 * WAIT
    BY <1>4 DEF Ioctl
  <2>2. waits \in {WAIT, 2 * WAIT, 3 * WAIT}
    BY <2>1 DEF FishInv, WAIT
  <2>3. BlinksOn(blinks, DOMAIN screen)'
    <3>1. CASE waits = WAIT
      <4>1. mp1_ioctl_add(Blink(Spot, "I", "M", 7, 6))
        BY <1>4, <3>1 DEF Ioctl, WAIT
      <4>2. Spot \in Nat /\ "I" \in Glyphs /\ "M" \in Glyphs /\ 7 \in Phase /\ 6 \in Phase
        BY DEF Spot, COLS, Glyphs, Phase
      <4>3. Blink(Spot, "I", "M", 7, 6) \in Passed
        BY <4>2, PassedIs
      <4> QED
        BY <1>0, <4>1, <4>3, AddKeeps
    <3>2. CASE waits = 2 * WAIT
      <4>1. mp1_ioctl_sync(Corner, Spot)
        BY <1>4, <3>2 DEF Ioctl, WAIT
      <4> QED
        BY <1>0, <4>1, SyncKeeps
    <3>3. CASE waits = 3 * WAIT
      <4>1. mp1_ioctl_remove(Spot)
        BY <1>4, <3>3 DEF Ioctl, WAIT
      <4> QED
        BY <1>0, <4>1, RemoveKeeps
    <3> QED
      BY <2>2, <3>1, <3>2, <3>3
  <2> QED
    BY <1>0, <2>1, <2>3 DEF FishInv, BlinksOn
<1>5. CASE CloseClock
  <2>1. UNCHANGED <<ch, row, col, waits, blinks, screen>> /\ pc' = "fishdone"
    BY <1>5 DEF CloseClock
  <2> QED
    BY <2>1 DEF FishInv
<1>6. ASSUME NEW k \in Both, OpenFrame(k) PROVE FishInv'
  <2>1. UNCHANGED <<ch, row, col, waits, blinks, screen>> /\ pc \in {"open0", "open1"} /\ pc' \in {"open1", "read0"}
    BY <1>6 DEF OpenFrame, Both
  <2> QED
    BY <2>1 DEF FishInv
<1>7. ASSUME NEW k \in Both, ReadFrame(k) PROVE FishInv'
  <2>1. UNCHANGED <<row, col, waits, blinks, screen>> /\ pc \in {"read0", "read1"} /\ pc' \in {"read1", "blink"}
    BY <1>7 DEF ReadFrame, Both
  <2> QED
    BY <1>7, <2>1, FrameByte DEF FishInv
<1>8. ASSUME NEW k \in Both, CloseFrame(k) PROVE FishInv'
  <2>1. /\ ch' = [ch EXCEPT ![k] = IF eof[k] THEN NL ELSE Unread]
        /\ UNCHANGED <<waits, blinks, screen>>
    BY <1>8 DEF CloseFrame
  <2>2. pc \in {"close0", "close1"} /\ pc' \in {"close1", "wait", "read0"}
    BY <1>8 DEF CloseFrame, Both
  <2>3. (row' = row /\ col' = col) \/ (row' = row + 1 /\ col' = 0)
    BY <1>8 DEF CloseFrame
  <2>4. row' \in Nat /\ col' \in Nat
    BY <1>0, <2>3
  <2>5. ch' \in [Both -> Glyphs]
    <3>1. NL \in Glyphs /\ Unread \in Glyphs
      BY Sizes1 DEF Glyphs
    <3> QED
      BY <1>0, <2>1, <3>1
  <2> QED
    BY <2>1, <2>2, <2>4, <2>5 DEF FishInv
<1> QED
  BY <1>1, <1>2, <1>3, <1>4, <1>5, <1>6, <1>7, <1>8 DEF Fish, FishNext

NoFish ==
  /\ ch = [k \in Both |-> Unread] /\ row = 0 /\ col = 0 /\ waits = 0
  /\ blinks = <<>> /\ screen = <<>> /\ pc = "prompt"

LEMMA FishStart == NoFish => FishInv
<1> SUFFICES ASSUME NoFish PROVE FishInv
  OBVIOUS
<1> USE DEF NoFish
<1>1. ch \in [Both -> Glyphs]
  BY DEF Glyphs
<1>2. blinks \in Seq(Blinks) /\ Len(blinks) = 0 /\ DOMAIN screen = {}
  OBVIOUS
<1> QED
  BY <1>1, <1>2 DEF FishInv, WAIT

THEOREM FishNextInv == ASSUME ProgramInv, FishInv, [Next]_vars PROVE FishInv'
<1>1. CASE UNCHANGED <<fish, pc>>
  BY <1>1 DEF FishInv, fish
<1>2. CASE Fish
  BY <1>2, FishInvStep
<1>3. CASE Halt
  <2>1. NoFish'
    BY <1>3 DEF Halt, FishGone, NoFish
  <2> QED
    BY <2>1, FishStart, PTL
<1>4. CASE Shell \/ Grep \/ Cat \/ Ls \/ Other
  <2>1. UNCHANGED fish
    BY <1>4 DEF Shell, Grep, Cat, CatArgs, CatOpen, CatRead, Ls, OpenNames, List, Other, kept
  <2>2. pc \notin {"ioctl", "fishdone"} /\ pc' # "ioctl"
    <3>1. CASE Shell
      BY <3>1, ProgramsAssumption DEF Shell, Execute, Entry, ProgramsAssumption
    <3>2. CASE ~Shell
      BY <1>4, <3>2, GrepStays, CatStays, LsStays, OtherStays DEF Pcs
    <3> QED
      BY <3>1, <3>2
  <2> QED
    BY <2>1, <2>2 DEF FishInv, fish
<1> QED
  BY <1>1, <1>2, <1>3, <1>4 DEF Next, vars, fish

THEOREM SpecFish == Spec => []FishInv
<1>1. Init => FishInv
  BY FishStart DEF Init, Memory, FishMemory, NoFish
<1>2. ProgramInv /\ FishInv /\ [Next]_vars => FishInv'
  BY FishNextInv
<1> QED
  BY <1>1, <1>2, SpecProgram, PTL DEF Spec

(* Where a program can be: at the prompt, at a step of its own, or failed. *)
LEMMA Typed == ProgramInv /\ FishInv => TypeOK
<1> SUFFICES ASSUME ProgramInv, FishInv PROVE TypeOK
  OBVIOUS
<1>1. Fs!TypeOK
  BY SameProperties DEF ProgramInv, Fp!ReadInv, Fp!IInv
<1>2. GrepTypeOK
  BY DEF ProgramInv, BufferInv, GrepTypeOK, Bytes
<1>3. FishTypeOK
  <2>1. DOMAIN blinks = 1 .. Len(blinks) /\ \A k \in 1 .. Len(blinks) : blinks[k] \in Blinks
    BY DEF FishInv
  <2>2. \A k \in DOMAIN blinks : blinks[k].countdown \in 1 .. 15
    BY <2>1 DEF Blinks, Phase
  <2>3. \A k \in DOMAIN blinks : blinks[k].location \in DOMAIN screen
    BY <2>1 DEF FishInv
  <2> QED
    BY <2>2, <2>3 DEF FishInv, FishTypeOK
<1>4. pc \in {"prompt", "failed"} \cup UNION {Pcs[p] : p \in DOMAIN Pcs}
  <2>1. pc \notin {"prompt", "failed"} => \E e \in DOMAIN Executables : pc \in Pcs[Executables[e]]
    BY DEF ProgramInv, CommandInv, Started
  <2>2. \A e \in DOMAIN Executables : Executables[e] \in DOMAIN Pcs
    BY ProgramsAssumption DEF ProgramsAssumption, Pcs
  <2> QED
    BY <2>1, <2>2
<1> QED
  BY <1>1, <1>2, <1>3, <1>4 DEF TypeOK
-----------------------------------------------------------------------------
(* Every variable has its type; what blinks of fish lies on the screen.    *)
THEOREM TypeCorrect == Spec => []TypeOK
<1>1. ProgramInv /\ FishInv => TypeOK
  BY Typed
<1> QED
  BY <1>1, SpecProgram, SpecFish, PTL

(* Whatever programs run and end, an open descriptor reads as the type of  *)
(* its file says, and a free one starts at the beginning.                  *)
THEOREM DescriptorsCorrect == Spec => []DescriptorsMatch
<1>1. ProgramInv => DescriptorsMatch
  BY SameProperties DEF ProgramInv, Fp!ReadInv, Fp!IInv, DescriptorsMatch
<1> QED
  BY <1>1, SpecProgram, PTL

(* What a program has open is the file with exactly the name it asked for. *)
THEOREM OpenExact == Spec => []OpensNamed
<1>1. ProgramInv => OpensNamed
  BY SameProperties DEF ProgramInv, Fp!ReadInv, Fp!IInv, OpensNamed
<1> QED
  BY <1>1, SpecProgram, PTL

(* read stays within the buffer of the program, *)
THEOREM ReadsFit == Spec => []FitsBuffer
<1>1. ProgramInv => FitsBuffer
  BY SameProperties, FilesOK, Fp!Implied DEF ProgramInv, FitsBuffer
<1> QED
  BY <1>1, SpecProgram, PTL

(* gives the bytes of a file each once and in order, whatever the lengths, *)
THEOREM ReadsInOrder == Spec => []NothingSkipped
<1>1. ProgramInv => NothingSkipped
  BY SameProperties, FilesOK, Fp!Implied DEF ProgramInv, NothingSkipped
<1> QED
  BY <1>1, SpecProgram, PTL

(* and every name of a directory.                                          *)
THEOREM DirectoryShown == Spec => []DirectorySeen
<1>1. ProgramInv => DirectorySeen
  BY SameProperties, FilesOK, Fp!Implied DEF ProgramInv, DirectorySeen
<1> QED
  BY <1>1, SpecProgram, PTL

(* execute starts the program that the first word of the command names,    *)
(* and no other, for every command line.                                   *)
THEOREM CommandNames == Spec => []RunsNamed
<1>1. ProgramInv => RunsNamed
  BY CommandImplies DEF ProgramInv
<1> QED
  BY <1>1, SpecProgram, PTL

(* getargs gives the rest of the line as it was typed, if it fits.         *)
THEOREM ArgumentTyped == Spec => []ArgumentGiven
<1>1. ProgramInv => ArgumentGiven
  BY CommandImplies DEF ProgramInv
<1> QED
  BY <1>1, SpecProgram, PTL

(* grep asks for at least one byte, so that nothing read is the end of the *)
(* file and never a full buffer.                                           *)
THEOREM GrepReadsToTheEnd == Spec => []StopsAtEnd
<1>1. OutputInv => StopsAtEnd
  BY DEF OutputInv
<1> QED
  BY <1>1, SpecOutput, PTL

(* cat shows the whole file, for every length of a file, a block and the   *)
(* buffer.                                                                 *)
THEOREM CatShowsAll == Spec => []CatShowsFile
<1>1. ProgramInv /\ OutputInv => CatShowsFile
  BY Shows
<1> QED
  BY <1>1, SpecProgram, SpecOutput, PTL

(* ls shows every name whole, also where the directory is full.            *)
THEOREM LsShowsAll == Spec => []ListsDirectory
<1>1. ProgramInv /\ OutputInv => ListsDirectory
  BY Shows
<1> QED
  BY <1>1, SpecProgram, SpecOutput, PTL
=============================================================================
