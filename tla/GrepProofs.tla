----------------------------- MODULE GrepProofs -----------------------------
(***************************************************************************)
(* grep prints the lines that hold the pattern, and no others: theorems    *)
(* about Programs.tla.  The invariant says where in the files grep is, and *)
(* that the buffer holds what follows there; it begins with a line, or     *)
(* with the end of a line that filled the buffer.  Then what was printed   *)
(* so far are the lines that begin before that place.                      *)
(***************************************************************************)
EXTENDS ProgramsProofs, FiniteSetTheorems

-----------------------------------------------------------------------------
(***************************************************************************)
(* Lines of a file, and lines of the buffer.                               *)
(***************************************************************************)
LEMMA LineEnds ==
  ASSUME NEW i \in TextFiles, NEW s \in 0 .. Directory[i].length
  PROVE  /\ EndOf(i, s) \in s .. Directory[i].length
         /\ EndOf(i, s) = Directory[i].length \/ text[i][EndOf(i, s)] = NL
         /\ \A k \in s .. EndOf(i, s) - 1 : text[i][k] # NL
<1> DEFINE size == Directory[i].length
           S == {e \in s .. size : e = size \/ text[i][e] = NL}
<1>0. size \in Nat /\ s \in Nat /\ s <= size
  BY SizesOf
<1> HIDE DEF size
<1>1. S \in SUBSET Nat /\ size \in S
  BY <1>0
<1>2. Cmd!Min(S) \in S /\ \A e \in S : Cmd!Min(S) <= e
  BY <1>1, Least
<1>3. \A k \in s .. Cmd!Min(S) - 1 : text[i][k] # NL
  <2> SUFFICES ASSUME NEW k \in s .. Cmd!Min(S) - 1, text[i][k] = NL PROVE FALSE
    OBVIOUS
  <2>1. k \in S /\ k < Cmd!Min(S)
    BY <1>0, <1>2
  <2> QED
    BY <1>2, <2>1
<1> QED
  BY <1>2, <1>3 DEF EndOf, size

LEMMA BufferEnds ==
  ASSUME last \in Nat, line_start \in 0 .. last
  PROVE  /\ line_end \in line_start .. last
         /\ line_end = last \/ data[line_end] = NL
         /\ \A k \in line_start .. line_end - 1 : data[k] # NL
<1> DEFINE S == {e \in line_start .. last : e = last \/ data[e] = NL}
<1>1. S \in SUBSET Nat /\ last \in S
  OBVIOUS
<1>2. Cmd!Min(S) \in S /\ \A e \in S : Cmd!Min(S) <= e
  BY <1>1, Least
<1>3. \A k \in line_start .. Cmd!Min(S) - 1 : data[k] # NL
  <2> SUFFICES ASSUME NEW k \in line_start .. Cmd!Min(S) - 1, data[k] = NL PROVE FALSE
    OBVIOUS
  <2>1. k \in S /\ k < Cmd!Min(S)
    BY <1>2
  <2> QED
    BY <1>2, <2>1
<1> QED
  BY <1>2, <1>3 DEF line_end

LEMMA StringEndIs ==
  ASSUME NEW d, NEW from \in 0 .. BUFSIZE, NEW e \in from .. BUFSIZE,
         d[e] = NUL, \A k \in from .. e - 1 : d[k] # NUL
  PROVE  StringEnd(d, from) = e
<1>0. BUFSIZE \in Nat
  BY Sizes1
<1> DEFINE AtNul(x) == d[x] = NUL /\ \A k \in from .. x - 1 : d[k] # NUL
<1>1. StringEnd(d, from) \in from .. BUFSIZE /\ AtNul(StringEnd(d, from))
  BY DEF StringEnd
<1>2. ASSUME NEW x \in from .. BUFSIZE, AtNul(x) PROVE x = e
  <2>1. ~(x < e)
    BY <1>0, <1>2
  <2>2. ~(e < x)
    BY <1>0, <1>2
  <2> QED
    BY <1>0, <2>1, <2>2
<1> HIDE DEF AtNul
<1> QED
  BY <1>1, <1>2

(* The pattern is what getargs gave: not empty, and without a NUL.         *)
Pattern(s) == s \in Seq(STRING) /\ Len(s) > 0 /\ \A k \in 1 .. Len(s) : s[k] # NUL

LEMMA SearchIsPattern ==
  ASSUME CommandInv, args # Fresh, ~Refused PROVE Pattern(search)
<1> DEFINE a == Cmd!parse(command).argument
<1>1. Len(a) \in 1 .. args.asked /\ search = a
  BY ArgumentOf DEF search
<1>2. a \in Seq(STRING) /\ \A k \in 1 .. Len(a) : a[k] # NUL
  BY Parsed DEF CommandInv
<1> HIDE DEF a
<1> QED
  BY <1>1, <1>2 DEF Pattern

(* The search of a line in the buffer finds what the line holds, if it is  *)
(* searched to the end of the line and no further.                         *)
LEMMA HoldsThere ==
  ASSUME Pattern(search), NEW S, NEW line \in Seq(S)
  PROVE  Holds(line) <=> \E k \in 0 .. Len(line) - Len(search) :
                           \A j \in 1 .. Len(search) : line[k + j] = search[j]
<1> DEFINE n == Len(search)
<1>1. n \in Nat /\ n > 0 /\ Len(line) \in Nat /\ search \in Seq(STRING)
  BY DEF Pattern
<1>2. ASSUME NEW k \in 0 .. Len(line) - n
      PROVE  SubSeq(line, k + 1, k + n) = search <=> \A j \in 1 .. n : line[k + j] = search[j]
  <2> DEFINE sub == SubSeq(line, k + 1, k + n)
  <2>1. \A j \in k + 1 .. k + n : line[j] \in S
    <3> SUFFICES ASSUME NEW j \in k + 1 .. k + n PROVE line[j] \in S
      OBVIOUS
    <3>1. j \in 1 .. Len(line)
      BY <1>1
    <3> QED
      BY <3>1
  <2>2. k + n - (k + 1) + 1 = n /\ k + 1 \in Int /\ k + n \in Int /\ k + 1 <= k + n
    BY <1>1
  <2>3. \A j \in 1 .. n : k + 1 + j - 1 = k + j
    BY <1>1
  <2>4. sub \in Seq(S) /\ Len(sub) = n /\ \A j \in 1 .. n : sub[j] = line[k + j]
    BY <2>1, <2>2, <2>3, SubSeqProperties
  <2> HIDE DEF sub
  <2>5. sub = search <=> \A j \in 1 .. n : sub[j] = search[j]
    <3>1. ASSUME \A j \in 1 .. n : sub[j] = search[j] PROVE sub = search
      <4>1. sub = [j \in 1 .. n |-> sub[j]] /\ search = [j \in 1 .. n |-> search[j]]
        BY <1>1, <2>4
      <4> QED
        BY <3>1, <4>1
    <3> QED
      BY <3>1
  <2> QED
    BY <2>4, <2>5 DEF sub
<1> QED
  BY <1>2 DEF Holds

LEMMA FoundThere ==
  ASSUME Pattern(search), NEW S, NEW line \in Seq(S), NEW d,
         NEW from \in Nat, NEW to \in Nat, from + Len(line) <= to,
         \A k \in 1 .. Len(line) : d[from + k - 1] = line[k]
  PROVE  /\ Holds(line) => Matches(d, from, to)
         /\ to = from + Len(line) => (Matches(d, from, to) => Holds(line))
<1> DEFINE n == Len(search)
<1>1. n \in Nat /\ n > 0 /\ Len(line) \in Nat /\ DOMAIN search = 1 .. n
  BY DEF Pattern
<1>2. ASSUME Holds(line) PROVE Matches(d, from, to)
  <2>1. PICK k \in 0 .. Len(line) - n : \A j \in 1 .. n : line[k + j] = search[j]
    BY <1>2, HoldsThere
  <2>2. from + k \in from .. to - n
    BY <1>1
  <2>3. ASSUME NEW j \in 1 .. n PROVE d[from + k + j - 1] = search[j]
    <3>1. k + j \in 1 .. Len(line) /\ from + (k + j) - 1 = from + k + j - 1
      BY <1>1
    <3> QED
      BY <2>1, <3>1
  <2> QED
    BY <1>1, <2>2, <2>3 DEF Matches
<1>3. ASSUME to = from + Len(line), Matches(d, from, to) PROVE Holds(line)
  <2>1. PICK c \in from .. to - n : \A j \in 1 .. n : d[c + j - 1] = search[j]
    BY <1>1, <1>3 DEF Matches
  <2>2. c - from \in 0 .. Len(line) - n
    BY <1>1, <1>3
  <2>3. ASSUME NEW j \in 1 .. n PROVE line[(c - from) + j] = search[j]
    <3>1. (c - from) + j \in 1 .. Len(line) /\ from + ((c - from) + j) - 1 = c + j - 1
      BY <1>1, <1>3
    <3> QED
      BY <2>1, <3>1
  <2> QED
    BY <2>2, <2>3, HoldsThere
<1> QED
  BY <1>2, <1>3
-----------------------------------------------------------------------------
(***************************************************************************)
(* Places, and what was printed.                                           *)
(***************************************************************************)
Places == Nat \X Nat

LEMMA MatchedPlaces ==
  /\ IsFiniteSet(Matched) /\ Matched \subseteq Places
  /\ \A p \in Matched : /\ p[1] \in TextFiles /\ Plain(p[1])
                        /\ p[2] \in LineStarts(p[1]) /\ Holds(LineFrom(p[1], p[2]))
                        /\ p = <<p[1], p[2]>>
<1>1. TextFiles \subseteq 1 .. Len(Directory) /\ Len(Directory) \in Nat /\ Longest \in Nat
  BY SizesOf, Longer, Sizes1 DEF TextFiles, Fs!Indices
<1>2. IsFiniteSet(TextFiles \X (0 .. Longest))
  <2>1. IsFiniteSet(1 .. Len(Directory)) /\ IsFiniteSet(0 .. Longest)
    BY <1>1, FS_Interval
  <2>2. IsFiniteSet(TextFiles)
    BY <1>1, <2>1, FS_Subset
  <2> QED
    BY <2>1, <2>2, FS_Product
<1>3. Matched \subseteq TextFiles \X (0 .. Longest)
  BY DEF Matched
<1>4. IsFiniteSet(Matched)
  BY <1>2, <1>3, FS_Subset
<1>5. TextFiles \X (0 .. Longest) \subseteq Places
  <2>1. TextFiles \subseteq Nat /\ 0 .. Longest \subseteq Nat
    BY <1>1
  <2> QED
    BY <2>1 DEF Places
<1>6. \A p \in Matched : /\ p[1] \in TextFiles /\ Plain(p[1])
                         /\ p[2] \in LineStarts(p[1]) /\ Holds(LineFrom(p[1], p[2]))
                         /\ p = <<p[1], p[2]>>
  BY DEF Matched
<1> QED
  BY <1>3, <1>4, <1>5, <1>6

LEMMA Appended ==
  ASSUME NEW S, NEW out \in Seq(S), NEW x
  PROVE  /\ Append(out, x) \in Seq(S \cup {x}) /\ Len(Append(out, x)) = Len(out) + 1
         /\ \A k \in 1 .. Len(out) : Append(out, x)[k] = out[k]
         /\ Append(out, x)[Len(out) + 1] = x
<1>1. out \in Seq(S \cup {x}) /\ x \in S \cup {x}
  OBVIOUS
<1> QED
  BY <1>1, AppendProperties

(* What is printed later changes nothing before it. *)
LEMMA OrderKept ==
  ASSUME NEW T, NEW out \in Seq(T), NEW x, NEW S, InOrder(S, out)
  PROVE  InOrder(S, Append(out, x))
<1>1. PICK at \in [S -> DOMAIN out] :
             \A p, q \in S : out[at[p]] = Line(p) /\ (Before(p, q) => at[p] < at[q])
  BY DEF InOrder
<1>2. DOMAIN out = 1 .. Len(out) /\ Len(out) \in Nat
  OBVIOUS
<1>3. /\ DOMAIN Append(out, x) = 1 .. Len(out) + 1
      /\ \A k \in 1 .. Len(out) : Append(out, x)[k] = out[k]
  BY Appended
<1>4. at \in [S -> DOMAIN Append(out, x)]
  BY <1>2, <1>3
<1>5. \A p \in S : Append(out, x)[at[p]] = out[at[p]]
  BY <1>2, <1>3
<1> QED
  BY <1>1, <1>4, <1>5 DEF InOrder

LEMMA OrderGrows ==
  ASSUME NEW T, NEW out \in Seq(T), NEW S \in SUBSET Places, InOrder(S, out),
         NEW p \in Places, \A q \in S : Before(q, p)
  PROVE  p \notin S /\ InOrder(S \cup {p}, Append(out, Line(p)))
<1> DEFINE x == Line(p)
           n == Len(out) + 1
<1>1. PICK at \in [S -> DOMAIN out] :
             \A q, r \in S : out[at[q]] = Line(q) /\ (Before(q, r) => at[q] < at[r])
  BY DEF InOrder
<1>2. DOMAIN out = 1 .. Len(out) /\ Len(out) \in Nat
  OBVIOUS
<1> HIDE DEF x
<1>3. /\ DOMAIN Append(out, x) = 1 .. n
      /\ \A k \in 1 .. Len(out) : Append(out, x)[k] = out[k]
      /\ Append(out, x)[n] = x
  BY Appended
<1>4. /\ ~Before(p, p)
      /\ \A q \in S : ~Before(p, q)
  <2>1. /\ p[1] \in Nat /\ p[2] \in Nat
        /\ \A q \in S : q[1] \in Nat /\ q[2] \in Nat
    BY DEF Places
  <2> QED
    BY <2>1 DEF Before
<1>5. p \notin S
  BY <1>4
<1> DEFINE new == [q \in S \cup {p} |-> IF q = p THEN n ELSE at[q]]
<1>6. /\ new[p] = n
      /\ \A q \in S : new[q] = at[q] /\ at[q] \in 1 .. Len(out)
  BY <1>1, <1>2, <1>5
<1>7. new \in [S \cup {p} -> DOMAIN Append(out, x)]
  BY <1>2, <1>3, <1>6
<1> HIDE DEF new
<1>8. ASSUME NEW q \in S \cup {p}, NEW r \in S \cup {p}
      PROVE  Append(out, x)[new[q]] = Line(q) /\ (Before(q, r) => new[q] < new[r])
  <2>1. Append(out, x)[new[q]] = Line(q)
    BY <1>1, <1>3, <1>6 DEF x
  <2>2. ASSUME Before(q, r) PROVE new[q] < new[r]
    <3>1. q \in S
      BY <1>4, <2>2
    <3> QED
      BY <1>1, <1>2, <1>6, <2>2, <3>1
  <2> QED
    BY <2>1, <2>2
<1> QED
  BY <1>5, <1>7, <1>8 DEF InOrder, x
-----------------------------------------------------------------------------
(***************************************************************************)
(* Where grep is: the entry the directory gave last, and the byte of its   *)
(* file that the search goes on with.                                      *)
(***************************************************************************)
Searching == {"names", "open", "read", "line", "close", "exit"}
InFile == {"read", "line", "close"}

Current == file_position[dir]
Size == Directory[Current].length
Base == file_position[fd] - last
From == IF pc = "line" THEN line_start ELSE 0
Place == Base + From

Here ==
  IF pc \in {"names", "exit"} THEN <<Current + 1, 0>>
  ELSE IF pc \in InFile THEN <<Current, Place>>
  ELSE IF pc = "open" THEN <<Current, 0>>
  ELSE <<0, 0>>

Reached == {p \in Matched : Before(p, Here)}

(* Nothing is printed before the pattern is known. *)
StartInv ==
  /\ pc \in {"prompt", "getargs", "opendir"} => output = <<>>
  /\ pc \in Searching \cup {"opendir"} => args # Fresh /\ ~Refused
  /\ pc \in Pcs.grep => \E S : output \in Seq(S)

(* The file that is open has the name that the directory gave last. *)
DirInv ==
  /\ pc \in Searching =>
       dir \in flags /\ fops_table[dir] = "directory" /\ Current \in 0 .. Len(Directory)
  /\ pc \in InFile \cup {"open"} =>
       Current \in Fs!Indices /\ fname = Directory[Current].name /\ Directory[Current].type # "directory"
  /\ pc \in InFile => fd \in flags /\ fd # dir /\ entry[fd] = Current
  /\ pc = "exit" => Current = Len(Directory)

(* What lies in the buffer behind what was searched is what the file holds *)
(* there, and the NUL where it ends.                                       *)
BufferHolds ==
  \A k \in From .. last - 1 : Base + k <= Size => data[k] = Byte(Current, Base + k)

(* A line begins there, or one that just filled the buffer ends. *)
StartsLine == Place >= Size \/ Place \in LineStarts(Current) \/ text[Current][Place] = NL

TextInv ==
  pc \in InFile =>
    /\ pc = "close" => cnt = 0 /\ last = 0
    /\ Current \notin TextFiles => last = 0
    /\ Current \in TextFiles =>
         /\ last <= file_position[fd]
         /\ ~overread => file_position[fd] <= Size
         /\ pc = "line" => last = BUFSIZE \/ file_position[fd] >= Size
         /\ Plain(Current) /\ ~cutshort => BufferHolds /\ StartsLine

Exact == (\A i \in TextFiles : Plain(i)) /\ ~cutshort /\ ~overread

PrintInv ==
  pc \in Pcs.grep =>
    /\ ~cutshort => InOrder(Reached, output)
    /\ Exact => Len(output) = Cardinality(Reached)

-----------------------------------------------------------------------------
(* The steps of grep, in these terms.                                      *)
LEMMA NextEntry ==
  ASSUME ProgramInv, DirInv, NextName
  PROVE  /\ UNCHANGED <<flags, entry, fops_table, dir, text, args, output, overread, cutshort>>
         /\ \/ pc' = "exit" /\ Current = Len(Directory) /\ Current' = Current
            \/ /\ Current + 1 \in Fs!Indices /\ Current' = Current + 1
               /\ fname' = Directory[Current + 1].name
               /\ pc' = IF Directory[Current + 1].type = "directory" THEN "names" ELSE "open"
<1>0. /\ Fp!ReadInv /\ Fs!ReadDirectory(dir, MAX_FILENAME) /\ MAX_FILENAME \in Nat
      /\ Current \in 0 .. Len(Directory) /\ Len(Directory) \in 0 .. MAX_FILECOUNT /\ MAX_FILECOUNT \in Nat
  BY Sizes1 DEF ProgramInv, NextName, DirInv, Searching
<1>1. UNCHANGED <<flags, entry, fops_table, dir, text, args, output, overread, cutshort>>
  BY <1>0, DirectoryRead DEF NextName, image
<1>2. MAX_FILENAME > 0
  <2>1. PICK i \in TextFiles : TRUE
    BY GrepAssumption DEF GrepAssumption
  <2>2. Len(Directory[i].name) \in 1 .. MAX_FILENAME
    BY <2>1, SizesOf, GrepAssumption DEF GrepAssumption, Fs!FilesAssumption
  <2> QED
    BY <1>0, <2>2
<1>3. CASE file_position[dir] >= MAX_FILECOUNT
  <2>1. UNCHANGED files
    BY <1>0, <1>3, DirectoryRead
  <2> QED
    BY <1>0, <1>1, <1>3, <2>1 DEF NextName, Current, files
<1>4. CASE ~(file_position[dir] >= MAX_FILECOUNT) /\ answer'.got = <<>>
  <2>1. \/ file_position'[dir] = file_position[dir] /\ file_position[dir] = Len(Directory)
        \/ \E name \in Seq(STRING) : answer'.got = <<name>>
    BY <1>0, <1>2, <1>4, DirectoryRead
  <2>2. \A name : <<name>> # <<>>
    OBVIOUS
  <2> QED
    BY <1>1, <1>4, <2>1, <2>2 DEF NextName, Current
<1>5. CASE ~(file_position[dir] >= MAX_FILECOUNT \/ answer'.got = <<>>)
  <2>1. fname' = answer'.got[1] /\ pc' = IF fname'[1] = "." THEN "names" ELSE "open"
    BY <1>5 DEF NextName
  <2>2. PICK name \in Seq(STRING) :
               /\ file_position[dir] < Len(Directory)
               /\ answer'.got = <<name>> /\ file_position'[dir] = file_position[dir] + 1
               /\ Fp!IsPrefix(name, Directory[file_position[dir] + 1].name)
               /\ Len(name) = Fp!Min({MAX_FILENAME, Len(Directory[file_position[dir] + 1].name)})
    BY <1>0, <1>5, DirectoryRead
  <2>3. Current + 1 \in Fs!Indices
    BY <1>0, <2>2 DEF Fs!Indices, Current
  <2>4. fname' = Directory[Current + 1].name
    BY <2>1, <2>2, <2>3, PrefixOfName DEF Current
  <2>5. Directory[Current + 1].type = "directory" <=> fname'[1] = "."
    BY <2>3, <2>4, GrepAssumption DEF GrepAssumption
  <2>6. Current' = Current + 1
    BY <1>1, <2>2 DEF Current
  <2> QED
    BY <1>1, <2>1, <2>3, <2>4, <2>5, <2>6
<1> QED
  BY <1>3, <1>4, <1>5

LEMMA OpenedDir ==
  ASSUME ProgramInv, OpenDir
  PROVE  /\ dir' \in flags' /\ fops_table'[dir'] = "directory" /\ file_position'[dir'] = 0
         /\ pc' = "names" /\ UNCHANGED <<args, output>>
<1>1. Fp!ReadInv /\ Fs!Open(<<".">>) /\ Fp!IsName(<<".">>) /\ dir' = Fs!LowestFree
  BY SomeNames DEF ProgramInv, OpenDir
<1>2. /\ dir' \in flags' /\ file_position'[dir'] = 0
      /\ entry'[dir'] \in Fs!Indices /\ Directory[entry'[dir']].name = <<".">>
      /\ fops_table'[dir'] = Directory[entry'[dir']].type
  BY <1>1, Opened
<1>3. Directory[entry'[dir']].type = "directory"
  <2>1. <<".">>[1] = "."
    OBVIOUS
  <2> QED
    BY <1>2, <2>1, GrepAssumption DEF GrepAssumption
<1> QED
  BY <1>2, <1>3 DEF OpenDir

LEMMA OpenedFile ==
  ASSUME ProgramInv, DirInv, OpenFile
  PROVE  /\ fd' \in flags' /\ fd' # dir /\ entry'[fd'] = Current /\ file_position'[fd'] = 0
         /\ dir' = dir /\ dir \in flags' /\ fops_table'[dir] = "directory" /\ Current' = Current
         /\ last' = 0 /\ pc' = "read"
         /\ UNCHANGED <<text, args, fname, output, overread, cutshort>>
<1>1. Fp!ReadInv /\ Fs!Open(fname) /\ Fp!IsName(fname) /\ fd' = Fs!LowestFree
  BY DEF ProgramInv, OpenFile
<1>2. /\ fd' \in flags' /\ file_position'[fd'] = 0
      /\ entry'[fd'] \in Fs!Indices /\ Directory[entry'[fd']].name = fname
  BY <1>1, Opened
<1>3. /\ pc = "open" /\ dir \in flags /\ fops_table[dir] = "directory"
      /\ Current \in Fs!Indices /\ fname = Directory[Current].name
  BY DEF OpenFile, DirInv, Searching
<1>4. entry'[fd'] = Current
  BY <1>2, <1>3, FilesOK, SameConstants DEF Fp!FilesAssumption
<1>5. fd' \notin flags
  BY <1>1, FilesOK, SameConstants, SameLowest, Fp!LowestFreeFound DEF Fp!ReadInv, Fp!IInv, Fs!Open
<1>6. /\ flags' = flags \cup {fd'} /\ file_position' = file_position
      /\ fops_table' = [fops_table EXCEPT ![fd'] = Directory[Fs!read_dentry_by_name(fname)].type]
  BY <1>1 DEF Fs!Open
<1>7. dir \in DOMAIN fops_table
  BY <1>1, <1>3, Positions
<1>8. dir' = dir /\ last' = 0 /\ pc' = "read" /\ UNCHANGED <<text, args, fname, output, overread, cutshort>>
  BY DEF OpenFile, image
<1>9. fd' # dir
  BY <1>3, <1>5
<1>10. fops_table'[dir] = fops_table[dir] /\ Current' = Current
  BY <1>6, <1>7, <1>8, <1>9 DEF Current
<1> QED
  BY <1>2, <1>3, <1>4, <1>6, <1>8, <1>9, <1>10

(* A read puts what follows in the file, and counts it. *)
LEMMA GrepRead ==
  ASSUME ProgramInv, ProgramInv', DirInv, Read
  PROVE  LET got == answer'.got
             pos == file_position[fd]
         IN /\ UNCHANGED <<flags, entry, fops_table, text, args, dir, fd, fname, output, cutshort>>
            /\ Current' = Current /\ pc' = "line" /\ line_start' = 0
            /\ Len(got) \in 0 .. BUFSIZE - last /\ cnt' = Len(got) /\ last' = last + Len(got)
            /\ Current \notin TextFiles => got = <<>>
            /\ Current \in TextFiles =>
                 /\ pos \in Nat /\ file_position'[fd] = pos + Len(got)
                 /\ \A j \in 1 .. Len(got) : got[j] = pos + j - 1
                 /\ Len(got) = BUFSIZE - last \/ file_position'[fd] >= Size
<1> DEFINE got == answer'.got
           pos == file_position[fd]
<1>1. /\ Fp!ReadInv /\ BUFSIZE \in Nat /\ last \in 0 .. BUFSIZE /\ Room = BUFSIZE - last /\ Room \in Nat
      /\ pc = "read"
  BY Sizes1 DEF ProgramInv, BufferInv, Room, Read
<1>2. dir \in flags /\ fd \in flags /\ fd # dir /\ entry[fd] = Current
  BY <1>1 DEF DirInv, Searching, InFile
<1>3. UNCHANGED <<text, args, dir, fd, fname, output, cutshort>> /\ pc' = "line" /\ line_start' = 0
      /\ cnt' = Len(got) /\ last' = last + cnt'
  BY DEF Read, image
<1>4. CASE Fs!ReadFile(fd, Room)
  <2>1. /\ UNCHANGED <<flags, entry, fops_table, named>> /\ entry[fd] \in TextFiles
        /\ fops_table[fd] = "file"
        /\ got \in Seq(Nat) /\ Len(got) <= Room
        /\ Len(got) = Room \/ file_position'[fd] >= Directory[entry[fd]].length
        /\ seen[fd] \in Seq(Nat) /\ seen'[fd] = seen[fd] \o got
    BY <1>1, <1>4, FileRead
  <2>2. file_position' = [file_position EXCEPT ![fd] = pos + Len(Fs!read_data(Directory[entry[fd]].length, pos, Room))]
    BY <1>4 DEF Fs!ReadFile, Fs!Advance
  <2>3. Current' = Current
    BY <1>1, <1>2, <1>3, <2>2, Positions DEF Current
  <2>4. /\ pos \in Nat /\ file_position'[fd] = pos + Len(got)
        /\ \A j \in 1 .. Len(got) : got[j] = pos + j - 1
    <3>1. Fp!ReadInv'
      BY DEF ProgramInv
    <3> QED
      BY <1>1, <1>4, <3>1, BytesRead
  <2> HIDE DEF got, pos
  <2>5. Len(got) \in 0 .. BUFSIZE - last
    <3>1. Len(got) \in Nat
      BY <2>1
    <3> QED
      BY <1>1, <2>1, <3>1
  <2> QED
    BY <1>1, <1>2, <1>3, <2>1, <2>3, <2>4, <2>5 DEF got, pos, Size
<1>5. CASE Fs!ReadClock(fd, Room)
  <2>1. entry[fd] \notin TextFiles /\ got = <<>> /\ UNCHANGED <<flags, entry, fops_table, named>>
    BY <1>1, <1>5, ClockRead
  <2>2. UNCHANGED file_position
    BY <1>5 DEF Fs!ReadClock
  <2>3. Len(got) = 0
    BY <2>1
  <2>4. 0 \in 0 .. BUFSIZE - last
    BY <1>1
  <2> QED
    BY <1>2, <1>3, <2>1, <2>2, <2>3, <2>4 DEF Current
<1> QED
  BY <1>4, <1>5 DEF Read

LEMMA ClosedFile ==
  ASSUME ProgramInv, DirInv, CloseFile
  PROVE  /\ dir' = dir /\ dir \in flags' /\ fops_table' = fops_table /\ Current' = Current
         /\ pc' = "names" /\ pc = "close"
         /\ UNCHANGED <<text, args, output, overread, cutshort>>
<1>1. Fp!ReadInv /\ Fs!Close(fd) /\ pc = "close"
  BY DEF ProgramInv, CloseFile
<1>2. dir \in flags /\ fd # dir
  BY <1>1 DEF DirInv, Searching, InFile
<1>3. flags' = flags \ {fd} /\ fops_table' = fops_table /\ file_position' = [file_position EXCEPT ![fd] = 0]
  BY <1>1 DEF Fs!Close, Fs!ResetPosition
<1>4. dir' = dir /\ pc' = "names" /\ UNCHANGED <<text, args, output, overread, cutshort>>
  BY DEF CloseFile, image
<1> QED
  BY <1>1, <1>2, <1>3, <1>4, Positions DEF Current

LEMMA LineKeeps ==
  ASSUME MoveDown \/ SearchLine
  PROVE  /\ UNCHANGED <<files, text, args, dir, fd, fname, cnt, overread>>
         /\ Current' = Current /\ Size' = Size /\ pc = "line"
BY DEF MoveDown, SearchLine, image, files, Current, Size

LEMMA GrepDir ==
  ASSUME ProgramInv, ProgramInv', DirInv, Grep PROVE DirInv'
<1>0. Len(Directory) \in Nat /\ Fs!Indices = 1 .. Len(Directory)
  BY Sizes1 DEF Fs!Indices
<1>1. CASE GetSearch
  <2>1. pc' \in {"failed", "opendir"}
    BY <1>1 DEF GetSearch
  <2> QED
    BY <2>1 DEF DirInv, Searching, InFile
<1>2. CASE OpenDir
  BY <1>0, <1>2, OpenedDir DEF DirInv, InFile, Current
<1>3. CASE NextName
  <2>1. /\ UNCHANGED <<flags, entry, fops_table, dir>>
        /\ dir \in flags /\ fops_table[dir] = "directory" /\ Current \in 0 .. Len(Directory)
    BY <1>3, NextEntry DEF DirInv, Searching, NextName
  <2> QED
    BY <1>0, <1>3, <2>1, NextEntry DEF DirInv, Searching, InFile
<1>4. CASE OpenFile
  <2>1. Current \in Fs!Indices /\ fname = Directory[Current].name /\ Directory[Current].type # "directory"
    BY <1>4 DEF OpenFile, DirInv
  <2> QED
    BY <1>0, <1>4, <2>1, OpenedFile DEF DirInv, InFile
<1>5. CASE Read
  <2>1. pc = "read"
    BY <1>5 DEF Read
  <2> QED
    BY <1>5, <2>1, GrepRead DEF DirInv, Searching, InFile
<1>6. CASE MoveDown \/ SearchLine
  <2>1. pc' \in InFile
    BY <1>6 DEF MoveDown, SearchLine, InFile
  <2> QED
    BY <1>6, <2>1, LineKeeps DEF DirInv, Searching, InFile, files
<1>7. CASE CloseFile
  BY <1>7, ClosedFile DEF DirInv, Searching, InFile
<1> QED
  BY <1>1, <1>2, <1>3, <1>4, <1>5, <1>6, <1>7 DEF Grep, GrepNext
-----------------------------------------------------------------------------
(***************************************************************************)
(* The line in the buffer is the line of the file.                         *)
(***************************************************************************)
LEMMA BytesOf ==
  ASSUME ProgramInv, NEW i \in TextFiles
  PROVE  /\ \A k \in Nat : k < Directory[i].length => Byte(i, k) = text[i][k] /\ text[i][k] \in Bytes
         /\ Byte(i, Directory[i].length) = NUL
         /\ Plain(i) => \A k \in Nat : k < Directory[i].length => text[i][k] # NUL
<1>1. Directory[i].length \in Nat /\ Directory[i].length <= Longest /\ Longest \in Nat
  BY SizesOf
<1>2. text[i] \in [0 .. Longest - 1 -> Bytes]
  BY DEF ProgramInv, BufferInv
<1>3. \A k \in Nat : k < Directory[i].length => Byte(i, k) = text[i][k] /\ text[i][k] \in Bytes
  BY <1>1, <1>2 DEF Byte
<1>4. Byte(i, Directory[i].length) = NUL
  BY <1>1 DEF Byte
<1>5. Plain(i) => \A k \in Nat : k < Directory[i].length => text[i][k] # NUL
  BY <1>1 DEF Plain
<1> QED
  BY <1>3, <1>4, <1>5

LEMMA LineFromIs ==
  ASSUME ProgramInv, NEW i \in TextFiles, NEW s \in Nat, s < Directory[i].length
  PROVE  /\ LineFrom(i, s) \in Seq(Bytes) /\ Len(LineFrom(i, s)) = EndOf(i, s) - s
         /\ \A k \in 1 .. EndOf(i, s) - s : LineFrom(i, s)[k] = text[i][s + k - 1]
<1> DEFINE e == EndOf(i, s)
<1>1. Directory[i].length \in Nat /\ s \in 0 .. Directory[i].length
  BY SizesOf
<1>2. e \in s .. Directory[i].length
  BY <1>1, LineEnds
<1>3. LineFrom(i, s) = [k \in 1 .. e - s |-> text[i][s + k - 1]]
  BY DEF LineFrom
<1> HIDE DEF e
<1>4. e - s \in Nat
  BY <1>1, <1>2
<1>5. \A k \in 1 .. e - s : text[i][s + k - 1] \in Bytes
  <2> SUFFICES ASSUME NEW k \in 1 .. e - s PROVE text[i][s + k - 1] \in Bytes
    OBVIOUS
  <2>1. s + k - 1 \in Nat /\ s + k - 1 < Directory[i].length
    BY <1>1, <1>2
  <2> QED
    BY <2>1, BytesOf
<1> QED
  BY <1>3, <1>4, <1>5 DEF e

(* What holds whenever a line is looked at. *)
LEMMA AtLine ==
  ASSUME ProgramInv, DirInv, TextInv, pc = "line", Current \in TextFiles
  PROVE  /\ BUFSIZE \in Nat /\ last \in Nat /\ last <= BUFSIZE
         /\ line_start \in Nat /\ line_start <= last
         /\ line_end \in Nat /\ line_start <= line_end /\ line_end <= last
         /\ line_end = last \/ data[line_end] = NL
         /\ \A k \in Nat : line_start <= k /\ k < line_end => data[k] # NL
         /\ Size \in Nat /\ Base \in Nat /\ From = line_start /\ Place = Base + line_start /\ Place \in Nat
         /\ file_position[fd] = Base + last
         /\ Terminated \in [0 .. BUFSIZE -> Bytes] /\ Terminated[line_end] = NUL
         /\ \A k \in Nat : k <= BUFSIZE /\ k # line_end => Terminated[k] = data[k]
<1>1. /\ BUFSIZE \in Nat /\ last \in 0 .. BUFSIZE /\ line_start \in 0 .. last
      /\ data \in [0 .. BUFSIZE -> Bytes]
  BY Sizes1 DEF ProgramInv, BufferInv
<1>2. fd \in flags /\ last <= file_position[fd]
  BY DEF DirInv, TextInv, InFile
<1>3. file_position[fd] \in Nat /\ Size \in Nat
  BY <1>2, Positions, SizesOf DEF ProgramInv, Size
<1>4. /\ line_end \in line_start .. last
      /\ line_end = last \/ data[line_end] = NL
      /\ \A k \in line_start .. line_end - 1 : data[k] # NL
  BY <1>1, BufferEnds
<1> DEFINE e == line_end
<1>5. Terminated = [data EXCEPT ![e] = NUL]
  BY DEF Terminated
<1> HIDE DEF e
<1>6. e \in 0 .. BUFSIZE /\ NUL \in Bytes
  BY <1>1, <1>4, Sizes1 DEF e
<1>7. /\ Terminated \in [0 .. BUFSIZE -> Bytes] /\ Terminated[e] = NUL
      /\ \A k \in 0 .. BUFSIZE : k # e => Terminated[k] = data[k]
  BY <1>1, <1>5, <1>6
<1>8. Base \in Nat /\ From = line_start /\ Place = Base + line_start /\ Place \in Nat
      /\ file_position[fd] = Base + last
  BY <1>1, <1>2, <1>3 DEF Base, From, Place
<1>9. /\ last \in Nat /\ last <= BUFSIZE /\ line_start \in Nat /\ line_start <= last
      /\ e \in Nat /\ line_start <= e /\ e <= last
      /\ \A k \in Nat : line_start <= k /\ k < e => data[k] # NL
  BY <1>1, <1>4 DEF e
<1>10. \A k \in Nat : k <= BUFSIZE /\ k # e => Terminated[k] = data[k]
  BY <1>1, <1>7
<1> QED
  BY <1>1, <1>3, <1>4, <1>7, <1>8, <1>9, <1>10 DEF e

LEMMA BufferIs ==
  ASSUME ProgramInv, DirInv, TextInv, pc = "line", Current \in TextFiles, BufferHolds
  PROVE  /\ \A k \in Nat : line_start <= k /\ k < last /\ Base + k < Size => data[k] = text[Current][Base + k]
         /\ \A k \in Nat : line_start <= k /\ k < last /\ Base + k = Size => data[k] = NUL
<1>1. /\ last \in Nat /\ line_start \in Nat /\ From = line_start /\ Size \in Nat /\ Base \in Nat
  BY AtLine
<1>2. /\ \A k \in Nat : k < Size => Byte(Current, k) = text[Current][k]
      /\ Byte(Current, Size) = NUL
  BY BytesOf DEF Size
<1>3. ASSUME NEW k \in Nat, line_start <= k, k < last, Base + k <= Size
      PROVE  data[k] = Byte(Current, Base + k)
  <2>1. k \in From .. last - 1
    BY <1>1, <1>3
  <2> QED
    BY <1>3, <2>1 DEF BufferHolds
<1>4. ASSUME NEW k \in Nat, line_start <= k, k < last, Base + k < Size
      PROVE  data[k] = text[Current][Base + k]
  <2>1. Base + k <= Size /\ Base + k \in Nat
    BY <1>1, <1>4
  <2> QED
    BY <1>2, <1>3, <1>4, <2>1
<1>5. ASSUME NEW k \in Nat, line_start <= k, k < last, Base + k = Size
      PROVE  data[k] = NUL
  <2>1. Base + k <= Size
    BY <1>1, <1>5
  <2> QED
    BY <1>2, <1>3, <1>5, <2>1
<1> QED
  BY <1>4, <1>5

(* grep looks at the whole line that begins there, and only where padding  *)
(* was read at more.                                                       *)
LEMMA LineThere ==
  ASSUME ProgramInv, DirInv, TextInv, StopsAtEnd, pc = "line", Current \in TextFiles,
         Plain(Current), BufferHolds, StartsLine, Place < Size,
         ~Unfinished, ~(line_end = BUFSIZE /\ data[BUFSIZE] = NL)
  PROVE  LET e == EndOf(Current, Place)
         IN /\ e \in Nat /\ Place <= e /\ e <= Size /\ e <= Base + line_end
            /\ e = Size \/ (e = Base + line_end /\ text[Current][e] = NL)
            /\ \A k \in Nat : Place <= k /\ k < e => text[Current][k] # NL
            /\ Terminated[e - Base] = NUL
            /\ \A k \in Nat : line_start <= k /\ k < e - Base =>
                 Terminated[k] = text[Current][Base + k] /\ Terminated[k] # NUL
            /\ ~overread => e = Base + line_end
            /\ Len(LineFrom(Current, Place)) = e - Place
<1> DEFINE b == Base
           s == Place
           e == EndOf(Current, Place)
           T == text[Current]
<1>1. /\ BUFSIZE \in Nat /\ last \in Nat /\ last <= BUFSIZE
      /\ line_start \in Nat /\ line_start <= last
      /\ line_end \in Nat /\ line_start <= line_end /\ line_end <= last
      /\ line_end = last \/ data[line_end] = NL
      /\ \A k \in Nat : line_start <= k /\ k < line_end => data[k] # NL
      /\ Size \in Nat /\ b \in Nat /\ s = b + line_start /\ s \in Nat
      /\ file_position[fd] = b + last
      /\ Terminated[line_end] = NUL
      /\ \A k \in Nat : k <= BUFSIZE /\ k # line_end => Terminated[k] = data[k]
  BY AtLine
<1>2. s \in 0 .. Directory[Current].length
  BY <1>1 DEF Size
<1>3. /\ e \in s .. Size
      /\ e = Size \/ T[e] = NL
      /\ \A k \in s .. e - 1 : T[k] # NL
  BY <1>2, LineEnds DEF Size
<1>4. /\ e \in Nat /\ s <= e /\ e <= Size
      /\ \A k \in Nat : s <= k /\ k < e => T[k] # NL
  BY <1>1, <1>3
<1>5. /\ \A k \in Nat : line_start <= k /\ k < last /\ b + k < Size => data[k] = T[b + k]
      /\ \A k \in Nat : line_start <= k /\ k < last /\ b + k = Size => data[k] = NUL
  BY BufferIs
<1>6. Len(LineFrom(Current, s)) = e - s
  BY <1>1, LineFromIs DEF Size
<1>7. s \in LineStarts(Current) \/ T[s] = NL
  BY <1>1 DEF StartsLine
<1>8. s \in LineStarts(Current) => e - s <= BUFSIZE
  BY <1>6 DEF Plain
<1>9. cnt = 0 => b + last >= Size
  <2>1. entry[fd] = Current
    BY DEF DirInv, InFile
  <2> QED
    BY <1>1, <2>1 DEF StopsAtEnd, Size
<1>10. last = BUFSIZE \/ b + last >= Size
  BY <1>1 DEF TextInv, InFile
<1>11. ~overread => b + last <= Size
  BY <1>1 DEF TextInv, InFile
<1>12. data[line_end] = NL \/ cnt = 0 \/ line_start = 0
  BY DEF Unfinished
<1> HIDE DEF b, s, e, T
<1>13. e <= b + line_end
  <2> SUFFICES ASSUME b + line_end < e PROVE FALSE
    BY <1>1, <1>4
  <2>1. b + line_end < Size /\ s <= b + line_end /\ T[b + line_end] # NL
    BY <1>1, <1>4
  <2>2. line_end = last
    BY <1>1, <1>5, <2>1
  <2>3. last = BUFSIZE /\ cnt # 0 /\ data[line_end] # NL
    BY <1>1, <1>9, <1>10, <2>1, <2>2
  <2>4. line_start = 0 /\ s = b
    BY <1>1, <1>12, <2>3
  <2>5. T[s] # NL
    BY <1>1, <1>4, <2>1
  <2>6. e - s <= BUFSIZE
    BY <1>7, <1>8, <2>5
  <2> QED
    BY <1>1, <1>4, <2>2, <2>3, <2>4, <2>6
<1>14. e = Size \/ (e = b + line_end /\ T[e] = NL)
  <2> SUFFICES ASSUME e < Size, e < b + line_end PROVE FALSE
    BY <1>1, <1>3, <1>4, <1>13
  <2>1. e - b \in Nat /\ line_start <= e - b /\ e - b < line_end /\ e - b < last /\ b + (e - b) = e
    BY <1>1, <1>4
  <2>2. data[e - b] = T[e] /\ data[e - b] # NL
    BY <1>1, <1>5, <2>1
  <2> QED
    BY <1>3, <2>2
<1>15. e - b \in Nat /\ e - b <= line_end /\ line_start <= e - b /\ b + (e - b) = e
  BY <1>1, <1>4, <1>13
<1>16. Terminated[e - b] = NUL
  <2>1. CASE e = b + line_end
    <3>1. e - b = line_end
      BY <1>1, <1>4, <2>1
    <3> QED
      BY <1>1, <3>1
  <2>2. CASE e # b + line_end
    <3>1. e = Size /\ e - b < line_end /\ e - b < last /\ e - b <= BUFSIZE /\ e - b # line_end
      BY <1>1, <1>14, <1>15, <2>2
    <3>2. data[e - b] = NUL
      BY <1>5, <1>15, <3>1
    <3> QED
      BY <1>1, <1>15, <3>1, <3>2
  <2> QED
    BY <2>1, <2>2
<1>17. ASSUME NEW k \in Nat, line_start <= k, k < e - b PROVE Terminated[k] = T[b + k] /\ Terminated[k] # NUL
  <2>1. k < line_end /\ k < last /\ k <= BUFSIZE /\ k # line_end /\ b + k < Size /\ b + k \in Nat
    BY <1>1, <1>4, <1>15, <1>17
  <2>2. Terminated[k] = data[k] /\ data[k] = T[b + k]
    BY <1>1, <1>5, <1>17, <2>1
  <2>3. T[b + k] # NUL
    BY <2>1, BytesOf DEF T, Size
  <2> QED
    BY <2>2, <2>3
<1>18. ~overread => e = b + line_end
  BY <1>1, <1>4, <1>11, <1>13, <1>14
<1> QED
  BY <1>4, <1>6, <1>13, <1>14, <1>16, <1>17, <1>18 DEF b, s, e, T

(* What it prints is the line. *)
LEMMA LinePrinted ==
  ASSUME ProgramInv, DirInv, StartInv, TextInv, StopsAtEnd, pc = "line", Current \in TextFiles,
         Plain(Current), BufferHolds, StartsLine, Place < Size,
         ~Unfinished, ~(line_end = BUFSIZE /\ data[BUFSIZE] = NL)
  PROVE  LET line == LineFrom(Current, Place)
         IN /\ Holds(line) => Matches(Terminated, line_start, line_end)
            /\ ~overread => (Matches(Terminated, line_start, line_end) => Holds(line))
            /\ String(Terminated, line_start) = line
            /\ [file |-> fname, line |-> line] = Line(<<Current, Place>>)
            /\ Holds(line) => EndOf(Current, Place) # Place
<1> DEFINE b == Base
           s == Place
           e == EndOf(Current, Place)
           T == text[Current]
           line == LineFrom(Current, Place)
<1>1. /\ e \in Nat /\ s <= e /\ e <= b + line_end
      /\ Terminated[e - b] = NUL
      /\ \A k \in Nat : line_start <= k /\ k < e - b => Terminated[k] = T[b + k] /\ Terminated[k] # NUL
      /\ ~overread => e = b + line_end
  BY LineThere
<1>2. /\ BUFSIZE \in Nat /\ line_start \in Nat /\ line_end \in Nat /\ line_end <= last /\ last <= BUFSIZE
      /\ last \in Nat /\ b \in Nat /\ s = b + line_start /\ s \in Nat
  BY AtLine
<1>3. /\ line \in Seq(Bytes) /\ Len(line) = e - s
      /\ \A k \in 1 .. e - s : line[k] = T[s + k - 1]
      /\ line = [k \in 1 .. e - s |-> T[s + k - 1]]
  BY <1>2, LineFromIs DEF Size, LineFrom
<1>4. Pattern(search)
  BY SearchIsPattern DEF ProgramInv, StartInv, Searching
<1>5. fname = Directory[Current].name
  BY DEF DirInv, InFile
<1> HIDE DEF b, s, e, T
<1>6. \A k \in 1 .. e - s : Terminated[line_start + k - 1] = T[s + k - 1]
  <2> SUFFICES ASSUME NEW k \in 1 .. e - s PROVE Terminated[line_start + k - 1] = T[s + k - 1]
    OBVIOUS
  <2>1. line_start + k - 1 \in Nat /\ line_start <= line_start + k - 1 /\ line_start + k - 1 < e - b
        /\ b + (line_start + k - 1) = s + k - 1
    BY <1>1, <1>2
  <2> QED
    BY <1>1, <2>1
<1>7. StringEnd(Terminated, line_start) = e - b
  <2>1. line_start \in 0 .. BUFSIZE /\ e - b \in line_start .. BUFSIZE
    BY <1>1, <1>2
  <2>2. \A k \in line_start .. e - b - 1 : Terminated[k] # NUL
    BY <1>1, <1>2
  <2> QED
    BY <1>1, <2>1, <2>2, StringEndIs
<1>8. String(Terminated, line_start) = line
  <2>1. String(Terminated, line_start) = [k \in 1 .. (e - b) - line_start |-> Terminated[line_start + k - 1]]
    BY <1>7 DEF String
  <2>2. (e - b) - line_start = e - s
    BY <1>1, <1>2
  <2> HIDE DEF line
  <2>3. [k \in 1 .. e - s |-> Terminated[line_start + k - 1]] = [k \in 1 .. e - s |-> T[s + k - 1]]
    BY <1>6
  <2> QED
    BY <1>3, <2>1, <2>2, <2>3
<1>9. /\ line_start + Len(line) <= line_end
      /\ ~overread => line_end = line_start + Len(line)
  BY <1>1, <1>2, <1>3
<1>10. \A k \in 1 .. Len(line) : Terminated[line_start + k - 1] = line[k]
  BY <1>3, <1>6
<1> HIDE DEF line
<1>11. /\ Holds(line) => Matches(Terminated, line_start, line_end)
       /\ ~overread => (Matches(Terminated, line_start, line_end) => Holds(line))
  BY <1>2, <1>3, <1>4, <1>9, <1>10, FoundThere
<1>12. ASSUME Holds(line) PROVE e # s
  <2>1. PICK k \in 0 .. Len(line) - Len(search) : TRUE
    BY <1>12 DEF Holds
  <2>2. Len(search) \in Nat /\ Len(search) > 0
    BY <1>4 DEF Pattern
  <2> QED
    BY <1>1, <1>2, <1>3, <2>1, <2>2
<1>13. [file |-> fname, line |-> line] = Line(<<Current, Place>>)
  BY <1>5 DEF Line, line
<1> QED
  BY <1>8, <1>11, <1>12, <1>13 DEF line, e, s

(* Where the next line begins. *)
LEMMA NextPlace ==
  ASSUME ProgramInv, DirInv, TextInv, SearchLine, Current \in TextFiles
  PROVE  /\ Place' \in Nat /\ Place' >= Place
         /\ Place' = Base + line_end + 1 \/ (Place' = Base + line_end /\ line_end = last)
         /\ pc' \in InFile
         /\ IF line_end + 1 < last
            THEN pc' = "line" /\ last' = last /\ From' = line_end + 1 /\ Base' = Base
            ELSE pc' # "line" /\ last' = 0 /\ From' = 0
<1>1. /\ last \in Nat /\ line_start \in Nat /\ line_end \in Nat /\ line_start <= line_end /\ line_end <= last
      /\ Base \in Nat /\ Place = Base + line_start /\ file_position[fd] = Base + last
  BY AtLine DEF SearchLine
<1>2. file_position' = file_position /\ fd' = fd /\ pc = "line" /\ line_start' = line_end + 1
  BY DEF SearchLine, files
<1>3. CASE line_end + 1 < last
  <2>1. last' = last /\ pc' = "line"
    BY <1>2, <1>3 DEF SearchLine
  <2>2. Base' = Base /\ From' = line_end + 1 /\ Place' = Base + (line_end + 1)
    BY <1>2, <2>1 DEF Base, From, Place
  <2> QED
    BY <1>1, <1>3, <2>1, <2>2 DEF InFile
<1>4. CASE ~(line_end + 1 < last)
  <2>1. last' = 0 /\ pc' \in {"close", "read"}
    BY <1>4 DEF SearchLine
  <2>2. Place' = file_position[fd] - 0 + 0 /\ From' = 0
    BY <1>2, <2>1 DEF Base, From, Place
  <2>3. Place' = Base + last
    BY <1>1, <2>2
  <2>4. last = line_end \/ last = line_end + 1
    BY <1>1, <1>4
  <2> QED
    BY <1>1, <1>4, <2>1, <2>2, <2>3, <2>4 DEF InFile
<1> QED
  BY <1>3, <1>4

LEMMA StartsNext ==
  ASSUME ProgramInv, DirInv, TextInv, StopsAtEnd, SearchLine, Current \in TextFiles,
         Plain(Current), BufferHolds, StartsLine, ~cutshort'
  PROVE  StartsLine' /\ BufferHolds'
<1>1. /\ Current' = Current /\ Size' = Size /\ text' = text /\ pc = "line" /\ ~Unfinished
      /\ data' = Terminated /\ ~(line_end = BUFSIZE /\ data[BUFSIZE] = NL)
  BY LineKeeps DEF SearchLine
<1>2. /\ last \in Nat /\ line_start \in Nat /\ line_end \in Nat /\ line_start <= line_end /\ line_end <= last
      /\ last <= BUFSIZE /\ BUFSIZE \in Nat
      /\ Base \in Nat /\ Place = Base + line_start /\ Place \in Nat /\ Size \in Nat /\ From = line_start
      /\ \A k \in Nat : k <= BUFSIZE /\ k # line_end => Terminated[k] = data[k]
  BY <1>1, AtLine
<1>3. /\ Place' \in Nat /\ Place' >= Place
      /\ Place' = Base + line_end + 1 \/ (Place' = Base + line_end /\ line_end = last)
      /\ IF line_end + 1 < last
         THEN last' = last /\ From' = line_end + 1 /\ Base' = Base
         ELSE last' = 0 /\ From' = 0
  BY NextPlace
<1>4. StartsLine'
  <2>1. CASE Place >= Size
    BY <1>1, <1>2, <1>3, <2>1 DEF StartsLine
  <2>2. CASE Place < Size
    <3> DEFINE e == EndOf(Current, Place)
    <3>1. e \in Nat /\ e <= Base + line_end /\ (e = Size \/ (e = Base + line_end /\ text[Current][e] = NL))
      BY <1>1, <2>2, LineThere
    <3> HIDE DEF e
    <3>2. CASE e = Size
      <4>1. Place' >= Size
        BY <1>2, <1>3, <3>1, <3>2
      <4> QED
        BY <1>1, <4>1 DEF StartsLine
    <3>3. CASE e = Base + line_end /\ text[Current][e] = NL
      <4>1. Place' = e \/ (Place' = e + 1 /\ Place' - 1 = e)
        BY <1>2, <1>3, <3>1, <3>3
      <4>2. CASE Place' = e
        BY <1>1, <3>3, <4>2 DEF StartsLine
      <4>3. CASE Place' = e + 1 /\ Place' - 1 = e /\ Place' < Size
        <5>1. Place' \in LineStarts(Current)
          BY <1>2, <1>3, <3>3, <4>3 DEF LineStarts, Size
        <5> QED
          BY <1>1, <5>1 DEF StartsLine, LineStarts
      <4>4. CASE Place' >= Size
        BY <1>1, <4>4 DEF StartsLine
      <4> QED
        BY <1>2, <1>3, <4>1, <4>2, <4>3, <4>4
    <3> QED
      BY <3>1, <3>2, <3>3
  <2> QED
    BY <1>2, <2>1, <2>2
<1>5. BufferHolds'
  <2>1. CASE line_end + 1 < last
    <3> SUFFICES ASSUME NEW k \in line_end + 1 .. last - 1, Base + k <= Size
                 PROVE  Terminated[k] = Byte(Current, Base + k)
      BY <1>1, <1>3, <2>1 DEF BufferHolds, Byte
    <3>1. k \in Nat /\ k <= BUFSIZE /\ k # line_end /\ k \in From .. last - 1
      BY <1>2
    <3>2. data[k] = Byte(Current, Base + k)
      BY <3>1 DEF BufferHolds
    <3> QED
      BY <1>2, <3>1, <3>2
  <2>2. CASE ~(line_end + 1 < last)
    <3>1. From' = 0 /\ last' = 0
      BY <1>3, <2>2
    <3>2. \A k \in 0 .. 0 - 1 : FALSE
      OBVIOUS
    <3> QED
      BY <3>1, <3>2 DEF BufferHolds
  <2> QED
    BY <2>1, <2>2
<1> QED
  BY <1>4, <1>5

(* The line that goes on keeps its place when it is moved to the front. *)
LEMMA MovedDown ==
  ASSUME ProgramInv, DirInv, TextInv, MoveDown, Current \in TextFiles
  PROVE  /\ Place' = Place /\ last' \in Nat /\ last' <= last /\ pc' = "read"
         /\ Plain(Current) /\ BufferHolds => BufferHolds'
<1>1. /\ last \in Nat /\ line_start \in Nat /\ line_start <= last /\ last <= BUFSIZE /\ BUFSIZE \in Nat
      /\ line_end = last \/ data[line_end] = NL
      /\ Base \in Nat /\ Place = Base + line_start /\ file_position[fd] = Base + last
      /\ Size \in Nat /\ From = line_start /\ pc = "line"
      /\ Terminated[line_end] = NUL /\ Terminated \in [0 .. BUFSIZE -> Bytes]
      /\ \A k \in Nat : k <= BUFSIZE /\ k # line_end => Terminated[k] = data[k]
  BY AtLine DEF MoveDown
<1>2. /\ file_position' = file_position /\ fd' = fd /\ Current' = Current /\ Size' = Size /\ text' = text
      /\ pc' = "read" /\ last' = last - line_start /\ data' = CopyDown(Terminated, line_start)
      /\ line_end = last
  BY <1>1, LineKeeps DEF MoveDown, files, Unfinished, Rest
<1>3. From' = 0 /\ Base' = Base + line_start /\ Place' = Place /\ last' \in Nat /\ last' <= last
  <2>1. From' = 0
    BY <1>2 DEF From
  <2>2. Base' = (Base + last) - (last - line_start)
    BY <1>1, <1>2 DEF Base
  <2>3. Base' = Base + line_start /\ last' \in Nat /\ last' <= last
    BY <1>1, <1>2, <2>2
  <2> QED
    BY <1>1, <2>1, <2>3 DEF Place
<1>4. ASSUME Plain(Current), BufferHolds PROVE BufferHolds'
  <2> DEFINE z == StringEnd(Terminated, line_start)
             S == Terminated
  <2>1. z \in line_start .. BUFSIZE /\ S[z] = NUL
    <3>1. line_start \in 0 .. BUFSIZE /\ last \in line_start .. BUFSIZE /\ S[last] = NUL
      BY <1>1, <1>2
    <3> QED
      BY <3>1, StringEnds
  <2>2. data' = [k \in 0 .. BUFSIZE |-> IF line_start + k <= z THEN S[line_start + k] ELSE S[k]]
    BY <1>2 DEF CopyDown
  <2> HIDE DEF z, S
  <2>3. SUFFICES ASSUME NEW k \in 0 .. last' - 1, Place + k <= Size
                 PROVE  data'[k] = Byte(Current, Place + k)
    BY <1>1, <1>2, <1>3 DEF BufferHolds, Byte
  <2>4. /\ k \in Nat /\ line_start + k \in Nat /\ line_start + k < last /\ line_start + k <= BUFSIZE
        /\ line_start + k # line_end /\ Base + (line_start + k) = Place + k
        /\ line_start + k \in From .. last - 1 /\ k \in 0 .. BUFSIZE
    BY <1>1, <1>2, <1>3
  <2>5. data[line_start + k] = Byte(Current, Place + k)
    BY <1>4, <2>3, <2>4 DEF BufferHolds
  <2>6. S[line_start + k] = data[line_start + k]
    BY <1>1, <2>4 DEF S
  <2>7. line_start + k <= z
    <3> SUFFICES ASSUME z < line_start + k PROVE FALSE
      BY <1>1, <2>1, <2>4
    <3>1. /\ z \in Nat /\ line_start <= z /\ z < last /\ z <= BUFSIZE /\ z # line_end
          /\ Base + z < Size /\ Base + z \in Nat
      BY <1>1, <1>2, <2>1, <2>3, <2>4
    <3>2. data[z] = text[Current][Base + z]
      BY <1>1, <1>4, <3>1, BufferIs
    <3>3. text[Current][Base + z] # NUL
      BY <1>4, <3>1, BytesOf DEF Size
    <3> QED
      BY <1>1, <2>1, <3>1, <3>2, <3>3 DEF S
  <2> QED
    BY <2>2, <2>4, <2>5, <2>6, <2>7
<1> QED
  BY <1>2, <1>3, <1>4

LEMMA ReadOn ==
  ASSUME ProgramInv, ProgramInv', DirInv, TextInv, Read, Current \in TextFiles
  PROVE  /\ Place' = Place /\ Size' = Size /\ last' <= file_position'[fd']
         /\ ~overread' => file_position'[fd'] <= Size
         /\ ~overread' => ~overread
         /\ last' = BUFSIZE \/ file_position'[fd'] >= Size
         /\ BufferHolds => BufferHolds'
<1> DEFINE got == answer'.got
           pos == file_position[fd]
<1>1. /\ entry' = entry /\ text' = text /\ fd' = fd /\ Current' = Current /\ pc' = "line" /\ line_start' = 0
      /\ Len(got) \in 0 .. BUFSIZE - last /\ last' = last + Len(got)
      /\ pos \in Nat /\ file_position'[fd] = pos + Len(got)
      /\ \A j \in 1 .. Len(got) : got[j] = pos + j - 1
      /\ Len(got) = BUFSIZE - last \/ file_position'[fd] >= Size
  BY GrepRead
<1>2. /\ pc = "read" /\ cnt' = Len(got)
      /\ data' = [k \in 0 .. BUFSIZE |-> IF k - last \in 0 .. Len(got) - 1
                                         THEN Byte(entry[fd], got[k - last + 1]) ELSE data[k]]
      /\ overread' = (overread \/ \E b \in DOMAIN got : got[b] >= Directory[entry[fd]].length)
  BY DEF Read
<1>3. entry[fd] = Current /\ last <= pos /\ (~overread => pos <= Size)
  BY <1>2 DEF DirInv, TextInv, InFile
<1>4. /\ BUFSIZE \in Nat /\ last \in Nat /\ last <= BUFSIZE /\ Size \in Nat
      /\ got \in Seq(Nat)
  <2>1. last \in 0 .. BUFSIZE /\ BUFSIZE \in Nat
    BY Sizes1 DEF ProgramInv, BufferInv
  <2>2. got \in Seq(Nat)
    <3>1. Fp!ReadInv /\ Room \in Nat
      BY <2>1 DEF ProgramInv, Room
    <3>2. CASE Fs!ReadFile(fd, Room)
      BY <3>1, <3>2, FileRead
    <3>3. CASE Fs!ReadClock(fd, Room)
      BY <1>3, <3>1, <3>3, ClockRead
    <3> QED
      BY <3>2, <3>3 DEF Read
  <2> QED
    BY <2>1, <2>2, SizesOf DEF Size
<1> HIDE DEF got, pos
<1>5. Size' = Size /\ Base' = Base /\ Base = pos - last /\ From' = 0 /\ From = 0 /\ Place' = Place
  <2>1. Size' = Size /\ From' = 0 /\ From = 0
    BY <1>1, <1>2 DEF Size, From
  <2>2. Base = pos - last /\ Base' = (pos + Len(got)) - (last + Len(got))
    BY <1>1 DEF Base, pos
  <2>3. Base' = Base
    BY <1>1, <1>4, <2>2
  <2> QED
    BY <2>1, <2>2, <2>3 DEF Place
<1>6. ASSUME ~overread' PROVE ~overread /\ pos + Len(got) <= Size
  <2>1. ~overread /\ pos <= Size
    BY <1>2, <1>3, <1>6
  <2>2. CASE Len(got) = 0
    BY <1>1, <2>1, <2>2
  <2>3. CASE Len(got) # 0
    <3>1. Len(got) \in 1 .. Len(got) /\ DOMAIN got = 1 .. Len(got)
      BY <1>4, <2>3
    <3>2. got[Len(got)] = pos + Len(got) - 1
      BY <1>1, <3>1
    <3>3. ~(got[Len(got)] >= Size)
      BY <1>2, <1>3, <1>6, <3>1 DEF Size
    <3> QED
      BY <1>1, <1>4, <2>1, <3>2, <3>3
  <2> QED
    BY <2>2, <2>3
<1>7. ASSUME BufferHolds PROVE BufferHolds'
  <2> SUFFICES ASSUME NEW k \in 0 .. last' - 1, Base + k <= Size
               PROVE  data'[k] = Byte(Current, Base + k)
    BY <1>1, <1>5 DEF BufferHolds, Byte
  <2>1. k \in 0 .. BUFSIZE /\ Base + k = pos + (k - last)
    BY <1>1, <1>3, <1>4, <1>5
  <2>2. CASE k < last
    <3>1. data'[k] = data[k]
      BY <1>2, <1>4, <2>1, <2>2
    <3>2. k \in From .. last - 1
      BY <1>4, <1>5, <2>2
    <3> QED
      BY <1>7, <3>1, <3>2 DEF BufferHolds
  <2>3. CASE last <= k
    <3>1. k - last \in 0 .. Len(got) - 1 /\ k - last + 1 \in 1 .. Len(got)
      BY <1>1, <1>4, <2>3
    <3>2. got[k - last + 1] = Base + k
      BY <1>1, <1>4, <2>1, <3>1
    <3> QED
      BY <1>2, <1>3, <2>1, <3>1, <3>2
  <2> QED
    BY <1>4, <2>2, <2>3
<1>8. last' <= pos + Len(got) /\ (last' = BUFSIZE \/ file_position'[fd] >= Size)
  BY <1>1, <1>3, <1>4
<1> QED
  BY <1>1, <1>5, <1>6, <1>7, <1>8

LEMMA TextKept ==
  ASSUME text' = text, NEW i PROVE Plain(i)' = Plain(i) /\ LineStarts(i)' = LineStarts(i)
BY DEF Plain, LineStarts, LineFrom, EndOf

LEMMA GrepText ==
  ASSUME ProgramInv, ProgramInv', DirInv, DirInv', TextInv, StopsAtEnd, Grep PROVE TextInv'
<1>1. CASE GetSearch \/ OpenDir \/ NextName \/ CloseFile
  <2>1. pc' \notin InFile
    BY <1>1 DEF GetSearch, OpenDir, NextName, CloseFile, InFile
  <2> QED
    BY <2>1 DEF TextInv
<1>2. CASE OpenFile
  <2>1. /\ Current' = Current /\ last' = 0 /\ pc' = "read" /\ file_position'[fd'] = 0
    BY <1>2, OpenedFile
  <2>2. From' = 0 /\ Base' = 0 /\ Place' = 0 /\ Size' = Directory[Current].length
    BY <2>1 DEF From, Base, Place, Size
  <2>3. \A k \in 0 .. 0 - 1 : FALSE
    OBVIOUS
  <2>4. Current \in TextFiles => Size' \in Nat /\ Size' >= 0
    BY <2>2, SizesOf
  <2>5. Current \in TextFiles => StartsLine'
    <3> SUFFICES ASSUME Current \in TextFiles, Size' > 0 PROVE 0 \in LineStarts(Current)'
      BY <2>1, <2>2, <2>4 DEF StartsLine
    <3>1. 0 \in 0 .. Directory[Current].length - 1
      BY <2>2, <2>4
    <3> QED
      BY <2>1, <3>1 DEF LineStarts
  <2> QED
    BY <2>1, <2>2, <2>3, <2>4, <2>5 DEF TextInv, BufferHolds
<1>3. CASE Read
  <2>1. /\ Current' = Current /\ pc' = "line" /\ fd' = fd /\ text' = text /\ cutshort' = cutshort
        /\ Current \notin TextFiles => answer'.got = <<>>
        /\ last' = last + Len(answer'.got) /\ pc = "read"
    BY <1>3, GrepRead DEF Read
  <2>2. CASE Current \notin TextFiles
    <3>1. last = 0 /\ answer'.got = <<>> /\ Len(<<>>) = 0
      BY <2>1, <2>2 DEF TextInv, InFile
    <3>2. last' = 0
      BY <2>1, <3>1
    <3> QED
      BY <2>1, <2>2, <3>2 DEF TextInv
  <2>3. CASE Current \in TextFiles
    <3>1. /\ Place' = Place /\ Size' = Size /\ last' <= file_position'[fd']
          /\ ~overread' => file_position'[fd'] <= Size
          /\ last' = BUFSIZE \/ file_position'[fd'] >= Size
          /\ BufferHolds => BufferHolds'
      BY <1>3, <2>3, ReadOn
    <3>2. StartsLine => StartsLine'
      BY <2>1, <3>1 DEF StartsLine, LineStarts
    <3>3. Plain(Current') /\ ~cutshort => BufferHolds /\ StartsLine
      BY <2>1, <2>3 DEF TextInv, InFile
    <3>4. Plain(Current)' = Plain(Current')
      BY <2>1, TextKept DEF Plain, LineStarts, LineFrom, EndOf
    <3> QED
      BY <2>1, <2>3, <3>1, <3>2, <3>3, <3>4 DEF TextInv
  <2> QED
    BY <2>2, <2>3
<1>4. CASE MoveDown
  <2>1. /\ Current' = Current /\ Size' = Size /\ fd' = fd /\ file_position' = file_position /\ text' = text
        /\ overread' = overread /\ pc = "line"
    BY <1>4, LineKeeps DEF files
  <2>2. cutshort' = cutshort /\ pc' = "read" /\ line_start # 0
    BY <1>4 DEF MoveDown, Unfinished
  <2>3. Current \in TextFiles
    <3>1. line_start \in 0 .. last
      BY <2>1 DEF ProgramInv, BufferInv
    <3>2. last # 0
      BY <2>2, <3>1
    <3> QED
      BY <2>1, <3>2 DEF TextInv, InFile
  <2>4. /\ Place' = Place /\ last' \in Nat /\ last' <= last
        /\ Plain(Current) /\ BufferHolds => BufferHolds'
    BY <1>4, <2>3, MovedDown
  <2>5. StartsLine => StartsLine'
    BY <2>1, <2>4 DEF StartsLine, LineStarts
  <2>6. Plain(Current)' = Plain(Current)
    BY <2>1 DEF Plain, LineStarts, LineFrom, EndOf
  <2>7. last' <= file_position[fd]
    <3>1. last <= file_position[fd] /\ fd \in flags
      BY <2>1, <2>3 DEF TextInv, DirInv, InFile
    <3>2. file_position[fd] \in Nat /\ last \in Nat
      BY <3>1, Positions DEF ProgramInv, BufferInv
    <3> QED
      BY <2>4, <3>1, <3>2
  <2>8. (~overread => file_position[fd] <= Size) /\ (Plain(Current) /\ ~cutshort => BufferHolds /\ StartsLine)
    BY <2>1, <2>3 DEF TextInv, InFile
  <2> QED
    BY <2>1, <2>2, <2>3, <2>4, <2>5, <2>6, <2>7, <2>8 DEF TextInv
<1>5. CASE SearchLine
  <2>1. /\ Current' = Current /\ Size' = Size /\ fd' = fd /\ file_position' = file_position /\ text' = text
        /\ overread' = overread /\ pc = "line" /\ cnt' = cnt
    BY <1>5, LineKeeps DEF files
  <2>2. /\ ~cutshort' => ~cutshort
        /\ pc' = "close" => cnt = 0 /\ last' = 0
        /\ last' = last \/ last' = 0
        /\ pc' = "line" => last' = last
    BY <1>5 DEF SearchLine, FileEnds
  <2>3. CASE Current \notin TextFiles
    BY <2>1, <2>2, <2>3 DEF TextInv, InFile
  <2>4. CASE Current \in TextFiles
    <3>1. last <= file_position[fd] /\ fd \in flags
      BY <2>1, <2>4 DEF TextInv, DirInv, InFile
    <3>2. file_position[fd] \in Nat /\ last \in Nat
      BY <3>1, Positions DEF ProgramInv, BufferInv
    <3>3. last' <= file_position[fd]
      BY <2>2, <3>1, <3>2
    <3>4. Plain(Current)' = Plain(Current)
      BY <2>1 DEF Plain, LineStarts, LineFrom, EndOf
    <3>5. /\ ~overread => file_position[fd] <= Size
          /\ last = BUFSIZE \/ file_position[fd] >= Size
          /\ Plain(Current) /\ ~cutshort => BufferHolds /\ StartsLine
      BY <2>1, <2>4 DEF TextInv, InFile
    <3>6. Plain(Current) /\ ~cutshort' => BufferHolds' /\ StartsLine'
      BY <1>5, <2>2, <2>4, <3>5, StartsNext
    <3> QED
      BY <2>1, <2>2, <2>4, <3>3, <3>4, <3>5, <3>6 DEF TextInv
  <2> QED
    BY <2>3, <2>4
<1> QED
  BY <1>1, <1>2, <1>3, <1>4, <1>5 DEF Grep, GrepNext
-----------------------------------------------------------------------------
(***************************************************************************)
(* What was printed are the lines before the place grep has reached.       *)
(***************************************************************************)
LEMMA SameMatched ==
  ASSUME text' = text, args' = args PROVE Matched' = Matched
BY DEF Matched, Plain, LineStarts, LineFrom, EndOf, Holds, search, Given

LEMMA SameReached ==
  ASSUME text' = text, args' = args, \A p \in Matched : Before(p, Here') <=> Before(p, Here)
  PROVE  Reached' = Reached
<1>1. Reached' = {p \in Matched' : Before(p, Here')}
  BY DEF Reached, Before
<1> QED
  BY <1>1, SameMatched DEF Reached

LEMMA SameOrder ==
  ASSUME text' = text, InOrder(Reached', output') PROVE InOrder(Reached, output)'
<1>1. \A p : Line(p)' = Line(p)
  BY DEF Line, LineFrom, EndOf
<1> QED
  BY <1>1 DEF InOrder, Before

LEMMA ExactKept ==
  ASSUME text' = text, ~cutshort' => ~cutshort, ~overread' => ~overread PROVE Exact' => Exact
<1>1. \A i : Plain(i)' <=> Plain(i)
  BY DEF Plain, LineStarts, LineFrom, EndOf
<1> QED
  BY <1>1 DEF Exact

(* A line that is printed too often is allowed where it was cut or padding *)
(* was read.                                                               *)
LEMMA PrintKept ==
  ASSUME PrintInv, StartInv, pc \in Pcs.grep, text' = text, args' = args,
         \A p \in Matched : Before(p, Here') <=> Before(p, Here),
         ~cutshort' => ~cutshort, ~overread' => ~overread,
         output' = output \/ (~Exact' /\ \E x : output' = Append(output, x))
  PROVE  PrintInv'
<1>1. Reached' = Reached
  BY SameReached
<1>2. PICK S : output \in Seq(S)
  BY DEF StartInv
<1>3. ASSUME ~cutshort' PROVE InOrder(Reached, output)'
  <2>1. InOrder(Reached, output)
    BY <1>3 DEF PrintInv
  <2>2. InOrder(Reached, output')
    BY <1>2, <2>1, OrderKept
  <2> QED
    BY <1>1, <2>2, SameOrder
<1>4. ASSUME Exact' PROVE Len(output') = Cardinality(Reached')
  <2>1. Exact
    BY <1>4, ExactKept
  <2> QED
    BY <1>1, <1>4, <2>1 DEF PrintInv
<1> QED
  BY <1>3, <1>4 DEF PrintInv

(* Nothing is printed, and no line begins between one place and the next. *)
LEMMA NothingReached ==
  ASSUME output' = <<>>, \A p \in Matched' : ~Before(p, Here') PROVE PrintInv'
<1>1. Reached' = {}
  BY DEF Reached, Before
<1>2. InOrder({}, <<>>)'
  <2>1. [p \in {} |-> 1] \in [{} -> DOMAIN <<>>]
    OBVIOUS
  <2> QED
    BY <2>1 DEF InOrder
<1>3. Len(<<>>) = 0 /\ Cardinality({}) = 0
  BY FS_EmptySet
<1> QED
  BY <1>1, <1>2, <1>3 DEF PrintInv

LEMMA Ahead ==
  ASSUME NEW p \in Matched
  PROVE  /\ p[1] \in TextFiles /\ p[1] \in Nat /\ p[1] > 0 /\ p[2] \in Nat
         /\ p[2] < Directory[p[1]].length /\ p[1] <= Len(Directory) /\ p \in Places
         /\ p = <<p[1], p[2]>>
<1>1. /\ p[1] \in TextFiles /\ p[2] \in LineStarts(p[1]) /\ p \in Places /\ p = <<p[1], p[2]>>
  BY MatchedPlaces
<1>2. p[1] \in Nat /\ p[1] > 0 /\ p[1] <= Len(Directory) /\ Directory[p[1]].length \in Nat
  BY <1>1, SizesOf DEF Fs!Indices
<1>3. p[2] \in 0 .. Directory[p[1]].length - 1
  BY <1>1 DEF LineStarts
<1> QED
  BY <1>1, <1>2, <1>3

(* The lines of the file that begin between a line and the next place.     *)
LEMMA NoneBetween ==
  ASSUME ProgramInv, NEW i \in TextFiles, NEW s \in 0 .. Directory[i].length, NEW q \in LineStarts(i), q > s
  PROVE  q > EndOf(i, s)
<1>1. /\ EndOf(i, s) \in s .. Directory[i].length /\ Directory[i].length \in Nat
      /\ \A k \in s .. EndOf(i, s) - 1 : text[i][k] # NL
  BY SizesOf, LineEnds
<1>2. q \in 0 .. Directory[i].length - 1 /\ text[i][q - 1] = NL
  BY <1>1 DEF LineStarts
<1> SUFFICES ASSUME q <= EndOf(i, s) PROVE FALSE
  BY <1>1, <1>2
<1>3. q - 1 \in s .. EndOf(i, s) - 1
  BY <1>1, <1>2
<1> QED
  BY <1>1, <1>2, <1>3

LEMMA Searched ==
  ASSUME ProgramInv, DirInv, StartInv, TextInv, PrintInv, StopsAtEnd, SearchLine, Current \in TextFiles,
         Plain(Current), ~cutshort', Place < Size
  PROVE  PrintInv'
<1> DEFINE s == Place
           p == <<Current, Place>>
           line == LineFrom(Current, Place)
           e == EndOf(Current, Place)
<1>1. /\ Current' = Current /\ Size' = Size /\ text' = text /\ args' = args /\ pc = "line" /\ ~Unfinished
      /\ overread' = overread /\ ~cutshort /\ ~(line_end = BUFSIZE /\ data[BUFSIZE] = NL)
      /\ output' = IF Matches(Terminated, line_start, line_end)
                   THEN Append(output, [file |-> fname, line |-> String(Terminated, line_start)])
                   ELSE output
  BY LineKeeps DEF SearchLine
<1>2. BufferHolds /\ StartsLine
  BY <1>1 DEF TextInv, InFile
<1>3. /\ Holds(line) => Matches(Terminated, line_start, line_end)
      /\ ~overread => (Matches(Terminated, line_start, line_end) => Holds(line))
      /\ String(Terminated, line_start) = line
      /\ [file |-> fname, line |-> line] = Line(p)
      /\ Holds(line) => e # s
  BY <1>1, <1>2, LinePrinted
<1>4. /\ e \in Nat /\ s <= e /\ e <= Size /\ e <= Base + line_end
      /\ e = Size \/ (e = Base + line_end /\ text[Current][e] = NL)
      /\ \A k \in Nat : s <= k /\ k < e => text[Current][k] # NL
  BY <1>1, <1>2, LineThere
<1>5. /\ line_end \in Nat /\ Base \in Nat /\ s \in Nat /\ Size \in Nat
  BY <1>1, AtLine
<1>6. /\ Place' \in Nat /\ Place' >= s
      /\ Place' = Base + line_end + 1 \/ Place' = Base + line_end
      /\ pc' \in InFile
  BY NextPlace
<1>7. Here = <<Current, s>> /\ Here' = <<Current, Place'>>
  BY <1>1, <1>6 DEF Here, InFile
<1>8. pc \in Pcs.grep
  BY <1>1 DEF Pcs
<1>9. ASSUME NEW q \in Matched
      PROVE  /\ Before(q, Here) <=> (q[1] < Current \/ (q[1] = Current /\ q[2] < s))
             /\ Before(q, Here') <=> (q[1] < Current \/ (q[1] = Current /\ q[2] < Place'))
             /\ q[1] = Current /\ q[2] < Place' => q[2] <= s
  <2>1. (q[1] = Current /\ q[2] > s) => q[2] > e /\ q[2] < Size
    <3> SUFFICES ASSUME q[1] = Current, q[2] > s PROVE q[2] > e /\ q[2] < Size
      OBVIOUS
    <3>1. q[2] \in LineStarts(Current) /\ q[2] < Size
      BY MatchedPlaces, Ahead DEF Size
    <3>2. s \in 0 .. Directory[Current].length
      BY <1>5 DEF Size
    <3> QED
      BY <3>1, <3>2, NoneBetween
  <2>2. q[2] \in Nat
    BY Ahead
  <2>3. q[1] = Current /\ q[2] < Place' => q[2] <= s
    BY <1>4, <1>5, <1>6, <2>1, <2>2
  <2> QED
    BY <1>7, <2>3 DEF Before
<1> HIDE DEF s, line, e
<1>10. CASE Holds(line)
  <2>1. p \in Matched
    <3>1. s \in LineStarts(Current)
      <4>1. text[Current][s] # NL
        BY <1>3, <1>4, <1>5, <1>10
      <4> QED
        BY <1>2, <1>5, <4>1 DEF StartsLine, s
    <3>2. s \in 0 .. Longest
      <4>1. Longest \in Nat /\ Directory[Current].length <= Longest
        BY SizesOf
      <4> QED
        BY <1>5, <4>1 DEF Size, s
    <3> QED
      BY <1>10, <3>1, <3>2 DEF Matched, s, line
  <2>2. output' = Append(output, Line(p))
    BY <1>1, <1>3, <1>10
  <2>3. Place' > s
    BY <1>3, <1>4, <1>5, <1>6, <1>10
  <2>4. \A q \in Matched : Before(q, Here') <=> (Before(q, Here) \/ q = p)
    <3> SUFFICES ASSUME NEW q \in Matched PROVE Before(q, Here') <=> (Before(q, Here) \/ q = p)
      OBVIOUS
    <3>1. q[1] \in Nat /\ q[2] \in Nat /\ q = <<q[1], q[2]>>
      BY Ahead
    <3>2. q = p <=> q[1] = Current /\ q[2] = s
      BY <3>1 DEF s
    <3> QED
      BY <1>5, <1>6, <1>9, <2>3, <3>1, <3>2
  <2>5. Reached' = Reached \cup {p}
    <3>1. Reached' = {q \in Matched' : Before(q, Here')}
      BY DEF Reached, Before
    <3> QED
      BY <1>1, <2>1, <2>4, <3>1, SameMatched DEF Reached
  <2>6. Reached \subseteq Places /\ p \in Places /\ IsFiniteSet(Reached) /\ Reached \subseteq Matched
    BY <2>1, MatchedPlaces, FS_Subset DEF Reached
  <2>7. \A q \in Reached : Before(q, p)
    BY <1>7 DEF Reached, s
  <2>8. PICK S : output \in Seq(S)
    BY <1>8 DEF StartInv
  <2>9. InOrder(Reached, output)
    BY <1>1, <1>8 DEF PrintInv
  <2> HIDE DEF p
  <2>10. p \notin Reached /\ InOrder(Reached \cup {p}, Append(output, Line(p)))
    BY <2>6, <2>7, <2>8, <2>9, OrderGrows
  <2>11. InOrder(Reached, output)'
    BY <1>1, <2>2, <2>5, <2>10, SameOrder
  <2>12. ASSUME Exact' PROVE Len(output') = Cardinality(Reached')
    <3>1. Exact
      BY <1>1, <2>12, ExactKept
    <3>2. Len(output) = Cardinality(Reached)
      BY <1>8, <3>1 DEF PrintInv
    <3>3. Cardinality(Reached') = Cardinality(Reached) + 1
      BY <2>5, <2>6, <2>10, FS_AddElement
    <3> QED
      BY <2>2, <2>8, <3>2, <3>3, Appended
  <2> QED
    BY <2>11, <2>12 DEF PrintInv
<1>11. CASE ~Holds(line)
  <2>1. p \notin Matched
    BY <1>11 DEF Matched, line
  <2>2. \A q \in Matched : Before(q, Here') <=> Before(q, Here)
    <3> SUFFICES ASSUME NEW q \in Matched PROVE Before(q, Here') <=> Before(q, Here)
      OBVIOUS
    <3>1. q[1] \in Nat /\ q[2] \in Nat /\ q = <<q[1], q[2]>>
      BY Ahead
    <3>2. ~(q[1] = Current /\ q[2] = s)
      BY <2>1, <3>1 DEF s
    <3> QED
      BY <1>5, <1>6, <1>9, <3>1, <3>2
  <2>3. output' = output \/ (~Exact' /\ \E x : output' = Append(output, x))
    BY <1>1, <1>3, <1>11 DEF Exact
  <2> QED
    BY <1>1, <1>8, <2>2, <2>3, PrintKept
<1> QED
  BY <1>10, <1>11

(* A file that is not text, or its end: nothing is found in no bytes. *)
LEMMA NothingFound ==
  ASSUME Pattern(search), NEW d, NEW from \in Nat PROVE ~Matches(d, from, from)
<1>1. Len(search) \in Nat /\ Len(search) > 0
  BY DEF Pattern
<1>2. \A c \in from .. from - Len(search) : FALSE
  BY <1>1
<1> QED
  BY <1>2 DEF Matches

LEMMA SearchedElse ==
  ASSUME ProgramInv, DirInv, StartInv, TextInv, PrintInv, SearchLine,
         Current \notin TextFiles \/ ~Plain(Current) \/ Place >= Size
  PROVE  PrintInv'
<1>1. /\ Current' = Current /\ Size' = Size /\ text' = text /\ args' = args /\ pc = "line"
      /\ overread' = overread /\ (~cutshort' => ~cutshort) /\ pc' \in InFile
  BY LineKeeps DEF SearchLine, InFile
<1>2. /\ output' = output \/ \E x : output' = Append(output, x)
      /\ ~Matches(Terminated, line_start, line_end) => output' = output
  BY DEF SearchLine
<1>3. Here = <<Current, Place>> /\ Here' = <<Current, Place'>>
  BY <1>1 DEF Here, InFile
<1>4. pc \in Pcs.grep /\ Pattern(search)
  BY <1>1, SearchIsPattern DEF Pcs, ProgramInv, StartInv, Searching
<1>5. CASE Current \notin TextFiles
  <2>1. \A q \in Matched : Before(q, Here') <=> Before(q, Here)
    BY <1>3, <1>5, Ahead DEF Before
  <2>2. last = 0
    BY <1>1, <1>5 DEF TextInv, InFile
  <2>3. line_start \in 0 .. 0 /\ last \in Nat /\ line_start \in 0 .. last
    BY <1>1, <2>2 DEF ProgramInv, BufferInv
  <2>4. line_end \in line_start .. last
    BY <2>3, BufferEnds
  <2>5. line_start = 0 /\ line_end = 0 /\ 0 \in Nat
    BY <2>2, <2>3, <2>4
  <2>6. output' = output
    BY <1>2, <1>4, <2>5, NothingFound
  <2> QED
    BY <1>1, <1>4, <2>1, <2>6, PrintKept
<1>6. CASE Current \in TextFiles /\ ~Plain(Current)
  <2>1. \A q \in Matched : Before(q, Here') <=> Before(q, Here)
    <3>1. \A q \in Matched : q[1] # Current
      BY <1>6, MatchedPlaces
    <3> QED
      BY <1>3, <3>1 DEF Before
  <2>2. ~Exact'
    <3>1. ~Exact
      BY <1>6 DEF Exact
    <3> QED
      BY <1>1, <3>1, ExactKept
  <2> QED
    BY <1>1, <1>2, <1>4, <2>1, <2>2, PrintKept
<1>7. CASE Current \in TextFiles /\ Place >= Size
  <2>1. /\ Place' \in Nat /\ Place' >= Place /\ Place \in Nat /\ Size \in Nat
        /\ last \in Nat /\ line_start \in Nat /\ line_end \in Nat /\ Base \in Nat
        /\ line_start <= line_end /\ line_end <= last
        /\ Place = Base + line_start /\ file_position[fd] = Base + last
    BY <1>1, <1>7, AtLine, NextPlace
  <2>2. \A q \in Matched : Before(q, Here') <=> Before(q, Here)
    <3> SUFFICES ASSUME NEW q \in Matched, q[1] = Current PROVE q[2] < Place /\ q[2] < Place'
      BY <1>3 DEF Before
    <3>1. q[2] \in Nat /\ q[2] < Size
      BY Ahead DEF Size
    <3> QED
      BY <1>7, <2>1, <3>1
  <2>3. ASSUME ~overread PROVE output' = output
    <3>1. file_position[fd] <= Size
      BY <1>1, <1>7, <2>3 DEF TextInv, InFile
    <3>2. line_start = line_end
      BY <1>7, <2>1, <3>1
    <3> QED
      BY <1>2, <1>4, <2>1, <3>2, NothingFound
  <2>4. Exact' => ~overread
    BY <1>1 DEF Exact
  <2> QED
    BY <1>1, <1>2, <1>4, <2>2, <2>3, <2>4, PrintKept
<1> QED
  BY <1>5, <1>6, <1>7

LEMMA GrepPrint ==
  ASSUME ProgramInv, ProgramInv', DirInv, StartInv, TextInv, PrintInv, StopsAtEnd, Grep PROVE PrintInv'
<1>0. pc \in Pcs.grep
  BY GrepStays
<1>1. CASE GetSearch
  <2>1. pc' \in {"failed", "opendir"} /\ output' = <<>>
    BY <1>1 DEF GetSearch, StartInv
  <2>2. CASE pc' = "failed"
    BY <2>2 DEF PrintInv, Pcs
  <2>3. CASE pc' = "opendir"
    <3>1. Here' = <<0, 0>>
      BY <2>3 DEF Here, InFile
    <3>2. \A p \in Matched' : ~Before(p, Here')
      <4>1. \A p \in Matched' : p[1] \in Nat /\ p[1] > 0
        <5>1. Matched' \subseteq TextFiles \X (0 .. Longest)
          BY DEF Matched
        <5> QED
          BY <5>1, SizesOf
      <4> QED
        BY <3>1, <4>1 DEF Before
    <3> QED
      BY <2>1, <3>2, NothingReached
  <2> QED
    BY <2>1, <2>2, <2>3
<1>2. CASE OpenDir
  <2>1. /\ Current' = 0 /\ pc' = "names" /\ output' = <<>> /\ text' = text /\ args' = args
    BY <1>2, OpenedDir DEF OpenDir, StartInv, Current, image
  <2>2. Here' = <<1, 0>>
    BY <2>1 DEF Here
  <2>3. \A p \in Matched : ~Before(p, <<1, 0>>)
    BY Ahead DEF Before
  <2> QED
    BY <2>1, <2>2, <2>3, SameMatched, NothingReached
<1>3. CASE NextName
  <2>1. /\ UNCHANGED <<text, args, output, overread, cutshort>>
        /\ \/ pc' = "exit" /\ Current = Len(Directory) /\ Current' = Current
           \/ /\ Current + 1 \in Fs!Indices /\ Current' = Current + 1
              /\ pc' = IF Directory[Current + 1].type = "directory" THEN "names" ELSE "open"
    BY <1>3, NextEntry
  <2>2. Here = <<Current + 1, 0>> /\ Current \in Nat
    BY <1>3 DEF NextName, Here, DirInv, Searching
  <2>3. \A p \in Matched : Before(p, Here') <=> Before(p, Here)
    <3>1. CASE pc' = "exit" /\ Current' = Current
      BY <2>2, <3>1 DEF Here
    <3>2. CASE Current' = Current + 1 /\ pc' = "open"
      BY <2>2, <3>2 DEF Here, InFile
    <3>3. CASE Current' = Current + 1 /\ pc' = "names" /\ Directory[Current + 1].type = "directory"
      <4>1. Here' = <<Current + 2, 0>>
        BY <2>2, <3>3 DEF Here
      <4>2. Current + 1 \notin TextFiles
        BY <3>3 DEF TextFiles
      <4>3. \A p \in Matched : Before(p, <<Current + 2, 0>>) <=> Before(p, <<Current + 1, 0>>)
        BY <2>2, <4>2, Ahead DEF Before
      <4> QED
        BY <2>2, <4>1, <4>3
    <3> QED
      BY <2>1, <3>1, <3>2, <3>3
  <2> QED
    BY <1>0, <2>1, <2>3, PrintKept
<1>4. CASE OpenFile
  <2>1. /\ Current' = Current /\ last' = 0 /\ pc' = "read" /\ file_position'[fd'] = 0
        /\ UNCHANGED <<text, args, output, overread, cutshort>> /\ pc = "open"
    BY <1>4, OpenedFile DEF OpenFile
  <2>2. Here = <<Current, 0>> /\ Here' = <<Current, 0>>
    BY <2>1 DEF Here, InFile, Place, Base, From
  <2> QED
    BY <1>0, <2>1, <2>2, PrintKept
<1>5. CASE Read \/ MoveDown
  <2>1. /\ Current' = Current /\ pc \in InFile /\ pc' \in InFile
        /\ UNCHANGED <<text, args, output, cutshort>>
        /\ ~overread' => ~overread
    <3>1. CASE Read
      BY <3>1, GrepRead DEF Read, InFile
    <3>2. CASE MoveDown
      BY <3>2, LineKeeps DEF MoveDown, InFile
    <3> QED
      BY <1>5, <3>1, <3>2
  <2>2. Current \in TextFiles => Place' = Place
    BY <1>5, ReadOn, MovedDown
  <2>3. Here = <<Current, Place>> /\ Here' = <<Current, Place'>>
    BY <2>1 DEF Here, InFile
  <2>4. \A p \in Matched : Before(p, Here') <=> Before(p, Here)
    BY <2>2, <2>3, Ahead DEF Before
  <2> QED
    BY <1>0, <2>1, <2>4, PrintKept
<1>6. CASE SearchLine
  <2>1. CASE Current \notin TextFiles \/ ~Plain(Current) \/ Place >= Size
    BY <1>6, <2>1, SearchedElse
  <2>2. CASE cutshort'
    BY <2>2 DEF PrintInv, Exact
  <2>3. CASE Current \in TextFiles /\ Plain(Current) /\ ~(Place >= Size) /\ ~cutshort'
    <3>1. Place \in Nat /\ Size \in Nat
      BY <1>6, <2>3, AtLine DEF SearchLine
    <3> QED
      BY <1>6, <2>3, <3>1, Searched
  <2> QED
    BY <2>1, <2>2, <2>3
<1>7. CASE CloseFile
  <2>1. /\ Current' = Current /\ pc' = "names" /\ pc = "close"
        /\ UNCHANGED <<text, args, output, overread, cutshort>>
    BY <1>7, ClosedFile
  <2>2. Here = <<Current, Place>> /\ Here' = <<Current + 1, 0>>
    BY <2>1 DEF Here, InFile
  <2>3. Current \in Nat /\ cnt = 0 /\ last = 0 /\ fd \in flags /\ entry[fd] = Current
    BY <2>1 DEF DirInv, TextInv, Searching, InFile
  <2>4. Current \in TextFiles => Place \in Nat /\ Place >= Size /\ Size \in Nat
    <3> SUFFICES ASSUME Current \in TextFiles PROVE Place \in Nat /\ Place >= Size /\ Size \in Nat
      OBVIOUS
    <3>1. file_position[fd] \in Nat /\ file_position[fd] >= Size
      BY <2>1, <2>3, Positions DEF StopsAtEnd, Size, ProgramInv
    <3>2. Place = file_position[fd] - 0 + 0
      BY <2>1, <2>3 DEF Place, Base, From
    <3> QED
      BY <3>1, <3>2, SizesOf DEF Size
  <2>5. \A p \in Matched : Before(p, Here') <=> Before(p, Here)
    <3> SUFFICES ASSUME NEW p \in Matched PROVE Before(p, Here') <=> Before(p, Here)
      OBVIOUS
    <3>1. p[1] \in TextFiles /\ p[1] \in Nat /\ p[2] \in Nat /\ p[2] < Directory[p[1]].length
      BY Ahead
    <3>2. p[1] = Current => p[2] < Place
      BY <2>4, <3>1 DEF Size
    <3> QED
      BY <2>2, <2>3, <3>1, <3>2 DEF Before
  <2> QED
    BY <1>0, <2>1, <2>5, PrintKept
<1> QED
  BY <1>1, <1>2, <1>3, <1>4, <1>5, <1>6, <1>7 DEF Grep, GrepNext

LEMMA GrepStart ==
  ASSUME ProgramInv, ProgramInv', DirInv, StartInv, Grep PROVE StartInv'
<1>0. pc \in Pcs.grep /\ pc' \in Pcs.grep \cup {"failed"}
  BY GrepStays
<1>1. PICK S : output \in Seq(S)
  BY <1>0 DEF StartInv
<1>2. CASE GetSearch
  <2>1. /\ pc' = IF Refused' THEN "failed" ELSE "opendir"
        /\ args' = [asked |-> BUFSIZE, got |-> Cmd!getargs(argument_buf, BUFSIZE)]
        /\ output' = output /\ output = <<>>
    BY <1>2 DEF GetSearch, Getargs, StartInv
  <2>2. args' # Fresh
    <3>1. args'.asked = BUFSIZE /\ Fresh.asked = 0
      BY <2>1 DEF Fresh
    <3> QED
      BY <3>1, Sizes1
  <2> QED
    BY <1>1, <2>1, <2>2 DEF StartInv, Searching
<1>3. CASE ~GetSearch
  <2>1. /\ args' = args /\ pc # "getargs" /\ pc' \notin {"prompt", "getargs", "opendir"}
        /\ output' = output \/ \E x : output' = Append(output, x)
    BY <1>3 DEF Grep, GrepNext, OpenDir, NextName, OpenFile, Read, MoveDown, SearchLine, CloseFile
  <2>2. pc \in Searching \cup {"opendir"}
    BY <1>0, <2>1 DEF Pcs, Searching
  <2>3. \E Q : output' \in Seq(Q)
    <3>1. CASE output' = output
      BY <1>1, <3>1
    <3>2. CASE \E x : output' = Append(output, x)
      <4>1. PICK x : output' = Append(output, x)
        BY <3>2
      <4>2. output' \in Seq(S \cup {x})
        BY <1>1, <4>1, Appended
      <4> QED
        BY <4>2
    <3> QED
      BY <2>1, <3>1, <3>2
  <2> QED
    BY <2>1, <2>2, <2>3 DEF StartInv, Refused
<1> QED
  BY <1>2, <1>3

-----------------------------------------------------------------------------
(* Everything at once. *)
GrepInv == StartInv /\ DirInv /\ TextInv /\ PrintInv

LEMMA NoGrep ==
  ASSUME pc' \notin Pcs.grep, pc' = "prompt" => output' = <<>>
  PROVE  GrepInv'
<1>1. pc' \notin {"getargs", "opendir"} \cup Searching /\ pc' \notin InFile /\ pc' \notin {"open", "exit"}
  BY DEF Pcs, Searching, InFile
<1> QED
  BY <1>1 DEF GrepInv, StartInv, DirInv, TextInv, PrintInv

LEMMA GrepBegins ==
  ASSUME GrepInv, Shell PROVE GrepInv'
<1>1. /\ pc = "prompt" /\ output' = output
      /\ pc' \in {"getargs", "openclock", "catargs", "opennames", "other"}
  BY ProgramsAssumption DEF Shell, Execute, ProgramsAssumption, Entry
<1>2. output' = <<>>
  BY <1>1 DEF GrepInv, StartInv
<1>3. CASE pc' = "getargs"
  <2>1. pc' \notin Searching \cup {"opendir"} /\ pc' \notin InFile \cup {"open"} /\ pc' # "exit"
    BY <1>3 DEF Searching, InFile
  <2>2. StartInv'
    <3>1. <<>> \in Seq({})
      OBVIOUS
    <3> QED
      BY <1>2, <2>1, <3>1 DEF StartInv
  <2>3. DirInv' /\ TextInv'
    BY <2>1 DEF DirInv, TextInv
  <2>4. PrintInv'
    <3>1. Here' = <<0, 0>>
      BY <1>3 DEF Here, InFile
    <3>2. \A p \in Matched' : p[1] \in Nat /\ p[2] \in Nat
      <4>1. Matched' \subseteq TextFiles \X (0 .. Longest)
        BY DEF Matched
      <4> QED
        BY <4>1, SizesOf, Longer
    <3>3. \A p \in Matched' : ~Before(p, Here')
      BY <3>1, <3>2 DEF Before
    <3> QED
      BY <1>2, <3>3, NothingReached
  <2> QED
    BY <2>2, <2>3, <2>4 DEF GrepInv
<1>4. CASE pc' # "getargs"
  BY <1>1, <1>4, NoGrep DEF Pcs
<1> QED
  BY <1>3, <1>4

LEMMA GrepStutters ==
  ASSUME GrepInv, UNCHANGED vars PROVE GrepInv'
<1>1. /\ UNCHANGED <<pc, text, args, output, overread, cutshort, flags, entry, fops_table>>
      /\ UNCHANGED <<file_position, dir, fd, fname, data, last, cnt, line_start>>
  BY DEF vars, files, image, buffer
<1>2. StartInv' /\ DirInv'
  BY <1>1 DEF GrepInv, StartInv, DirInv, Refused, Current
<1>3. TextInv'
  <2>1. Current' = Current /\ From' = From /\ Base' = Base /\ Place' = Place /\ Size' = Size
    BY <1>1 DEF Current, From, Base, Place, Size
  <2>2. BufferHolds => BufferHolds'
    BY <1>1, <2>1 DEF BufferHolds, Byte
  <2>3. StartsLine => StartsLine'
    BY <1>1, <2>1 DEF StartsLine, LineStarts
  <2>4. Plain(Current)' => Plain(Current)
    BY <1>1, <2>1 DEF Plain, LineStarts, LineFrom, EndOf
  <2> QED
    BY <1>1, <2>1, <2>2, <2>3, <2>4 DEF GrepInv, TextInv
<1>4. PrintInv'
  <2>1. CASE pc \in Pcs.grep
    <3>1. Here' = Here
      BY <1>1 DEF Here, Current, Base, From, Place
    <3> QED
      BY <1>1, <2>1, <3>1, PrintKept DEF GrepInv
  <2>2. CASE pc \notin Pcs.grep
    BY <1>1, <2>2 DEF PrintInv
  <2> QED
    BY <2>1, <2>2
<1> QED
  BY <1>2, <1>3, <1>4 DEF GrepInv

THEOREM GrepNextInv ==
  ASSUME ProgramInv, ProgramInv', OutputInv, GrepInv, [Next]_vars PROVE GrepInv'
<1>1. CASE UNCHANGED vars
  BY <1>1, GrepStutters
<1>2. CASE Shell
  BY <1>2, GrepBegins
<1>3. CASE Grep
  <2>1. StopsAtEnd
    BY DEF OutputInv
  <2> QED
    BY <1>3, <2>1, GrepStart, GrepDir, GrepText, GrepPrint DEF GrepInv
<1>4. CASE Fish \/ Cat \/ Ls \/ Other
  BY <1>4, FishStays, CatStays, LsStays, OtherStays, NoGrep DEF Pcs
<1>5. CASE Halt
  BY <1>5, NoGrep DEF Halt, Pcs
<1> QED
  BY <1>1, <1>2, <1>3, <1>4, <1>5 DEF Next

THEOREM SpecGrep == Spec => []GrepInv
<1>1. Init => GrepInv
  <2> SUFFICES ASSUME Init PROVE GrepInv
    OBVIOUS
  <2>1. pc = "prompt" /\ output = <<>>
    BY DEF Init, Memory
  <2>2. pc \notin Pcs.grep /\ pc \notin Searching \cup {"opendir"} /\ pc \notin InFile \cup {"open"}
        /\ pc # "exit"
    BY <2>1 DEF Pcs, Searching, InFile
  <2> QED
    BY <2>1, <2>2 DEF GrepInv, StartInv, DirInv, TextInv, PrintInv
<1>2. ProgramInv /\ ProgramInv' /\ OutputInv /\ GrepInv /\ [Next]_vars => GrepInv'
  BY GrepNextInv
<1> QED
  BY <1>1, <1>2, SpecProgram, SpecOutput, PTL DEF Spec

(* At the end every place is behind grep. *)
LEMMA AtExit == ASSUME GrepInv, pc = "exit" PROVE Reached = Matched
<1>1. Here = <<Len(Directory) + 1, 0>>
  BY DEF Here, GrepInv, DirInv
<1>2. ASSUME NEW p \in Matched PROVE Before(p, Here)
  <2>1. p[1] \in TextFiles
    BY MatchedPlaces
  <2>2. p[1] \in 1 .. Len(Directory) /\ Len(Directory) \in Nat
    BY <2>1, SizesOf, Sizes1 DEF Fs!Indices
  <2> QED
    BY <1>1, <2>2 DEF Before
<1> QED
  BY <1>2 DEF Reached

(* For every length of the buffer, of a block and of the lines: grep shows *)
(* every line of a file that holds the pattern, whole and in order, though *)
(* a read may end anywhere in it.                                          *)
THEOREM GrepShowsMatches == Spec => []MatchesPrinted
<1>1. GrepInv => MatchesPrinted
  BY AtExit DEF GrepInv, PrintInv, MatchesPrinted, Pcs
<1> QED
  BY <1>1, SpecGrep, PTL

(* It shows each once and no line besides, unless a read returned the      *)
(* padding of a last block.                                                *)
THEOREM GrepShowsNothingElse == Spec => []NothingElsePrinted
<1>1. GrepInv => NothingElsePrinted
  BY AtExit DEF GrepInv, PrintInv, NothingElsePrinted, Exact, Pcs
<1> QED
  BY <1>1, SpecGrep, PTL
=============================================================================
