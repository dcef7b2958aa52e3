-------------------------------- MODULE Grep --------------------------------
(***************************************************************************)
(* The program grep (ece391grep.c) on the file system of Files.tla and the *)
(* argument of Command.tla.  It reads a file through a buffer of BUFSIZE   *)
(* bytes, searches the whole lines in it, moves an unfinished line to the  *)
(* front and reads on behind it.  Every system call is a step, and so is   *)
(* every line.                                                             *)
(***************************************************************************)
EXTENDS Integers, Sequences, FiniteSets, SequencesExt

CONSTANTS
  BUFSIZE,     \* bytes of the buffers (1024)
  Chars,       \* the bytes of text files
  NL, NUL,     \* the end of a line, the end of a string
  SPACE,
  Junk,        \* what the stack may hold where an array will be
  Block, MAX_FILECOUNT, MAX_FILENAME, Directory, MissingNames, ReadLengths,
  LAST_FD, MaxPosition,             \* as in Files
  TASKNAME_SIZE, ARGUMENT_SIZE      \* as in Command

VARIABLES flags, entry, fops_table, file_position, named, seen, answer   \* of Files

Fs == INSTANCE Files WITH last <- answer
Cmd == INSTANCE Command WITH NEWLINE <- NL

VARIABLES
  text,          \* the bytes of every file, and some it does not have
  argument_buf,  \* of the PCB
  args,          \* the last getargs of the program: nbytes, its buffer
  pc,            \* the next system call, or "line"
  dir, fd,       \* descriptors of main and do_one_file
  fname,
  data, last, cnt, line_start,
  output,        \* what was printed: file name and line
  overread,      \* history: a read has returned padding behind a file
  cutshort       \* history: the byte behind a full buffer, never written, ended a line

files == <<flags, entry, fops_table, file_position, named, seen, answer>>
buffer == <<data, last, cnt, line_start>>
image == <<text, argument_buf>>   \* what a program does not change

TextFiles == {i \in Fs!Indices : Directory[i].type = "file"}
Longest == CHOOSE n \in {Directory[i].length : i \in TextFiles} :
             \A i \in TextFiles : Directory[i].length <= n

ASSUME GrepAssumption ==
  /\ Fs!FilesAssumption
  /\ BUFSIZE \in Nat \ {0} /\ NL \in Chars /\ NUL \notin Chars /\ SPACE \notin {NL, NUL}
  /\ Chars \subseteq STRING /\ NUL = Fs!EndMark
  /\ TASKNAME_SIZE = MAX_FILENAME + 1 /\ ARGUMENT_SIZE \in 1 .. BUFSIZE
  /\ Junk \subseteq [0 .. BUFSIZE -> Chars \cup {NUL}]
  /\ TextFiles # {}
  /\ \A i \in Fs!Indices : Directory[i].type = "directory" <=> Directory[i].name[1] = "."

Fresh == [asked |-> 0, got |-> Cmd!Refused]   \* no getargs yet

(* getargs, in whatever program. *)
Getargs(nbytes) == args' = [asked |-> nbytes, got |-> Cmd!getargs(argument_buf, nbytes)]
Refused == args.got = Cmd!Refused

(* The string in the buffer of a getargs: up to the NUL, or all of it. *)
Given ==
  LET n == args.asked
      ends == {k \in 0 .. n - 1 : args.got[k] = NUL} \cup {n}
  IN [k \in 1 .. Cmd!Min(ends) |-> args.got[k - 1]]

GetSearch ==
  /\ pc = "getargs" /\ Getargs(BUFSIZE)
  /\ pc' = IF Refused' THEN "failed" ELSE "opendir"
  /\ UNCHANGED <<files, image, dir, fd, fname, buffer, output, overread, cutshort>>

(* The string searched for. *)
search == Given

OpenDir ==
  /\ pc = "opendir" /\ Fs!Open(<<".">>)
  /\ dir' = Fs!LowestFree
  /\ pc' = "names"
  /\ UNCHANGED <<image, args, fd, fname, buffer, output, overread, cutshort>>

(* The names that begin with a dot are passed over; the list ends with an  *)
(* empty answer, or with -1 where the directory is full.                   *)
NextName ==
  /\ pc = "names" /\ Fs!ReadDirectory(dir, MAX_FILENAME)
  /\ IF file_position[dir] >= MAX_FILECOUNT \/ answer'.got = <<>>
     THEN pc' = "exit" /\ UNCHANGED fname
     ELSE /\ fname' = answer'.got[1]
          /\ pc' = IF fname'[1] = "." THEN "names" ELSE "open"
  /\ UNCHANGED <<image, args, dir, fd, buffer, output, overread, cutshort>>

(* The array is not initialised: its cells hold what the stack held. *)
OpenFile ==
  /\ pc = "open" /\ Fs!Open(fname)
  /\ fd' = Fs!LowestFree
  /\ data' \in Junk /\ last' = 0
  /\ pc' = "read"
  /\ UNCHANGED <<image, args, dir, fname, cnt, line_start, output, overread, cutshort>>

(* Byte k of the file with entry i, whose last block is filled up with NUL. *)
Byte(i, k) == IF k < Directory[i].length THEN text[i][k] ELSE NUL

Room_Whole == BUFSIZE
Room == BUFSIZE - last

(* read(fd, data + last, BUFSIZE - last) *)
Read ==
  /\ pc = "read"
  /\ Fs!ReadFile(fd, Room) \/ Fs!ReadClock(fd, Room)
  /\ LET got == answer'.got
     IN /\ cnt' = Len(got)
        /\ data' = [k \in 0 .. BUFSIZE |-> IF k - last \in 0 .. Len(got) - 1
                                           THEN Byte(entry[fd], got[k - last + 1]) ELSE data[k]]
        /\ overread' = (overread \/ \E b \in DOMAIN got : got[b] >= Directory[entry[fd]].length)
  /\ last' = last + cnt'
  /\ line_start' = 0
  /\ pc' = "line"
  /\ UNCHANGED <<image, args, dir, fd, fname, output, cutshort>>

line_end == CHOOSE e \in line_start .. last :
              /\ e = last \/ data[e] = NL
              /\ \A k \in line_start .. e - 1 : data[k] # NL

Terminated == [data EXCEPT ![line_end] = NUL]

(* The line goes on behind the buffer, and there is room to be made. *)
Unfinished_Never == FALSE
Unfinished_EvenWhole == data[line_end] # NL /\ cnt # 0
Unfinished == data[line_end] # NL /\ cnt # 0 /\ line_start # 0

(* strcpy(data, data + from) *)
StringEnd(d, from) == CHOOSE e \in from .. BUFSIZE : d[e] = NUL /\ \A k \in from .. e - 1 : d[k] # NUL
CopyDown(d, from) ==
  [k \in 0 .. BUFSIZE |-> IF from + k <= StringEnd(d, from) THEN d[from + k] ELSE d[k]]

Rest_All == last
Rest == last - line_start

MoveDown ==
  /\ pc = "line" /\ Unfinished
  /\ data' = CopyDown(Terminated, line_start)
  /\ last' = Rest
  /\ pc' = "read"
  /\ UNCHANGED <<files, image, args, dir, fd, fname, cnt, line_start, output, overread, cutshort>>

(* puts(data + from) *)
String(d, from) == [k \in 1 .. StringEnd(d, from) - from |-> d[from + k - 1]]

Matches(d, from, to) ==
  \E check \in from .. to - Len(search) :
    \A k \in DOMAIN search : d[check + k - 1] = search[k]

FileEnds_Never == FALSE
FileEnds == cnt = 0

SearchLine ==
  /\ pc = "line" /\ ~Unfinished
  /\ data' = Terminated
  /\ output' = IF Matches(Terminated, line_start, line_end)
               THEN Append(output, [file |-> fname, line |-> String(Terminated, line_start)])
               ELSE output
  /\ line_start' = line_end + 1
  /\ cutshort' = (cutshort \/ (line_end = BUFSIZE /\ data[BUFSIZE] = NL))
  /\ IF line_end + 1 < last
     THEN UNCHANGED <<last, pc>>
     ELSE last' = 0 /\ pc' = IF FileEnds THEN "close" ELSE "read"
  /\ UNCHANGED <<files, image, args, dir, fd, fname, cnt, overread>>

CloseFile ==
  /\ pc = "close" /\ Fs!Close(fd)
  /\ pc' = "names"
  /\ UNCHANGED <<image, args, dir, fd, fname, buffer, output, overread, cutshort>>

GrepNext ==
  \/ GetSearch \/ OpenDir \/ NextName \/ OpenFile \/ Read \/ MoveDown \/ SearchLine \/ CloseFile
-----------------------------------------------------------------------------
(***************************************************************************)
(* Properties.  The lines of a file, by definition: from a byte that       *)
(* follows an end of line, or the first, up to the next end of line.       *)
(***************************************************************************)
LineStarts(i) == {k \in 0 .. Directory[i].length - 1 : k = 0 \/ text[i][k - 1] = NL}

EndOf(i, s) ==
  LET size == Directory[i].length
  IN CHOOSE e \in s .. size : (e = size \/ text[i][e] = NL) /\ \A k \in s .. e - 1 : text[i][k] # NL

LineFrom(i, s) == [k \in 1 .. EndOf(i, s) - s |-> text[i][s + k - 1]]

Holds(line) == \E k \in 0 .. Len(line) - Len(search) : SubSeq(line, k + 1, k + Len(search)) = search

(* A text that grep searches line by line: strings end at a NUL, and a     *)
(* line longer than the buffer is searched in pieces.                      *)
Plain(i) ==
  /\ \A k \in 0 .. Directory[i].length - 1 : text[i][k] # NUL
  /\ \A s \in LineStarts(i) : Len(LineFrom(i, s)) <= BUFSIZE

(* Where the lines of such files begin that hold the pattern, the order    *)
(* they are in, and what grep shows of one.                                *)
Matched == {p \in TextFiles \X (0 .. Longest) :
              Plain(p[1]) /\ p[2] \in LineStarts(p[1]) /\ Holds(LineFrom(p[1], p[2]))}
Before(p, q) == p[1] < q[1] \/ (p[1] = q[1] /\ p[2] < q[2])
Line(p) == [file |-> Directory[p[1]].name, line |-> LineFrom(p[1], p[2])]

(* The lines at the places of S are among what was printed, in order. *)
InOrder(S, out) ==
  \E at \in [S -> DOMAIN out] :
    \A p, q \in S : out[at[p]] = Line(p) /\ (Before(p, q) => at[p] < at[q])

(* Every variable has its type. *)
GrepTypeOK ==
  /\ data \in [0 .. BUFSIZE -> Chars \cup {NUL}]
  /\ last \in 0 .. BUFSIZE /\ cnt \in 0 .. BUFSIZE
  /\ pc = "line" => line_start \in 0 .. last

(* An empty read is the end of the file and never a full buffer, which it  *)
(* looks the same as: a loop that stops there has read the whole file.     *)
StopsAtEnd ==
  pc \in {"line", "close"} /\ cnt = 0 /\ entry[fd] \in TextFiles =>
    file_position[fd] >= Directory[entry[fd]].length

(* grep shows every line that holds the pattern, whole and in order, though *)
(* reads cut lines and the buffer is shared by what is left of one read    *)
(* and the next.  It depends on a byte nobody wrote: were it an end of     *)
(* line, the line a full buffer ends in would be searched in two parts.    *)
MatchesPrinted == pc = "exit" /\ ~cutshort => InOrder(Matched, output)

(* It shows nothing else unless a read returned padding: then cells left   *)
(* behind by strcpy, which stops at the first NUL, are searched again.     *)
NothingElsePrinted ==
  pc = "exit" /\ (\A i \in TextFiles : Plain(i)) /\ ~cutshort /\ ~overread =>
    Len(output) = Cardinality(Matched)
=============================================================================
