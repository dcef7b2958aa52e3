----------------------------- MODULE Programs -----------------------------
(***************************************************************************)
(* What a shell starts (ece391shell.c): the command it passes to execute,  *)
(* and the program that runs until it halts: grep (Grep.tla), fish         *)
(* (Fish.tla), cat, ls, or a program that makes any file call and any      *)
(* getargs (Other).                                                        *)
(***************************************************************************)
EXTENDS Fish

CONSTANTS
  Lines,          \* what is typed, the new line included
  exit,           \* the word the shell knows
  Executables,    \* the entries that are executables, and which program each is
  OnStack,        \* the entries whose inode number execute's stack may hold
  Texts(_),       \* bound: the texts of files one program may find
  Sizes,          \* bound: the nbytes an arbitrary program passes to getargs
  OTHER_FD        \* bound: the last descriptor an arbitrary program uses

VARIABLE command  \* what the shell passed to execute; <<>> when it has the prompt

vars == <<files, image, args, pc, dir, fd, fname, buffer, output, overread, cutshort, fish,
          command>>

(* One new line at the end of what was typed is taken off (the shell).     *)
Stripped(line) == IF line # <<>> /\ line[Len(line)] = NL THEN Front(line) ELSE line

(* A line ends at its first new line, and nothing typed is a NUL. *)
ASSUME ProgramsAssumption ==
  /\ DOMAIN Executables \subseteq TextFiles
  /\ \A i \in DOMAIN Executables : Executables[i] \in {"grep", "fish", "cat", "ls", "other"}
  /\ {frame0, frame1} \subseteq {Directory[i].name : i \in TextFiles} /\ NL # Unread
  /\ OnStack \subseteq Fs!Indices /\ Sizes \subseteq Nat /\ OTHER_FD \in Fs!Fds
  /\ Lines \subseteq Seq(STRING)
  /\ \A line \in Lines : \A k \in 1 .. Len(line) : line[k] # NUL /\ (line[k] = NL => k = Len(line))
  /\ \A line \in Lines :
       Texts(Stripped(line)) \subseteq [TextFiles -> [0 .. Longest - 1 -> Chars \cup {NUL}]]

NoText == [i \in TextFiles |-> [k \in 0 .. Longest - 1 |-> NUL]]
NoArgument == [k \in 0 .. ARGUMENT_SIZE - 1 |-> NUL]
NoJunk == [k \in 0 .. BUFSIZE |-> NUL]

(* A new program: its own memory and an empty descriptor array (fda_init). *)
Memory ==
  /\ args = Fresh /\ dir = 0 /\ fd = 0 /\ fname = <<".">>
  /\ data = NoJunk /\ last = 0 /\ cnt = 0 /\ line_start = 0
  /\ output = <<>> /\ overread = FALSE /\ cutshort = FALSE
  /\ FishMemory

Init ==
  /\ Fs!Init /\ Memory
  /\ text = NoText /\ argument_buf = NoArgument
  /\ pc = "prompt" /\ command = <<>>

-----------------------------------------------------------------------------
Entry(program) ==
  CASE program = "grep" -> "getargs" [] program = "fish" -> "openclock" [] program = "cat" -> "catargs"
    [] program = "ls" -> "opennames" [] program = "other" -> "other"

(* execute: a name without an entry is not noticed (system_call.c:199): it *)
(* starts whatever the inode number on the stack happens to name.          *)
Execute(c) ==
  LET p == Cmd!parse(c)
      i == Fs!read_dentry_by_name(p.name)
  IN /\ p.name # <<>> /\ ~p.toolong
     /\ \E e \in IF i = 0 THEN OnStack ELSE {i} :
          e \in DOMAIN Executables /\ pc' = Entry(Executables[e])
     /\ \E stack \in Junk : argument_buf' = Cmd!ArgumentBuf(p.argument, stack)
     /\ command' = c
     /\ text' \in Texts(c)

(* The shell passes on a line but its new line; a blank line and "exit" it *)
(* keeps to itself (a base shell that ends is started again), and of an    *)
(* execute that fails it only says so.                                     *)
Shell ==
  /\ pc = "prompt"
  /\ \E line \in Lines : Stripped(line) \notin {<<>>, exit} /\ Execute(Stripped(line))
  /\ UNCHANGED <<files, args, dir, fd, fname, buffer, output, overread, cutshort, fish>>

-----------------------------------------------------------------------------
kept == <<image, dir, fname, last, line_start, overread, cutshort, fish, command>>

CatArgs ==
  /\ pc = "catargs" /\ Getargs(BUFSIZE)
  /\ pc' = IF Refused' THEN "failed" ELSE "catopen"
  /\ UNCHANGED <<kept, files, fd, data, cnt, output>>

CatOpen ==
  /\ pc = "catopen"
  /\ \/ Fs!Open(Given) /\ fd' = Fs!LowestFree /\ pc' = "catread"
     \/ Fs!OpenMissing(Given) /\ pc' = "failed" /\ UNCHANGED fd
  /\ UNCHANGED <<kept, args, data, cnt, output>>

(* A read of anything, as the type of the descriptor has it. *)
ReadAny(f, n) == Fs!ReadFile(f, n) \/ Fs!ReadClock(f, n) \/ Fs!ReadDirectory(f, n)

(* What is read is written at once; a full directory ends with -1. *)
CatRead ==
  /\ pc = "catread" /\ ReadAny(fd, BUFSIZE)
  /\ IF fops_table[fd] = "directory" /\ file_position[fd] >= MAX_FILECOUNT
     THEN pc' = "failed" /\ UNCHANGED <<cnt, output>>
     ELSE /\ cnt' = Len(answer'.got)
          /\ output' = output \o answer'.got
          /\ pc' = IF cnt' = 0 THEN "catdone" ELSE "catread"
  /\ UNCHANGED <<kept, args, fd, data>>

OpenNames ==
  /\ pc = "opennames" /\ Fs!Open(<<".">>)
  /\ fd' = Fs!LowestFree
  /\ pc' = "list"
  /\ UNCHANGED <<kept, args, data, cnt, output>>

ListRoom_Narrow == MAX_FILENAME - 1
ListRoom == MAX_FILENAME

List ==
  /\ pc = "list" /\ Fs!ReadDirectory(fd, ListRoom)
  /\ IF file_position[fd] >= MAX_FILECOUNT \/ answer'.got = <<>>
     THEN pc' = "listed" /\ UNCHANGED output
     ELSE pc' = "list" /\ output' = output \o answer'.got
  /\ UNCHANGED <<kept, args, fd, data, cnt>>

(* Any program: in the model it may ask for its argument at the start.     *)
Other ==
  /\ pc = "other"
  /\ \/ Fs!Next /\ (\A f \in Fs!Fds : f > OTHER_FD => fops_table'[f] = "null") /\ args' = Fresh
     \/ Fs!Init /\ (\E n \in Sizes : Getargs(n)) /\ UNCHANGED files
  /\ UNCHANGED <<kept, pc, fd, data, cnt, output>>

(* halt, with the descriptors closed; nothing of the program is left.      *)
Done == {"exit", "fishdone", "catdone", "listed", "failed"}

Halt ==
  /\ pc \in Done \cup {"other"}
  /\ flags' = {}
  /\ entry' = [f \in Fs!Fds |-> 0]
  /\ fops_table' = [f \in Fs!Fds |-> "null"]
  /\ file_position' = [f \in Fs!Fds |-> 0]
  /\ named' = [f \in Fs!Fds |-> <<>>]
  /\ seen' = [f \in Fs!Fds |-> <<>>]
  /\ answer' = Fs!NoRead
  /\ args' = Fresh /\ dir' = 0 /\ fd' = 0 /\ fname' = <<".">>
  /\ data' = NoJunk /\ last' = 0 /\ cnt' = 0 /\ line_start' = 0
  /\ output' = <<>> /\ overread' = FALSE /\ cutshort' = FALSE
  /\ FishGone
  /\ text' = NoText /\ argument_buf' = NoArgument
  /\ pc' = "prompt" /\ command' = <<>>

Cat == CatArgs \/ CatOpen \/ CatRead
Ls == OpenNames \/ List
Grep == GrepNext /\ UNCHANGED <<fish, command>>
Fish == FishNext /\ UNCHANGED command

Next == Shell \/ Grep \/ Fish \/ Cat \/ Ls \/ Other \/ Halt

(* A program that was started gets on: nothing takes the processor from it *)
(* for good (a tick only ever starts the shells of boot).                  *)
Spec == Init /\ [][Next]_vars /\ WF_vars(Grep \/ Fish \/ Cat \/ Ls)
-----------------------------------------------------------------------------
(***************************************************************************)
(* Properties.  The words of a command, by definition: the name runs from  *)
(* the first character that is no space to the next space, the argument    *)
(* from the next that is none to the end.                                  *)
(***************************************************************************)
Words(c) ==
  LET Least(S) == Cmd!Min(S \cup {Len(c) + 1})
      spaces == {i \in DOMAIN c : c[i] = SPACE}
      name == Least(DOMAIN c \ spaces)
      behind == Least({i \in spaces : i > name})
      argument == Least({i \in DOMAIN c \ spaces : i > behind})
  IN [name |-> SubSeq(c, name, behind - 1), argument |-> SubSeq(c, argument, Len(c))]

Pcs == [grep |-> {"getargs", "opendir", "names", "open", "read", "line", "close", "exit"},
        fish |-> {"openclock", "open0", "open1", "read0", "read1", "blink", "close0", "close1",
                  "wait", "ioctl", "fishdone"},
        cat |-> {"catargs", "catopen", "catread", "catdone"},
        ls |-> {"opennames", "list", "listed"}, other |-> {"other"}]

(* Every variable has its type. *)
TypeOK ==
  /\ Fs!TypeOK /\ GrepTypeOK /\ FishTypeOK
  /\ pc \in {"prompt", "failed"} \cup UNION {Pcs[p] : p \in DOMAIN Pcs}

(* A command starts the program its first word names, whatever other names *)
(* begin with it or it begins with, and a word too long for a name starts  *)
(* none.                                                                   *)
RunsNamed ==
  pc \notin {"prompt", "failed"} =>
    LET name == Words(command).name
    IN /\ Len(name) <= MAX_FILENAME
       /\ \A i \in Fs!Indices : Directory[i].name = name =>
            i \in DOMAIN Executables /\ pc \in Pcs[Executables[i]]

(* getargs gives a program the argument that was typed behind its name, the *)
(* spaces inside it included and those before it not, and nothing of what  *)
(* lay in the kernel's buffers; it fails when there is none or no room.    *)
ArgumentGiven ==
  args # Fresh =>
    LET whole == Words(command).argument
        argument == SubSeq(whole, 1, Cmd!Min({Len(whole), ARGUMENT_SIZE - 1}))
    IN IF Len(argument) \in 1 .. args.asked THEN ~Refused /\ Given = argument ELSE Refused

(* cat shows a file from its first to its last byte, each once. *)
CatShowsFile ==
  pc = "catdone" /\ fops_table[fd] = "file" =>
    LET size == Directory[entry[fd]].length
    IN Len(output) >= size /\ SubSeq(output, 1, size) = [k \in 1 .. size |-> k - 1]

(* ls shows every name of the directory, whole, once and in order. *)
ListsDirectory == pc = "listed" => output = [i \in Fs!Indices |-> Directory[i].name]

(* Files.tla, of the descriptors of whatever program runs: what is open    *)
(* is the file with the name that was asked for and read as its type says, *)
DescriptorsMatch == Fs!DescriptorsMatch
OpensNamed == Fs!OpensNamed

(* reads stay within the caller's buffer, skip nothing and repeat nothing,  *)
FitsBuffer == Fs!FitsBuffer
NothingSkipped == Fs!NothingSkipped

(* and a directory is listed to its end. *)
DirectorySeen == Fs!DirectorySeen

(* grep, fish, cat and ls come to an end. *)
Ends == pc \notin {"prompt", "other"} ~> pc \in Done
=============================================================================
