------------------------------- MODULE Files -------------------------------
(***************************************************************************)
(* The read-only file system of fs_module.c as one task uses it through    *)
(* open, read, write and close (system_call.c): the directory, read_data,  *)
(* and a descriptor array whose entries keep the file position.            *)
(*                                                                         *)
(* A byte of a file is its index: byte k of a file of length n is padding  *)
(* of its last block, or a block of something else, when k >= n.  A name   *)
(* is a sequence of characters, without the NUL behind it.                 *)
(***************************************************************************)
EXTENDS Integers, Sequences, SequencesExt, FiniteSetsExt

CONSTANTS
  Block,          \* bytes per data block (4096)
  MAX_FILECOUNT,  \* directory entries the boot block has room for (63)
  MAX_FILENAME,   \* characters of a name (32); a name this long has no NUL
  Directory,      \* the entries: a sequence of [name, type, length]
  MissingNames,   \* names without an entry
  ReadLengths,    \* the nbytes programs pass to read
  LAST_FD,        \* the last descriptor open hands out (7)
  MaxPosition     \* bound: how far a descriptor is read

Fds == 2 .. LAST_FD
Indices == 1 .. Len(Directory)
Types == {"rtc", "directory", "file"}
Names == {Directory[i].name : i \in Indices} \cup MissingNames

EndMark == "NUL"  \* what a string ends in

(* What the image and the programs are like: assumed by the modules that   *)
(* use this one.                                                           *)
FilesAssumption ==
  /\ LAST_FD \in Nat /\ Block \in Nat \ {0} /\ MAX_FILECOUNT \in Nat /\ MaxPosition \in Nat
  /\ Len(Directory) \in 0 .. MAX_FILECOUNT
  /\ \A i \in Indices : Len(Directory[i].name) \in 1 .. MAX_FILENAME
  /\ \A i \in Indices : Directory[i].type \in Types /\ Directory[i].length \in Nat
  /\ \A i, j \in Indices : Directory[i].name = Directory[j].name => i = j
  /\ \A i \in Indices : Directory[i].name \notin MissingNames
  /\ Names \subseteq Seq(STRING) /\ MAX_FILENAME \in Nat /\ <<>> \notin MissingNames
  /\ \A name \in Names : \A k \in 1 .. Len(name) : name[k] # EndMark
  /\ ReadLengths \subseteq Nat

VARIABLES
  flags,          \* the descriptors in use
  entry,          \* the directory entry each was opened on; 0 after a close
  fops_table,     \* its table of operations, by type; "null" before any open
  file_position,
  named,          \* history: the name each was opened by
  seen,           \* history: what was read through each since it was opened
  last            \* history: the last read: descriptor, nbytes, answer

vars == <<flags, entry, fops_table, file_position, named, seen, last>>

NoRead == [fd |-> 0, asked |-> 0, got |-> <<>>]

Init ==
  /\ flags = {}
  /\ entry = [f \in Fds |-> 0]
  /\ fops_table = [f \in Fds |-> "null"]
  /\ file_position = [f \in Fds |-> 0]
  /\ named = [f \in Fds |-> <<>>]
  /\ seen = [f \in Fds |-> <<>>]
  /\ last = NoRead

-----------------------------------------------------------------------------
(***************************************************************************)
(* read_data(inode, offset, buf, length), for a file of `size' bytes: the  *)
(* indices of the bytes it copies.  last_block comes from the length that  *)
(* was asked for, end_offset from the one cut back to the file; a last     *)
(* block that starts past the end of the file is not copied.               *)
(***************************************************************************)
CutLength(size, offset, length) == IF offset + length > size THEN size - offset ELSE length

StartOffset_Zero(i, offset) == 0
StartOffset(i, offset) == IF i = offset \div Block THEN offset % Block ELSE 0

EndOffset_Block(i, last_block, end) == Block
EndOffset(i, last_block, end) == IF i = last_block THEN end % Block ELSE Block

BlocksRead(first_block, last_block, size) ==
  LET n == last_block - first_block + (IF last_block * Block > size THEN 0 ELSE 1)
  IN [k \in 1 .. n |-> first_block + k - 1]

read_data(size, offset, length) ==
  IF offset >= size THEN <<>>
  ELSE LET first_block == offset \div Block
           last_block == (offset + length) \div Block
           end == offset + CutLength(size, offset, length)
           Copied(i) ==
             LET start == StartOffset(i, offset)
             IN [b \in 1 .. EndOffset(i, last_block, end) - start |-> i * Block + start + b - 1]
           blocks == BlocksRead(first_block, last_block, size)
       IN FlattenSeq([k \in DOMAIN blocks |-> Copied(blocks[k])])

(***************************************************************************)
(* strncmp(s, t, n) = 0, where s holds no NUL of its own: the characters   *)
(* agree up to the n-th, or up to the NUL that ends s.                     *)
(***************************************************************************)
At(s, k) == IF k <= Len(s) THEN s[k] ELSE EndMark
SameUpTo(s, t, n) == \A k \in 1 .. Min({n, Len(s) + 1}) : At(s, k) = At(t, k)

(* The length compared grows with every entry passed, the NUL included.    *)
CompareLength_NoNul(length, i) == length
CompareLength(length, i) == Min({length + i, MAX_FILENAME})

(* read_dentry_by_name: the first entry with the name, 0 when none has it. *)
read_dentry_by_name(fname) ==
  LET Matching == {i \in Indices : SameUpTo(fname, Directory[i].name, CompareLength(Len(fname), i))}
  IN IF Len(fname) > MAX_FILENAME \/ Matching = {} THEN 0 ELSE Min(Matching)

(* directory_read: one name per call, cut to the buffer, and nothing past  *)
(* the last entry, where the slots hold no name.  A full directory answers *)
(* -1 there (ReadDirectory).                                               *)
directory_read(offset, length) ==
  LET name == IF offset < Len(Directory) THEN Directory[offset + 1].name ELSE <<>>
  IN SubSeq(name, 1, Min({length, MAX_FILENAME, Len(name)}))

-----------------------------------------------------------------------------
Advance(f, n) == file_position' = [file_position EXCEPT ![f] = @ + n]

(* file_open and dir_open take the inode of the entry, their close forgets *)
(* it; rtc_close does not.                                                 *)
SetInode(f, i) == entry' = [entry EXCEPT ![f] = i]
ClearInode(f) == entry' = [entry EXCEPT ![f] = IF fops_table[f] = "rtc" THEN @ ELSE 0]

(* open: the lowest free descriptor.  It sets no file position: that is 0  *)
(* from fda_init or from the close before.                                 *)
LowestFree == Min(Fds \ flags)

Open(name) ==
  /\ flags # Fds
  /\ LET i == read_dentry_by_name(name)
     IN /\ i # 0
        /\ flags' = flags \cup {LowestFree}
        /\ SetInode(LowestFree, i)
        /\ fops_table' = [fops_table EXCEPT ![LowestFree] = Directory[i].type]
        /\ named' = [named EXCEPT ![LowestFree] = name]
  /\ UNCHANGED <<file_position, seen>>
  /\ last' = NoRead

(***************************************************************************)
(* open of "stdin" or "stdout", which no directory entry has, sets the     *)
(* table of the free descriptor before it fails.  Its flag stays 0.        *)
(***************************************************************************)
OpenMissing(name) ==
  /\ read_dentry_by_name(name) = 0
  /\ fops_table' = IF name \in {<<"stdin">>, <<"stdout">>} /\ flags # Fds
                   THEN [fops_table EXCEPT ![LowestFree] = name[1]] ELSE fops_table
  /\ UNCHANGED <<flags, entry, file_position, named, seen>>
  /\ last' = NoRead

(* What a read through f leaves, given its answer. *)
Answered(f, n, got) ==
  /\ seen' = [seen EXCEPT ![f] = @ \o got]
  /\ last' = [fd |-> f, asked |-> n, got |-> got]
  /\ UNCHANGED <<flags, entry, fops_table, named>>

ReadFile(f, n) ==
  /\ f \in flags /\ fops_table[f] = "file"
  /\ file_position[f] < MaxPosition
  /\ LET got == read_data(Directory[entry[f]].length, file_position[f], n)
     IN Advance(f, Len(got)) /\ Answered(f, n, got)

NamesPerRead_Two == 2
NamesPerRead == 1

ReadDirectory(f, n) ==
  /\ f \in flags /\ fops_table[f] = "directory"
  /\ IF file_position[f] >= MAX_FILECOUNT
     THEN UNCHANGED vars      \* -1
     ELSE LET name == directory_read(file_position[f], n)
          IN IF name = <<>>
             THEN UNCHANGED file_position /\ Answered(f, n, <<>>)
             ELSE Advance(f, NamesPerRead) /\ Answered(f, n, <<name>>)

(* A read of the clock waits for its period (Interrupts.tla), then answers 0. *)
ReadClock(f, n) ==
  /\ f \in flags /\ fops_table[f] = "rtc"
  /\ Answered(f, n, <<>>)
  /\ UNCHANGED file_position

ResetPosition_Missing(f) == UNCHANGED file_position
ResetPosition(f) == file_position' = [file_position EXCEPT ![f] = 0]

Close(f) ==
  /\ f \in flags
  /\ flags' = flags \ {f}
  /\ ClearInode(f)
  /\ ResetPosition(f)
  /\ UNCHANGED <<fops_table, named>>
  /\ seen' = [seen EXCEPT ![f] = <<>>]
  /\ last' = NoRead

Next ==
  \/ \E name \in Names : Open(name) \/ OpenMissing(name)
  \/ \E f \in Fds :
       \/ \E n \in ReadLengths : ReadFile(f, n) \/ ReadClock(f, n) \/ ReadDirectory(f, n)
       \/ Close(f)

Spec == Init /\ [][Next]_vars
-----------------------------------------------------------------------------
(***************************************************************************)
(* Properties.                                                             *)
(***************************************************************************)

(* Every variable has its type. *)
TypeOK ==
  /\ flags \subseteq Fds
  /\ entry \in [Fds -> {0} \cup Indices]
  /\ fops_table \in [Fds -> Types \cup {"null", "stdin", "stdout"}]
  /\ file_position \in [Fds -> Nat]
  /\ DOMAIN seen = Fds
  /\ last.fd \in {0} \cup Fds

(* What an open descriptor does is what the file it was opened on asks for, *)
(* and a descriptor that is free will start at the beginning of its file.  *)
DescriptorsMatch ==
  \A f \in Fds :
    IF f \in flags
    THEN entry[f] \in Indices /\ fops_table[f] = Directory[entry[f]].type
    ELSE file_position[f] = 0

(* open finds the file with exactly the name it was given: no other whose  *)
(* name begins with it, or that it begins with, whatever comes first, and  *)
(* none that is longer than a name can be.                                 *)
OpensNamed == \A f \in flags : Directory[entry[f]].name = named[f]

Size(f) == Directory[entry[f]].length

(* read never writes past the nbytes bytes of the caller's buffer. *)
FitsBuffer ==
  last.fd \in flags =>
    IF fops_table[last.fd] = "directory"
    THEN last.got = <<>> \/ Len(last.got[1]) <= last.asked
    ELSE Len(last.got) <= last.asked

(* Whatever lengths a program reads a file with, it gets the bytes from    *)
(* the beginning on, none skipped, repeated or out of order, and each read *)
(* gives all that was asked for as long as the file has it.                *)
NothingSkipped ==
  \A f \in flags : fops_table[f] = "file" =>
    /\ Len(seen[f]) = file_position[f]
    /\ \A i \in 1 .. Len(seen[f]) : seen[f][i] = i - 1
    /\ last.fd = f => Len(last.got) = last.asked \/ Len(seen[f]) >= Size(f)

(* A program that reads a directory until nothing comes has seen every     *)
(* entry, each once and in order, as much of its name as it had room for.  *)
DirectorySeen ==
  \A f \in flags : fops_table[f] = "directory" =>
    /\ Len(seen[f]) = file_position[f]
    /\ \A i \in 1 .. Len(seen[f]) : IsPrefix(seen[f][i], Directory[i].name)
    /\ last.fd = f /\ last.asked > 0 =>
         IF last.got = <<>> THEN Len(seen[f]) = Len(Directory)
         ELSE LET name == Directory[file_position[f]].name
              IN Len(last.got[1]) = Min({last.asked, Len(name)})

-----------------------------------------------------------------------------
(* "if length puts it over the end of file, reduce back to file size"      *)
(* (fs_module.c): what read returns never goes past the end of the file.   *)
ReadsWithinFile ==
  \A f \in flags : fops_table[f] = "file" => Len(seen[f]) <= Size(f)
=============================================================================
