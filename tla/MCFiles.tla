------------------------------ MODULE MCFiles ------------------------------
(* An image for TLC.  Blocks of three bytes; files that end inside a block, *)
(* on its last byte, one byte later, and an empty one.  Of two names one    *)
(* begins with the other and is as long as a name can be.                   *)
EXTENDS Files

Entry(n, t, l) == [name |-> n, type |-> t, length |-> l]
SomeFiles ==
  << Entry(<<".">>, "directory", 0), Entry(<<"a", "b">>, "file", 7),
     Entry(<<"rtc">>, "rtc", 0), Entry(<<"a">>, "file", 3),
     Entry(<<"b">>, "file", 2), Entry(<<"b", "a">>, "file", 0) >>

(* One that begins as an entry and is too long, and two the kernel knows.   *)
SomeMissing == {<<"a", "b", "c">>, <<"a", "c">>, <<"stdin">>}
=============================================================================
