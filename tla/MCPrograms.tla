----------------------------- MODULE MCPrograms -----------------------------
(* An instance of Programs.tla for TLC: buffers of three bytes, blocks of  *)
(* four, names and arguments of up to two characters.  Of two names one    *)
(* begins with the other, in both orders; files end inside a block, on its *)
(* last byte, one byte later, and one is empty.                            *)
EXTENDS Programs

F(n, t, l) == [name |-> n, type |-> t, length |-> l]
SomeFiles ==
  << F(<<".">>, "directory", 0), F(<<"g", "r">>, "file", 6), F(<<"rtc">>, "rtc", 0),
     F(<<"g">>, "file", 4), F(<<"c">>, "file", 5), F(<<"c", "p">>, "file", 0),
     F(<<"f">>, "file", 0) >>
SomeExecutables == 2 :> "grep" @@ 4 :> "ls" @@ 5 :> "cat" @@ 6 :> "other" @@ 7 :> "fish"
longframe == <<"g", "r">>
shortframe == <<"c">>
SomeMissing == {<<"g", "r", "c">>, <<"g", "c">>, <<"stdin">>}

Search == <<"g", "r", " ", "a", "b">>
quit == <<"q">>

(* Every line of up to five characters over these three, and some others. *)
Short(n) == UNION {[1 .. k -> {" ", "c", "g"}] : k \in 0 .. n}
With(name, arguments) == {name \o <<" ">> \o a : a \in arguments} \cup {name}
SomeLines ==
  Short(5) \cup {Append(c, "nl") : c \in Short(3)} \cup {Append(Search, "nl"), quit}
  \cup With(<<"g", "r">>, {<<"a">>, <<"a", "b", "b">>}) \cup {<<"g", "r", "r">>}
  \cup With(<<"c">>, {<<"g", "r">>, <<"c", "p">>, <<".">>, <<"rtc">>, <<"stdin">>})
  \cup {<<"c", "p", " ", "a", " ">>, <<"f">>}

(* For one command of grep every text whose lines fit the buffer, and some *)
(* with longer ones, the same in every file; for fish two drawings with    *)
(* rows of different lengths, blanks, and none; for the others two texts.  *)
Everywhere(T) == {[i \in TextFiles |-> t] : t \in T}
ShortLine(t) == \A k \in 0 .. Longest - 1 - BUFSIZE : \E i \in k .. k + BUFSIZE : t[i] = NL
LongLines == {[k \in 0 .. Longest - 1 |-> IF k = n THEN NL ELSE "a"] : n \in 0 .. Longest}
Cycle(s) == [k \in 0 .. Longest - 1 |-> s[(k % Len(s)) + 1]]
Drawings == {Cycle(s) : s \in {<<"a", NL, NL>>, <<" ", "b", NL>>, <<"b", "a", " ", " ", NL>>, <<" ">>}}
SomeTexts(c) ==
  CASE c = Search -> Everywhere({t \in [0 .. Longest - 1 -> {"a", "b", NL}] : ShortLine(t)} \cup LongLines)
    [] c = <<"f">> -> {[i \in TextFiles |-> IF i = 2 THEN s ELSE t] : s, t \in Drawings}
    [] c # Search /\ "r" \in {c[k] : k \in DOMAIN c} -> Everywhere({Cycle(<<"a", "a", NL>>), Cycle(<<"a", "b">>)})
    [] OTHER -> {NoText}

(* What was on the stack: letters, or ends of lines. *)
SomeJunk == {[k \in 0 .. BUFSIZE |-> "a"], [k \in 0 .. BUFSIZE |-> NL]}
=============================================================================
