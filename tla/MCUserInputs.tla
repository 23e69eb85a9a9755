------------------------------ MODULE MCUserInputs -----------------------------
(***************************************************************************)
(* Displays, keys, lines, system calls and formats.                        *)
(***************************************************************************)
EXTENDS Integers, Sequences, TLC

--------------------------------------------------------------------------------
(* Characters of two by two pixels.  One framebuffer fits its characters   *)
(* exactly; one has a pixel too many in each direction and padding after   *)
(* each line; one holds a single row.  VGA text memory comes in two sizes. *)

Fb(w, h, s) == [fb |-> TRUE, w |-> w, h |-> h, stride |-> s]
Vga(w, h)   == [fb |-> FALSE, w |-> w, h |-> h, stride |-> w]

SmallModes == {Fb(4, 4, 4), Fb(5, 5, 7), Fb(5, 3, 6), Vga(3, 2), Vga(2, 2)}

(* Lines of up to five characters.  On VGA a line with its prompt takes up *)
(* to two rows and its wrap can scroll; a framebuffer has room for six     *)
(* characters and a half.                                                  *)

Glyphs   == {" ", "?", ">", "a"}
Pressed  == {"a", "TAB", "BS"}
Tabs     == {"TAB"}
Displays == {Vga(4, 3), Fb(13, 5, 14)}
Texts    == {<<"NL">>, <<"a", "NL", "NL">>}

--------------------------------------------------------------------------------
(* Lines of up to five characters, of which argv keeps two words.          *)

SmallCommands == <<"e">> :> "echo" @@ <<"e", "e">> :> "clear" @@ <<"e", "e", "e">> :> "reboot"

--------------------------------------------------------------------------------
(* Names around the limits of their fields, brands with blanks in front,   *)
(* inside and throughout, and every call with good and bad arguments.      *)

Null  == <<"NULL">>
Chain == <<"trace", "sandbox", "core">>
V035  == <<"0", "3", "5">>
Letters == {" ", "v", "b", "c", "d", "0", "3", "5", "U", "NULL"}

Name(c, n) == [k \in 1 .. n |-> c]

SmallMachines ==
    [vendor : {Null} \cup {Name("v", n) : n \in {0, 2, 3, 4}},
     board  : {Null} \cup {Name("b", n) : n \in {0, 2, 3, 4, 5, 7}},
     brand  : {Null, <<" ", "c", " ", "d">>, <<" ", " ", "c", "NUL">>, <<" ", " ", " ", " ">>,
               <<"c", "d", "c", "d">>, <<"NUL", "c", "NUL", "NUL">>}]

Ask(o, c, p, n) == [op |-> o, cmd |-> c, arg1 |-> p, len |-> n]

SmallRequests == {Ask("WRITE", "", Null, 2), Ask("READ", "", Null, 0), Ask("READ", "", Null, 2),
          Ask("EXIT", "", Null, 0),
          Ask("FORK", "", Null, 0), Ask("IOCTL", "OTHER", Null, 0)}
         \cup {Ask("IOCTL", c, Null, 5) : c \in {"CLEAR", "GET_TICKS", "SHUTDOWN", "REBOOT"}}
         \cup {Ask("IOCTL", "GET_INFO", p, 0) : p \in {Null, <<"info">>}}

--------------------------------------------------------------------------------
(* Formats of up to two conversions with their arguments, 8-bit longs and  *)
(* 4-bit ints: zero, both ends of the ranges and values between.           *)

Takes == {<<"%", c>> : c \in {"d", "u", "x", "s", "c"}} \cup {<<"%", "l", c>> : c \in {"d", "u", "x"}}
Free  == {<<"a">>, <<"%", "%">>, <<"%", "q">>, <<"%", "l", "q">>}
Values == {0, 7, 8, 15, 16, 100, 127, 128, 255}

Given(l, f, a) == [lib |-> l, fmt |-> f, args |-> a]
Libs == {"kernel", "user"}

SmallCalls ==
    {Given(l, f \o g, <<v>>) : l \in Libs, f \in Free, g \in Takes, v \in Values}
    \cup {Given(l, f \o g, <<>>) : l \in Libs, f, g \in Free}
    \cup {Given(l, f \o g, <<v, w>>) : l \in Libs, f, g \in Takes, v, w \in Values}
    \cup {Given("kernel", <<"%", "p">> \o f, <<v, w>>) : f \in Takes, v, w \in Values}
    \cup {Given("user", <<"%", "p">> \o f, <<v>>) : f \in Takes, v \in Values}

--------------------------------------------------------------------------------
(* Reports of three places and four keys, one of which has no character.   *)

FourKeys   == {4, 5, 6, 57}
LetterKeys == {4, 5, 6}
================================================================================
