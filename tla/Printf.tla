---------------------------------- MODULE Printf -------------------------------
(***************************************************************************)
(* printf and itoa, of the kernel (lib/stdio.c, lib/stdlib.c, string.c)    *)
(* and of the user programs (user_libc).  An argument is a number below    *)
(* LongSize, the register it is passed in; an int is its low part.  What   *)
(* %s and %c write is the argument itself.                                 *)
(***************************************************************************)
EXTENDS Integers, Sequences
LOCAL INSTANCE TLC

CONSTANTS
    LongSize,   \* 2^64 in the code
    IntSize,    \* 2^32 in the code
    Calls       \* [lib : "kernel" or "user", fmt, args]

VARIABLES
    call,
    i,          \* position in the format, from 1
    arg,        \* va_arg: the arguments taken
    out         \* what has been written

vars == <<call, i, arg, out>>

--------------------------------------------------------------------------------
(* itoa *)

\* The two's complement of w values: as long or int, and as unsigned long.
Signed(v, w)   == IF v < w \div 2 THEN v ELSE v - w
Unsigned(v, w) == v % w

digits == <<"0", "1", "2", "3", "4", "5", "6", "7", "8", "9">> \o
          (IF call.lib = "kernel" THEN <<"A", "B", "C", "D", "E", "F">>
                                  ELSE <<"a", "b", "c", "d", "e", "f">>)

\* The digits of u, the last one first, as the loop produces them.
Produced(u, base) ==
    LET d[n \in 0 .. LongSize] == IF n = 0 THEN <<>> ELSE <<digits[1 + (n % base)]>> \o d[n \div base]
    IN  d[u]

reverse(s) == [k \in DOMAIN s |-> s[Len(s) - k + 1]]

\* Negated as a signed number, the least long stays what it is; as an unsigned
\* one it is its own magnitude (the overflow is that of the neg instruction).
Negated(v) == Unsigned(Signed(Unsigned(-v, LongSize), LongSize), LongSize)

\* A bug the conversion to unsigned avoids: the magnitude as a signed number.
ItoaSigned(v, base) ==
    LET neg == base = 10 /\ v < 0
        u   == IF neg /\ Signed(Negated(v), LongSize) < 0 THEN 0 ELSE IF neg THEN Negated(v) ELSE Unsigned(v, LongSize)
    IN  IF u = 0 THEN <<"0">>
        ELSE reverse(Produced(u, base) \o (IF neg THEN <<"-">> ELSE <<>>))

itoa(v, base) ==
    LET neg == base = 10 /\ v < 0
        u   == IF neg THEN Negated(v) ELSE Unsigned(v, LongSize)
    IN  IF u = 0 THEN <<"0">>
        ELSE reverse(Produced(u, base) \o (IF neg THEN <<"-">> ELSE <<>>))

--------------------------------------------------------------------------------
(* printf *)

Char(k) == IF k <= Len(call.fmt) THEN call.fmt[k] ELSE "NUL"
Arg == call.args[arg + 1]

Write(s) == out' = out \o s

Prefix == IF call.lib = "kernel" THEN <<"0", "x">> ELSE <<>>

PlainChar ==
    /\ Char(i) \notin {"%", "NUL"}
    /\ Write(<<Char(i)>>)
    /\ i' = i + 1
    /\ UNCHANGED <<call, arg>>

\* A conversion of n characters that takes an argument and writes s.
Convert(n, s) ==
    /\ Write(s)
    /\ arg' = arg + 1
    /\ i' = i + n
    /\ UNCHANGED call

Short == Char(i) = "%"
LongOne == Char(i) = "%" /\ Char(i + 1) = "l"

PrintString  == Short /\ Char(i + 1) = "s" /\ Convert(2, <<"string", ToString(Arg)>>)
PrintChar    == Short /\ Char(i + 1) = "c" /\ Convert(2, <<"char", ToString(Unsigned(Arg, IntSize))>>)
PrintInt     == Short /\ Char(i + 1) = "d" /\ Convert(2, itoa(Signed(Unsigned(Arg, IntSize), IntSize), 10))
PrintUnsigned == Short /\ Char(i + 1) = "u" /\ Convert(2, itoa(Unsigned(Arg, IntSize), 10))
PrintHex     == Short /\ Char(i + 1) = "x" /\ Convert(2, Prefix \o itoa(Unsigned(Arg, IntSize), 16))
PrintPointer == /\ Short /\ Char(i + 1) = "p" /\ call.lib = "kernel"
                /\ Convert(2, Prefix \o itoa(Signed(Arg, LongSize), 16))

PrintLong    == LongOne /\ Char(i + 2) = "d" /\ Convert(3, itoa(Signed(Arg, LongSize), 10))
PrintULong   == LongOne /\ Char(i + 2) = "u" /\ Convert(3, itoa(Signed(Arg, LongSize), 10))
PrintLongHex == LongOne /\ Char(i + 2) = "x" /\ Convert(3, Prefix \o itoa(Signed(Arg, LongSize), 16))

Percent ==
    /\ Short /\ Char(i + 1) = "%"
    /\ Write(<<"%">>)
    /\ i' = i + 2
    /\ UNCHANGED <<call, arg>>

\* An unknown conversion is written as it is, and a long one of a user program
\* not at all; it takes no argument.
UnknownConversion ==
    LET n == IF LongOne THEN 3 ELSE 2
    IN  /\ Short
        /\ IF LongOne THEN Char(i + 2) \notin {"d", "u", "x"}
           ELSE Char(i + 1) \notin {"s", "c", "d", "u", "x", "%"} \cup (IF call.lib = "kernel" THEN {"p"} ELSE {})
        /\ Write(IF LongOne /\ call.lib = "user" THEN <<>> ELSE SubSeq(call.fmt, i, i + n - 1))
        /\ i' = i + n
        /\ UNCHANGED <<call, arg>>

Init == call \in Calls /\ i = 1 /\ arg = 0 /\ out = <<>>

Next ==
    \/ PlainChar \/ PrintString \/ PrintChar \/ PrintInt \/ PrintUnsigned \/ PrintHex
    \/ PrintPointer \/ PrintLong \/ PrintULong \/ PrintLongHex \/ Percent \/ UnknownConversion

Spec == Init /\ [][Next]_vars

--------------------------------------------------------------------------------
(* Properties *)

\* A number in positional notation.
Width(v, b) == CHOOSE n \in 1 .. LongSize : v < b ^ n /\ (n > 1 => v >= b ^ (n - 1))
Numeral(v, b) == [k \in 1 .. Width(v, b) |-> digits[1 + ((v \div b ^ (Width(v, b) - k)) % b)]]
Decimal(v) == IF v < 0 THEN <<"-">> \o Numeral(-v, 10) ELSE Numeral(v, 10)

\* What a format means, from position k on with the arguments from a on.
RECURSIVE Meaning(_, _)
Meaning(k, a) ==
    LET long == Char(k + 1) = "l"
        c    == IF long THEN Char(k + 2) ELSE Char(k + 1)
        w    == IF long THEN LongSize ELSE IntSize
        v    == call.args[a]
        rest(n, b) == Meaning(k + n + (IF long THEN 1 ELSE 0), b)
    IN  IF Char(k) = "NUL" THEN <<>>
        ELSE IF Char(k) # "%" THEN <<Char(k)>> \o Meaning(k + 1, a)
        ELSE CASE c = "d" -> Decimal(Signed(v % w, w)) \o rest(2, a + 1)
               [] c = "u" -> Decimal(v % w) \o rest(2, a + 1)
               [] c = "x" -> Prefix \o Numeral(v % w, 16) \o rest(2, a + 1)
               [] c = "p" /\ ~long /\ call.lib = "kernel" -> Prefix \o Numeral(v, 16) \o rest(2, a + 1)
               [] c = "s" /\ ~long -> <<"string", ToString(v)>> \o rest(2, a + 1)
               [] c = "c" /\ ~long -> <<"char", ToString(v % IntSize)>> \o rest(2, a + 1)
               [] c = "%" /\ ~long -> <<"%">> \o rest(2, a)
               [] OTHER -> (IF long /\ call.lib = "user" THEN <<>>
                            ELSE IF long THEN <<"%", "l", c>> ELSE <<"%", c>>) \o rest(2, a)

\* %lu goes through a signed long: its argument must not have the top bit.
TopBit == \E k \in 1 .. Len(call.fmt) - 2 :
    SubSeq(call.fmt, k, k + 2) = <<"%", "l", "u">> /\ \E a \in DOMAIN call.args : call.args[a] >= LongSize \div 2

(* What is printed is what the format means: every argument goes to its    *)
(* conversion, also behind unknown ones, and every number comes out with   *)
(* its sign and all its digits, the least long and zero among them.        *)
PrintsMeaning == Char(i) = "NUL" /\ ~TopBit => out = Meaning(1, 1)
================================================================================
