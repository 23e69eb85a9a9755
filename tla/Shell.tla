--------------------------------- MODULE Shell ---------------------------------
(***************************************************************************)
(* What programs/shell/main.c does with a line: tokenize cuts it into      *)
(* words in place, the table of commands is searched for the first one,    *)
(* and the command runs.  The buffer is never cleared: behind the line it  *)
(* still holds what earlier lines and earlier cuts left there.             *)
(***************************************************************************)
EXTENDS Integers, Sequences, FiniteSets
LOCAL INSTANCE SequencesExt

CONSTANTS
    LINE_MAX,       \* size of the buffer (128)
    ARGV_MAX,       \* size of argv (16)
    Alphabet,       \* characters that can be typed
    Commands        \* name -> what the command does

Blanks == {" ", "TAB"}
NUL    == "NUL"

SizeAssumption == LINE_MAX \in Nat \ {0} /\ ARGV_MAX \in Nat \ {0}

VARIABLES
    pc,         \* "read", "tokenize", "find" or the command that runs
    buf,        \* line[LINE_MAX]
    p,          \* tokenize's pointer into it
    argv,       \* positions of the words
    k,          \* cmd_echo's argument
    out,        \* what the command has written
    typed       \* ghost: the line as it was entered

vars == <<pc, buf, p, argv, k, out, typed>>

Index  == 0 .. LINE_MAX - 1
argc   == Len(argv)

\* The string at position a: it ends before the first NUL.
EndOf(a) == CHOOSE e \in a .. LINE_MAX - 1 :
                buf[e] = NUL /\ \A q \in a .. e - 1 : buf[q] # NUL
strlen(a) == EndOf(a) - a
String(a) == [q \in 1 .. strlen(a) |-> buf[a + q - 1]]

\* The first position from a on, up to the NUL, whose character is in stop.
Until(a, stop) ==
    CHOOSE e \in a .. EndOf(a) :
        /\ e = EndOf(a) \/ buf[e] \in stop
        /\ \A q \in a .. e - 1 : buf[q] \notin stop

--------------------------------------------------------------------------------

Lines == UNION {[1 .. n -> Alphabet] : n \in 0 .. LINE_MAX - 1}

\* What readline leaves in the buffer; main ignores an empty line.
readline ==
    /\ pc = "read"
    /\ \E l \in Lines :
        /\ typed' = l
        /\ buf' = [a \in Index |-> IF a < Len(l) THEN l[a + 1]
                                   ELSE IF a = Len(l) THEN NUL ELSE buf[a]]
        /\ pc' = IF l = <<>> THEN "read" ELSE "tokenize"
    /\ p' = 0 /\ argv' = <<>> /\ k' = 1 /\ out' = <<>>

FullLate == argc >= ARGV_MAX
Full     == argc >= ARGV_MAX - 1

TokenizeNoCut ==
    LET word == Until(p, Alphabet \ Blanks)
    IN  /\ pc = "tokenize"
        /\ buf[p] # NUL /\ buf[word] # NUL /\ ~Full
        /\ argv' = Append(argv, word)
        /\ p' = Until(word, Blanks)
        /\ UNCHANGED <<pc, buf, k, out, typed>>

\* One round of tokenize's loop: skip blanks, note the word, cut after it.
TokenizeWord ==
    LET word == Until(p, Alphabet \ Blanks)
        end  == Until(word, Blanks)
    IN  /\ pc = "tokenize"
        /\ buf[p] # NUL /\ buf[word] # NUL /\ ~Full
        /\ argv' = Append(argv, word)
        /\ buf' = [buf EXCEPT ![end] = NUL]
        /\ p' = IF buf[end] # NUL THEN end + 1 ELSE end
        /\ UNCHANGED <<pc, k, out, typed>>

\* The loop ends at the end of the line or when argv is full.
TokenizeDone ==
    /\ pc = "tokenize"
    /\ \/ buf[p] = NUL
       \/ buf[Until(p, Alphabet \ Blanks)] = NUL
       \/ Full
    /\ pc' = IF argc = 0 THEN "read" ELSE "find"
    /\ UNCHANGED <<buf, p, argv, k, out, typed>>

\* The first entry of cmds whose name is argv[0].
Find ==
    /\ pc = "find"
    /\ pc' = IF String(argv[1]) \in DOMAIN Commands THEN Commands[String(argv[1])] ELSE "unknown"
    /\ UNCHANGED <<buf, p, argv, k, out, typed>>

SeparatorFirst(n) == IF n > 0 THEN <<" ">> ELSE <<>>
Separator(n) == IF n > 1 THEN <<" ">> ELSE <<>>

\* cmd_echo: the arguments, with a space between two of them.
cmd_echo ==
    /\ pc = "echo"
    /\ IF k < argc
       THEN /\ out' = out \o Separator(k) \o String(argv[k + 1])
            /\ k' = k + 1
            /\ UNCHANGED pc
       ELSE /\ out' = Append(out, "NL")
            /\ pc' = "read"
            /\ UNCHANGED k
    /\ UNCHANGED <<buf, p, argv, typed>>

\* cmd_help, cmd_clear and cmd_info, which make their effects and come back, and
\* the message about an unknown command.  cmd_shutdown and cmd_reboot never do.
OtherCommand ==
    /\ pc \notin {"read", "tokenize", "find", "echo", "shutdown", "reboot"}
    /\ out' = IF pc = "unknown" THEN String(argv[1]) ELSE <<>>
    /\ pc' = "read"
    /\ UNCHANGED <<buf, p, argv, k, typed>>

Init ==
    /\ pc = "read" /\ buf = [a \in Index |-> NUL]
    /\ p = 0 /\ argv = <<>> /\ k = 1 /\ out = <<>> /\ typed = <<>>

Next == readline \/ TokenizeWord \/ TokenizeDone \/ Find \/ cmd_echo \/ OtherCommand

Spec == Init /\ [][Next]_vars

--------------------------------------------------------------------------------
(* Properties *)

(* argv and the NULL that main expects behind it fit into ARGV_MAX places, *)
(* and tokenize's pointer stays on the line.                               *)
TypeOK ==
    /\ buf \in [Index -> Alphabet \cup {NUL}]
    /\ argc + 1 <= ARGV_MAX
    /\ p \in 0 .. Len(typed)

\* The words of a line by what they are: longest runs without a blank.
Words(l) ==
    {w \in (1 .. Len(l)) \X (1 .. Len(l)) :
        /\ w[1] <= w[2]
        /\ \A q \in w[1] .. w[2] : l[q] \notin Blanks
        /\ w[1] = 1 \/ l[w[1] - 1] \in Blanks
        /\ w[2] = Len(l) \/ l[w[2] + 1] \in Blanks}

\* The n-th word.
Word(l, n) ==
    LET w == CHOOSE w \in Words(l) : Cardinality({v \in Words(l) : v[1] <= w[1]}) = n
    IN  SubSeq(l, w[1], w[2])

(* When a command is looked up, argv holds the words of the line in order, *)
(* each ended in place, up to the ARGV_MAX - 1 that fit: whatever the      *)
(* buffer held behind the line, and however many blanks there are.         *)
TokensRight ==
    pc \notin {"read", "tokenize"} =>
        LET n == Cardinality(Words(typed))
        IN  /\ argc = IF n < ARGV_MAX - 1 THEN n ELSE ARGV_MAX - 1
            /\ \A j \in 1 .. argc : String(argv[j]) = Word(typed, j)

(* echo writes the words behind the first, one blank apart, whatever the   *)
(* blanks in the line were, and no more words than argv had room for.      *)
EchoPrintsWords ==
    pc = "read" /\ out # <<>> /\ out[Len(out)] = "NL" =>
        out = FlattenSeq([j \in 1 .. argc - 1 |->
                            (IF j > 1 THEN <<" ">> ELSE <<>>) \o Word(typed, j + 1)]) \o <<"NL">>
================================================================================
