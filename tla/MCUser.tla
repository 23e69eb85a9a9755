--------------------------------- MODULE MCUser --------------------------------
(***************************************************************************)
(* What the user meets: the terminal, the shell's line on it, the shell's  *)
(* commands, system calls, printf and the reports of the keyboard.  Each   *)
(* is a part of its own: a behaviour is one of them, on one display,       *)
(* machine or format, and the variables of the others stay as they are.    *)
(***************************************************************************)
EXTENDS Readline, KeyReports, Effects, MCUserInputs

VARIABLES
    part,
    \* of the shell's commands, which have out as well
    shell_pc, buf, p, argv, k, typed,
    \* of printf, which has out as well
    call, arg, i

Te == INSTANCE Terminal
        WITH Modes <- SmallModes, Printable <- {" ", "?", "a"}
Sh == INSTANCE Shell
        WITH pc <- shell_pc, LINE_MAX <- 6, ARGV_MAX <- 3, Alphabet <- {"e", " ", "TAB"},
             Commands <- SmallCommands
Pf == INSTANCE Printf WITH LongSize <- 256, IntSize <- 16, Calls <- SmallCalls

ASSUME Te!ModesAssumption /\ Te!PrintableAssumption /\ Sh!SizeAssumption
ASSUME ModesAssumption /\ PrintableAssumption /\ LineAssumption
ASSUME EffectsAssumption /\ TextsAssumption

--------------------------------------------------------------------------------
(* The variables that a part has alone, and what the others leave alone.   *)

screenVars == <<mode, vram, terminal_row, terminal_column>>
lineVars   == <<pc, line, reach>>
shellVars  == <<shell_pc, buf, p, argv, k, typed>>
printfVars == <<call, arg, i>>

\* A part that does not run stands where it begins.
NoScreen == mode = Vga(1, 1) /\ vram = [a \in {0} |-> Background]
            /\ terminal_row = 0 /\ terminal_column = 0
NoLine   == pc = "start" /\ line = <<>> /\ reach = 0
NoShell  == shell_pc = "none" /\ buf = 0 /\ p = 0 /\ argv = 0 /\ k = 0 /\ typed = 0
NoCall   == machine = (CHOOSE m \in Machines : TRUE) /\ EffectsInit
NoPrintf == call = 0 /\ arg = 0 /\ i = 0
NoReport == ReportsInit

UserInit ==
    \/ /\ part = "terminal" /\ Te!TerminalInit /\ NoLine /\ NoShell /\ NoCall /\ NoPrintf /\ NoReport
       /\ out = 0
    \/ part = "line" /\ Init /\ NoShell /\ NoCall /\ NoPrintf /\ NoReport
    \/ part = "shell" /\ Sh!Init /\ NoScreen /\ NoLine /\ NoCall /\ NoPrintf /\ NoReport
    \/ part = "call" /\ EffectsInit /\ NoScreen /\ NoLine /\ NoShell /\ NoPrintf /\ NoReport
       /\ out = 0
    \/ part = "printf" /\ Pf!Init /\ NoScreen /\ NoLine /\ NoShell /\ NoCall /\ NoReport
    \/ part = "reports" /\ ReportsInit /\ NoScreen /\ NoLine /\ NoShell /\ NoCall /\ NoPrintf
       /\ out = 0

UserNext ==
    \/ part = "terminal" /\ Te!TerminalNext
       /\ UNCHANGED <<part, out, lineVars, shellVars, effectVars, printfVars, reportVars>>
    \/ part = "line" /\ Next
       /\ UNCHANGED <<part, shellVars, effectVars, printfVars, reportVars>>
    \/ part = "shell" /\ Sh!Next
       /\ UNCHANGED <<part, screenVars, lineVars, effectVars, printfVars, reportVars>>
    \/ part = "call" /\ EffectsNext
       /\ UNCHANGED <<part, out, screenVars, lineVars, shellVars, printfVars, reportVars>>
    \/ part = "printf" /\ Pf!Next
       /\ UNCHANGED <<part, screenVars, lineVars, shellVars, effectVars, reportVars>>
    \/ part = "reports" /\ ReportsNext
       /\ UNCHANGED <<part, out, screenVars, lineVars, shellVars, effectVars, printfVars>>

UserSpec ==
    UserInit /\ [][UserNext]_<<part, out, screenVars, lineVars, shellVars, effectVars, printfVars, reportVars>>

--------------------------------------------------------------------------------
(* The properties of the other parts are those of their modules.           *)

(* Words and numbers come out as they went in: tokenize finds the words of *)
(* the line in a buffer that is never cleared, argv keeps to its limit,    *)
(* echo writes them one blank apart, and printf what its format means.     *)
PrintsMeaning ==
    /\ part = "shell" => Sh!TypeOK /\ Sh!TokensRight /\ Sh!EchoPrintsWords
    /\ part = "printf" => Pf!PrintsMeaning
================================================================================
