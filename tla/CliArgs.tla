------------------------------- MODULE CliArgs -------------------------------
(***************************************************************************)
(* The command line of a replay program (replay/kernel_replayer.cpp): the  *)
(* constructor of ScopeGuard takes its options out of argc and argv, and   *)
(* leaves the rest to Kokkos::initialize and to the program.               *)
(*                                                                         *)
(* An argument is a record: the text in front of the first equals sign     *)
(* and the text behind it, NoText when there is none.  argv[i] of the code *)
(* is argv[i + 1] here; `argv' stands for its first argc elements.         *)
(***************************************************************************)
EXTENDS Naturals, Sequences, SequencesExt

CONSTANT NoText   \* an argument without an equals sign; a null string_view

DumpOption == "--kernel-replayer-dump"
ResetFlag == "--kernel-replayer-enable-input-reset"

Word(text) == [name |-> text, value |-> NoText]

(* The text of an argument; with an equals sign it names no dump file. *)
Text(arg) == IF arg.value = NoText THEN arg.name ELSE "name=value"

Swapped(argv, i, j) == [argv EXCEPT ![i] = argv[j], ![j] = argv[i]]

\* Mutant: one argument is removed where there are two.
RemoveCliArgs_One(argv, pos, n) == RemoveAt(argv, pos)

(* remove_cli_args: the arguments behind the removed ones are swapped to   *)
(* the front, one after the other, and argc is decreased.                  *)
RemoveCliArgs(argv, pos, n) ==
    LET argc == Len(argv)
        shift[i \in pos .. argc - n + 1] ==
            IF i = pos THEN argv ELSE Swapped(shift[i - 1], i - 1, i - 1 + n)
    IN  SubSeq(IF pos + n <= argc THEN shift[argc - n + 1] ELSE argv, 1, argc - n)

(* The first position behind the program's name that a search stops at. *)
Positions(argv, Stops(_)) == {i \in 2 .. Len(argv) : Stops(argv[i])}
IsFirstOf(i, positions) == i \in positions /\ \A j \in positions : i <= j

(* find_cli_option: the argument of the first occurrence, null when there  *)
(* is none or nothing follows it, and what is left of argv.                *)
FindCliOption(argv, flag) ==
    LET at == Positions(argv, LAMBDA arg : arg.name = flag)
    IN  IF at = {} THEN [argument |-> NoText, argv |-> argv]
        ELSE LET i == CHOOSE j \in at : IsFirstOf(j, at)
             IN  IF argv[i].value # NoText
                 THEN [argument |-> argv[i].value, argv |-> RemoveCliArgs(argv, i, 1)]
                 ELSE IF i = Len(argv) THEN [argument |-> NoText, argv |-> argv]
                 ELSE [argument |-> Text(argv[i + 1]), argv |-> RemoveCliArgs(argv, i, 2)]

(* find_cli_flag *)
FindCliFlag(argv, flag) ==
    LET at == Positions(argv, LAMBDA arg : arg = Word(flag))
    IN  IF at = {} THEN [found |-> FALSE, argv |-> argv]
        ELSE [found |-> TRUE,
              argv |-> RemoveCliArgs(argv, CHOOSE j \in at : IsFirstOf(j, at), 1)]

=============================================================================
