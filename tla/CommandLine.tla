----------------------------- MODULE CommandLine -----------------------------
(***************************************************************************)
(* The line editor of main() and the command interpreter of command.c:     *)
(* characters become a line, a line becomes words, the first word names a  *)
(* command, and the lines are kept in a history.                           *)
(*                                                                         *)
(* A character is a string of length one; a word is compared with the      *)
(* table of commands as a string, so that the names and the aliases are    *)
(* those of the program.  main() enters lines only; the functions that     *)
(* recall and clear the history are offered by command.h to a line editor  *)
(* and are modelled as its calls.                                          *)
(***************************************************************************)
EXTENDS Integers, Sequences, FiniteSets

CONSTANTS
    Chars, Separators,      \* what can be typed; space and tab
    CMD_INPUT_BUF_SIZE,     \* 80 in the program
    CMD_HISTORY_SIZE,       \* 10
    CMD_MAX_ARGS,           \* 8
    CMD_MAX_CMDS,           \* 32
    NULL,
    MaxKeys                 \* bound on the number of keys, for model checking

ASSUME CommandLineAssumption ==
    /\ Separators \subseteq Chars
    /\ CMD_INPUT_BUF_SIZE \in Nat \ {0}
    /\ CMD_HISTORY_SIZE \in Nat \ {0}
    /\ CMD_MAX_ARGS \in Nat \ {0} /\ CMD_MAX_CMDS \in Nat
    /\ MaxKeys \in Nat

VARIABLES
    cli_buf,            \* the line being typed; cli_pos is its length
    history,            \* the array of lines, the newest at 0
    history_count,
    history_index,      \* the line last recalled, or -1
    last_command,
    recalled,           \* the buffer the recall functions fill
    called,             \* the last call of a handler: handler and argv
    entered,            \* every line saved since the history was cleared
    keys                \* how many keys were pressed

vars == << cli_buf, history, history_count, history_index, last_command,
           recalled, called, entered, keys >>

Slots == 0 .. CMD_HISTORY_SIZE - 1
Lines == {l \in Seq(Chars) : Len(l) < CMD_INPUT_BUF_SIZE}
Empty == << >>
NoCall == [handler |-> NULL, argv |-> << >>]

-----------------------------------------------------------------------------
(***************************************************************************)
(* The table of commands.                                                  *)
(***************************************************************************)
Entry(name, alias, handler) == [name |-> name, alias |-> alias, handler |-> handler]

\* Faulty: the alias of pause is that of run.
register_commands_SameAlias ==
    << Entry("begin", "b", "begin_cmd"), Entry("pause", "r",  "pause_cmd"),
       Entry("run",   "r", "run_cmd"),   Entry("break", "br", "break_cmd") >>

register_commands ==
    << Entry("dump",    NULL,  "dump_cmd"),  Entry("load",  "l",  "load_cmd"),
       Entry("prn",     NULL,  "prn_cmd"),   Entry("debug", "d",  "debug_cmd"),
       Entry("begin",   "b",   "begin_cmd"), Entry("pause", "p",  "pause_cmd"),
       Entry("run",     "r",   "run_cmd"),   Entry("step",  "s",  "step_cmd"),
       Entry("break",   "br",  "break_cmd"), Entry("breakmb", "brm", "break_drum_cmd"),
       Entry("reg",     "rg",  "reg_cmd"),   Entry("view",  "v",  "view_cmd"),
       Entry("fram",    "fr",  "fram_cmd"),  Entry("drum",  "dr", "drum_cmd"),
       Entry("help",    "h",   "help_cmd"),  Entry("quit",  "q",  "quit_cmd"),
       Entry("calc",    NULL,  "calc_cmd") >>

\* No function is at address NULL.
ASSUME HandlersAssumption ==
    \A i \in DOMAIN register_commands : register_commands[i].handler # NULL

\* command_add drops an entry for which there is no place.
entries ==
    SubSeq(register_commands, 1,
           IF Len(register_commands) < CMD_MAX_CMDS THEN Len(register_commands)
                                                    ELSE CMD_MAX_CMDS)

\* strcasecmp compares lower-case letters; a handler is called with the words
\* as they were typed.
Lower(c) == CASE c = "B" -> "b" [] c = "R" -> "r" [] OTHER -> c
Text(word) ==
    LET text[n \in 0 .. Len(word)] == IF n = 0 THEN "" ELSE text[n - 1] \o Lower(word[n])
    IN  text[Len(word)]

Matches(text, e) == text = e.name \/ (e.alias # NULL /\ text = e.alias)

\* The first entry that matches.
Lookup(text) ==
    LET matching == {i \in DOMAIN entries : Matches(text, entries[i])}
    IN  IF matching = {} THEN NULL
        ELSE entries[CHOOSE i \in matching : \A j \in matching : i <= j].handler

-----------------------------------------------------------------------------
(***************************************************************************)
(* Splitting a line, as the pointer p walks over it.                       *)
(***************************************************************************)
SkipSeparators(line, p) ==
    CHOOSE q \in p .. Len(line) + 1 :
        /\ \A i \in p .. q - 1 : line[i] \in Separators
        /\ q <= Len(line) => line[q] \notin Separators

WordEnd(line, p) ==
    CHOOSE q \in p .. Len(line) + 1 :
        /\ \A i \in p .. q - 1 : line[i] \notin Separators
        /\ q <= Len(line) => line[q] \in Separators

\* Faulty: separators before a word are not skipped.
command_parse_line_NoSkip(line) ==
    LET walk[left \in 0 .. CMD_MAX_ARGS] ==
            [p \in 1 .. Len(line) + 2 |->
                IF p > Len(line) \/ left = 0 THEN << >>
                ELSE << SubSeq(line, p, WordEnd(line, p) - 1) >>
                     \o walk[left - 1][WordEnd(line, p) + 1]]
    IN  walk[CMD_MAX_ARGS][1]

\* The words from place p on, with so many places left in argv.
command_parse_line(line) ==
    LET walk[left \in 0 .. CMD_MAX_ARGS] ==
            [p \in 1 .. Len(line) + 2 |->
                LET word == SkipSeparators(line, p)
                IN  IF p > Len(line) \/ left = 0 \/ word > Len(line) THEN << >>
                    ELSE << SubSeq(line, word, WordEnd(line, word) - 1) >>
                         \o walk[left - 1][WordEnd(line, word) + 1]]
    IN  walk[CMD_MAX_ARGS][1]

-----------------------------------------------------------------------------
TypeOK ==
    /\ cli_buf \in Lines
    /\ history \in [Slots -> Lines]
    /\ history_count \in 0 .. CMD_HISTORY_SIZE
    /\ history_index \in -1 .. CMD_HISTORY_SIZE - 1
    /\ last_command \in Lines
    /\ recalled \in Lines
    /\ entered \in Seq(Lines)
    /\ keys \in 0 .. MaxKeys

(* command_init, and an empty line in main. *)
Init ==
    /\ cli_buf = Empty
    /\ history = [i \in Slots |-> Empty]
    /\ history_count = 0 /\ history_index = -1
    /\ last_command = Empty /\ recalled = Empty
    /\ called = NoCall
    /\ entered = << >>
    /\ keys = 0

Key == keys < MaxKeys /\ keys' = keys + 1

Recall == << history, history_count, history_index, recalled, entered >>

-----------------------------------------------------------------------------
(***************************************************************************)
(* A key of the line editor.  Characters that do not fit are dropped.      *)
(***************************************************************************)
TypeChar_NoRoomForZero(c) ==      \* Faulty: no place for the terminating zero.
    /\ Key
    /\ cli_buf' = IF Len(cli_buf) < CMD_INPUT_BUF_SIZE THEN Append(cli_buf, c) ELSE cli_buf
    /\ UNCHANGED << Recall, last_command, called >>

TypeChar(c) ==
    /\ Key
    /\ cli_buf' = IF Len(cli_buf) < CMD_INPUT_BUF_SIZE - 1 THEN Append(cli_buf, c)
                                                           ELSE cli_buf
    /\ UNCHANGED << Recall, last_command, called >>

Backspace ==
    /\ Key
    /\ cli_buf # Empty
    /\ cli_buf' = SubSeq(cli_buf, 1, Len(cli_buf) - 1)
    /\ UNCHANGED << Recall, last_command, called >>

\* Faulty: the lines are moved from the newest to the oldest.
command_save_history_Smears(line) ==
    /\ history' = [i \in Slots |-> line]
    /\ history_count' = IF history_count < CMD_HISTORY_SIZE THEN history_count + 1
                                                            ELSE history_count
    /\ history_index' = -1
    /\ entered' = Append(entered, line)

command_save_history_KeepsIndex(line) ==
    /\ history' = [i \in Slots |-> IF i = 0 THEN line ELSE history[i - 1]]
    /\ history_count' = IF history_count < CMD_HISTORY_SIZE THEN history_count + 1
                                                            ELSE history_count
    /\ history_index' = history_index
    /\ entered' = Append(entered, line)

command_save_history(line) ==
    /\ history' = [i \in Slots |-> IF i = 0 THEN line ELSE history[i - 1]]
    /\ history_count' = IF history_count < CMD_HISTORY_SIZE THEN history_count + 1
                                                            ELSE history_count
    /\ history_index' = -1
    /\ entered' = Append(entered, line)

command_execute(line) ==
    LET argv == command_parse_line(line)
    IN  IF argv = << >>
        THEN UNCHANGED << last_command, called >>
        ELSE /\ last_command' = line
             /\ called' = IF Lookup(Text(argv[1])) = NULL THEN called
                          ELSE [handler |-> Lookup(Text(argv[1])), argv |-> argv]

Enter ==
    /\ Key
    /\ cli_buf # Empty
    /\ command_save_history(cli_buf)
    /\ command_execute(cli_buf)
    /\ cli_buf' = Empty
    /\ UNCHANGED recalled

-----------------------------------------------------------------------------
(***************************************************************************)
(* The history.                                                            *)
(***************************************************************************)
command_recall_up ==
    /\ Key
    /\ history_index + 1 < history_count
    /\ history_index' = history_index + 1
    /\ recalled' = history[history_index + 1]
    /\ UNCHANGED << cli_buf, history, history_count, last_command, called, entered >>

command_recall_down ==
    /\ Key
    /\ IF history_index <= 0
       THEN history_index' = -1 /\ recalled' = Empty
       ELSE history_index' = history_index - 1 /\ recalled' = history[history_index - 1]
    /\ UNCHANGED << cli_buf, history, history_count, last_command, called, entered >>

command_reset_history_index ==
    /\ Key
    /\ history_index' = -1
    /\ UNCHANGED << cli_buf, history, history_count, last_command, recalled, called, entered >>

command_clear_history ==
    /\ Key
    /\ history' = [i \in Slots |-> Empty]
    /\ history_count' = 0
    /\ history_index' = -1
    /\ entered' = << >>
    /\ UNCHANGED << cli_buf, last_command, recalled, called >>

Next ==
    \/ \E c \in Chars : TypeChar(c)
    \/ Backspace \/ Enter
    \/ command_recall_up \/ command_recall_down
    \/ command_reset_history_index \/ command_clear_history

Spec == Init /\ [][Next]_vars

-----------------------------------------------------------------------------
(* The history holds the newest lines, the newest first, without a gap and *)
(* without a repetition, before and after the array is full; beyond them   *)
(* it is empty.                                                            *)
HistoryIsTheNewestLines ==
    /\ history_count <= Len(entered)
    /\ history_count < Len(entered) => history_count = CMD_HISTORY_SIZE
    /\ \A i \in Slots :
          history[i] = IF i < history_count THEN entered[Len(entered) - i] ELSE Empty

(* A recall never leaves the lines that are there: whatever was saved or   *)
(* cleared in between, the line that is shown is the line of the index.    *)
RecallShowsTheIndex ==
    history_index >= 0 =>
        /\ history_index < history_count
        /\ recalled = history[history_index]

(* The words of a line, as a reader would define them: the longest runs of *)
(* characters that are not separators, from the first to the last place.   *)
WordsOf(line) ==
    {w \in (DOMAIN line) \X (DOMAIN line) :
        /\ w[1] <= w[2]
        /\ \A i \in w[1] .. w[2] : line[i] \notin Separators
        /\ w[1] = 1 \/ line[w[1] - 1] \in Separators
        /\ w[2] = Len(line) \/ line[w[2] + 1] \in Separators}

(* The walk of the parser finds exactly the words of the line, in order,   *)
(* and of too many words the first ones.                                   *)
ParserFindsTheWords ==
    LET argv    == command_parse_line(cli_buf)
        words   == WordsOf(cli_buf)
        Rank(w) == Cardinality({v \in words : v[1] <= w[1]})
    IN  /\ Len(argv) = Cardinality({w \in words : Rank(w) <= CMD_MAX_ARGS})
        /\ \A w \in words :
              Rank(w) <= CMD_MAX_ARGS => argv[Rank(w)] = SubSeq(cli_buf, w[1], w[2])

(* A line runs the command its first word names, with its words as         *)
(* arguments: no earlier entry of the table hides a later one behind a     *)
(* name or an alias, and a line without a known word runs nothing.         *)
LineRunsItsCommand ==
    [][Enter =>
        LET argv  == command_parse_line(cli_buf)
            named == {i \in DOMAIN entries : argv # << >> /\ Matches(Text(argv[1]), entries[i])}
        IN  /\ \A i \in named :
                  called' = [handler |-> entries[i].handler, argv |-> argv]
            /\ named = {} => called' = called]_vars
=============================================================================
