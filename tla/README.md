# Emulator-Setun-1958: TLA+ models, model checks and proofs

The repository emulates the Setun, a ternary computer of 1958: a *virtual machine*
(registers, ferrite memory, magnetic drum, paper tape, typewriter, 27 operation
codes), the *control panel* around it (a main loop that interleaves the operator's
commands with the turns of the emulation, breakpoints, the files of the devices,
the drum's backup on disk), a *command interpreter*, and a *unit-test runner*.
These modules describe all four. Line numbers without a file are those of
`src/setun1958_vm.c`.

## 1. Inventory

| Component | State | Operations | What makes it correct |
|---|---|---|---|
| Ternary arithmetic (430-1870, 2608-2916) | none; words are pairs of bit planes `t1`, `t0` | `add_trs`, `sub_trs`, `mul_trs`, `and_trs`, `xor_trs`, `shift_trs`, slices, copies, conversions | the operations are those of the numbers the planes denote, within the width of the register; what is printed reads back |
| Ferrite memory and drum (1880-2371) | `mem_fram[81][2]`, `mem_drum[36][54]` | `ld_fram`, `st_fram`, `next_address`, `fram_to_drum`, `drum_to_fram`, clean | a store changes the named cells only; a page survives a trip over the drum word for word |
| Paper tape (3625-3930, 3988-4052, 4179-4741, 5850-6190) | files `ptr1`, `ptr2`, `ptp1`, their streams, `script.sst` | four readers, two punches, the tape writer, `load` | a tape that was written or punched reads back as the words it was made of, page by page; a reader keeps its place; a load leaves all of a program or nothing |
| Typewriter (4053-4178) | letter/digit switch, Russian/Latin switch | print commands, print symbols, `prn` | a page of commands is legible, whatever switch the pages before it left |
| Virtual machine (4753-5845, 6200-6250, 6598-6644) | `K F C W S R MB`, status | `Emu_Begin`, `Emu_Step`, one function per operation code, `reg`, `dump` | each operation changes what the operation table says, a failed one nothing |
| Main loop and panel (6555-7415) | `emu_stat`, `STEP`, `counter_step`, breakpoints, open files | `begin`, `pause`, `run`, `step`, `break`, `breakmb`, `reg`, `quit`, `Process_Work_Emulation` | nothing runs without an order, a command is carried out, a stop stops |
| Drum backup (2065-2140) | `drum/drum.bak` | `Write_Backup_DRUM` at `quit`, `Read_Backup_DRUM` at start | the file is the drum after a save that came to its end; a crash harms no more than one zone of the new file; no failed save harms the old one before it is truncated |
| Command interpreter (`command.c`, 7295-7411) | line buffer, history ring and its index | keys, parse, execute, save, recall, clear | a line runs the command it names; the history is the newest lines |
| Unit-test runner (`unittest_framework.c`, `unittest_main.c`) | table of tests, counters, jump buffer, signal mask | register, run all, run one, assertions, signal handler, summary | every test is counted once; the status of the process tells the truth; a fault stays inside its test |
| Printer tables (3625-3910) | `tab4_*` | `init_tab4` | the tables of punch and readers are inverse |
| Start-up script (6321-6474) | none that is used | `view_next_start` after a stop | prints only |
| Views, log, calculator | none | printing | only the conversions are modelled |
| Tests and older copy of the machine (`unittest_setun1958/`), programs (`software/`) | | | read, not modelled |

How they interact: `main` reads one character of standard input without
blocking; when there is none it calls `Process_Work_Emulation`. A complete line
goes to the history and to the command interpreter, whose handlers assign
`emu_stat`, `STEP` and the breakpoints directly. So commands and turns interleave
in any order, but neither interrupts the other. A turn calls `Emu_Begin` or
`Emu_Step`; `Emu_Step` fetches, modifies the address by `F` and calls an operation,
which works on the memories and on the device files the panel opened. `load`
rewrites a tape, and copies a script, whether or not a reader is open on it. The
drum goes to disk only in `quit`. The test runner is a process of its own; its
tests share with it only `longjmp` and signals.

What is hard here: the three address spaces (addresses with three halves, page
places, drum indices) that must agree; words whose two halves can be addressed
alone; the edges of the widths (carry, shift count, first and last trit); the
position of a reader on a tape that another part wrote, or rewrites; statuses,
breakpoints and commands that all assign `emu_stat`; the save of the drum, which
truncates the old file first; files opened by every start and closed by none; an
index into a history that moves; and a jump out of a signal handler.
`PROJECT.json` lists each hazard at its line.

## 2. Modules

    Ternary            numbers of n trits                        (no state)
      Memory           ferrite memory, drum, transfers           (no state)
        PaperTape      readers, punches, tape writer             (no state; uses TapeCode)
          Typewriter   tables and switches of TTY1               (no state)
            Setun      the virtual machine: state, actions, properties
              SetunComments    what comments promise and the code does not do
                MCSetun        instance with rows of two trits
                MCSetunFull    instance with the sizes of the program
    TapeCode           telegraph code, nonary digits             (no state)
    TritPlanes         words as bit planes, the functions trit by trit; agrees with Ternary
      TritNotation     conversions, printing, logic
        MCTritPlanes   instance with words of four trits
    Panel              what the operator is promised (abstract)
    EmuControl         main loop, commands, files, drum.bak; implements Panel
      MCEmuControl     instance
    TapeSession        tapes on disk, streams, load, start, quit
      MCTapeSession    instance
    CommandLine        line editor, parser, command table, history
      MCCommandLine    instance
    UnitRunner         unit-test framework and its main
    Induction          induction over an interval, solutions of recursive definitions
    Ternary_proofs, TritPlanes_proofs, Setun_proofs, EmuControl_proofs,
    TapeSession_proofs, CommandLine_proofs, UnitRunner_proofs

**Ternary, Memory, PaperTape, Typewriter** are operators with the names of the C
functions. A word is the integer its two bit planes denote; `Word(n)` are the words
of n trits. `TRS_WIDTH` is the 32 bits of a plane: a shift count is taken modulo 32,
as the processor does with the count that C leaves undefined. `mul_trs` does what
the C function does (it shifts the multiplicand to the right), not what a product
is. A page is walked with `next_address`; `PageWalk(k1, m)` is its closed form
(proved in `Setun_proofs`), and `StoreRun`/`LoadRun` are the loops over a page
(a cell written twice keeps the last word). A tape is the sequence of tokens
`fscanf("%s")` finds: frames, blank lines and nonary words. **TapeCode** has the
tables of `init_tab4` row by row, because nothing but their rows makes the readers'
tables the inverse of the punch's.

**TritPlanes** has the arithmetic once more on the form the program keeps, a
length and two bit planes, with the sum tables, the carry and the masks of the C
code; it is the bridge between the planes of the source and the numbers of the
other modules. **TritNotation** adds what a word looks like: signs, nonary digits,
the decimal number and the fixed-point fraction, and the functions that read them.

**Setun** has one action per function of the operation table (`op_plus00` ...
`op_minus0minus`, with `op_minus00` split by device), `op_error` for the three
unused codes, and `Emu_Begin`, `Emu_Open_Files`, `reg_cmd`, `dump_cmd` and `prn_cmd`
for what the panel does to the machine. The variables have the names of the C
globals. `A` is the modified address A*. Left out are `MR` (a scratch register
every operation loads first) and `ph1`/`ph2` (no operation can change them, which
is why `over_check` is never true).

**EmuControl** has one action per command and one per state of
`Process_Work_Emulation` (`TurnNoReady`, `TurnBegin`, `TurnStep`, `TurnPause`,
`TurnLoop`); the intermediate states STOP, ERROR and WELCOM are passed within a
turn and do not appear. The instruction a turn executes is any outcome module
`Setun` allows the panel to see: a status; with OK a new `C`, a new `MB` and
perhaps one changed drum zone; otherwise nothing (`FailedStepChangesNothing`
of Setun is what justifies this). A quit whose `fopen` of `drum.bak` fails exits at
once with the old file in place (`SaveRefused`), since `quit_cmd` does not look at the
result; otherwise the file is truncated (`SaveBegun`) and `Write_Backup_DRUM` writes a
zone per step, or loses the rest by a write error that nothing notices (`WriteLost`).
`Kill` may happen at any time and may leave the zone being written torn. `Restart`
reads `drum.bak`, or starts with a blank drum when it cannot be opened. `backup` says
which of these the session has been through, and `older` is a history variable: the
file as the session found it. A write of one bad index in `init_tab4` reaches
`emu_stat` in the release build, so power on leaves NOREADY or LOOP
(`PowerOnStates`, a choice over the outcomes of builds).

**Panel** is the abstract specification: idle, starting, stepping, running; an
instruction needs an order, a single step executes exactly one, and a status
other than OK makes the panel idle. `EmuControl!mode` is the refinement mapping.

**TapeSession** models what the files are while a session goes on. A tape of a reader
is a sequence of bytes, of which white space is told apart: a frame that `load` writes
has two bytes of it behind, a separator one. `fscanf` takes words (`Taken`), but the
stream fills its buffer `BLOCK` bytes at a time from its own offset (`AfterPage`), and
an end of file is final. What the words mean is `PaperTape`'s; here an instruction takes
any number of them up to `PAGE`. The punch, whose frames all have eight bytes, is
counted in frames (`PUNCH_BLOCK` a buffer, an integral number of them), and writes at
the offset of its stream. `load_cmd` is the whole of
`ConvertSWtoPaper`: the directory that stays open, the tape that is truncated before
the list is read, the names copied over one another, and the copy of the script,
each as far as the number of open files allows. `Emu_Open_Files` is the turn that
opens the devices or the start button; it drops the old streams. `quit_cmd` closes
the current streams and lets `exit` write the buffers of the dropped ones.

**CommandLine** has one action per key of `main`'s line editor and one per function
of the history. The words and the table of commands are strings, so that names and
aliases are those of the program. `main` never calls the recall functions; they are
modelled as what `command.h` offers. `entered` is the list of all saved lines, a
history variable.

**UnitRunner**: a test returns, fails an assertion (`longjmp` from the test) or
raises a signal (`longjmp` from the handler, with the signal left blocked). `abort`
unblocks its own signal in some C libraries and not in others; both are modelled.

## 3. Runs

| Run | Instance | Shows |
|---|---|---|
| `trit_planes` | words of 4 trits, 23 shift counts | every function on planes gives the number `Ternary` says, for all pairs of words, and leaves no stray bit; printing and reading are inverse |
| `setun_isa` | RT=2, 2 instructions | every code at addresses of each half in the first and last row of every page, with and without index: transfers, stores, normalisation, failed steps, fetch of long words |
| `setun_io` | RT=4 (real sizes), 4 instructions | loader tapes of three pages in two files, every device, zones 4, 5, 40, punching and reading back, typing, the dump of a file |
| `panel` | 2 addresses, 2 zones, 3 commands | the backup, breakpoints, `Panel`, and that pause, step, begin and quit are carried out |
| `tape_session` | 3 programs, 2 loads, 2 starts, 2 pages, 10 files | readers under a load, the script beside its tape, the punch across starts, loads that run out of files |
| `command_line` | 9 keys, lines of 5, history of 2, 2 arguments | buffer, parser, history, recall, the command that is run |
| `unit_runner` | 2 names, 3 signals, 4 tests | counters, status, containment of faults, the end of the runner |
| `overflow`, `multiply`, `clean_page`, `quit_crash`, `faults_contained` | as above | one counterexample each: see section 6 |

*Bounds.* `MCSetun` keeps the structure of the machine with fewer trits: rows of
two trits, nine rows, three pages of six short words, two drum zones; short words
keep their three trits of operation and one index mark. Two instructions
(`MaxSteps`) are enough for the properties of single steps in every state one
instruction (of any kind) and the operator's registers (`S` with a full first trit,
`F`) can produce. `MCSetunFull` has the real constants, needed by the device codes
27, -27, 18, by the zone numbers 4..40, which do not fit into two trits, and by shifts
above 32; its tape has a file of two pages, so that a page ends in the middle of a
file; its programs are the interesting sequences (read, put out, punch; type symbols
and then commands; write a zone and read it; read three pages in a row); its dumped
file has two pages and two words, so that the walk crosses two ends of a page and
stops inside the third. Four trits give `TritPlanes` all 81 words, carries through
every number of places, an even and an odd length of a slice or copy on both sides;
its shift counts lie on both sides of zero, of the word, of the 32 bits of a plane
and at the largest count an address holds.

In `MCEmuControl` two zones show a save with one zone written and one not, one
that a write error spoils and one that it leaves out, two
addresses a breakpoint hit and missed, `COUNTER_RANGE` 2 (2^32 in the program) a
wrap, `MaxStep` 2 a counter that is left over; three commands (`MaxCommands`) are
enough for one to overtake another and for a quit after both.

In `MCTapeSession` a frame has two bytes and two of white space behind it, a separator
(one, `SEPARATORS`, 5 in the program) three in all: as in the program, frames and
separators differ in length. With a block of five bytes (`BLOCK`, 4096 in the program)
every refill ends within a word or between words, at another place in each tape, so a
refill after a load does cut words and join them; pages of one to three words (`PAGE`)
end inside a block. The tapes are shorter and longer than a block and than a page, and
the first tape is none of them. The punch has blocks of two frames (`PUNCH_BLOCK`, 512
in the program). Ten files (`MAX_OPEN`;
the limit of the system in the program, usually 1024, or 512 on Windows) are used up
by two starts of four and two loads, in every order, so that each `fopen` of a load
is the one that fails in some behaviour. `MaxLoads`, `MaxBegins` and `MaxPages` are 2: a
load before and after a reader's first page, a second start with frames in the buffer of
the first.
One of the programs has a list whose last line is shorter than the name before it.

In `MCCommandLine` a history of two lines (`CMD_HISTORY_SIZE`, 10 in the program) is
full after two and shifts at the third; lines of five (`CMD_INPUT_BUF_SIZE` 6, 80 in
the program) hold three words with `CMD_MAX_ARGS` 2 (8); the letters `b` and `R`
spell the aliases of three entries of the table, in either case. `MaxKeys` 9 types
three lines and recalls them, or overfills one. In `UnitRunner` four tests
(`UT_MAX_TESTS`, 256) raise one signal twice with another between them.

`CHECK_DEADLOCK FALSE` is said where the model stops at its bounds: the Setun runs
(`MaxSteps`), the tape session (it ends with the process) and the command line
(`MaxKeys`).

*Fairness.* `WF(Process_Work_Emulation)`: `main` loops without end and its `read`
does not block, so a turn comes whenever the operator does not type.
`WF(Write_Backup_DRUM)`: a save in progress is a plain loop. `WF(Runner)`: the test
runner is a plain sequence of calls, provided that each test ends; it has no time
limit, so a test that loops stops it. Nothing is assumed of the operator, of `Kill`
or of `Restart`; hence each liveness property of the panel allows the command to be
overtaken by another or by the end of the process.

## 4. Properties

*Machine.* `DrumWriteIsOnePage`, `DrumReadIsOnePage`: the transfers, stated by
page place without the address walk. `StoresStayInPlace`: no instruction changes a
cell its address does not name; the cleaning that follows a missing zone is excepted
(`clean_page` is about that). `NormalisationKeepsValue`: result and shift count
give the old accumulator back. `FailedStepChangesNothing`: no half-done
instruction. `LongFetchNeedsJump`: `C` designates a long word, whose first half
would be executed twice, only after a jump or an order. `DumpFollowsThePages`: a
dumped file lies in the memory as the drum and the tape would put it there.

*Devices.* `PunchReadsBack`, `PagesStayWhole`: tapes round trip through punch or
loader and reader, through the hand-written tables of each. The latter depends on a
coincidence of two functions: the reader of a full page swallows one token, and the
loader puts a separator exactly there. `PrintedCommandsReadBack`: a page typed as
commands can be typed in again as a source file, whatever was typed before.

*Planes.* `ImplementsNumbers`: the loops over trits compute the arithmetic the
other modules take for granted; `TypeOK` there says that no function leaves a bit
outside the word, or a positive trit that is zero, for a later one to trip over. A shift
count is taken modulo 32 on both sides, so nothing here is about the undefined shift.
`WhatIsPrintedReadsBack`, `ConversionIsRounding`, `RegisterTakesLowTrits` and
`XorsAgree` do the same for the conversions and the logic.

*Panel.* `BackupIsPrefix`: `drum.bak` at every moment. It is what the session found
until a quit has opened it for writing, and for good when the quit cannot; then it
holds the zones written so far and no other. `DrumSurvives`: what a start that can open
the file finds after an end of any kind. It is the drum only if the save came to its
end: an orderly quit and an exit status of 0 do not promise that. `BreakpointEndsRun`:
no run goes past a breakpoint.
`PanelSpec`: refinement of `Panel`. `OrdersAreCarriedOut`, `QuitEnds`: liveness.

*Session.* `ReaderKeepsItsPlace`: a load under an open reader may mix tapes, and cut or
join a word where a refill begins (a `Seam`); but between two seams the reader passes
what one tape the file has held has at these places, so no byte is moved, left out or
repeated, and it ends only behind the end of a tape. Without a load under a reader this
says that it reads its tape.
`TapeAndScriptBelongTogether`, `LoadIsAllOrNothing`: what a load leaves when it runs
out of files, or has a list with a short last line. `PunchedFileIsOutput`: what is on
the punch's file, at any moment, after a crash and after `quit`.

*Commands.* `HistoryIsTheNewestLines`, `RecallShowsTheIndex`: the ring and its index
against the list of all lines. `ParserFindsTheWords`: the walk of the parser against
a definition of words. `LineRunsItsCommand`: no entry of the table hides another.

*Test runner.* `EveryTestIsCounted`, `StatusTellsTheTruth`: counters and status over
the three ways out of a test. `FirstFaultIsContained`: what the signal handler does
achieve. `RunnerEnds`: liveness.

## 5. What is proved

Checked by TLAPS, for every value of the constants that the named assumptions allow:
`MemoryAssumption` (1 to 4 trits of row and a drum that is not empty),
`PaperTapeAssumption` (an even number of them), `SetunAssumption`,
`TritPlanesAssumption` (words of 1 to 18 trits), `EmuControlAssumption`,
`TapeSessionAssumption`, `SourcesAssumption`, `CommandLineAssumption`,
`HandlersAssumption`, `UnitRunnerAssumption` (typed tapes, drum images, pokes and source
files, positive sizes, lines of a list that fit into the buffer of a name, handlers that
exist). Every state invariant the runs check is a theorem, and so is every action
property but `PagesStayWhole`.

**Induction over data.** The code is full of loops: over trits, frames, symbols,
characters, lines. The models have them as sums, recursive functions and sequences made
of halves. `Induction` (a subset of an interval that has the first number and with each
number the next is the interval) and `RecursionHasSolution` (a step from each number to
the next has a function that takes it) state the two principles with sets and functions
instead of formulas, so that a proof can cite them. Both follow from the well-foundedness
of the numbers.

**`Ternary_proofs`.** The types of all operators; `mod_3_n` is the identity on words.
Then the digit theory: a word is the number of its trits (`WordHasTrits`), a sum of
digits splits at any place into a low and a high word (`NumberSplit`), and cuts, shifts,
signs, negation and sums with a carry are what they are on the trits. Powers of three
are a table, as in the source, so the facts they rest on are proved width by width.

**`TritPlanes_proofs`.** For every length of a word: `TypeCorrect` (no function leaves a
bit outside a word or a trit with two signs), `PlanesImplementNumbers` (the functions on
planes compute what `Ternary` says), and for the notation `XorsAreOne`,
`ConversionRounds`, `RegistersTakeLowTrits` and `PrintedReadsBack`. Each function has a
lemma with the trits of its result; the loop of `add_trs` is followed trit by trit with
its carry, that of `mul_trs` by partial products, and the division by 3 by the remainders
still to come.

**`Setun_proofs`.**
* Memories: `PageWalkSteps` (the closed form of the walk is the walk), `WalkCell` (it
  meets every cell of the page once, in order), `StoreRunCells`, `LoadRunCells`,
  `DrumRoundTrip` (a page written and read to any page is the page).
* Steps: `TypeCorrect`, with a lemma for each group of operations, and from it
  `FailureIsHarmless`, `LongFetch`, `DrumWrites`, `DrumReads`, `Stores`, `DumpFills`.
* `Normalises`: the shift stops at the first trit that is not zero, so the trits it
  shifts out are zeros, and the count it leaves gives the old accumulator back.
* What is put out reads back. The groups of a word are cuts of its trits, the first one
  shorter, and their sum is the word (`GroupsMakeWord`). Anything made of its halves is
  what is made element by element (`HalvesAgree`): so the reader sees every line of a
  tape that holds nothing else (`CommandLinesSeen`), and the typewriter types symbol by
  symbol (`TypedIs`). The tables are inverse, row by row (`FramesComeBack`,
  `NonaryGlyphs`). With the invariant that what has been punched is a tape and what has
  been typed is a text (`Output`), a step puts out what its page says: `PunchReads`,
  `PrintReads`.
* What the loader writes reads back. `PagesOn(tape, pages)` says where on a tape some pages
  lie, in order and with no other line of commands. The tape of any list of files of whole
  pages has their pages (`LoaderTapeHasPages`, joined from the frames of a word, a file and
  the files: `ConcatIsJoin`); a read takes the first page whole and leaves a tape with the
  others (`FirstPageIsRead`); so the start of the machine and every -00 with code 1 bring in
  the next page, in whatever state the machine is (`PagesAreRead`). The stale trit in front
  of a word drops out because the reader keeps the nine low trits of its five groups.

**`EmuControl_proofs`.** `TypeCorrect`, `BackupCorrect`, `DrumSurvivesQuit`,
`BreakpointStopsRun` and `ImplementsPanel`. `BackupIsPrefix` is inductive together with
the type invariant and the facts that a running program has begun no save, that a save
in progress has, and that nothing is left to write before (`SaveInv`); `DrumSurvives`
needs it at the moment of the restart. Both hold whichever of opening, writing and
reading the file fails. The refinement needs one invariant more (`StartsAtZero`: a start
not yet carried out has counted no instruction).

**`UnitRunner_proofs`.** `TypeCorrect`, `FaultsAreContained`, `TestsAreCounted`,
`StatusIsTrue`, for any number of tests and signals. The inductive invariant adds to the
type that every blocked signal was raised by an earlier test and that the handlers are
installed while a test runs (`SignalInv`), and that the counters, the position and the
outcomes agree in each phase (`CountInv`), among them `rc`, from which the status is made.

**`CommandLine_proofs`.** `TypeCorrect`, `HistoryIsKept`, `RecallIsFresh`, inductive
together. `WordsAreFound`: after each turn of the parser's loop the arguments are the
first maximal runs of the line, in order, and the next search starts behind the last of
them; so at the end they are as many as there are, up to the bound. `LinesRunTheirCommands`:
no name or alias of the table stands twice, so the first match is the only one.

**`TapeSession_proofs`.** `SessionTypeCorrect`, `ScriptFollowsTape`,
`LoadsAreAllOrNothing`, `ReadersKeepTheirPlace`, `PunchLosesNothing`, for every size of
buffer, page and table of descriptors and every list of sources.
`ReaderKeepsItsPlace` says nothing of the bytes in a buffer and is not inductive;
`StreamInv` says of the bytes passed and the buffer together that what has no seam inside
is of one tape (`Pieces`), and that they end at the offset of the stream, which is a seam;
so a refill, from whichever tape is there, adds a new piece (`PiecesGrow`) and ends at a
seam again (`SeamAhead`). How many bytes a word takes plays no part (`TakenFacts`).
`PunchedFileIsOutput` needs that the current stream writes at the end of its file, and
that file and buffer together are what was punched (`PunchInv`). A load
reads a list name by name if each line covers the name in the buffer before it
(`NameIsRead`: the buffer holds the name of the last line with zeros behind it).

**Only model-checked.** `PagesStayWhole`, which is about the programs of `MCSetunFull`:
`PagesAreRead` gives it for every read from a tape that holds whole pages, but that the
tape still does (no read of symbols has stopped within a page) depends on the program;
and the liveness properties `OrdersAreCarriedOut`, `QuitEnds` and `RunnerEnds`, which are
out of reach of the prover (fairness and ENABLED).

## 6. Where the code and its comments disagree

| Run | Comment or document | What happens |
|---|---|---|
| `overflow` | 5008-5010: a sum that is too large may stop the machine | the carry is written to a copy; the sum is cut, status OK |
| `multiply` | 4827: S is the product | the multiplicand is shifted the wrong way; products vanish |
| `clean_page` | 1995: clear a page | half of every row is cleared |
| `quit_crash` | README:349: quit ends the emulator | `fclose(NULL)` before the drum is saved |
| `faults_contained` | UNITTEST_HELP:219: a test that raises a signal is marked and the runner goes on | the signal stays blocked after `longjmp`; the second one ends the process |

More are in the models as the code has them, without a run of their own.

*Machine.* A shift by 32 places or more is undefined in C and modulo 32 in the build
(5012 speaks of |N| places). `+-+` sets W to the sign of S where the table (4831)
says w(R); `+--` loads R where the table (4832) says (A*)=>(C). `-KC` of
`op_minus0plus` is 0-KC (3145); `neg_trs`, which inverts both planes bit by bit, is
not the negation. The symbol reader of FT2 compares the whole word with the stop
symbol (4633-4635) and so never stops at it, where that of FT1 compares the last
symbol.

*Panel.* `step N` executes one instruction and leaves N-1 in `STEP` (145, README:49).
`init_tab4` writes behind `tab4_8`; in the release build `emu_stat` lies there, and
the machine that should be not ready after power on (170) runs. A run stops after the
instruction at the breakpoint, where README:274 speaks of the address of the stop.
The help text gives `prn` an alias it does not have. At the end of standard input
`read` returns 0, and turns go on for ever.

*Files.* `quit` ignores the result of `Write_Backup_DRUM` (7250) and exits with 0: a
`drum.bak` that cannot be opened (2075) stays as it was, a write error (2092, 2096) is
not noticed, and in both cases the drum of the session is lost without a word. A start
ignores the result of `Read_Backup_DRUM` (2114, 4758-4765): the drum is then blank, and
the next quit saves the blank one over the good backup. `dump` is documented as printing
a file (README:75) and writes one to the memory. The name in the last line of a list
keeps the tail of a longer one before it when the line has no newline (5981). The
separator written after a file has seven of its eight bytes (6090), so frames behind it
do not lie on multiples of eight; a reader under which a tape is loaded goes on at its
byte of the new tape, and the refill may cut a frame or join two halves of different
ones (`ReaderKeepsItsPlace` holds, but its words are then no frames of either tape).

*Conversions.* `d10_to_t3` clamps at one below the largest word.

## 7. Not modelled

* `div_mod_trs`, which nothing calls, and further functions nothing calls
  (`digit2trs`, `copy_long_trs`, `set_long_trit`, `shift_long_trs`, `dump_drum`,
  `parser_user`, `Decoder_String_from_Paper_Line`, `ERROR_t3_to_d10`); the ternary
  part of `calc`, which is commented out; the tables `tab4_3` to `tab4_6`.
* `view_next_start`: it parses `script.sst` after a stop and prints; what it computes
  (`C_new`, `action_post`) is never used, so it changes no state. The conversion
  of its address is modelled (`regC_str_2_trs`).
* The layout of the views of registers, memory and drum, help, the log, and the
  paths of files: text without an effect on any state.
* The older copy of the machine under `unittest_setun1958/` and its tests: they are
  built only into the tests. Programs for the machine are its inputs.
* `Setun` and `EmuControl` composed on shared variables. The two meet in `C`, `MB`,
  the drum and the status of an instruction; `EmuControl` takes any outcome of an
  instruction, so its properties hold for the outcomes of `Setun`, given
  `FailedStepChangesNothing` and `DrumWriteIsOnePage`, which are proved.
* In the test runner a SIGSEGV by overflow of the stack: without `sigaltstack` the
  handler cannot run, and the process ends.
* The torn frames of a block that is being written when the process is killed, and
  the tape in the midst of a load: `load` is one action in `TapeSession`, since no
  command comes between. A path too long for the buffer of `load` (6011-6020) is passed
  over as a missing source is, and the model has only the latter.
