----------------------------- MODULE EmuControl -----------------------------
(***************************************************************************)
(* The main loop of the emulator: the control panel (the commands of the   *)
(* operator), the state machine Process_Work_Emulation, the files of the   *)
(* devices, and the drum's life on disk in drum.bak.                       *)
(*                                                                         *)
(* main() reads standard input without blocking: it takes a character when *)
(* there is one and runs Process_Work_Emulation when there is none, so the *)
(* commands and the turns of the emulation interleave but never overlap.   *)
(*                                                                         *)
(* The instruction a turn executes is chosen among all the outcomes an     *)
(* instruction of module Setun can have for the panel: a new C, a new MB   *)
(* and drum zone, a status.  An instruction that ends with a status other  *)
(* than OK changes neither C nor the drum (Setun!FailedStepChangesNothing).*)
(***************************************************************************)
EXTENDS Naturals

CONSTANTS
    Addresses, StartAddress,  \* values of C; smtr("0000+")
    Zones, Words,             \* drum zones; contents of a zone
    Blank, Torn,              \* never written; restored from a torn file
    None,                     \* no breakpoint is set
    COUNTER_RANGE,            \* 2^32 in the program: counter_step is a uint32_t
    MaxStep,                  \* bound on the argument of the command step
    MaxCommands               \* bound on the number of commands

ASSUME EmuControlAssumption ==
    /\ {0, StartAddress} \subseteq Addresses
    /\ Zones \subseteq Nat \ {0}
    /\ None \notin Addresses \cup Zones \cup {0}
    /\ Blank \notin Words /\ Torn \notin Words /\ Blank # Torn
    /\ COUNTER_RANGE \in Nat \ {0}
    /\ MaxStep \in Nat /\ MaxCommands \in Nat

VARIABLES
    process,        \* the program: "up", "saving" in quit, "exited", "killed"
    emu_stat,       \* state of the emulation
    STEP,           \* instructions the command step has left
    counter_step,   \* instructions since the last begin
    BREAKPOINT,     \* address of the breakpoint, or None
    BREAKPOINT_MB,  \* zone of the breakpoint, or None
    C, MB,          \* the registers the breakpoints look at
    ret_exec,       \* status of the last instruction
    files,          \* the four device files: "closed", "open" or "missing"
    drum,           \* mem_drum, by zones
    bak,            \* drum.bak: what Read_Backup_DRUM would restore, by zones
    unsaved,        \* zones Write_Backup_DRUM has not written
    backup,         \* drum.bak in this session: "read" or "unread" at the
                    \* start, then "refused" or "begun" to be written by quit
    older,          \* history: drum.bak as the session found it
    command,        \* the last command that sets the state of the emulation
    commands        \* how many commands were given

panel   == << STEP, BREAKPOINT, BREAKPOINT_MB, command, commands >>
machine == << C, MB, ret_exec, drum >>
disk    == << bak, unsaved, backup, older >>
vars    == << process, emu_stat, counter_step, files, panel, machine, disk >>

States   == {"NOREADY", "BEGIN", "STEP", "PAUSE", "LOOP", "WAIT"}
Statuses == {"OK", "STOP", "STOP_ERROR", "STOP_ERROR_MB_NUMBER"}
DrumType == [Zones -> Words \cup {Blank, Torn}]
NoDrum   == [z \in Zones |-> Blank]
MBValues == Zones \cup {0}

TypeOK ==
    /\ process \in {"up", "saving", "exited", "killed"}
    /\ emu_stat \in States
    /\ STEP \in 0 .. MaxStep
    /\ counter_step \in 0 .. COUNTER_RANGE - 1
    /\ BREAKPOINT \in Addresses \cup {None}
    /\ BREAKPOINT_MB \in MBValues \cup {None}
    /\ C \in Addresses /\ MB \in MBValues
    /\ ret_exec \in Statuses
    /\ files \in {"closed", "open", "missing"}
    /\ drum \in DrumType /\ bak \in DrumType /\ older \in DrumType
    /\ unsaved \in SUBSET Zones
    /\ backup \in {"read", "unread", "refused", "begun"}
    /\ command \in {"none", "begin", "pause", "run", "step", "quit"}
    /\ commands \in 0 .. MaxCommands

(***************************************************************************)
(* The process starts with emu_stat = NOREADY_EMU_ST, but main() calls     *)
(* init_tab4, which writes tab4_8[9] and tab4_8[10] behind the nine        *)
(* elements of the table.  In the release build of the Makefile emu_stat   *)
(* is what lies there, and it becomes 2, LOOP_WORK_EMU_ST; other builds    *)
(* place another object behind the table.  The later calls of init_tab4    *)
(* are followed by an assignment to emu_stat.                              *)
(***************************************************************************)
PowerOnStates == {"NOREADY", "LOOP"}

Init ==
    /\ process = "up"
    /\ emu_stat \in PowerOnStates
    /\ STEP = 0 /\ counter_step = 0
    /\ BREAKPOINT = None /\ BREAKPOINT_MB = None
    /\ C = 0 /\ MB = 0
    /\ ret_exec = "OK"
    /\ files = "closed"
    /\ drum = NoDrum /\ bak = NoDrum /\ older = NoDrum
    /\ unsaved = {} /\ backup = "unread"
    /\ command = "none" /\ commands = 0

-----------------------------------------------------------------------------
(***************************************************************************)
(* The commands.  One that has too many arguments only prints an error.    *)
(***************************************************************************)
Given(name) ==
    /\ process = "up"
    /\ commands < MaxCommands
    /\ commands' = commands + 1
    /\ command' = name

begin_cmd ==
    /\ Given("begin")
    /\ counter_step' = 0
    /\ emu_stat' = "BEGIN"
    /\ UNCHANGED << process, files, STEP, BREAKPOINT, BREAKPOINT_MB, machine, disk >>

pause_cmd ==
    /\ Given("pause")
    /\ emu_stat' = "PAUSE"
    /\ UNCHANGED << process, files, counter_step, STEP, BREAKPOINT, BREAKPOINT_MB,
                    machine, disk >>

run_cmd ==
    /\ Given("run")
    /\ emu_stat' = "LOOP"
    /\ UNCHANGED << process, files, counter_step, STEP, BREAKPOINT, BREAKPOINT_MB,
                    machine, disk >>

step_cmd ==
    /\ Given("step")
    /\ STEP' \in 0 .. MaxStep
    /\ emu_stat' = "STEP"
    /\ UNCHANGED << process, files, counter_step, BREAKPOINT, BREAKPOINT_MB,
                    machine, disk >>

\* break and breakmb set a breakpoint, or without argument remove it.
break_cmd ==
    /\ Given(command)
    /\ BREAKPOINT' \in Addresses \cup {None}
    /\ UNCHANGED << process, emu_stat, files, counter_step, STEP, BREAKPOINT_MB,
                    machine, disk >>

break_drum_cmd ==
    /\ Given(command)
    /\ BREAKPOINT_MB' \in MBValues \cup {None}
    /\ UNCHANGED << process, emu_stat, files, counter_step, STEP, BREAKPOINT,
                    machine, disk >>

\* reg: the operator writes C or MB.
reg_cmd ==
    /\ Given(command)
    /\ \/ C' \in Addresses /\ UNCHANGED MB
       \/ MB' \in MBValues /\ UNCHANGED C
    /\ UNCHANGED << process, emu_stat, files, counter_step, STEP, BREAKPOINT,
                    BREAKPOINT_MB, ret_exec, drum, disk >>

\* Emu_Stop prints the registers, sets the state and closes the files.
Emu_Stop == emu_stat' = IF STEP = 0 THEN "PAUSE" ELSE emu_stat

\* Faulty: an old drum.bak is not truncated.
SaveBegun_Keeps ==
    /\ process' = "saving"
    /\ backup' = "begun"
    /\ unsaved' = Zones
    /\ UNCHANGED bak

(***************************************************************************)
(* quit closes the files and saves the drum.  Emu_Close_Files hands the    *)
(* four FILE pointers to fclose without a test: one that was never opened, *)
(* or that fopen refused, is a null pointer and ends the process there.    *)
(* Write_Backup_DRUM truncates drum.bak and writes one zone after another; *)
(* unsaved are the zones that are not in the file, and the process may end *)
(* with a file that stops inside the first of them.  quit does not look at *)
(* the result: when fopen refuses, the program exits with 0, and what      *)
(* drum.bak held is left as it was.                                        *)
(***************************************************************************)
SaveRefused ==
    /\ process' = "exited"
    /\ backup' = "refused"
    /\ UNCHANGED << bak, unsaved >>

SaveBegun ==
    /\ process' = "saving"
    /\ backup' = "begun"
    /\ bak' = NoDrum
    /\ unsaved' = Zones

quit_cmd ==
    /\ Given("quit")
    /\ Emu_Stop
    /\ \/ /\ files = "open"
          /\ files' = "closed"
          /\ SaveRefused \/ SaveBegun
          /\ UNCHANGED older
       \/ /\ files # "open"
          /\ process' = "killed"
          /\ UNCHANGED << files, disk >>
    /\ UNCHANGED << counter_step, STEP, BREAKPOINT, BREAKPOINT_MB, machine >>

NextUnsaved == { z \in unsaved : \A y \in unsaved : z <= y }

\* Faulty: the loop ends one zone early, or does not advance.
Write_Backup_DRUM_Short ==
    /\ process = "saving"
    /\ \E z \in NextUnsaved :
          /\ process' = IF unsaved = {z} THEN "exited" ELSE process
          /\ bak' = IF unsaved = {z} THEN bak ELSE [bak EXCEPT ![z] = drum[z]]
          /\ unsaved' = unsaved \ {z}
    /\ UNCHANGED << backup, older, emu_stat, counter_step, files, panel, machine >>

Write_Backup_DRUM_Stuck ==
    /\ process = "saving"
    /\ \E z \in NextUnsaved : bak' = [bak EXCEPT ![z] = drum[z]]
    /\ UNCHANGED << process, unsaved, backup, older, emu_stat, counter_step,
                    files, panel, machine >>

\* A write that fails is not noticed either: the rest of the file is short, and
\* what lies behind a lost block is read back at other places.
WriteLost ==
    /\ process' = "exited"
    /\ \E lost \in SUBSET unsaved :
          /\ \A z \in lost, y \in unsaved : y < z => y \in lost
          /\ bak' = [z \in Zones |-> IF z \in lost THEN Torn ELSE bak[z]]
    /\ UNCHANGED unsaved

Write_Backup_DRUM ==
    /\ process = "saving"
    /\ \/ unsaved = {} /\ process' = "exited" /\ UNCHANGED << bak, unsaved >>
       \/ /\ \E z \in NextUnsaved : /\ bak' = [bak EXCEPT ![z] = drum[z]]
                                    /\ unsaved' = unsaved \ {z}
          /\ UNCHANGED process
       \/ unsaved # {} /\ WriteLost
    /\ UNCHANGED << backup, older, emu_stat, counter_step, files, panel, machine >>

Command ==
    \/ begin_cmd \/ pause_cmd \/ run_cmd \/ step_cmd
    \/ break_cmd \/ break_drum_cmd \/ reg_cmd \/ quit_cmd

-----------------------------------------------------------------------------
(***************************************************************************)
(* Emu_Step as the panel sees it, with the counter of the turn.            *)
(***************************************************************************)
Counted(n) == (n + 1) % COUNTER_RANGE

Emu_Step(c) ==
    /\ counter_step' = Counted(counter_step)
    /\ ret_exec' \in Statuses
    /\ IF ret_exec' = "OK"
       THEN /\ C' \in Addresses
            /\ \/ UNCHANGED << MB, drum >>
               \/ MB' \in MBValues /\ UNCHANGED drum
               \/ \E w \in Words : MB' \in Zones /\ drum' = [drum EXCEPT ![MB'] = w]
       ELSE C' = c /\ UNCHANGED << MB, drum >>

Emu_Open_Files == files' \in {"open", "missing"}

AtBreakpoint(c) == BREAKPOINT = c \/ BREAKPOINT_MB = MB

\* Faulty: the status is not looked at.
LoopBranch_IgnoresStatus(c) ==
    /\ Emu_Step(c)
    /\ emu_stat' = IF AtBreakpoint(c) THEN "PAUSE" ELSE "LOOP"

\* The branch of the state LOOP: a breakpoint asks for a pause, and the
\* instruction is executed all the same.  A status other than OK goes through
\* STOP or ERROR and WELCOM to WAIT within the turn.
LoopBranch(c) ==
    /\ Emu_Step(c)
    /\ emu_stat' = IF ret_exec' # "OK" THEN "WAIT"
                   ELSE IF AtBreakpoint(c) THEN "PAUSE"
                   ELSE "LOOP"

(***************************************************************************)
(* One turn of Process_Work_Emulation.                                     *)
(***************************************************************************)
TurnNoReady ==
    /\ emu_stat = "NOREADY"
    /\ emu_stat' = "WAIT"
    /\ Emu_Open_Files
    /\ UNCHANGED << counter_step, STEP, machine >>

\* Faulty: the breakpoint is compared with the old C; the state stays
\* BEGIN; STEP wraps.
TurnBegin_OldC ==
    /\ emu_stat = "BEGIN"
    /\ Emu_Open_Files
    /\ LoopBranch(C)
    /\ UNCHANGED STEP

TurnBegin_StartsOver ==
    /\ emu_stat = "BEGIN"
    /\ Emu_Open_Files
    /\ Emu_Step(StartAddress)
    /\ emu_stat' = IF ret_exec' # "OK" THEN "WAIT" ELSE emu_stat
    /\ UNCHANGED STEP

TurnStep_Wraps ==
    /\ emu_stat = "STEP"
    /\ Emu_Step(C)
    /\ STEP' = STEP - 1
    /\ emu_stat' = "WAIT"
    /\ UNCHANGED files

\* Emu_Begin sets C and the turn goes on with the branch of LOOP.
TurnBegin ==
    /\ emu_stat = "BEGIN"
    /\ Emu_Open_Files
    /\ LoopBranch(StartAddress)
    /\ UNCHANGED STEP

\* Whatever the instruction, STEP and the breakpoints say, the state is WAIT.
TurnStep ==
    /\ emu_stat = "STEP"
    /\ Emu_Step(C)
    /\ STEP' = IF STEP > 0 THEN STEP - 1 ELSE 0
    /\ emu_stat' = "WAIT"
    /\ UNCHANGED files

TurnPause ==
    /\ emu_stat = "PAUSE"
    /\ emu_stat' = "WAIT"
    /\ UNCHANGED << files, counter_step, STEP, machine >>

TurnLoop ==
    /\ emu_stat = "LOOP"
    /\ LoopBranch(C)
    /\ UNCHANGED << files, STEP >>

Process_Work_Emulation ==
    /\ process = "up"
    /\ TurnNoReady \/ TurnBegin \/ TurnStep \/ TurnPause \/ TurnLoop
    /\ UNCHANGED << process, BREAKPOINT, BREAKPOINT_MB, command, commands, disk >>

-----------------------------------------------------------------------------
\* The process is killed; a torn drum.bak restores the zone it ends in wrongly
\* (fscanf accepts the first part of a record).
Kill ==
    /\ process \in {"up", "saving"}
    /\ process' = "killed"
    /\ \/ UNCHANGED bak
       \/ /\ process = "saving"
          /\ \E z \in NextUnsaved : bak' = [bak EXCEPT ![z] = Torn]
    /\ UNCHANGED << emu_stat, counter_step, files, panel, machine,
                    unsaved, backup, older >>

\* When fopen refuses, the drum stays as it is when a process starts: blank.
\* reset_setun_1958 takes no notice, and the next quit saves that drum.
Read_Backup_DRUM ==
    \/ backup' = "read"   /\ drum' = bak
    \/ backup' = "unread" /\ drum' = NoDrum

\* The program is started again.
Restart ==
    /\ process \in {"exited", "killed"}
    /\ process' = "up"
    /\ emu_stat' \in PowerOnStates
    /\ STEP' = 0 /\ counter_step' = 0
    /\ BREAKPOINT' = None /\ BREAKPOINT_MB' = None
    /\ C' = 0 /\ MB' = 0
    /\ ret_exec' = "OK"
    /\ files' = "closed"
    /\ Read_Backup_DRUM
    /\ unsaved' = {} /\ older' = bak
    /\ command' = "none"
    /\ UNCHANGED << bak, commands >>

Next == Command \/ Write_Backup_DRUM \/ Process_Work_Emulation \/ Kill \/ Restart

(***************************************************************************)
(* main() loops without end and read() does not block, so a turn comes     *)
(* again and again while the operator does not type, and a save in         *)
(* progress goes on.  Nothing forces the operator, a kill or a restart.    *)
(***************************************************************************)
Spec == /\ Init /\ [][Next]_vars
        /\ WF_vars(Process_Work_Emulation)
        /\ WF_vars(Write_Backup_DRUM)

-----------------------------------------------------------------------------
(***************************************************************************)
(* What the panel promises.                                                *)
(***************************************************************************)

(* Until quit has opened it for writing, and when it cannot, drum.bak is     *)
(* what the session found.  From then on it holds the zones written so far   *)
(* and nothing of the older backup; a kill during the save spoils one zone   *)
(* only, the first that was not in the file yet, and an unnoticed write      *)
(* error spoils zones from that one on (quit_cmd, Write_Backup_DRUM).        *)
BackupIsPrefix ==
    /\ backup # "begun" => bak = older
    /\ backup = "begun" =>
          \A z \in Zones :
              IF z \notin unsaved THEN bak[z] = drum[z]
              ELSE \/ bak[z] = Blank
                   \/ /\ bak[z] = Torn /\ process \in {"exited", "killed"}
                      /\ \A y \in unsaved : y < z => process = "exited" /\ bak[y] = Torn

(* A start that can open drum.bak finds the drum of the last session: all of *)
(* it after a quit whose save came to its end, the zones that were written   *)
(* when the save was cut short, and the drum that session itself had found   *)
(* when it never began a save: it was killed, or its quit could not open the *)
(* file (Read_Backup_DRUM in reset_setun_1958).                              *)
DrumSurvives ==
    [][ process # "up" /\ process' = "up" /\ backup' = "read" =>
            IF backup = "begun"
            THEN \A z \in Zones : IF z \notin unsaved THEN drum'[z] = drum[z]
                                  ELSE drum'[z] \in {Blank, Torn}
            ELSE drum' = older ]_vars

(* A run never goes past a breakpoint: the turn that starts with C or MB at  *)
(* its breakpoint is the last one of the run, whatever the instruction does. *)
(* Emu_Begin checks the start address, not the old C.                        *)
BreakpointEndsRun ==
    [][ counter_step' # counter_step /\ commands' = commands /\ process = "up" =>
            LET c == IF emu_stat = "BEGIN" THEN StartAddress ELSE C
            IN  AtBreakpoint(c) \/ ret_exec' # "OK" => emu_stat' # "LOOP" ]_vars

(* Each command that changes the state of the emulation is carried out to    *)
(* the end, unless a later command or the end of the process comes first:    *)
(* a pause and a step come to rest, a begin opens the device files, or finds *)
(* that one is missing, and executes.                                        *)
Overtaken(n) == commands > n \/ process # "up"

OrdersAreCarriedOut ==
    \A n \in 1 .. MaxCommands :
        /\ commands = n /\ command \in {"pause", "step"} /\ process = "up"
            ~> Overtaken(n) \/ emu_stat = "WAIT"
        /\ commands = n /\ emu_stat = "BEGIN" /\ process = "up"
            ~> Overtaken(n) \/ (emu_stat \in {"LOOP", "PAUSE", "WAIT"} /\ files # "closed")

(* A quit that starts to save ends. *)
QuitEnds == process = "saving" ~> process \in {"exited", "killed"}

(* The panel of this module implements Panel: a state in which the next turn *)
(* executes no instruction is "idle", and so is a program that has ended.    *)
mode == IF process # "up" THEN "idle"
        ELSE CASE emu_stat = "LOOP"  -> "running"
               [] emu_stat = "STEP"  -> "stepping"
               [] emu_stat = "BEGIN" -> "starting"
               [] OTHER              -> "idle"

P == INSTANCE Panel WITH status <- ret_exec, count <- counter_step,
                         orders <- commands, Range <- COUNTER_RANGE

PanelSpec == P!Spec

-----------------------------------------------------------------------------
(* "quit: to end the work of the emulator" (README.md:349): it does not crash *)
(* the program before the drum is saved.  It does when a device file is not  *)
(* open (Emu_Close_Files).                                                   *)
QuitIsOrderly == [][ commands' # commands /\ command' = "quit" => process' # "killed" ]_vars
=============================================================================
