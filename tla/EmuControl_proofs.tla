-------------------------- MODULE EmuControl_proofs --------------------------
(***************************************************************************)
(* Proofs about the control loop: types, the backup of the drum, the       *)
(* breakpoints, and that EmuControl implements Panel.                      *)
(***************************************************************************)
EXTENDS EmuControl, TLAPS

(* The counter of instructions stays in its range.                         *)
LEMMA CountedInRange ==
    ASSUME NEW n \in 0 .. COUNTER_RANGE - 1
    PROVE  Counted(n) \in 0 .. COUNTER_RANGE - 1
  BY EmuControlAssumption DEF Counted

(* Every action keeps every variable in its type.                          *)
THEOREM TypeCorrect == Spec => []TypeOK
<1>1. Init => TypeOK
  BY EmuControlAssumption
     DEF Init, TypeOK, PowerOnStates, States, Statuses, DrumType, MBValues, NoDrum
<1>2. TypeOK /\ [Next]_vars => TypeOK'
  <2> SUFFICES ASSUME TypeOK, [Next]_vars PROVE TypeOK'
    OBVIOUS
  <2> USE EmuControlAssumption DEF TypeOK, States, Statuses, DrumType, MBValues, NoDrum
  <2>1. CASE begin_cmd
    BY <2>1 DEF begin_cmd, Given, machine, disk
  <2>2. CASE pause_cmd
    BY <2>2 DEF pause_cmd, Given, machine, disk
  <2>3. CASE run_cmd
    BY <2>3 DEF run_cmd, Given, machine, disk
  <2>4. CASE step_cmd
    BY <2>4 DEF step_cmd, Given, machine, disk
  <2>5. CASE break_cmd
    BY <2>5 DEF break_cmd, Given, machine, disk
  <2>6. CASE break_drum_cmd
    BY <2>6 DEF break_drum_cmd, Given, machine, disk
  <2>7. CASE reg_cmd
    BY <2>7 DEF reg_cmd, Given, disk
  <2>8. CASE quit_cmd
    <3>1. /\ bak' \in DrumType /\ older' \in DrumType
          /\ unsaved' \in SUBSET Zones
          /\ backup' \in {"read", "unread", "refused", "begun"}
      <4>1. CASE files = "open"
        BY <2>8, <4>1 DEF quit_cmd, SaveRefused, SaveBegun
      <4>2. CASE files # "open"
        BY <2>8, <4>2 DEF quit_cmd, disk
      <4> QED
        BY <4>1, <4>2
    <3>2. emu_stat' \in States
      BY <2>8 DEF quit_cmd, Emu_Stop
    <3>3. /\ process' \in {"up", "saving", "exited", "killed"}
          /\ files' \in {"closed", "open", "missing"}
      BY <2>8 DEF quit_cmd, SaveRefused, SaveBegun
    <3>4. commands' \in 0 .. MaxCommands /\ command' = "quit"
      BY <2>8 DEF quit_cmd, Given
    <3>5. UNCHANGED << counter_step, STEP, BREAKPOINT, BREAKPOINT_MB, C, MB, ret_exec, drum >>
      BY <2>8 DEF quit_cmd, machine
    <3> QED
      BY <3>1, <3>2, <3>3, <3>4, <3>5
  <2>9. CASE Write_Backup_DRUM
    <3>1. process' \in {"up", "saving", "exited", "killed"}
      BY <2>9 DEF Write_Backup_DRUM, WriteLost
    <3>2. bak' \in DrumType /\ unsaved' \in SUBSET Zones
      <4>1. CASE UNCHANGED << bak, unsaved >>
        BY <4>1
      <4>2. CASE \E z \in NextUnsaved : /\ bak' = [bak EXCEPT ![z] = drum[z]]
                                        /\ unsaved' = unsaved \ {z}
        BY <4>2 DEF NextUnsaved
      <4>3. CASE WriteLost
        BY <4>3 DEF WriteLost
      <4> QED
        BY <2>9, <4>1, <4>2, <4>3 DEF Write_Backup_DRUM
    <3>3. UNCHANGED << backup, older, emu_stat, counter_step, files, STEP, BREAKPOINT,
                       BREAKPOINT_MB, C, MB, ret_exec, drum, command, commands >>
      BY <2>9 DEF Write_Backup_DRUM, panel, machine
    <3> QED
      BY <3>1, <3>2, <3>3
  <2>10. CASE Process_Work_Emulation
    <3>1. CASE TurnNoReady
      BY <2>10, <3>1 DEF Process_Work_Emulation, TurnNoReady, Emu_Open_Files, machine, disk
    <3>2. CASE TurnBegin
      BY <2>10, <3>2, CountedInRange
         DEF Process_Work_Emulation, TurnBegin, LoopBranch, Emu_Step, Emu_Open_Files, disk
    <3>3. CASE TurnStep
      BY <2>10, <3>3, CountedInRange DEF Process_Work_Emulation, TurnStep, Emu_Step, disk
    <3>4. CASE TurnPause
      BY <2>10, <3>4 DEF Process_Work_Emulation, TurnPause, machine, disk
    <3>5. CASE TurnLoop
      BY <2>10, <3>5, CountedInRange
         DEF Process_Work_Emulation, TurnLoop, LoopBranch, Emu_Step, disk
    <3> QED
      BY <2>10, <3>1, <3>2, <3>3, <3>4, <3>5 DEF Process_Work_Emulation
  <2>11. CASE Kill
    BY <2>11 DEF Kill, NextUnsaved, panel, machine
  <2>12. CASE Restart
    BY <2>12 DEF Restart, Read_Backup_DRUM, PowerOnStates
  <2>13. CASE UNCHANGED vars
    BY <2>13 DEF vars, panel, machine, disk
  <2> QED
    BY <2>1, <2>2, <2>3, <2>4, <2>5, <2>6, <2>7, <2>8, <2>9, <2>10, <2>11, <2>12, <2>13
       DEF Next, Command
<1> QED
  BY <1>1, <1>2, PTL DEF Spec

-----------------------------------------------------------------------------
(***************************************************************************)
(* The backup.  BackupIsPrefix is not inductive alone: that a running      *)
(* program has begun no save, that a save in progress has, and that        *)
(* nothing is left to write before, are part of it.                        *)
(***************************************************************************)
SaveInv ==
    /\ BackupIsPrefix
    /\ process = "up" => backup \in {"read", "unread"}
    /\ process = "saving" => backup = "begun"
    /\ backup # "begun" => unsaved = {}

\* Every action keeps it.
LEMMA SaveInvStep ==
    ASSUME TypeOK, SaveInv, [Next]_vars PROVE SaveInv'
<1> USE DEF SaveInv, BackupIsPrefix
<1>1. CASE UNCHANGED << process, bak, drum, unsaved, backup, older >>
  BY <1>1
<1>2. CASE quit_cmd
  <2>1. process = "up" /\ drum' = drum /\ backup # "begun" /\ unsaved = {}
    BY <1>2 DEF quit_cmd, Given, machine
  <2>2. CASE SaveRefused /\ older' = older
    BY <2>1, <2>2 DEF SaveRefused
  <2>3. CASE SaveBegun
    BY <2>1, <2>3 DEF SaveBegun, NoDrum, TypeOK
  <2>4. CASE process' = "killed" /\ UNCHANGED disk
    BY <2>1, <2>4 DEF disk
  <2> QED
    BY <1>2, <2>2, <2>3, <2>4 DEF quit_cmd
<1>3. CASE Write_Backup_DRUM
  <2>1. /\ process = "saving" /\ backup = "begun"
        /\ UNCHANGED << drum, backup, older >>
    BY <1>3 DEF Write_Backup_DRUM, machine
  <2>2. CASE unsaved = {} /\ process' = "exited" /\ UNCHANGED << bak, unsaved >>
    BY <2>1, <2>2
  <2>3. CASE process' = process /\ \E z \in NextUnsaved :
                /\ bak' = [bak EXCEPT ![z] = drum[z]]
                /\ unsaved' = unsaved \ {z}
    <3>1. PICK z \in NextUnsaved : /\ bak' = [bak EXCEPT ![z] = drum[z]]
                                   /\ unsaved' = unsaved \ {z}
      BY <2>3
    <3>2. bak \in DrumType /\ z \in Zones
      BY <3>1 DEF TypeOK, NextUnsaved
    <3> QED
      BY <2>1, <2>3, <3>1, <3>2 DEF DrumType
  <2>4. CASE WriteLost
    <3>1. PICK lost \in SUBSET unsaved :
                /\ \A z \in lost, y \in unsaved : y < z => y \in lost
                /\ bak' = [z \in Zones |-> IF z \in lost THEN Torn ELSE bak[z]]
      BY <2>4 DEF WriteLost
    <3>2. process' = "exited" /\ unsaved' = unsaved /\ unsaved \subseteq Zones
      BY <2>4 DEF WriteLost, TypeOK
    <3>3. \A z \in lost : bak'[z] = Torn
      BY <3>1, <3>2
    <3>4. \A z \in Zones : z \notin lost => bak'[z] = bak[z]
      BY <3>1
    <3>5. \A z \in unsaved : bak[z] = Blank
      BY <2>1, <3>2
    <3>6. \A z \in Zones : z \notin unsaved => bak[z] = drum[z]
      BY <2>1
    <3> QED
      BY <2>1, <3>1, <3>2, <3>3, <3>4, <3>5, <3>6
  <2> QED
    BY <1>3, <2>2, <2>3, <2>4 DEF Write_Backup_DRUM
<1>4. CASE Kill
  <2>1. process' = "killed" /\ UNCHANGED << drum, unsaved, backup, older >>
    BY <1>4 DEF Kill, machine
  <2>2. CASE bak' = bak
    BY <1>4, <2>1, <2>2 DEF Kill
  <2>3. CASE process = "saving" /\ bak' # bak
    <3>1. PICK z \in NextUnsaved : bak' = [bak EXCEPT ![z] = Torn]
      BY <1>4, <2>3 DEF Kill
    <3>2. /\ bak \in DrumType /\ z \in unsaved /\ unsaved \subseteq Zones
          /\ \A y \in unsaved : z <= y
      BY <3>1 DEF TypeOK, NextUnsaved
    <3>3. \A y \in unsaved : ~ y < z
      <4>1. Zones \subseteq Nat
        BY EmuControlAssumption
      <4> QED
        BY <3>2, <4>1
    <3> QED
      BY <2>1, <2>3, <3>1, <3>2, <3>3 DEF DrumType
  <2> QED
    BY <1>4, <2>2, <2>3 DEF Kill
<1>5. CASE Restart
  BY <1>5 DEF Restart, Read_Backup_DRUM
<1>6. CASE Process_Work_Emulation
  BY <1>6 DEF Process_Work_Emulation, disk
<1>7. CASE Command /\ ~ quit_cmd
  BY <1>7 DEF Command, Given, begin_cmd, pause_cmd, run_cmd, step_cmd, break_cmd,
              break_drum_cmd, reg_cmd, machine, disk
<1> QED
  BY <1>1, <1>2, <1>3, <1>4, <1>5, <1>6, <1>7
     DEF Next, vars, machine, disk

\* It holds when the program is started for the first time.
LEMMA SaveInvInit == Init => SaveInv
  BY DEF Init, SaveInv, BackupIsPrefix

(* At any time the file holds what BackupIsPrefix says, whichever of opening *)
(* and writing it failed.                                                    *)
THEOREM BackupCorrect == Spec => []BackupIsPrefix
<1>1. TypeOK /\ SaveInv /\ [Next]_vars => SaveInv'
  BY SaveInvStep
<1>2. SaveInv => BackupIsPrefix
  BY DEF SaveInv
<1> QED
  BY <1>1, <1>2, SaveInvInit, TypeCorrect, PTL DEF Spec

(* What a start that can open drum.bak finds after an end of any kind.     *)
THEOREM DrumSurvivesQuit == Spec => DrumSurvives
<1> DEFINE Found == IF backup = "begun"
                    THEN \A z \in Zones : IF z \notin unsaved THEN drum'[z] = drum[z]
                                          ELSE drum'[z] \in {Blank, Torn}
                    ELSE drum' = older
<1>1. TypeOK /\ SaveInv /\ [Next]_vars => SaveInv'
  BY SaveInvStep
<1>2. TypeOK /\ SaveInv /\ [Next]_vars
        => [process # "up" /\ process' = "up" /\ backup' = "read" => Found]_vars
  <2> SUFFICES ASSUME TypeOK, SaveInv, Next,
                      process # "up", process' = "up", backup' = "read"
               PROVE  Found
    BY DEF vars
  <2>1. drum' = bak
    BY DEF Next, Command, Given, begin_cmd, pause_cmd, run_cmd, step_cmd, break_cmd,
           break_drum_cmd, reg_cmd, quit_cmd, Write_Backup_DRUM, WriteLost,
           Process_Work_Emulation, Kill, Restart, Read_Backup_DRUM
  <2> QED
    BY <2>1 DEF SaveInv, BackupIsPrefix
<1> QED
  BY <1>1, <1>2, SaveInvInit, TypeCorrect, PTL DEF Spec, DrumSurvives

-----------------------------------------------------------------------------
(* A run ends at a breakpoint, at a stop and at an error.                  *)
THEOREM BreakpointStopsRun == Spec => BreakpointEndsRun
<1>1. TypeOK /\ [Next]_vars => [ counter_step' # counter_step /\ commands' = commands /\ process = "up" =>
            LET c == IF emu_stat = "BEGIN" THEN StartAddress ELSE C
            IN  AtBreakpoint(c) \/ ret_exec' # "OK" => emu_stat' # "LOOP" ]_vars
  <2> SUFFICES ASSUME Next, TypeOK, counter_step' # counter_step,
                      commands' = commands, process = "up"
               PROVE  LET c == IF emu_stat = "BEGIN" THEN StartAddress ELSE C
                      IN  AtBreakpoint(c) \/ ret_exec' # "OK" => emu_stat' # "LOOP"
    BY DEF vars
  <2>1. commands + 1 # commands
    BY DEF TypeOK
  <2>2. Process_Work_Emulation
    BY <2>1 DEF Next, Command, Given, begin_cmd, pause_cmd, run_cmd, step_cmd, break_cmd,
                break_drum_cmd, reg_cmd, quit_cmd, Write_Backup_DRUM, Kill, Restart
  <2>3. CASE TurnBegin
    BY <2>3 DEF TurnBegin, LoopBranch
  <2>4. CASE TurnLoop
    BY <2>4 DEF TurnLoop, LoopBranch
  <2>5. CASE TurnNoReady \/ TurnStep \/ TurnPause
    BY <2>5 DEF TurnNoReady, TurnStep, TurnPause
  <2> QED
    BY <2>2, <2>3, <2>4, <2>5 DEF Process_Work_Emulation
<1> QED
  BY <1>1, TypeCorrect, PTL DEF Spec, BreakpointEndsRun

-----------------------------------------------------------------------------
\* A start that was ordered and not yet carried out has reset the counter: an
\* order that does not concern the state must not disturb that.
StartsAtZero == process = "up" /\ emu_stat = "BEGIN" => counter_step = 0

LEMMA StartsAtZeroStep ==
    ASSUME TypeOK, StartsAtZero, [Next]_vars PROVE StartsAtZero'
<1> USE DEF StartsAtZero
<1>1. CASE Command
  BY <1>1 DEF Command, Given, begin_cmd, pause_cmd, run_cmd, step_cmd, break_cmd,
              break_drum_cmd, reg_cmd, quit_cmd, SaveRefused, SaveBegun
<1>2. CASE Process_Work_Emulation
  BY <1>2 DEF Process_Work_Emulation, TurnNoReady, TurnBegin, TurnStep, TurnPause,
              TurnLoop, LoopBranch
<1>3. CASE Write_Backup_DRUM \/ Kill \/ Restart \/ UNCHANGED vars
  BY <1>3 DEF Write_Backup_DRUM, WriteLost, Kill, Restart, PowerOnStates, vars
<1> QED
  BY <1>1, <1>2, <1>3 DEF Next

(***************************************************************************)
(* EmuControl implements Panel: a command is an order, a turn in the       *)
(* states BEGIN, STEP and LOOP executes one instruction, and everything    *)
(* else leaves the machine at rest.                                        *)
(***************************************************************************)
THEOREM ImplementsPanel == Spec => PanelSpec
<1>1. Init => P!Init
  BY DEF Init, PowerOnStates, mode, P!Init, P!On
<1>2. TypeOK /\ StartsAtZero /\ [Next]_vars
        => [P!Next]_<< mode, ret_exec, counter_step, commands >>
  <2> SUFFICES ASSUME TypeOK, StartsAtZero, [Next]_vars
               PROVE  \/ P!Next
                      \/ UNCHANGED << mode, ret_exec, counter_step, commands >>
    OBVIOUS
  <2>1. CASE Command
    <3>1. commands' = commands + 1 /\ ret_exec' = ret_exec
      BY <2>1 DEF Command, Given, begin_cmd, pause_cmd, run_cmd, step_cmd, break_cmd,
                  break_drum_cmd, reg_cmd, quit_cmd, machine
    <3>2. mode' \in P!Modes
      BY DEF mode, P!Modes
    <3>3. CASE begin_cmd
      BY <3>1, <3>3 DEF begin_cmd, Given, mode, P!Next, P!Order, P!Modes
    <3>4. CASE pause_cmd \/ run_cmd \/ step_cmd \/ quit_cmd
      <4>1. mode' # "starting" /\ counter_step' = counter_step
        BY <3>4 DEF pause_cmd, run_cmd, step_cmd, quit_cmd, SaveRefused, SaveBegun,
                    Given, mode
      <4> QED
        BY <3>1, <3>2, <4>1 DEF P!Next, P!Order
    <3>5. CASE break_cmd \/ break_drum_cmd \/ reg_cmd
      <4>1. mode' = mode /\ counter_step' = counter_step
        BY <3>5 DEF break_cmd, break_drum_cmd, reg_cmd, Given, mode
      <4>2. mode = "starting" => counter_step = 0
        BY DEF mode, StartsAtZero
      <4> QED
        BY <3>1, <3>2, <4>1, <4>2 DEF P!Next, P!Order
    <3> QED
      BY <2>1, <3>3, <3>4, <3>5 DEF Command
  <2>2. CASE Write_Backup_DRUM
    BY <2>2 DEF Write_Backup_DRUM, WriteLost, panel, machine, mode
  <2>3. CASE Process_Work_Emulation
    <3>1. process = "up" /\ process' = "up" /\ commands' = commands
      BY <2>3 DEF Process_Work_Emulation
    <3>2. CASE TurnNoReady \/ TurnPause
      BY <3>1, <3>2 DEF TurnNoReady, TurnPause, machine, mode, P!Next, P!Rest
    <3>3. CASE TurnBegin
      BY <3>1, <3>3 DEF TurnBegin, LoopBranch, Emu_Step, Statuses, Counted, mode,
                        P!Next, P!Execute
    <3>4. CASE TurnStep
      BY <3>1, <3>4 DEF TurnStep, Emu_Step, Statuses, Counted, mode, P!Next, P!Execute
    <3>5. CASE TurnLoop
      BY <3>1, <3>5 DEF TurnLoop, LoopBranch, Emu_Step, Statuses, Counted, mode,
                        P!Next, P!Execute
    <3> QED
      BY <2>3, <3>2, <3>3, <3>4, <3>5 DEF Process_Work_Emulation
  <2>4. CASE Kill
    BY <2>4 DEF Kill, panel, machine, mode, P!Next, P!Rest
  <2>5. CASE Restart
    BY <2>5 DEF Restart, Read_Backup_DRUM, PowerOnStates, mode, P!Next, P!Reset, P!On
  <2>6. CASE UNCHANGED vars
    BY <2>6 DEF vars, panel, machine, mode
  <2> QED
    BY <2>1, <2>2, <2>3, <2>4, <2>5, <2>6 DEF Next
<1>3. Init => StartsAtZero
  BY DEF Init, StartsAtZero
<1>4. TypeOK /\ StartsAtZero /\ [Next]_vars => StartsAtZero'
  BY StartsAtZeroStep
<1> QED
  BY <1>1, <1>2, <1>3, <1>4, TypeCorrect, PTL DEF Spec, PanelSpec, P!Spec
=============================================================================
