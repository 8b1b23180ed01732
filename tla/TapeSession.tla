----------------------------- MODULE TapeSession -----------------------------
(***************************************************************************)
(* The files behind the devices during a session: the tapes of the readers *)
(* and of the punch on disk, the streams the program has open on them with *)
(* their buffers, the load command that writes tapes, and the start button *)
(* that opens every device file again and closes none.                     *)
(*                                                                         *)
(* A tape is a text: characters and white space, one Space a byte.  What a *)
(* reader takes are the words of the text (module PaperTape says what they *)
(* mean), but a stream of the C library refills its buffer BLOCK bytes at  *)
(* a time, wherever in a word that falls.  All frames that are punched are *)
(* eight bytes long, so the punch is counted in frames.  No command comes  *)
(* in the middle of an instruction: reading or punching a page is one      *)
(* action.                                                                 *)
(***************************************************************************)
EXTENDS Naturals, Sequences, FiniteSets, SequencesExt

CONSTANTS
    Characters, Space,  \* the bytes of a tape
    PunchFrames, Hole,  \* frames the machine punches; part of a file never written
    FirstTape(_),       \* the tape in a reader before the session, or Missing
    Programs,           \* directories of sources
    List(_),            \* the lines of the .lst file in one of them, or Missing
    SourceFile(_, _),   \* the frames load makes of a file, by name, or Missing
    BlankFrame,         \* the frame between two files: "___.__"
    SEPARATORS,         \* how many of them: 5
    Script(_),          \* its script.sst, or Missing
    Missing, Empty,     \* no such file; a file without contents
    MAX_NAME,           \* bound on the length of a line: 1024
    BLOCK,              \* bytes in the buffer of a stream: 4096
    PUNCH_BLOCK,        \* frames in the buffer of the punch: 512
    PAGE,               \* words an instruction reads, frames it punches, at most
    MAX_OPEN,           \* streams and directories a process may have open
    MaxLoads, MaxBegins, MaxPages   \* bounds for model checking

Devices == {"ptr1", "ptr2"}

ASSUME TapeSessionAssumption ==
    /\ Space \notin Characters /\ Hole \notin PunchFrames
    /\ BlankFrame \in Seq(Characters) /\ SEPARATORS \in Nat
    /\ \A d \in Devices : FirstTape(d) \in Seq(Characters \cup {Space}) \cup {Missing}
    /\ BLOCK \in Nat \ {0} /\ PUNCH_BLOCK \in Nat \ {0} /\ PAGE \in Nat \ {0}
    /\ MAX_OPEN \in Nat /\ MAX_NAME \in Nat \ {0}
    /\ \A p \in Programs : Script(p) # Empty

VARIABLES
    process,        \* "up", "exited" by quit, "killed"
    disk,           \* the files ptr1/paper.txt and ptr2/paper.txt
    punched,        \* the file ptp1/paper.txt
    script,         \* the file script/script.sst
    reader,         \* the streams ptr1 and ptr2
    ptp1,           \* every stream opened on the punch, the current one last
    tty1,           \* the stream of the typewriter is open
    descriptors,    \* files and directories that are open
    \* history
    versions,       \* the tapes a file has held since its reader was opened
    read,           \* the bytes an open reader has passed
    output,         \* the frames the machine has punched since the last begin
    loaded,         \* the last load that wrote a tape, and what it could open
    loads, begins, pages

files   == << disk, script >>
punch   == << punched, ptp1, output >>
reading == << reader, versions, read >>
bounds  == << loads, begins, pages >>
vars    == << process, files, punch, tty1, reading, descriptors, loaded, bounds >>

NoStream == [open |-> FALSE, offset |-> 0, buffer |-> << >>, eof |-> FALSE]
NotLoaded == [program |-> Missing, device |-> Missing, free |-> 0]

Tape == Seq(Characters \cup {Space})

Streams(elements, size) ==
    {stream \in [open : BOOLEAN, offset : Nat, buffer : Seq(elements), eof : BOOLEAN] :
        Len(stream.buffer) <= size}
Readers == Streams(Characters \cup {Space}, BLOCK)
Punches == Streams(PunchFrames, PUNCH_BLOCK)

TypeOK ==
    /\ process \in {"up", "exited", "killed"}
    /\ disk \in [Devices -> Tape \cup {Missing}]
    /\ punched \in Seq(PunchFrames \cup {Hole})
    /\ script \in ({Script(p) : p \in Programs} \ {Missing}) \cup {Empty}
    /\ reader \in [Devices -> Readers]
    /\ ptp1 \in Seq(Punches)
    /\ tty1 \in BOOLEAN /\ descriptors \in 0 .. MAX_OPEN
    /\ loaded \in [program : Programs \cup {Missing}, device : Devices \cup {Missing},
                   free : 0 .. MAX_OPEN]

Init ==
    /\ process = "up"
    /\ disk = [d \in Devices |-> FirstTape(d)] /\ script = Empty
    /\ punched = << >> /\ ptp1 = << >> /\ output = << >>
    /\ reader = [d \in Devices |-> NoStream]
    /\ tty1 = FALSE /\ descriptors = 0
    /\ versions = [d \in Devices |-> {}] /\ read = [d \in Devices |-> << >>]
    /\ loaded = NotLoaded
    /\ loads = 0 /\ begins = 0 /\ pages = 0

-----------------------------------------------------------------------------
(***************************************************************************)
(* The names in a list.  A line is copied over the one before it without a *)
(* terminating zero; what lies behind it is what longer lines have left.   *)
(***************************************************************************)
Zero == 0
NewLine == 1
Lines == [name : Seq(Nat \ {Zero, NewLine}), newline : BOOLEAN]
Bytes(line) == line.name \o (IF line.newline THEN << NewLine >> ELSE << >>)

StrLen(str) == CHOOSE n \in 0 .. MAX_NAME - 1 :
                  str[n + 1] = Zero /\ \A i \in 1 .. n : str[i] # Zero

\* Faulty: the newline stays in the name.
NameInList_KeepsNewline(lines, n) == Bytes(lines[n])

NameInList(lines, n) ==
    LET Copied(str, bytes) == [i \in 1 .. MAX_NAME |->
                                  IF i <= Len(bytes) THEN bytes[i] ELSE str[i]]
        Chomped(str) == IF StrLen(str) > 0 /\ str[StrLen(str)] = NewLine
                        THEN [str EXCEPT ![StrLen(str)] = Zero] ELSE str
        buffer[k \in 0 .. n] == IF k = 0 THEN [i \in 1 .. MAX_NAME |-> Zero]
                                ELSE Chomped(Copied(buffer[k - 1], Bytes(lines[k])))
    IN  SubSeq(buffer[n], 1, StrLen(buffer[n]))

\* A name, and its newline, fit the buffer of a line with a zero behind them;
\* what a line or the buffer names is a file of frames, or is not there.
ASSUME SourcesAssumption ==
    \A p \in Programs : List(p) # Missing =>
        /\ List(p) \in Seq(Lines)
        /\ \A n \in DOMAIN List(p) :
              /\ Len(Bytes(List(p)[n])) < MAX_NAME
              /\ {SourceFile(p, List(p)[n].name), SourceFile(p, NameInList(List(p), n))}
                    \subseteq Seq(Seq(Characters)) \cup {Missing}

(***************************************************************************)
(* What LoadFileListToPaperTxt leaves in the tape it has truncated, when   *)
(* it can open free more files: nothing without a list; else every file of *)
(* the list that is there, in order.  A frame ends with two bytes of white *)
(* space; the blank frames that end a file lose the second of them.        *)
(***************************************************************************)
FramesText(frames) ==
    FlattenSeq([i \in DOMAIN frames |-> frames[i] \o << Space, Space >>])
Separator == FlattenSeq([i \in 1 .. SEPARATORS |-> BlankFrame \o << Space >>])

FileText(p, name) ==
    IF SourceFile(p, name) = Missing THEN << >>
    ELSE FramesText(SourceFile(p, name)) \o Separator

LoadFileListToPaperTxt(p, free) ==
    IF List(p) = Missing \/ free < 2 THEN << >>
    ELSE FlattenSeq([n \in DOMAIN List(p) |-> FileText(p, NameInList(List(p), n))])

\* Faulty: copies from a script that is not there.
CopyFileScript_NoCheck(p, free) == IF free = 0 THEN script ELSE Script(p)

\* copy_file opens, and so empties, the destination first.
CopyFileScript(p, free) ==
    IF free = 0 THEN script
    ELSE IF Script(p) = Missing \/ free < 2 THEN Empty
    ELSE Script(p)

\* Faulty: the script is copied only when no file has been read.
load_cmd_OtherScript(p, d) ==
    /\ process = "up" /\ loads < MaxLoads /\ loads' = loads + 1
    /\ descriptors + 1 < MAX_OPEN
    /\ descriptors' = descriptors + 1
    /\ LET tape == LoadFileListToPaperTxt(p, MAX_OPEN - descriptors - 2)
       IN  /\ disk' = [disk EXCEPT ![d] = tape]
           /\ versions' = [versions EXCEPT ![d] = @ \cup {tape}]
           /\ script' = IF tape = << >> THEN CopyFileScript(p, 2) ELSE script
    /\ loaded' = [program |-> p, device |-> d, free |-> MAX_OPEN - descriptors - 1]
    /\ UNCHANGED << process, punch, tty1, reader, read, begins, pages >>

(***************************************************************************)
(* load DIR OUTDIR: ConvertSWtoPaper.  The directory of the output is      *)
(* opened to see whether it is there, and stays open.  A name of a list    *)
(* that was not found is uninitialised; it names no file.                  *)
(***************************************************************************)
ConvertSWtoPaper(p, d) ==
    IF descriptors = MAX_OPEN
    THEN UNCHANGED << files, versions, descriptors, loaded >>
    ELSE LET free == MAX_OPEN - descriptors - 1
             tape == LoadFileListToPaperTxt(p, free - 1)
         IN  /\ descriptors' = descriptors + 1
             /\ IF free = 0
                THEN UNCHANGED << disk, versions, loaded >>
                ELSE /\ disk' = [disk EXCEPT ![d] = tape]
                     /\ versions' = [versions EXCEPT ![d] = @ \cup {tape}]
                     /\ loaded' = [program |-> p, device |-> d, free |-> free]
             /\ script' = CopyFileScript(p, free)

load_cmd(p, d) ==
    /\ process = "up" /\ loads < MaxLoads /\ loads' = loads + 1
    /\ ConvertSWtoPaper(p, d)
    /\ UNCHANGED << process, punch, tty1, reader, read, begins, pages >>

-----------------------------------------------------------------------------
(***************************************************************************)
(* Reading.  An instruction asks for a number of words, as the words it    *)
(* meets tell it; fscanf looks at the byte behind a word and leaves it.    *)
(* What is ahead of a stream is its buffer, and then the file as it is now *)
(* from the offset of the stream on.  The end of the file is final.        *)
(***************************************************************************)
Least(a, b) == IF a < b THEN a ELSE b
Blocks(n, size) == (n + size - 1) \div size

Ahead(tape, stream) ==
    IF stream.eof THEN << >>
    ELSE stream.buffer \o SubSeq(tape, stream.offset + 1, Len(tape))

WordEnds(text) ==
    {i \in 1 .. Len(text) : text[i] # Space /\ (i = Len(text) \/ text[i + 1] = Space)}

\* The bytes that n words take, or all when there are fewer.
Taken(text, n) ==
    LET nth == {i \in WordEnds(text) : Cardinality(WordEnds(text) \cap 1 .. i) = n}
    IN  IF nth = {} THEN Len(text) ELSE CHOOSE i \in nth : TRUE

Page(tape, stream, n) ==
    IF stream.open THEN SubSeq(Ahead(tape, stream), 1, Taken(Ahead(tape, stream), n))
    ELSE << >>

\* Faulty: a refill after a load starts at the beginning of the tape.
AfterPage_Rewinds(tape, stream, n) ==
    IF ~stream.open \/ stream.eof THEN stream
    ELSE [open |-> TRUE, offset |-> 0, buffer |-> << >>,
          eof |-> Taken(Ahead(tape, stream), n) = Len(Ahead(tape, stream))]

AfterPage(tape, stream, n) ==
    LET ahead   == Ahead(tape, stream)
        taken   == Taken(ahead, n)
        looked  == Least(taken + 1, Len(ahead))
        missing == looked - Len(stream.buffer)
        offset  == IF missing <= 0 THEN stream.offset
                   ELSE Least(Len(tape), stream.offset + Blocks(missing, BLOCK) * BLOCK)
        filled  == stream.buffer \o SubSeq(tape, stream.offset + 1, offset)
    IN  IF ~stream.open \/ stream.eof THEN stream
        ELSE [open |-> TRUE, offset |-> offset, eof |-> taken = Len(ahead),
              buffer |-> SubSeq(filled, taken + 1, Len(filled))]

Read_from_FT(d, n) ==
    /\ process = "up" /\ pages < MaxPages /\ pages' = pages + 1
    /\ reader' = [reader EXCEPT ![d] = AfterPage(disk[d], @, n)]
    /\ read' = [read EXCEPT ![d] = @ \o Page(disk[d], reader[d], n)]
    /\ UNCHANGED << process, files, punch, tty1, versions, descriptors, loaded, loads, begins >>

-----------------------------------------------------------------------------
(***************************************************************************)
(* Punching.  A full buffer is written where the stream stands when one    *)
(* more frame comes; a file that was truncated since is filled up.         *)
(***************************************************************************)
Overwritten(file, at, frames) ==
    LET last == at + Len(frames)
    IN  IF frames = << >> THEN file
        ELSE [i \in 1 .. (IF Len(file) < last THEN last ELSE Len(file)) |->
                 IF i \in at + 1 .. last THEN frames[i - at]
                 ELSE IF i <= Len(file) THEN file[i]
                 ELSE Hole]

Punch(frames) ==
    /\ process = "up" /\ pages < MaxPages /\ pages' = pages + 1
    /\ ptp1 # << >>
    /\ LET stream  == Last(ptp1)
           all     == stream.buffer \o frames
           written == Blocks(Len(all) - PUNCH_BLOCK, PUNCH_BLOCK) * PUNCH_BLOCK
           flushed == IF Len(all) <= PUNCH_BLOCK THEN 0 ELSE written
       IN  IF stream.open
           THEN /\ punched' = Overwritten(punched, stream.offset, SubSeq(all, 1, flushed))
                /\ ptp1' = [ptp1 EXCEPT ![Len(ptp1)] =
                              [stream EXCEPT !.offset = stream.offset + flushed,
                                             !.buffer = SubSeq(all, flushed + 1, Len(all))]]
                /\ output' = output \o frames
           ELSE UNCHANGED punch
    /\ UNCHANGED << process, files, tty1, reading, descriptors, loaded, loads, begins >>

-----------------------------------------------------------------------------
(***************************************************************************)
(* The start button.  The four files are opened one after the other, as    *)
(* long as there are descriptors; the streams of the last start are lost,  *)
(* not closed.  Opening the punch truncates its file.  The start button    *)
(* then reads a page, the turn NOREADY no word.                            *)
(***************************************************************************)
Opened(stream) == IF stream THEN [NoStream EXCEPT !.open = TRUE] ELSE NoStream
One(b) == IF b THEN 1 ELSE 0

Emu_Open_Files(words) ==
    LET free  == MAX_OPEN - descriptors
        ptr1  == free > 0 /\ disk["ptr1"] # Missing
        ptr2  == free > One(ptr1) /\ disk["ptr2"] # Missing
        ptp   == free > One(ptr1) + One(ptr2)
        tty   == free > One(ptr1) + One(ptr2) + 1
        opened == [d \in Devices |-> Opened(IF d = "ptr1" THEN ptr1 ELSE ptr2)]
        Starts(d) == words > 0 /\ d = "ptr1"
    IN  /\ descriptors' = descriptors + One(ptr1) + One(ptr2) + One(ptp) + One(tty)
        /\ reader' = [d \in Devices |-> IF Starts(d) THEN AfterPage(disk[d], opened[d], words)
                                                     ELSE opened[d]]
        /\ read' = [d \in Devices |-> IF Starts(d) THEN Page(disk[d], opened[d], words)
                                                   ELSE << >>]
        /\ versions' = [d \in Devices |-> {disk[d]}]
        /\ ptp1' = Append(ptp1, Opened(ptp))
        /\ punched' = IF ptp THEN << >> ELSE punched
        /\ output' = << >>
        /\ tty1' = tty

\* The first turn of the loop, unless begin came before it.
TurnNoReady ==
    /\ process = "up"
    /\ ptp1 = << >>
    /\ Emu_Open_Files(0)
    /\ UNCHANGED << process, files, loaded, bounds >>

Emu_Begin ==
    /\ process = "up" /\ begins < MaxBegins /\ begins' = begins + 1
    /\ \E n \in 1 .. PAGE : Emu_Open_Files(n)
    /\ UNCHANGED << process, files, loaded, loads, pages >>

-----------------------------------------------------------------------------
(***************************************************************************)
(* The end.  quit closes the four current streams, and a null pointer ends *)
(* the process there; exit then writes out the buffers of the streams that *)
(* were lost, the newest first.  A process that is killed loses them all.  *)
(***************************************************************************)
AllWritten ==
    LET n == Len(ptp1)
        file[i \in 0 .. n] ==
            IF i = 0 THEN punched
            ELSE Overwritten(file[i - 1], ptp1[n + 1 - i].offset, ptp1[n + 1 - i].buffer)
    IN  file[n]

\* Faulty: the process ends without exit.
quit_cmd_NoFlush ==
    /\ process = "up"
    /\ process' = "exited"
    /\ UNCHANGED << files, ptp1, output, punched, tty1, reading, descriptors, loaded, bounds >>

quit_cmd ==
    /\ process = "up"
    /\ IF tty1 /\ Last(ptp1).open /\ \A d \in Devices : reader[d].open
       THEN process' = "exited" /\ punched' = AllWritten
       ELSE process' = "killed" /\ UNCHANGED punched
    /\ UNCHANGED << files, ptp1, output, tty1, reading, descriptors, loaded, bounds >>

Kill ==
    /\ process = "up"
    /\ process' = "killed"
    /\ UNCHANGED << files, punch, tty1, reading, descriptors, loaded, bounds >>

Next ==
    \/ \E p \in Programs, d \in Devices : load_cmd(p, d)
    \/ \E d \in Devices, n \in 1 .. PAGE : Read_from_FT(d, n)
    \/ \E f \in PunchFrames : \E n \in 1 .. PAGE : Punch([i \in 1 .. n |-> f])
    \/ TurnNoReady \/ Emu_Begin \/ quit_cmd \/ Kill

Spec == Init /\ [][Next]_vars

-----------------------------------------------------------------------------
\* A refill may have begun k bytes into a file that has held tapes: behind whole
\* blocks, counted from the start or from the end of a tape that was read to it.
Seam(k, tapes) ==
    \E tape \in tapes \cup {<< >>} : \E n \in 0 .. k : k = Len(tape) + n * BLOCK

(* A load under an open reader may mix tapes, and cut or join their words,   *)
(* but it neither moves a byte nor repeats one: what the reader passes       *)
(* between two places where a refill may begin is what ONE tape, which the   *)
(* file has held since the reader was opened, has at these places; and a     *)
(* reader at its end has passed the end of such a tape.                      *)
ReaderKeepsItsPlace ==
    \A d \in Devices : reader[d].open =>
        /\ \A i, j \in DOMAIN read[d] :
              i <= j /\ (\A k \in i .. j - 1 : ~Seam(k, versions[d])) =>
                  \E tape \in versions[d] :
                      j <= Len(tape) /\ \A k \in i .. j : read[d][k] = tape[k]
        /\ reader[d].eof => \E tape \in versions[d] : Len(tape) <= Len(read[d])

(* A tape that is not empty is accompanied by the script of its program,   *)
(* also when the process has run out of descriptors between the two files. *)
TapeAndScriptBelongTogether ==
    loaded # NotLoaded /\ disk[loaded.device] # << >> =>
        script = IF Script(loaded.program) = Missing THEN Empty ELSE Script(loaded.program)

(* What the last start has punched is on the tape, but for one buffer that *)
(* a crash may lose, and all of it after quit, provided that no stream of  *)
(* an earlier start was left with frames in its buffer.                    *)
PunchedFileIsOutput ==
    ptp1 # << >> /\ Last(ptp1).open =>
        /\ process # "exited" => /\ IsPrefix(punched, output)
                                 /\ Len(output) <= Len(punched) + PUNCH_BLOCK
        /\ (process = "exited" /\ \A i \in 1 .. Len(ptp1) - 1 : ptp1[i].buffer = << >>)
              => punched = output

Listed(p) ==
    FlattenSeq([n \in DOMAIN List(p) |-> FileText(p, List(p)[n].name)])

NamesAreCovered(p) ==
    \A n \in DOMAIN List(p) :
        n > 1 => Len(List(p)[n - 1].name) <= Len(Bytes(List(p)[n]))

(* A list in which every line is as long as the name before it, which all  *)
(* lists under software/ are, puts its files on the tape, all of them and  *)
(* in their order, when three more files can be open; else the tape is     *)
(* left empty, never half written.                                         *)
LoadIsAllOrNothing ==
    loaded # NotLoaded /\ List(loaded.program) # Missing /\ NamesAreCovered(loaded.program) =>
        disk[loaded.device] = IF loaded.free >= 3 THEN Listed(loaded.program) ELSE << >>
=============================================================================
