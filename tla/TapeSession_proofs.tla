------------------------- MODULE TapeSession_proofs --------------------------
(***************************************************************************)
(* Proofs about a session with tapes: for every size of a page, of a       *)
(* buffer and of the table of descriptors, and every list of sources.      *)
(*                                                                         *)
(* The list: the buffer holds the name of the last line with zeros behind  *)
(* it, as long as every line covers the name before it (NameIsRead).       *)
(* The reader: what a stream has passed and what it has in its buffer is   *)
(* of one tape between seams, and its offset is where that ends, a seam    *)
(* (StreamInv).                                                            *)
(* The punch: the current stream writes where its file ends, and the file  *)
(* with the buffer is what was punched (PunchInv).                         *)
(***************************************************************************)
EXTENDS TapeSession, SequenceTheorems, Induction

(* The names in a list, and what a load writes.                            *)

(* A line of the buffer: a name, and zeros behind it.                      *)
Padded(name) == [i \in 1 .. MAX_NAME |-> IF i <= Len(name) THEN name[i] ELSE Zero]
Names == Seq(Nat \ {Zero, NewLine})

LEMMA StrLenIs ==
    ASSUME NEW str, NEW n \in 0 .. MAX_NAME - 1,
           str[n + 1] = Zero, \A i \in 1 .. n : str[i] # Zero
    PROVE  StrLen(str) = n
<1> DEFINE Ends(m) == str[m + 1] = Zero /\ \A i \in 1 .. m : str[i] # Zero
<1>1. ASSUME NEW m \in 0 .. MAX_NAME - 1, Ends(m) PROVE m = n
  <2>1. CASE m < n
    <3>1. m + 1 \in 1 .. n
      BY <2>1
    <3> QED
      BY <1>1, <3>1
  <2>2. CASE n < m
    <3>1. n + 1 \in 1 .. m
      BY <2>2
    <3> QED
      BY <1>1, <3>1
  <2> QED
    BY <2>1, <2>2, TapeSessionAssumption
<1>2. StrLen(str) = CHOOSE m \in 0 .. MAX_NAME - 1 : Ends(m)
  BY DEF StrLen
<1>3. Ends(n)
  OBVIOUS
<1> HIDE DEF Ends
<1> QED
  BY <1>1, <1>2, <1>3

LEMMA BytesFacts ==
    ASSUME NEW line \in Lines
    PROVE  /\ line.name \in Names /\ Len(line.name) \in Nat
           /\ Len(Bytes(line)) = IF line.newline THEN Len(line.name) + 1 ELSE Len(line.name)
           /\ \A i \in 1 .. Len(line.name) : /\ Bytes(line)[i] = line.name[i]
                                             /\ line.name[i] \in Nat \ {Zero, NewLine}
           /\ line.newline => Bytes(line)[Len(line.name) + 1] = NewLine
<1>1. line.name \in Names /\ line.newline \in BOOLEAN
  BY DEF Lines, Names
<1>2. /\ line.name \in Seq(Nat) /\ Len(line.name) \in Nat
      /\ \A i \in 1 .. Len(line.name) : line.name[i] \in Nat \ {Zero, NewLine}
  BY <1>1, ElementOfSeq DEF Names
<1>3. CASE line.newline
  <2>1. << NewLine >> \in Seq(Nat) /\ Len(<< NewLine >>) = 1 /\ << NewLine >>[1] = NewLine
    BY DEF NewLine
  <2>2. Bytes(line) = line.name \o << NewLine >>
    BY <1>3 DEF Bytes
  <2> QED
    BY <1>1, <1>2, <1>3, <2>1, <2>2, ConcatProperties
<1>4. CASE ~line.newline
  <2>1. Bytes(line) = line.name
    BY <1>2, <1>4, ConcatEmptySeq DEF Bytes
  <2> QED
    BY <1>1, <1>2, <1>4, <2>1
<1> QED
  BY <1>3, <1>4

(* A line over a name that is not longer: the name in the line, and zeros. *)
Copied(str, bytes) == [i \in 1 .. MAX_NAME |-> IF i <= Len(bytes) THEN bytes[i] ELSE str[i]]
Chomped(str) == IF StrLen(str) > 0 /\ str[StrLen(str)] = NewLine
                THEN [str EXCEPT ![StrLen(str)] = Zero] ELSE str

LEMMA LineIsChomped ==
    ASSUME NEW name \in Names, NEW line \in Lines,
           Len(name) <= Len(Bytes(line)), Len(Bytes(line)) < MAX_NAME
    PROVE  Chomped(Copied(Padded(name), Bytes(line))) = Padded(line.name)
<1> DEFINE l   == Len(line.name)
           b   == Len(Bytes(line))
           str == Copied(Padded(name), Bytes(line))
<1>1. /\ l \in Nat /\ b \in Nat /\ Len(name) \in Nat /\ MAX_NAME \in Nat
      /\ b = IF line.newline THEN l + 1 ELSE l
      /\ line.newline \in BOOLEAN
  <2>1. line.newline \in BOOLEAN /\ Len(name) \in Nat /\ MAX_NAME \in Nat
    BY TapeSessionAssumption, LenProperties DEF Lines, Names
  <2>2. l \in Nat /\ b = IF line.newline THEN l + 1 ELSE l
    BY BytesFacts
  <2> QED
    BY <2>1, <2>2
<1>2. \A i \in 1 .. l : Bytes(line)[i] = line.name[i] /\ line.name[i] \in Nat \ {Zero, NewLine}
  BY BytesFacts
<1>3. line.newline => Bytes(line)[l + 1] = NewLine
  BY BytesFacts
<1>4. /\ DOMAIN str = 1 .. MAX_NAME
      /\ \A i \in 1 .. l : str[i] = line.name[i]
      /\ line.newline => str[l + 1] = NewLine
      /\ \A i \in b + 1 .. MAX_NAME : str[i] = Zero
  <2>1. str = [i \in 1 .. MAX_NAME |-> IF i <= b THEN Bytes(line)[i] ELSE Padded(name)[i]]
    BY DEF Copied
  <2>2. \A i \in b + 1 .. MAX_NAME : Padded(name)[i] = Zero
    BY <1>1 DEF Padded
  <2> HIDE DEF str, b, l
  <2>3. \A i \in 1 .. l : i \in 1 .. MAX_NAME /\ i <= b
    BY <1>1 DEF b
  <2>4. \A i \in b + 1 .. MAX_NAME : i \in 1 .. MAX_NAME /\ ~(i <= b)
    BY <1>1
  <2>5. line.newline => l + 1 \in 1 .. MAX_NAME /\ l + 1 <= b
    BY <1>1 DEF b
  <2> QED
    BY <1>2, <1>3, <2>1, <2>2, <2>3, <2>4, <2>5
<1> SUFFICES Chomped(str) = Padded(line.name)
  OBVIOUS
<1> HIDE DEF str
<1>5. StrLen(str) = b
  <2>1. str[b + 1] = Zero /\ b \in 0 .. MAX_NAME - 1
    BY <1>1, <1>4
  <2>2. ASSUME NEW i \in 1 .. b PROVE str[i] # Zero
    <3>1. i \in 1 .. l \/ (line.newline /\ i = l + 1)
      BY <1>1
    <3> QED
      BY <1>2, <1>4, <3>1 DEF Zero, NewLine
  <2> QED
    BY <2>1, <2>2, StrLenIs
<1>6. CASE line.newline
  <2>1. Chomped(str) = [str EXCEPT ![b] = Zero] /\ b = l + 1
    BY <1>1, <1>4, <1>5, <1>6 DEF Chomped
  <2>2. ASSUME NEW i \in 1 .. MAX_NAME PROVE Chomped(str)[i] = Padded(line.name)[i]
    BY <1>1, <1>4, <2>1 DEF Padded
  <2>3. DOMAIN Chomped(str) = 1 .. MAX_NAME
    BY <1>4, <2>1
  <2>4. Chomped(str) = [i \in 1 .. MAX_NAME |-> Chomped(str)[i]]
    BY <2>1, <2>3, <1>4
  <2> QED
    BY <2>2, <2>4 DEF Padded
<1>7. CASE ~line.newline
  <2>1. b > 0 => str[b] # NewLine
    BY <1>1, <1>2, <1>4, <1>7
  <2>2. Chomped(str) = str
    BY <1>5, <2>1 DEF Chomped
  <2>3. ASSUME NEW i \in 1 .. MAX_NAME PROVE str[i] = Padded(line.name)[i]
    BY <1>1, <1>4, <1>7 DEF Padded
  <2>4. str = [i \in 1 .. MAX_NAME |-> str[i]]
    BY <1>4 DEF str, Copied
  <2> QED
    BY <2>2, <2>3, <2>4 DEF Padded
<1> QED
  BY <1>1, <1>6, <1>7

(* A list whose lines cover the names before them is read name by name.    *)
LEMMA NameIsRead ==
    ASSUME NEW lines \in Seq(Lines), \A k \in DOMAIN lines : Len(Bytes(lines[k])) < MAX_NAME,
           \A k \in DOMAIN lines : k > 1 => Len(lines[k - 1].name) <= Len(Bytes(lines[k])),
           NEW n \in DOMAIN lines
    PROVE  NameInList(lines, n) = lines[n].name
<1> DEFINE zeros  == [i \in 1 .. MAX_NAME |-> Zero]
           E(f)   == [k \in 0 .. n |-> IF k = 0 THEN zeros
                                       ELSE Chomped(Copied(f[k - 1], Bytes(lines[k])))]
           buffer == CHOOSE f : f = E(f)
           padded == [k \in 0 .. n |-> IF k = 0 THEN zeros ELSE Padded(lines[k].name)]
<1>1. /\ n \in Nat /\ n >= 1 /\ n <= Len(lines) /\ DOMAIN lines = 1 .. Len(lines)
      /\ \A k \in 1 .. n : lines[k] \in Lines /\ lines[k].name \in Names
  <2>1. DOMAIN lines = 1 .. Len(lines) /\ Len(lines) \in Nat
    BY LenProperties
  <2>2. \A k \in 1 .. n : lines[k] \in Lines
    BY <2>1, ElementOfSeq
  <2> QED
    BY <2>1, <2>2 DEF Lines, Names
<1>2. zeros = Padded(<< >>) /\ << >> \in Names /\ Len(<< >>) = 0
  <2>1. \A i \in 1 .. MAX_NAME : ~ (i <= 0)
    BY TapeSessionAssumption
  <2> QED
    BY <2>1 DEF Padded, Names
<1>3. ASSUME NEW k \in 1 .. n
      PROVE  Padded(lines[k].name) = Chomped(Copied(padded[k - 1], Bytes(lines[k])))
  <2>1. lines[k] \in Lines /\ Len(Bytes(lines[k])) < MAX_NAME
    BY <1>1
  <2>2. PICK name \in Names : padded[k - 1] = Padded(name) /\ Len(name) <= Len(Bytes(lines[k]))
    <3>1. CASE k = 1
      <4>1. padded[k - 1] = Padded(<< >>)
        BY <1>1, <1>2, <3>1
      <4>2. 0 <= Len(Bytes(lines[k]))
        BY <2>1, BytesFacts
      <4> QED
        BY <1>2, <4>1, <4>2
    <3>2. CASE k # 1
      <4>1. k - 1 \in 1 .. n /\ k \in DOMAIN lines /\ k > 1
        BY <1>1, <3>2
      <4>2. padded[k - 1] = Padded(lines[k - 1].name) /\ lines[k - 1].name \in Names
        BY <1>1, <4>1
      <4> QED
        BY <4>1, <4>2
    <3> QED
      BY <3>1, <3>2
  <2> HIDE DEF padded
  <2>3. Chomped(Copied(Padded(name), Bytes(lines[k]))) = Padded(lines[k].name)
    BY <2>1, <2>2, LineIsChomped
  <2> QED
    BY <2>2, <2>3
<1>4. padded = E(padded)
  <2> HIDE DEF zeros
  <2>1. \A k \in 0 .. n : k # 0 => k \in 1 .. n
    OBVIOUS
  <2> QED
    BY <1>3, <2>1
<1>5. buffer = E(buffer)
  <2> HIDE DEF E, padded
  <2> QED
    BY <1>4
<1>6. buffer[n] = padded[n]
  <2> HIDE DEF buffer, zeros
  <2> DEFINE T == {k \in 0 .. n : buffer[k] = padded[k]}
  <2>1. 0 \in T
    BY <1>1, <1>5
  <2>2. ASSUME NEW k \in 0 .. n - 1, k \in T PROVE k + 1 \in T
    <3>1. k + 1 \in 1 .. n /\ k + 1 \in 0 .. n /\ k + 1 # 0 /\ (k + 1) - 1 = k
      BY <1>1
    <3>2. buffer[k + 1] = Chomped(Copied(buffer[k], Bytes(lines[k + 1])))
      BY <1>5, <3>1
    <3>3. padded[k + 1] = Chomped(Copied(padded[k], Bytes(lines[k + 1])))
      BY <1>3, <3>1
    <3> QED
      BY <2>2, <3>1, <3>2, <3>3
  <2> HIDE DEF T
  <2>3. 0 .. n \subseteq T
    BY <1>1, <2>1, <2>2, Induction
  <2> QED
    BY <1>1, <2>3 DEF T
<1>7. NameInList(lines, n) = SubSeq(buffer[n], 1, StrLen(buffer[n]))
  BY DEF NameInList, Chomped, Copied
<1> DEFINE name == lines[n].name
<1>8. /\ buffer[n] = Padded(name) /\ name \in Names /\ Len(name) < MAX_NAME
      /\ Len(name) \in Nat /\ \A i \in 1 .. Len(name) : name[i] \in Nat \ {Zero, NewLine}
  <2>1. buffer[n] = Padded(name) /\ lines[n] \in Lines /\ n \in DOMAIN lines
    BY <1>1, <1>6
  <2>2. Len(Bytes(lines[n])) < MAX_NAME
    BY <2>1
  <2> HIDE DEF buffer
  <2> QED
    BY <2>1, <2>2, BytesFacts, TapeSessionAssumption
<1> HIDE DEF buffer, name
<1>9. StrLen(Padded(name)) = Len(name)
  <2>1. Padded(name)[Len(name) + 1] = Zero /\ \A i \in 1 .. Len(name) : Padded(name)[i] # Zero
    BY <1>8, TapeSessionAssumption DEF Padded
  <2>2. Len(name) \in 0 .. MAX_NAME - 1
    BY <1>8, TapeSessionAssumption
  <2> QED
    BY <2>1, <2>2, StrLenIs
<1>10. SubSeq(Padded(name), 1, Len(name)) = name
  <2>1. SubSeq(Padded(name), 1, Len(name)) = [i \in 1 .. Len(name) |-> Padded(name)[i]]
    BY <1>8
  <2>2. \A i \in 1 .. Len(name) : Padded(name)[i] = name[i]
    BY <1>8, TapeSessionAssumption DEF Padded
  <2>3. name = [i \in 1 .. Len(name) |-> name[i]]
    BY <1>8 DEF Names
  <2> QED
    BY <2>1, <2>2, <2>3
<1> QED
  BY <1>7, <1>8, <1>9, <1>10 DEF name

(* Sequences, one after the other, are a sequence.                         *)
LEMMA FlattenType ==
    ASSUME NEW S, NEW seqs \in Seq(Seq(S)) PROVE FlattenSeq(seqs) \in Seq(S)
<1> DEFINE n     == Len(seqs)
           V     == Seq(S)
           step  == [k \in 2 .. n |-> [v \in V |-> v \o seqs[k]]]
           E(f)  == [i \in 1 .. n |-> IF i = 1 THEN seqs[i] ELSE f[i - 1] \o seqs[i]]
           flatten == CHOOSE f : f = E(f)
<1>1. CASE n = 0
  <2>1. seqs = << >>
    BY <1>1, EmptySeq
  <2> QED
    BY <1>1, <2>1 DEF FlattenSeq
<1>2. CASE n # 0
  <2>1. n \in Nat /\ 1 <= n /\ \A i \in 1 .. n : seqs[i] \in V
    BY <1>2
  <2>2. \A k \in 2 .. n, v \in V : step[k][v] \in V
    BY <2>1
  <2>3. Solvable(1, n, V, seqs[1], step)
    <3>1. 1 \in Nat /\ n \in Nat /\ 1 <= n /\ seqs[1] \in V
      BY <2>1
    <3>2. Steps(1, n, V, step)
      BY <2>2 DEF Steps
    <3> HIDE DEF step, V, n
    <3> QED
      BY <3>1, <3>2, RecursionHasSolution
  <2>4. PICK g \in [1 .. n -> V] :
           g[1] = seqs[1] /\ \A k \in 1 + 1 .. n : g[k] = step[k][g[k - 1]]
    BY <2>3 DEF Solvable
  <2>5. g = E(g)
    <3>1. ASSUME NEW k \in 2 .. n PROVE g[k] = g[k - 1] \o seqs[k]
      <4>1. k - 1 \in 1 .. n /\ k \in 1 + 1 .. n
        OBVIOUS
      <4> QED
        BY <2>4, <4>1
    <3>2. \A k \in 1 .. n : k # 1 => k \in 2 .. n
      OBVIOUS
    <3> HIDE DEF n, V, step
    <3> QED
      BY <2>4, <3>1, <3>2
  <2>6. flatten = E(flatten)
    <3> HIDE DEF E
    <3> QED
      BY <2>5
  <2>7. flatten[n] \in V
    <3> HIDE DEF flatten
    <3> DEFINE T == {k \in 1 .. n : flatten[k] \in V}
    <3>1. 1 \in T
      BY <2>1, <2>6
    <3>2. ASSUME NEW k \in 1 .. n - 1, k \in T PROVE k + 1 \in T
      <4>1. k + 1 \in 1 .. n /\ k + 1 # 1 /\ (k + 1) - 1 = k
        BY <2>1
      <4>2. flatten[k + 1] = flatten[k] \o seqs[k + 1]
        BY <2>6, <4>1
      <4>3. flatten[k] \in Seq(S) /\ seqs[k + 1] \in Seq(S)
        BY <2>1, <3>2, <4>1
      <4>4. flatten[k] \o seqs[k + 1] \in Seq(S)
        BY <4>3, ConcatProperties
      <4> QED
        BY <4>1, <4>2, <4>4
    <3> HIDE DEF T
    <3>3. 1 .. n \subseteq T
      BY <2>1, <3>1, <3>2, Induction
    <3> QED
      BY <2>1, <3>3 DEF T
  <2>8. FlattenSeq(seqs) = flatten[n]
    BY <1>2 DEF FlattenSeq
  <2> QED
    BY <2>7, <2>8
<1> QED
  BY <1>1, <1>2

(* Frames are put on a tape with white space behind them.                  *)
LEMMA FramesTextType ==
    /\ \A frames \in Seq(Seq(Characters)) : FramesText(frames) \in Tape
    /\ Separator \in Tape
<1> DEFINE S == Characters \cup {Space}
<1>1. /\ << Space >> \in Seq(S) /\ << Space, Space >> \in Seq(S)
      /\ Seq(Characters) \subseteq Seq(S)
  BY SeqMonotonic
<1>2. Tape = Seq(S)
  BY DEF Tape
<1> HIDE DEF S
<1>3. ASSUME NEW frames \in Seq(Seq(Characters)) PROVE FramesText(frames) \in Seq(S)
  <2> DEFINE seqs == [i \in DOMAIN frames |-> frames[i] \o << Space, Space >>]
  <2>1. DOMAIN frames = 1 .. Len(frames) /\ Len(frames) \in Nat
    BY LenProperties
  <2>2. ASSUME NEW i \in DOMAIN frames PROVE frames[i] \o << Space, Space >> \in Seq(S)
    <3>1. frames[i] \in Seq(S)
      BY <1>1, <2>1, ElementOfSeq
    <3> QED
      BY <1>1, <3>1, ConcatProperties
  <2>3. seqs \in Seq(Seq(S))
    BY <2>1, <2>2
  <2> HIDE DEF seqs
  <2> QED
    BY <2>3, FlattenType DEF FramesText, seqs
<1>4. Separator \in Seq(S)
  <2> DEFINE seqs == [i \in 1 .. SEPARATORS |-> BlankFrame \o << Space >>]
  <2>1. BlankFrame \o << Space >> \in Seq(S) /\ SEPARATORS \in Nat
    BY <1>1, ConcatProperties, TapeSessionAssumption
  <2>2. seqs \in Seq(Seq(S))
    BY <2>1
  <2> HIDE DEF seqs
  <2> QED
    BY <2>2, FlattenType DEF Separator, seqs
<1> QED
  BY <1>2, <1>3, <1>4

(* Whatever can be opened, a load writes a tape.                           *)
LEMMA LoadWritesTape ==
    ASSUME NEW p \in Programs, NEW free \in Int
    PROVE  LoadFileListToPaperTxt(p, free) \in Tape
<1>1. CASE List(p) = Missing \/ free < 2
  BY <1>1 DEF LoadFileListToPaperTxt, Tape
<1>2. CASE List(p) # Missing /\ ~(free < 2)
  <2> DEFINE seqs == [n \in DOMAIN List(p) |-> FileText(p, NameInList(List(p), n))]
  <2>1. DOMAIN List(p) = 1 .. Len(List(p)) /\ Len(List(p)) \in Nat
    BY <1>2, SourcesAssumption
  <2>2. ASSUME NEW n \in DOMAIN List(p)
        PROVE  FileText(p, NameInList(List(p), n)) \in Tape
    <3> DEFINE file == SourceFile(p, NameInList(List(p), n))
    <3>1. file \in Seq(Seq(Characters)) \cup {Missing}
      BY <1>2, SourcesAssumption
    <3>2. FileText(p, NameInList(List(p), n)) = IF file = Missing THEN << >>
                                                ELSE FramesText(file) \o Separator
      BY DEF FileText
    <3> HIDE DEF file
    <3>3. CASE file = Missing
      BY <3>2, <3>3 DEF Tape
    <3>4. CASE file # Missing
      <4>1. FramesText(file) \in Tape /\ Separator \in Tape
        BY <3>1, <3>4, FramesTextType
      <4> QED
        BY <3>2, <3>4, <4>1, ConcatProperties DEF Tape
    <3> QED
      BY <3>3, <3>4
  <2>3. seqs \in Seq(Tape)
    BY <2>1, <2>2
  <2> HIDE DEF seqs
  <2>4. FlattenSeq(seqs) \in Tape
    BY <2>3, FlattenType DEF Tape
  <2> QED
    BY <1>2, <2>4 DEF LoadFileListToPaperTxt, seqs
<1> QED
  BY <1>1, <1>2

(* What LoadFileListToPaperTxt writes, when it can open the list and one   *)
(* file after the other.                                                   *)
LEMMA LoadWritesListed ==
    ASSUME NEW p \in Programs, List(p) # Missing, NamesAreCovered(p), NEW free \in Int
    PROVE  LoadFileListToPaperTxt(p, free) = IF free < 2 THEN << >> ELSE Listed(p)
<1>1. ASSUME NEW n \in DOMAIN List(p) PROVE NameInList(List(p), n) = List(p)[n].name
  <2>1. /\ List(p) \in Seq(Lines) /\ n \in DOMAIN List(p)
        /\ \A k \in DOMAIN List(p) : Len(Bytes(List(p)[k])) < MAX_NAME
    BY SourcesAssumption
  <2>2. \A k \in DOMAIN List(p) :
           k > 1 => Len(List(p)[k - 1].name) <= Len(Bytes(List(p)[k]))
    BY DEF NamesAreCovered
  <2> QED
    BY <2>1, <2>2, NameIsRead
<1>2. [n \in DOMAIN List(p) |-> FileText(p, NameInList(List(p), n))]
         = [n \in DOMAIN List(p) |-> FileText(p, List(p)[n].name)]
  BY <1>1
<1> QED
  BY <1>2 DEF LoadFileListToPaperTxt, Listed

-----------------------------------------------------------------------------
(* Descriptors, and a tape with its script.                                *)

SessionType == descriptors \in 0 .. MAX_OPEN /\ DOMAIN disk = Devices

LEMMA SessionStep ==
    ASSUME SessionType, [Next]_vars
    PROVE  SessionType'
<1> USE TapeSessionAssumption DEF SessionType
<1>1. ASSUME NEW p \in Programs, NEW d \in Devices, load_cmd(p, d) PROVE SessionType'
  BY <1>1 DEF load_cmd, ConvertSWtoPaper, files
<1>2. ASSUME NEW b, Emu_Open_Files(b), UNCHANGED disk PROVE SessionType'
  BY <1>2 DEF Emu_Open_Files, One
<1>3. ASSUME UNCHANGED << descriptors, disk >> PROVE SessionType'
  BY <1>3
<1> QED
  BY <1>1, <1>2, <1>3
     DEF Next, TurnNoReady, Emu_Begin, Read_from_FT, Punch, quit_cmd, Kill, vars, files

(* Only a load touches the tapes of the readers, the script and the record *)
(* of the last load.                                                       *)
LEMMA OnlyLoadWrites ==
    ASSUME [Next]_vars
    PROVE  \/ UNCHANGED << disk, script, loaded >>
           \/ \E p \in Programs, d \in Devices : load_cmd(p, d)
  BY DEF Next, TurnNoReady, Emu_Begin, Read_from_FT, Punch, quit_cmd, Kill, vars, files

LEMMA ScriptStep ==
    ASSUME SessionType, TapeAndScriptBelongTogether, [Next]_vars
    PROVE  TapeAndScriptBelongTogether'
<1> USE DEF TapeAndScriptBelongTogether
<1>1. CASE UNCHANGED << disk, script, loaded >>
  BY <1>1
<1>2. ASSUME NEW p \in Programs, NEW d \in Devices, load_cmd(p, d), descriptors = MAX_OPEN
      PROVE  TapeAndScriptBelongTogether'
  BY <1>2 DEF load_cmd, ConvertSWtoPaper, files
<1>3. ASSUME NEW p \in Programs, NEW d \in Devices, load_cmd(p, d), descriptors # MAX_OPEN
      PROVE  TapeAndScriptBelongTogether'
  <2> DEFINE free == MAX_OPEN - descriptors - 1
             tape == LoadFileListToPaperTxt(p, free - 1)
  <2>1. free \in Nat /\ script' = CopyFileScript(p, free)
    BY <1>3, TapeSessionAssumption DEF load_cmd, ConvertSWtoPaper, SessionType
  <2>2. CASE free = 0
    BY <1>3, <2>1, <2>2 DEF load_cmd, ConvertSWtoPaper, CopyFileScript
  <2>3. CASE free # 0
    <3>1. /\ loaded'.program = p /\ loaded'.device = d
          /\ disk' = [disk EXCEPT ![d] = tape]
      BY <1>3, <2>3 DEF load_cmd, ConvertSWtoPaper
    <3>2. disk'[loaded'.device] = tape
      BY <3>1 DEF SessionType
    <3>3. tape # << >> => free - 1 >= 2
      BY <2>1 DEF LoadFileListToPaperTxt
    <3>4. free >= 2 => script' = IF Script(p) = Missing THEN Empty ELSE Script(p)
      BY <2>1 DEF CopyFileScript
    <3> QED
      BY <2>1, <3>1, <3>2, <3>3, <3>4
  <2> QED
    BY <2>2, <2>3
<1> QED
  BY <1>1, <1>2, <1>3, OnlyLoadWrites

(* A tape that a load has written is accompanied by the script of its      *)
(* program, with however few descriptors the load was left.                *)
THEOREM ScriptFollowsTape == Spec => []TapeAndScriptBelongTogether
<1>1. Init => SessionType /\ TapeAndScriptBelongTogether
  BY TapeSessionAssumption DEF Init, SessionType, TapeAndScriptBelongTogether
<1>2. SessionType /\ TapeAndScriptBelongTogether /\ [Next]_vars
         => (SessionType /\ TapeAndScriptBelongTogether)'
  BY SessionStep, ScriptStep
<1> QED
  BY <1>1, <1>2, PTL DEF Spec

LEMMA LoadStep ==
    ASSUME SessionType, LoadIsAllOrNothing, [Next]_vars
    PROVE  LoadIsAllOrNothing'
<1> USE DEF LoadIsAllOrNothing
<1>1. CASE UNCHANGED << disk, script, loaded >>
  BY <1>1
<1>2. ASSUME NEW p \in Programs, NEW d \in Devices, load_cmd(p, d),
             UNCHANGED << disk, loaded >>
      PROVE  LoadIsAllOrNothing'
  BY <1>2
<1>3. ASSUME NEW p \in Programs, NEW d \in Devices, load_cmd(p, d),
             ~UNCHANGED << disk, loaded >>
      PROVE  LoadIsAllOrNothing'
  <2> DEFINE free == MAX_OPEN - descriptors - 1
             tape == LoadFileListToPaperTxt(p, free - 1)
  <2>1. /\ disk' = [disk EXCEPT ![d] = tape]
        /\ loaded' = [program |-> p, device |-> d, free |-> free]
    BY <1>3 DEF load_cmd, ConvertSWtoPaper, files
  <2>2. disk'[loaded'.device] = tape /\ loaded'.program = p /\ loaded'.free = free
    BY <2>1 DEF SessionType
  <2>3. free \in Int
    BY TapeSessionAssumption DEF SessionType
  <2> HIDE DEF free
  <2>4. List(p) # Missing /\ NamesAreCovered(p)
           => tape = IF free - 1 < 2 THEN << >> ELSE Listed(p)
    BY <2>3, LoadWritesListed
  <2>5. free - 1 < 2 <=> ~(free >= 3)
    BY <2>3
  <2> QED
    BY <2>2, <2>4, <2>5
<1> QED
  BY <1>1, <1>2, <1>3, OnlyLoadWrites

(* A load whose lines cover the names before them puts every file of the   *)
(* list on the tape, in order, or, without three descriptors, nothing.     *)
THEOREM LoadsAreAllOrNothing == Spec => []LoadIsAllOrNothing
<1>1. Init => SessionType /\ LoadIsAllOrNothing
  BY TapeSessionAssumption DEF Init, SessionType, LoadIsAllOrNothing
<1>2. SessionType /\ LoadIsAllOrNothing /\ [Next]_vars => (SessionType /\ LoadIsAllOrNothing)'
  BY SessionStep, LoadStep
<1> QED
  BY <1>1, <1>2, PTL DEF Spec

-----------------------------------------------------------------------------
(* Blocks, and parts of sequences.                                         *)

LEMMA BlocksCover ==
    ASSUME NEW n \in Nat, NEW size \in Nat \ {0}
    PROVE  /\ Blocks(n, size) \in Nat
           /\ Blocks(n, size) * size >= n /\ Blocks(n, size) * size \in Nat
           /\ Blocks(n, size) * size < n + size
  BY DEF Blocks

LEMMA SubSeqFacts ==
    ASSUME NEW S, NEW s \in Seq(S), NEW at \in Nat, NEW last \in 0 .. Len(s)
    PROVE  /\ SubSeq(s, at + 1, last) \in Seq(S)
           /\ Len(SubSeq(s, at + 1, last)) = IF at < last THEN last - at ELSE 0
           /\ \A i \in 1 .. Len(SubSeq(s, at + 1, last)) :
                 SubSeq(s, at + 1, last)[i] = s[at + i]
<1> DEFINE m == at + 1
<1>1. m \in Int /\ last \in Int /\ m = at + 1 /\ \A i \in m .. last : s[i] \in S
  OBVIOUS
<1> HIDE DEF m
<1>2. /\ SubSeq(s, m, last) \in Seq(S)
      /\ Len(SubSeq(s, m, last)) = IF m <= last THEN last - m + 1 ELSE 0
      /\ \A i \in 1 .. last - m + 1 : SubSeq(s, m, last)[i] = s[m + i - 1]
  BY <1>1, SubSeqProperties
<1>3. Len(SubSeq(s, m, last)) = IF at < last THEN last - at ELSE 0
  BY <1>1, <1>2
<1>4. ASSUME NEW i \in 1 .. Len(SubSeq(s, m, last))
      PROVE  SubSeq(s, m, last)[i] = s[at + i]
  <2>1. i \in 1 .. last - m + 1 /\ m + i - 1 = at + i
    BY <1>1, <1>3
  <2> QED
    BY <1>2, <2>1
<1> QED
  BY <1>1, <1>2, <1>3, <1>4

LEMMA PrefixFacts ==
    ASSUME NEW S, NEW s \in Seq(S), NEW last \in 0 .. Len(s)
    PROVE  /\ SubSeq(s, 1, last) \in Seq(S) /\ Len(SubSeq(s, 1, last)) = last
           /\ \A i \in 1 .. last : SubSeq(s, 1, last)[i] = s[i]
<1>1. last \in Int /\ last \in Nat /\ 1 \in Int /\ \A i \in 1 .. last : s[i] \in S
  OBVIOUS
<1>2. /\ SubSeq(s, 1, last) \in Seq(S)
      /\ Len(SubSeq(s, 1, last)) = IF 1 <= last THEN last - 1 + 1 ELSE 0
      /\ \A i \in 1 .. last - 1 + 1 : SubSeq(s, 1, last)[i] = s[1 + i - 1]
  BY <1>1, SubSeqProperties
<1>3. ASSUME NEW i \in 1 .. last PROVE SubSeq(s, 1, last)[i] = s[i]
  <2>1. i \in 1 .. last - 1 + 1 /\ 1 + i - 1 = i
    BY <1>1
  <2> QED
    BY <1>2, <2>1
<1> QED
  BY <1>1, <1>2, <1>3

LEMMA LeastFacts ==
    ASSUME NEW m \in Nat, NEW n \in Nat
    PROVE  /\ Least(m, n) \in 0 .. n /\ Least(m, n) \in Nat
           /\ Least(m, n) < m => Least(m, n) = n
           /\ \A k \in Nat : k <= m /\ k <= n => k <= Least(m, n)
           /\ Least(m, n) <= m
  BY DEF Least

LEMMA ConcatFacts ==
    ASSUME NEW S, NEW s \in Seq(S), NEW t \in Seq(S)
    PROVE  /\ s \o t \in Seq(S)
           /\ Len(s \o t) = Len(s) + Len(t)
           /\ \A k \in 1 .. Len(s) : (s \o t)[k] = s[k]
           /\ \A k \in 1 .. Len(t) : (s \o t)[Len(s) + k] = t[k]
  OBVIOUS

-----------------------------------------------------------------------------
(* Streams.                                                                *)

LEMMA ReaderFacts ==
    ASSUME NEW st \in Readers
    PROVE  /\ st.open \in BOOLEAN /\ st.offset \in Nat /\ st.eof \in BOOLEAN
           /\ st.buffer \in Tape /\ Len(st.buffer) \in Nat /\ Len(st.buffer) <= BLOCK
  BY DEF Readers, Streams, Tape

LEMMA ReaderIs ==
    ASSUME NEW open \in BOOLEAN, NEW offset \in Nat, NEW eof \in BOOLEAN,
           NEW buffer \in Tape, Len(buffer) <= BLOCK
    PROVE  [open |-> open, offset |-> offset, buffer |-> buffer, eof |-> eof] \in Readers
  BY DEF Readers, Streams, Tape

(* A stream that has just been opened, and no stream.                      *)
LEMMA OpenedIs ==
    ASSUME NEW o \in BOOLEAN
    PROVE  /\ Opened(o) = [open |-> o, offset |-> 0, buffer |-> << >>, eof |-> FALSE]
           /\ Opened(o) \in Readers /\ Opened(o) \in Punches
<1>1. Opened(o) = [open |-> o, offset |-> 0, buffer |-> << >>, eof |-> FALSE]
  BY DEF Opened, NoStream
<1>2. Len(<< >>) = 0 /\ << >> \in Tape /\ << >> \in Seq(PunchFrames)
  BY DEF Tape
<1> QED
  BY <1>1, <1>2, TapeSessionAssumption DEF Readers, Punches, Streams, Tape

LEMMA NoStreamIs == NoStream \in Readers /\ << >> \in Tape
<1>1. NoStream = Opened(FALSE)
  BY DEF Opened
<1>2. << >> \in Tape
  BY DEF Tape
<1> QED
  BY <1>1, <1>2, OpenedIs

LEMMA TapesConcat ==
    ASSUME NEW s \in Tape, NEW t \in Tape
    PROVE  /\ s \o t \in Tape /\ Len(s) \in Nat /\ Len(t) \in Nat
           /\ Len(s \o t) = Len(s) + Len(t)
           /\ \A k \in 1 .. Len(s) : (s \o t)[k] = s[k]
           /\ \A k \in 1 .. Len(t) : (s \o t)[Len(s) + k] = t[k]
  BY DEF Tape

LEMMA TapesRegroup ==
    ASSUME NEW s \in Tape, NEW t \in Tape, NEW u \in Tape
    PROVE  (s \o t) \o u = s \o (t \o u)
<1> DEFINE S == Characters \cup {Space}
<1>1. s \in Seq(S) /\ t \in Seq(S) /\ u \in Seq(S)
  BY DEF Tape
<1> HIDE DEF S
<1> QED
  BY <1>1, ConcatAssociative

-----------------------------------------------------------------------------
(* Seams and the pieces between them.                                      *)

(* What has no seam inside comes from one tape, at its place.              *)
Whole(s, i, j, tapes) ==
    \E t \in tapes : j <= Len(t) /\ \A k \in i .. j : s[k] = t[k]

Pieces(s, tapes) ==
    \A i, j \in 1 .. Len(s) :
        i <= j /\ (\A k \in i .. j - 1 : ~Seam(k, tapes)) => Whole(s, i, j, tapes)

LEMMA SeamMore ==
    ASSUME NEW tapes, NEW more, tapes \subseteq more, NEW k, Seam(k, tapes)
    PROVE  Seam(k, more)
  BY DEF Seam

LEMMA PiecesMore ==
    ASSUME NEW s \in Tape, NEW tapes, NEW more, tapes \subseteq more, Pieces(s, tapes)
    PROVE  Pieces(s, more)
<1> SUFFICES ASSUME NEW i \in 1 .. Len(s), NEW j \in 1 .. Len(s), i <= j,
                    \A k \in i .. j - 1 : ~Seam(k, more)
             PROVE  Whole(s, i, j, more)
  BY DEF Pieces
<1>1. \A k \in i .. j - 1 : ~Seam(k, tapes)
  BY SeamMore
<1>2. Whole(s, i, j, tapes)
  BY <1>1 DEF Pieces
<1> QED
  BY <1>2 DEF Whole

LEMMA PiecesPrefix ==
    ASSUME NEW s \in Tape, NEW t \in Tape, NEW tapes, Pieces(s \o t, tapes)
    PROVE  Pieces(s, tapes)
<1> DEFINE c == s \o t
<1>1. /\ Len(s) \in Nat /\ Len(t) \in Nat /\ Len(c) = Len(s) + Len(t)
      /\ \A k \in 1 .. Len(s) : c[k] = s[k]
  BY TapesConcat
<1> HIDE DEF c
<1> SUFFICES ASSUME NEW i \in 1 .. Len(s), NEW j \in 1 .. Len(s), i <= j,
                    \A k \in i .. j - 1 : ~Seam(k, tapes)
             PROVE  Whole(s, i, j, tapes)
  BY DEF Pieces
<1>2. i \in 1 .. Len(c) /\ j \in 1 .. Len(c)
  BY <1>1
<1>3. Whole(c, i, j, tapes)
  BY <1>2 DEF Pieces, c
<1>4. \A k \in i .. j : c[k] = s[k]
  BY <1>1
<1> QED
  BY <1>3, <1>4 DEF Whole

(* A refill continues at a seam with bytes of the tape of this moment.     *)
LEMMA PiecesGrow ==
    ASSUME NEW tapes \in SUBSET Tape, NEW tape \in tapes, NEW h \in Tape,
           Pieces(h, tapes), Seam(Len(h), tapes), NEW last \in 0 .. Len(tape)
    PROVE  Pieces(h \o SubSeq(tape, Len(h) + 1, last), tapes)
<1> DEFINE from == Len(h)
           more == SubSeq(tape, from + 1, last)
           c    == h \o more
<1>1. from \in Nat /\ tape \in Tape /\ Len(tape) \in Nat /\ last \in Nat /\ last <= Len(tape)
  BY DEF Tape
<1>2. /\ more \in Tape /\ Len(more) \in Nat
      /\ Len(more) = IF from < last THEN last - from ELSE 0
      /\ \A i \in 1 .. Len(more) : more[i] = tape[from + i]
  BY <1>1, SubSeqFacts DEF Tape
<1> HIDE DEF more
<1>3. /\ Len(c) = from + Len(more)
      /\ \A k \in 1 .. from : c[k] = h[k]
      /\ \A k \in 1 .. Len(more) : c[from + k] = more[k]
  BY <1>2, TapesConcat
<1> HIDE DEF c
<1>4. ASSUME NEW k \in 1 .. Len(c), from < k PROVE k <= Len(tape) /\ c[k] = tape[k]
  <2>1. k - from \in 1 .. Len(more) /\ from + (k - from) = k
    BY <1>1, <1>2, <1>3, <1>4
  <2> HIDE DEF from
  <2>2. c[k] = more[k - from] /\ more[k - from] = tape[k]
    BY <1>2, <1>3, <2>1
  <2>3. Len(more) = last - from
    BY <1>1, <1>2, <2>1
  <2> QED
    BY <1>1, <2>1, <2>2, <2>3
<1> SUFFICES ASSUME NEW i \in 1 .. Len(c), NEW j \in 1 .. Len(c), i <= j,
                    \A k \in i .. j - 1 : ~Seam(k, tapes)
             PROVE  Whole(c, i, j, tapes)
  BY DEF Pieces, c, more
<1>5. CASE j <= from
  <2>1. i \in 1 .. Len(h) /\ j \in 1 .. Len(h)
    BY <1>1, <1>5
  <2>2. Whole(h, i, j, tapes)
    BY <2>1 DEF Pieces
  <2>3. \A k \in i .. j : c[k] = h[k]
    BY <1>1, <1>3, <1>5
  <2> QED
    BY <2>2, <2>3 DEF Whole
<1>6. CASE from < i
  <2>1. \A k \in i .. j : k \in 1 .. Len(c) /\ from < k
    BY <1>1, <1>6
  <2>2. j \in i .. j
    OBVIOUS
  <2> QED
    BY <1>4, <2>1, <2>2 DEF Whole
<1>7. CASE i <= from /\ from < j
  <2>1. from \in i .. j - 1
    BY <1>1, <1>7
  <2> QED
    BY <2>1
<1> QED
  BY <1>1, <1>5, <1>6, <1>7

LEMMA BlocksGrow ==
    ASSUME NEW m \in Nat, NEW n \in Nat
    PROVE  /\ m * BLOCK \in Nat /\ m <= m * BLOCK
           /\ (m + n) * BLOCK = m * BLOCK + n * BLOCK
<1>1. BLOCK \in Nat /\ BLOCK >= 1
  BY TapeSessionAssumption
<1> QED
  BY <1>1

(* A refill ends behind whole blocks, or at the end of the tape.           *)
LEMMA SeamAhead ==
    ASSUME NEW tapes \in SUBSET Tape, NEW tape \in tapes, NEW from \in Nat,
           Seam(from, tapes), NEW n \in Nat
    PROVE  Seam(Least(Len(tape), from + n * BLOCK), tapes)
<1>1. CASE Least(Len(tape), from + n * BLOCK) = Len(tape)
  <2>1. Len(tape) \in Nat /\ 0 * BLOCK = 0
    BY TapeSessionAssumption DEF Tape
  <2>2. Len(tape) = Len(tape) + 0 * BLOCK /\ 0 \in 0 .. Len(tape)
    BY <2>1
  <2> QED
    BY <1>1, <2>2 DEF Seam
<1>2. CASE Least(Len(tape), from + n * BLOCK) = from + n * BLOCK
  <2>1. PICK t \in tapes \cup {<< >>}, m \in 0 .. from : from = Len(t) + m * BLOCK
    BY DEF Seam
  <2>2. Len(t) \in Nat /\ m \in Nat
    BY <2>1 DEF Tape
  <2>3. /\ (m + n) * BLOCK \in Nat /\ m + n <= (m + n) * BLOCK /\ m + n \in Nat
        /\ m * BLOCK \in Nat /\ n * BLOCK \in Nat
        /\ (m + n) * BLOCK = m * BLOCK + n * BLOCK
    <3>1. m + n \in Nat /\ 0 \in Nat
      BY <2>2
    <3>2. (m + n) * BLOCK \in Nat /\ m + n <= (m + n) * BLOCK
      BY <3>1, BlocksGrow
    <3>3. /\ m * BLOCK \in Nat /\ n * BLOCK \in Nat
          /\ (m + n) * BLOCK = m * BLOCK + n * BLOCK
      BY <2>2, BlocksGrow
    <3> QED
      BY <3>1, <3>2, <3>3
  <2> DEFINE x == m * BLOCK  y == n * BLOCK  z == (m + n) * BLOCK
  <2>4. from + y = Len(t) + z /\ m + n \in 0 .. from + y
    <3> HIDE DEF x, y, z
    <3>1. z = x + y /\ x \in Nat /\ y \in Nat /\ z \in Nat /\ m + n <= z /\ from = Len(t) + x
      BY <2>1, <2>3 DEF x, y, z
    <3> QED
      BY <2>2, <2>3, <3>1
  <2> QED
    BY <1>2, <2>1, <2>4 DEF Seam
<1> QED
  BY <1>1, <1>2 DEF Least

-----------------------------------------------------------------------------
(* Reading a page.                                                         *)

LEMMA TakenFacts ==
    ASSUME NEW text \in Tape, NEW n
    PROVE  Taken(text, n) \in 0 .. Len(text)
<1> DEFINE nth == {i \in WordEnds(text) : Cardinality(WordEnds(text) \cap 1 .. i) = n}
<1>1. nth \subseteq 1 .. Len(text) /\ Len(text) \in Nat
  BY DEF WordEnds, Tape
<1>2. Taken(text, n) = IF nth = {} THEN Len(text) ELSE CHOOSE i \in nth : TRUE
  BY DEF Taken
<1> HIDE DEF nth
<1>3. nth # {} => (CHOOSE i \in nth : TRUE) \in nth
  OBVIOUS
<1>4. nth # {} => (CHOOSE i \in nth : TRUE) \in 1 .. Len(text)
  BY <1>1, <1>3, Zenon
<1> DEFINE c == CHOOSE i \in nth : TRUE
<1> HIDE DEF c
<1>5. nth # {} => c \in 0 .. Len(text)
  BY <1>1, <1>4 DEF c
<1>6. Len(text) \in 0 .. Len(text)
  BY <1>1
<1> QED
  BY <1>2, <1>5, <1>6 DEF c

(* How far a refill goes: no further than the tape, and far enough for the *)
(* bytes that are looked at.  Of these m bytes, one may be left behind; lb *)
(* are in the buffer.                                                      *)
LEMMA RefillSuffices ==
    ASSUME NEW lb \in Nat, NEW from \in Nat, NEW lt \in Nat, NEW m \in Nat, NEW taken \in Nat,
           from < lt => m <= lb + (lt - from), lt <= from => m <= lb, m <= taken + 1
    PROVE  LET missing == m - lb
               offset  == IF missing <= 0 THEN from
                          ELSE Least(lt, from + Blocks(missing, BLOCK) * BLOCK)
           IN  /\ offset \in Nat
               /\ from <= offset /\ (offset = from \/ offset <= lt)
               /\ m <= lb + (offset - from)
               /\ lb <= BLOCK => lb + (offset - from) - taken <= BLOCK
<1> DEFINE missing == m - lb
           blk     == Blocks(missing, BLOCK) * BLOCK
           offset  == IF missing <= 0 THEN from ELSE Least(lt, from + blk)
<1>0. BLOCK \in Nat \ {0}
  BY TapeSessionAssumption
<1>1. CASE m <= lb
  BY <1>0, <1>1
<1>2. CASE m > lb
  <2>1. missing \in Nat /\ missing > 0 /\ from + missing <= lt
    BY <1>2
  <2>2. blk \in Nat /\ blk >= missing /\ blk < missing + BLOCK
    BY <1>0, <2>1, BlocksCover
  <2>3. offset = Least(lt, from + blk)
    BY <2>1
  <2> HIDE DEF blk, offset
  <2>4. from + missing <= offset /\ offset <= lt /\ offset \in Nat
    BY <2>1, <2>2, <2>3 DEF Least
  <2>5. from <= offset /\ m <= lb + (offset - from)
    BY <2>1, <2>4
  <2>6. offset <= from + blk
    BY <2>1, <2>2, <2>3 DEF Least
  <2>7. lb + (offset - from) - taken <= BLOCK
    BY <1>0, <2>1, <2>2, <2>4, <2>6
  <2> QED
    BY <2>4, <2>5, <2>7 DEF offset, blk
<1> QED
  BY <1>1, <1>2

(* One page: what it gives out and what it leaves in the buffer are what   *)
(* was in the buffer and what a refill has brought; only the end of the    *)
(* tape ends the stream.                                                   *)
LEMMA PageStep ==
    ASSUME NEW tapes \in SUBSET Tape, NEW tape \in tapes, NEW n, NEW given \in Tape,
           NEW st \in Readers, st.open, ~st.eof, st.offset = Len(given) + Len(st.buffer),
           Pieces(given \o st.buffer, tapes), Seam(st.offset, tapes)
    PROVE  LET page  == Page(tape, st, n)
               after == AfterPage(tape, st, n)
           IN  /\ page \in Tape /\ given \o page \in Tape
               /\ after \in Readers /\ after.open
               /\ after.offset = Len(given \o page) + Len(after.buffer)
               /\ Pieces((given \o page) \o after.buffer, tapes)
               /\ Seam(after.offset, tapes)
               /\ after.eof => Len(tape) <= Len(given \o page)
<1> DEFINE b       == st.buffer
           from    == st.offset
           ahead   == b \o SubSeq(tape, from + 1, Len(tape))
           taken   == Taken(ahead, n)
           page    == SubSeq(ahead, 1, taken)
           looked  == Least(taken + 1, Len(ahead))
           missing == looked - Len(b)
           offset  == IF missing <= 0 THEN from
                      ELSE Least(Len(tape), from + Blocks(missing, BLOCK) * BLOCK)
           more    == SubSeq(tape, from + 1, offset)
           filled  == b \o more
           rest    == SubSeq(filled, taken + 1, Len(filled))
<1>1. /\ b \in Tape /\ Len(b) \in Nat /\ Len(b) <= BLOCK /\ from \in Nat
      /\ tape \in Tape /\ Len(tape) \in Nat /\ Len(given) \in Nat
      /\ BLOCK \in Nat \ {0} /\ from = Len(given) + Len(b)
  BY ReaderFacts, TapeSessionAssumption DEF Tape
<1>2. Page(tape, st, n) = page
  BY DEF Page, Ahead
<1>3. AfterPage(tape, st, n) = [open |-> TRUE, offset |-> offset, eof |-> taken = Len(ahead),
                                buffer |-> rest]
  BY DEF AfterPage, Ahead
<1>4. Pieces(given \o b, tapes) /\ Seam(from, tapes)
  OBVIOUS
<1> HIDE DEF b, from
<1>5. /\ ahead \in Tape /\ Len(ahead) \in Nat
      /\ from < Len(tape) => Len(ahead) = Len(b) + (Len(tape) - from)
      /\ Len(tape) <= from => Len(ahead) = Len(b)
      /\ \A k \in 1 .. Len(b) : ahead[k] = b[k]
      /\ \A k \in 1 .. Len(ahead) - Len(b) : ahead[Len(b) + k] = tape[from + k]
  <2> DEFINE tail == SubSeq(tape, from + 1, Len(tape))
  <2>1. /\ tail \in Tape /\ Len(tail) \in Nat
        /\ Len(tail) = IF from < Len(tape) THEN Len(tape) - from ELSE 0
        /\ \A i \in 1 .. Len(tail) : tail[i] = tape[from + i]
    BY <1>1, SubSeqFacts DEF Tape
  <2> HIDE DEF tail
  <2>2. /\ ahead \in Tape /\ Len(ahead) = Len(b) + Len(tail)
        /\ \A k \in 1 .. Len(b) : ahead[k] = b[k]
        /\ \A k \in 1 .. Len(tail) : ahead[Len(b) + k] = tail[k]
    BY <1>1, <2>1, TapesConcat DEF tail
  <2> HIDE DEF ahead
  <2>3. /\ Len(ahead) \in Nat /\ Len(ahead) - Len(b) = Len(tail)
        /\ from < Len(tape) => Len(ahead) = Len(b) + (Len(tape) - from)
        /\ Len(tape) <= from => Len(ahead) = Len(b)
    BY <1>1, <2>1, <2>2
  <2>4. \A k \in 1 .. Len(ahead) - Len(b) : ahead[Len(b) + k] = tape[from + k]
    BY <2>1, <2>2, <2>3
  <2> QED
    BY <2>2, <2>3, <2>4
<1> HIDE DEF ahead
<1>6. taken \in Nat /\ taken <= Len(ahead)
  <2>1. taken \in 0 .. Len(ahead)
    BY <1>5, TakenFacts
  <2> HIDE DEF taken
  <2> QED
    BY <1>5, <2>1
<1> HIDE DEF taken
<1>7. looked \in Nat /\ taken <= looked /\ looked <= taken + 1 /\ looked <= Len(ahead)
  BY <1>5, <1>6 DEF Least
<1> HIDE DEF looked
<1>8. /\ offset \in Nat
      /\ from <= offset /\ (offset = from \/ offset <= Len(tape))
      /\ looked <= Len(b) + (offset - from)
      /\ Len(b) + (offset - from) - taken <= BLOCK
  <2>1. /\ from < Len(tape) => looked <= Len(b) + (Len(tape) - from)
        /\ Len(tape) <= from => looked <= Len(b)
    BY <1>5, <1>7
  <2> QED
    BY <1>1, <1>6, <1>7, <2>1, RefillSuffices
<1>9. Seam(offset, tapes)
  <2>1. CASE missing <= 0
    BY <1>4, <2>1
  <2>2. CASE ~(missing <= 0)
    <3>1. missing \in Nat
      BY <1>1, <1>7, <2>2
    <3>2. Blocks(missing, BLOCK) \in Nat
      BY <1>1, <3>1, BlocksCover
    <3> HIDE DEF missing
    <3>3. Seam(Least(Len(tape), from + Blocks(missing, BLOCK) * BLOCK), tapes)
      BY <1>1, <1>4, <3>2, SeamAhead
    <3> QED
      BY <2>2, <3>3
  <2> QED
    BY <2>1, <2>2
<1> HIDE DEF missing, offset
<1>10. /\ more \in Tape /\ Len(more) = offset - from
       /\ \A k \in 1 .. Len(more) : more[k] = tape[from + k]
       /\ Pieces((given \o b) \o more, tapes)
  <2>0. given \o b \in Tape /\ Len(given \o b) = from
    BY <1>1, TapesConcat
  <2>1. CASE offset <= Len(tape)
    <3>1. offset \in 0 .. Len(tape)
      BY <1>1, <1>8, <2>1
    <3>2. /\ more \in Tape
          /\ Len(more) = IF from < offset THEN offset - from ELSE 0
          /\ \A k \in 1 .. Len(more) : more[k] = tape[from + k]
      BY <1>1, <3>1, SubSeqFacts DEF Tape
    <3>3. Pieces((given \o b) \o more, tapes)
      BY <1>4, <2>0, <3>1, PiecesGrow
    <3> HIDE DEF more
    <3>4. Len(more) = offset - from
      BY <1>1, <1>8, <3>2
    <3> QED
      BY <3>2, <3>3, <3>4
  <2>2. CASE ~(offset <= Len(tape))
    <3>1. offset = from
      BY <1>8, <2>2
    <3>2. offset - from = 0 /\ from \in Int /\ from + 1 \in Int /\ from < from + 1
      BY <1>1, <3>1
    <3>3. more = << >>
      BY <3>1, <3>2, SubSeqEmpty
    <3>4. (given \o b) \o << >> = given \o b
      BY <2>0, ConcatEmptySeq DEF Tape
    <3> HIDE DEF more
    <3>5. << >> \in Tape /\ Len(<< >>) = 0
      BY DEF Tape
    <3> QED
      BY <1>4, <3>2, <3>3, <3>4, <3>5
  <2> QED
    BY <2>1, <2>2
<1> HIDE DEF more
<1>11. /\ filled \in Tape /\ Len(filled) \in Nat /\ Len(filled) = Len(b) + (offset - from)
       /\ taken <= Len(filled) /\ Len(filled) <= Len(ahead)
       /\ \A k \in 1 .. Len(filled) : filled[k] = ahead[k]
  <2>1. /\ filled \in Tape /\ Len(filled) = Len(b) + Len(more) /\ Len(more) \in Nat
        /\ \A k \in 1 .. Len(b) : filled[k] = b[k]
        /\ \A k \in 1 .. Len(more) : filled[Len(b) + k] = more[k]
    BY <1>1, <1>10, TapesConcat
  <2> HIDE DEF filled
  <2>2. Len(filled) \in Nat /\ Len(filled) = Len(b) + (offset - from)
    BY <1>1, <1>10, <2>1
  <2>3. taken <= Len(filled) /\ Len(filled) <= Len(ahead)
    BY <1>1, <1>5, <1>6, <1>7, <1>8, <2>2
  <2>4. ASSUME NEW k \in 1 .. Len(filled) PROVE filled[k] = ahead[k]
    <3>1. CASE k <= Len(b)
      <4>1. k \in 1 .. Len(b)
        BY <1>1, <3>1
      <4> QED
        BY <1>5, <2>1, <4>1
    <3>2. CASE ~(k <= Len(b))
      <4>1. k - Len(b) \in 1 .. Len(more) /\ k = Len(b) + (k - Len(b))
        BY <1>1, <2>1, <3>2
      <4>2. PICK i \in 1 .. Len(more) : k = Len(b) + i
        BY <4>1
      <4>3. i \in 1 .. Len(ahead) - Len(b)
        BY <1>1, <1>5, <2>1, <2>3, <4>2
      <4> QED
        BY <1>5, <1>10, <2>1, <4>2, <4>3
    <3> QED
      BY <3>1, <3>2
  <2> QED
    BY <2>1, <2>2, <2>3, <2>4
<1>12. /\ page \in Tape /\ Len(page) = taken
       /\ \A k \in 1 .. taken : page[k] = filled[k]
  <2>1. taken \in 0 .. Len(ahead)
    BY <1>5, <1>6
  <2>2. /\ page \in Tape /\ Len(page) = taken
        /\ \A k \in 1 .. taken : page[k] = ahead[k]
    BY <1>5, <2>1, PrefixFacts DEF Tape
  <2> HIDE DEF page, filled
  <2> QED
    BY <1>6, <1>11, <2>2
<1> HIDE DEF page
<1>13. page \o rest = filled /\ rest \in Tape /\ Len(rest) = Len(filled) - taken
  <2> HIDE DEF filled
  <2>1. taken \in 0 .. Len(filled) /\ Len(filled) \in 0 .. Len(filled) /\ filled \in Tape
    BY <1>6, <1>11
  <2>2. /\ rest \in Tape
        /\ Len(rest) = IF taken < Len(filled) THEN Len(filled) - taken ELSE 0
        /\ \A k \in 1 .. Len(rest) : rest[k] = filled[taken + k]
    BY <1>6, <2>1, SubSeqFacts DEF Tape
  <2> HIDE DEF rest
  <2>3. Len(rest) \in Nat /\ Len(rest) = Len(filled) - taken
    BY <1>6, <1>11, <2>2
  <2>4. /\ page \o rest \in Tape /\ Len(page \o rest) = taken + Len(rest)
        /\ \A k \in 1 .. taken : (page \o rest)[k] = page[k]
        /\ \A k \in 1 .. Len(rest) : (page \o rest)[taken + k] = rest[k]
    BY <1>12, <2>2, TapesConcat
  <2> DEFINE c == page \o rest
  <2> HIDE DEF c
  <2>5. Len(c) = Len(filled)
    BY <1>6, <1>11, <2>3, <2>4 DEF c
  <2>6. ASSUME NEW k \in 1 .. Len(filled) PROVE c[k] = filled[k]
    <3>1. CASE k <= taken
      BY <1>6, <1>12, <2>4, <3>1 DEF c
    <3>2. CASE ~(k <= taken)
      <4>1. k - taken \in 1 .. Len(rest) /\ k = taken + (k - taken)
        BY <1>6, <1>11, <2>3, <3>2
      <4>2. PICK i \in 1 .. Len(rest) : k = taken + i
        BY <4>1
      <4> QED
        BY <2>2, <2>4, <4>2 DEF c
    <3> QED
      BY <3>1, <3>2
  <2>7. c = filled
    BY <2>1, <2>4, <2>5, <2>6, SeqEqual DEF Tape, c
  <2> QED
    BY <2>2, <2>3, <2>7 DEF c
<1> HIDE DEF rest, filled
<1>14. given \o page \in Tape /\ Len(given \o page) = Len(given) + taken
  BY <1>12, TapesConcat
<1>15. Pieces((given \o page) \o rest, tapes)
  <2>1. (given \o page) \o rest = given \o (page \o rest)
    BY <1>12, <1>13, TapesRegroup
  <2>2. (given \o b) \o more = given \o (b \o more)
    BY <1>1, <1>10, TapesRegroup
  <2> QED
    BY <1>10, <1>13, <2>1, <2>2 DEF filled
<1>16. offset = Len(given \o page) + Len(rest) /\ Len(rest) <= BLOCK
  <2>1. offset \in Int /\ from \in Int /\ Len(b) \in Int /\ taken \in Int /\ Len(given) \in Int
    BY <1>1, <1>6, <1>8
  <2> QED
    BY <1>1, <1>8, <1>11, <1>13, <1>14, <2>1
<1>17. taken = Len(ahead) => Len(tape) <= Len(given \o page)
  BY <1>1, <1>5, <1>14
<1>18. [open |-> TRUE, offset |-> offset, eof |-> taken = Len(ahead), buffer |-> rest]
          \in Readers
  <2> DEFINE e == taken = Len(ahead)
  <2>1. e \in BOOLEAN /\ TRUE \in BOOLEAN
    OBVIOUS
  <2> HIDE DEF e
  <2>2. [open |-> TRUE, offset |-> offset, buffer |-> rest, eof |-> e] \in Readers
    BY <1>8, <1>13, <1>16, <2>1, ReaderIs
  <2> QED
    BY <2>2 DEF e
<1> DEFINE after == AfterPage(tape, st, n)
<1>19. /\ after \in Readers /\ after.open /\ after.offset = offset /\ after.buffer = rest
       /\ after.eof = (taken = Len(ahead))
  BY <1>3, <1>18
<1> HIDE DEF after
<1>20. after.eof => Len(tape) <= Len(given \o page)
  BY <1>17, <1>19
<1>21. /\ page \in Tape /\ given \o page \in Tape
       /\ after.offset = Len(given \o page) + Len(after.buffer)
       /\ Pieces((given \o page) \o after.buffer, tapes)
       /\ Seam(after.offset, tapes)
  BY <1>9, <1>12, <1>14, <1>15, <1>16, <1>19
<1> QED
  BY <1>2, <1>19, <1>20, <1>21 DEF after

-----------------------------------------------------------------------------
(* The readers.                                                            *)

ReaderTypes ==
    /\ disk \in [Devices -> Tape \cup {Missing}]
    /\ versions \in [Devices -> SUBSET (Tape \cup {Missing})]
    /\ read \in [Devices -> Tape]
    /\ reader \in [Devices -> Readers]

\* A stream st that has passed the bytes given of a file whose contents have
\* been tapes, the last of them tape: these bytes and those in its buffer are
\* whole between seams and end, at a seam, where the next refill begins.
InPlace(st, given, tapes, tape) ==
    st.open =>
        /\ tape \in tapes /\ tapes \subseteq Tape
        /\ Pieces(given \o st.buffer, tapes)
        /\ st.offset = Len(given) + Len(st.buffer) /\ Seam(st.offset, tapes)
        /\ st.eof => \E t \in tapes : Len(t) <= Len(given)

StreamInv == \A d \in Devices : InPlace(reader[d], read[d], versions[d], disk[d])

(* Reading a page keeps a stream in its place.                             *)
LEMMA ReadInPlace ==
    ASSUME NEW st \in Readers, NEW given \in Tape, NEW tapes, NEW tape, NEW n,
           InPlace(st, given, tapes, tape)
    PROVE  /\ AfterPage(tape, st, n) \in Readers /\ Page(tape, st, n) \in Tape
           /\ given \o Page(tape, st, n) \in Tape
           /\ InPlace(AfterPage(tape, st, n), given \o Page(tape, st, n), tapes, tape)
<1>1. CASE ~st.open \/ st.eof
  <2>1. Page(tape, st, n) = << >>
    <3>1. CASE ~st.open
      BY <3>1 DEF Page
    <3>2. CASE st.open /\ st.eof
      <4>1. << >> \in Tape /\ Len(<< >>) = 0
        BY DEF Tape
      <4>2. Taken(<< >>, n) = 0
        BY <4>1, TakenFacts
      <4>3. SubSeq(<< >>, 1, 0) = << >>
        BY SubSeqEmpty
      <4> QED
        BY <3>2, <4>2, <4>3 DEF Page, Ahead
    <3> QED
      BY <1>1, <3>1, <3>2
  <2>2. AfterPage(tape, st, n) = st
    BY <1>1 DEF AfterPage
  <2>3. given \o << >> = given /\ << >> \in Tape
    BY ConcatEmptySeq DEF Tape
  <2> QED
    BY <2>1, <2>2, <2>3
<1>2. CASE st.open /\ ~st.eof
  <2> DEFINE page  == Page(tape, st, n)
             after == AfterPage(tape, st, n)
  <2>1. /\ tapes \in SUBSET Tape /\ tape \in tapes
        /\ st.offset = Len(given) + Len(st.buffer)
        /\ Pieces(given \o st.buffer, tapes) /\ Seam(st.offset, tapes)
    BY <1>2 DEF InPlace
  <2>2. /\ page \in Tape /\ given \o page \in Tape
        /\ after \in Readers /\ after.open
        /\ after.offset = Len(given \o page) + Len(after.buffer)
        /\ Pieces((given \o page) \o after.buffer, tapes)
        /\ Seam(after.offset, tapes)
        /\ after.eof => Len(tape) <= Len(given \o page)
    BY <1>2, <2>1, PageStep
  <2> HIDE DEF page, after
  <2>3. InPlace(after, given \o page, tapes, tape)
    BY <2>1, <2>2 DEF InPlace
  <2> QED
    BY <2>2, <2>3 DEF page, after
<1> QED
  BY <1>1, <1>2

(* A stream that has just been opened is in its place.                     *)
LEMMA OpenedInPlace ==
    ASSUME NEW o \in BOOLEAN, NEW tape, o => tape \in Tape
    PROVE  InPlace(Opened(o), << >>, {tape}, tape)
<1>1. /\ << >> \in Tape /\ Len(<< >>) = 0 /\ << >> \o << >> = << >>
      /\ Pieces(<< >>, {tape})
  BY DEF Tape, Pieces
<1>2. Opened(o) = [open |-> o, offset |-> 0, buffer |-> << >>, eof |-> FALSE]
  BY OpenedIs
<1>3. Seam(0, {tape})
  <2>1. << >> \in {tape} \cup {<< >>} /\ 0 \in 0 .. 0 /\ 0 = Len(<< >>) + 0 * BLOCK
    BY TapeSessionAssumption
  <2> QED
    BY <2>1 DEF Seam
<1> QED
  BY <1>1, <1>2, <1>3 DEF InPlace

LEMMA OpenStep ==
    ASSUME ReaderTypes, NEW words \in Nat, Emu_Open_Files(words), UNCHANGED disk
    PROVE  (ReaderTypes /\ StreamInv)'
<1> DEFINE Opens(d) ==
      IF d = "ptr1" THEN MAX_OPEN - descriptors > 0 /\ disk["ptr1"] # Missing
      ELSE /\ MAX_OPEN - descriptors > One(MAX_OPEN - descriptors > 0 /\ disk["ptr1"] # Missing)
           /\ disk["ptr2"] # Missing
<1> DEFINE Starts(d) == words > 0 /\ d = "ptr1"
<1>1. /\ reader' = [d \in Devices |->
                      IF Starts(d) THEN AfterPage(disk[d], Opened(Opens(d)), words)
                      ELSE Opened(Opens(d))]
      /\ read' = [d \in Devices |->
                    IF Starts(d) THEN Page(disk[d], Opened(Opens(d)), words) ELSE << >>]
      /\ versions' = [d \in Devices |-> {disk[d]}]
  BY DEF Emu_Open_Files, Devices
<1>2. ASSUME NEW d \in Devices
      PROVE  Opens(d) \in BOOLEAN /\ (Opens(d) => disk[d] \in Tape)
  BY <1>2 DEF ReaderTypes, Devices
<1> HIDE DEF Opens
<1>3. ASSUME NEW d \in Devices
      PROVE  /\ reader'[d] \in Readers /\ read'[d] \in Tape
             /\ versions'[d] = {disk[d]}
             /\ InPlace(reader'[d], read'[d], versions'[d], disk[d])
  <2> DEFINE st == Opened(Opens(d))
  <2>1. /\ st \in Readers /\ << >> \in Tape
        /\ InPlace(st, << >>, {disk[d]}, disk[d])
    <3>1. << >> \in Tape
      BY DEF Tape
    <3> QED
      BY <1>2, <3>1, OpenedIs, OpenedInPlace
  <2>2. CASE ~Starts(d)
    BY <1>1, <2>1, <2>2
  <2>3. CASE Starts(d)
    <3>1. /\ reader'[d] = AfterPage(disk[d], st, words) /\ read'[d] = Page(disk[d], st, words)
          /\ versions'[d] = {disk[d]}
      BY <1>1, <2>3
    <3> HIDE DEF st
    <3>2. /\ AfterPage(disk[d], st, words) \in Readers /\ Page(disk[d], st, words) \in Tape
          /\ << >> \o Page(disk[d], st, words) \in Tape
          /\ InPlace(AfterPage(disk[d], st, words), << >> \o Page(disk[d], st, words),
                     {disk[d]}, disk[d])
      BY <2>1, ReadInPlace
    <3>3. << >> \o Page(disk[d], st, words) = Page(disk[d], st, words)
      BY <3>2, ConcatEmptySeq DEF Tape
    <3> QED
      BY <3>1, <3>2, <3>3
  <2> QED
    BY <2>2, <2>3
<1>4. StreamInv'
  BY <1>3 DEF StreamInv
<1>5. ReaderTypes'
  BY <1>1, <1>3, ZenonT(30) DEF ReaderTypes
<1> QED
  BY <1>4, <1>5

LEMMA StreamStep ==
    ASSUME SessionType, ReaderTypes, StreamInv, [Next]_vars
    PROVE  (ReaderTypes /\ StreamInv)'
<1>1. ASSUME NEW p \in Programs, NEW d \in Devices, load_cmd(p, d)
      PROVE  (ReaderTypes /\ StreamInv)'
  <2>1. UNCHANGED << reader, read >>
    BY <1>1 DEF load_cmd, ConvertSWtoPaper
  <2>2. CASE UNCHANGED << disk, versions >>
    BY <2>1, <2>2 DEF ReaderTypes, StreamInv
  <2>3. CASE ~UNCHANGED << disk, versions >>
    <3>1. PICK tape : /\ disk' = [disk EXCEPT ![d] = tape] /\ tape \in Tape
                      /\ versions' = [versions EXCEPT ![d] = @ \cup {tape}]
      <4> DEFINE free == MAX_OPEN - descriptors - 1
      <4>1. descriptors # MAX_OPEN /\ free # 0
        BY <1>1, <2>3 DEF load_cmd, ConvertSWtoPaper, files
      <4>2. free - 1 \in Int
        BY TapeSessionAssumption DEF SessionType
      <4>3. LoadFileListToPaperTxt(p, free - 1) \in Tape
        BY <4>2, LoadWritesTape
      <4> QED
        BY <1>1, <4>1, <4>3 DEF load_cmd, ConvertSWtoPaper
    <3>2. ReaderTypes'
      BY <2>1, <3>1 DEF ReaderTypes
    <3>3. ASSUME NEW e \in Devices, reader'[e].open
          PROVE  InPlace(reader'[e], read'[e], versions'[e], disk'[e])
      <4> DEFINE st == reader[e]  given == read[e]  tapes == versions[e]  more == versions'[e]
      <4>1. /\ st \in Readers /\ given \in Tape
            /\ st.open /\ InPlace(st, given, tapes, disk[e])
            /\ reader'[e] = st /\ read'[e] = given
        BY <2>1, <3>3 DEF ReaderTypes, StreamInv
      <4>2. tapes \subseteq more /\ disk'[e] \in more /\ more \subseteq Tape
        BY <3>1, <4>1 DEF ReaderTypes, InPlace
      <4> HIDE DEF st, given, tapes, more
      <4>3. given \o st.buffer \in Tape
        BY <4>1, ReaderFacts, TapesConcat
      <4>4. Pieces(given \o st.buffer, tapes) => Pieces(given \o st.buffer, more)
        BY <4>2, <4>3, PiecesMore
      <4>5. Seam(st.offset, tapes) => Seam(st.offset, more)
        BY <4>2, SeamMore
      <4>6. InPlace(st, given, more, disk'[e])
        BY <4>1, <4>2, <4>4, <4>5 DEF InPlace
      <4> QED
        BY <4>1, <4>6 DEF more
    <3> QED
      BY <3>2, <3>3 DEF StreamInv, InPlace
  <2> QED
    BY <2>2, <2>3
<1>2. ASSUME NEW d \in Devices, NEW n \in 1 .. PAGE, Read_from_FT(d, n)
      PROVE  (ReaderTypes /\ StreamInv)'
  <2>1. /\ reader' = [reader EXCEPT ![d] = AfterPage(disk[d], @, n)]
        /\ read' = [read EXCEPT ![d] = @ \o Page(disk[d], reader[d], n)]
        /\ UNCHANGED << disk, versions >>
    BY <1>2 DEF Read_from_FT, files
  <2>2. /\ AfterPage(disk[d], reader[d], n) \in Readers
        /\ read[d] \o Page(disk[d], reader[d], n) \in Tape
        /\ InPlace(AfterPage(disk[d], reader[d], n), read[d] \o Page(disk[d], reader[d], n),
                   versions[d], disk[d])
    BY ReadInPlace DEF ReaderTypes, StreamInv
  <2>3. ReaderTypes'
    BY <2>1, <2>2 DEF ReaderTypes
  <2>4. ASSUME NEW e \in Devices
        PROVE  InPlace(reader'[e], read'[e], versions'[e], disk'[e])
    <3>1. CASE e = d
      BY <2>1, <2>2, <3>1 DEF ReaderTypes
    <3>2. CASE e # d
      BY <2>1, <3>2 DEF ReaderTypes, StreamInv
    <3> QED
      BY <3>1, <3>2
  <2> QED
    BY <2>3, <2>4 DEF StreamInv
<1>3. CASE TurnNoReady
  BY <1>3, OpenStep DEF TurnNoReady, files
<1>4. CASE Emu_Begin
  <2>1. PICK n \in 1 .. PAGE : Emu_Open_Files(n)
    BY <1>4 DEF Emu_Begin
  <2>2. n \in Nat /\ UNCHANGED disk
    BY <1>4, TapeSessionAssumption DEF Emu_Begin, files
  <2> QED
    BY <2>1, <2>2, OpenStep
<1>5. CASE UNCHANGED << disk, reading >>
  BY <1>5 DEF reading, ReaderTypes, StreamInv
<1> QED
  BY <1>1, <1>2, <1>3, <1>4, <1>5 DEF Next, Punch, quit_cmd, Kill, vars, files

LEMMA DomainOfRead ==
    ASSUME ReaderTypes, NEW d \in Devices
    PROVE  DOMAIN read[d] = 1 .. Len(read[d])
<1>1. read[d] \in Tape
  BY DEF ReaderTypes
<1> QED
  BY <1>1 DEF Tape

(* Whatever the sizes of a page, of a word and of a buffer, and whenever   *)
(* tapes are loaded under an open reader: between two places where a       *)
(* refill may begin the reader passes the bytes of one tape, where they    *)
(* are, and it ends only behind the end of a tape.                         *)
THEOREM ReadersKeepTheirPlace == Spec => []ReaderKeepsItsPlace
<1>1. Init => SessionType /\ ReaderTypes /\ StreamInv
  <2> SUFFICES ASSUME Init PROVE SessionType /\ ReaderTypes /\ StreamInv
    OBVIOUS
  <2>1. SessionType
    BY TapeSessionAssumption DEF Init, SessionType
  <2>2. << >> \in Tape /\ NoStream \in Readers
    BY NoStreamIs
  <2>3. \A d \in Devices : FirstTape(d) \in Tape \cup {Missing}
    BY TapeSessionAssumption DEF Tape
  <2>4. ReaderTypes
    BY <2>2, <2>3 DEF Init, ReaderTypes
  <2>5. StreamInv
    BY DEF Init, StreamInv, InPlace, NoStream
  <2> QED
    BY <2>1, <2>4, <2>5
<1>2. SessionType /\ ReaderTypes /\ StreamInv /\ [Next]_vars
         => (SessionType /\ ReaderTypes /\ StreamInv)'
  BY SessionStep, StreamStep
<1>3. ASSUME ReaderTypes, StreamInv, NEW d \in Devices, reader[d].open
      PROVE  /\ Pieces(read[d], versions[d])
             /\ reader[d].eof => \E tape \in versions[d] : Len(tape) <= Len(read[d])
  <2>1. InPlace(reader[d], read[d], versions[d], disk[d])
    BY <1>3 DEF StreamInv
  <2>2. read[d] \in Tape /\ reader[d].buffer \in Tape
    BY <1>3, ReaderFacts DEF ReaderTypes
  <2>3. Pieces(read[d], versions[d])
    BY <1>3, <2>1, <2>2, PiecesPrefix DEF InPlace
  <2> QED
    BY <1>3, <2>1, <2>3 DEF InPlace
<1>4. ReaderTypes /\ StreamInv => ReaderKeepsItsPlace
  <2> SUFFICES ASSUME ReaderTypes, StreamInv, NEW d \in Devices, reader[d].open
               PROVE  /\ \A i, j \in DOMAIN read[d] :
                            i <= j /\ (\A k \in i .. j - 1 : ~Seam(k, versions[d])) =>
                               Whole(read[d], i, j, versions[d])
                      /\ reader[d].eof => \E tape \in versions[d] : Len(tape) <= Len(read[d])
    BY DEF ReaderKeepsItsPlace, Whole
  <2>1. DOMAIN read[d] = 1 .. Len(read[d])
    BY DomainOfRead
  <2> QED
    BY <1>3, <2>1 DEF Pieces
<1> QED
  BY <1>1, <1>2, <1>4, PTL DEF Spec

-----------------------------------------------------------------------------
(* The punch.                                                              *)

FileBytes == PunchFrames \cup {Hole}

PunchTypes ==
    /\ process \in {"up", "exited", "killed"}
    /\ ptp1 \in Seq(Punches)
    /\ punched \in Seq(FileBytes) /\ output \in Seq(PunchFrames)

(* The stream of the last start writes where the file ends, and what is in *)
(* the file and in its buffer is what was punched.                         *)
PunchInv ==
    ptp1 # << >> /\ Last(ptp1).open =>
        /\ process # "exited" => /\ punched \in Seq(PunchFrames)
                                 /\ Last(ptp1).offset = Len(punched)
                                 /\ output = punched \o Last(ptp1).buffer
        /\ (process = "exited" /\ \A i \in 1 .. Len(ptp1) - 1 : ptp1[i].buffer = << >>)
              => punched = output

(* Writing over a file gives a file, and at its end it appends.            *)
LEMMA OverwrittenType ==
    ASSUME NEW file \in Seq(FileBytes), NEW at \in Nat, NEW frames \in Seq(PunchFrames)
    PROVE  Overwritten(file, at, frames) \in Seq(FileBytes)
<1> DEFINE last == at + Len(frames)
           len  == IF Len(file) < last THEN last ELSE Len(file)
           e(i) == IF i \in at + 1 .. last THEN frames[i - at]
                   ELSE IF i <= Len(file) THEN file[i] ELSE Hole
<1>1. Len(file) \in Nat /\ Len(frames) \in Nat /\ last \in Nat /\ len \in Nat
  OBVIOUS
<1>2. ASSUME NEW i \in 1 .. len PROVE e(i) \in FileBytes
  <2>1. CASE i \in at + 1 .. last
    <3>1. i - at \in 1 .. Len(frames)
      BY <1>1, <2>1
    <3>2. frames[i - at] \in PunchFrames
      BY <3>1
    <3> QED
      BY <2>1, <3>2 DEF FileBytes
  <2>2. CASE i \notin at + 1 .. last /\ i <= Len(file)
    <3>1. i \in 1 .. Len(file)
      BY <1>1, <2>2
    <3>2. file[i] \in FileBytes
      BY <3>1
    <3> QED
      BY <2>2, <3>2
  <2>3. CASE i \notin at + 1 .. last /\ ~(i <= Len(file))
    BY <2>3 DEF FileBytes
  <2> QED
    BY <2>1, <2>2, <2>3
<1>3. Overwritten(file, at, frames) = IF frames = << >> THEN file ELSE [i \in 1 .. len |-> e(i)]
  BY DEF Overwritten
<1> HIDE DEF e, len
<1>4. [i \in 1 .. len |-> e(i)] \in Seq(FileBytes)
  BY <1>1, <1>2
<1> QED
  BY <1>3, <1>4

LEMMA OverwrittenAtEnd ==
    ASSUME NEW file \in Seq(PunchFrames), NEW frames \in Seq(PunchFrames)
    PROVE  Overwritten(file, Len(file), frames) = file \o frames
<1>1. CASE frames = << >>
  BY <1>1, ConcatEmptySeq DEF Overwritten
<1>2. CASE frames # << >>
  <2> DEFINE l == Len(file)  m == Len(frames)
             o == Overwritten(file, l, frames)
             c == file \o frames
  <2>1. l \in Nat /\ m \in Nat /\ m > 0
    BY <1>2, EmptySeq
  <2>2. o = [i \in 1 .. l + m |-> IF i \in l + 1 .. l + m THEN frames[i - l]
                                 ELSE IF i <= l THEN file[i] ELSE Hole]
    BY <1>2, <2>1 DEF Overwritten
  <2>3. /\ c \in Seq(PunchFrames) /\ Len(c) = l + m
        /\ \A i \in 1 .. l + m : c[i] = IF i <= l THEN file[i] ELSE frames[i - l]
    BY ConcatProperties
  <2>4. c = [i \in 1 .. l + m |-> c[i]]
    BY <2>3, LenProperties
  <2>5. ASSUME NEW i \in 1 .. l + m PROVE o[i] = c[i]
    BY <2>1, <2>2, <2>3
  <2> HIDE DEF o, c, l, m
  <2> QED
    BY <2>2, <2>4, <2>5 DEF o, c, l
<1> QED
  BY <1>1, <1>2

(* How much of a buffer is written when frames are added to it.            *)
Flushed(all) ==
    IF Len(all) <= PUNCH_BLOCK THEN 0
    ELSE Blocks(Len(all) - PUNCH_BLOCK, PUNCH_BLOCK) * PUNCH_BLOCK

LEMMA FlushedFacts ==
    ASSUME NEW all \in Seq(PunchFrames)
    PROVE  /\ Flushed(all) \in 0 .. Len(all)
           /\ SubSeq(all, 1, Flushed(all)) \in Seq(PunchFrames)
           /\ Len(SubSeq(all, 1, Flushed(all))) = Flushed(all)
           /\ SubSeq(all, Flushed(all) + 1, Len(all)) \in Seq(PunchFrames)
           /\ Len(SubSeq(all, Flushed(all) + 1, Len(all))) <= PUNCH_BLOCK
           /\ SubSeq(all, 1, Flushed(all)) \o SubSeq(all, Flushed(all) + 1, Len(all)) = all
<1> DEFINE n == Len(all)  f == Flushed(all)
<1>1. n \in Nat /\ PUNCH_BLOCK \in Nat
  BY TapeSessionAssumption
<1>2. f \in 0 .. n /\ n - f <= PUNCH_BLOCK
  <2>1. CASE n <= PUNCH_BLOCK
    BY <1>1, <2>1 DEF Flushed
  <2>2. CASE ~(n <= PUNCH_BLOCK)
    <3> DEFINE m == n - PUNCH_BLOCK
    <3>1. m \in Nat
      BY <1>1, <2>2
    <3>2. /\ Blocks(m, PUNCH_BLOCK) * PUNCH_BLOCK >= m
          /\ Blocks(m, PUNCH_BLOCK) * PUNCH_BLOCK \in Nat
          /\ Blocks(m, PUNCH_BLOCK) * PUNCH_BLOCK < m + PUNCH_BLOCK
      BY <3>1, BlocksCover, TapeSessionAssumption
    <3>3. f = Blocks(m, PUNCH_BLOCK) * PUNCH_BLOCK
      BY <2>2 DEF Flushed
    <3> HIDE DEF f
    <3> QED
      BY <1>1, <3>2, <3>3
  <2> QED
    BY <2>1, <2>2
<1> HIDE DEF f
<1>3. /\ SubSeq(all, 1, f) \in Seq(PunchFrames)
      /\ Len(SubSeq(all, 1, f)) = f
  BY <1>2, PrefixFacts
<1>4. /\ SubSeq(all, f + 1, n) \in Seq(PunchFrames)
      /\ Len(SubSeq(all, f + 1, n)) <= PUNCH_BLOCK
  <2>1. f \in Nat /\ n \in 0 .. Len(all)
    BY <1>1, <1>2
  <2>2. /\ SubSeq(all, f + 1, n) \in Seq(PunchFrames)
        /\ Len(SubSeq(all, f + 1, n)) = IF f < n THEN n - f ELSE 0
    BY <2>1, SubSeqFacts
  <2> QED
    BY <1>1, <1>2, <2>2
<1>5. SubSeq(all, 1, f) \o SubSeq(all, f + 1, n) = all
  <2>1. 1 \in 1 .. n + 1 /\ f \in 1 - 1 .. n /\ n \in f .. n
    BY <1>1, <1>2
  <2>2. SubSeq(all, 1, f) \o SubSeq(all, f + 1, n) = SubSeq(all, 1, n)
    BY <2>1, ConcatAdjacentSubSeq
  <2> QED
    BY <2>2, SubSeqFull
<1> QED
  BY <1>2, <1>3, <1>4, <1>5 DEF f

LEMMA ConcatRegroups ==
    ASSUME NEW s \in Seq(PunchFrames), NEW t \in Seq(PunchFrames), NEW u \in Seq(PunchFrames)
    PROVE  (s \o t) \o u = s \o (t \o u)
  BY ConcatAssociative

LEMMA StreamAfterPunch ==
    ASSUME NEW st \in Punches, NEW m \in Nat, NEW rest \in Seq(PunchFrames),
           Len(rest) <= PUNCH_BLOCK
    PROVE  LET after == [st EXCEPT !.offset = st.offset + m, !.buffer = rest]
           IN  /\ after \in Punches /\ after.open = st.open /\ after.buffer = rest
               /\ after.offset = st.offset + m
<1>1. st.offset + m \in Nat
  BY DEF Punches, Streams
<1>2. DOMAIN st = {"open", "offset", "buffer", "eof"}
  BY DEF Punches, Streams
<1> QED
  BY <1>1, <1>2 DEF Punches, Streams

(* Punching: what leaves the buffer comes behind what is in the file.      *)
LEMMA PunchKeeps ==
    ASSUME PunchTypes, PunchInv, NEW n \in Nat, NEW frames \in [1 .. n -> PunchFrames], Punch(frames)
    PROVE  (PunchTypes /\ PunchInv)'
<1> DEFINE st   == Last(ptp1)
           all  == st.buffer \o frames
           l    == Len(ptp1)
           out  == SubSeq(all, 1, Flushed(all))
           rest == SubSeq(all, Flushed(all) + 1, Len(all))
           new(s, f, r) == [s EXCEPT !.offset = s.offset + f, !.buffer = r]
<1>1. /\ process = "up" /\ process' = process /\ ptp1 # << >>
      /\ st.open => /\ punched' = Overwritten(punched, st.offset, out)
                    /\ ptp1' = [ptp1 EXCEPT ![l] = new(st, Flushed(all), rest)]
                    /\ output' = output \o frames
      /\ ~st.open => UNCHANGED << punched, ptp1, output >>
  BY DEF Punch, Flushed, punch
<1>2. CASE ~st.open
  BY <1>1, <1>2 DEF PunchTypes, PunchInv
<1>3. CASE st.open
  <2>1. l \in 1 .. Len(ptp1) /\ st = ptp1[l] /\ st \in Punches
    <3>1. Len(ptp1) \in Nat \ {0}
      BY <1>1, EmptySeq DEF PunchTypes
    <3> QED
      BY <3>1, ElementOfSeq DEF PunchTypes, Last
  <2>2. st.buffer \in Seq(PunchFrames) /\ st.offset \in Nat
    BY <2>1 DEF Punches, Streams
  <2>3. punched \in Seq(PunchFrames) /\ st.offset = Len(punched) /\ output = punched \o st.buffer
    BY <1>1, <1>3 DEF PunchInv
  <2>4. frames \in Seq(PunchFrames)
    OBVIOUS
  <2>5. ptp1 \in Seq(Punches)
    BY DEF PunchTypes
  <2> HIDE DEF st, l
  <2>6. all \in Seq(PunchFrames)
    BY <2>2, <2>4, ConcatProperties
  <2>7. /\ output' = output \o frames /\ punched' = Overwritten(punched, st.offset, out)
        /\ ptp1' = [ptp1 EXCEPT ![l] = new(st, Flushed(all), rest)]
    <3> HIDE DEF all, out, rest, new
    <3> QED
      BY <1>1, <1>3
  <2>8. (punched \o st.buffer) \o frames = punched \o all
    BY <2>2, <2>3, <2>4, ConcatRegroups, Zenon
  <2> HIDE DEF all
  <2>9. /\ Flushed(all) \in Nat /\ out \in Seq(PunchFrames) /\ Len(out) = Flushed(all)
        /\ rest \in Seq(PunchFrames) /\ Len(rest) <= PUNCH_BLOCK
        /\ out \o rest = all
    <3>1. Flushed(all) \in 0 .. Len(all) /\ Len(all) \in Nat
      BY <2>6, FlushedFacts
    <3>2. /\ out \in Seq(PunchFrames) /\ Len(out) = Flushed(all)
          /\ rest \in Seq(PunchFrames) /\ Len(rest) <= PUNCH_BLOCK
          /\ out \o rest = all
      BY <2>6, FlushedFacts, Zenon
    <3>3. Flushed(all) \in Nat
      BY <3>1
    <3> QED
      BY <3>2, <3>3, Zenon
  <2> HIDE DEF out, rest
  <2> DEFINE after == new(st, Flushed(all), rest)
  <2>10. /\ after \in Punches /\ after.open /\ after.buffer = rest
         /\ after.offset = st.offset + Flushed(all)
    <3>1. Flushed(all) \in Nat /\ rest \in Seq(PunchFrames) /\ Len(rest) <= PUNCH_BLOCK
      BY <2>9
    <3>2. /\ after \in Punches /\ after.open = st.open /\ after.buffer = rest
          /\ after.offset = st.offset + Flushed(all)
      BY <2>1, <3>1, StreamAfterPunch
    <3>3. st.open
      BY <1>3 DEF st
    <3> QED
      BY <3>2, <3>3
  <2> HIDE DEF after
  <2>11. ptp1' \in Seq(Punches) /\ Last(ptp1') = after /\ ptp1' # << >>
    <3>1. ptp1' = [ptp1 EXCEPT ![l] = after]
      BY <2>7 DEF after
    <3>2. /\ [ptp1 EXCEPT ![l] = after] \in Seq(Punches)
          /\ Len([ptp1 EXCEPT ![l] = after]) = Len(ptp1)
          /\ [ptp1 EXCEPT ![l] = after][l] = after
      BY <2>1, <2>5, <2>10, ExceptSeq
    <3>3. l = Len(ptp1) /\ l # 0
      BY <2>1 DEF l
    <3> QED
      BY <3>1, <3>2, <3>3, EmptySeq DEF Last
  <2>12. punched' = punched \o out
    BY <2>3, <2>7, <2>9, OverwrittenAtEnd
  <2>13. punched' \in Seq(PunchFrames) /\ after.offset = Len(punched')
    BY <2>3, <2>9, <2>10, <2>12, ConcatProperties
  <2>14. output' = punched' \o after.buffer /\ output' \in Seq(PunchFrames)
    <3>1. (punched \o out) \o rest = punched \o (out \o rest)
      BY <2>3, <2>9, ConcatRegroups, Zenon
    <3>2. output' = punched \o all
      BY <2>3, <2>7, <2>8
    <3>3. punched \o all \in Seq(PunchFrames)
      BY <2>3, <2>6, ConcatProperties
    <3> QED
      BY <2>9, <2>10, <2>12, <3>1, <3>2, <3>3
  <2>15. punched' \in Seq(FileBytes)
    BY <2>13, SeqMonotonic DEF FileBytes
  <2> QED
    BY <1>1, <2>10, <2>11, <2>13, <2>14, <2>15 DEF PunchTypes, PunchInv
<1> QED
  BY <1>2, <1>3

(* The end: exit appends the last buffer and then writes out the others.   *)
LEMMA AllWrittenFacts ==
    ASSUME PunchTypes, ptp1 # << >>
    PROVE  /\ AllWritten \in Seq(FileBytes)
           /\ (\A i \in 1 .. Len(ptp1) - 1 : ptp1[i].buffer = << >>)
                 => AllWritten = Overwritten(punched, Last(ptp1).offset, Last(ptp1).buffer)
<1> DEFINE n    == Len(ptp1)
           V    == Seq(FileBytes)
           st(i) == ptp1[n + 1 - i]
           step == [i \in 1 .. n |-> [v \in V |-> Overwritten(v, st(i).offset, st(i).buffer)]]
           E(f) == [i \in 0 .. n |-> IF i = 0 THEN punched
                                    ELSE Overwritten(f[i - 1], st(i).offset, st(i).buffer)]
           file == CHOOSE f : f = E(f)
<1>1. n \in Nat /\ n >= 1 /\ punched \in V
  BY EmptySeq DEF PunchTypes
<1>2. ASSUME NEW i \in 1 .. n
      PROVE  st(i).offset \in Nat /\ st(i).buffer \in Seq(PunchFrames)
  <2>1. n + 1 - i \in 1 .. n
    BY <1>1
  <2>2. ptp1[n + 1 - i] \in Punches
    BY <2>1, ElementOfSeq DEF PunchTypes
  <2> QED
    BY <2>2 DEF Punches, Streams
<1> HIDE DEF st
<1>3. \A i \in 1 .. n, v \in V : Overwritten(v, st(i).offset, st(i).buffer) \in V
  BY <1>2, OverwrittenType
<1>4. Solvable(0, n, V, punched, step)
  <2>1. \A i \in 1 .. n, v \in V : step[i][v] \in V
    BY <1>3
  <2>2. Steps(0, n, V, step)
    BY <2>1 DEF Steps
  <2>3. 0 \in Nat /\ 0 <= n
    BY <1>1
  <2> HIDE DEF n, V, step
  <2> QED
    BY <1>1, <2>2, <2>3, RecursionHasSolution
<1>5. PICK g \in [0 .. n -> V] : g[0] = punched /\ \A i \in 0 + 1 .. n : g[i] = step[i][g[i - 1]]
  BY <1>4 DEF Solvable
<1>6. g = E(g)
  <2>1. ASSUME NEW i \in 1 .. n PROVE g[i] = Overwritten(g[i - 1], st(i).offset, st(i).buffer)
    <3>1. i - 1 \in 0 .. n /\ i \in 0 + 1 .. n
      OBVIOUS
    <3> QED
      BY <1>5, <3>1
  <2>2. \A i \in 0 .. n : i # 0 => i \in 1 .. n
    OBVIOUS
  <2> HIDE DEF n, V, step
  <2> QED
    BY <1>5, <2>1, <2>2
<1>7. file = E(file)
  <2> HIDE DEF E
  <2> QED
    BY <1>6
<1>8. /\ file[0] = punched
      /\ \A i \in 1 .. n : file[i] = Overwritten(file[i - 1], st(i).offset, st(i).buffer)
  <2>1. \A i \in 1 .. n : i \in 0 .. n /\ i # 0
    OBVIOUS
  <2>2. 0 \in 0 .. n
    BY <1>1
  <2> HIDE DEF file, n
  <2> QED
    BY <1>7, <2>1, <2>2
<1>9. AllWritten = file[n]
  BY DEF AllWritten, st
<1> HIDE DEF file
<1>10. file[n] \in V
  <2> DEFINE T == {i \in 0 .. n : file[i] \in V}
  <2>1. 0 \in T
    BY <1>1, <1>8
  <2>2. ASSUME NEW i \in 0 .. n - 1, i \in T PROVE i + 1 \in T
    <3>1. i + 1 \in 1 .. n /\ i + 1 \in 0 .. n /\ (i + 1) - 1 = i
      BY <1>1
    <3> QED
      BY <1>3, <1>8, <2>2, <3>1
  <2> HIDE DEF T
  <2>3. 0 .. n \subseteq T
    BY <1>1, <2>1, <2>2, Induction
  <2> QED
    BY <1>1, <2>3 DEF T
<1>11. ASSUME \A i \in 1 .. n - 1 : ptp1[i].buffer = << >>
       PROVE  file[n] = file[1]
  <2> DEFINE T == {i \in 1 .. n : file[i] = file[1]}
  <2>1. 1 \in T
    BY <1>1
  <2>2. ASSUME NEW i \in 1 .. n - 1, i \in T PROVE i + 1 \in T
    <3>1. i + 1 \in 1 .. n /\ (i + 1) - 1 = i /\ n + 1 - (i + 1) \in 1 .. n - 1
      BY <1>1
    <3>2. st(i + 1).buffer = << >>
      BY <1>11, <3>1 DEF st
    <3>3. file[i + 1] = file[i]
      BY <1>8, <3>1, <3>2 DEF Overwritten
    <3> QED
      BY <2>2, <3>1, <3>3
  <2> HIDE DEF T
  <2>3. 1 .. n \subseteq T
    BY <1>1, <2>1, <2>2, Induction
  <2> QED
    BY <1>1, <2>3 DEF T
<1>12. file[1] = Overwritten(punched, Last(ptp1).offset, Last(ptp1).buffer)
  <2>1. 1 \in 1 .. n /\ 1 - 1 = 0 /\ n + 1 - 1 = n
    BY <1>1
  <2>2. st(1) = Last(ptp1)
    BY <2>1 DEF st, Last
  <2> QED
    BY <1>8, <2>1, <2>2
<1> QED
  BY <1>9, <1>10, <1>11, <1>12

LEMMA QuitKeeps ==
    ASSUME PunchTypes, PunchInv, quit_cmd, tty1 => ptp1 # << >>
    PROVE  (PunchTypes /\ PunchInv)'
<1>1. UNCHANGED << ptp1, output >> /\ process = "up" /\ process' \in {"exited", "killed"}
  BY DEF quit_cmd
<1>2. CASE process' = "killed" /\ punched' = punched
  BY <1>1, <1>2 DEF PunchTypes, PunchInv
<1>3. CASE process' = "exited" /\ punched' = AllWritten /\ Last(ptp1).open /\ tty1
  <2>1. ptp1 # << >>
    BY <1>3
  <2>2. AllWritten \in Seq(FileBytes)
    BY <2>1, AllWrittenFacts
  <2>3. /\ punched \in Seq(PunchFrames) /\ Last(ptp1).offset = Len(punched)
        /\ output = punched \o Last(ptp1).buffer
    BY <1>1, <1>3, <2>1 DEF PunchInv
  <2>4. Last(ptp1).buffer \in Seq(PunchFrames)
    <3>1. Len(ptp1) \in 1 .. Len(ptp1)
      BY <2>1, EmptySeq DEF PunchTypes
    <3>2. ptp1[Len(ptp1)] \in Punches
      BY <3>1, ElementOfSeq DEF PunchTypes
    <3> QED
      BY <3>2 DEF Punches, Streams, Last
  <2>5. (\A i \in 1 .. Len(ptp1) - 1 : ptp1[i].buffer = << >>) => AllWritten = output
    BY <2>1, <2>3, <2>4, AllWrittenFacts, OverwrittenAtEnd
  <2> QED
    BY <1>1, <1>3, <2>2, <2>5 DEF PunchTypes, PunchInv
<1> QED
  BY <1>2, <1>3 DEF quit_cmd

LEMMA StartKeepsPunch ==
    ASSUME PunchTypes, PunchInv, NEW words \in Nat, Emu_Open_Files(words),
           process = "up", UNCHANGED process
    PROVE  (PunchTypes /\ PunchInv)'
<1> DEFINE ptr1 == MAX_OPEN - descriptors > 0 /\ disk["ptr1"] # Missing
           ptr2 == MAX_OPEN - descriptors > One(ptr1) /\ disk["ptr2"] # Missing
           ptp  == MAX_OPEN - descriptors > One(ptr1) + One(ptr2)
<1>0. /\ ptp1' = Append(ptp1, Opened(ptp))
      /\ punched' = IF ptp THEN << >> ELSE punched
  BY DEF Emu_Open_Files
<1>1. PICK o \in BOOLEAN : /\ ptp1' = Append(ptp1, Opened(o))
                           /\ punched' = IF o THEN << >> ELSE punched
  <2>1. ptp \in BOOLEAN
    OBVIOUS
  <2> HIDE DEF ptp
  <2> QED
    BY <1>0, <2>1
<1>2. output' = << >>
  BY DEF Emu_Open_Files
<1>3. /\ Opened(o) = [open |-> o, offset |-> 0, buffer |-> << >>, eof |-> FALSE]
      /\ Opened(o) \in Punches
  BY OpenedIs
<1>4. /\ ptp1' \in Seq(Punches) /\ Last(ptp1') = Opened(o) /\ ptp1' # << >>
  <2>1. /\ Append(ptp1, Opened(o)) \in Seq(Punches)
        /\ Len(Append(ptp1, Opened(o))) = Len(ptp1) + 1
        /\ Append(ptp1, Opened(o))[Len(ptp1) + 1] = Opened(o)
        /\ Append(ptp1, Opened(o)) # << >>
    BY <1>3, AppendProperties DEF PunchTypes
  <2> QED
    BY <1>1, <2>1 DEF Last
<1>5. << >> \in Seq(PunchFrames) /\ << >> \in Seq(FileBytes) /\ Len(<< >>) = 0 /\ << >> \o << >> = << >>
  BY ConcatEmptySeq
<1>6. Last(ptp1').open = o /\ Last(ptp1').offset = 0 /\ Last(ptp1').buffer = << >>
  BY <1>3, <1>4
<1>7. PunchTypes'
  BY <1>1, <1>2, <1>4, <1>5 DEF PunchTypes
<1>8. o => punched' = << >>
  BY <1>1
<1>9. process' # "exited"
  OBVIOUS
<1> QED
  BY <1>2, <1>4, <1>5, <1>6, <1>7, <1>8, <1>9 DEF PunchInv

LEMMA PunchStep ==
    ASSUME PunchTypes, PunchInv, tty1 => ptp1 # << >>, [Next]_vars
    PROVE  (PunchTypes /\ PunchInv)'
<1>1. ASSUME NEW f \in PunchFrames, NEW n \in 1 .. PAGE, Punch([i \in 1 .. n |-> f])
      PROVE  (PunchTypes /\ PunchInv)'
  <2>1. n \in Nat /\ [i \in 1 .. n |-> f] \in [1 .. n -> PunchFrames]
    BY TapeSessionAssumption
  <2> QED
    BY <1>1, <2>1, PunchKeeps
<1>2. CASE TurnNoReady
  BY <1>2, StartKeepsPunch DEF TurnNoReady
<1>3. CASE Emu_Begin
  <2>1. PICK n \in 1 .. PAGE : Emu_Open_Files(n)
    BY <1>3 DEF Emu_Begin
  <2>2. n \in Nat /\ process = "up" /\ UNCHANGED process
    BY <1>3, TapeSessionAssumption DEF Emu_Begin
  <2> QED
    BY <2>1, <2>2, StartKeepsPunch
<1>4. CASE quit_cmd
  BY <1>4, QuitKeeps
<1>5. CASE Kill
  BY <1>5 DEF Kill, punch, PunchTypes, PunchInv
<1>6. CASE UNCHANGED << process, punch >>
  BY <1>6 DEF punch, PunchTypes, PunchInv
<1> QED
  BY <1>1, <1>2, <1>3, <1>4, <1>5, <1>6 DEF Next, load_cmd, Read_from_FT, vars

-----------------------------------------------------------------------------
(* The invariant of the session, and what follows from it.                 *)

OtherTypes ==
    /\ script \in ({Script(p) : p \in Programs} \ {Missing}) \cup {Empty}
    /\ tty1 \in BOOLEAN /\ (tty1 => ptp1 # << >>)
    /\ loaded \in [program : Programs \cup {Missing}, device : Devices \cup {Missing},
                   free : 0 .. MAX_OPEN]

SessionInv ==
    /\ SessionType /\ OtherTypes
    /\ ReaderTypes /\ StreamInv
    /\ PunchTypes /\ PunchInv

LEMMA OtherTypesStep ==
    ASSUME SessionType, PunchTypes, PunchTypes', OtherTypes, [Next]_vars
    PROVE  OtherTypes'
<1>1. ASSUME NEW p \in Programs, NEW d \in Devices, load_cmd(p, d) PROVE OtherTypes'
  <2>1. tty1' = tty1 /\ ptp1' = ptp1
    BY <1>1 DEF load_cmd, punch
  <2>2. script' \in ({Script(q) : q \in Programs} \ {Missing}) \cup {Empty}
    BY <1>1 DEF load_cmd, ConvertSWtoPaper, CopyFileScript, files, OtherTypes
  <2>3. loaded' \in [program : Programs \cup {Missing}, device : Devices \cup {Missing},
                     free : 0 .. MAX_OPEN]
    <3>1. CASE loaded' = loaded
      BY <3>1 DEF OtherTypes
    <3>2. CASE loaded' # loaded
      <4>1. /\ descriptors # MAX_OPEN
            /\ loaded' = [program |-> p, device |-> d, free |-> MAX_OPEN - descriptors - 1]
        BY <1>1, <3>2 DEF load_cmd, ConvertSWtoPaper
      <4>2. MAX_OPEN - descriptors - 1 \in 0 .. MAX_OPEN
        BY <4>1, TapeSessionAssumption DEF SessionType
      <4> QED
        BY <4>1, <4>2
    <3> QED
      BY <3>1, <3>2
  <2> QED
    BY <2>1, <2>2, <2>3 DEF OtherTypes
<1>2. ASSUME NEW b, Emu_Open_Files(b), UNCHANGED << files, loaded >>
      PROVE  OtherTypes'
  <2>1. tty1' \in BOOLEAN
    BY <1>2 DEF Emu_Open_Files
  <2> DEFINE ptr1 == MAX_OPEN - descriptors > 0 /\ disk["ptr1"] # Missing
             ptr2 == MAX_OPEN - descriptors > One(ptr1) /\ disk["ptr2"] # Missing
             ptp  == MAX_OPEN - descriptors > One(ptr1) + One(ptr2)
  <2>2. ptp1' = Append(ptp1, Opened(ptp))
    BY <1>2 DEF Emu_Open_Files
  <2> HIDE DEF ptp
  <2>3. Append(ptp1, Opened(ptp)) # << >>
    <3> DEFINE s == Opened(ptp)
    <3> HIDE DEF s
    <3>1. ptp1 \in Seq(Punches \cup {s})
      BY SeqMonotonic DEF PunchTypes
    <3>2. Append(ptp1, s) # << >>
      <4> DEFINE V == Punches \cup {s}
      <4>1. ptp1 \in Seq(V) /\ s \in V
        BY <3>1
      <4> HIDE DEF V
      <4> QED
        BY <4>1, AppendProperties
    <3> QED
      BY <3>2 DEF s
  <2> QED
    BY <1>2, <2>1, <2>2, <2>3 DEF OtherTypes, files
<1>3. ASSUME NEW frames, Punch(frames) PROVE OtherTypes'
  <2>1. UNCHANGED << script, tty1, loaded >> /\ ptp1 # << >>
    BY <1>3 DEF Punch, files
  <2>2. ptp1' # << >>
    <3>1. ptp1' = ptp1 \/ DOMAIN ptp1' = DOMAIN ptp1
      BY <1>3 DEF Punch, punch
    <3>2. Len(ptp1) \in Nat \ {0} /\ DOMAIN ptp1 = 1 .. Len(ptp1)
      BY <2>1, EmptySeq, LenProperties DEF PunchTypes
    <3>3. 1 \in DOMAIN ptp1
      BY <3>2
    <3>4. 1 \notin DOMAIN << >>
      OBVIOUS
    <3> QED
      BY <3>1, <3>3, <3>4
  <2> QED
    BY <2>1, <2>2 DEF OtherTypes
<1>4. CASE UNCHANGED << script, tty1, loaded, ptp1 >>
  BY <1>4 DEF OtherTypes
<1> QED
  BY <1>1, <1>2, <1>3, <1>4
     DEF Next, TurnNoReady, Emu_Begin, Read_from_FT, quit_cmd, Kill, vars, files, punch

LEMMA SessionInit == Init => SessionInv
<1> SUFFICES ASSUME Init PROVE SessionInv
  OBVIOUS
<1>1. SessionType
  BY TapeSessionAssumption DEF Init, SessionType
<1>2. /\ << >> \in Seq(PunchFrames) /\ << >> \in Seq(Punches) /\ << >> \in Seq(FileBytes)
      /\ << >> \in Tape /\ NoStream \in Readers
  BY NoStreamIs
<1>3. \A d \in Devices : FirstTape(d) \in Tape \cup {Missing}
  BY TapeSessionAssumption DEF Tape
<1>4. ReaderTypes
  BY <1>2, <1>3 DEF Init, ReaderTypes
<1>5. StreamInv
  BY DEF Init, StreamInv, InPlace, NoStream
<1>6. PunchTypes /\ PunchInv
  BY <1>2 DEF Init, PunchTypes, PunchInv
<1>7. OtherTypes
  <2>1. 0 \in 0 .. MAX_OPEN
    BY TapeSessionAssumption
  <2>2. loaded \in [program : Programs \cup {Missing}, device : Devices \cup {Missing},
                    free : 0 .. MAX_OPEN]
    BY <2>1 DEF Init, NotLoaded
  <2>3. script = Empty /\ tty1 = FALSE /\ ptp1 = << >>
    BY DEF Init
  <2> QED
    BY <2>2, <2>3 DEF OtherTypes
<1> QED
  BY <1>1, <1>4, <1>5, <1>6, <1>7 DEF SessionInv

LEMMA SessionInvStep == SessionInv /\ [Next]_vars => SessionInv'
<1> SUFFICES ASSUME SessionInv, [Next]_vars PROVE SessionInv'
  OBVIOUS
<1>1. SessionType'
  BY SessionStep DEF SessionInv
<1>2. (ReaderTypes /\ StreamInv)'
  BY StreamStep DEF SessionInv
<1>3. (PunchTypes /\ PunchInv)'
  BY PunchStep DEF SessionInv, OtherTypes
<1>4. OtherTypes'
  BY <1>3, OtherTypesStep DEF SessionInv
<1> QED
  BY <1>1, <1>2, <1>3, <1>4 DEF SessionInv

(* The session keeps its types: the files stay files, no stream holds more *)
(* than its buffer, and no more files are open than the process may have.  *)
THEOREM SessionTypeCorrect == Spec => []TypeOK
<1>1. SessionInv => TypeOK
  BY DEF SessionInv, SessionType, OtherTypes, ReaderTypes, PunchTypes, FileBytes, TypeOK
<1> QED
  BY <1>1, SessionInit, SessionInvStep, PTL DEF Spec

(* The file of the punch, with at most one buffer behind it, is what the   *)
(* last start has punched, and after quit the whole of it, whatever the    *)
(* sizes of a page and of a buffer, when no earlier start left frames.     *)
THEOREM PunchLosesNothing == Spec => []PunchedFileIsOutput
<1>1. SessionInv => PunchedFileIsOutput
  <2> SUFFICES ASSUME SessionInv, ptp1 # << >>, Last(ptp1).open
               PROVE  /\ process # "exited" => /\ IsPrefix(punched, output)
                                               /\ Len(output) <= Len(punched) + PUNCH_BLOCK
                      /\ (process = "exited" /\ \A i \in 1 .. Len(ptp1) - 1 : ptp1[i].buffer = << >>)
                            => punched = output
    BY DEF PunchedFileIsOutput
  <2>1. ASSUME process # "exited"
        PROVE  IsPrefix(punched, output) /\ Len(output) <= Len(punched) + PUNCH_BLOCK
    <3> DEFINE b == Last(ptp1).buffer
    <3>1. b \in Seq(PunchFrames) /\ Len(b) \in Nat /\ Len(b) <= PUNCH_BLOCK
      <4>1. Len(ptp1) \in 1 .. Len(ptp1)
        BY EmptySeq DEF SessionInv, PunchTypes
      <4>2. ptp1[Len(ptp1)] \in Punches
        BY <4>1, ElementOfSeq DEF SessionInv, PunchTypes
      <4> QED
        BY <4>2 DEF Punches, Streams, Last
    <3>2. punched \in Seq(PunchFrames) /\ output = punched \o b
      BY <2>1 DEF SessionInv, PunchInv
    <3> HIDE DEF b
    <3>3. /\ output \in Seq(PunchFrames) /\ Len(output) = Len(punched) + Len(b) /\ Len(punched) \in Nat
          /\ \A k \in 1 .. Len(punched) : output[k] = punched[k]
      BY <3>1, <3>2, ConcatFacts
    <3>4. /\ SubSeq(output, 1, Len(punched)) \in Seq(PunchFrames)
          /\ Len(SubSeq(output, 1, Len(punched))) = Len(punched)
          /\ \A k \in 1 .. Len(punched) : SubSeq(output, 1, Len(punched))[k] = output[k]
      <4>1. Len(punched) \in 0 .. Len(output)
        BY <3>1, <3>3
      <4> QED
        BY <3>3, <4>1, PrefixFacts
    <3>5. SubSeq(output, 1, Len(punched)) = punched
      BY <3>2, <3>3, <3>4, SeqEqual
    <3>6. SubSeq(punched, 1, Len(punched)) = punched
      BY <3>2, SubSeqFull
    <3> QED
      BY <3>1, <3>3, <3>5, <3>6, TapeSessionAssumption DEF IsPrefix
  <2> QED
    BY <2>1 DEF SessionInv, PunchInv
<1> QED
  BY <1>1, SessionInit, SessionInvStep, PTL DEF Spec
=============================================================================
