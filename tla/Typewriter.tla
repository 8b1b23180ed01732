----------------------------- MODULE Typewriter -----------------------------
(***************************************************************************)
(* The electrified typewriter TTY1: what it types for a symbol depends on  *)
(* two switches, letters or digits, which symbols on the tape or in a page *)
(* set, and russian or latin, which the operator sets (prn).               *)
(*                                                                         *)
(* A glyph is a string of its own; a russian letter is written here by its *)
(* transliteration.  Nothing is the empty glyph.                           *)
(***************************************************************************)
EXTENDS PaperTape

Nothing == ""
Letters == 0
Digits  == 1
Russian == 0
Latin   == 1

LetterShift == 12
DigitShift  == 11
NewLine     == -10

russian_letters ==
    TableFrom(-12, << "BE", "", "", "SHCHA", "EN", "=", "EL", "YERY", "KA", "GE",
                      "EM", "I", "ER", "I KRATKOE", "YA", "SOFT", "TE", "PE", "A",
                      "VE", "ES", "DE", "IE", "", "", "SHA" >>)

russian_numbers ==
    TableFrom(-12, << "-", "", "", "YU", ",", "kha", "+", "E", "ZHE", "KHA",
                      "U", "TSE", "ZERO", "1", "2", "3", "4", "5", "6",
                      "7", "8", "9", " ", "", "", "EF" >>)

latin_letters ==
    TableFrom(-12, << "F", "?", "", "G", "H", "=", "I", "J", "K", "L",
                      "M", "N", "P", "Q", "R", "S", "T", "U", "A",
                      "B", "C", "D", "E", "", "", "(" >>)

latin_numbers ==
    TableFrom(-12, << "-", "?", "", "/", ".", "x", "+", "V", "W", "X",
                      "Y", "Z", "O", "1", "2", "3", "4", "5", "6",
                      "7", "8", "9", " ", "", "", ")" >>)

Line_end(lang) == IF lang = Russian THEN "\n" ELSE "\r\n"

Glyph(lang, sw, s) ==
    IF s \notin -12 .. 13 THEN Nothing
    ELSE IF s = NewLine THEN Line_end(lang)
    ELSE CASE lang = Russian /\ sw = Letters -> russian_letters[s]
           [] lang = Russian /\ sw = Digits  -> russian_numbers[s]
           [] lang = Latin   /\ sw = Letters -> latin_letters[s]
           [] OTHER                          -> latin_numbers[s]

\* One symbol: the switch after it and the text so far.
electrified_typewriter(lang, typed, s) ==
    [sw   |-> IF s = LetterShift THEN Letters
              ELSE IF s = DigitShift THEN Digits ELSE typed.sw,
     text |-> IF Glyph(lang, typed.sw, s) = Nothing THEN typed.text
              ELSE Append(typed.text, Glyph(lang, typed.sw, s))]

\* The symbols of a page, one after the other: the first half of them, and the
\* second half with the switch as the first one leaves it.
Typed(lang, sw, symbols) ==
    LET n == Len(symbols)
        typed[part \in (1 .. n) \X (1 .. n) \X {Letters, Digits}] ==
            LET first  == part[1]
                last   == part[2]
                middle == (first + last) \div 2
                left   == typed[<< first, middle, part[3] >>]
                right  == typed[<< middle + 1, last, left.sw >>]
            IN  IF first = last
                THEN electrified_typewriter(lang, [sw |-> part[3], text |-> <<>>], symbols[first])
                ELSE [sw |-> right.sw, text |-> left.text \o right.text]
    IN  IF n = 0 THEN [sw |-> sw, text |-> <<>>] ELSE typed[<< 1, n, sw >>]

\* The switch that symbols leave: as their last shift sets it.
Shifts(symbols) == {i \in DOMAIN symbols : symbols[i] \in {LetterShift, DigitShift}}

SwitchAfter(sw, symbols) ==
    IF Shifts(symbols) = {} THEN sw
    ELSE IF symbols[Max(Shifts(symbols))] = LetterShift THEN Letters ELSE Digits

\* The symbols typed for a page of commands: one trit and four pairs of each
\* word, and the end of the line.
CommandSymbols(words) ==
    LET n == CommandFrames + 1
    IN  [p \in 1 .. n * SIZE_ZONE_TRIT_FRAM |->
            IF p % n = 0 THEN NewLine
            ELSE Group(words[(p - 1) \div n], 2, CommandFrames - (p % n))]
=============================================================================
