---------------------------- MODULE FixedFormRules ----------------------------
(***************************************************************************)
(* Fixed source form as the Fortran standard has it, with the DEC convention *)
(* for TAB that FortranStream follows: the statements and the comments of a *)
(* text, read line by line.  A line ends where its characters do: there is  *)
(* no column 72.                                                            *)
(***************************************************************************)
EXTENDS Integers, SequencesExt

Nothing ==
    [statement |-> <<>>, inConstant |-> FALSE, comment |-> <<>>,
     statements |-> <<>>, comments |-> <<>>, joins |-> 0,
     afterComment |-> FALSE, commented |-> FALSE, shifted |-> FALSE,
     legal |-> TRUE, odd |-> FALSE]

LinesOf(t) ==
    LET ends == SetToSortSeq({k \in 1..Len(t) : t[k] = "nl"}, <)
    IN  [d \in 1..Len(ends) |-> SubSeq(t, IF d = 1 THEN 1 ELSE ends[d - 1] + 1, ends[d] - 1)]

FirstOf(line) == Min({k \in 1..Len(line) : line[k] # " "} \cup {Len(line) + 1})

IsComment(line) ==
    \/ FirstOf(line) > Len(line)
    \/ line[1] = "c"
    \/ (line[FirstOf(line)] = "!" /\ FirstOf(line) # 6)

(* The fields of a line: a label, a sign that it continues the line before,  *)
(* and a part of a statement.                                               *)
Fields(line) ==
    LET tab == Min({k \in 1..5 : k <= Len(line) /\ line[k] = "tab"} \cup {6})
        byTab == tab < 6
        marker == IF tab < Len(line) THEN line[tab + 1] ELSE " "
        from == IF byTab THEN (IF marker \in {"0", "1"} THEN tab + 2 ELSE tab + 1) ELSE 7
    IN  [label |-> SelectSeq(SubSeq(line, 1, Min({tab - 1, Len(line)})), LAMBDA c : c # " "),
         continues |-> IF byTab THEN marker = "1" ELSE Len(line) > 5 /\ line[6] \notin {" ", "0"},
         part |-> SubSeq(line, from, Len(line)),
         legal |-> byTab \/ Len(line) > 6,
         byTab |-> byTab,
         (* A TAB behind column 1 does not take the stream to column 6.     *)
         shifted |-> tab \in 2..5,
         odd |-> LET at6 == IF Len(line) > 5 THEN line[6] ELSE " "
                 IN  \/ ~byTab /\ at6 = "!"
                     \/ tab \in 2..5 /\ marker # "1" /\ "0" \in {marker, at6}]

Free == INSTANCE FreeFormRules

Character(s, part, k) ==
    LET c == part[k]
        taken == [s EXCEPT !.statement = Append(@, IF c = "tab" THEN " " ELSE c)]
    IN  IF s.comment # <<>> THEN [s EXCEPT !.comment = Append(@, c)]
        ELSE IF s.inConstant THEN [taken EXCEPT !.inConstant = c # "'"]
        ELSE IF Free!Hollerith(part, k) THEN taken
        ELSE IF c = "!" THEN [s EXCEPT !.comment = <<c>>]
        ELSE IF c \in {" ", "tab"} THEN s
        ELSE IF c \in {"#", "&"} THEN [s EXCEPT !.legal = FALSE]
        ELSE [taken EXCEPT !.inConstant = c = "'"]

AddComment(s, comment) ==
    [s EXCEPT !.comments = IF comment = <<>> THEN @ ELSE Append(@, comment), !.comment = <<>>]

EndStatement(s) ==
    IF s.statement = <<>> THEN s
    ELSE [s EXCEPT !.statements = Append(@, s.statement), !.statement = <<>>,
                   !.legal = @ /\ ~s.inConstant]

(* In a line that begins inside a constant, or with one, the stream does not  *)
(* know what is a constant; the first character of a line that continues     *)
(* another is not seen to begin a comment; and nothing ends the comment of a *)
(* line that a TAB continues.                                               *)
OddJoin(s, f) ==
    \/ "!" \in Range(f.part) /\ (s.inConstant \/ s.shifted \/ f.part[1] \in {"'", "!"})
    \/ f.byTab /\ s.commented

Statement(s, line) ==
    LET f == Fields(line)
        begun == [EndStatement(s) EXCEPT
                    !.statement = f.label, !.shifted = f.shifted,
                    !.odd = @ \/ (f.shifted /\ "!" \in Range(f.part))]
        first == SelectSeq(f.part, LAMBDA c : c \notin {" ", "tab"})
        joined == [s EXCEPT !.joins = @ + 1, !.odd = @ \/ OddJoin(s, f)]
        read == FoldLeft(LAMBDA r, k : Character(r, f.part, k),
                         IF f.continues THEN joined ELSE begun, [k \in DOMAIN f.part |-> k])
        lawful ==
            /\ f.legal /\ Range(f.label) \subseteq {"0", "1"}
            /\ IF f.continues THEN s.statement # <<>> /\ f.label = <<>>
               ELSE first # <<>> /\ first[1] \in {"a", "c", "h"}
    IN  [AddComment(read, read.comment) EXCEPT
            !.legal = @ /\ lawful, !.odd = @ \/ f.odd,
            !.afterComment = FALSE, !.commented = read.comment # <<>>]

Line(s, line) ==
    IF line # <<>> /\ line[1] = "#" THEN
        [AddComment(s, line) EXCEPT !.odd = @ \/ s.afterComment, !.commented = FALSE]
    ELSE IF IsComment(line) THEN
        LET text == SubSeq(line, FirstOf(line), Len(line))
        IN  [AddComment(s, IF text = <<>> THEN text ELSE [text EXCEPT ![1] = "!"])
                EXCEPT !.afterComment = TRUE, !.commented = FALSE]
    ELSE Statement(s, line)

ReadFixed(t) == EndStatement(FoldLeft(Line, Nothing, LinesOf(t)))
=============================================================================
