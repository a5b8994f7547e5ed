----------------------------- MODULE MCSourceForms ----------------------------
(* Free form: any four characters, alone and behind the beginning of a text; texts of   *)
(* three lines of any form, and of four lines of forms that can be parts of *)
(* a legal text; and texts of two lines without the last line end.          *)
EXTENDS SourceForms

(* What is in front of the four characters: nothing, a continued statement  *)
(* with a comment, a continued constant, and one with a comment waiting.    *)
Beginnings == {
    <<>>, <<"a", "&", " ", "!", "a", "nl">>, <<"a", "'", "&", "nl">>,
    <<"a", "&", "!", "nl", " ", "&", "a", "'", "&", "nl", "&">>}

ShortTexts ==
    {b \o q \o <<"nl">> : b \in Beginnings, q \in SeqOf({"a", " ", "!", "&", "'", "#", "nl"}, 4)}

LegalLines == {
    <<" ", "nl">>, <<"!", "'", "nl">>, <<"#", "a", "nl">>,
    <<"a", "nl">>, <<"a", "&", " ", "!", "a", "nl">>,
    <<" ", "&", "a", "&", "nl">>, <<"a", "&", "cr", "nl">>,
    <<"a", "'", "!", "'", "'", "&", "'", "nl">>,
    <<"a", "'", "a", "&", "nl">>, <<"&", " ", "'", "&", "nl">>, <<" ", "&", "'", "nl">>}

AnyLines == LegalLines \cup {
    <<" ", "a", "!", "a", "nl">>, <<"&", "a", "nl">>,
    <<"a", "'", "&", "'", "nl">>, <<"a", "'", "&", "&", "'", "nl">>,
    <<"&", "&", " ", "nl">>, <<"&", "a", "'", "&", "nl">>, <<"'", "&", "a", "'", "nl">>,
    <<"&", "'", "&", "a", "'", "nl">>, <<"a", " ", "1", "h", "!", "nl">>,
    <<" ", "1", "h", "!", "nl">>, <<"&", " ", " ", "1", "h", "'", "nl">>,
    <<"a", " ", "1", "1", "h", "!", "nl">>}

OfLines(lines, k) == {FlattenSeq(ls) : ls \in SeqOf(lines, k)}

MCFreeTexts ==
    ShortTexts \cup OfLines(AnyLines, 3) \cup OfLines(LegalLines, 4)
        \cup {Front(t) : t \in OfLines(AnyLines, 2) \ {<<>>}}


(* Fixed form: texts of two lines of any form, three of fewer, and four of    *)
(* forms that can be parts of a legal text; with CR LF; and without the last *)
(* line end.                                                                *)
B5 == <<" ", " ", " ", " ", " ">>

LegalFixedLines == {
    <<"c", "a", "nl">>, <<"#", "a", "nl">>,
    B5 \o <<" ", "a", " ", "!", "a", "nl">>, B5 \o <<"1", "a", "'", "nl">>,
    B5 \o <<"&", "a", "'", "!", "'", "nl">>, B5 \o <<" ", "a", "'", "'", "'", "!", "nl">>,
    <<"tab", "1", "a", "nl">>}

FixedLines == LegalFixedLines \cup {
    <<"nl">>, B5 \o <<"0", "a", "0", "nl">>, B5 \o <<"1", "!", "a", "nl">>,
    B5 \o <<" ", "a", " ", "1", "h", "!", "nl">>, B5 \o <<"&", "'", "!", "'", "nl">>,
    <<"tab", "1", "a", "!", "nl">>, <<"1", "tab", "a", " ", " ", "0", "nl">>}

AnyFixedLines == FixedLines \cup {
    <<" ", "!", "a", "nl">>, B5 \o <<"!", "a", "nl">>, B5 \o <<"1", "nl">>,
    B5 \o <<" ", "a", "'", "!", "'", "'", "nl">>, <<"0", "1", " ", " ", " ", " ", "a", "nl">>,
    <<" ", " ", " ", " ", "a", "nl">>, <<"1", " ", "!", "nl">>,
    <<"tab", "0", "a", "nl">>, <<"1", "tab", "a", "nl">>, <<"tab", "a", "'", "nl">>,
    B5 \o <<" ", "a", "1", "1", "1", "h", "nl">>}

CrLf(t) == FlattenSeq([k \in 1..Len(t) |-> IF t[k] = "nl" THEN <<"cr", "nl">> ELSE <<t[k]>>])

MCFixedTexts ==
    OfLines(AnyFixedLines, 2) \cup OfLines(FixedLines, 3) \cup OfLines(LegalFixedLines, 4)
        \cup {Front(t) : t \in OfLines(AnyFixedLines, 2) \ {<<>>}}
        \cup {CrLf(t) : t \in OfLines(LegalFixedLines, 2)}
        \cup {CrLf(FlattenSeq([d \in 1..k |-> B5 \o <<" ", "a", "nl">>])) : k \in 3..7}

(* A comment behind a statement that a TAB continues, and the next statement. *)
TabTexts == {B5 \o <<" ", "a", "!", "a", "nl", "tab", "1", "a", "nl">> \o B5 \o <<" ", "a", "nl">>}

NoTexts == {}
=============================================================================
