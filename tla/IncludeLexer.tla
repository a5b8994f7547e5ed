---------------------------- MODULE IncludeLexer ----------------------------
(***************************************************************************)
(* FortranLexer.nextToken() and includeFile(): the lexer reads one stream,  *)
(* switches to an included file at the end of an INCLUDE line, and back at  *)
(* the end of that file.  fillBuffer() of the token stream calls nextToken  *)
(* until the end of the main file.                                          *)
(*                                                                         *)
(* All tokens of a statement are one token T_STMT.  Hidden tokens are not   *)
(* kept, for LT, getLineLength and createPackedList all pass over them;     *)
(* comments and white space are left out, for prevToken never holds them.   *)
(***************************************************************************)
EXTENDS Naturals, Sequences, FiniteSets, SequencesExt

CONSTANTS
    File,          \* the files that can be read
    Main,          \* the source file
    Missing,       \* names findFile finds nowhere
    Unreadable,    \* names findFile finds and FortranStream cannot read
    Statement,     \* statements
    NoText,        \* the text of a token without one
    Sources        \* the contents the files may have

Name == File \cup Missing \cup Unreadable

Lexeme == [type : {"T_STMT"}, text : Statement]
          \cup [type : {"T_INCLUDE"}, text : Name]   \* with its T_CHAR_CONSTANT
          \cup [type : {"T_EOS"}, text : {NoText}]

Eos == [type |-> "T_EOS", text |-> NoText]

ASSUME IncludeAssumption ==
    /\ IsFiniteSet(File) /\ Main \in File
    /\ File \cap (Missing \cup Unreadable) = {} /\ Missing \cap Unreadable = {}
    /\ NoText \notin Name \cup Statement
    /\ Sources \subseteq [File -> Seq(Lexeme)]

(* T_MARK and EOF are added by the prepass.                                *)
TokenType == {"T_STMT", "T_EOS", "T_INCLUDE", "T_INCLUDE_NAME", "T_MARK", "EOF",
              "T_CHAR_CONSTANT", "T_EOF"}
Token == [type : TokenType, text : Name \cup Statement \cup {NoText}]

(* prevToken = null: no token yet.                                          *)
NoToken == [type |-> "none", text |-> NoText]

VARIABLES
    source,       \* the contents of the files
    input,        \* the stream being read: its file and the next lexeme
    oldStreams,   \* Stack<FortranStream>
    prevToken,
    includeLine,  \* a T_INCLUDE waits for its T_EOS
    tokens,       \* the buffer of FortranTokenStream
    phase         \* "lex", "prepass" at EOF, "parse", and how it ended

Phase == {"lex", "prepass", "parse", "done", "error", "crash"}

lexerVars == <<source, input, oldStreams, prevToken, includeLine, tokens, phase>>

Stream == [file : File, index : Nat \ {0}]
Opened(f) == [file |-> f, index |-> 1]

LexerInit ==
    /\ source \in Sources
    /\ input = Opened(Main)
    /\ oldStreams = <<>>
    /\ prevToken = NoToken
    /\ includeLine = FALSE
    /\ tokens = <<>>
    /\ phase = "lex"

-----------------------------------------------------------------------------
AtEof == input.index > Len(source[input.file])
NextLexeme == source[input.file][input.index]
Consumed == [input EXCEPT !.index = @ + 1]

Reads(type) == phase = "lex" /\ ~AtEof /\ NextLexeme.type = type

LexStatement ==
    /\ Reads("T_STMT")
    /\ input' = Consumed
    /\ prevToken' = NextLexeme
    /\ tokens' = Append(tokens, NextLexeme)
    /\ UNCHANGED <<source, oldStreams, includeLine, phase>>

(* T_INCLUDE and the T_CHAR_CONSTANT that is hidden behind it.               *)
LexInclude ==
    /\ Reads("T_INCLUDE")
    /\ input' = Consumed
    /\ prevToken' = [type |-> "T_CHAR_CONSTANT", text |-> NextLexeme.text]
    /\ includeLine' = TRUE
    /\ tokens' = Append(tokens, [type |-> "T_INCLUDE", text |-> NoText])
    /\ UNCHANGED <<source, oldStreams, phase>>

eosKeptAfterInclude == prevToken.type \in {"none", "T_EOS"}

(* A T_EOS is hidden at the beginning of a file and after another one.       *)
EosHidden == prevToken.type \in {"none", "T_EOS", "T_INCLUDE_NAME"}

LexEos ==
    /\ Reads("T_EOS")
    /\ ~includeLine
    /\ input' = Consumed
    /\ prevToken' = Eos
    /\ tokens' = IF EosHidden THEN tokens ELSE Append(tokens, Eos)
    /\ UNCHANGED <<source, oldStreams, includeLine, phase>>

includedStreamPushed(stream, f) == Append(oldStreams, Opened(f))

PushStream(stream, f) == Append(oldStreams, stream)

includeLineStays(name) ==
    /\ prevToken' = [type |-> "T_INCLUDE_NAME", text |-> name]
    /\ tokens' = Append(tokens, prevToken')
    /\ includeLine' = TRUE
    /\ UNCHANGED <<source, phase>>

(* The T_EOS of an INCLUDE line becomes T_INCLUDE_NAME; the name is the text *)
(* of prevToken without its quotes.                                         *)
SetIncludeName(name) ==
    /\ prevToken' = [type |-> "T_INCLUDE_NAME", text |-> name]
    /\ tokens' = Append(tokens, prevToken')
    /\ includeLine' = FALSE
    /\ UNCHANGED <<source, phase>>

LexIncludeFile ==
    /\ Reads("T_EOS")
    /\ includeLine /\ prevToken.text \in File
    /\ oldStreams' = PushStream(Consumed, prevToken.text)
    /\ input' = Opened(prevToken.text)
    /\ SetIncludeName(prevToken.text)

(* findFile or the opening of the stream fails: a warning, and the lexer    *)
(* goes on behind the line.  A statement's last token without its first and *)
(* last character is the name of no file either.                            *)
LexIncludeFails ==
    /\ Reads("T_EOS")
    /\ includeLine
    /\ input' = Consumed
    /\ \E name \in IF prevToken.type = "T_STMT" THEN Missing ELSE {prevToken.text} \ File :
          SetIncludeName(name)
    /\ UNCHANGED oldStreams

(* substring(1, length - 1) of a token of one character.                     *)
LexIncludeCrash ==
    /\ Reads("T_EOS")
    /\ includeLine /\ prevToken.type = "T_STMT"
    /\ phase' = "crash"
    /\ UNCHANGED <<source, input, oldStreams, prevToken, includeLine, tokens>>

(* The end of an included file.  nextToken returns before it records the    *)
(* token in prevToken.                                                      *)
PopStream ==
    /\ phase = "lex" /\ AtEof
    /\ oldStreams # <<>>
    /\ tokens' = Append(tokens, [type |-> "T_EOF", text |-> input.file])
    /\ input' = Last(oldStreams)
    /\ oldStreams' = Front(oldStreams)
    /\ UNCHANGED <<source, prevToken, includeLine, phase>>

LexEof ==
    /\ phase = "lex" /\ AtEof
    /\ oldStreams = <<>>
    /\ phase' = "prepass"
    /\ UNCHANGED <<source, input, oldStreams, prevToken, includeLine, tokens>>

LexerNext ==
    \/ LexStatement \/ LexInclude \/ LexEos
    \/ LexIncludeFile \/ LexIncludeFails \/ LexIncludeCrash
    \/ PopStream \/ LexEof

LexerSpec == LexerInit /\ [][LexerNext]_lexerVars

-----------------------------------------------------------------------------
(* Every variable has its type.                                              *)
LexerTypeOK ==
    /\ source \in [File -> Seq(Lexeme)]
    /\ input \in Stream
    /\ oldStreams \in Seq(Stream)
    /\ prevToken \in Token \cup {NoToken}
    /\ includeLine \in BOOLEAN
    /\ tokens \in Seq(Token)
    /\ phase \in Phase
    /\ includeLine => prevToken.type \in {"T_CHAR_CONSTANT", "T_STMT"}

(* The files a reader of the token stream has entered and not left: a found *)
(* T_INCLUDE_NAME enters one, T_EOF leaves the innermost.                    *)
EnterOrLeave(open, tk) ==
    IF tk.type = "T_INCLUDE_NAME" /\ tk.text \in File THEN Append(open, tk.text)
    ELSE IF tk.type = "T_EOF" THEN Front(open)
    ELSE open
OpenFiles(tks) == FoldLeft(EnterOrLeave, <<Main>>, tks)

(* The token stream alone tells which file each token comes from: its       *)
(* T_INCLUDE_NAME and T_EOF tokens nest as the lexer's streams do, and each  *)
(* T_EOF names the file it ends.                                            *)
TokensFollowStreams ==
    phase \in {"lex", "prepass"} =>
        /\ OpenFiles(tokens) = Append([i \in 1..Len(oldStreams) |-> oldStreams[i].file],
                                      input.file)
        /\ (tokens # <<>> /\ Last(tokens).type = "T_EOF") =>
              Last(tokens).text = Last(OpenFiles(Front(tokens)))

(* A T_EOS ends a statement: only T_EOF tokens may come between the two.    *)
(* The parser relies on it (T_EOS processing only works after a statement). *)
NoBareEos ==
    \A i \in 1..Len(tokens) : tokens[i].type = "T_EOS" =>
        \E j \in 1..(i - 1) :
            /\ tokens[j].type = "T_STMT"
            /\ \A k \in (j + 1)..(i - 1) : tokens[k].type = "T_EOF"

(* "An include line is T_INCLUDE T_INCLUDE_NAME followed by the tokens in    *)
(* the first line of the included file" (matchInclude): the name is there,  *)
(* except while the lexer is still in the line, and it is not anywhere else. *)
IncludeLineTokens ==
    \A i \in 1..Len(tokens) :
        /\ tokens[i].type = "T_INCLUDE" =>
              \/ i < Len(tokens) /\ tokens[i + 1].type = "T_INCLUDE_NAME"
              \/ i = Len(tokens) /\ phase = "lex" /\ ~AtEof
        /\ tokens[i].type = "T_INCLUDE_NAME" =>
              i > 1 /\ tokens[i - 1].type = "T_INCLUDE"
=============================================================================
