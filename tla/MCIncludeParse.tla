--------------------------- MODULE MCIncludeParse ---------------------------
(* A main file that includes a file "a", which may include a file "b"; "m"   *)
(* is not found, "u" cannot be read.                                        *)
EXTENDS IncludeParse

MCFile == {"main", "a", "b"}
MCStatement == {"s", "t", "u1", "v"}

Line(type, text) == <<[type |-> type, text |-> text], Eos>>
Blank == <<Eos>>
Stmt(s) == Line("T_STMT", s)
Include(f) == Line("T_INCLUDE", f)

(* Contents of up to n lines, every one with its line end.                  *)
Text(lines, n) == {FlattenSeq(ls) : ls \in SeqOf(lines, n)}

(* The same, and also without the last line end.                            *)
Cut(texts) == texts \cup {Front(t) : t \in {x \in texts : x # <<>>}}

Files(mains, as, bs) ==
    {[f \in MCFile |-> IF f = "main" THEN m ELSE IF f = "a" THEN a ELSE b] :
        m \in mains, a \in as, b \in bs}

MainLines == {Blank, Stmt("s"), Include("a"), Include("b")}
ALines == {Blank, Stmt("u1"), Include("b")}
BLines == {Blank, Stmt("v")}

(* Any files, found or not, cut off anywhere.                               *)
AnySources ==
    Files(Cut(Text(MainLines \cup {Include("m"), Include("u")}, 3)),
          Cut(Text({Stmt("u1"), Include("b"), Include("m")}, 2)),
          Cut(Text(BLines, 1)))

(* Included files that begin and end with a statement: between two           *)
(* statements there is at most one T_EOF, and one include behind it.        *)
Whole(s, lines, n) ==
    {Stmt(s)} \cup {Stmt(s) \o middle \o Stmt(s) : middle \in Text(lines, n)}

WholeSources ==
    Files(Text(MainLines, 3), Whole("u1", ALines, 2), Whole("v", BLines, 1))

(* An empty file, as in bug-2983414.f90, with a statement behind each of its *)
(* INCLUDE lines.                                                           *)
EmptySources ==
    Files(Text({Blank, Stmt("s"), Include("a") \o Stmt("t"), Include("a") \o Blank \o Stmt("t")}, 3),
          Text({Blank}, 2), {<<>>})

LegalSources == WholeSources \cup EmptySources

MCSources == AnySources \cup LegalSources

Legal == source \in LegalSources

(* Of a source whose included files begin and end with a statement, or are   *)
(* empty in front of one, the prepass reaches every statement and ends every *)
(* line, and every include token is followed by its name (nextToken,        *)
(* performPrepass, matchInclude).                                           *)
LegalTokens ==
    Legal => EveryStatementReached /\ LinesTerminated /\ IncludeLineTokens

(* Such a source is accepted, and nothing crashes: prepass and parser pass   *)
(* over the same include tokens (performPrepass, checkForInclude).          *)
LegalAccepted == Legal => NoCrash /\ Accepted

(* An included file that begins or ends with an INCLUDE line.                *)
NestedSources ==
    Files({Include("a") \o Stmt("s")}, {Include("b"), Include("b") \o Stmt("u1"),
                                         Stmt("u1") \o Include("b")},
          {Stmt("v")})
=============================================================================
