--------------------------- MODULE IncludeProofs ---------------------------
(***************************************************************************)
(* The include tokens, for all files and contents: the buffer the lexer      *)
(* fills tells which file every token comes from, neither the lexer nor the  *)
(* prepass lets a T_EOS stand that ends no statement, and the action class  *)
(* is told each statement once, in order and in its file.                   *)
(***************************************************************************)
EXTENDS IncludeParse, SequenceTheorems, FiniteSetTheorems, NaturalsLemmas

-----------------------------------------------------------------------------
(* The fold of OpenFiles goes by sets of indices: f has what it makes of the *)
(* first tokens of s, f[1 .. k] for the first k of them.                     *)
Folds(f, s, n) ==
    f = [x \in SUBSET (1 .. n) |->
            IF x = {} THEN <<Main>> ELSE EnterOrLeave(f[x \ {Max(x)}], s[Max(x)])]

(* There is such an f, ...                                                   *)
LEMMA FoldExists ==
    ASSUME NEW s, NEW n \in Nat
    PROVE  \E f : Folds(f, s, n)
<1> DEFINE Good == {k \in Nat : \E f : Folds(f, s, k)}
<1>1. 0 \in Good
  <2> DEFINE f == [x \in SUBSET (1 .. 0) |-> <<Main>>]
  <2>1. \A x \in SUBSET (1 .. 0) : x = {}
    OBVIOUS
  <2>2. Folds(f, s, 0)
    BY <2>1 DEF Folds
  <2> QED
    BY <2>2
<1>2. ASSUME NEW k \in Nat, k \in Good PROVE k + 1 \in Good
  <2>1. PICK f : Folds(f, s, k)
    BY <1>2
  <2> DEFINE g == [x \in SUBSET (1 .. k + 1) |->
                      IF k + 1 \in x THEN EnterOrLeave(f[x \ {k + 1}], s[k + 1]) ELSE f[x]]
  <2>2. \A x \in SUBSET (1 .. k + 1) : k + 1 \notin x => x \in SUBSET (1 .. k)
    OBVIOUS
  <2>3. \A x \in SUBSET (1 .. k) : x \in SUBSET (1 .. k + 1) /\ k + 1 \notin x
    OBVIOUS
  <2>4. \A x \in SUBSET (1 .. k) : g[x] = f[x]
    BY <2>3
  <2>5. ASSUME NEW x \in SUBSET (1 .. k + 1)
        PROVE  g[x] = IF x = {} THEN <<Main>> ELSE EnterOrLeave(g[x \ {Max(x)}], s[Max(x)])
    <3>1. CASE k + 1 \in x
      <4>1. x \in SUBSET Nat /\ \A i \in x : k + 1 >= i
        OBVIOUS
      <4>2. Max(x) = k + 1
        BY <3>1, <4>1, MaxIs
      <4>3. x \ {k + 1} \in SUBSET (1 .. k)
        OBVIOUS
      <4>4. g[x \ {k + 1}] = f[x \ {k + 1}] /\ g[x] = EnterOrLeave(f[x \ {k + 1}], s[k + 1])
        BY <2>4, <3>1, <4>3
      <4> HIDE DEF g
      <4> QED
        BY <3>1, <4>2, <4>4
    <3>2. CASE k + 1 \notin x
      <4>1. x \in SUBSET (1 .. k) /\ x \ {Max(x)} \in SUBSET (1 .. k)
        BY <2>2, <3>2
      <4>2. g[x] = f[x] /\ g[x \ {Max(x)}] = f[x \ {Max(x)}]
        BY <2>4, <4>1
      <4> HIDE DEF g
      <4>3. f[x] = IF x = {} THEN <<Main>> ELSE EnterOrLeave(f[x \ {Max(x)}], s[Max(x)])
        BY <2>1, <4>1 DEF Folds
      <4> QED
        BY <4>2, <4>3
    <3> QED
      BY <3>1, <3>2
  <2>6. DOMAIN g = SUBSET (1 .. k + 1) /\ g = [x \in SUBSET (1 .. k + 1) |-> g[x]]
    OBVIOUS
  <2> HIDE DEF g
  <2>7. Folds(g, s, k + 1)
    BY <2>5, <2>6 DEF Folds
  <2> QED
    BY <2>7
<1> HIDE DEF Good
<1>3. n \in Good
  BY <1>1, <1>2, SetInduction
<1> QED
  BY <1>3 DEF Good

(* ... and it goes token by token.                                          *)
LEMMA FoldSteps ==
    ASSUME NEW s, NEW n \in Nat, NEW f, Folds(f, s, n)
    PROVE  /\ f[1 .. 0] = <<Main>>
           /\ \A k \in 0 .. n - 1 : f[1 .. k + 1] = EnterOrLeave(f[1 .. k], s[k + 1])
<1>1. f[1 .. 0] = <<Main>>
  <2>1. 1 .. 0 = {} /\ {} \in SUBSET (1 .. n)
    OBVIOUS
  <2> QED
    BY <2>1 DEF Folds
<1>2. ASSUME NEW k \in 0 .. n - 1 PROVE f[1 .. k + 1] = EnterOrLeave(f[1 .. k], s[k + 1])
  <2> DEFINE x == 1 .. k + 1
  <2>1. x \in SUBSET Nat /\ k + 1 \in x /\ (\A i \in x : k + 1 >= i) /\ x \in SUBSET (1 .. n)
    OBVIOUS
  <2>2. x \ {k + 1} = 1 .. k /\ x # {}
    OBVIOUS
  <2> HIDE DEF x
  <2>3. Max(x) = k + 1
    BY <2>1, MaxIs
  <2>4. f[x] = EnterOrLeave(f[x \ {Max(x)}], s[Max(x)])
    BY <2>1, <2>2 DEF Folds
  <2> QED
    BY <2>2, <2>3, <2>4 DEF x
<1> QED
  BY <1>1, <1>2

LEMMA OpenFilesFolds ==
    ASSUME NEW s \in Seq(Token)
    PROVE  \E f : Folds(f, s, Len(s)) /\ OpenFiles(s) = f[1 .. Len(s)]
<1> DEFINE iter == CHOOSE f : Folds(f, s, Len(s))
<1>1. DOMAIN s = 1 .. Len(s) /\ Len(s) \in Nat
  BY LenProperties
<1>2. OpenFiles(s) =
        (CHOOSE f : f = [x \in SUBSET DOMAIN s |->
            IF x = {} THEN <<Main>> ELSE EnterOrLeave(f[x \ {Max(x)}], s[Max(x)])])[DOMAIN s]
  BY DEF OpenFiles, FoldLeft, MapThenFoldSet
<1>3. OpenFiles(s) = iter[1 .. Len(s)]
  BY <1>1, <1>2 DEF Folds
<1>4. Folds(iter, s, Len(s))
  <2>1. \E f : Folds(f, s, Len(s))
    BY <1>1, FoldExists
  <2> QED
    BY <2>1
<1> QED
  BY <1>3, <1>4

(* What the reader of the tokens makes of one more token.                   *)
LEMMA OpenFilesOfAppend ==
    ASSUME NEW s \in Seq(Token), NEW t \in Token
    PROVE  OpenFiles(Append(s, t)) = EnterOrLeave(OpenFiles(s), t)
<1> DEFINE n == Len(s)
           all == Append(s, t)
<1>1. /\ n \in Nat /\ all \in Seq(Token) /\ Len(all) = n + 1 /\ all[n + 1] = t
      /\ \A k \in 1 .. n : all[k] = s[k]
  BY LenProperties, AppendProperties
<1> HIDE DEF n, all
<1>2. PICK f : Folds(f, s, n) /\ OpenFiles(s) = f[1 .. n]
  BY OpenFilesFolds DEF n
<1>3. PICK g : Folds(g, all, n + 1) /\ OpenFiles(all) = g[1 .. n + 1]
  BY <1>1, OpenFilesFolds
<1>4. /\ f[1 .. 0] = <<Main>>
      /\ \A k \in 0 .. n - 1 : f[1 .. k + 1] = EnterOrLeave(f[1 .. k], s[k + 1])
  BY <1>1, <1>2, FoldSteps
<1>5. /\ g[1 .. 0] = <<Main>>
      /\ \A k \in 0 .. n : g[1 .. k + 1] = EnterOrLeave(g[1 .. k], all[k + 1])
  <2> DEFINE m == n + 1
  <2>1. m \in Nat /\ m - 1 = n
    BY <1>1
  <2>2. Folds(g, all, m)
    BY <1>3
  <2> HIDE DEF m
  <2>3. /\ g[1 .. 0] = <<Main>>
        /\ \A k \in 0 .. m - 1 : g[1 .. k + 1] = EnterOrLeave(g[1 .. k], all[k + 1])
    BY <2>1, <2>2, FoldSteps
  <2> QED
    BY <2>1, <2>3
<1> DEFINE Same == {k \in Nat : k <= n => f[1 .. k] = g[1 .. k]}
<1>6. 0 \in Same
  BY <1>4, <1>5
<1>7. ASSUME NEW k \in Nat, k \in Same PROVE k + 1 \in Same
  <2> SUFFICES ASSUME k + 1 <= n PROVE f[1 .. k + 1] = g[1 .. k + 1]
    OBVIOUS
  <2>1. k \in 0 .. n - 1 /\ k \in 0 .. n /\ k <= n /\ k + 1 \in 1 .. n
    BY <1>1
  <2>2. f[1 .. k] = g[1 .. k] /\ all[k + 1] = s[k + 1]
    BY <1>1, <1>7, <2>1
  <2> QED
    BY <1>4, <1>5, <2>1, <2>2
<1>8. f[1 .. n] = g[1 .. n]
  <2> HIDE DEF Same
  <2>1. n \in Same
    BY <1>1, <1>6, <1>7, SetInduction
  <2> QED
    BY <1>1, <2>1 DEF Same
<1>9. g[1 .. n + 1] = EnterOrLeave(g[1 .. n], t)
  BY <1>1, <1>5
<1> QED
  BY <1>2, <1>3, <1>8, <1>9 DEF all

-----------------------------------------------------------------------------
(* NoBareEos, of any sequence of tokens.                                    *)
EndsStatement(tks, i) ==
    \E j \in 1 .. (i - 1) :
        /\ tks[j].type = "T_STMT"
        /\ \A k \in (j + 1) .. (i - 1) : tks[k].type = "T_EOF"

EosEndStatements(tks) ==
    \A i \in 1 .. Len(tks) : tks[i].type = "T_EOS" => EndsStatement(tks, i)

(* What is in front of a token does not change when more come behind it.     *)
LEMMA EndsStatementSame ==
    ASSUME NEW s, NEW t, NEW i \in Nat, \A k \in 1 .. i - 1 : t[k] = s[k], EndsStatement(s, i)
    PROVE  EndsStatement(t, i)
<1>1. PICK j \in 1 .. (i - 1) :
        /\ s[j].type = "T_STMT"
        /\ \A k \in (j + 1) .. (i - 1) : s[k].type = "T_EOF"
  BY DEF EndsStatement
<1>2. \A k \in (j + 1) .. (i - 1) : k \in 1 .. i - 1
  OBVIOUS
<1> QED
  BY <1>1, <1>2 DEF EndsStatement

LEMMA EosAppend ==
    ASSUME NEW s \in Seq(Token), EosEndStatements(s), NEW t \in Token,
           t.type = "T_EOS" => EndsStatement(s, Len(s) + 1)
    PROVE  EosEndStatements(Append(s, t))
<1> DEFINE all == Append(s, t)
           n == Len(s)
<1>1. /\ n \in Nat /\ Len(all) = n + 1 /\ all[n + 1] = t /\ \A k \in 1 .. n : all[k] = s[k]
  BY LenProperties, AppendProperties
<1> HIDE DEF all
<1>2. SUFFICES ASSUME NEW i \in 1 .. n + 1, all[i].type = "T_EOS" PROVE EndsStatement(all, i)
  BY <1>1 DEF EosEndStatements, all
<1>3. \A k \in 1 .. i - 1 : all[k] = s[k]
  BY <1>1
<1>4. EndsStatement(s, i)
  <2>1. i \in 1 .. n \/ i = n + 1
    BY <1>1
  <2> QED
    BY <1>1, <1>2, <2>1 DEF EosEndStatements
<1>5. i \in Nat
  OBVIOUS
<1> QED
  BY <1>3, <1>4, <1>5, EndsStatementSame

(* A token that is not a T_EOF or a statement leaves none in front of it.    *)
LEMMA EndsAppend ==
    ASSUME NEW s \in Seq(Token), NEW t \in Token,
           t.type = "T_STMT" \/ (t.type = "T_EOF" /\ EndsStatement(s, Len(s) + 1))
    PROVE  EndsStatement(Append(s, t), Len(s) + 2)
<1> DEFINE all == Append(s, t)
           n == Len(s)
<1>1. /\ n \in Nat /\ Len(all) = n + 1 /\ all[n + 1] = t /\ \A k \in 1 .. n : all[k] = s[k]
  BY LenProperties, AppendProperties
<1> HIDE DEF all, n
<1>2. CASE t.type = "T_STMT"
  <2>1. n + 1 \in 1 .. (n + 2 - 1) /\ (n + 1 + 1) .. (n + 2 - 1) = {}
    BY <1>1
  <2> QED
    BY <1>1, <1>2, <2>1 DEF EndsStatement, all, n
<1>3. CASE t.type = "T_EOF" /\ EndsStatement(s, n + 1)
  <2> DEFINE m == n + 1
  <2>0. m \in Nat /\ m - 1 = n
    BY <1>1
  <2> HIDE DEF m
  <2>1. PICK j \in 1 .. (m - 1) :
          /\ s[j].type = "T_STMT"
          /\ \A k \in (j + 1) .. (m - 1) : s[k].type = "T_EOF"
    BY <1>3 DEF EndsStatement, m
  <2>2. j \in 1 .. (n + 2 - 1) /\ j \in 1 .. n
    BY <1>1, <2>0
  <2>3. ASSUME NEW k \in (j + 1) .. (n + 2 - 1) PROVE all[k].type = "T_EOF"
    <3>1. k = n + 1 \/ (k \in 1 .. n /\ k \in (j + 1) .. (m - 1))
      BY <1>1, <2>0, <2>2
    <3> QED
      BY <1>1, <1>3, <2>1, <3>1
  <2> QED
    BY <1>1, <2>1, <2>2, <2>3 DEF EndsStatement, all, n
<1> QED
  BY <1>2, <1>3 DEF n

LEMMA EosConcat ==
    ASSUME NEW s \in Seq(Token), NEW t \in Seq(Token), EosEndStatements(s), EosEndStatements(t)
    PROVE  EosEndStatements(s \o t)
<1> DEFINE all == s \o t
           n == Len(s)
<1>1. /\ n \in Nat /\ Len(t) \in Nat /\ Len(all) = n + Len(t)
      /\ \A k \in 1 .. n + Len(t) : all[k] = IF k <= n THEN s[k] ELSE t[k - n]
  BY LenProperties, ConcatProperties
<1> HIDE DEF all, n
<1>2. SUFFICES ASSUME NEW i \in 1 .. n + Len(t), all[i].type = "T_EOS" PROVE EndsStatement(all, i)
  BY <1>1 DEF EosEndStatements, all
<1>3. CASE i <= n
  <2>1. i \in 1 .. n /\ i \in Nat /\ \A k \in 1 .. i - 1 : k <= n /\ k \in 1 .. n + Len(t)
    BY <1>1, <1>3
  <2>2. EndsStatement(s, i)
    BY <1>1, <1>2, <1>3, <2>1 DEF EosEndStatements, n
  <2>3. \A k \in 1 .. i - 1 : all[k] = s[k]
    BY <1>1, <2>1
  <2> QED
    BY <2>1, <2>2, <2>3, EndsStatementSame
<1>4. CASE ~ (i <= n)
  <2> DEFINE m == i - n
  <2>1. m \in 1 .. Len(t) /\ i = n + m
    BY <1>1, <1>4
  <2>2. all[i] = t[m]
    BY <1>1, <1>4
  <2> HIDE DEF m
  <2>3. PICK j \in 1 .. (m - 1) :
          /\ t[j].type = "T_STMT"
          /\ \A k \in (j + 1) .. (m - 1) : t[k].type = "T_EOF"
    BY <1>2, <2>1, <2>2 DEF EosEndStatements, EndsStatement
  <2> DEFINE h == n + j
  <2>4. h \in 1 .. (i - 1) /\ h \in 1 .. n + Len(t) /\ ~ (h <= n) /\ h - n = j
    BY <1>1, <2>1
  <2>5. ASSUME NEW k \in (h + 1) .. (i - 1)
        PROVE  k \in 1 .. n + Len(t) /\ ~ (k <= n) /\ k - n \in (j + 1) .. (m - 1)
    BY <1>1, <2>1
  <2> HIDE DEF h
  <2>6. all[h].type = "T_STMT"
    BY <1>1, <2>3, <2>4
  <2>7. \A k \in (h + 1) .. (i - 1) : all[k].type = "T_EOF"
    BY <1>1, <2>3, <2>5
  <2> QED
    BY <2>4, <2>6, <2>7 DEF EndsStatement
<1> QED
  BY <1>3, <1>4

(* A line of the buffer starts behind a T_EOS, so that what its T_EOS ends   *)
(* is in the line.                                                          *)
LEMMA EosSubSeq ==
    ASSUME NEW s \in Seq(Token), EosEndStatements(s), NEW a \in 1 .. Len(s), NEW b \in a .. Len(s),
           a > 1 => s[a - 1].type = "T_EOS"
    PROVE  /\ SubSeq(s, a, b) \in Seq(Token) /\ Len(SubSeq(s, a, b)) = b - a + 1
           /\ EosEndStatements(SubSeq(s, a, b))
<1> DEFINE line == SubSeq(s, a, b)
<1>1. Len(s) \in Nat /\ a \in Nat /\ b \in Nat /\ a <= b /\ a >= 1 /\ b <= Len(s)
  BY LenProperties
<1>2. \A i \in a .. b : s[i] \in Token
  BY <1>1, ElementOfSeq
<1>3. /\ line \in Seq(Token) /\ Len(line) = b - a + 1
      /\ \A i \in 1 .. b - a + 1 : line[i] = s[a + i - 1]
  BY <1>1, <1>2, SubSeqProperties
<1> HIDE DEF line
<1>4. ASSUME NEW i \in 1 .. b - a + 1, line[i].type = "T_EOS" PROVE EndsStatement(line, i)
  <2> DEFINE m == a + i - 1
  <2>1. m \in 1 .. Len(s) /\ m \in Nat /\ m <= b /\ m >= a
    BY <1>1
  <2>2. line[i] = s[m]
    BY <1>3
  <2> HIDE DEF m
  <2>3. PICK j \in 1 .. (m - 1) :
          /\ s[j].type = "T_STMT"
          /\ \A k \in (j + 1) .. (m - 1) : s[k].type = "T_EOF"
    BY <1>4, <2>1, <2>2 DEF EosEndStatements, EndsStatement
  <2>4. ASSUME j < a PROVE FALSE
    <3>1. a > 1 /\ s[a - 1].type = "T_EOS"
      BY <1>1, <2>1, <2>4
    <3>2. a - 1 = j \/ a - 1 \in (j + 1) .. (m - 1)
      BY <1>1, <2>1, <2>4
    <3> QED
      BY <2>3, <3>1, <3>2
  <2> DEFINE h == j - a + 1
  <2>5. h \in 1 .. (i - 1) /\ h \in 1 .. b - a + 1 /\ a + h - 1 = j
    BY <1>1, <2>1, <2>4 DEF m
  <2>6. ASSUME NEW k \in (h + 1) .. (i - 1)
        PROVE  k \in 1 .. b - a + 1 /\ a + k - 1 \in (j + 1) .. (m - 1)
    BY <1>1, <2>1, <2>5 DEF m
  <2> HIDE DEF h
  <2>7. line[h].type = "T_STMT"
    BY <1>3, <2>3, <2>5
  <2>8. \A k \in (h + 1) .. (i - 1) : line[k].type = "T_EOF"
    BY <1>3, <2>3, <2>6
  <2> QED
    BY <2>5, <2>7, <2>8 DEF EndsStatement
<1> QED
  BY <1>3, <1>4 DEF EosEndStatements, line

(* The prepass puts its token in front of a statement, not behind one.       *)
LEMMA EosInsert ==
    ASSUME NEW s \in Seq(Token), EosEndStatements(s), NEW a \in 1 .. Len(s),
           s[a].type = "T_STMT"
    PROVE  InsertAt(s, a, Mark) \in Seq(Token) /\ EosEndStatements(InsertAt(s, a, Mark))
<1> DEFINE new == InsertAt(s, a, Mark)
           left == SubSeq(s, 1, a - 1)
           right == SubSeq(s, a, Len(s))
           n == Len(s)
<1>1. n \in Nat /\ a \in Nat /\ a >= 1 /\ a <= n /\ Mark \in Token /\ Mark.type = "T_MARK"
  BY LenProperties DEF Mark, Token, TokenType
<1>2. /\ left \in Seq(Token) /\ Len(left) = a - 1 /\ \A i \in 1 .. a - 1 : left[i] = s[i]
  <2> DEFINE d == a - 1
  <2>1. d \in Nat /\ \A i \in 1 .. d : s[i] \in Token
    BY <1>1, ElementOfSeq
  <2> HIDE DEF d
  <2>2. /\ SubSeq(s, 1, d) \in Seq(Token)
        /\ Len(SubSeq(s, 1, d)) = IF 1 <= d THEN d - 1 + 1 ELSE 0
        /\ \A i \in 1 .. d - 1 + 1 : SubSeq(s, 1, d)[i] = s[1 + i - 1]
    BY <2>1, SubSeqProperties
  <2>3. /\ SubSeq(s, 1, d) \in Seq(Token) /\ Len(SubSeq(s, 1, d)) = d
        /\ \A i \in 1 .. d : SubSeq(s, 1, d)[i] = s[i]
    BY <2>1, <2>2
  <2> QED
    BY <2>3 DEF d
<1>3. /\ right \in Seq(Token) /\ Len(right) = n - a + 1
      /\ \A i \in 1 .. n - a + 1 : right[i] = s[a + i - 1]
  <2>1. \A i \in a .. n : s[i] \in Token
    BY <1>1, ElementOfSeq
  <2> QED
    BY <1>1, <2>1, SubSeqProperties
<1> HIDE DEF left, right
<1>4. /\ <<Mark>> \in Seq(Token) /\ Len(<<Mark>>) = 1 /\ <<Mark>>[1] = Mark
  BY <1>1
<1> DEFINE front == left \o <<Mark>>
<1>5. /\ front \in Seq(Token) /\ Len(front) = a
      /\ \A i \in 1 .. a - 1 : front[i] = s[i]
      /\ front[a] = Mark
  <2>1. /\ front \in Seq(Token) /\ Len(front) = Len(left) + 1
        /\ \A i \in 1 .. Len(left) + 1 : front[i] = IF i <= Len(left) THEN left[i]
                                                    ELSE <<Mark>>[i - Len(left)]
    BY <1>2, <1>4, ConcatProperties
  <2>2. a \in 1 .. Len(left) + 1 /\ a - Len(left) = 1 /\ ~ (a <= Len(left))
    BY <1>1, <1>2
  <2>3. \A i \in 1 .. a - 1 : i \in 1 .. Len(left) + 1 /\ i <= Len(left)
    BY <1>1, <1>2
  <2> HIDE DEF front
  <2> QED
    BY <1>1, <1>2, <1>4, <2>1, <2>2, <2>3
<1> HIDE DEF front
<1>6. new = front \o right
  BY DEF InsertAt, front, left, right
<1>7. /\ new \in Seq(Token) /\ Len(new) = n + 1
      /\ \A i \in 1 .. n + 1 : new[i] = IF i <= a THEN front[i] ELSE s[i - 1]
  <2>1. /\ new \in Seq(Token) /\ Len(new) = a + Len(right)
        /\ \A i \in 1 .. a + Len(right) : new[i] = IF i <= a THEN front[i] ELSE right[i - a]
    <3>1. /\ front \o right \in Seq(Token) /\ Len(front \o right) = Len(front) + Len(right)
          /\ \A i \in 1 .. Len(front) + Len(right) :
                (front \o right)[i] = IF i <= Len(front) THEN front[i] ELSE right[i - Len(front)]
      BY <1>3, <1>5, ConcatProperties
    <3> HIDE DEF new
    <3> QED
      BY <1>5, <1>6, <3>1
  <2>2. a + Len(right) = n + 1
    BY <1>1, <1>3
  <2>3. ASSUME NEW i \in 1 .. n + 1, ~ (i <= a) PROVE right[i - a] = s[i - 1]
    <3>1. i - a \in 1 .. n - a + 1 /\ a + (i - a) - 1 = i - 1
      BY <1>1, <2>3
    <3> QED
      BY <1>3, <3>1
  <2> HIDE DEF new
  <2> QED
    BY <2>1, <2>2, <2>3
<1> HIDE DEF new
<1>8. ASSUME NEW i \in 1 .. n + 1, new[i].type = "T_EOS" PROVE EndsStatement(new, i)
  <2>1. CASE i <= a
    <3>1. i # a
      BY <1>1, <1>5, <1>7, <1>8
    <3>2. i \in Nat /\ i \in 1 .. a - 1 /\ i \in 1 .. n
      BY <1>1, <2>1, <3>1
    <3>3. new[i] = s[i]
      BY <1>5, <1>7, <2>1, <3>2
    <3>4. EndsStatement(s, i)
      BY <1>8, <3>2, <3>3 DEF EosEndStatements
    <3>5. \A k \in 1 .. i - 1 : k \in 1 .. n + 1 /\ k <= a /\ k \in 1 .. a - 1
      BY <1>1, <2>1
    <3>6. \A k \in 1 .. i - 1 : new[k] = s[k]
      BY <1>5, <1>7, <3>5
    <3> QED
      BY <3>2, <3>4, <3>6, EndsStatementSame
  <2>2. CASE ~ (i <= a)
    <3> DEFINE m == i - 1
    <3>1. m \in 1 .. n /\ m >= a /\ i = m + 1
      BY <1>1, <2>2
    <3>2. new[i] = s[m]
      BY <1>7, <2>2
    <3> HIDE DEF m
    <3>3. PICK j \in 1 .. (m - 1) :
            /\ s[j].type = "T_STMT"
            /\ \A k \in (j + 1) .. (m - 1) : s[k].type = "T_EOF"
      BY <1>8, <3>1, <3>2 DEF EosEndStatements, EndsStatement
    <3>4. m # a
      BY <1>8, <3>2
    <3>5. ASSUME j < a PROVE FALSE
      <4>1. a \in (j + 1) .. (m - 1)
        BY <1>1, <3>1, <3>4, <3>5
      <4> QED
        BY <3>3, <4>1
    <3> DEFINE h == j + 1
    <3>6. h \in 1 .. (i - 1) /\ h \in 1 .. n + 1 /\ ~ (h <= a) /\ h - 1 = j
      BY <1>1, <3>1, <3>5
    <3>7. ASSUME NEW k \in (h + 1) .. (i - 1)
          PROVE  k \in 1 .. n + 1 /\ ~ (k <= a) /\ k - 1 \in (j + 1) .. (m - 1)
      BY <1>1, <3>1, <3>5
    <3> HIDE DEF h
    <3>8. new[h].type = "T_STMT"
      BY <1>7, <3>3, <3>6
    <3>9. \A k \in (h + 1) .. (i - 1) : new[k].type = "T_EOF"
      BY <1>7, <3>3, <3>7
    <3> QED
      BY <3>6, <3>8, <3>9 DEF EndsStatement
  <2> QED
    BY <2>1, <2>2
<1> QED
  BY <1>7, <1>8 DEF EosEndStatements, new


-----------------------------------------------------------------------------
(* What the lexer knows of the buffer from prevToken: a statement in it is   *)
(* the last token but for the ends of files, and an INCLUDE line is behind   *)
(* its name.                                                                *)
LexerInv ==
    /\ ~ includeLine => prevToken.type \in {"none", "T_EOS", "T_INCLUDE_NAME", "T_STMT"}
    /\ phase = "lex" /\ prevToken.type = "T_STMT" => EndsStatement(tokens, Len(tokens) + 1)
    /\ phase = "lex" => p = 1

(* The prepass takes the buffer line by line.                               *)
PrepassInv ==
    /\ newTokenList \in Seq(Token)
    /\ EosEndStatements(newTokenList)
    /\ phase = "prepass" =>
          p \in Nat \ {0} /\ (p > 1 /\ p <= Len(tokens) => tokens[p - 1].type = "T_EOS")

BufferInv == LexerTypeOK /\ LexerInv /\ PrepassInv /\ EosEndStatements(tokens)

(* The streams of the lexer are those of files it can read.                  *)
LEMMA StreamFacts ==
    ASSUME LexerTypeOK
    PROVE  /\ ~ AtEof => NextLexeme \in Lexeme
           /\ Consumed \in Stream /\ Consumed.file = input.file
           /\ input.file \in File /\ input.index \in Nat \ {0}
           /\ \A f \in File : Opened(f) \in Stream /\ Opened(f).file = f
<1>1. input \in Stream /\ input.file \in File /\ input.index \in Nat \ {0}
  BY DEF LexerTypeOK, Stream
<1>2. Consumed \in Stream /\ Consumed.file = input.file
  BY <1>1 DEF Consumed, Stream
<1>3. ASSUME ~ AtEof PROVE NextLexeme \in Lexeme
  <2>1. source[input.file] \in Seq(Lexeme)
    BY <1>1 DEF LexerTypeOK
  <2>2. input.index \in 1 .. Len(source[input.file])
    BY <1>1, <1>3, <2>1, LenProperties DEF AtEof
  <2> QED
    BY <2>1, <2>2, ElementOfSeq DEF NextLexeme
<1>4. \A f \in File : Opened(f) \in Stream /\ Opened(f).file = f
  BY DEF Opened, Stream
<1> QED
  BY <1>1, <1>2, <1>3, <1>4

(* A step of the lexer keeps the types.                                     *)
LEMMA LexerTypeStep == LexerTypeOK /\ LexerNext => LexerTypeOK'
<1> SUFFICES ASSUME LexerTypeOK, LexerNext PROVE LexerTypeOK'
  OBVIOUS
<1>0. /\ source \in [File -> Seq(Lexeme)] /\ input \in Stream /\ oldStreams \in Seq(Stream)
      /\ prevToken \in Token \cup {NoToken} /\ includeLine \in BOOLEAN /\ tokens \in Seq(Token)
      /\ phase \in Phase /\ (includeLine => prevToken.type \in {"T_CHAR_CONSTANT", "T_STMT"})
  BY DEF LexerTypeOK
<1>1. /\ Consumed \in Stream /\ (~ AtEof => NextLexeme \in Lexeme) /\ Eos \in Token
      /\ \A f \in File : Opened(f) \in Stream
  BY StreamFacts DEF Eos, Token, TokenType
<1>2. \A t \in Token : Append(tokens, t) \in Seq(Token)
  BY <1>0, AppendProperties
<1>3. CASE LexStatement
  <2>1. NextLexeme \in Token /\ NextLexeme.type = "T_STMT"
    BY <1>1, <1>3 DEF LexStatement, Reads, Lexeme, Token, TokenType
  <2> QED
    BY <1>0, <1>1, <1>2, <1>3, <2>1 DEF LexStatement, LexerTypeOK
<1>4. CASE LexInclude
  <2>1. NextLexeme.text \in Name
    BY <1>1, <1>4 DEF LexInclude, Reads, Lexeme
  <2>2. /\ [type |-> "T_CHAR_CONSTANT", text |-> NextLexeme.text] \in Token
        /\ [type |-> "T_INCLUDE", text |-> NoText] \in Token
    BY <2>1 DEF Token, TokenType
  <2> QED
    BY <1>0, <1>1, <1>2, <1>4, <2>2 DEF LexInclude, LexerTypeOK
<1>5. CASE LexEos
  <2>1. tokens' \in Seq(Token)
    BY <1>0, <1>1, <1>2, <1>5 DEF LexEos
  <2> QED
    BY <1>0, <1>1, <1>5, <2>1 DEF LexEos, LexerTypeOK
<1>6. ASSUME NEW name \in Name, SetIncludeName(name)
      PROVE  /\ prevToken' \in Token /\ tokens' \in Seq(Token) /\ includeLine' = FALSE
             /\ source' = source /\ phase' = phase
  <2>1. prevToken' \in Token
    BY <1>6 DEF SetIncludeName, Token, TokenType
  <2> QED
    BY <1>2, <1>6, <2>1 DEF SetIncludeName
<1>7. CASE LexIncludeFile
  <2>1. prevToken.text \in File /\ prevToken.text \in Name /\ SetIncludeName(prevToken.text)
    BY <1>7 DEF LexIncludeFile, Name
  <2>2. oldStreams' \in Seq(Stream) /\ input' \in Stream
    BY <1>0, <1>1, <1>7, <2>1, AppendProperties DEF LexIncludeFile, PushStream
  <2> QED
    BY <1>0, <1>6, <2>1, <2>2 DEF LexerTypeOK
<1>8. CASE LexIncludeFails
  <2>1. PICK name \in IF prevToken.type = "T_STMT" THEN Missing ELSE {prevToken.text} \ File :
          SetIncludeName(name)
    BY <1>8 DEF LexIncludeFails
  <2>2. /\ prevToken' = [type |-> "T_INCLUDE_NAME", text |-> name] /\ prevToken' \in Token
    <3>1. name \in Name \cup Statement \cup {NoText}
      BY <1>0, <2>1 DEF Token, NoToken, Name
    <3> QED
      BY <2>1, <3>1 DEF SetIncludeName, Token, TokenType
  <2>3. tokens' \in Seq(Token) /\ includeLine' = FALSE /\ source' = source /\ phase' = phase
    BY <1>2, <2>1, <2>2 DEF SetIncludeName
  <2>4. input' \in Stream /\ oldStreams' = oldStreams
    BY <1>1, <1>8 DEF LexIncludeFails
  <2> QED
    BY <1>0, <2>2, <2>3, <2>4 DEF LexerTypeOK
<1>9. CASE LexIncludeCrash \/ LexEof
  BY <1>0, <1>9 DEF LexIncludeCrash, LexEof, LexerTypeOK, Phase
<1>10. CASE PopStream
  <2>1. [type |-> "T_EOF", text |-> input.file] \in Token
    BY <1>0 DEF Token, TokenType, Name, Stream
  <2>2. Len(oldStreams) \in Nat \ {0}
    BY <1>0, <1>10, EmptySeq DEF PopStream
  <2>3. Last(oldStreams) \in Stream
    BY <1>0, <2>2, ElementOfSeq DEF Last
  <2>4. Front(oldStreams) \in Seq(Stream)
    <3>1. Len(oldStreams) - 1 \in Int
          /\ \A i \in 1 .. Len(oldStreams) - 1 : oldStreams[i] \in Stream
      BY <1>0, <2>2, ElementOfSeq
    <3> QED
      BY <3>1, SubSeqProperties DEF Front
  <2> QED
    BY <1>0, <1>2, <1>10, <2>1, <2>3, <2>4 DEF PopStream, LexerTypeOK
<1> QED
  BY <1>3, <1>4, <1>5, <1>7, <1>8, <1>9, <1>10 DEF LexerNext

(* A T_EOS the lexer keeps ends a statement.                                *)
LEMMA LexerStep ==
    BufferInv /\ LexerNext /\ UNCHANGED streamVars
        => LexerInv' /\ PrepassInv' /\ EosEndStatements(tokens')
<1> SUFFICES ASSUME BufferInv, LexerNext, UNCHANGED streamVars
             PROVE  LexerInv' /\ PrepassInv' /\ EosEndStatements(tokens')
  OBVIOUS
<1>0. /\ LexerTypeOK /\ tokens \in Seq(Token) /\ EosEndStatements(tokens) /\ phase = "lex"
      /\ p = 1 /\ p' = 1 /\ newTokenList' = newTokenList
  BY DEF BufferInv, LexerTypeOK, LexerInv, LexerNext, LexStatement, LexInclude, LexEos,
     LexIncludeFile, LexIncludeFails, LexIncludeCrash, PopStream, LexEof, Reads, streamVars
<1>1. PrepassInv'
  <2>1. newTokenList \in Seq(Token) /\ EosEndStatements(newTokenList)
    BY DEF BufferInv, PrepassInv
  <2> QED
    BY <1>0, <2>1 DEF PrepassInv
<1>2. \A t \in Token : Len(Append(tokens, t)) + 1 = Len(tokens) + 2
  BY <1>0, LenProperties, AppendProperties
<1>3. CASE LexStatement
  <2>1. /\ NextLexeme \in Token /\ NextLexeme.type = "T_STMT" /\ tokens' = Append(tokens, NextLexeme)
        /\ prevToken' = NextLexeme
    BY <1>0, <1>3, StreamFacts DEF LexStatement, Reads, Lexeme, Token, TokenType
  <2>2. EosEndStatements(tokens') /\ EndsStatement(tokens', Len(tokens') + 1)
    BY <1>0, <1>2, <2>1, EosAppend, EndsAppend
  <2> QED
    BY <1>0, <1>1, <2>1, <2>2 DEF LexerInv
<1>4. CASE LexInclude
  <2> DEFINE t == [type |-> "T_INCLUDE", text |-> NoText]
  <2>1. t \in Token /\ t.type # "T_EOS"
    BY DEF Token, TokenType
  <2>2. tokens' = Append(tokens, t) /\ includeLine' /\ prevToken'.type = "T_CHAR_CONSTANT"
    BY <1>4 DEF LexInclude
  <2> HIDE DEF t
  <2>3. EosEndStatements(tokens')
    BY <1>0, <2>1, <2>2, EosAppend
  <2> QED
    BY <1>0, <1>1, <2>2, <2>3 DEF LexerInv
<1>5. CASE LexEos
  <2>1. Eos \in Token /\ Eos.type = "T_EOS"
    BY DEF Eos, Token, TokenType
  <2>2. /\ ~ includeLine /\ prevToken' = Eos
        /\ tokens' = IF EosHidden THEN tokens ELSE Append(tokens, Eos)
    BY <1>5 DEF LexEos
  <2>3. ~ EosHidden => EndsStatement(tokens, Len(tokens) + 1)
    BY <1>0, <2>2 DEF BufferInv, LexerInv, EosHidden
  <2>4. EosEndStatements(tokens')
    BY <1>0, <2>1, <2>2, <2>3, EosAppend
  <2> QED
    BY <1>0, <1>1, <2>1, <2>2, <2>4 DEF LexerInv
<1>6. CASE LexIncludeFile \/ LexIncludeFails
  <2>1. PICK name : SetIncludeName(name)
    BY <1>6 DEF LexIncludeFile, LexIncludeFails
  <2>2. prevToken' = [type |-> "T_INCLUDE_NAME", text |-> name] /\ tokens' = Append(tokens, prevToken')
    BY <2>1 DEF SetIncludeName
  <2>3. prevToken' \in Token /\ prevToken'.type = "T_INCLUDE_NAME"
    <3>1. LexerTypeOK'
      BY <1>0, LexerTypeStep
    <3> QED
      BY <2>2, <3>1 DEF LexerTypeOK, NoToken
  <2>4. EosEndStatements(tokens')
    BY <1>0, <2>2, <2>3, EosAppend
  <2> QED
    BY <1>0, <1>1, <2>3, <2>4 DEF LexerInv
<1>7. CASE LexIncludeCrash
  BY <1>0, <1>1, <1>7 DEF LexIncludeCrash, BufferInv, LexerInv
<1>8. CASE LexEof
  BY <1>0, <1>1, <1>8 DEF LexEof, BufferInv, LexerInv
<1>9. CASE PopStream
  <2> DEFINE t == [type |-> "T_EOF", text |-> input.file]
  <2>1. t \in Token /\ t.type = "T_EOF"
    BY <1>0, StreamFacts DEF Token, TokenType, Name
  <2>2. tokens' = Append(tokens, t) /\ UNCHANGED <<prevToken, includeLine, phase>>
    BY <1>9 DEF PopStream
  <2> HIDE DEF t
  <2>3. EosEndStatements(tokens')
    BY <1>0, <2>1, <2>2, EosAppend
  <2>4. prevToken.type = "T_STMT" => EndsStatement(tokens', Len(tokens') + 1)
    <3> SUFFICES ASSUME prevToken.type = "T_STMT"
                 PROVE  EndsStatement(tokens', Len(tokens') + 1)
      OBVIOUS
    <3>1. EndsStatement(tokens, Len(tokens) + 1)
      BY <1>0 DEF BufferInv, LexerInv
    <3> QED
      BY <1>0, <1>2, <2>1, <2>2, <3>1, EndsAppend
  <2> QED
    BY <1>0, <1>1, <2>2, <2>3, <2>4 DEF BufferInv, LexerInv
<1> QED
  BY <1>3, <1>4, <1>5, <1>6, <1>7, <1>8, <1>9 DEF LexerNext

(* The next line of the buffer ends with the first T_EOS, or with the buffer.*)
LEMMA LineFacts ==
    ASSUME BufferInv, phase = "prepass", p <= Len(tokens)
    PROVE  /\ packedList \in Seq(Token) /\ EosEndStatements(packedList)
           /\ LineEnd \in p .. Len(tokens)
           /\ LineEnd < Len(tokens) => tokens[LineEnd].type = "T_EOS"
<1> DEFINE ends == {k \in p .. Len(tokens) : tokens[k].type = "T_EOS"}
<1>1. /\ tokens \in Seq(Token) /\ Len(tokens) \in Nat /\ EosEndStatements(tokens)
      /\ p \in Nat \ {0} /\ (p > 1 => tokens[p - 1].type = "T_EOS")
  BY LenProperties DEF BufferInv, LexerTypeOK, PrepassInv
<1>2. LineEnd = IF ends = {} THEN Len(tokens) ELSE Min(ends)
  BY DEF LineEnd
<1>3. ends \in SUBSET Nat
  BY <1>1
<1>4. ends # {} => Min(ends) \in ends
  BY <1>3, MinFacts
<1>5. /\ LineEnd \in p .. Len(tokens)
      /\ LineEnd < Len(tokens) => tokens[LineEnd].type = "T_EOS"
  <2>1. Len(tokens) \in p .. Len(tokens)
    BY <1>1
  <2> QED
    BY <1>1, <1>2, <1>4, <2>1
<1>6. p \in 1 .. Len(tokens)
  BY <1>1
<1> HIDE DEF ends
<1> QED
  BY <1>1, <1>5, <1>6, EosSubSeq DEF packedList

LEMMA PrepassStep ==
    BufferInv /\ StreamNext => LexerTypeOK' /\ LexerInv' /\ PrepassInv' /\ EosEndStatements(tokens')
<1> SUFFICES ASSUME BufferInv, StreamNext
             PROVE  LexerTypeOK' /\ LexerInv' /\ PrepassInv' /\ EosEndStatements(tokens')
  OBVIOUS
<1>0. /\ LexerTypeOK /\ LexerInv /\ PrepassInv /\ EosEndStatements(tokens)
      /\ tokens \in Seq(Token) /\ newTokenList \in Seq(Token) /\ EosEndStatements(newTokenList)
  BY DEF BufferInv, LexerTypeOK, PrepassInv
<1>1. CASE PrepassLine
  <2>1. phase = "prepass" /\ p <= Len(tokens) /\ p' = LineEnd + 1 /\ UNCHANGED lexerVars
        /\ newTokenList' = newTokenList \o Finalized(packedList)
    BY <1>1 DEF PrepassLine
  <2>2. /\ packedList \in Seq(Token) /\ EosEndStatements(packedList)
        /\ LineEnd \in p .. Len(tokens)
        /\ LineEnd < Len(tokens) => tokens[LineEnd].type = "T_EOS"
    BY <2>1, LineFacts
  <2>3. Finalized(packedList) \in Seq(Token) /\ EosEndStatements(Finalized(packedList))
    <3>1. CASE HasType(packedList, lineStart(packedList) + 1, "T_STMT")
      <4> DEFINE a == lineStart(packedList) + 1
      <4>1. a \in 1 .. Len(packedList) /\ packedList[a].type = "T_STMT"
        <5>1. lineStart(packedList) \in Nat
          BY DEF lineStart
        <5> QED
          BY <2>2, <3>1, <5>1, LenProperties DEF HasType
      <4>2. Finalized(packedList) = InsertAt(packedList, a, Mark)
        BY <3>1 DEF Finalized
      <4> HIDE DEF a
      <4> QED
        BY <2>2, <4>1, <4>2, EosInsert
    <3>2. CASE ~ HasType(packedList, lineStart(packedList) + 1, "T_STMT")
      BY <2>2, <3>2 DEF Finalized
    <3> QED
      BY <3>1, <3>2
  <2>4. newTokenList' \in Seq(Token) /\ EosEndStatements(newTokenList')
    <3>1. newTokenList \o Finalized(packedList) \in Seq(Token)
      BY <1>0, <2>3, ConcatProperties
    <3> QED
      BY <1>0, <2>1, <2>3, <3>1, EosConcat
  <2>5. /\ p' \in Nat \ {0}
        /\ p' > 1 /\ p' <= Len(tokens) => tokens[p' - 1].type = "T_EOS"
    <3>1. p \in Nat \ {0} /\ Len(tokens) \in Nat
      BY <1>0, <2>1, LenProperties DEF PrepassInv
    <3>2. p' \in Nat \ {0} /\ p' - 1 = LineEnd /\ (p' <= Len(tokens) => LineEnd < Len(tokens))
      BY <2>1, <2>2, <3>1
    <3> QED
      BY <2>2, <3>2
  <2>6. LexerTypeOK' /\ EosEndStatements(tokens')
    BY <1>0, <2>1 DEF LexerTypeOK, lexerVars
  <2>7. LexerInv'
    BY <1>0, <2>1 DEF LexerInv, lexerVars
  <2>8. PrepassInv'
    BY <2>1, <2>4, <2>5 DEF PrepassInv, lexerVars
  <2> QED
    BY <2>6, <2>7, <2>8
<1>2. CASE PrepassCrash
  BY <1>0, <1>2 DEF PrepassCrash, LexerTypeOK, LexerInv, PrepassInv, Phase
<1>3. CASE PrepassEof
  <2>1. Eof \in Token /\ Eof.type = "EOF"
    BY IncludeAssumption DEF Eof, Token, TokenType, Name
  <2>2. /\ phase' = "parse" /\ tokens' = Append(newTokenList, Eof) /\ newTokenList' = tokens'
        /\ UNCHANGED <<source, input, oldStreams, prevToken, includeLine>>
    BY <1>3 DEF PrepassEof
  <2>3. tokens' \in Seq(Token) /\ EosEndStatements(tokens')
    BY <1>0, <2>1, <2>2, EosAppend, AppendProperties
  <2>4. LexerTypeOK'
    BY <1>0, <2>2, <2>3 DEF LexerTypeOK, Phase
  <2>5. LexerInv' /\ PrepassInv'
    BY <1>0, <2>2, <2>3 DEF LexerInv, PrepassInv
  <2> QED
    BY <2>3, <2>4, <2>5
<1> QED
  BY <1>1, <1>2, <1>3 DEF StreamNext

(* The parser only reads the buffer.                                        *)
LEMMA ParserReads ==
    BufferInv /\ ParserNext =>
        /\ UNCHANGED <<source, input, oldStreams, prevToken, includeLine, tokens, newTokenList>>
        /\ phase = "parse" /\ phase' \in Phase \ {"lex", "prepass"}
<1> SUFFICES ASSUME BufferInv, ParserNext
             PROVE  /\ UNCHANGED <<source, input, oldStreams, prevToken, includeLine, tokens,
                                   newTokenList>>
                    /\ phase = "parse" /\ phase' \in Phase \ {"lex", "prepass"}
  OBVIOUS
<1>1. CASE EnterInclude
  BY <1>1 DEF EnterInclude, Parses, lexerVars, Phase
<1>2. CASE EnterUnreadable
  BY <1>2 DEF EnterUnreadable, Parses, streamVars, Phase
<1>3. CASE LeaveInclude
  BY <1>3 DEF LeaveInclude, Parses, lexerVars, Phase
<1>4. CASE NothingIncluded
  BY <1>4 DEF NothingIncluded, Parses, lexerVars, streamVars, Phase
<1>5. CASE ParseStatement
  BY <1>5 DEF ParseStatement, Parses, lexerVars, Phase
<1>6. CASE SyntaxError
  BY <1>6 DEF SyntaxError, Parses, streamVars, Phase
<1>7. CASE EndOfSource
  BY <1>7 DEF EndOfSource, Parses, streamVars, Phase
<1> QED
  BY <1>1, <1>2, <1>3, <1>4, <1>5, <1>6, <1>7 DEF ParserNext

LEMMA BufferStep == BufferInv /\ [ParseNext]_parseVars => BufferInv'
<1> SUFFICES ASSUME BufferInv, [ParseNext]_parseVars PROVE BufferInv'
  OBVIOUS
<1>1. CASE Lex
  BY <1>1, LexerTypeStep, LexerStep DEF Lex, BufferInv
<1>2. CASE Prepass
  BY <1>2, PrepassStep DEF Prepass, BufferInv
<1>3. CASE ParserNext
  BY <1>3, ParserReads DEF BufferInv, LexerTypeOK, LexerInv, PrepassInv
<1>4. CASE UNCHANGED parseVars
  BY <1>4 DEF parseVars, lexerVars, streamVars, BufferInv, LexerTypeOK, LexerInv, PrepassInv
<1> QED
  BY <1>1, <1>2, <1>3, <1>4 DEF ParseNext

LEMMA BufferInitial == ParseInit => BufferInv
<1> SUFFICES ASSUME ParseInit PROVE BufferInv
  OBVIOUS
<1>1. /\ source \in Sources /\ input = Opened(Main) /\ oldStreams = <<>> /\ prevToken = NoToken
      /\ includeLine = FALSE /\ tokens = <<>> /\ phase = "lex" /\ p = 1 /\ newTokenList = <<>>
  BY DEF ParseInit, LexerInit, StreamInit
<1>2. LexerTypeOK
  <2>1. source \in [File -> Seq(Lexeme)] /\ Opened(Main) \in Stream
    BY <1>1, IncludeAssumption DEF Opened, Stream
  <2>2. <<>> \in Seq(Stream) /\ <<>> \in Seq(Token)
    BY EmptySeq
  <2> QED
    BY <1>1, <2>1, <2>2 DEF LexerTypeOK, Phase
<1>3. EosEndStatements(<<>>)
  BY DEF EosEndStatements
<1> QED
  BY <1>1, <1>2, <1>3 DEF BufferInv, LexerInv, PrepassInv, NoToken

(* Through lexing, prepass and parse the buffer holds tokens, and ends no    *)
(* statement that is not there.                                             *)
THEOREM BufferInvariant == ParseSpec => []BufferInv
BY BufferInitial, BufferStep, PTL DEF ParseSpec

(* Type correctness of the lexer: LexerTypeOK of IncludeLexer.               *)
THEOREM LexerTypes == ParseSpec => []LexerTypeOK
<1>1. BufferInv => LexerTypeOK
  BY DEF BufferInv
<1> QED
  BY <1>1, BufferInvariant, PTL

(* Every T_EOS the parser meets ends a statement, in an included file or     *)
(* behind one: NoBareEos of IncludeLexer.                                   *)
THEOREM EosBehindStatements == ParseSpec => []NoBareEos
<1>1. BufferInv => NoBareEos
  BY DEF BufferInv, EosEndStatements, EndsStatement, NoBareEos
<1> QED
  BY <1>1, BufferInvariant, PTL

-----------------------------------------------------------------------------
(* The files of the streams of the lexer, the one being read last.           *)
OpenStreams == Append([i \in 1 .. Len(oldStreams) |-> oldStreams[i].file], input.file)

(* A token that is no T_EOF and names no file leaves the reader in the file  *)
(* it is in.                                                                *)
LEMMA SameFile ==
    ASSUME NEW s \in Seq(Token), NEW t \in Token, t.type # "T_EOF",
           t.type = "T_INCLUDE_NAME" => t.text \notin File
    PROVE  OpenFiles(Append(s, t)) = OpenFiles(s)
<1>1. OpenFiles(Append(s, t)) = EnterOrLeave(OpenFiles(s), t)
  BY OpenFilesOfAppend
<1> QED
  BY <1>1 DEF EnterOrLeave

LEMMA LastAppend ==
    ASSUME NEW s \in Seq(Token), NEW t \in Token
    PROVE  Last(Append(s, t)) = t /\ Front(Append(s, t)) = s
<1>1. /\ Len(s) \in Nat /\ Append(s, t) \in Seq(Token) /\ Len(Append(s, t)) = Len(s) + 1
      /\ Append(s, t)[Len(s) + 1] = t /\ \A i \in 1 .. Len(s) : Append(s, t)[i] = s[i]
      /\ \A i \in 1 .. Len(s) : s[i] \in Token
  BY LenProperties, AppendProperties, ElementOfSeq
<1> DEFINE all == Append(s, t)
           n == Len(s)
<1>2. n \in Nat /\ Len(all) = n + 1 /\ all[n + 1] = t /\ (\A i \in 1 .. n : all[i] = s[i])
      /\ \A i \in 1 .. n : all[i] \in Token
  BY <1>1
<1> HIDE DEF all, n
<1>3. /\ SubSeq(all, 1, n) \in Seq(Token) /\ Len(SubSeq(all, 1, n)) = IF 1 <= n THEN n - 1 + 1 ELSE 0
      /\ \A i \in 1 .. n - 1 + 1 : SubSeq(all, 1, n)[i] = all[1 + i - 1]
  BY <1>2, SubSeqProperties
<1>4. Len(SubSeq(all, 1, n)) = n /\ \A i \in 1 .. n : SubSeq(all, 1, n)[i] = s[i]
  BY <1>2, <1>3
<1>5. SubSeq(all, 1, n) = s
  BY <1>3, <1>4, SeqEqual DEF n
<1>6. Front(all) = s
  BY <1>2, <1>5 DEF Front
<1> QED
  BY <1>2, <1>6 DEF Last, all

(* The last of them is the one being read.                                  *)
LEMMA LastOpen ==
    ASSUME LexerTypeOK
    PROVE  Last(OpenStreams) = input.file
<1> DEFINE n == Len(oldStreams)
           files == [i \in 1 .. n |-> oldStreams[i].file]
<1>1. n \in Nat /\ input.file \in File /\ \A i \in 1 .. n : oldStreams[i] \in Stream
  BY StreamFacts, LenProperties, ElementOfSeq DEF LexerTypeOK
<1>2. \A i \in 1 .. n : oldStreams[i].file \in File
  BY <1>1 DEF Stream
<1>3. files \in Seq(File)
  BY <1>1, <1>2, IsASeq
<1> HIDE DEF files
<1>4. Last(Append(files, input.file)) = input.file
  BY <1>1, <1>3, LenProperties, AppendProperties DEF Last
<1> QED
  BY <1>4 DEF OpenStreams, files

(* A push of the lexer's stream and the opening of a file.                   *)
LEMMA OpenStreamsPush ==
    ASSUME LexerTypeOK, NEW f \in File,
           oldStreams' = Append(oldStreams, Consumed), input' = Opened(f)
    PROVE  OpenStreams' = Append(OpenStreams, f)
<1> DEFINE n == Len(oldStreams)
           files == [i \in 1 .. n |-> oldStreams[i].file]
           new == [i \in 1 .. Len(oldStreams') |-> oldStreams'[i].file]
<1>1. /\ oldStreams \in Seq(Stream) /\ n \in Nat /\ Consumed \in Stream
      /\ Consumed.file = input.file /\ input.file \in File /\ Opened(f).file = f
  BY StreamFacts, LenProperties DEF LexerTypeOK
<1>2. /\ Len(oldStreams') = n + 1 /\ oldStreams'[n + 1] = Consumed
      /\ \A i \in 1 .. n : oldStreams'[i] = oldStreams[i]
  BY <1>1, AppendProperties
<1>3. \A i \in 1 .. n : oldStreams[i].file \in File
  <2>1. \A i \in 1 .. n : oldStreams[i] \in Stream
    BY <1>1, ElementOfSeq
  <2> QED
    BY <2>1 DEF Stream
<1>4. files \in Seq(File) /\ Len(files) = n /\ \A i \in 1 .. n : files[i] = oldStreams[i].file
  BY <1>1, <1>3, IsASeq
<1> HIDE DEF files, n
<1>5. /\ Append(files, input.file) \in Seq(File) /\ Len(Append(files, input.file)) = n + 1
      /\ \A i \in 1 .. n : Append(files, input.file)[i] = files[i]
      /\ Append(files, input.file)[n + 1] = input.file
  BY <1>1, <1>4, AppendProperties
<1>6. new = [i \in 1 .. n + 1 |-> oldStreams'[i].file]
  BY <1>2
<1>7. new = Append(files, input.file)
  <2>1. \A i \in 1 .. n + 1 : i \in 1 .. n \/ i = n + 1
    BY <1>1
  <2>2. \A i \in 1 .. n + 1 : oldStreams'[i].file = Append(files, input.file)[i]
    BY <1>1, <1>2, <1>4, <1>5, <2>1
  <2>3. \A i \in 1 .. n + 1 : oldStreams'[i].file \in File
    BY <1>1, <1>2, <1>3, <2>1 DEF Stream
  <2>4. n + 1 \in Nat
    BY <1>1
  <2> DEFINE m == n + 1
             e(i) == oldStreams'[i].file
  <2>5. m \in Nat /\ \A i \in 1 .. m : e(i) \in File
    BY <2>3, <2>4
  <2> HIDE DEF m, e
  <2>6. /\ [i \in 1 .. m |-> e(i)] \in Seq(File) /\ Len([i \in 1 .. m |-> e(i)]) = m
        /\ \A i \in 1 .. m : [j \in 1 .. m |-> e(j)][i] = e(i)
    BY <2>5, IsASeq
  <2>7. new = [i \in 1 .. m |-> e(i)]
    BY <1>6 DEF m, e
  <2>8. new \in Seq(File) /\ Len(new) = n + 1 /\ \A i \in 1 .. n + 1 : new[i] = oldStreams'[i].file
    BY <2>6, <2>7 DEF m, e
  <2> HIDE DEF new
  <2> QED
    BY <1>5, <2>2, <2>8, SeqEqual
<1>8. OpenStreams' = Append(new, f)
  BY <1>1 DEF OpenStreams
<1> QED
  BY <1>7, <1>8 DEF OpenStreams, files, n

(* And back.                                                                *)
LEMMA OpenStreamsPop ==
    ASSUME LexerTypeOK, oldStreams # <<>>,
           input' = Last(oldStreams), oldStreams' = Front(oldStreams)
    PROVE  OpenStreams' = Front(OpenStreams)
<1> DEFINE n == Len(oldStreams)
           m == n - 1
           files == [i \in 1 .. n |-> oldStreams[i].file]
           new == [i \in 1 .. m |-> oldStreams[i].file]
<1>1. /\ oldStreams \in Seq(Stream) /\ n \in Nat /\ m \in Nat /\ n = m + 1 /\ input.file \in File
      /\ \A i \in 1 .. n : oldStreams[i] \in Stream
  BY StreamFacts, LenProperties, EmptySeq, ElementOfSeq DEF LexerTypeOK
<1>2. \A i \in 1 .. n : oldStreams[i].file \in File
  BY <1>1 DEF Stream
<1>3. files \in Seq(File) /\ Len(files) = n /\ \A i \in 1 .. n : files[i] = oldStreams[i].file
  BY <1>1, <1>2, IsASeq
<1>4. oldStreams' = SubSeq(oldStreams, 1, m) /\ input' = oldStreams[n]
  BY DEF Front, Last
<1> HIDE DEF m
<1>5. Len(oldStreams') = m /\ \A i \in 1 .. m : oldStreams'[i] = oldStreams[i]
  <2>1. m \in Int /\ \A i \in 1 .. m : oldStreams[i] \in Stream
    BY <1>1
  <2>2. /\ Len(oldStreams') = IF 1 <= m THEN m - 1 + 1 ELSE 0
        /\ \A i \in 1 .. m - 1 + 1 : oldStreams'[i] = oldStreams[1 + i - 1]
    BY <1>4, <2>1, SubSeqProperties
  <2> QED
    BY <1>1, <2>2
<1>6. \A i \in 1 .. m : i \in 1 .. n
  BY <1>1
<1>7. new \in Seq(File) /\ Len(new) = m /\ \A i \in 1 .. m : new[i] = oldStreams[i].file
  BY <1>1, <1>2, <1>6, IsASeq
<1>8. OpenStreams' = Append(new, oldStreams[n].file)
  <2>1. OpenStreams' = Append([i \in 1 .. m |-> oldStreams'[i].file], oldStreams[n].file)
    BY <1>4, <1>5 DEF OpenStreams
  <2>2. [i \in 1 .. m |-> oldStreams'[i].file] = new
    BY <1>5
  <2> HIDE DEF new
  <2> QED
    BY <2>1, <2>2
<1> HIDE DEF new, files, n
<1>9. n \in 1 .. n
  BY <1>1
<1>10. /\ Append(new, oldStreams[n].file) \in Seq(File)
       /\ Len(Append(new, oldStreams[n].file)) = m + 1
       /\ \A i \in 1 .. m : Append(new, oldStreams[n].file)[i] = new[i]
       /\ Append(new, oldStreams[n].file)[m + 1] = oldStreams[n].file
  BY <1>2, <1>7, <1>9, AppendProperties
<1>11. Append(new, oldStreams[n].file) = files
  <2>1. \A i \in 1 .. n : i \in 1 .. m \/ i = m + 1
    BY <1>1
  <2>2. \A i \in 1 .. n : Append(new, oldStreams[n].file)[i] = files[i]
    BY <1>1, <1>3, <1>7, <1>10, <2>1
  <2> QED
    BY <1>1, <1>3, <1>10, <2>2, SeqEqual
<1>12. Front(Append(files, input.file)) = files
  <2>1. /\ Len(Append(files, input.file)) = n + 1 /\ Append(files, input.file) \in Seq(File)
        /\ \A i \in 1 .. n : Append(files, input.file)[i] = files[i]
    BY <1>1, <1>3, AppendProperties
  <2> DEFINE all == Append(files, input.file)
  <2> HIDE DEF all
  <2>2. \A i \in 1 .. n : all[i] \in File
    BY <1>2, <1>3, <2>1 DEF all
  <2>3. /\ SubSeq(all, 1, n) \in Seq(File)
        /\ Len(SubSeq(all, 1, n)) = IF 1 <= n THEN n - 1 + 1 ELSE 0
        /\ \A i \in 1 .. n - 1 + 1 : SubSeq(all, 1, n)[i] = all[1 + i - 1]
    BY <1>1, <2>2, SubSeqProperties
  <2>4. Len(SubSeq(all, 1, n)) = n /\ \A i \in 1 .. n : SubSeq(all, 1, n)[i] = files[i]
    BY <1>1, <2>1, <2>3 DEF all
  <2>5. SubSeq(all, 1, n) = files
    BY <1>3, <2>3, <2>4, SeqEqual
  <2> QED
    BY <1>1, <2>1, <2>5 DEF Front, all
<1> QED
  BY <1>8, <1>11, <1>12 DEF OpenStreams, files, n

(* A token that neither enters nor leaves a file, in the file being read.    *)
LEMMA StaysInFile ==
    ASSUME LexerTypeOK, TokensFollowStreams, phase = "lex", NEW t \in Token, t.type # "T_EOF",
           t.type = "T_INCLUDE_NAME" => t.text \notin File,
           tokens' = Append(tokens, t), oldStreams' = oldStreams, input'.file = input.file
    PROVE  TokensFollowStreams'
<1>1. tokens \in Seq(Token) /\ OpenFiles(tokens) = OpenStreams
  BY DEF LexerTypeOK, TokensFollowStreams, OpenStreams
<1>2. OpenStreams' = OpenStreams
  BY DEF OpenStreams
<1>3. OpenFiles(tokens') = OpenStreams'
  BY <1>1, <1>2, SameFile
<1>4. Last(tokens') = t
  BY <1>1, LastAppend
<1> QED
  BY <1>3, <1>4 DEF TokensFollowStreams, OpenStreams

LEMMA FollowStep ==
    BufferInv /\ TokensFollowStreams /\ [ParseNext]_parseVars => TokensFollowStreams'
<1> SUFFICES ASSUME BufferInv, TokensFollowStreams, [ParseNext]_parseVars
             PROVE  TokensFollowStreams'
  OBVIOUS
<1>0. LexerTypeOK /\ tokens \in Seq(Token) /\ Consumed.file = input.file
  BY StreamFacts DEF BufferInv, LexerTypeOK
<1>1. CASE UNCHANGED <<oldStreams, input, tokens>> /\ phase \in {"lex", "prepass"}
  BY <1>1 DEF TokensFollowStreams
<1>2. CASE LexerNext
  <2>0. phase = "lex" /\ OpenFiles(tokens) = OpenStreams
    BY <1>2 DEF LexerNext, LexStatement, LexInclude, LexEos, LexIncludeFile, LexIncludeFails,
       LexIncludeCrash, PopStream, LexEof, Reads, TokensFollowStreams, OpenStreams
  <2>1. CASE LexStatement
    <3>1. NextLexeme \in Token /\ NextLexeme.type = "T_STMT"
      BY <1>0, <2>1, StreamFacts DEF LexStatement, Reads, Lexeme, Token, TokenType
    <3>2. tokens' = Append(tokens, NextLexeme) /\ oldStreams' = oldStreams /\ input' = Consumed
      BY <2>1 DEF LexStatement
    <3> QED
      BY <1>0, <2>0, <3>1, <3>2, StaysInFile
  <2>2. CASE LexInclude
    <3> DEFINE t == [type |-> "T_INCLUDE", text |-> NoText]
    <3>1. t \in Token /\ t.type = "T_INCLUDE"
      BY DEF Token, TokenType
    <3>2. tokens' = Append(tokens, t) /\ oldStreams' = oldStreams /\ input' = Consumed
      BY <2>2 DEF LexInclude
    <3> HIDE DEF t
    <3> QED
      BY <1>0, <2>0, <3>1, <3>2, StaysInFile
  <2>3. CASE LexEos
    <3>1. Eos \in Token /\ Eos.type = "T_EOS"
      BY DEF Eos, Token, TokenType
    <3>2. oldStreams' = oldStreams /\ input' = Consumed
          /\ (tokens' = tokens \/ tokens' = Append(tokens, Eos))
      BY <2>3 DEF LexEos
    <3>3. CASE tokens' = Append(tokens, Eos)
      BY <1>0, <2>0, <3>1, <3>2, <3>3, StaysInFile
    <3>4. CASE tokens' = tokens
      <4>1. OpenStreams' = OpenStreams
        BY <1>0, <3>2 DEF OpenStreams
      <4> QED
        BY <2>0, <3>4, <4>1 DEF TokensFollowStreams, OpenStreams
    <3> QED
      BY <3>2, <3>3, <3>4
  <2>4. CASE LexIncludeFile
    <3> DEFINE name == prevToken.text
               t == [type |-> "T_INCLUDE_NAME", text |-> name]
    <3>1. name \in File /\ t \in Token /\ t.type = "T_INCLUDE_NAME" /\ t.text = name
      BY <2>4 DEF LexIncludeFile, Token, TokenType, Name
    <3>2. /\ oldStreams' = Append(oldStreams, Consumed) /\ input' = Opened(name)
          /\ tokens' = Append(tokens, t)
      BY <2>4 DEF LexIncludeFile, PushStream, SetIncludeName
    <3> HIDE DEF t, name
    <3>3. OpenStreams' = Append(OpenStreams, name)
      BY <1>0, <3>1, <3>2, OpenStreamsPush
    <3>4. OpenFiles(tokens') = Append(OpenStreams, name)
      BY <1>0, <2>0, <3>1, <3>2, OpenFilesOfAppend DEF EnterOrLeave
    <3>5. Last(tokens') = t
      BY <1>0, <3>1, <3>2, LastAppend
    <3> QED
      BY <3>1, <3>3, <3>4, <3>5 DEF TokensFollowStreams, OpenStreams
  <2>5. CASE LexIncludeFails
    <3>1. PICK name \in IF prevToken.type = "T_STMT" THEN Missing ELSE {prevToken.text} \ File :
            SetIncludeName(name)
      BY <2>5 DEF LexIncludeFails
    <3> DEFINE t == [type |-> "T_INCLUDE_NAME", text |-> name]
    <3>2. name \notin File
      BY <3>1, IncludeAssumption
    <3>3. t \in Token
      <4>1. name \in Name \cup Statement \cup {NoText}
        BY <1>0, <3>1 DEF LexerTypeOK, Token, NoToken, Name
      <4> QED
        BY <4>1 DEF Token, TokenType
    <3>4. t.type = "T_INCLUDE_NAME" /\ t.text = name
      OBVIOUS
    <3>5. tokens' = Append(tokens, t) /\ oldStreams' = oldStreams /\ input' = Consumed
      BY <2>5, <3>1 DEF LexIncludeFails, SetIncludeName
    <3> HIDE DEF t
    <3> QED
      BY <1>0, <2>0, <3>2, <3>3, <3>4, <3>5, StaysInFile
  <2>6. CASE LexIncludeCrash \/ LexEof
    BY <1>1, <2>0, <2>6 DEF LexIncludeCrash, LexEof
  <2>7. CASE PopStream
    <3> DEFINE t == [type |-> "T_EOF", text |-> input.file]
    <3>1. t \in Token /\ t.type = "T_EOF" /\ t.text = input.file
      BY <1>0, StreamFacts DEF Token, TokenType, Name
    <3>2. /\ oldStreams # <<>> /\ tokens' = Append(tokens, t)
          /\ input' = Last(oldStreams) /\ oldStreams' = Front(oldStreams)
      BY <2>7 DEF PopStream
    <3> HIDE DEF t
    <3>3. OpenFiles(tokens') = Front(OpenStreams)
      BY <1>0, <2>0, <3>1, <3>2, OpenFilesOfAppend DEF EnterOrLeave
    <3>4. OpenStreams' = Front(OpenStreams)
      BY <1>0, <3>2, OpenStreamsPop
    <3>5. Last(tokens') = t /\ Front(tokens') = tokens
      BY <1>0, <3>1, <3>2, LastAppend
    <3>6. Last(OpenStreams) = input.file
      BY <1>0, LastOpen
    <3> QED
      BY <2>0, <3>1, <3>3, <3>4, <3>5, <3>6 DEF TokensFollowStreams, OpenStreams
  <2> QED
    BY <1>2, <2>1, <2>2, <2>3, <2>4, <2>5, <2>6, <2>7 DEF LexerNext
<1>3. CASE Prepass
  <2>1. CASE PrepassLine \/ PrepassCrash
    BY <1>1, <2>1 DEF PrepassLine, PrepassCrash, lexerVars
  <2>2. CASE PrepassEof
    BY <2>2 DEF PrepassEof, TokensFollowStreams
  <2> QED
    BY <1>3, <2>1, <2>2 DEF Prepass, StreamNext
<1>4. CASE ParserNext
  BY <1>4, ParserReads DEF TokensFollowStreams
<1>5. CASE UNCHANGED parseVars
  BY <1>5 DEF parseVars, lexerVars, TokensFollowStreams
<1> QED
  BY <1>2, <1>3, <1>4, <1>5 DEF ParseNext, Lex

(* The include tokens alone tell the parser, and so the action class, which  *)
(* file it is in: TokensFollowStreams of IncludeLexer.                      *)
THEOREM TokensTellTheFile == ParseSpec => []TokensFollowStreams
<1>1. ParseInit => TokensFollowStreams
  <2> SUFFICES ASSUME ParseInit PROVE TokensFollowStreams
    OBVIOUS
  <2>1. oldStreams = <<>> /\ input = Opened(Main) /\ tokens = <<>>
    BY DEF ParseInit, LexerInit
  <2>2. input.file = Main /\ Len(oldStreams) = 0
    BY <2>1 DEF Opened
  <2>3. PICK f : Folds(f, <<>>, Len(<<>>)) /\ OpenFiles(<<>>) = f[1 .. Len(<<>>)]
    BY OpenFilesFolds, EmptySeq
  <2>4. Folds(f, <<>>, 0) /\ OpenFiles(<<>>) = f[1 .. 0]
    BY <2>3, EmptySeq
  <2>5. OpenFiles(<<>>) = <<Main>>
    BY <2>4, FoldSteps
  <2>6. Append([i \in 1 .. Len(oldStreams) |-> oldStreams[i].file], input.file) = <<Main>>
    <3>1. [i \in 1 .. Len(oldStreams) |-> oldStreams[i].file] = <<>>
      BY <2>2
    <3> QED
      BY <2>2, <3>1
  <2> QED
    BY <2>1, <2>5, <2>6 DEF TokensFollowStreams
<1> QED
  BY <1>1, FollowStep, BufferInvariant, PTL DEF ParseSpec

-----------------------------------------------------------------------------
(* What the action class is told: sequences of calls.                        *)
Calls == Seq([action : {"start_of_file", "end_of_file", "stmt"},
              text : Name \cup Statement \cup {NoText}])

LEMMA OneCall ==
    ASSUME NEW a \in {"start_of_file", "end_of_file", "stmt"},
           NEW x \in Name \cup Statement \cup {NoText}
    PROVE  <<Call(a, x)>> \in Calls
BY DEF Calls, Call

LEMMA CallsConcat ==
    ASSUME NEW s \in Calls, NEW t \in Calls
    PROVE  /\ s \o t \in Calls /\ s \o <<>> = s /\ <<>> \o s = s /\ <<>> \in Calls
<1>1. s \o t \in Calls /\ <<>> \in Calls
  BY ConcatProperties, EmptySeq DEF Calls
<1>2. s \o <<>> = s /\ <<>> \o s = s
  BY ConcatEmptySeq DEF Calls
<1> QED
  BY <1>1, <1>2

LEMMA CallsAssociate ==
    ASSUME NEW s \in Calls, NEW t \in Calls, NEW u \in Calls
    PROVE  (s \o t) \o u = s \o (t \o u)
BY ConcatAssociative DEF Calls

LEMMA CallsAppend ==
    ASSUME NEW s \in Calls, NEW a \in {"start_of_file", "end_of_file", "stmt"},
           NEW x \in Name \cup Statement \cup {NoText}
    PROVE  Append(s, Call(a, x)) = s \o <<Call(a, x)>> /\ Append(s, Call(a, x)) \in Calls
<1>1. Call(a, x) \in [action : {"start_of_file", "end_of_file", "stmt"},
                      text : Name \cup Statement \cup {NoText}]
  BY DEF Call
<1> QED
  BY <1>1, AppendIsConcat, AppendProperties DEF Calls

(* What was told first is a prefix of what is told with more behind it.      *)
LEMMA ConcatPrefix ==
    ASSUME NEW s \in Calls, NEW t \in Calls
    PROVE  IsPrefix(s, s \o t)
<1> DEFINE Each == [action : {"start_of_file", "end_of_file", "stmt"},
                    text : Name \cup Statement \cup {NoText}]
           all == s \o t
           n == Len(s)
<1>1. /\ s \in Seq(Each) /\ all \in Seq(Each) /\ n \in Nat /\ Len(t) \in Nat
      /\ Len(all) = n + Len(t) /\ \A i \in 1 .. n + Len(t) : i <= n => all[i] = s[i]
  BY ConcatProperties, LenProperties DEF Calls
<1> HIDE DEF all, Each
<1>2. \A i \in 1 .. n : all[i] = s[i] /\ all[i] \in Each
  <2>1. \A i \in 1 .. n : i \in 1 .. n + Len(t) /\ i <= n
    BY <1>1
  <2>2. \A i \in 1 .. n : s[i] \in Each
    BY <1>1, ElementOfSeq
  <2> QED
    BY <1>1, <2>1, <2>2
<1> HIDE DEF n
<1>3. /\ SubSeq(all, 1, n) \in Seq(Each) /\ Len(SubSeq(all, 1, n)) = IF 1 <= n THEN n - 1 + 1 ELSE 0
      /\ \A i \in 1 .. n - 1 + 1 : SubSeq(all, 1, n)[i] = all[1 + i - 1]
  BY <1>1, <1>2, SubSeqProperties
<1>4. Len(SubSeq(all, 1, n)) = n /\ \A i \in 1 .. n : SubSeq(all, 1, n)[i] = s[i]
  BY <1>1, <1>2, <1>3
<1>5. SubSeq(all, 1, n) = s
  BY <1>1, <1>3, <1>4, SeqEqual DEF n
<1>6. SubSeq(s, 1, Len(s)) = s
  BY <1>1, SubSeqFull
<1>7. Len(s) <= Len(all)
  BY <1>1 DEF n
<1> QED
  BY <1>5, <1>6, <1>7 DEF IsPrefix, all, n

(* What the parser calls for a token.                                        *)
Hearing(tk) ==
    IF tk.type = "T_INCLUDE_NAME" THEN <<Call("start_of_file", tk.text)>>
    ELSE IF tk.type = "T_EOF" THEN <<Call("end_of_file", tk.text)>>
    ELSE IF tk.type = "T_STMT" THEN <<Call("stmt", tk.text)>>
    ELSE <<>>

LEMMA HearingType ==
    ASSUME NEW t \in Token
    PROVE  Hearing(t) \in Calls
<1>1. t.text \in Name \cup Statement \cup {NoText}
  BY DEF Token
<1>2. <<>> \in Calls
  BY EmptySeq DEF Calls
<1> QED
  BY <1>1, <1>2, OneCall DEF Hearing

(* ... and for the first tokens of a sequence: h[k] for k of them.          *)
Hears(h, s) ==
    h = [k \in 0 .. Len(s) |-> IF k = 0 THEN <<>> ELSE h[k - 1] \o Hearing(s[k])]

Heard(s) == (CHOOSE h : Hears(h, s))[Len(s)]

LEMMA HeardRecursion ==
    ASSUME NEW s \in Seq(Token)
    PROVE  \E h : Hears(h, s) /\ Heard(s) = h[Len(s)] /\ \A k \in 0 .. Len(s) : h[k] \in Calls
<1> DEFINE next == [k \in Nat |-> [c \in Calls |->
                      IF k \in 1 .. Len(s) THEN c \o Hearing(s[k]) ELSE c]]
<1>1. next \in [Nat -> [Calls -> Calls]]
  <2> SUFFICES ASSUME NEW k \in Nat, NEW c \in Calls, k \in 1 .. Len(s)
               PROVE  c \o Hearing(s[k]) \in Calls
    OBVIOUS
  <2>1. Hearing(s[k]) \in Calls
    BY ElementOfSeq, HearingType
  <2> QED
    BY <2>1, CallsConcat
<1>2. Len(s) \in Nat /\ <<>> \in Calls
  BY LenProperties, EmptySeq DEF Calls
<1>3. PICK f : Recursion(f, <<>>, next, Len(s)) /\ \A k \in 0 .. Len(s) : f[k] \in Calls
  <2> HIDE DEF next
  <2> QED
    BY <1>1, <1>2, RecursionExists
<1>4. Hears(f, s)
  <2>1. ASSUME NEW k \in 0 .. Len(s), k # 0
        PROVE  next[k][f[k - 1]] = f[k - 1] \o Hearing(s[k])
    <3>1. k \in 1 .. Len(s) /\ k \in Nat /\ k - 1 \in 0 .. Len(s)
      BY <1>2, <2>1
    <3>2. f[k - 1] \in Calls
      BY <1>3, <3>1
    <3> QED
      BY <3>1, <3>2
  <2> HIDE DEF next
  <2> QED
    BY <1>3, <2>1 DEF Hears, Recursion
<1> DEFINE h == CHOOSE h : Hears(h, s)
<1>5. Hears(h, s)
  BY <1>4
<1>6. Heard(s) = h[Len(s)]
  BY DEF Heard
<1> HIDE DEF h
<1>7. \A k \in 0 .. Len(s) : h[k] \in Calls
  <2> DEFINE Good == {k \in Nat : k <= Len(s) => h[k] \in Calls}
  <2>1. 0 \in Good
    <3>1. 0 \in 0 .. Len(s)
      BY <1>2
    <3>2. h[0] = <<>>
      BY <1>5, <3>1 DEF Hears
    <3> QED
      BY <1>2, <3>2
  <2>2. ASSUME NEW k \in Nat, k \in Good PROVE k + 1 \in Good
    <3> SUFFICES ASSUME k + 1 <= Len(s) PROVE h[k + 1] \in Calls
      OBVIOUS
    <3> DEFINE m == k + 1
    <3>1. m \in 0 .. Len(s) /\ m # 0 /\ m - 1 = k /\ m \in 1 .. Len(s) /\ k <= Len(s)
      BY <1>2
    <3> HIDE DEF m
    <3>2. h[m] = h[k] \o Hearing(s[m])
      BY <1>5, <3>1 DEF Hears
    <3>3. h[k] \in Calls /\ Hearing(s[m]) \in Calls
      BY <2>2, <3>1, ElementOfSeq, HearingType
    <3>4. h[m] \in Calls
      BY <3>2, <3>3, CallsConcat
    <3> QED
      BY <3>4 DEF m
  <2> HIDE DEF Good
  <2>3. Nat \subseteq Good
    BY <2>1, <2>2, SetInduction
  <2> QED
    BY <1>2, <2>3 DEF Good
<1> QED
  BY <1>5, <1>6, <1>7

LEMMA HeardType ==
    ASSUME NEW s \in Seq(Token)
    PROVE  Heard(s) \in Calls
<1>1. Len(s) \in 0 .. Len(s)
  BY LenProperties
<1> QED
  BY <1>1, HeardRecursion

LEMMA HeardEmpty == Heard(<<>>) = <<>>
<1>1. <<>> \in Seq(Token) /\ Len(<<>>) = 0
  BY EmptySeq
<1>2. PICK h : Hears(h, <<>>) /\ Heard(<<>>) = h[0]
  BY <1>1, HeardRecursion
<1>3. 0 \in 0 .. Len(<<>>)
  BY <1>1
<1> QED
  BY <1>2, <1>3 DEF Hears

(* What is heard of more tokens is heard behind what was heard.             *)
LEMMA HeardConcat ==
    ASSUME NEW s \in Seq(Token), NEW t \in Seq(Token)
    PROVE  Heard(s \o t) = Heard(s) \o Heard(t)
<1> DEFINE all == s \o t
           n == Len(s)
           m == Len(t)
<1>1. /\ n \in Nat /\ m \in Nat /\ all \in Seq(Token) /\ Len(all) = n + m
      /\ \A i \in 1 .. n + m : all[i] = IF i <= n THEN s[i] ELSE t[i - n]
  BY LenProperties, ConcatProperties
<1>2. PICK f : Hears(f, s) /\ Heard(s) = f[n] /\ \A k \in 0 .. n : f[k] \in Calls
  BY HeardRecursion
<1>3. PICK g : Hears(g, t) /\ Heard(t) = g[m] /\ \A k \in 0 .. m : g[k] \in Calls
  BY HeardRecursion
<1> HIDE DEF all
<1>4. PICK h : Hears(h, all) /\ Heard(all) = h[n + m]
  BY <1>1, HeardRecursion
<1> DEFINE First == {k \in Nat : k <= n => h[k] = f[k]}
<1>5. 0 \in First
  <2>1. 0 \in 0 .. n /\ 0 \in 0 .. Len(all)
    BY <1>1
  <2> QED
    BY <1>2, <1>4, <2>1 DEF Hears
<1>6. ASSUME NEW k \in Nat, k \in First PROVE k + 1 \in First
  <2> SUFFICES ASSUME k + 1 <= n PROVE h[k + 1] = f[k + 1]
    OBVIOUS
  <2> DEFINE j == k + 1
  <2>1. /\ j \in 0 .. n /\ j \in 0 .. Len(all) /\ j # 0 /\ j - 1 = k /\ k <= n
        /\ j \in 1 .. n + m /\ j <= n
    BY <1>1
  <2> HIDE DEF j
  <2>2. h[j] = h[k] \o Hearing(all[j])
    BY <1>4, <2>1 DEF Hears
  <2>3. f[j] = f[k] \o Hearing(s[j])
    BY <1>2, <2>1 DEF Hears
  <2>4. all[j] = s[j] /\ h[k] = f[k]
    BY <1>1, <1>6, <2>1
  <2> QED
    BY <2>2, <2>3, <2>4 DEF j
<1>7. h[n] = f[n]
  <2> HIDE DEF First
  <2>1. n \in First
    BY <1>1, <1>5, <1>6, SetInduction
  <2> QED
    BY <1>1, <2>1 DEF First
<1> HIDE DEF n, m
<1> DEFINE both(k) == f[n] \o g[k]
           Second == {k \in Nat : k <= m => h[n + k] = both(k)}
<1>8. 0 \in Second
  <2>1. 0 \in 0 .. m /\ n + 0 = n /\ n \in 0 .. n
    BY <1>1
  <2>2. g[0] = <<>>
    BY <1>3, <2>1 DEF Hears, m
  <2>3. f[n] \o <<>> = f[n]
    BY <1>2, <2>1, CallsConcat
  <2> QED
    BY <1>7, <2>1, <2>2, <2>3
<1>9. ASSUME NEW k \in Nat, k \in Second PROVE k + 1 \in Second
  <2> HIDE DEF both
  <2> SUFFICES ASSUME k + 1 <= m PROVE h[n + (k + 1)] = both(k + 1)
    OBVIOUS
  <2> DEFINE j == n + (k + 1)
             i == k + 1
             y == t[i]
  <2>1. /\ j \in 0 .. Len(all) /\ j # 0 /\ j - 1 = n + k /\ k <= m /\ j - n = i
        /\ j \in 1 .. n + m /\ ~ (j <= n) /\ i \in 0 .. m /\ i # 0 /\ i - 1 = k
        /\ i \in 1 .. m /\ k \in 0 .. m /\ n \in 0 .. n
    BY <1>1
  <2> HIDE DEF j, i
  <2>2. h[j] = h[n + k] \o Hearing(all[j])
    BY <1>4, <2>1 DEF Hears
  <2>3. g[i] = g[k] \o Hearing(y)
    BY <1>3, <2>1 DEF Hears, m
  <2>4. all[j] = y /\ h[n + k] = both(k)
    <3> HIDE DEF both
    <3> QED
      BY <1>1, <1>9, <2>1
  <2>5. f[n] \in Calls /\ g[k] \in Calls /\ Hearing(y) \in Calls
    BY <1>2, <1>3, <2>1, ElementOfSeq, HearingType DEF n, m
  <2>6. (f[n] \o g[k]) \o Hearing(y) = f[n] \o (g[k] \o Hearing(y))
    <3> DEFINE a == f[n]
               b == g[k]
               c == Hearing(y)
    <3>1. a \in Calls /\ b \in Calls /\ c \in Calls
      BY <2>5
    <3> HIDE DEF a, b, c
    <3>2. (a \o b) \o c = a \o (b \o c)
      BY <3>1, CallsAssociate
    <3> QED
      BY <3>2 DEF a, b, c
  <2> QED
    BY <2>2, <2>3, <2>4, <2>6 DEF j, i, both
<1>10. h[n + m] = f[n] \o g[m]
  <2> HIDE DEF Second, both
  <2>1. m \in Second
    BY <1>1, <1>8, <1>9, SetInduction
  <2>2. h[n + m] = both(m)
    BY <1>1, <2>1 DEF Second
  <2> QED
    BY <2>2 DEF both
<1> QED
  BY <1>2, <1>3, <1>4, <1>10 DEF all, n, m

LEMMA HeardOne ==
    ASSUME NEW t \in Token
    PROVE  Heard(<<t>>) = Hearing(t)
<1> DEFINE s == <<t>>
<1>1. s \in Seq(Token) /\ Len(s) = 1 /\ s[1] = t
  OBVIOUS
<1> HIDE DEF s
<1>2. PICK h : Hears(h, s) /\ Heard(s) = h[1]
  BY <1>1, HeardRecursion
<1>3. 0 \in 0 .. Len(s) /\ 1 \in 0 .. Len(s) /\ 1 # 0 /\ 1 - 1 = 0
  BY <1>1
<1>4. h[0] = <<>> /\ h[1] = h[0] \o Hearing(t)
  BY <1>1, <1>2, <1>3 DEF Hears
<1>5. <<>> \o Hearing(t) = Hearing(t)
  BY HearingType, CallsConcat
<1> QED
  BY <1>2, <1>4, <1>5 DEF s

LEMMA HeardAppend ==
    ASSUME NEW s \in Seq(Token), NEW t \in Token
    PROVE  Heard(Append(s, t)) = Heard(s) \o Hearing(t)
<1>1. Append(s, t) = s \o <<t>> /\ <<t>> \in Seq(Token)
  BY AppendIsConcat
<1> QED
  BY <1>1, HeardConcat, HeardOne

(* What has been heard of the first tokens, one token later.                 *)
LEMMA HeardFirst ==
    ASSUME NEW s \in Seq(Token), NEW k \in 1 .. Len(s)
    PROVE  /\ SubSeq(s, 1, k) \in Seq(Token) /\ SubSeq(s, 1, k - 1) \in Seq(Token)
           /\ Heard(SubSeq(s, 1, k)) = Heard(SubSeq(s, 1, k - 1)) \o Hearing(s[k])
<1>1. Len(s) \in Nat /\ k \in Nat /\ 1 <= k /\ k <= Len(s)
  BY LenProperties
<1>2. s[k] \in Token /\ <<s[k]>> \in Seq(Token)
  BY ElementOfSeq
<1>3. SubSeq(s, 1, k) \in Seq(Token) /\ SubSeq(s, 1, k - 1) \in Seq(Token)
  <2>1. \A i \in 1 .. k : s[i] \in Token
    BY <1>1, ElementOfSeq
  <2>2. \A i \in 1 .. k - 1 : s[i] \in Token
    BY <1>1, <2>1
  <2>3. k \in Int /\ k - 1 \in Int /\ 1 \in Int
    BY <1>1
  <2>4. SubSeq(s, 1, k) \in Seq(Token)
    BY <2>1, <2>3, SubSeqProperties
  <2>5. SubSeq(s, 1, k - 1) \in Seq(Token)
    BY <2>2, <2>3, SubSeqProperties
  <2> QED
    BY <2>4, <2>5
<1>4. SubSeq(s, 1, k) = SubSeq(s, 1, k - 1) \o <<s[k]>>
  <2>1. 1 \in 1 .. Len(s) /\ k \in 1 .. Len(s)
    BY <1>1
  <2> QED
    BY <2>1, SubSeqRecursiveSecond
<1> QED
  BY <1>2, <1>3, <1>4, HeardConcat, HeardOne

-----------------------------------------------------------------------------
(* The files the file f includes.                                           *)
Included(src, f) ==
    {src[f][k].text : k \in {j \in 1 .. Len(src[f]) : src[f][j].type = "T_INCLUDE"}} \cap File

LEMMA CallsOfType ==
    ASSUME NEW x \in Lexeme, NEW told \in [File -> Calls]
    PROVE  CallsOf(x, told) \in Calls
<1>1. CASE x.type = "T_STMT"
  <2>1. x.text \in Statement
    BY <1>1 DEF Lexeme
  <2> QED
    BY <1>1, <2>1, OneCall DEF CallsOf
<1>2. CASE x.type = "T_INCLUDE"
  <2>1. x.text \in Name
    BY <1>2, IncludeAssumption DEF Lexeme
  <2>2. <<Call("start_of_file", x.text)>> \in Calls
    BY <2>1, OneCall
  <2> QED
    BY <1>2, <2>2 DEF CallsOf
<1>3. CASE x.type \notin {"T_STMT", "T_INCLUDE"}
  <2>1. <<>> \in Calls
    BY EmptySeq DEF Calls
  <2> QED
    BY <1>3, <2>1 DEF CallsOf
<1> QED
  BY <1>1, <1>2, <1>3

Begins(b, src, told, f) ==
    b = [k \in 0 .. Len(src[f]) |->
            IF k = 0 THEN <<Call("start_of_file", f)>>
            ELSE b[k - 1] \o CallsOf(src[f][k], told)]

(* What is told of the first lexemes of a file, lexeme by lexeme.            *)
LEMMA BeginningsFacts ==
    ASSUME NEW src \in [File -> Seq(Lexeme)], NEW told \in [File -> Calls], NEW f \in File
    PROVE  /\ \A k \in 0 .. Len(src[f]) : Beginnings(src, told, f)[k] \in Calls
           /\ Beginnings(src, told, f)[0] = <<Call("start_of_file", f)>>
           /\ \A k \in 1 .. Len(src[f]) :
                 Beginnings(src, told, f)[k] =
                    Beginnings(src, told, f)[k - 1] \o CallsOf(src[f][k], told)
<1> DEFINE s == src[f]
           start == <<Call("start_of_file", f)>>
           next == [k \in Nat |-> [c \in Calls |->
                      IF k \in 1 .. Len(s) THEN c \o CallsOf(s[k], told) ELSE c]]
<1>1. s \in Seq(Lexeme) /\ Len(s) \in Nat
  BY LenProperties
<1>2. start \in Calls
  BY OneCall DEF Name
<1> HIDE DEF start
<1>3. \A k \in 1 .. Len(s) : CallsOf(s[k], told) \in Calls
  <2> HIDE DEF s
  <2> QED
    BY <1>1, ElementOfSeq, CallsOfType
<1> HIDE DEF s
<1>4. next \in [Nat -> [Calls -> Calls]]
  <2> SUFFICES ASSUME NEW k \in Nat, NEW c \in Calls, k \in 1 .. Len(s)
               PROVE  c \o CallsOf(s[k], told) \in Calls
    OBVIOUS
  <2> QED
    BY <1>3, CallsConcat
<1>5. PICK h : Recursion(h, start, next, Len(s)) /\ \A k \in 0 .. Len(s) : h[k] \in Calls
  <2> HIDE DEF next
  <2> QED
    BY <1>1, <1>2, <1>4, RecursionExists
<1>6. Begins(h, src, told, f)
  <2>1. ASSUME NEW k \in 0 .. Len(s), k # 0
        PROVE  next[k][h[k - 1]] = h[k - 1] \o CallsOf(s[k], told)
    <3>1. k \in 1 .. Len(s) /\ k \in Nat /\ k - 1 \in 0 .. Len(s)
      BY <1>1, <2>1
    <3>2. h[k - 1] \in Calls
      BY <1>5, <3>1
    <3> QED
      BY <3>1, <3>2
  <2> HIDE DEF next
  <2> QED
    BY <1>5, <2>1 DEF Begins, Recursion, start, s
<1> DEFINE b == Beginnings(src, told, f)
<1>7. b = CHOOSE x : Begins(x, src, told, f)
  BY DEF Beginnings, Begins
<1> HIDE DEF b
<1>8. b = [k \in 0 .. Len(s) |-> IF k = 0 THEN start ELSE b[k - 1] \o CallsOf(s[k], told)]
  <2>1. Begins(b, src, told, f)
    BY <1>6, <1>7
  <2> QED
    BY <2>1 DEF Begins, start, s
<1>9. b[0] = start
  <2>1. 0 \in 0 .. Len(s)
    BY <1>1
  <2> QED
    BY <1>8, <2>1
<1>10. ASSUME NEW k \in 1 .. Len(s) PROVE b[k] = b[k - 1] \o CallsOf(s[k], told)
  <2>1. k \in 0 .. Len(s) /\ k # 0
    BY <1>1
  <2> QED
    BY <1>8, <2>1
<1>11. \A k \in 0 .. Len(s) : b[k] \in Calls
  <2> DEFINE Good == {k \in Nat : k <= Len(s) => b[k] \in Calls}
  <2>1. 0 \in Good
    BY <1>2, <1>9
  <2>2. ASSUME NEW k \in Nat, k \in Good PROVE k + 1 \in Good
    <3> SUFFICES ASSUME k + 1 <= Len(s) PROVE b[k + 1] \in Calls
      OBVIOUS
    <3> DEFINE m == k + 1
    <3>1. m \in 1 .. Len(s) /\ m - 1 = k /\ k <= Len(s)
      BY <1>1
    <3> HIDE DEF m
    <3>2. b[m] = b[k] \o CallsOf(s[m], told)
      BY <1>10, <3>1
    <3>3. b[k] \in Calls /\ CallsOf(s[m], told) \in Calls
      BY <1>3, <2>2, <3>1
    <3>4. b[m] \in Calls
      BY <3>2, <3>3, CallsConcat
    <3> QED
      BY <3>4 DEF m
  <2> HIDE DEF Good
  <2>3. Nat \subseteq Good
    BY <2>1, <2>2, SetInduction
  <2> QED
    BY <1>1, <2>3 DEF Good
<1> QED
  BY <1>9, <1>10, <1>11 DEF b, s, start

(* It depends on what is told of the included files only.                    *)
LEMMA BeginningsSame ==
    ASSUME NEW src \in [File -> Seq(Lexeme)], NEW f \in File,
           NEW t \in [File -> Calls], NEW u \in [File -> Calls],
           \A g \in Included(src, f) : t[g] = u[g]
    PROVE  Beginnings(src, t, f)[Len(src[f])] = Beginnings(src, u, f)[Len(src[f])]
<1> DEFINE s == src[f]
           n == Len(s)
           a == Beginnings(src, t, f)
           b == Beginnings(src, u, f)
<1>1. s \in Seq(Lexeme) /\ n \in Nat
  BY LenProperties
<1>2. /\ a[0] = b[0]
      /\ \A k \in 1 .. n : a[k] = a[k - 1] \o CallsOf(s[k], t)
      /\ \A k \in 1 .. n : b[k] = b[k - 1] \o CallsOf(s[k], u)
  <2> DEFINE start == <<Call("start_of_file", f)>>
  <2>1. a[0] = start /\ \A k \in 1 .. n : a[k] = a[k - 1] \o CallsOf(s[k], t)
    BY BeginningsFacts
  <2>2. b[0] = start /\ \A k \in 1 .. n : b[k] = b[k - 1] \o CallsOf(s[k], u)
    BY BeginningsFacts
  <2> HIDE DEF a, b, s, n, start
  <2> QED
    BY <2>1, <2>2
<1>3. \A k \in 1 .. n : CallsOf(s[k], t) = CallsOf(s[k], u)
  <2> SUFFICES ASSUME NEW k \in 1 .. n, s[k].type = "T_INCLUDE", s[k].text \in File
               PROVE  t[s[k].text] = u[s[k].text]
    BY DEF CallsOf
  <2>1. s[k].text \in Included(src, f)
    BY DEF Included
  <2> QED
    BY <2>1
<1> HIDE DEF a, b, s, n
<1> DEFINE Same == {k \in Nat : k <= n => a[k] = b[k]}
<1>4. 0 \in Same
  BY <1>2
<1>5. ASSUME NEW k \in Nat, k \in Same PROVE k + 1 \in Same
  <2> SUFFICES ASSUME k + 1 <= n PROVE a[k + 1] = b[k + 1]
    OBVIOUS
  <2> DEFINE m == k + 1
  <2>1. m \in 1 .. n /\ m - 1 = k /\ k <= n
    BY <1>1
  <2> HIDE DEF m
  <2>2. a[m] = a[k] \o CallsOf(s[m], t) /\ b[m] = b[k] \o CallsOf(s[m], u)
    BY <1>2, <2>1
  <2>3. a[k] = b[k] /\ CallsOf(s[m], t) = CallsOf(s[m], u)
    BY <1>3, <1>5, <2>1
  <2> QED
    BY <2>2, <2>3 DEF m
<1> HIDE DEF Same
<1>6. n \in Same
  BY <1>1, <1>4, <1>5, SetInduction
<1>7. a[n] = b[n]
  BY <1>1, <1>6 DEF Same
<1> QED
  BY <1>7 DEF a, b, n, s

(* What is told of each file, when told has what is told of those it includes.*)
Whole(src, told) ==
    [f \in File |-> Append(Beginnings(src, told, f)[Len(src[f])], Call("end_of_file", f))]

LEMMA WholeType ==
    ASSUME NEW src \in [File -> Seq(Lexeme)], NEW told \in [File -> Calls]
    PROVE  Whole(src, told) \in [File -> Calls]
<1> SUFFICES ASSUME NEW f \in File
             PROVE  Append(Beginnings(src, told, f)[Len(src[f])], Call("end_of_file", f)) \in Calls
  BY DEF Whole
<1>1. Len(src[f]) \in 0 .. Len(src[f])
  <2>1. src[f] \in Seq(Lexeme)
    OBVIOUS
  <2> QED
    BY <2>1, LenProperties
<1>2. Beginnings(src, told, f)[Len(src[f])] \in Calls
  BY <1>1, BeginningsFacts
<1>3. f \in Name \cup Statement \cup {NoText}
  BY DEF Name
<1> QED
  BY <1>2, <1>3, CallsAppend

Expands(x, src) ==
    x = [d \in 0 .. Cardinality(File) |->
            [f \in File |->
                IF d = 0 THEN <<>>
                ELSE Append(Beginnings(src, x[d - 1], f)[Len(src[f])], Call("end_of_file", f))]]

(* What is told of each file down to the depth Expansion looks at.          *)
Told(src) == (CHOOSE x : Expands(x, src))[Cardinality(File)]

LEMMA FileCount == Cardinality(File) \in Nat \ {0} /\ IsFiniteSet(File)
<1>1. IsFiniteSet(File) /\ File # {}
  BY IncludeAssumption
<1>2. Cardinality(File) \in Nat /\ Cardinality(File) # 0
  BY <1>1, FS_CardinalityType, FS_EmptySet
<1> QED
  BY <1>1, <1>2

LEMMA ExpandRecursion ==
    ASSUME NEW src \in [File -> Seq(Lexeme)]
    PROVE  \E x : /\ Told(src) = x[Cardinality(File)]
                  /\ \A d \in 0 .. Cardinality(File) : x[d] \in [File -> Calls]
                  /\ \A d \in 1 .. Cardinality(File) : x[d] = Whole(src, x[d - 1])
<1> DEFINE N == Cardinality(File)
           start == [f \in File |-> <<>>]
           next == [k \in Nat |-> [told \in [File -> Calls] |-> Whole(src, told)]]
<1>1. N \in Nat
  BY FileCount
<1> HIDE DEF N
<1>2. start \in [File -> Calls]
  BY EmptySeq DEF Calls
<1>3. next \in [Nat -> [[File -> Calls] -> [File -> Calls]]]
  BY WholeType
<1>4. PICK h : Recursion(h, start, next, N) /\ \A k \in 0 .. N : h[k] \in [File -> Calls]
  <2> HIDE DEF start, next
  <2> QED
    BY <1>1, <1>2, <1>3, RecursionExists
<1> DEFINE Step(x, d) ==
             [f \in File |->
                IF d = 0 THEN <<>>
                ELSE Append(Beginnings(src, x[d - 1], f)[Len(src[f])], Call("end_of_file", f))]
<1>5. \A x, d : d # 0 => Step(x, d) = Whole(src, x[d - 1])
  BY DEF Whole
<1>6. \A x : Step(x, 0) = start
  OBVIOUS
<1>7. \A x : Expands(x, src) <=> x = [d \in 0 .. N |-> Step(x, d)]
  BY DEF Expands, N
<1> HIDE DEF Step, start
<1>8. Expands(h, src)
  <2>1. \A d \in 0 .. N : d # 0 => next[d][h[d - 1]] = Whole(src, h[d - 1])
    <3>1. \A d \in 0 .. N : d # 0 => d \in Nat /\ d - 1 \in 0 .. N
      BY <1>1
    <3> QED
      BY <1>4, <3>1
  <2> HIDE DEF next
  <2>2. \A d \in 0 .. N : (IF d = 0 THEN start ELSE next[d][h[d - 1]]) = Step(h, d)
    BY <1>5, <1>6, <2>1
  <2>3. h = [d \in 0 .. N |-> Step(h, d)]
    BY <1>4, <2>2 DEF Recursion
  <2> QED
    BY <1>7, <2>3
<1> DEFINE x == CHOOSE x : Expands(x, src)
<1>9. x = [d \in 0 .. N |-> Step(x, d)]
  <2>1. Expands(x, src)
    BY <1>8
  <2> HIDE DEF x
  <2> QED
    BY <1>7, <2>1
<1>10. Told(src) = x[N]
  BY DEF Told, N
<1> HIDE DEF x
<1>11. ASSUME NEW d \in 1 .. N PROVE x[d] = Whole(src, x[d - 1])
  <2>1. d \in 0 .. N /\ d # 0
    BY <1>1
  <2> QED
    BY <1>5, <1>9, <2>1
<1>12. x[0] = start
  <2>1. 0 \in 0 .. N
    BY <1>1
  <2> QED
    BY <1>6, <1>9, <2>1
<1>13. \A d \in 0 .. N : x[d] \in [File -> Calls]
  <2> DEFINE Good == {d \in Nat : d <= N => x[d] \in [File -> Calls]}
  <2>1. 0 \in Good
    BY <1>2, <1>12
  <2>2. ASSUME NEW d \in Nat, d \in Good PROVE d + 1 \in Good
    <3> SUFFICES ASSUME d + 1 <= N PROVE x[d + 1] \in [File -> Calls]
      OBVIOUS
    <3> DEFINE m == d + 1
    <3>1. m \in 1 .. N /\ m - 1 = d /\ d <= N
      BY <1>1
    <3> HIDE DEF m
    <3>2. x[m] = Whole(src, x[d]) /\ x[d] \in [File -> Calls]
      BY <1>11, <2>2, <3>1
    <3>3. x[m] \in [File -> Calls]
      BY <3>2, WholeType
    <3> QED
      BY <3>3 DEF m
  <2> HIDE DEF Good
  <2>3. Nat \subseteq Good
    BY <2>1, <2>2, SetInduction
  <2> QED
    BY <1>1, <2>3 DEF Good
<1> QED
  BY <1>10, <1>11, <1>13 DEF N

LEMMA ExpansionIsTold == \A src : Expansion(src) = Told(src)[Main]
BY DEF Expansion, Told, Expands

(* The files that include only files of layers[d - 1] are in layers[d].      *)
Layered(layers, src) ==
    /\ layers[0] = {}
    /\ \A d \in Nat : /\ layers[d] \in SUBSET File
                      /\ layers[d + 1] = {f \in File : Included(src, f) \subseteq layers[d]}

LEMMA LayersExist ==
    ASSUME NEW src
    PROVE  \E layers : Layered(layers, src)
<1> DEFINE Over(S) == {f \in File : Included(src, f) \subseteq S}
           next == [k \in Nat |-> [S \in SUBSET File |-> Over(S)]]
<1>1. next \in [Nat -> [SUBSET File -> SUBSET File]] /\ {} \in SUBSET File
  OBVIOUS
<1> DEFINE Good(h, n) == Recursion(h, {}, next, n) /\ \A k \in 0 .. n : h[k] \in SUBSET File
           h[n \in Nat] == CHOOSE x : Good(x, n)
<1>2. ASSUME NEW n \in Nat PROVE Good(h[n], n)
  <2>1. \E x : Good(x, n)
    <3> HIDE DEF next
    <3> QED
      BY <1>1, RecursionExists
  <2> QED
    BY <2>1
<1> HIDE DEF h
<1>3. ASSUME NEW n \in Nat
      PROVE  /\ h[n][0] = {}
             /\ \A k \in 1 .. n : h[n][k] = Over(h[n][k - 1])
             /\ \A k \in 0 .. n : h[n][k] \in SUBSET File
  <2>1. Good(h[n], n)
    BY <1>2
  <2>2. 0 \in 0 .. n /\ \A k \in 1 .. n : k \in 0 .. n /\ k # 0 /\ k - 1 \in 0 .. n /\ k \in Nat
    OBVIOUS
  <2>3. h[n] = [k \in 0 .. n |-> IF k = 0 THEN {} ELSE next[k][h[n][k - 1]]]
    BY <2>1 DEF Recursion
  <2>4. h[n][0] = {}
    BY <2>2, <2>3
  <2>5. ASSUME NEW k \in 1 .. n PROVE h[n][k] = Over(h[n][k - 1])
    <3>1. h[n][k] = next[k][h[n][k - 1]] /\ h[n][k - 1] \in SUBSET File /\ k \in Nat
      <4> HIDE DEF next, Over
      <4> QED
        BY <2>1, <2>2, <2>3
    <3> QED
      BY <3>1
  <2> QED
    BY <2>1, <2>4, <2>5
<1> DEFINE layers == [n \in Nat |-> h[n][n]]
<1> HIDE DEF Over, Good, next
(* Two of the functions agree where both are defined.                       *)
<1>4. ASSUME NEW n \in Nat PROVE h[n + 1][n] = h[n][n]
  <2> DEFINE m == n + 1
             Same == {k \in Nat : k <= n => h[m][k] = h[n][k]}
  <2>1. m \in Nat /\ \A k \in 1 .. n : k \in 1 .. m
    OBVIOUS
  <2> HIDE DEF m
  <2>2. 0 \in Same
    BY <1>3, <2>1
  <2>3. ASSUME NEW k \in Nat, k \in Same PROVE k + 1 \in Same
    <3> SUFFICES ASSUME k + 1 <= n PROVE h[m][k + 1] = h[n][k + 1]
      OBVIOUS
    <3> DEFINE j == k + 1
    <3>1. j \in 1 .. n /\ j \in 1 .. m /\ j - 1 = k /\ k <= n
      BY <2>1
    <3> HIDE DEF j
    <3>2. h[m][j] = Over(h[m][k]) /\ h[n][j] = Over(h[n][k])
      BY <1>3, <2>1, <3>1
    <3> QED
      BY <2>3, <3>1, <3>2 DEF j
  <2> HIDE DEF Same
  <2>4. n \in Same
    BY <2>2, <2>3, SetInduction
  <2> QED
    BY <2>4 DEF Same, m
<1>5. layers[0] = {}
  BY <1>3
<1>6. ASSUME NEW d \in Nat PROVE layers[d] \in SUBSET File /\ layers[d + 1] = Over(layers[d])
  <2> DEFINE m == d + 1
  <2>1. m \in Nat /\ m \in 1 .. m /\ m - 1 = d /\ d \in 0 .. d
    OBVIOUS
  <2> HIDE DEF m
  <2>2. h[m][m] = Over(h[m][d]) /\ h[d][d] \in SUBSET File
    BY <1>3, <2>1
  <2>3. h[m][d] = h[d][d]
    BY <1>4 DEF m
  <2>4. layers[m] = h[m][m] /\ layers[d] = h[d][d]
    BY <2>1
  <2> HIDE DEF layers
  <2> QED
    BY <2>2, <2>3, <2>4 DEF m
<1> HIDE DEF layers
<1> QED
  BY <1>5, <1>6 DEF Layered, Over

(* As many layers as there are files hold every file that does not include   *)
(* itself, directly or through others.                                      *)
LEMMA LayersFill ==
    ASSUME NEW src, NEW layers, Layered(layers, src)
    PROVE  layers[Cardinality(File) + 1] = layers[Cardinality(File)]
<1> DEFINE N == Cardinality(File)
           Over(S) == {f \in File : Included(src, f) \subseteq S}
<1>1. /\ layers[0] = {}
      /\ \A d \in Nat : layers[d] \in SUBSET File /\ layers[d + 1] = Over(layers[d])
  BY DEF Layered
<1>2. N \in Nat /\ IsFiniteSet(File)
  BY FileCount
<1>3. \A S \in SUBSET File : Over(S) \in SUBSET File
  OBVIOUS
<1>4. \A S, T \in SUBSET File : S \subseteq T => Over(S) \subseteq Over(T)
  OBVIOUS
<1> HIDE DEF N, Over
<1> DEFINE Grows(d) == layers[d] \subseteq layers[d + 1]
           Growing == {d \in Nat : Grows(d)}
<1>5. 0 \in Growing
  <2>1. layers[0] = {}
    BY <1>1
  <2> QED
    BY <2>1
<1>6. ASSUME NEW d \in Nat, d \in Growing PROVE d + 1 \in Growing
  <2> DEFINE m == d + 1
  <2>1. m \in Nat
    OBVIOUS
  <2>2. layers[d] \subseteq layers[m] /\ layers[d] \in SUBSET File /\ layers[m] \in SUBSET File
    BY <1>1, <1>6, <2>1
  <2>3. layers[m] = Over(layers[d])
    BY <1>1
  <2> HIDE DEF m
  <2>4. layers[m + 1] = Over(layers[m])
    BY <1>1, <2>1
  <2>5. Grows(m)
    BY <1>4, <2>2, <2>3, <2>4
  <2> HIDE DEF Grows
  <2> QED
    BY <2>1, <2>5 DEF m
<1>7. \A d \in Nat : Grows(d)
  <2> HIDE DEF Growing
  <2>1. Nat \subseteq Growing
    BY <1>5, <1>6, SetInduction
  <2> QED
    BY <2>1 DEF Growing
<1> DEFINE Big(d) == layers[d + 1] = layers[d] \/ Cardinality(layers[d]) >= d
           Filling == {d \in Nat : Big(d)}
<1>8. \A d \in Nat : IsFiniteSet(layers[d]) /\ Cardinality(layers[d]) \in Nat
  <2> TAKE d \in Nat
  <2>1. layers[d] \in SUBSET File
    BY <1>1
  <2>2. IsFiniteSet(layers[d])
    BY <1>2, <2>1, FS_Subset
  <2> QED
    BY <2>2, FS_CardinalityType
<1>9. 0 \in Filling
  BY <1>8
<1>10. ASSUME NEW d \in Nat, d \in Filling PROVE d + 1 \in Filling
  <2> DEFINE m == d + 1
  <2>1. m \in Nat /\ layers[m] = Over(layers[d])
    BY <1>1
  <2> HIDE DEF m
  <2>2. layers[m + 1] = Over(layers[m])
    BY <1>1, <2>1
  <2>3. CASE layers[m] = layers[d]
    <3>1. layers[m + 1] = layers[m]
      BY <2>1, <2>2, <2>3
    <3> QED
      BY <2>1, <3>1 DEF m
  <2>4. CASE layers[m] # layers[d]
    <3>1. layers[d] \in SUBSET layers[m]
      BY <1>7 DEF m
    <3>2. /\ Cardinality(layers[d]) <= Cardinality(layers[m])
          /\ Cardinality(layers[m]) # Cardinality(layers[d])
      BY <1>8, <2>1, <2>4, <3>1, FS_Subset
    <3>3. Cardinality(layers[d]) >= d
      BY <1>10, <2>4 DEF m
    <3>4. Cardinality(layers[m]) \in Nat /\ Cardinality(layers[d]) \in Nat
      BY <1>8, <2>1
    <3>5. Cardinality(layers[m]) >= m
      BY <3>2, <3>3, <3>4 DEF m
    <3> QED
      BY <2>1, <3>5 DEF m
  <2> QED
    BY <2>3, <2>4
<1>11. Big(N)
  <2> HIDE DEF Filling
  <2>1. N \in Filling
    BY <1>2, <1>9, <1>10, SetInduction
  <2> HIDE DEF Big
  <2> QED
    BY <2>1 DEF Filling
<1>12. CASE Cardinality(layers[N]) >= N
  <2>1. layers[N] \in SUBSET File /\ layers[N + 1] \in SUBSET File
    <3>1. layers[N] \in SUBSET File /\ layers[N + 1] = Over(layers[N])
      BY <1>1, <1>2
    <3> QED
      BY <1>3, <3>1
  <2>2. Cardinality(layers[N]) <= N /\ (N = Cardinality(layers[N]) => File = layers[N])
    BY <1>2, <2>1, FS_Subset DEF N
  <2>3. Cardinality(layers[N]) = N
    BY <1>2, <1>8, <1>12, <2>2
  <2>4. layers[N] = File /\ layers[N] \subseteq layers[N + 1]
    BY <1>2, <1>7, <2>2, <2>3
  <2>5. layers[N + 1] = layers[N]
    BY <2>1, <2>4
  <2> QED
    BY <2>5 DEF N
<1> QED
  BY <1>11, <1>12 DEF N

(* A set of files that holds every file that includes only files of it, and  *)
(* for whose files what is told of the whole is what is told line by line.   *)
LEMMA TellingFacts ==
    ASSUME NEW src \in [File -> Seq(Lexeme)]
    PROVE  /\ Told(src) \in [File -> Calls]
           /\ \E L \in SUBSET File :
                /\ \A f \in File : Included(src, f) \subseteq L => f \in L
                /\ \A f \in L : Told(src)[f] = Whole(src, Told(src))[f]
<1> DEFINE N == Cardinality(File)
<1>1. N \in Nat \ {0}
  BY FileCount
<1>2. PICK x : /\ Told(src) = x[N]
               /\ \A d \in 0 .. N : x[d] \in [File -> Calls]
               /\ \A d \in 1 .. N : x[d] = Whole(src, x[d - 1])
  BY ExpandRecursion
<1>3. PICK layers : Layered(layers, src)
  BY LayersExist
<1>4. /\ layers[0] = {} /\ layers[N + 1] = layers[N]
      /\ \A d \in Nat : /\ layers[d] \in SUBSET File
                        /\ layers[d + 1] = {f \in File : Included(src, f) \subseteq layers[d]}
  BY <1>3, LayersFill DEF Layered
<1> HIDE DEF N
<1>5. ASSUME NEW t \in [File -> Calls], NEW u \in [File -> Calls], NEW f \in File,
             \A g \in Included(src, f) : t[g] = u[g]
      PROVE  Whole(src, t)[f] = Whole(src, u)[f]
  <2>1. Beginnings(src, t, f)[Len(src[f])] = Beginnings(src, u, f)[Len(src[f])]
    BY <1>5, BeginningsSame
  <2> QED
    BY <2>1 DEF Whole
<1> DEFINE Stable(d) == \A f \in layers[d] : \A e \in d .. N : x[e][f] = x[d][f]
           Settled == {d \in Nat : d <= N => Stable(d)}
<1>6. 0 \in Settled
  BY <1>4
<1>7. ASSUME NEW d \in Nat, d \in Settled PROVE d + 1 \in Settled
  <2> DEFINE m == d + 1
  <2>0. m \in Nat /\ m - 1 = d
    OBVIOUS
  <2> HIDE DEF m
  <2> SUFFICES ASSUME m <= N, NEW f \in layers[m], NEW e \in m .. N
               PROVE  x[e][f] = x[m][f]
    BY <2>0 DEF m
  <2> DEFINE b == e - 1
  <2>1. /\ m \in 1 .. N /\ e \in 1 .. N /\ d \in 0 .. N /\ b \in 0 .. N /\ b \in d .. N /\ d <= N
    BY <1>1, <2>0
  <2> HIDE DEF b
  <2>2. x[m] = Whole(src, x[d]) /\ x[e] = Whole(src, x[b])
    BY <1>2, <2>0, <2>1 DEF b
  <2>3. f \in File /\ Included(src, f) \subseteq layers[d]
    BY <1>4 DEF m
  <2>4. \A g \in Included(src, f) : x[b][g] = x[d][g]
    BY <1>7, <2>1, <2>3
  <2>5. x[b] \in [File -> Calls] /\ x[d] \in [File -> Calls]
    BY <1>2, <2>1
  <2> DEFINE t == x[b]
             u == x[d]
  <2>6. t \in [File -> Calls] /\ u \in [File -> Calls] /\ f \in File
        /\ \A g \in Included(src, f) : t[g] = u[g]
    BY <2>3, <2>4, <2>5
  <2> HIDE DEF t, u
  <2>7. Whole(src, t)[f] = Whole(src, u)[f]
    BY <1>5, <2>6
  <2> QED
    BY <2>2, <2>7 DEF t, u
<1>8. \A d \in 0 .. N : Stable(d)
  <2> HIDE DEF Settled, Stable
  <2>1. Nat \subseteq Settled
    BY <1>6, <1>7, SetInduction
  <2> QED
    BY <1>1, <2>1 DEF Settled
<1> DEFINE L == layers[N]
<1>9. L \in SUBSET File
  BY <1>1, <1>4
<1>10. \A f \in File : Included(src, f) \subseteq L => f \in L
  <2>1. layers[N + 1] = {f \in File : Included(src, f) \subseteq layers[N]}
    BY <1>1, <1>4
  <2> QED
    BY <1>4, <2>1
<1>11. ASSUME NEW f \in L PROVE x[N][f] = Whole(src, x[N])[f]
  <2> DEFINE m == N - 1
  <2>1. m \in Nat /\ m + 1 = N /\ m \in 0 .. N /\ N \in 0 .. N /\ N \in 1 .. N /\ N \in m .. N
    BY <1>1
  <2> HIDE DEF m
  <2>2. layers[N] = {g \in File : Included(src, g) \subseteq layers[m]}
    BY <1>4, <2>1
  <2>3. f \in File /\ Included(src, f) \subseteq layers[m]
    BY <2>2
  <2>4. Stable(m)
    BY <1>8, <2>1
  <2>5. \A g \in Included(src, f) : x[m][g] = x[N][g]
    BY <2>1, <2>3, <2>4
  <2>6. x[m] \in [File -> Calls] /\ x[N] \in [File -> Calls] /\ x[N] = Whole(src, x[m])
    BY <1>2, <2>1 DEF m
  <2>7. Whole(src, x[m])[f] = Whole(src, x[N])[f]
    BY <1>5, <2>3, <2>5, <2>6
  <2> QED
    BY <2>6, <2>7
<1>12. x[N] \in [File -> Calls]
  BY <1>1, <1>2
<1> HIDE DEF L
<1> QED
  BY <1>2, <1>9, <1>10, <1>11, <1>12

-----------------------------------------------------------------------------
(* The files that do not include themselves, directly or through others.     *)
EndsFor(L, src) ==
    /\ L \in SUBSET File
    /\ \A f \in File : Included(src, f) \subseteq L => f \in L
    /\ \A f \in L : Told(src)[f] = Whole(src, Told(src))[f]

Ending(src) == CHOOSE L : EndsFor(L, src)

(* What is told of the first k lexemes of the file f.                        *)
FileTold(src, f, k) == Beginnings(src, Told(src), f)[k]

LEMMA EndingFacts ==
    ASSUME NEW src \in [File -> Seq(Lexeme)]
    PROVE  /\ Told(src) \in [File -> Calls]
           /\ EndsFor(Ending(src), src)
<1>1. Told(src) \in [File -> Calls] /\ \E L : EndsFor(L, src)
  BY TellingFacts DEF EndsFor
<1> QED
  BY <1>1 DEF Ending

LEMMA FileToldFacts ==
    ASSUME NEW src \in [File -> Seq(Lexeme)], NEW f \in File
    PROVE  /\ \A k \in 0 .. Len(src[f]) : FileTold(src, f, k) \in Calls
           /\ FileTold(src, f, 0) = <<Call("start_of_file", f)>>
           /\ \A k \in 1 .. Len(src[f]) :
                 /\ FileTold(src, f, k) = FileTold(src, f, k - 1) \o CallsOf(src[f][k], Told(src))
                 /\ src[f][k] \in Lexeme /\ CallsOf(src[f][k], Told(src)) \in Calls
<1>1. Told(src) \in [File -> Calls]
  BY EndingFacts
<1>2. \A k \in 1 .. Len(src[f]) : src[f][k] \in Lexeme
  <2>1. src[f] \in Seq(Lexeme)
    OBVIOUS
  <2> QED
    BY <2>1, ElementOfSeq
<1>3. \A k \in 1 .. Len(src[f]) : CallsOf(src[f][k], Told(src)) \in Calls
  BY <1>1, <1>2, CallsOfType
<1> QED
  BY <1>1, <1>2, <1>3, BeginningsFacts DEF FileTold

(* All of a file that includes only files that end.                          *)
LEMMA FileEnds ==
    ASSUME NEW src \in [File -> Seq(Lexeme)], NEW f \in File,
           \A k \in 1 .. Len(src[f]) :
              src[f][k].type = "T_INCLUDE" /\ src[f][k].text \in File => src[f][k].text \in Ending(src)
    PROVE  /\ f \in Ending(src)
           /\ Told(src)[f] = FileTold(src, f, Len(src[f])) \o <<Call("end_of_file", f)>>
<1>1. EndsFor(Ending(src), src)
  BY EndingFacts
<1>2. Included(src, f) \subseteq Ending(src)
  BY DEF Included
<1>3. f \in Ending(src) /\ Told(src)[f] = Whole(src, Told(src))[f]
  BY <1>1, <1>2 DEF EndsFor
<1>4. FileTold(src, f, Len(src[f])) \in Calls
  <2>1. Len(src[f]) \in 0 .. Len(src[f])
    <3>1. src[f] \in Seq(Lexeme)
      OBVIOUS
    <3> QED
      BY <3>1, LenProperties
  <2> QED
    BY <2>1, FileToldFacts
<1>5. Whole(src, Told(src))[f] = Append(FileTold(src, f, Len(src[f])), Call("end_of_file", f))
  BY DEF Whole, FileTold
<1>6. f \in Name \cup Statement \cup {NoText}
  BY DEF Name
<1> QED
  BY <1>3, <1>4, <1>5, <1>6, CallsAppend

(* The state of the reading: m files are open, the first k lexemes of each   *)
(* have been told (k = read[i]), up to the INCLUDE line the next one was     *)
(* opened for, and told is what has been told in all, before[i] of it before *)
(* the file i.                                                              *)
Story(src, m, files, read, before, told) ==
    /\ m \in Nat \ {0}
    /\ files \in [1 .. m -> File] /\ read \in [1 .. m -> Nat] /\ before \in [1 .. m -> Calls]
    /\ files[1] = Main /\ before[1] = <<>>
    /\ \A i \in 1 .. m :
          /\ read[i] <= Len(src[files[i]])
          /\ \A k \in 1 .. read[i] :
                src[files[i]][k].type = "T_INCLUDE" /\ src[files[i]][k].text \in File
                   => src[files[i]][k].text \in Ending(src)
    /\ \A i \in 1 .. m - 1 :
          /\ read[i] + 2 <= Len(src[files[i]])
          /\ src[files[i]][read[i] + 1] = [type |-> "T_INCLUDE", text |-> files[i + 1]]
          /\ src[files[i]][read[i] + 2].type = "T_EOS"
          /\ before[i + 1] = before[i] \o FileTold(src, files[i], read[i])
    /\ told = before[m] \o FileTold(src, files[m], read[m])

(* One more lexeme of the innermost file.                                    *)
LEMMA StoryRead ==
    ASSUME NEW src \in [File -> Seq(Lexeme)], NEW m, NEW files, NEW read, NEW before, NEW told,
           Story(src, m, files, read, before, told),
           NEW k \in 1 .. Len(src[files[m]]), k = read[m] + 1,
           ~ (src[files[m]][k].type = "T_INCLUDE" /\ src[files[m]][k].text \in File)
    PROVE  Story(src, m, files, [read EXCEPT ![m] = k], before,
                 told \o CallsOf(src[files[m]][k], Told(src)))
<1> DEFINE f == files[m]
           new == [read EXCEPT ![m] = k]
           c == CallsOf(src[f][k], Told(src))
<1>1. /\ m \in Nat \ {0} /\ m \in 1 .. m /\ f \in File /\ before[m] \in Calls
      /\ files \in [1 .. m -> File] /\ read \in [1 .. m -> Nat] /\ before \in [1 .. m -> Calls]
      /\ files[1] = Main /\ before[1] = <<>>
  BY DEF Story
<1>2. Len(src[f]) \in Nat
  <2>1. src[f] \in Seq(Lexeme)
    BY <1>1
  <2> QED
    BY <2>1, LenProperties
<1>3. new \in [1 .. m -> Nat] /\ new[m] = k /\ \A i \in 1 .. m : i # m => new[i] = read[i]
  BY <1>1, <1>2
<1> HIDE DEF new
<1>4. read[m] \in 0 .. Len(src[f]) /\ k - 1 = read[m]
  BY <1>1, <1>2 DEF Story
<1>5. /\ FileTold(src, f, k) = FileTold(src, f, read[m]) \o c
      /\ FileTold(src, f, read[m]) \in Calls /\ c \in Calls
  <2> HIDE DEF c
  <2>1. \A j \in 1 .. Len(src[f]) :
            /\ FileTold(src, f, j) = FileTold(src, f, j - 1) \o CallsOf(src[f][j], Told(src))
            /\ CallsOf(src[f][j], Told(src)) \in Calls
    BY <1>1, FileToldFacts
  <2>2. FileTold(src, f, read[m]) \in Calls
    BY <1>1, <1>4, FileToldFacts
  <2> QED
    BY <1>4, <2>1, <2>2 DEF c
<1> HIDE DEF c
<1>6. told \o c = before[m] \o FileTold(src, f, new[m])
  <2>1. told = before[m] \o FileTold(src, f, read[m])
    BY DEF Story
  <2>2. (before[m] \o FileTold(src, f, read[m])) \o c = before[m] \o (FileTold(src, f, read[m]) \o c)
    BY <1>1, <1>5, CallsAssociate
  <2> QED
    BY <1>3, <1>5, <2>1, <2>2
<1>7. ASSUME NEW i \in 1 .. m
      PROVE  /\ new[i] <= Len(src[files[i]])
             /\ \A j \in 1 .. new[i] :
                   src[files[i]][j].type = "T_INCLUDE" /\ src[files[i]][j].text \in File
                      => src[files[i]][j].text \in Ending(src)
  <2>1. CASE i # m
    BY <1>3, <2>1 DEF Story
  <2>2. CASE i = m
    <3>1. new[i] = k /\ files[i] = f /\ k <= Len(src[f])
      BY <1>2, <1>3, <2>2
    <3>2. \A j \in 1 .. k : j \in 1 .. read[m] \/ j = k
      BY <1>4
    <3>3. \A j \in 1 .. read[m] :
             src[f][j].type = "T_INCLUDE" /\ src[f][j].text \in File => src[f][j].text \in Ending(src)
      BY <1>1 DEF Story
    <3> QED
      BY <3>1, <3>2, <3>3
  <2> QED
    BY <2>1, <2>2
<1>8. ASSUME NEW i \in 1 .. m - 1
      PROVE  /\ new[i] + 2 <= Len(src[files[i]])
             /\ src[files[i]][new[i] + 1] = [type |-> "T_INCLUDE", text |-> files[i + 1]]
             /\ src[files[i]][new[i] + 2].type = "T_EOS"
             /\ before[i + 1] = before[i] \o FileTold(src, files[i], new[i])
  <2>1. new[i] = read[i]
    BY <1>1, <1>3
  <2> QED
    BY <2>1 DEF Story
<1>9. Story(src, m, files, new, before, told \o c)
  BY <1>1, <1>3, <1>6, <1>7, <1>8 DEF Story
<1> QED
  BY <1>9 DEF new, c

(* An INCLUDE line of the innermost file opens another one.                  *)
LEMMA StoryEnter ==
    ASSUME NEW src \in [File -> Seq(Lexeme)], NEW m, NEW files, NEW read, NEW before, NEW told,
           Story(src, m, files, read, before, told),
           NEW g \in File, read[m] + 2 <= Len(src[files[m]]),
           src[files[m]][read[m] + 1] = [type |-> "T_INCLUDE", text |-> g],
           src[files[m]][read[m] + 2].type = "T_EOS"
    PROVE  \E more : Story(src, m + 1,
                           [i \in 1 .. m + 1 |-> IF i <= m THEN files[i] ELSE g],
                           [i \in 1 .. m + 1 |-> IF i <= m THEN read[i] ELSE 0],
                           more, told \o <<Call("start_of_file", g)>>)
<1> DEFINE n == m + 1
           newFiles == [i \in 1 .. n |-> IF i <= m THEN files[i] ELSE g]
           newRead == [i \in 1 .. n |-> IF i <= m THEN read[i] ELSE 0]
           more == [i \in 1 .. n |-> IF i <= m THEN before[i] ELSE told]
           c == <<Call("start_of_file", g)>>
<1>1. /\ m \in Nat \ {0} /\ m \in 1 .. m /\ files[m] \in File /\ before[m] \in Calls
      /\ files \in [1 .. m -> File] /\ read \in [1 .. m -> Nat] /\ before \in [1 .. m -> Calls]
      /\ files[1] = Main /\ before[1] = <<>> /\ read[m] \in Nat
  BY DEF Story
<1>2. /\ n \in Nat \ {0} /\ 1 \in 1 .. n /\ n \in 1 .. n /\ ~ (n <= m) /\ 1 <= m
      /\ \A i \in 1 .. n : i \in 1 .. m \/ i = n
      /\ \A i \in 1 .. m : i \in 1 .. n /\ i <= m
  BY <1>1
<1>3. told \in Calls
  <2>1. read[m] \in 0 .. Len(src[files[m]])
    <3>1. src[files[m]] \in Seq(Lexeme)
      BY <1>1
    <3>2. Len(src[files[m]]) \in Nat
      BY <3>1, LenProperties
    <3> QED
      BY <1>1, <3>2
  <2>2. FileTold(src, files[m], read[m]) \in Calls
    BY <1>1, <2>1, FileToldFacts
  <2>3. before[m] \o FileTold(src, files[m], read[m]) \in Calls
    BY <1>1, <2>2, CallsConcat
  <2> QED
    BY <2>3 DEF Story
<1>4. /\ \A i \in 1 .. m : newFiles[i] = files[i] /\ newRead[i] = read[i] /\ more[i] = before[i]
      /\ newFiles[n] = g /\ newRead[n] = 0 /\ more[n] = told
  BY <1>2
<1>5. newFiles \in [1 .. n -> File] /\ newRead \in [1 .. n -> Nat] /\ more \in [1 .. n -> Calls]
  BY <1>1, <1>2, <1>3
<1> HIDE DEF newFiles, newRead, more, n
<1>6. newFiles[1] = Main /\ more[1] = <<>>
  BY <1>1, <1>2, <1>4
<1>7. FileTold(src, g, 0) = c
  BY FileToldFacts
<1>8. ASSUME NEW i \in 1 .. n
      PROVE  /\ newRead[i] <= Len(src[newFiles[i]])
             /\ \A j \in 1 .. newRead[i] :
                   src[newFiles[i]][j].type = "T_INCLUDE" /\ src[newFiles[i]][j].text \in File
                      => src[newFiles[i]][j].text \in Ending(src)
  <2>1. CASE i \in 1 .. m
    <3>1. newRead[i] = read[i] /\ newFiles[i] = files[i]
      BY <1>4, <2>1
    <3> QED
      BY <2>1, <3>1 DEF Story
  <2>2. CASE i = n
    <3>1. newRead[i] = 0 /\ newFiles[i] = g /\ 1 .. 0 = {}
      BY <1>4, <2>2
    <3>2. src[g] \in Seq(Lexeme)
      OBVIOUS
    <3>3. 0 <= Len(src[g])
      BY <3>2, LenProperties
    <3> QED
      BY <3>1, <3>3
  <2> QED
    BY <1>2, <2>1, <2>2
<1>9. ASSUME NEW i \in 1 .. n - 1
      PROVE  /\ newRead[i] + 2 <= Len(src[newFiles[i]])
             /\ src[newFiles[i]][newRead[i] + 1] = [type |-> "T_INCLUDE", text |-> newFiles[i + 1]]
             /\ src[newFiles[i]][newRead[i] + 2].type = "T_EOS"
             /\ more[i + 1] = more[i] \o FileTold(src, newFiles[i], newRead[i])
  <2>0. i \in 1 .. m
    BY <1>1 DEF n
  <2>1. newRead[i] = read[i] /\ newFiles[i] = files[i] /\ more[i] = before[i]
    BY <1>4, <2>0
  <2>2. CASE i \in 1 .. m - 1
    <3>1. i + 1 \in 1 .. m
      BY <1>1, <2>2
    <3>2. newFiles[i + 1] = files[i + 1] /\ more[i + 1] = before[i + 1]
      BY <1>4, <3>1
    <3>3. /\ read[i] + 2 <= Len(src[files[i]])
          /\ src[files[i]][read[i] + 1] = [type |-> "T_INCLUDE", text |-> files[i + 1]]
          /\ src[files[i]][read[i] + 2].type = "T_EOS"
          /\ before[i + 1] = before[i] \o FileTold(src, files[i], read[i])
      BY <2>2 DEF Story
    <3> QED
      BY <2>1, <3>2, <3>3
  <2>3. CASE i = m
    <3>1. newFiles[i + 1] = g /\ more[i + 1] = told
      BY <1>4, <2>3 DEF n
    <3>2. told = before[m] \o FileTold(src, files[m], read[m])
      BY DEF Story
    <3> QED
      BY <2>1, <2>3, <3>1, <3>2
  <2>4. i \in 1 .. m - 1 \/ i = m
    BY <1>1, <2>0
  <2> QED
    BY <2>2, <2>3, <2>4
<1>10. told \o c = more[n] \o FileTold(src, newFiles[n], newRead[n])
  BY <1>4, <1>7
<1> HIDE DEF c
<1>11. Story(src, n, newFiles, newRead, more, told \o c)
  BY <1>2, <1>5, <1>6, <1>8, <1>9, <1>10 DEF Story
<1> QED
  BY <1>11 DEF n, newFiles, newRead, c

(* The end of the innermost file: the one that includes it goes on behind    *)
(* its INCLUDE line.                                                        *)
LEMMA StoryLeave ==
    ASSUME NEW src \in [File -> Seq(Lexeme)], NEW m, NEW files, NEW read, NEW before, NEW told,
           Story(src, m, files, read, before, told), m > 1, read[m] = Len(src[files[m]])
    PROVE  Story(src, m - 1,
                 [i \in 1 .. m - 1 |-> files[i]],
                 [i \in 1 .. m - 1 |-> IF i = m - 1 THEN read[i] + 2 ELSE read[i]],
                 [i \in 1 .. m - 1 |-> before[i]],
                 told \o <<Call("end_of_file", files[m])>>)
<1> DEFINE n == m - 1
           f == files[m]
           g == files[n]
           k == read[n]
           newFiles == [i \in 1 .. n |-> files[i]]
           newRead == [i \in 1 .. n |-> IF i = n THEN k + 2 ELSE read[i]]
           less == [i \in 1 .. n |-> before[i]]
           c == <<Call("end_of_file", f)>>
<1>1. /\ m \in Nat \ {0} /\ m \in 1 .. m
      /\ files \in [1 .. m -> File] /\ read \in [1 .. m -> Nat] /\ before \in [1 .. m -> Calls]
      /\ files[1] = Main /\ before[1] = <<>>
  BY DEF Story
<1>2. /\ n \in Nat \ {0} /\ 1 \in 1 .. n /\ n \in 1 .. n /\ n \in 1 .. m /\ n + 1 = m
      /\ \A i \in 1 .. n : i \in 1 .. m
      /\ \A i \in 1 .. n - 1 : i \in 1 .. n /\ i # n /\ i + 1 \in 1 .. n /\ i \in 1 .. m - 1
  BY <1>1
<1> HIDE DEF n
<1>3. f \in File /\ g \in File /\ k \in Nat /\ before[n] \in Calls /\ before[m] \in Calls
  BY <1>1, <1>2
<1>4. /\ k + 2 <= Len(src[g])
      /\ src[g][k + 1] = [type |-> "T_INCLUDE", text |-> f]
      /\ src[g][k + 2].type = "T_EOS"
      /\ before[m] = before[n] \o FileTold(src, g, k)
      /\ \A j \in 1 .. k : src[g][j].type = "T_INCLUDE" /\ src[g][j].text \in File
                              => src[g][j].text \in Ending(src)
      /\ told = before[m] \o FileTold(src, f, Len(src[f]))
  <2>1. n \in 1 .. m - 1
    BY <1>1 DEF n
  <2>2. /\ k + 2 <= Len(src[g])
        /\ src[g][k + 1] = [type |-> "T_INCLUDE", text |-> files[n + 1]]
        /\ src[g][k + 2].type = "T_EOS"
        /\ before[n + 1] = before[n] \o FileTold(src, g, k)
    BY <2>1 DEF Story
  <2>3. \A j \in 1 .. k : src[g][j].type = "T_INCLUDE" /\ src[g][j].text \in File
                              => src[g][j].text \in Ending(src)
    BY <1>2 DEF Story
  <2>4. told = before[m] \o FileTold(src, f, Len(src[f]))
    BY DEF Story
  <2> QED
    BY <1>2, <2>2, <2>3, <2>4
<1>5. Len(src[g]) \in Nat /\ Len(src[f]) \in Nat
  <2>1. src[g] \in Seq(Lexeme) /\ src[f] \in Seq(Lexeme)
    BY <1>3
  <2> QED
    BY <2>1, LenProperties
<1>6. f \in Ending(src) /\ Told(src)[f] = FileTold(src, f, Len(src[f])) \o c
  <2>1. \A j \in 1 .. Len(src[f]) :
            src[f][j].type = "T_INCLUDE" /\ src[f][j].text \in File => src[f][j].text \in Ending(src)
    BY <1>1 DEF Story
  <2> QED
    BY <1>3, <2>1, FileEnds
<1>7. FileTold(src, f, Len(src[f])) \in Calls /\ c \in Calls /\ Told(src)[f] \in Calls
  <2>1. f \in Name \cup Statement \cup {NoText} /\ Len(src[f]) \in 0 .. Len(src[f])
    BY <1>3, <1>5 DEF Name
  <2>2. Told(src) \in [File -> Calls]
    BY EndingFacts
  <2> QED
    BY <1>3, <2>1, <2>2, FileToldFacts, OneCall
<1>8. FileTold(src, g, k) \in Calls /\ FileTold(src, g, k + 2) = FileTold(src, g, k) \o Told(src)[f]
  <2> DEFINE a == k + 1
             b == k + 2
  <2>1. /\ a \in 1 .. Len(src[g]) /\ b \in 1 .. Len(src[g]) /\ a - 1 = k /\ b - 1 = a
        /\ k \in 0 .. Len(src[g]) /\ a \in 0 .. Len(src[g])
    BY <1>3, <1>4, <1>5
  <2>2. src[g][a] = [type |-> "T_INCLUDE", text |-> f] /\ src[g][b].type = "T_EOS"
    BY <1>4
  <2> HIDE DEF a, b
  <2>3. CallsOf(src[g][a], Told(src)) = Told(src)[f] /\ CallsOf(src[g][b], Told(src)) = <<>>
    BY <1>3, <2>2 DEF CallsOf
  <2>4. /\ FileTold(src, g, a) = FileTold(src, g, k) \o Told(src)[f]
        /\ FileTold(src, g, b) = FileTold(src, g, a) \o <<>>
    <3>1. \A j \in 1 .. Len(src[g]) :
             FileTold(src, g, j) = FileTold(src, g, j - 1) \o CallsOf(src[g][j], Told(src))
      BY <1>3, FileToldFacts
    <3> QED
      BY <2>1, <2>3, <3>1
  <2>5. FileTold(src, g, k) \in Calls /\ FileTold(src, g, a) \in Calls
    BY <1>3, <2>1, FileToldFacts
  <2>6. FileTold(src, g, a) \o <<>> = FileTold(src, g, a)
    BY <2>5, CallsConcat
  <2> QED
    BY <2>4, <2>5, <2>6 DEF b
<1>9. /\ newFiles[n] = g /\ newRead[n] = k + 2 /\ less[n] = before[n]
      /\ \A i \in 1 .. n : newFiles[i] = files[i] /\ less[i] = before[i]
      /\ \A i \in 1 .. n : i # n => newRead[i] = read[i]
  BY <1>2
<1>10. newFiles \in [1 .. n -> File] /\ newRead \in [1 .. n -> Nat] /\ less \in [1 .. n -> Calls]
  <2>1. k + 2 \in Nat
    BY <1>3
  <2> HIDE DEF k
  <2> QED
    BY <1>1, <1>2, <2>1
<1> HIDE DEF newFiles, newRead, less, c, f, g, k
<1>11. newFiles[1] = Main /\ less[1] = <<>>
  BY <1>1, <1>2, <1>9
<1>12. ASSUME NEW i \in 1 .. n
       PROVE  /\ newRead[i] <= Len(src[newFiles[i]])
              /\ \A j \in 1 .. newRead[i] :
                    src[newFiles[i]][j].type = "T_INCLUDE" /\ src[newFiles[i]][j].text \in File
                       => src[newFiles[i]][j].text \in Ending(src)
  <2>1. CASE i # n
    <3>1. newRead[i] = read[i] /\ newFiles[i] = files[i] /\ i \in 1 .. m
      BY <1>2, <1>9, <2>1
    <3> QED
      BY <3>1 DEF Story
  <2>2. CASE i = n
    <3>1. newRead[i] = k + 2 /\ newFiles[i] = g
      BY <1>9, <2>2
    <3>2. \A j \in 1 .. k + 2 : j \in 1 .. k \/ j = k + 1 \/ j = k + 2
      BY <1>3
    <3>3. \A j \in 1 .. k + 2 : src[g][j].type = "T_INCLUDE" /\ src[g][j].text \in File
                                   => src[g][j].text \in Ending(src)
      <4>1. src[g][k + 1].text \in Ending(src)
        BY <1>4, <1>6
      <4>2. src[g][k + 2].type # "T_INCLUDE"
        BY <1>4
      <4> QED
        BY <1>4, <3>2, <4>1, <4>2
    <3> QED
      BY <1>4, <3>1, <3>3
  <2> QED
    BY <2>1, <2>2
<1>13. ASSUME NEW i \in 1 .. n - 1
       PROVE  /\ newRead[i] + 2 <= Len(src[newFiles[i]])
              /\ src[newFiles[i]][newRead[i] + 1] = [type |-> "T_INCLUDE", text |-> newFiles[i + 1]]
              /\ src[newFiles[i]][newRead[i] + 2].type = "T_EOS"
              /\ less[i + 1] = less[i] \o FileTold(src, newFiles[i], newRead[i])
  <2>1. i \in 1 .. n /\ i # n /\ i + 1 \in 1 .. n /\ i \in 1 .. m - 1
    BY <1>2
  <2>2. /\ newRead[i] = read[i] /\ newFiles[i] = files[i] /\ less[i] = before[i]
        /\ newFiles[i + 1] = files[i + 1] /\ less[i + 1] = before[i + 1]
    BY <1>9, <2>1
  <2>3. /\ read[i] + 2 <= Len(src[files[i]])
        /\ src[files[i]][read[i] + 1] = [type |-> "T_INCLUDE", text |-> files[i + 1]]
        /\ src[files[i]][read[i] + 2].type = "T_EOS"
        /\ before[i + 1] = before[i] \o FileTold(src, files[i], read[i])
    BY <2>1 DEF Story
  <2> QED
    BY <2>2, <2>3
<1>14. told \o c = less[n] \o FileTold(src, newFiles[n], newRead[n])
  <2> DEFINE all == FileTold(src, f, Len(src[f]))
             part == FileTold(src, g, k)
  <2>1. (before[m] \o all) \o c = before[m] \o (all \o c)
    BY <1>3, <1>7, CallsAssociate
  <2>2. (before[n] \o part) \o Told(src)[f] = before[n] \o (part \o Told(src)[f])
    BY <1>3, <1>7, <1>8, CallsAssociate
  <2>3. told = before[m] \o all /\ Told(src)[f] = all \o c /\ before[m] = before[n] \o part
        /\ FileTold(src, g, k + 2) = part \o Told(src)[f]
    BY <1>4, <1>6, <1>8
  <2>4. less[n] \o FileTold(src, newFiles[n], newRead[n]) = before[n] \o FileTold(src, g, k + 2)
    BY <1>9
  <2> HIDE DEF all, part
  <2> QED
    BY <2>1, <2>2, <2>3, <2>4
<1>15. Story(src, n, newFiles, newRead, less, told \o c)
  BY <1>2, <1>10, <1>11, <1>12, <1>13, <1>14 DEF Story
<1>16. newRead = [i \in 1 .. n |-> IF i = n THEN read[i] + 2 ELSE read[i]]
  BY DEF newRead, k
<1> HIDE DEF newRead
<1> QED
  BY <1>15, <1>16 DEF n, newFiles, less, c, f

(* The end of the main file.                                                *)
LEMMA StoryEnd ==
    ASSUME NEW src \in [File -> Seq(Lexeme)], NEW files, NEW read, NEW before, NEW told,
           Story(src, 1, files, read, before, told), read[1] = Len(src[files[1]])
    PROVE  Append(told, Call("end_of_file", Main)) = Expansion(src)
<1> DEFINE n == Len(src[Main])
           all == FileTold(src, Main, n)
<1>1. files[1] = Main /\ before[1] = <<>> /\ told = before[1] \o FileTold(src, files[1], read[1])
  BY DEF Story
<1>2. Main \in File /\ Main \in Name \cup Statement \cup {NoText}
  BY IncludeAssumption DEF Name
<1>3. n \in 0 .. n
  <2>1. src[Main] \in Seq(Lexeme)
    BY <1>2
  <2> QED
    BY <2>1, LenProperties
<1>4. all \in Calls
  BY <1>2, <1>3, FileToldFacts
<1>5. Told(src)[Main] = all \o <<Call("end_of_file", Main)>>
  <2>1. \A j \in 1 .. n : src[Main][j].type = "T_INCLUDE" /\ src[Main][j].text \in File
                             => src[Main][j].text \in Ending(src)
    <3>1. 1 \in 1 .. 1 /\ read[1] = n
      BY <1>1
    <3> QED
      BY <1>1, <3>1 DEF Story
  <2> QED
    BY <1>2, <2>1, FileEnds
<1> HIDE DEF n, all
<1>6. told = all
  <2>1. told = <<>> \o all
    BY <1>1 DEF all, n
  <2> QED
    BY <1>4, <2>1, CallsConcat
<1>7. Append(all, Call("end_of_file", Main)) = all \o <<Call("end_of_file", Main)>>
  BY <1>2, <1>4, CallsAppend
<1> QED
  BY <1>5, <1>6, <1>7, ExpansionIsTold

LEMMA ExpansionType ==
    ASSUME NEW src \in [File -> Seq(Lexeme)]
    PROVE  Expansion(src) \in Calls
BY EndingFacts, ExpansionIsTold, IncludeAssumption

-----------------------------------------------------------------------------
(* Each T_INCLUDE has its T_INCLUDE_NAME, but for the last token if the lexer *)
(* is still in the INCLUDE line.                                            *)
Paired(tks, open) ==
    \A i \in 1 .. Len(tks) :
        /\ tks[i].type # "EOF"
        /\ tks[i].type = "T_INCLUDE" =>
              IF i < Len(tks) THEN tks[i + 1].type = "T_INCLUDE_NAME" ELSE open

(* The files open and how many lexemes of each have been told, ...          *)
FilesOpen == [i \in 1 .. Len(oldStreams) + 1 |->
                IF i <= Len(oldStreams) THEN oldStreams[i].file ELSE input.file]
LexemesTold == [i \in 1 .. Len(oldStreams) + 1 |->
                  IF i <= Len(oldStreams) THEN oldStreams[i].index - 3
                  ELSE input.index - (IF includeLine THEN 2 ELSE 1)]

(* ... and what the parser will have called for the tokens of the buffer.    *)
Started(tks) == <<Call("start_of_file", Main)>> \o Heard(tks)

WholeHeard(tks) == Append(Started(tks), Call("end_of_file", Main)) = Expansion(source)

(* While a T_INCLUDE waits for its T_EOS, the lexer is right behind it.      *)
InIncludeLine ==
    includeLine =>
        /\ prevToken.type = "T_CHAR_CONSTANT"
        /\ input.index > 1 /\ input.index <= Len(source[input.file]) + 1
        /\ source[input.file][input.index - 1] = [type |-> "T_INCLUDE", text |-> prevToken.text]

LexTold ==
    /\ InIncludeLine
    /\ Paired(tokens, includeLine)
    /\ \E before : Story(source, Len(oldStreams) + 1, FilesOpen, LexemesTold, before, Started(tokens))
    /\ newTokenList = <<>> /\ events = <<>>

PrepassTold ==
    /\ Paired(tokens, FALSE) /\ WholeHeard(tokens)
    /\ p \in 1 .. Len(tokens) + 1
    /\ newTokenList \in Seq(Token) /\ Paired(newTokenList, FALSE)
    /\ Heard(newTokenList) = Heard(SubSeq(tokens, 1, p - 1))
    /\ events = <<Call("start_of_file", Main)>>

ParseTold ==
    /\ \E tks \in Seq(Token) : tokens = Append(tks, Eof) /\ Paired(tks, FALSE)
    /\ WholeHeard(tokens)
    /\ p \in 1 .. Len(tokens) + 1
    /\ events = Started(SubSeq(tokens, 1, p - 1))

EndTold ==
    /\ IsPrefix(events, Expansion(source))
    /\ phase = "done" => events = Expansion(source)

ToldInv ==
    IncludeLinesEnd(source) =>
        /\ phase = "lex" => LexTold
        /\ phase = "prepass" => PrepassTold
        /\ phase = "parse" => ParseTold
        /\ phase \in {"done", "error", "crash"} => EndTold

LEMMA StartedFacts ==
    ASSUME NEW s \in Seq(Token)
    PROVE  /\ Started(s) \in Calls /\ <<Call("start_of_file", Main)>> \in Calls
           /\ \A t \in Token : Started(Append(s, t)) = Started(s) \o Hearing(t)
<1> DEFINE c == <<Call("start_of_file", Main)>>
<1>1. c \in Calls
  <2>1. Main \in Name
    BY IncludeAssumption DEF Name
  <2> QED
    BY <2>1, OneCall
<1>2. Heard(s) \in Calls
  BY HeardType
<1> HIDE DEF c
<1>3. c \o Heard(s) \in Calls
  BY <1>1, <1>2, CallsConcat
<1>4. ASSUME NEW t \in Token PROVE c \o Heard(Append(s, t)) = (c \o Heard(s)) \o Hearing(t)
  <2>1. Heard(Append(s, t)) = Heard(s) \o Hearing(t)
    BY HeardAppend
  <2>2. Hearing(t) \in Calls
    BY HearingType
  <2>3. (c \o Heard(s)) \o Hearing(t) = c \o (Heard(s) \o Hearing(t))
    BY <1>1, <1>2, <2>2, CallsAssociate
  <2> QED
    BY <2>1, <2>3
<1> QED
  BY <1>1, <1>3, <1>4 DEF Started, c

LEMMA PairedAppend ==
    ASSUME NEW s \in Seq(Token), NEW t \in Token, NEW open \in BOOLEAN, Paired(s, open),
           t.type # "EOF", open => t.type = "T_INCLUDE_NAME"
    PROVE  /\ t.type = "T_INCLUDE" => Paired(Append(s, t), TRUE)
           /\ t.type # "T_INCLUDE" => Paired(Append(s, t), FALSE)
<1> DEFINE n == Len(s)
           all == Append(s, t)
<1>1. /\ n \in Nat /\ Len(all) = n + 1 /\ all[n + 1] = t
      /\ \A i \in 1 .. n : all[i] = s[i]
  BY LenProperties, AppendProperties
<1> HIDE DEF all
<1>2. ASSUME NEW i \in 1 .. n + 1
      PROVE  /\ all[i].type # "EOF"
             /\ all[i].type = "T_INCLUDE" =>
                   IF i < n + 1 THEN all[i + 1].type = "T_INCLUDE_NAME" ELSE t.type = "T_INCLUDE"
  <2>3. CASE i = n + 1
    BY <1>1, <2>3
  <2>4. CASE i \in 1 .. n
    <3>1. all[i] = s[i] /\ i < n + 1
      BY <1>1, <2>4
    <3>2. s[i].type # "EOF" /\ (s[i].type = "T_INCLUDE" =>
             IF i < n THEN s[i + 1].type = "T_INCLUDE_NAME" ELSE open)
      BY <2>4 DEF Paired
    <3>3. i < n => i + 1 \in 1 .. n
      BY <1>1, <2>4
    <3>4. ~ (i < n) => i + 1 = n + 1
      BY <1>1, <2>4
    <3>5. s[i].type = "T_INCLUDE" => all[i + 1].type = "T_INCLUDE_NAME"
      <4>1. CASE i < n
        BY <1>1, <3>2, <3>3, <4>1
      <4>2. CASE ~ (i < n)
        BY <1>1, <3>2, <3>4, <4>2
      <4> QED
        BY <4>1, <4>2
    <3> QED
      BY <3>1, <3>2, <3>5
  <2>5. i = n + 1 \/ i \in 1 .. n
    BY <1>1
  <2> QED
    BY <2>3, <2>4, <2>5
<1>3. t.type = "T_INCLUDE" => Paired(all, TRUE)
  BY <1>1, <1>2 DEF Paired
<1>4. t.type # "T_INCLUDE" => Paired(all, FALSE)
  BY <1>1, <1>2 DEF Paired
<1> QED
  BY <1>3, <1>4 DEF all

LEMMA OpenFacts ==
    ASSUME LexerTypeOK
    PROVE  /\ Len(oldStreams) \in Nat /\ Len(oldStreams) + 1 \in 1 .. Len(oldStreams) + 1
           /\ FilesOpen[Len(oldStreams) + 1] = input.file
           /\ LexemesTold[Len(oldStreams) + 1] = input.index - (IF includeLine THEN 2 ELSE 1)
           /\ input.file \in File /\ input.index \in Nat \ {0}
           /\ source \in [File -> Seq(Lexeme)] /\ Len(source[input.file]) \in Nat
           /\ tokens \in Seq(Token)
<1>1. /\ oldStreams \in Seq(Stream) /\ input.file \in File /\ input.index \in Nat \ {0}
      /\ source \in [File -> Seq(Lexeme)] /\ tokens \in Seq(Token)
  BY StreamFacts DEF LexerTypeOK
<1>2. source[input.file] \in Seq(Lexeme)
  BY <1>1
<1>3. Len(oldStreams) \in Nat /\ Len(source[input.file]) \in Nat
  BY <1>1, <1>2, LenProperties
<1> DEFINE n == Len(oldStreams)
           m == n + 1
<1>4. m \in 1 .. m /\ ~ (m <= n)
  BY <1>3
<1>5. FilesOpen = [i \in 1 .. m |-> IF i <= n THEN oldStreams[i].file ELSE input.file]
  BY DEF FilesOpen
<1>6. LexemesTold = [i \in 1 .. m |-> IF i <= n THEN oldStreams[i].index - 3
                                      ELSE input.index - (IF includeLine THEN 2 ELSE 1)]
  BY DEF LexemesTold
<1> HIDE DEF m
<1>7. FilesOpen[m] = input.file /\ LexemesTold[m] = input.index - (IF includeLine THEN 2 ELSE 1)
  BY <1>4, <1>5, <1>6
<1> QED
  BY <1>1, <1>3, <1>4, <1>7 DEF m

(* In an INCLUDE line, the lexer is in front of its T_EOS.                   *)
LEMMA BehindName ==
    ASSUME LexerTypeOK, IncludeLinesEnd(source), InIncludeLine, includeLine
    PROVE  /\ ~ AtEof /\ NextLexeme.type = "T_EOS" /\ prevToken.type = "T_CHAR_CONSTANT"
           /\ input.index > 1 /\ input.index <= Len(source[input.file])
           /\ source[input.file][input.index - 1] = [type |-> "T_INCLUDE", text |-> prevToken.text]
           /\ source[input.file][input.index].type = "T_EOS"
<1> DEFINE s == source[input.file]
           k == input.index - 1
<1>1. /\ input.file \in File /\ input.index \in Nat \ {0} /\ Len(s) \in Nat
  BY OpenFacts
<1>2. /\ prevToken.type = "T_CHAR_CONSTANT" /\ input.index > 1 /\ input.index <= Len(s) + 1
      /\ s[k] = [type |-> "T_INCLUDE", text |-> prevToken.text]
  BY DEF InIncludeLine
<1>3. k \in 1 .. Len(s) /\ k + 1 = input.index
  BY <1>1, <1>2
<1> HIDE DEF k
<1>4. k < Len(s) /\ s[k + 1].type = "T_EOS"
  BY <1>1, <1>2, <1>3 DEF IncludeLinesEnd
<1>5. input.index <= Len(s)
  BY <1>1, <1>3, <1>4
<1> QED
  BY <1>1, <1>2, <1>3, <1>4, <1>5 DEF AtEof, NextLexeme, k

(* The lexer reads one more lexeme that opens no file.                       *)
LEMMA ReadOn ==
    ASSUME LexerTypeOK, ~ includeLine, ~ AtEof,
           ~ (NextLexeme.type = "T_INCLUDE" /\ NextLexeme.text \in File),
           NEW before, Story(source, Len(oldStreams) + 1, FilesOpen, LexemesTold, before, Started(tokens)),
           source' = source, oldStreams' = oldStreams, input' = Consumed, includeLine' = FALSE,
           Started(tokens') = Started(tokens) \o CallsOf(NextLexeme, Told(source))
    PROVE  Story(source', Len(oldStreams') + 1, FilesOpen', LexemesTold', before, Started(tokens'))
<1> DEFINE n == Len(oldStreams)
           m == n + 1
           k == input.index
           f == input.file
<1>1. /\ n \in Nat /\ m \in 1 .. m /\ FilesOpen[m] = f /\ LexemesTold[m] = k - 1
      /\ f \in File /\ k \in Nat \ {0} /\ source \in [File -> Seq(Lexeme)] /\ Len(source[f]) \in Nat
  BY OpenFacts
<1>2. k \in 1 .. Len(source[f]) /\ k = LexemesTold[m] + 1 /\ NextLexeme = source[f][k]
  BY <1>1 DEF AtEof, NextLexeme
<1>3. Consumed.file = f /\ Consumed.index = k + 1
  BY <1>1 DEF LexerTypeOK, Consumed, Stream
<1>4. FilesOpen' = FilesOpen
  BY <1>3 DEF FilesOpen
<1>5. LexemesTold' = [LexemesTold EXCEPT ![m] = k]
  <2>1. LexemesTold = [i \in 1 .. m |-> IF i <= n THEN oldStreams[i].index - 3 ELSE k - 1]
    BY DEF LexemesTold
  <2>2. LexemesTold' = [i \in 1 .. m |-> IF i <= n THEN oldStreams[i].index - 3 ELSE (k + 1) - 1]
    BY <1>3 DEF LexemesTold
  <2>3. (k + 1) - 1 = k /\ ~ (m <= n) /\ \A i \in 1 .. m : i # m => i <= n
    BY <1>1
  <2> HIDE DEF m, n, k
  <2> QED
    BY <2>1, <2>2, <2>3
<1>6. Story(source, m, FilesOpen, [LexemesTold EXCEPT ![m] = k], before,
            Started(tokens) \o CallsOf(source[f][k], Told(source)))
  <2> DEFINE told == Started(tokens)
  <2>1. Story(source, m, FilesOpen, LexemesTold, before, told)
    OBVIOUS
  <2>2. ~ (source[FilesOpen[m]][k].type = "T_INCLUDE" /\ source[FilesOpen[m]][k].text \in File)
    BY <1>1, <1>2
  <2>3. k \in 1 .. Len(source[FilesOpen[m]])
    BY <1>1, <1>2
  <2> HIDE DEF told, m, k
  <2>4. Story(source, m, FilesOpen, [LexemesTold EXCEPT ![m] = k], before,
              told \o CallsOf(source[FilesOpen[m]][k], Told(source)))
    BY <1>1, <1>2, <2>1, <2>2, <2>3, StoryRead
  <2> QED
    BY <1>1, <2>4 DEF told
<1>7. Len(oldStreams') + 1 = m
  OBVIOUS
<1> HIDE DEF m, k, f
<1> QED
  BY <1>2, <1>4, <1>5, <1>6, <1>7

LEMMA ToldStatement ==
    ASSUME BufferInv, IncludeLinesEnd(source), LexTold, LexStatement, newTokenList' = <<>>, events' = <<>>
    PROVE  LexTold'
<1>1. LexerTypeOK /\ tokens \in Seq(Token)
  BY OpenFacts DEF BufferInv
<1>2. ~ AtEof /\ NextLexeme.type = "T_STMT" /\ NextLexeme \in Lexeme
  BY <1>1, StreamFacts DEF LexStatement, Reads
<1>3. ~ includeLine
  BY <1>1, <1>2, BehindName DEF LexTold
<1>4. NextLexeme \in Token
  BY <1>2 DEF Lexeme, Token, TokenType
<1>5. /\ source' = source /\ oldStreams' = oldStreams /\ input' = Consumed /\ includeLine' = FALSE
      /\ tokens' = Append(tokens, NextLexeme)
  BY <1>1, <1>3 DEF LexStatement, LexerTypeOK
<1>6. Paired(tokens', FALSE)
  <2>1. Paired(tokens, FALSE)
    BY <1>1, <1>3 DEF LexTold, LexerTypeOK
  <2> QED
    BY <1>1, <1>2, <1>4, <1>5, <2>1, PairedAppend
<1>7. Started(tokens') = Started(tokens) \o CallsOf(NextLexeme, Told(source))
  <2>1. Hearing(NextLexeme) = CallsOf(NextLexeme, Told(source))
    BY <1>2 DEF Hearing, CallsOf
  <2> QED
    BY <1>1, <1>4, <1>5, <2>1, StartedFacts
<1>8. PICK before : Story(source, Len(oldStreams) + 1, FilesOpen, LexemesTold, before, Started(tokens))
  BY DEF LexTold
<1>9. Story(source', Len(oldStreams') + 1, FilesOpen', LexemesTold', before, Started(tokens'))
  BY <1>1, <1>2, <1>3, <1>5, <1>7, <1>8, ReadOn
<1> QED
  BY <1>5, <1>6, <1>9 DEF LexTold, InIncludeLine

LEMMA ToldInclude ==
    ASSUME BufferInv, IncludeLinesEnd(source), LexTold, LexInclude, newTokenList' = <<>>, events' = <<>>
    PROVE  LexTold'
<1> DEFINE t == [type |-> "T_INCLUDE", text |-> NoText]
<1>1. /\ LexerTypeOK /\ tokens \in Seq(Token) /\ input.index \in Nat \ {0} /\ input.file \in File
      /\ Len(source[input.file]) \in Nat
  BY OpenFacts DEF BufferInv
<1>2. ~ AtEof /\ NextLexeme.type = "T_INCLUDE" /\ NextLexeme \in Lexeme
  BY <1>1, StreamFacts DEF LexInclude, Reads
<1>3. ~ includeLine
  BY <1>1, <1>2, BehindName DEF LexTold
<1>4. t \in Token /\ t.type = "T_INCLUDE" /\ Hearing(t) = <<>>
  BY DEF Token, TokenType, Hearing
<1>5. /\ source' = source /\ oldStreams' = oldStreams /\ input' = Consumed /\ includeLine' = TRUE
      /\ tokens' = Append(tokens, t)
      /\ prevToken' = [type |-> "T_CHAR_CONSTANT", text |-> NextLexeme.text]
  BY DEF LexInclude
<1> HIDE DEF t
<1>6. Consumed.file = input.file /\ Consumed.index = input.index + 1
  BY <1>1 DEF LexerTypeOK, Consumed, Stream
<1>7. Paired(tokens', TRUE)
  <2>1. Paired(tokens, FALSE)
    BY <1>1, <1>3 DEF LexTold, LexerTypeOK
  <2> QED
    BY <1>1, <1>4, <1>5, <2>1, PairedAppend
<1>8. Started(tokens') = Started(tokens)
  <2>1. Started(tokens') = Started(tokens) \o <<>> /\ Started(tokens) \in Calls
    BY <1>1, <1>4, <1>5, StartedFacts
  <2> QED
    BY <2>1, CallsConcat
<1>9. FilesOpen' = FilesOpen /\ LexemesTold' = LexemesTold
  <2>1. FilesOpen' = FilesOpen
    BY <1>5, <1>6 DEF FilesOpen
  <2>2. (input.index + 1) - 2 = input.index - 1
    BY <1>1
  <2>3. input'.index - (IF includeLine' THEN 2 ELSE 1) = input.index - (IF includeLine THEN 2 ELSE 1)
    BY <1>3, <1>5, <1>6, <2>2
  <2>4. LexemesTold' = LexemesTold
    BY <1>5, <2>3 DEF LexemesTold
  <2> QED
    BY <2>1, <2>4
<1>10. InIncludeLine'
  <2>1. input'.index > 1 /\ input'.index <= Len(source[input.file]) + 1
        /\ input'.index - 1 = input.index
    BY <1>1, <1>2, <1>5, <1>6 DEF AtEof
  <2>2. NextLexeme = [type |-> "T_INCLUDE", text |-> NextLexeme.text]
    BY <1>2 DEF Lexeme
  <2>3. source'[input'.file][input'.index - 1] = [type |-> "T_INCLUDE", text |-> prevToken'.text]
    BY <1>5, <1>6, <2>1, <2>2 DEF NextLexeme
  <2> QED
    BY <1>5, <1>6, <2>1, <2>3 DEF InIncludeLine
<1>11. PICK before : Story(source, Len(oldStreams) + 1, FilesOpen, LexemesTold, before, Started(tokens))
  BY DEF LexTold
<1>12. Story(source', Len(oldStreams') + 1, FilesOpen', LexemesTold', before, Started(tokens'))
  BY <1>5, <1>8, <1>9, <1>11
<1> QED
  BY <1>5, <1>7, <1>10, <1>12 DEF LexTold

LEMMA ToldEos ==
    ASSUME BufferInv, IncludeLinesEnd(source), LexTold, LexEos, newTokenList' = <<>>, events' = <<>>
    PROVE  LexTold'
<1>1. LexerTypeOK /\ tokens \in Seq(Token)
  BY OpenFacts DEF BufferInv
<1>2. ~ AtEof /\ NextLexeme.type = "T_EOS" /\ ~ includeLine
  BY DEF LexEos, Reads
<1>3. /\ source' = source /\ oldStreams' = oldStreams /\ input' = Consumed /\ includeLine' = FALSE
      /\ tokens' = tokens \/ tokens' = Append(tokens, Eos)
  BY <1>1, <1>2 DEF LexEos, LexerTypeOK
<1>4. Eos \in Token /\ Eos.type = "T_EOS" /\ Hearing(Eos) = <<>>
  BY DEF Eos, Token, TokenType, Hearing
<1>5. Paired(tokens', FALSE)
  <2>1. Paired(tokens, FALSE)
    BY <1>1, <1>2 DEF LexTold, LexerTypeOK
  <2>2. Paired(Append(tokens, Eos), FALSE)
    BY <1>1, <1>4, <2>1, PairedAppend
  <2> QED
    BY <1>3, <2>1, <2>2
<1>6. Started(tokens') = Started(tokens) \o CallsOf(NextLexeme, Told(source))
  <2>1. CallsOf(NextLexeme, Told(source)) = <<>>
    BY <1>2 DEF CallsOf
  <2>2. Started(tokens) \in Calls /\ Started(Append(tokens, Eos)) = Started(tokens) \o <<>>
    BY <1>1, <1>4, StartedFacts
  <2>3. Started(tokens) \o <<>> = Started(tokens)
    BY <2>2, CallsConcat
  <2> QED
    BY <1>3, <2>1, <2>2, <2>3
<1>7. PICK before : Story(source, Len(oldStreams) + 1, FilesOpen, LexemesTold, before, Started(tokens))
  BY DEF LexTold
<1>8. Story(source', Len(oldStreams') + 1, FilesOpen', LexemesTold', before, Started(tokens'))
  BY <1>1, <1>2, <1>3, <1>6, <1>7, ReadOn
<1> QED
  BY <1>3, <1>5, <1>8 DEF LexTold, InIncludeLine

LEMMA ToldIncludeFile ==
    ASSUME BufferInv, IncludeLinesEnd(source), LexTold, LexIncludeFile,
           newTokenList' = <<>>, events' = <<>>
    PROVE  LexTold'
<1> DEFINE g == prevToken.text
           t == [type |-> "T_INCLUDE_NAME", text |-> g]
           n == Len(oldStreams)
           m == n + 1
           f == input.file
           k == input.index
<1>1. /\ LexerTypeOK /\ n \in Nat /\ m \in 1 .. m /\ FilesOpen[m] = f
      /\ LexemesTold[m] = k - (IF includeLine THEN 2 ELSE 1)
      /\ f \in File /\ k \in Nat \ {0} /\ source \in [File -> Seq(Lexeme)]
      /\ Len(source[f]) \in Nat /\ tokens \in Seq(Token)
  BY OpenFacts DEF BufferInv
<1>2. /\ includeLine = TRUE /\ g \in File /\ source' = source /\ includeLine' = FALSE
      /\ oldStreams' = Append(oldStreams, Consumed) /\ input' = Opened(g)
      /\ tokens' = Append(tokens, t)
  BY <1>1 DEF LexIncludeFile, PushStream, SetIncludeName, LexerTypeOK
<1>3. /\ k > 1 /\ k <= Len(source[f])
      /\ source[f][k - 1] = [type |-> "T_INCLUDE", text |-> g]
      /\ source[f][k].type = "T_EOS"
  BY <1>1, <1>2, BehindName DEF LexTold
<1>4. t \in Token /\ t.type = "T_INCLUDE_NAME" /\ Hearing(t) = <<Call("start_of_file", g)>>
  BY <1>2 DEF Token, TokenType, Name, Hearing
<1>5. Consumed.file = f /\ Consumed.index = k + 1 /\ Consumed \in Stream
  BY <1>1, StreamFacts DEF LexerTypeOK, Consumed, Stream
<1>6. Opened(g).file = g /\ Opened(g).index = 1
  BY DEF Opened
<1>7. /\ Len(oldStreams') = m /\ oldStreams'[m] = Consumed
      /\ \A i \in 1 .. n : oldStreams'[i] = oldStreams[i]
  BY <1>1, <1>2, <1>5, AppendProperties DEF LexerTypeOK
<1> HIDE DEF t
<1>8. Paired(tokens', FALSE)
  <2>1. Paired(tokens, TRUE)
    BY <1>2 DEF LexTold
  <2> QED
    BY <1>1, <1>2, <1>4, <2>1, PairedAppend
<1>9. Started(tokens') = Started(tokens) \o <<Call("start_of_file", g)>>
  BY <1>1, <1>2, <1>4, StartedFacts
<1>10. FilesOpen' = [i \in 1 .. m + 1 |-> IF i <= m THEN FilesOpen[i] ELSE g]
  <2>1. FilesOpen' = [i \in 1 .. m + 1 |-> IF i <= m THEN oldStreams'[i].file ELSE g]
    BY <1>2, <1>6, <1>7 DEF FilesOpen
  <2>2. FilesOpen = [i \in 1 .. m |-> IF i <= n THEN oldStreams[i].file ELSE f]
    BY DEF FilesOpen
  <2>3. \A i \in 1 .. m + 1 : i <= m => i \in 1 .. n \/ i = m
    BY <1>1
  <2>4. \A i \in 1 .. n : i \in 1 .. m /\ i <= n
    BY <1>1
  <2> HIDE DEF m, n, f
  <2>5. \A i \in 1 .. n : FilesOpen[i] = oldStreams[i].file
    BY <2>2, <2>4
  <2>6. \A i \in 1 .. m + 1 : i <= m => oldStreams'[i].file = FilesOpen[i]
    BY <1>1, <1>5, <1>7, <2>3, <2>5
  <2> QED
    BY <2>1, <2>6
<1>11. LexemesTold' = [i \in 1 .. m + 1 |-> IF i <= m THEN LexemesTold[i] ELSE 0]
  <2>0. input'.index - (IF includeLine' THEN 2 ELSE 1) = 0
    BY <1>2, <1>6
  <2>1. LexemesTold' = [i \in 1 .. m + 1 |-> IF i <= m THEN oldStreams'[i].index - 3 ELSE 0]
    BY <1>7, <2>0 DEF LexemesTold
  <2>2. LexemesTold = [i \in 1 .. m |-> IF i <= n THEN oldStreams[i].index - 3
                                         ELSE k - (IF includeLine THEN 2 ELSE 1)]
    BY DEF LexemesTold
  <2>3. \A i \in 1 .. m + 1 : i <= m => i \in 1 .. n \/ i = m
    BY <1>1
  <2>4. \A i \in 1 .. n : i \in 1 .. m /\ i <= n
    BY <1>1
  <2>5. LexemesTold[m] = k - 2 /\ (k + 1) - 3 = k - 2
    BY <1>1, <1>2
  <2> HIDE DEF m, n, k
  <2>6. \A i \in 1 .. n : LexemesTold[i] = oldStreams[i].index - 3
    BY <2>2, <2>4
  <2>7. oldStreams'[m].index - 3 = LexemesTold[m]
    BY <1>5, <1>7, <2>5
  <2>8. \A i \in 1 .. m + 1 : i <= m => oldStreams'[i].index - 3 = LexemesTold[i]
    BY <1>7, <2>3, <2>6, <2>7
  <2> QED
    BY <2>1, <2>8
<1>12. PICK before : Story(source, m, FilesOpen, LexemesTold, before, Started(tokens))
  BY DEF LexTold
<1>13. \E more : Story(source, m + 1, FilesOpen', LexemesTold', more, Started(tokens'))
  <2> DEFINE told == Started(tokens)
             j == LexemesTold[m]
  <2>1. j = k - 2 /\ j + 1 = k - 1 /\ j + 2 = k
    <3>1. k \in Nat /\ j = k - 2
      BY <1>1, <1>2
    <3> HIDE DEF j, k
    <3> QED
      BY <3>1
  <2>2. /\ j + 2 <= Len(source[FilesOpen[m]])
        /\ source[FilesOpen[m]][j + 1] = [type |-> "T_INCLUDE", text |-> g]
        /\ source[FilesOpen[m]][j + 2].type = "T_EOS"
    BY <1>1, <1>3, <2>1
  <2> HIDE DEF m, told, g
  <2>3. \E more : Story(source, m + 1,
                        [i \in 1 .. m + 1 |-> IF i <= m THEN FilesOpen[i] ELSE g],
                        [i \in 1 .. m + 1 |-> IF i <= m THEN LexemesTold[i] ELSE 0],
                        more, told \o <<Call("start_of_file", g)>>)
    BY <1>1, <1>2, <1>12, <2>2, StoryEnter DEF told
  <2> QED
    BY <1>9, <1>10, <1>11, <2>3 DEF told
<1>14. Len(oldStreams') + 1 = m + 1
  BY <1>7
<1> HIDE DEF m
<1> QED
  BY <1>2, <1>8, <1>13, <1>14 DEF LexTold, InIncludeLine

LEMMA ToldIncludeFails ==
    ASSUME BufferInv, IncludeLinesEnd(source), LexTold, LexIncludeFails,
           newTokenList' = <<>>, events' = <<>>
    PROVE  LexTold'
<1> DEFINE g == prevToken.text
           t == [type |-> "T_INCLUDE_NAME", text |-> g]
           n == Len(oldStreams)
           m == n + 1
           f == input.file
           k == input.index
           a == k - 1
<1>1. /\ LexerTypeOK /\ n \in Nat /\ m \in 1 .. m /\ FilesOpen[m] = f
      /\ LexemesTold[m] = k - (IF includeLine THEN 2 ELSE 1)
      /\ f \in File /\ k \in Nat \ {0} /\ source \in [File -> Seq(Lexeme)]
      /\ Len(source[f]) \in Nat /\ tokens \in Seq(Token)
  BY OpenFacts DEF BufferInv
<1>2. includeLine = TRUE
  BY <1>1 DEF LexIncludeFails, LexerTypeOK
<1>3. /\ k > 1 /\ k <= Len(source[f]) /\ prevToken.type = "T_CHAR_CONSTANT"
      /\ source[f][a] = [type |-> "T_INCLUDE", text |-> g]
      /\ source[f][k].type = "T_EOS"
  BY <1>1, <1>2, BehindName DEF LexTold
<1>4. g \notin File /\ SetIncludeName(g)
  BY <1>3 DEF LexIncludeFails
<1>5. /\ source' = source /\ includeLine' = FALSE /\ oldStreams' = oldStreams /\ input' = Consumed
      /\ tokens' = Append(tokens, t)
  BY <1>4 DEF LexIncludeFails, SetIncludeName
<1>6. g \in Name /\ t \in Token /\ t.type = "T_INCLUDE_NAME"
      /\ Hearing(t) = <<Call("start_of_file", g)>>
  <2>1. a \in 1 .. Len(source[f]) /\ source[f] \in Seq(Lexeme)
    BY <1>1, <1>3
  <2>2. source[f][a] \in Lexeme
    BY <2>1, ElementOfSeq
  <2>3. g \in Name
    BY <1>3, <2>2 DEF Lexeme
  <2> QED
    BY <2>3 DEF Token, TokenType, Hearing
<1>7. Consumed.file = f /\ Consumed.index = k + 1
  BY <1>1 DEF LexerTypeOK, Consumed, Stream
<1> HIDE DEF t
<1>8. Paired(tokens', FALSE)
  <2>1. Paired(tokens, TRUE)
    BY <1>2 DEF LexTold
  <2> QED
    BY <1>1, <1>5, <1>6, <2>1, PairedAppend
<1>9. Started(tokens') = Started(tokens) \o <<Call("start_of_file", g)>> /\ Started(tokens') \in Calls
  <2>1. tokens' \in Seq(Token)
    BY <1>1, <1>5, <1>6, AppendProperties
  <2> QED
    BY <1>1, <1>5, <1>6, <2>1, StartedFacts
<1>10. FilesOpen' = FilesOpen
  BY <1>5, <1>7 DEF FilesOpen
<1>11. LexemesTold' = [[LexemesTold EXCEPT ![m] = a] EXCEPT ![m] = k]
  <2>1. LexemesTold = [i \in 1 .. m |-> IF i <= n THEN oldStreams[i].index - 3
                                         ELSE k - (IF includeLine THEN 2 ELSE 1)]
    BY DEF LexemesTold
  <2>2. LexemesTold' = [i \in 1 .. m |-> IF i <= n THEN oldStreams[i].index - 3 ELSE (k + 1) - 1]
    BY <1>5, <1>7 DEF LexemesTold
  <2>3. (k + 1) - 1 = k /\ ~ (m <= n) /\ \A i \in 1 .. m : i # m => i <= n
    BY <1>1
  <2> HIDE DEF m, n, k, a
  <2> QED
    BY <2>1, <2>2, <2>3
<1>12. PICK before : Story(source, m, FilesOpen, LexemesTold, before, Started(tokens))
  BY DEF LexTold
<1> DEFINE told == Started(tokens)
           c == <<Call("start_of_file", g)>>
           mid == [LexemesTold EXCEPT ![m] = a]
<1>13. /\ a \in 1 .. Len(source[f]) /\ a = LexemesTold[m] + 1
       /\ k \in 1 .. Len(source[f]) /\ k = a + 1 /\ a \in Nat
  BY <1>1, <1>2, <1>3
<1>14. CallsOf(source[f][a], Told(source)) = c /\ CallsOf(source[f][k], Told(source)) = <<>>
  BY <1>3, <1>4 DEF CallsOf
<1>15. Story(source, m, FilesOpen, mid, before, told \o c)
  <2>1. ~ (source[f][a].type = "T_INCLUDE" /\ source[f][a].text \in File)
    BY <1>3, <1>4
  <2> HIDE DEF m, a, c, told
  <2>2. Story(source, m, FilesOpen, mid, before, told \o CallsOf(source[FilesOpen[m]][a], Told(source)))
    BY <1>1, <1>12, <1>13, <2>1, StoryRead DEF told
  <2> QED
    BY <1>1, <1>14, <2>2
<1>16. mid[m] = a
  <2>1. LexemesTold \in [1 .. m -> Nat]
    BY <1>12 DEF Story
  <2> QED
    BY <1>1, <1>13, <2>1
<1>17. Story(source, m, FilesOpen, [mid EXCEPT ![m] = k], before, (told \o c) \o <<>>)
  <2>1. ~ (source[f][k].type = "T_INCLUDE" /\ source[f][k].text \in File)
    BY <1>3
  <2> HIDE DEF m, a, c, told, mid, k
  <2> DEFINE all == told \o c
  <2>2. Story(source, m, FilesOpen, mid, before, all)
    BY <1>15
  <2> HIDE DEF all
  <2>3. Story(source, m, FilesOpen, [mid EXCEPT ![m] = k], before,
              all \o CallsOf(source[FilesOpen[m]][k], Told(source)))
    BY <1>1, <1>13, <1>16, <2>1, <2>2, StoryRead
  <2> QED
    BY <1>1, <1>14, <2>3 DEF all
<1>18. (told \o c) \o <<>> = Started(tokens')
  BY <1>9, CallsConcat
<1> HIDE DEF m, a, c, told, k
<1>19. Story(source', m, FilesOpen', LexemesTold', before, Started(tokens'))
  BY <1>5, <1>10, <1>11, <1>17, <1>18
<1>20. Len(oldStreams') + 1 = m
  BY <1>5 DEF m
<1> QED
  BY <1>5, <1>8, <1>19, <1>20 DEF LexTold, InIncludeLine

LEMMA ToldEof ==
    ASSUME BufferInv, IncludeLinesEnd(source), LexTold, PopStream, newTokenList' = <<>>, events' = <<>>
    PROVE  LexTold'
<1> DEFINE f == input.file
           t == [type |-> "T_EOF", text |-> f]
           n == Len(oldStreams)
           m == n + 1
           k == input.index
           old == oldStreams[n]
<1>1. /\ LexerTypeOK /\ n \in Nat /\ m \in 1 .. m /\ FilesOpen[m] = f
      /\ LexemesTold[m] = k - (IF includeLine THEN 2 ELSE 1)
      /\ f \in File /\ k \in Nat \ {0} /\ source \in [File -> Seq(Lexeme)]
      /\ Len(source[f]) \in Nat /\ tokens \in Seq(Token) /\ oldStreams \in Seq(Stream)
  BY OpenFacts DEF BufferInv, LexerTypeOK
<1>2. AtEof /\ oldStreams # <<>>
  BY DEF PopStream
<1>3. ~ includeLine
  BY <1>1, <1>2, BehindName DEF LexTold
<1>4. /\ source' = source /\ includeLine' = FALSE /\ tokens' = Append(tokens, t)
      /\ input' = old /\ oldStreams' = SubSeq(oldStreams, 1, n - 1)
  BY <1>1, <1>3 DEF PopStream, LexerTypeOK, Last, Front
<1>5. t \in Token /\ t.type = "T_EOF" /\ Hearing(t) = <<Call("end_of_file", f)>>
  BY <1>1 DEF Token, TokenType, Name, Hearing
<1> HIDE DEF t
<1>6. n \in Nat \ {0} /\ n \in 1 .. n /\ m - 1 = n /\ m > 1 /\ n - 1 \in Nat /\ n \in 1 .. m
  <2>1. n \in Nat \ {0}
    BY <1>1, <1>2, EmptySeq
  <2> QED
    BY <2>1
<1>7. old \in Stream /\ old.file \in File /\ old.index \in Nat
  <2>1. old \in Stream
    BY <1>1, <1>6, ElementOfSeq
  <2> QED
    BY <2>1 DEF Stream
<1>8. Len(oldStreams') = n - 1 /\ \A i \in 1 .. n - 1 : oldStreams'[i] = oldStreams[i]
  <2> DEFINE d == n - 1
  <2>1. d \in Nat /\ \A i \in 1 .. d : i \in 1 .. n
    BY <1>6
  <2>2. \A i \in 1 .. d : oldStreams[i] \in Stream
    BY <1>1, <2>1, ElementOfSeq
  <2>3. oldStreams' = SubSeq(oldStreams, 1, d)
    BY <1>4
  <2> HIDE DEF d
  <2>4. /\ Len(oldStreams') = IF 1 <= d THEN d - 1 + 1 ELSE 0
        /\ \A i \in 1 .. d - 1 + 1 : oldStreams'[i] = oldStreams[1 + i - 1]
    BY <2>1, <2>2, <2>3, SubSeqProperties
  <2>5. Len(oldStreams') = d /\ \A i \in 1 .. d : oldStreams'[i] = oldStreams[i]
    BY <2>1, <2>4
  <2> QED
    BY <2>5 DEF d
<1>9. Paired(tokens', FALSE)
  <2>1. Paired(tokens, FALSE)
    BY <1>1, <1>3 DEF LexTold, LexerTypeOK
  <2> QED
    BY <1>1, <1>4, <1>5, <2>1, PairedAppend
<1>10. Started(tokens') = Started(tokens) \o <<Call("end_of_file", f)>>
  BY <1>1, <1>4, <1>5, StartedFacts
<1>11. PICK before : Story(source, m, FilesOpen, LexemesTold, before, Started(tokens))
  BY DEF LexTold
<1>12. LexemesTold[m] = Len(source[FilesOpen[m]])
  <2> DEFINE l == Len(source[f])
             r == LexemesTold[m]
  <2>1. r = k - 1 /\ k > l /\ l \in Nat /\ k \in Nat
    BY <1>1, <1>2, <1>3 DEF AtEof
  <2>2. r <= Len(source[FilesOpen[m]])
    BY <1>1, <1>11 DEF Story
  <2>3. Len(source[FilesOpen[m]]) = l
    BY <1>1
  <2> HIDE DEF m, l, r, k
  <2>4. r = l
    BY <2>1, <2>2, <2>3
  <2> QED
    BY <2>3, <2>4 DEF r
<1>13. /\ Len(oldStreams') + 1 = n
       /\ \A i \in 1 .. n : (i <= n - 1 <=> i # n) /\ i <= n /\ i \in 1 .. m
                           /\ (i # n => i \in 1 .. n - 1)
  <2>1. Len(oldStreams') + 1 = n
    BY <1>6, <1>8
  <2> HIDE DEF n
  <2>2. \A i \in 1 .. n : (i <= n - 1 <=> i # n) /\ i <= n /\ i \in 1 .. n + 1
                         /\ (i # n => i \in 1 .. n - 1)
    BY <1>6
  <2> QED
    BY <2>1, <2>2
<1>14. FilesOpen' = [i \in 1 .. n |-> FilesOpen[i]]
  <2>1. FilesOpen' = [i \in 1 .. n |-> IF i <= n - 1 THEN oldStreams'[i].file ELSE old.file]
    BY <1>4, <1>8, <1>13 DEF FilesOpen
  <2>2. FilesOpen = [i \in 1 .. m |-> IF i <= n THEN oldStreams[i].file ELSE f]
    BY DEF FilesOpen
  <2> HIDE DEF m, f
  <2>3. \A i \in 1 .. n : FilesOpen[i] = oldStreams[i].file
    BY <1>13, <2>2
  <2>4. \A i \in 1 .. n : (IF i <= n - 1 THEN oldStreams'[i].file ELSE old.file) = oldStreams[i].file
    BY <1>8, <1>13
  <2> QED
    BY <2>1, <2>3, <2>4
<1>15. LexemesTold' = [i \in 1 .. n |-> IF i = n THEN LexemesTold[i] + 2 ELSE LexemesTold[i]]
  <2>1. LexemesTold' = [i \in 1 .. n |-> IF i <= n - 1 THEN oldStreams'[i].index - 3 ELSE old.index - 1]
    BY <1>4, <1>8, <1>13 DEF LexemesTold
  <2>2. LexemesTold = [i \in 1 .. m |-> IF i <= n THEN oldStreams[i].index - 3
                                         ELSE k - (IF includeLine THEN 2 ELSE 1)]
    BY DEF LexemesTold
  <2> HIDE DEF m, k
  <2>3. \A i \in 1 .. n : LexemesTold[i] = oldStreams[i].index - 3
    BY <1>13, <2>2
  <2>4. LexemesTold[n] + 2 = old.index - 1
    BY <1>6, <1>7, <2>3
  <2>5. \A i \in 1 .. n : (IF i <= n - 1 THEN oldStreams'[i].index - 3 ELSE old.index - 1)
                          = IF i = n THEN LexemesTold[i] + 2 ELSE LexemesTold[i]
    BY <1>8, <1>13, <2>3, <2>4
  <2> QED
    BY <2>1, <2>5
<1>16. Story(source, n, [i \in 1 .. n |-> FilesOpen[i]],
             [i \in 1 .. n |-> IF i = n THEN LexemesTold[i] + 2 ELSE LexemesTold[i]],
             [i \in 1 .. n |-> before[i]], Started(tokens) \o <<Call("end_of_file", f)>>)
  <2> DEFINE told == Started(tokens)
  <2> HIDE DEF told, m
  <2>1. Story(source, m - 1, [i \in 1 .. m - 1 |-> FilesOpen[i]],
              [i \in 1 .. m - 1 |-> IF i = m - 1 THEN LexemesTold[i] + 2 ELSE LexemesTold[i]],
              [i \in 1 .. m - 1 |-> before[i]], told \o <<Call("end_of_file", FilesOpen[m])>>)
    BY <1>1, <1>6, <1>11, <1>12, StoryLeave DEF told
  <2> QED
    BY <1>1, <1>6, <2>1 DEF told
<1> DEFINE less == [i \in 1 .. n |-> before[i]]
<1> HIDE DEF less, n, m
<1>17. Story(source', n, FilesOpen', LexemesTold', less, Started(tokens'))
  BY <1>4, <1>10, <1>14, <1>15, <1>16 DEF less
<1>18. InIncludeLine'
  BY <1>4 DEF InIncludeLine
<1> QED
  BY <1>4, <1>9, <1>13, <1>17, <1>18 DEF LexTold

LEMMA ToldEnd ==
    ASSUME BufferInv, IncludeLinesEnd(source), LexTold, phase = "lex", LexEof, UNCHANGED streamVars,
           events' = <<Call("start_of_file", Main)>>
    PROVE  PrepassTold'
<1> DEFINE f == input.file
           k == input.index
<1>1. /\ LexerTypeOK /\ Len(oldStreams) \in Nat /\ FilesOpen[Len(oldStreams) + 1] = f
      /\ LexemesTold[Len(oldStreams) + 1] = k - (IF includeLine THEN 2 ELSE 1)
      /\ f \in File /\ k \in Nat \ {0} /\ source \in [File -> Seq(Lexeme)]
      /\ Len(source[f]) \in Nat /\ tokens \in Seq(Token) /\ Len(tokens) \in Nat
  BY OpenFacts, LenProperties DEF BufferInv
<1>2. AtEof /\ oldStreams = <<>> /\ Len(oldStreams) = 0 /\ source' = source /\ tokens' = tokens
  BY DEF LexEof
<1>3. ~ includeLine
  BY <1>1, <1>2, BehindName DEF LexTold
<1>4. FilesOpen[1] = f /\ LexemesTold[1] = k - 1
  BY <1>1, <1>2, <1>3
<1>5. PICK before : Story(source, 1, FilesOpen, LexemesTold, before, Started(tokens))
  BY <1>2 DEF LexTold
<1>6. LexemesTold[1] = Len(source[FilesOpen[1]])
  <2>1. LexemesTold[1] <= Len(source[FilesOpen[1]])
    BY <1>5 DEF Story
  <2> QED
    BY <1>1, <1>2, <1>4, <2>1 DEF AtEof
<1>7. WholeHeard(tokens)
  <2> DEFINE told == Started(tokens)
  <2> HIDE DEF told
  <2>1. Append(told, Call("end_of_file", Main)) = Expansion(source)
    BY <1>1, <1>5, <1>6, StoryEnd DEF told
  <2> QED
    BY <2>1 DEF WholeHeard, told
<1>8. Paired(tokens, FALSE)
  BY <1>1, <1>3 DEF LexTold, LexerTypeOK
<1>9. p = 1 /\ p' = 1 /\ newTokenList' = <<>> /\ newTokenList' \in Seq(Token) /\ 1 \in 1 .. Len(tokens) + 1
  <2>1. p = 1 /\ newTokenList = <<>>
    BY DEF BufferInv, LexerInv, LexTold
  <2> QED
    BY <1>1, <2>1, EmptySeq DEF streamVars
<1>10. Paired(<<>>, FALSE) /\ Heard(<<>>) = Heard(SubSeq(tokens, 1, 1 - 1))
  <2>1. SubSeq(tokens, 1, 0) = <<>> /\ 1 - 1 = 0
    BY SubSeqEmpty
  <2>2. 1 .. Len(<<>>) = {}
    BY EmptySeq
  <2> QED
    BY <2>1, <2>2 DEF Paired
<1>11. WholeHeard(tokens)'
  BY <1>2, <1>7 DEF WholeHeard
<1> QED
  BY <1>2, <1>8, <1>9, <1>10, <1>11 DEF PrepassTold

LEMMA PairedConcat ==
    ASSUME NEW s \in Seq(Token), NEW t \in Seq(Token), Paired(s, FALSE), Paired(t, FALSE)
    PROVE  s \o t \in Seq(Token) /\ Paired(s \o t, FALSE)
<1> DEFINE all == s \o t
           n == Len(s)
           m == Len(t)
<1>1. /\ n \in Nat /\ m \in Nat /\ all \in Seq(Token) /\ Len(all) = n + m
      /\ \A i \in 1 .. n + m : all[i] = IF i <= n THEN s[i] ELSE t[i - n]
  BY LenProperties, ConcatProperties
<1> HIDE DEF all
<1>2. ASSUME NEW i \in 1 .. n + m
      PROVE  /\ all[i].type # "EOF"
             /\ all[i].type = "T_INCLUDE" => i < n + m /\ all[i + 1].type = "T_INCLUDE_NAME"
  <2>1. CASE i <= n
    <3>1. i \in 1 .. n /\ all[i] = s[i]
      BY <1>1, <2>1
    <3>2. s[i].type # "EOF" /\ (s[i].type = "T_INCLUDE" => i < n /\ s[i + 1].type = "T_INCLUDE_NAME")
      BY <3>1 DEF Paired
    <3>3. i < n => i + 1 \in 1 .. n + m /\ i + 1 <= n /\ i < n + m
      BY <1>1
    <3> QED
      BY <1>1, <3>1, <3>2, <3>3
  <2>2. CASE ~ (i <= n)
    <3> DEFINE j == i - n
    <3>1. j \in 1 .. m /\ all[i] = t[j]
      BY <1>1, <2>2
    <3>2. t[j].type # "EOF" /\ (t[j].type = "T_INCLUDE" => j < m /\ t[j + 1].type = "T_INCLUDE_NAME")
      <4> HIDE DEF j
      <4> QED
        BY <3>1 DEF Paired
    <3>3. j < m => i + 1 \in 1 .. n + m /\ ~ (i + 1 <= n) /\ i < n + m /\ (i + 1) - n = j + 1
      BY <1>1, <2>2
    <3> HIDE DEF j
    <3> QED
      BY <1>1, <3>1, <3>2, <3>3
  <2> QED
    BY <2>1, <2>2
<1>3. Paired(all, FALSE)
  <2> HIDE DEF n, m
  <2> QED
    BY <1>1, <1>2 DEF Paired
<1> QED
  BY <1>1, <1>3 DEF all

(* A part of a paired sequence that does not end between the two.            *)
LEMMA PairedPart ==
    ASSUME NEW s \in Seq(Token), Paired(s, FALSE), NEW a \in 1 .. Len(s) + 1, NEW b \in a - 1 .. Len(s),
           b >= a /\ b < Len(s) => s[b].type # "T_INCLUDE"
    PROVE  SubSeq(s, a, b) \in Seq(Token) /\ Paired(SubSeq(s, a, b), FALSE)
<1> DEFINE part == SubSeq(s, a, b)
           n == b - a + 1
<1>1. Len(s) \in Nat /\ a \in Nat /\ b \in Int /\ a >= 1 /\ b <= Len(s) /\ n \in Nat /\ b >= a - 1
  BY LenProperties
<1>2. \A i \in a .. b : i \in 1 .. Len(s)
  BY <1>1
<1>3. \A i \in a .. b : s[i] \in Token
  BY <1>2, ElementOfSeq
<1>4. /\ part \in Seq(Token) /\ Len(part) = n
      /\ \A i \in 1 .. n : part[i] = s[a + i - 1]
  <2>1. /\ part \in Seq(Token) /\ Len(part) = IF a <= b THEN b - a + 1 ELSE 0
        /\ \A i \in 1 .. b - a + 1 : part[i] = s[a + i - 1]
    BY <1>1, <1>3, SubSeqProperties
  <2> HIDE DEF part
  <2> QED
    BY <1>1, <2>1
<1> HIDE DEF part
<1>5. ASSUME NEW i \in 1 .. n
      PROVE  /\ part[i].type # "EOF"
             /\ part[i].type = "T_INCLUDE" => i < n /\ part[i + 1].type = "T_INCLUDE_NAME"
  <2> DEFINE j == a + i - 1
  <2>1. j \in 1 .. Len(s) /\ j \in a .. b /\ (i < n <=> j < b) /\ (i < n => a + (i + 1) - 1 = j + 1)
        /\ (i < n => i + 1 \in 1 .. n) /\ b \in Nat
    BY <1>1
  <2>2. part[i] = s[j] /\ (i < n => part[i + 1] = s[a + (i + 1) - 1])
    BY <1>4, <2>1
  <2> HIDE DEF j, n
  <2>3. s[j].type # "EOF" /\ (s[j].type = "T_INCLUDE" => j < Len(s) /\ s[j + 1].type = "T_INCLUDE_NAME")
    BY <2>1 DEF Paired
  <2>4. s[j].type = "T_INCLUDE" => j < b
    <3>1. j = b \/ j < b
      BY <2>1
    <3>2. b >= a
      BY <1>1, <2>1
    <3> QED
      BY <2>3, <3>1, <3>2
  <2> QED
    BY <2>1, <2>2, <2>3, <2>4
<1>6. Paired(part, FALSE)
  <2> HIDE DEF n
  <2> QED
    BY <1>4, <1>5 DEF Paired
<1> QED
  BY <1>4, <1>6 DEF part

LEMMA HeardSplit ==
    ASSUME NEW s \in Seq(Token), NEW m \in 1 .. Len(s) + 1, NEW k \in m - 1 .. Len(s),
           NEW n \in k .. Len(s)
    PROVE  /\ SubSeq(s, m, k) \in Seq(Token) /\ SubSeq(s, k + 1, n) \in Seq(Token)
           /\ SubSeq(s, m, n) = SubSeq(s, m, k) \o SubSeq(s, k + 1, n)
           /\ Heard(SubSeq(s, m, n)) = Heard(SubSeq(s, m, k)) \o Heard(SubSeq(s, k + 1, n))
<1>1. SubSeq(s, m, k) \o SubSeq(s, k + 1, n) = SubSeq(s, m, n)
  BY ConcatAdjacentSubSeq
<1>2. Len(s) \in Nat
  BY LenProperties
<1>3. SubSeq(s, m, k) \in Seq(Token)
  <2>1. m \in Int /\ k \in Int /\ \A i \in m .. k : i \in 1 .. Len(s)
    BY <1>2
  <2>2. \A i \in m .. k : s[i] \in Token
    BY <2>1, ElementOfSeq
  <2> QED
    BY <2>1, <2>2, SubSeqProperties
<1>4. SubSeq(s, k + 1, n) \in Seq(Token)
  <2>1. k + 1 \in Int /\ n \in Int /\ \A i \in k + 1 .. n : i \in 1 .. Len(s)
    BY <1>2
  <2>2. \A i \in k + 1 .. n : s[i] \in Token
    BY <2>1, ElementOfSeq
  <2> QED
    BY <2>1, <2>2, SubSeqProperties
<1> QED
  BY <1>1, <1>3, <1>4, HeardConcat

(* The mark a statement gets is not heard, and is in no INCLUDE line.        *)
LEMMA MarkUnheard ==
    ASSUME NEW s \in Seq(Token), Paired(s, FALSE), NEW a \in 1 .. Len(s), s[a].type = "T_STMT"
    PROVE  /\ InsertAt(s, a, Mark) \in Seq(Token) /\ Paired(InsertAt(s, a, Mark), FALSE)
           /\ Heard(InsertAt(s, a, Mark)) = Heard(s)
<1> DEFINE left == SubSeq(s, 1, a - 1)
           right == SubSeq(s, a, Len(s))
           b == a - 1
<1>1. Len(s) \in Nat /\ b + 1 = a /\ b \in 0 .. Len(s) /\ 1 \in 1 .. Len(s) + 1
      /\ a \in 1 .. Len(s) + 1 /\ Len(s) \in a - 1 .. Len(s) /\ Len(s) \in b .. Len(s) /\ 1 - 1 = 0
      /\ ~ (Len(s) < Len(s))
  BY LenProperties
<1>2. left \in Seq(Token) /\ Paired(left, FALSE)
  <2>1. b >= 1 /\ b < Len(s) => s[b].type # "T_INCLUDE"
    <3> SUFFICES ASSUME b >= 1 PROVE s[b].type # "T_INCLUDE"
      OBVIOUS
    <3>1. b \in 1 .. Len(s)
      BY <1>1
    <3> HIDE DEF b
    <3> QED
      BY <1>1, <3>1 DEF Paired
  <2> HIDE DEF b
  <2>2. SubSeq(s, 1, b) \in Seq(Token) /\ Paired(SubSeq(s, 1, b), FALSE)
    BY <1>1, <2>1, PairedPart
  <2> QED
    BY <2>2 DEF b
<1>3. right \in Seq(Token) /\ Paired(right, FALSE)
  BY <1>1, PairedPart
<1>4. Heard(s) = Heard(left) \o Heard(right)
  <2>1. SubSeq(s, 1, Len(s)) = s
    BY SubSeqFull
  <2> HIDE DEF b
  <2>2. Heard(SubSeq(s, 1, Len(s))) = Heard(SubSeq(s, 1, b)) \o Heard(SubSeq(s, b + 1, Len(s)))
    <3> DEFINE n == Len(s)
    <3>1. 1 \in 1 .. Len(s) + 1 /\ b \in 1 - 1 .. Len(s) /\ n \in b .. Len(s)
      BY <1>1
    <3> HIDE DEF n
    <3>2. Heard(SubSeq(s, 1, n)) = Heard(SubSeq(s, 1, b)) \o Heard(SubSeq(s, b + 1, n))
      BY <3>1, HeardSplit
    <3> QED
      BY <3>2 DEF n
  <2> QED
    BY <1>1, <2>1, <2>2 DEF b
<1>5. InsertAt(s, a, Mark) = (left \o <<Mark>>) \o right
  BY DEF InsertAt
<1> HIDE DEF left, right
<1>6. Mark \in Token /\ Mark.type = "T_MARK" /\ Hearing(Mark) = <<>> /\ <<Mark>> \in Seq(Token)
  <2>1. Mark \in Token /\ Mark.type = "T_MARK"
    BY DEF Mark, Token, TokenType
  <2> QED
    BY <2>1 DEF Hearing
<1>7. Paired(<<Mark>>, FALSE)
  <2>1. Len(<<Mark>>) = 1 /\ <<Mark>>[1] = Mark
    OBVIOUS
  <2>2. \A i \in 1 .. 1 : i = 1
    OBVIOUS
  <2> QED
    BY <1>6, <2>1, <2>2 DEF Paired
<1> DEFINE front == left \o <<Mark>>
<1>8. front \in Seq(Token) /\ Paired(front, FALSE)
  BY <1>2, <1>6, <1>7, PairedConcat
<1>9. Heard(front) = Heard(left)
  <2>1. Heard(front) = Heard(left) \o Heard(<<Mark>>) /\ Heard(<<Mark>>) = <<>>
    BY <1>2, <1>6, HeardConcat, HeardOne
  <2>2. Heard(left) \in Calls
    BY <1>2, HeardType
  <2> QED
    BY <2>1, <2>2, CallsConcat
<1> HIDE DEF front
<1>10. front \o right \in Seq(Token) /\ Paired(front \o right, FALSE)
  BY <1>3, <1>8, PairedConcat
<1>11. Heard(front \o right) = Heard(front) \o Heard(right)
  BY <1>3, <1>8, HeardConcat
<1>12. InsertAt(s, a, Mark) = front \o right
  BY <1>5 DEF front
<1> QED
  BY <1>4, <1>9, <1>10, <1>11, <1>12

LEMMA ToldLine ==
    ASSUME BufferInv, phase = "prepass", PrepassTold, PrepassLine, events' = events
    PROVE  PrepassTold'
<1>1. /\ tokens \in Seq(Token) /\ Len(tokens) \in Nat /\ LexerTypeOK
      /\ newTokenList \in Seq(Token) /\ Paired(newTokenList, FALSE) /\ Paired(tokens, FALSE)
      /\ p \in 1 .. Len(tokens) + 1 /\ Heard(newTokenList) = Heard(SubSeq(tokens, 1, p - 1))
  BY OpenFacts, LenProperties DEF BufferInv, PrepassTold
<1>2. /\ p <= Len(tokens) /\ newTokenList' = newTokenList \o Finalized(packedList)
      /\ p' = LineEnd + 1 /\ source' = source /\ tokens' = tokens
  BY DEF PrepassLine, lexerVars
<1>3. LineEnd \in p .. Len(tokens) /\ (LineEnd < Len(tokens) => tokens[LineEnd].type = "T_EOS")
  BY <1>2, LineFacts
<1> DEFINE line == packedList
           b == LineEnd
<1>4. line = SubSeq(tokens, p, b)
  BY DEF packedList
<1> HIDE DEF line, b
<1>5. line \in Seq(Token) /\ Paired(line, FALSE)
  <2>1. b \in p - 1 .. Len(tokens) /\ (b >= p /\ b < Len(tokens) => tokens[b].type # "T_INCLUDE")
    BY <1>1, <1>3 DEF b
  <2> QED
    BY <1>1, <1>4, <2>1, PairedPart
<1>6. Heard(SubSeq(tokens, 1, b)) = Heard(newTokenList) \o Heard(line)
  <2> DEFINE k == p - 1
  <2>1. k \in 1 - 1 .. Len(tokens) /\ b \in k .. Len(tokens) /\ k + 1 = p /\ 1 \in 1 .. Len(tokens) + 1
    BY <1>1, <1>2, <1>3 DEF b
  <2> HIDE DEF k
  <2>2. Heard(SubSeq(tokens, 1, b)) = Heard(SubSeq(tokens, 1, k)) \o Heard(SubSeq(tokens, k + 1, b))
    BY <1>1, <2>1, HeardSplit
  <2> QED
    BY <1>1, <1>4, <2>1, <2>2 DEF k
<1>7. /\ Finalized(line) \in Seq(Token) /\ Paired(Finalized(line), FALSE)
      /\ Heard(Finalized(line)) = Heard(line)
  <2>1. CASE HasType(line, lineStart(line) + 1, "T_STMT")
    <3> DEFINE a == lineStart(line) + 1
    <3>1. a \in 1 .. Len(line) /\ line[a].type = "T_STMT"
      <4>1. lineStart(line) \in Nat
        BY DEF lineStart
      <4> QED
        BY <1>5, <2>1, <4>1, LenProperties DEF HasType
    <3>2. Finalized(line) = InsertAt(line, a, Mark)
      BY <2>1 DEF Finalized
    <3> HIDE DEF a
    <3> QED
      BY <1>5, <3>1, <3>2, MarkUnheard
  <2>2. CASE ~ HasType(line, lineStart(line) + 1, "T_STMT")
    BY <1>5, <2>2 DEF Finalized
  <2> QED
    BY <2>1, <2>2
<1>8. newTokenList' \in Seq(Token) /\ Paired(newTokenList', FALSE)
  BY <1>1, <1>2, <1>7, PairedConcat DEF line
<1>9. Heard(newTokenList') = Heard(SubSeq(tokens, 1, b))
  BY <1>1, <1>2, <1>6, <1>7, HeardConcat DEF line
<1>10. p' \in 1 .. Len(tokens) + 1 /\ p' - 1 = b
  BY <1>1, <1>2, <1>3 DEF b
<1>11. WholeHeard(tokens)' /\ events' = <<Call("start_of_file", Main)>>
  BY <1>2 DEF PrepassTold, WholeHeard
<1> QED
  BY <1>1, <1>2, <1>8, <1>9, <1>10, <1>11 DEF PrepassTold

(* What has been heard of the first tokens is the beginning of the whole.    *)
LEMMA StartedPrefix ==
    ASSUME tokens \in Seq(Token), WholeHeard(tokens), NEW k \in 0 .. Len(tokens)
    PROVE  IsPrefix(Started(SubSeq(tokens, 1, k)), Expansion(source))
<1> DEFINE first == SubSeq(tokens, 1, k)
           rest == SubSeq(tokens, k + 1, Len(tokens))
           end == <<Call("end_of_file", Main)>>
           c == <<Call("start_of_file", Main)>>
<1>1. Len(tokens) \in Nat
  BY LenProperties
<1>2. first \in Seq(Token) /\ rest \in Seq(Token) /\ Heard(tokens) = Heard(first) \o Heard(rest)
  <2>1. 1 \in 1 .. Len(tokens) + 1 /\ k \in 1 - 1 .. Len(tokens) /\ Len(tokens) \in k .. Len(tokens)
    BY <1>1
  <2>2. SubSeq(tokens, 1, Len(tokens)) = tokens
    BY SubSeqFull
  <2> QED
    BY <2>1, <2>2, HeardSplit
<1> HIDE DEF first, rest
<1>3. Main \in Name \cup Statement \cup {NoText}
  BY IncludeAssumption DEF Name
<1>4. c \in Calls /\ end \in Calls /\ Heard(first) \in Calls /\ Heard(rest) \in Calls
  BY <1>2, <1>3, OneCall, HeardType
<1>5. Expansion(source) = (c \o (Heard(first) \o Heard(rest))) \o end
  <2>1. Started(tokens) \in Calls /\ Started(tokens) = c \o (Heard(first) \o Heard(rest))
    BY <1>2, StartedFacts DEF Started
  <2>2. Append(Started(tokens), Call("end_of_file", Main)) = Started(tokens) \o end
    BY <1>3, <2>1, CallsAppend
  <2> QED
    BY <2>1, <2>2 DEF WholeHeard
<1> DEFINE a == Heard(first)
           b == Heard(rest)
<1>6. c \in Calls /\ end \in Calls /\ a \in Calls /\ b \in Calls
  BY <1>4
<1>7. Expansion(source) = (c \o (a \o b)) \o end /\ Started(first) = c \o a
  BY <1>5 DEF Started
<1> HIDE DEF a, b, c, end
<1>8. c \o a \in Calls /\ b \o end \in Calls
  BY <1>6, CallsConcat
<1>9. (c \o (a \o b)) \o end = (c \o a) \o (b \o end)
  <2>1. c \o (a \o b) = (c \o a) \o b
    BY <1>6, CallsAssociate
  <2>2. ((c \o a) \o b) \o end = (c \o a) \o (b \o end)
    <3> DEFINE d == c \o a
    <3>1. d \in Calls
      BY <1>8
    <3> HIDE DEF d
    <3>2. (d \o b) \o end = d \o (b \o end)
      BY <1>6, <3>1, CallsAssociate
    <3> QED
      BY <3>2 DEF d
  <2> QED
    BY <2>1, <2>2
<1>10. IsPrefix(c \o a, (c \o a) \o (b \o end))
  BY <1>8, ConcatPrefix
<1> QED
  BY <1>7, <1>9, <1>10 DEF first

LEMMA ToldRewritten ==
    ASSUME BufferInv, phase = "prepass", PrepassTold, PrepassEof, events' = events
    PROVE  ParseTold'
<1>1. /\ tokens \in Seq(Token) /\ Len(tokens) \in Nat
      /\ newTokenList \in Seq(Token) /\ Paired(newTokenList, FALSE) /\ WholeHeard(tokens)
      /\ p \in 1 .. Len(tokens) + 1 /\ Heard(newTokenList) = Heard(SubSeq(tokens, 1, p - 1))
      /\ events = <<Call("start_of_file", Main)>>
  BY OpenFacts, LenProperties DEF BufferInv, PrepassTold
<1>2. /\ p > Len(tokens) /\ tokens' = Append(newTokenList, Eof) /\ p' = 1 /\ source' = source
  BY DEF PrepassEof
<1>3. Heard(newTokenList) = Heard(tokens)
  <2>1. p - 1 = Len(tokens) /\ SubSeq(tokens, 1, Len(tokens)) = tokens
    BY <1>1, <1>2, SubSeqFull
  <2> QED
    BY <1>1, <2>1
<1>4. Eof \in Token /\ Hearing(Eof) = <<>>
  <2>1. Eof \in Token /\ Eof.type = "EOF"
    BY IncludeAssumption DEF Eof, Token, TokenType, Name
  <2> QED
    BY <2>1 DEF Hearing
<1>5. tokens' \in Seq(Token) /\ Len(tokens') \in Nat
  BY <1>1, <1>2, <1>4, AppendProperties, LenProperties
<1>6. Started(tokens') = Started(tokens)
  <2>1. Started(tokens') = Started(newTokenList) \o <<>> /\ Started(newTokenList) \in Calls
    BY <1>1, <1>2, <1>4, StartedFacts
  <2>2. Started(newTokenList) = Started(tokens)
    BY <1>3 DEF Started
  <2> QED
    BY <2>1, <2>2, CallsConcat
<1>7. WholeHeard(tokens)'
  BY <1>1, <1>2, <1>6 DEF WholeHeard
<1>8. Started(SubSeq(tokens', 1, 1 - 1)) = <<Call("start_of_file", Main)>>
  <2> DEFINE c == <<Call("start_of_file", Main)>>
  <2>1. SubSeq(tokens', 1, 1 - 1) = <<>>
    BY SubSeqEmpty
  <2>2. c \in Calls
    BY <1>1, StartedFacts
  <2> HIDE DEF c
  <2>3. c \o <<>> = c
    BY <2>2, CallsConcat
  <2> QED
    BY <2>1, <2>3, HeardEmpty DEF Started, c
<1>9. p' \in 1 .. Len(tokens') + 1
  BY <1>2, <1>5
<1>10. events' = Started(SubSeq(tokens', 1, p' - 1))
  BY <1>1, <1>2, <1>8
<1> QED
  BY <1>1, <1>2, <1>7, <1>9, <1>10 DEF ParseTold

(* A prefix of what is told, at the end.                                     *)
LEMMA EndedInside ==
    ASSUME tokens \in Seq(Token), WholeHeard(tokens), NEW k \in 0 .. Len(tokens),
           events' = Started(SubSeq(tokens, 1, k)), source' = source, phase' \in {"error", "crash"}
    PROVE  EndTold'
<1>1. IsPrefix(Started(SubSeq(tokens, 1, k)), Expansion(source))
  BY StartedPrefix
<1> DEFINE told == Started(SubSeq(tokens, 1, k))
           all == Expansion(source)
<1>2. events' = told /\ Expansion(source') = all /\ IsPrefix(told, all)
  BY <1>1
<1> HIDE DEF told, all
<1>3. IsPrefix(events', Expansion(source')) /\ phase' # "done"
  BY <1>2
<1> QED
  BY <1>3 DEF EndTold

LEMMA NothingStarted ==
    Started(SubSeq(tokens, 1, 0)) = <<Call("start_of_file", Main)>>
<1> DEFINE c == <<Call("start_of_file", Main)>>
<1>1. SubSeq(tokens, 1, 0) = <<>>
  BY SubSeqEmpty
<1>2. c \in Calls
  <2>1. Main \in Name
    BY IncludeAssumption DEF Name
  <2> QED
    BY <2>1, OneCall
<1> HIDE DEF c
<1>3. c \o <<>> = c
  BY <1>2, CallsConcat
<1> QED
  BY <1>1, <1>3, HeardEmpty DEF Started, c

LEMMA ToldCrash ==
    ASSUME BufferInv, phase = "prepass", PrepassTold, PrepassCrash, events' = events
    PROVE  EndTold'
<1>1. tokens \in Seq(Token) /\ Len(tokens) \in Nat
  BY OpenFacts, LenProperties DEF BufferInv
<1>2. events' = Started(SubSeq(tokens, 1, 0))
  BY NothingStarted DEF PrepassTold
<1>3. 0 \in 0 .. Len(tokens) /\ WholeHeard(tokens)
  BY <1>1 DEF PrepassTold
<1>4. source' = source /\ phase' = "crash"
  BY DEF PrepassCrash
<1> QED
  BY <1>1, <1>2, <1>3, <1>4, EndedInside

(* ToldInv holds in a state of one phase if its part does.                   *)
LEMMA ToldParts ==
    /\ phase' = "lex" /\ LexTold' => ToldInv'
    /\ phase' = "prepass" /\ PrepassTold' => ToldInv'
    /\ phase' = "parse" /\ ParseTold' => ToldInv'
    /\ phase' \in {"done", "error", "crash"} /\ EndTold' => ToldInv'
<1>1. phase' = "lex" /\ LexTold' => ToldInv'
  BY DEF ToldInv
<1>2. phase' = "prepass" /\ PrepassTold' => ToldInv'
  BY DEF ToldInv
<1>3. phase' = "parse" /\ ParseTold' => ToldInv'
  BY DEF ToldInv
<1>4. phase' \in {"done", "error", "crash"} /\ EndTold' => ToldInv'
  BY DEF ToldInv
<1> QED
  BY <1>1, <1>2, <1>3, <1>4

LEMMA ToldLexer ==
    ASSUME BufferInv, IncludeLinesEnd(source), LexTold, Lex
    PROVE  ToldInv'
<1>1. LexerNext /\ UNCHANGED streamVars
      /\ events' = IF phase' = "prepass" THEN <<Call("start_of_file", Main)>> ELSE events
  BY DEF Lex
<1>2. events = <<>> /\ newTokenList' = <<>>
  BY <1>1 DEF LexTold, streamVars
<1>3. LexerTypeOK /\ InIncludeLine
  BY DEF BufferInv, LexTold
<1>4. phase' = "lex" => events' = <<>>
  BY <1>1, <1>2
<1>5. CASE LexStatement
  <2>1. phase' = "lex"
    BY <1>5 DEF LexStatement, Reads
  <2> QED
    BY <1>2, <1>4, <1>5, <2>1, ToldStatement, ToldParts
<1>6. CASE LexInclude
  <2>1. phase' = "lex"
    BY <1>6 DEF LexInclude, Reads
  <2> QED
    BY <1>2, <1>4, <1>6, <2>1, ToldInclude, ToldParts
<1>7. CASE LexEos
  <2>1. phase' = "lex"
    BY <1>7 DEF LexEos, Reads
  <2> QED
    BY <1>2, <1>4, <1>7, <2>1, ToldEos, ToldParts
<1>8. CASE LexIncludeFile
  <2>1. phase' = "lex"
    BY <1>8 DEF LexIncludeFile, SetIncludeName, Reads
  <2> QED
    BY <1>2, <1>4, <1>8, <2>1, ToldIncludeFile, ToldParts
<1>9. CASE LexIncludeFails
  <2>1. phase' = "lex"
    BY <1>9 DEF LexIncludeFails, SetIncludeName, Reads
  <2> QED
    BY <1>2, <1>4, <1>9, <2>1, ToldIncludeFails, ToldParts
<1>10. ~ LexIncludeCrash
  BY <1>3, BehindName DEF LexIncludeCrash
<1>11. CASE PopStream
  <2>1. phase' = "lex"
    BY <1>11 DEF PopStream
  <2> QED
    BY <1>2, <1>4, <1>11, <2>1, ToldEof, ToldParts
<1>12. CASE LexEof
  <2>1. phase = "lex" /\ phase' = "prepass"
    BY <1>12 DEF LexEof
  <2>2. events' = <<Call("start_of_file", Main)>>
    BY <1>1, <2>1
  <2> QED
    BY <1>1, <1>12, <2>1, <2>2, ToldEnd, ToldParts
<1> QED
  BY <1>1, <1>5, <1>6, <1>7, <1>8, <1>9, <1>10, <1>11, <1>12 DEF LexerNext

-----------------------------------------------------------------------------
(* The buffer as the parser reads it: EOF is its last token and no other.    *)
LEMMA ParserBuffer ==
    ASSUME BufferInv, ParseTold
    PROVE  /\ tokens \in Seq(Token) /\ Len(tokens) \in Nat \ {0}
           /\ tokens[Len(tokens)] = Eof
           /\ \A i \in 1 .. Len(tokens) - 1 :
                 /\ tokens[i].type # "EOF"
                 /\ tokens[i].type = "T_INCLUDE" =>
                       i + 1 <= Len(tokens) - 1 /\ tokens[i + 1].type = "T_INCLUDE_NAME"
           /\ p \in 1 .. Len(tokens) + 1 /\ WholeHeard(tokens)
<1>1. PICK tks \in Seq(Token) : tokens = Append(tks, Eof) /\ Paired(tks, FALSE)
  BY DEF ParseTold
<1>2. tokens \in Seq(Token)
  BY OpenFacts DEF BufferInv
<1>3. Eof \in Token
  BY IncludeAssumption DEF Eof, Token, TokenType, Name
<1> DEFINE n == Len(tks)
<1>4. /\ n \in Nat /\ Len(tokens) = n + 1 /\ tokens[n + 1] = Eof
      /\ \A i \in 1 .. n : tokens[i] = tks[i]
  BY <1>1, <1>3, LenProperties, AppendProperties
<1>5. Len(tokens) \in Nat \ {0} /\ Len(tokens) - 1 = n
  BY <1>4
<1>6. ASSUME NEW i \in 1 .. n
      PROVE  /\ tokens[i].type # "EOF"
             /\ tokens[i].type = "T_INCLUDE" =>
                   i + 1 <= n /\ tokens[i + 1].type = "T_INCLUDE_NAME"
  <2>1. /\ tks[i].type # "EOF"
        /\ tks[i].type = "T_INCLUDE" => i < n /\ tks[i + 1].type = "T_INCLUDE_NAME"
    BY <1>1 DEF Paired
  <2>2. i < n => i + 1 \in 1 .. n /\ i + 1 <= n
    BY <1>4
  <2> HIDE DEF n
  <2> QED
    BY <1>4, <2>1, <2>2
<1> HIDE DEF n
<1> QED
  BY <1>2, <1>4, <1>5, <1>6 DEF ParseTold

LEMMA TellOn ==
    ASSUME NEW s \in Seq(Token), NEW k \in 1 .. Len(s)
    PROVE  /\ Started(SubSeq(s, 1, k)) = Started(SubSeq(s, 1, k - 1)) \o Hearing(s[k])
           /\ Started(SubSeq(s, 1, k - 1)) \in Calls /\ Hearing(s[k]) \in Calls
           /\ Started(SubSeq(s, 1, k)) \in Calls
<1> DEFINE c == <<Call("start_of_file", Main)>>
           a == Heard(SubSeq(s, 1, k - 1))
           b == Hearing(s[k])
<1>1. /\ SubSeq(s, 1, k) \in Seq(Token) /\ SubSeq(s, 1, k - 1) \in Seq(Token)
      /\ Heard(SubSeq(s, 1, k)) = a \o b
  BY HeardFirst
<1>2. a \in Calls /\ b \in Calls
  BY <1>1, ElementOfSeq, HeardType, HearingType
<1>3. c \in Calls
  BY <1>1, StartedFacts
<1>4. Started(SubSeq(s, 1, k - 1)) = c \o a /\ Started(SubSeq(s, 1, k)) = c \o (a \o b)
  BY <1>1 DEF Started
<1>5. Started(SubSeq(s, 1, k)) \in Calls /\ Started(SubSeq(s, 1, k - 1)) \in Calls
  BY <1>1, StartedFacts
<1> HIDE DEF a, b, c
<1>6. c \o (a \o b) = (c \o a) \o b
  BY <1>2, <1>3, CallsAssociate
<1> QED
  BY <1>2, <1>4, <1>5, <1>6 DEF b

(* The T_EOS tokens that checkForInclude passes over are not heard.          *)
LEMMA EosPassed ==
    ASSUME tokens \in Seq(Token), NEW next \in 1 .. Len(tokens) + 1, checkForInclude(next)
    PROVE  /\ p' \in 1 .. Len(tokens) + 1
           /\ Started(SubSeq(tokens, 1, p' - 1)) = Started(SubSeq(tokens, 1, next - 1))
<1> DEFINE n == Len(tokens)
           stops == {k \in next .. (next + n) : k <= n => tokens[k].type # "T_EOS"}
           q == Min(stops)
           told(k) == Started(SubSeq(tokens, 1, k))
<1>1. n \in Nat /\ next \in Nat /\ next >= 1 /\ next <= n + 1 /\ p' = q
  BY LenProperties DEF checkForInclude
<1>2. n + 1 \in stops /\ stops \in SUBSET Nat
  BY <1>1
<1>3. q \in stops /\ \A k \in stops : q <= k
  <2> HIDE DEF stops
  <2> QED
    BY <1>2, MinFacts
<1> HIDE DEF q
<1>4. q \in Nat /\ q >= next /\ q <= n + 1
  BY <1>1, <1>2, <1>3
<1>5. \A j \in next .. q - 1 : j \in 1 .. n /\ tokens[j].type = "T_EOS"
  <2> TAKE j \in next .. q - 1
  <2>1. j \in 1 .. n /\ j \in next .. (next + n) /\ ~ (q <= j) /\ j <= n
    BY <1>1, <1>4
  <2>2. j \notin stops
    BY <1>3, <2>1
  <2> QED
    BY <2>1, <2>2
<1> DEFINE Silent == {d \in Nat : next + d <= q => told(next + d - 1) = told(next - 1)}
<1> HIDE DEF stops, told, n
<1>6. 0 \in Silent
  <2>1. next + 0 - 1 = next - 1
    BY <1>1
  <2> QED
    BY <2>1
<1>7. ASSUME NEW d \in Nat, d \in Silent PROVE d + 1 \in Silent
  <2> DEFINE j == next + d
  <2> SUFFICES ASSUME next + (d + 1) <= q PROVE told(next + (d + 1) - 1) = told(next - 1)
    OBVIOUS
  <2>1. next + (d + 1) - 1 = j /\ j \in next .. q - 1 /\ next + d <= q /\ next + d - 1 = j - 1
    BY <1>1, <1>4
  <2>2. told(j - 1) = told(next - 1)
    BY <1>7, <2>1
  <2> HIDE DEF j
  <2>3. j \in 1 .. n /\ tokens[j].type = "T_EOS"
    BY <1>5, <2>1
  <2>4. Hearing(tokens[j]) = <<>>
    BY <2>3 DEF Hearing
  <2>5. told(j) = told(j - 1) \o <<>> /\ told(j - 1) \in Calls
    BY <2>3, <2>4, TellOn DEF told, n
  <2>6. told(j) = told(j - 1)
    BY <2>5, CallsConcat
  <2> QED
    BY <2>1, <2>2, <2>6
<1>8. told(q - 1) = told(next - 1)
  <2> DEFINE d == q - next
  <2>1. d \in Nat /\ next + d = q
    BY <1>1, <1>4
  <2> HIDE DEF d, Silent
  <2>2. d \in Silent
    BY <1>6, <1>7, <2>1, SetInduction
  <2>3. told(next + d - 1) = told(next - 1)
    BY <1>1, <1>4, <2>1, <2>2 DEF Silent
  <2> QED
    BY <2>1, <2>3
<1>9. q \in 1 .. n + 1
  BY <1>1, <1>4
<1> QED
  BY <1>1, <1>8, <1>9 DEF told, n

(* The parser goes on behind the tokens it has told.                         *)
LEMMA ParserOn ==
    ASSUME BufferInv, ParseTold, NEW next \in 1 .. Len(tokens) + 1, checkForInclude(next),
           source' = source, tokens' = tokens, events' = Started(SubSeq(tokens, 1, next - 1))
    PROVE  ParseTold'
<1>1. tokens \in Seq(Token)
  BY ParserBuffer
<1>2. /\ p' \in 1 .. Len(tokens) + 1
      /\ Started(SubSeq(tokens, 1, p' - 1)) = Started(SubSeq(tokens, 1, next - 1))
  BY <1>1, EosPassed
<1>3. WholeHeard(tokens)'
  BY DEF ParseTold, WholeHeard
<1>4. \E tks \in Seq(Token) : tokens' = Append(tks, Eof) /\ Paired(tks, FALSE)
  BY DEF ParseTold
<1>5. events' = Started(SubSeq(tokens', 1, p' - 1)) /\ p' \in 1 .. Len(tokens') + 1
  BY <1>2
<1> QED
  BY <1>3, <1>4, <1>5 DEF ParseTold

(* A token in front of EOF.                                                  *)
LEMMA Ahead ==
    ASSUME BufferInv, ParseTold, NEW k \in {1, 2, 3}, LT(k).type # "EOF"
    PROVE  /\ p + k - 1 \in 1 .. Len(tokens) - 1 /\ p + k - 1 \in 1 .. Len(tokens)
           /\ LT(k) = tokens[p + k - 1] /\ p \in Nat /\ Len(tokens) \in Nat
<1>1. /\ Len(tokens) \in Nat \ {0} /\ tokens[Len(tokens)] = Eof /\ p \in 1 .. Len(tokens) + 1
  BY ParserBuffer
<1>2. Eof.type = "EOF"
  BY DEF Eof
<1> DEFINE i == p + k - 1
<1>3. i \in Nat /\ i >= 1 /\ p \in Nat
  BY <1>1
<1> HIDE DEF i
<1>4. LT(k) = IF i <= Len(tokens) THEN tokens[i] ELSE Eof
  BY DEF LT, i
<1>5. i <= Len(tokens) /\ LT(k) = tokens[i]
  BY <1>2, <1>4
<1>6. i # Len(tokens)
  BY <1>1, <1>2, <1>5
<1> QED
  BY <1>1, <1>3, <1>5, <1>6 DEF i

LEMMA ToldEnter ==
    ASSUME BufferInv, ParseTold, EnterInclude
    PROVE  ParseTold'
<1> DEFINE told(k) == Started(SubSeq(tokens, 1, k))
           a == Call("start_of_file", LT(2).text)
           b == Call("end_of_file", LT(3).text)
<1>1. /\ LT(1).type = "T_INCLUDE" /\ source' = source /\ tokens' = tokens
      /\ events' = events \o EnterEvents(LT(2).text)
      /\ checkForInclude(IF LT(3).type = "T_EOF" THEN p + 3 ELSE p + 2)
  BY DEF EnterInclude, lexerVars
<1>2. p \in Nat /\ p \in 1 .. Len(tokens) - 1 /\ p \in 1 .. Len(tokens) /\ LT(1) = tokens[p]
      /\ Len(tokens) \in Nat
  <2>1. p + 1 - 1 = p
    BY ParserBuffer
  <2> QED
    BY <1>1, <2>1, Ahead
<1>3. p + 1 \in 1 .. Len(tokens) - 1 /\ tokens[p + 1].type = "T_INCLUDE_NAME"
  <2>1. p + 1 <= Len(tokens) - 1 /\ tokens[p + 1].type = "T_INCLUDE_NAME"
    BY <1>1, <1>2, ParserBuffer
  <2> QED
    BY <1>2, <2>1
<1>4. LT(2) = tokens[p + 1]
  <2>1. p + 2 - 1 = p + 1 /\ p + 1 <= Len(tokens)
    BY <1>2, <1>3
  <2> QED
    BY <2>1 DEF LT
<1>5. tokens \in Seq(Token) /\ events = told(p - 1)
  BY ParserBuffer DEF ParseTold
<1> HIDE DEF a, b
<1>6. told(p) = told(p - 1) /\ told(p - 1) \in Calls
  <2>1. Hearing(tokens[p]) = <<>>
    BY <1>1, <1>2 DEF Hearing
  <2>2. told(p) = told(p - 1) \o <<>> /\ told(p - 1) \in Calls
    BY <1>2, <1>5, <2>1, TellOn
  <2> QED
    BY <2>2, CallsConcat
<1>7. told(p + 1) = told(p) \o <<a>> /\ <<a>> \in Calls
  <2> DEFINE i == p + 1
  <2>1. i \in 1 .. Len(tokens) /\ i - 1 = p
    BY <1>2, <1>3
  <2>2. Hearing(tokens[i]) = <<a>>
    BY <1>3, <1>4 DEF Hearing, a
  <2> HIDE DEF i, told
  <2>3. told(i) = told(i - 1) \o Hearing(tokens[i]) /\ Hearing(tokens[i]) \in Calls
    BY <1>5, <2>1, TellOn DEF told
  <2> QED
    BY <2>1, <2>2, <2>3 DEF i
<1> HIDE DEF told
<1>8. CASE LT(3).type = "T_EOF"
  <2> DEFINE i == p + 2
             next == p + 3
  <2>1. i \in 1 .. Len(tokens) - 1 /\ LT(3) = tokens[i]
    <3>1. p + 3 - 1 = i
      BY <1>2
    <3> QED
      BY <1>8, <3>1, Ahead
  <2>2. i \in 1 .. Len(tokens) /\ i - 1 = p + 1 /\ next - 1 = i /\ next \in 1 .. Len(tokens) + 1
    BY <1>2, <2>1
  <2>3. Hearing(tokens[i]) = <<b>>
    BY <1>8, <2>1 DEF Hearing, b
  <2> HIDE DEF i, next
  <2>4. told(i) = told(p + 1) \o <<b>> /\ <<b>> \in Calls
    <3>1. told(i) = told(i - 1) \o Hearing(tokens[i]) /\ Hearing(tokens[i]) \in Calls
      BY <1>5, <2>2, TellOn DEF told
    <3> QED
      BY <2>2, <2>3, <3>1
  <2>5. EnterEvents(LT(2).text) = <<a>> \o <<b>>
    BY <1>8 DEF EnterEvents, a, b
  <2>6. events' = told(next - 1)
    <3> DEFINE t == told(p - 1)
               x == <<a>>
               y == <<b>>
    <3>1. t \in Calls /\ x \in Calls /\ y \in Calls /\ events' = t \o (x \o y) /\ told(i) = (t \o x) \o y
      BY <1>1, <1>5, <1>6, <1>7, <2>4, <2>5
    <3> HIDE DEF t, x, y
    <3>2. (t \o x) \o y = t \o (x \o y)
      BY <3>1, CallsAssociate
    <3> QED
      BY <2>2, <3>1, <3>2
  <2>7. checkForInclude(next)
    BY <1>1, <1>8 DEF next
  <2> QED
    BY <1>1, <2>2, <2>6, <2>7, ParserOn DEF told
<1>9. CASE LT(3).type # "T_EOF"
  <2> DEFINE next == p + 2
  <2>1. next \in 1 .. Len(tokens) + 1 /\ next - 1 = p + 1
    BY <1>2, <1>3
  <2>2. checkForInclude(next) /\ EnterEvents(LT(2).text) = <<a>>
    BY <1>1, <1>9 DEF EnterEvents, a
  <2> HIDE DEF next
  <2>3. events' = told(next - 1)
    BY <1>1, <1>5, <1>6, <1>7, <2>1, <2>2
  <2> QED
    BY <1>1, <2>1, <2>2, <2>3, ParserOn DEF told
<1> QED
  BY <1>8, <1>9

LEMMA ToldLeave ==
    ASSUME BufferInv, ParseTold, LeaveInclude
    PROVE  ParseTold'
<1> DEFINE told(k) == Started(SubSeq(tokens, 1, k))
           b == Call("end_of_file", LT(1).text)
           next == p + 1
<1>1. /\ LT(1).type = "T_EOF" /\ source' = source /\ tokens' = tokens
      /\ events' = Append(events, b) /\ checkForInclude(next)
  BY DEF LeaveInclude, lexerVars
<1>2. p \in 1 .. Len(tokens) /\ LT(1) = tokens[p] /\ p \in Nat /\ Len(tokens) \in Nat
  <2>1. p + 1 - 1 = p
    BY ParserBuffer
  <2> QED
    BY <1>1, <2>1, Ahead
<1>3. tokens \in Seq(Token) /\ events = told(p - 1)
  BY ParserBuffer DEF ParseTold
<1>4. Hearing(tokens[p]) = <<b>>
  BY <1>1, <1>2 DEF Hearing
<1>5. LT(1).text \in Name \cup Statement \cup {NoText}
  <2>1. tokens[p] \in Token
    BY <1>2, <1>3, ElementOfSeq
  <2> QED
    BY <1>2, <2>1 DEF Token
<1>6. told(p) = told(p - 1) \o <<b>> /\ told(p - 1) \in Calls
  BY <1>2, <1>3, <1>4, TellOn
<1> HIDE DEF told
<1>7. events' = told(p)
  BY <1>1, <1>3, <1>5, <1>6, CallsAppend
<1>8. next \in 1 .. Len(tokens) + 1 /\ next - 1 = p
  BY <1>2
<1> HIDE DEF next
<1> QED
  BY <1>1, <1>7, <1>8, ParserOn DEF told

LEMMA ToldStmt ==
    ASSUME BufferInv, ParseTold, ParseStatement
    PROVE  ParseTold'
<1> DEFINE told(k) == Started(SubSeq(tokens, 1, k))
           c == Call("stmt", LT(2).text)
           next == p + 3
<1>1. /\ LT(1) = Mark /\ LT(2).type = "T_STMT" /\ LT(3).type \in {"T_EOS", "EOF"}
      /\ source' = source /\ tokens' = tokens
      /\ events' = Append(events, c) /\ checkForInclude(next)
  BY DEF ParseStatement, StatementAhead, lexerVars
<1>2. p \in Nat /\ p \in 1 .. Len(tokens) /\ LT(1) = tokens[p] /\ Len(tokens) \in Nat
  <2>1. p + 1 - 1 = p
    BY ParserBuffer
  <2>2. LT(1).type # "EOF"
    BY <1>1 DEF Mark
  <2> QED
    BY <2>1, <2>2, Ahead
<1> DEFINE i == p + 1
           j == p + 2
<1>3. i \in 1 .. Len(tokens) - 1 /\ LT(2) = tokens[i]
  <2>1. p + 2 - 1 = i
    BY <1>2
  <2> QED
    BY <1>1, <2>1, Ahead
<1>4. /\ i \in 1 .. Len(tokens) /\ i - 1 = p /\ j \in 1 .. Len(tokens) /\ j - 1 = i
      /\ next - 1 = j /\ next \in 1 .. Len(tokens) + 1 /\ j = p + 3 - 1 /\ j <= Len(tokens)
  BY <1>2, <1>3
<1>5. LT(3) = tokens[j]
  BY <1>4 DEF LT
<1>6. tokens \in Seq(Token) /\ events = told(p - 1)
  BY ParserBuffer DEF ParseTold
<1> HIDE DEF i, j, next
<1>7. Hearing(tokens[p]) = <<>> /\ Hearing(tokens[i]) = <<c>> /\ Hearing(tokens[j]) = <<>>
  <2>1. Hearing(tokens[p]) = <<>>
    BY <1>1, <1>2 DEF Hearing, Mark
  <2>2. Hearing(tokens[i]) = <<c>>
    BY <1>1, <1>3 DEF Hearing
  <2>3. Hearing(tokens[j]) = <<>>
    BY <1>1, <1>5 DEF Hearing
  <2> QED
    BY <2>1, <2>2, <2>3
<1>8. LT(2).text \in Name \cup Statement \cup {NoText}
  <2>1. tokens[i] \in Token
    BY <1>4, <1>6, ElementOfSeq
  <2> QED
    BY <1>3, <2>1 DEF Token
<1>9. told(p) = told(p - 1) \o <<>> /\ told(p - 1) \in Calls
  BY <1>2, <1>6, <1>7, TellOn
<1>10. told(i) = told(i - 1) \o Hearing(tokens[i])
  BY <1>4, <1>6, TellOn
<1>11. told(j) = told(j - 1) \o Hearing(tokens[j]) /\ told(j - 1) \in Calls
  BY <1>4, <1>6, TellOn
<1> HIDE DEF told, c
<1>12. told(p) = told(p - 1)
  BY <1>9, CallsConcat
<1>13. told(j) = told(i)
  BY <1>4, <1>7, <1>11, CallsConcat
<1>14. events' = told(p - 1) \o <<c>>
  BY <1>1, <1>6, <1>8, <1>9, CallsAppend DEF c
<1>15. events' = told(next - 1)
  BY <1>4, <1>7, <1>10, <1>12, <1>13, <1>14
<1> QED
  BY <1>1, <1>4, <1>15, ParserOn DEF told

LEMMA ToldStop ==
    ASSUME BufferInv, ParseTold, EnterUnreadable \/ SyntaxError
    PROVE  EndTold'
<1>1. source' = source /\ events' = events /\ phase' \in {"error", "crash"}
  BY DEF EnterUnreadable, SyntaxError
<1>2. tokens \in Seq(Token) /\ WholeHeard(tokens) /\ p \in 1 .. Len(tokens) + 1 /\ Len(tokens) \in Nat
  BY ParserBuffer
<1> DEFINE k == p - 1
<1>3. k \in 0 .. Len(tokens)
  BY <1>2
<1>4. events' = Started(SubSeq(tokens, 1, k))
  BY <1>1 DEF ParseTold
<1> HIDE DEF k
<1> QED
  BY <1>1, <1>2, <1>3, <1>4, EndedInside

LEMMA ToldDone ==
    ASSUME BufferInv, ParseTold, EndOfSource
    PROVE  EndTold'
<1> DEFINE told(k) == Started(SubSeq(tokens, 1, k))
           n == Len(tokens)
           all == Expansion(source)
<1>1. /\ LT(1).type = "EOF" /\ source' = source /\ events' = Append(events, Call("end_of_file", Main))
  BY DEF EndOfSource
<1>2. /\ tokens \in Seq(Token) /\ n \in Nat \ {0} /\ tokens[n] = Eof /\ p \in 1 .. n + 1
      /\ WholeHeard(tokens) /\ \A i \in 1 .. n - 1 : tokens[i].type # "EOF"
  BY ParserBuffer
<1>3. events = told(p - 1)
  BY DEF ParseTold
<1>4. p = n \/ p = n + 1
  <2>1. CASE p \in 1 .. n - 1
    <3>1. p + 1 - 1 = p /\ p <= n
      BY <1>2, <2>1
    <3>2. LT(1) = tokens[p]
      BY <3>1 DEF LT
    <3> QED
      BY <1>1, <1>2, <2>1, <3>2
  <2>2. p \in 1 .. n - 1 \/ p = n \/ p = n + 1
    BY <1>2
  <2> QED
    BY <2>1, <2>2
<1>5. told(n) = told(n - 1)
  <2>1. Hearing(tokens[n]) = <<>>
    BY <1>2 DEF Hearing, Eof
  <2>2. n \in 1 .. n
    BY <1>2
  <2> HIDE DEF n
  <2>3. told(n) = told(n - 1) \o <<>> /\ told(n - 1) \in Calls
    BY <1>2, <2>1, <2>2, TellOn DEF n
  <2> QED
    BY <2>3, CallsConcat
<1>6. told(n) = Started(tokens)
  BY <1>2, SubSeqFull
<1> HIDE DEF told
<1>7. events = Started(tokens)
  <2>1. p = n + 1 => p - 1 = n
    BY <1>2
  <2> QED
    BY <1>3, <1>4, <1>5, <1>6, <2>1
<1>8. events' = Expansion(source')
  BY <1>1, <1>2, <1>7 DEF WholeHeard
<1>9. all \in Calls
  <2>1. source \in [File -> Seq(Lexeme)]
    BY OpenFacts DEF BufferInv
  <2> QED
    BY <2>1, ExpansionType
<1>10. IsPrefix(all, all)
  <2> HIDE DEF all
  <2>1. all \o <<>> = all /\ <<>> \in Calls
    BY <1>9, CallsConcat
  <2>2. IsPrefix(all, all \o <<>>)
    BY <1>9, <2>1, ConcatPrefix
  <2> QED
    BY <2>1, <2>2
<1>11. events' = all /\ Expansion(source') = all
  BY <1>1, <1>8
<1> HIDE DEF all
<1>12. IsPrefix(events', Expansion(source'))
  BY <1>10, <1>11
<1> QED
  BY <1>8, <1>12 DEF EndTold

LEMMA ToldParser ==
    ASSUME BufferInv, ParseTold, ParserNext
    PROVE  ToldInv'
<1>1. phase = "parse"
  BY ParserReads
<1>2. CASE EnterInclude
  <2>1. phase' = "parse"
    BY <1>1, <1>2 DEF EnterInclude, lexerVars
  <2> QED
    BY <1>2, <2>1, ToldEnter, ToldParts
<1>3. CASE EnterUnreadable \/ SyntaxError
  <2>1. phase' \in {"done", "error", "crash"}
    BY <1>3 DEF EnterUnreadable, SyntaxError
  <2> QED
    BY <1>3, <2>1, ToldStop, ToldParts
<1>4. CASE LeaveInclude
  <2>1. phase' = "parse"
    BY <1>1, <1>4 DEF LeaveInclude, lexerVars
  <2> QED
    BY <1>4, <2>1, ToldLeave, ToldParts
<1>5. CASE NothingIncluded
  <2>1. phase' = "parse" /\ source' = source /\ tokens' = tokens /\ p' = p /\ events' = events
    BY <1>1, <1>5 DEF NothingIncluded, lexerVars, streamVars
  <2>2. ParseTold'
    BY <2>1 DEF ParseTold, WholeHeard
  <2> QED
    BY <2>1, <2>2, ToldParts
<1>6. CASE ParseStatement
  <2>1. phase' = "parse"
    BY <1>1, <1>6 DEF ParseStatement, lexerVars
  <2> QED
    BY <1>6, <2>1, ToldStmt, ToldParts
<1>7. CASE EndOfSource
  <2>1. phase' \in {"done", "error", "crash"}
    BY <1>7 DEF EndOfSource
  <2> QED
    BY <1>7, <2>1, ToldDone, ToldParts
<1> QED
  BY <1>2, <1>3, <1>4, <1>5, <1>6, <1>7 DEF ParserNext

LEMMA ToldPrepass ==
    ASSUME BufferInv, phase = "prepass", PrepassTold, Prepass
    PROVE  ToldInv'
<1>1. StreamNext /\ events' = events
  BY DEF Prepass
<1>2. CASE PrepassLine
  <2>1. phase' = "prepass"
    BY <1>2 DEF PrepassLine, lexerVars
  <2> QED
    BY <1>1, <1>2, <2>1, ToldLine, ToldParts
<1>3. CASE PrepassCrash
  <2>1. phase' \in {"done", "error", "crash"}
    BY <1>3 DEF PrepassCrash
  <2> QED
    BY <1>1, <1>3, <2>1, ToldCrash, ToldParts
<1>4. CASE PrepassEof
  <2>1. phase' = "parse"
    BY <1>4 DEF PrepassEof
  <2> QED
    BY <1>1, <1>4, <2>1, ToldRewritten, ToldParts
<1> QED
  BY <1>1, <1>2, <1>3, <1>4 DEF StreamNext

LEMMA ToldStep == BufferInv /\ ToldInv /\ [ParseNext]_parseVars => ToldInv'
<1> SUFFICES ASSUME BufferInv, ToldInv, [ParseNext]_parseVars PROVE ToldInv'
  OBVIOUS
<1>1. source' = source
  <2>1. CASE Lex
    BY <2>1 DEF Lex, LexerNext, LexStatement, LexInclude, LexEos, LexIncludeFile, LexIncludeFails,
                SetIncludeName, LexIncludeCrash, PopStream, LexEof
  <2>2. CASE Prepass
    BY <2>2 DEF Prepass, StreamNext, PrepassLine, PrepassCrash, PrepassEof, lexerVars
  <2>3. CASE ParserNext
    BY <2>3, ParserReads
  <2>4. CASE UNCHANGED parseVars
    BY <2>4 DEF parseVars, lexerVars
  <2> QED
    BY <2>1, <2>2, <2>3, <2>4 DEF ParseNext
<1>2. CASE ~ IncludeLinesEnd(source)
  BY <1>1, <1>2 DEF ToldInv
<1>3. CASE IncludeLinesEnd(source)
  <2>1. CASE Lex
    <3>1. phase = "lex"
      BY <2>1 DEF Lex, LexerNext, LexStatement, LexInclude, LexEos, LexIncludeFile, LexIncludeFails,
                  LexIncludeCrash, PopStream, LexEof, Reads
    <3>2. LexTold
      BY <1>3, <3>1 DEF ToldInv
    <3> QED
      BY <1>3, <2>1, <3>2, ToldLexer
  <2>2. CASE Prepass
    <3>1. phase = "prepass"
      BY <2>2 DEF Prepass, StreamNext, PrepassLine, PrepassCrash, PrepassEof
    <3>2. PrepassTold
      BY <1>3, <3>1 DEF ToldInv
    <3> QED
      BY <2>2, <3>1, <3>2, ToldPrepass
  <2>3. CASE ParserNext
    <3>1. phase = "parse"
      BY <2>3, ParserReads
    <3>2. ParseTold
      BY <1>3, <3>1 DEF ToldInv
    <3> QED
      BY <2>3, <3>2, ToldParser
  <2>4. CASE UNCHANGED parseVars
    <3>1. UNCHANGED <<source, input, oldStreams, prevToken, includeLine, tokens, phase,
                      p, newTokenList, events>>
      BY <2>4 DEF parseVars, lexerVars, streamVars
    <3>2. LexTold' = LexTold
      BY <3>1 DEF LexTold, InIncludeLine, FilesOpen, LexemesTold
    <3>3. PrepassTold' = PrepassTold /\ ParseTold' = ParseTold /\ EndTold' = EndTold
      BY <3>1 DEF PrepassTold, ParseTold, EndTold, WholeHeard
    <3> QED
      BY <3>1, <3>2, <3>3 DEF ToldInv
  <2> QED
    BY <2>1, <2>2, <2>3, <2>4 DEF ParseNext
<1> QED
  BY <1>2, <1>3

LEMMA ToldInitial == ParseInit => ToldInv
<1> SUFFICES ASSUME ParseInit PROVE ToldInv
  OBVIOUS
<1>1. /\ source \in Sources /\ input = Opened(Main) /\ oldStreams = <<>> /\ prevToken = NoToken
      /\ includeLine = FALSE /\ tokens = <<>> /\ phase = "lex" /\ newTokenList = <<>> /\ events = <<>>
  BY DEF ParseInit, LexerInit, StreamInit
<1>2. source \in [File -> Seq(Lexeme)] /\ Main \in File
  BY <1>1, IncludeAssumption
<1>3. Paired(<<>>, FALSE)
  <2>1. 1 .. Len(<<>>) = {}
    BY EmptySeq
  <2> QED
    BY <2>1 DEF Paired
<1> DEFINE c == <<Call("start_of_file", Main)>>
           before == [i \in 1 .. 1 |-> <<>>]
<1>4. Started(tokens) = c /\ c \in Calls
  <2>1. c \in Calls
    BY <1>2, OneCall DEF Name
  <2> HIDE DEF c
  <2>2. c \o <<>> = c
    BY <2>1, CallsConcat
  <2> QED
    BY <1>1, <2>1, <2>2, HeardEmpty DEF Started, c
<1> HIDE DEF c
<1>5. FileTold(source, Main, 0) = c
  BY <1>2, FileToldFacts DEF c
<1>6. FilesOpen = [i \in 1 .. 1 |-> Main] /\ LexemesTold = [i \in 1 .. 1 |-> 0]
  <2>1. Len(oldStreams) = 0 /\ 0 + 1 = 1 /\ \A i \in 1 .. 1 : ~ (i <= 0)
    BY <1>1
  <2>2. input.file = Main /\ input.index = 1 /\ 1 - 1 = 0
    BY <1>1 DEF Opened
  <2>3. FilesOpen = [i \in 1 .. 1 |-> Main]
    BY <2>1, <2>2 DEF FilesOpen
  <2>4. LexemesTold = [i \in 1 .. 1 |-> 0]
    BY <1>1, <2>1, <2>2 DEF LexemesTold
  <2> QED
    BY <2>3, <2>4
<1>7. Story(source, 1, FilesOpen, LexemesTold, before, Started(tokens))
  <2> DEFINE files == [i \in 1 .. 1 |-> Main]
             read == [i \in 1 .. 1 |-> 0]
  <2>1. \A i \in 1 .. 1 : i = 1
    OBVIOUS
  <2>2. 1 .. 1 - 1 = {} /\ 1 \in 1 .. 1 /\ 1 .. 0 = {}
    OBVIOUS
  <2>3. <<>> \in Calls
    BY <1>4, CallsConcat
  <2>4. before \in [1 .. 1 -> Calls] /\ before[1] = <<>>
    BY <2>2, <2>3
  <2>5. files \in [1 .. 1 -> File] /\ files[1] = Main /\ read \in [1 .. 1 -> Nat] /\ read[1] = 0
    BY <1>2, <2>2
  <2>6. 0 <= Len(source[Main])
    <3>1. source[Main] \in Seq(Lexeme)
      BY <1>2
    <3> QED
      BY <3>1, LenProperties
  <2> HIDE DEF before, files, read
  <2>7. before[1] \o FileTold(source, files[1], read[1]) = c
    BY <1>4, <1>5, <2>4, <2>5, CallsConcat
  <2>8. Story(source, 1, files, read, before, c)
    <3>1. \A i \in 1 .. 1 :
             /\ read[i] <= Len(source[files[i]])
             /\ \A k \in 1 .. read[i] :
                   source[files[i]][k].type = "T_INCLUDE" /\ source[files[i]][k].text \in File
                      => source[files[i]][k].text \in Ending(source)
      BY <2>1, <2>2, <2>5, <2>6
    <3>2. 1 \in Nat \ {0}
      OBVIOUS
    <3> QED
      BY <2>2, <2>4, <2>5, <2>7, <3>1, <3>2 DEF Story
  <2> QED
    BY <1>4, <1>6, <2>8 DEF files, read
<1>8. LexTold
  <2>1. Len(oldStreams) + 1 = 1
    BY <1>1
  <2>2. \E b : Story(source, Len(oldStreams) + 1, FilesOpen, LexemesTold, b, Started(tokens))
    BY <1>7, <2>1
  <2> QED
    BY <1>1, <1>3, <2>2 DEF LexTold, InIncludeLine
<1> QED
  BY <1>1, <1>8 DEF ToldInv

LEMMA ToldImplies == BufferInv /\ ToldInv => EventsAsIncluded
<1> SUFFICES ASSUME BufferInv, ToldInv, IncludeLinesEnd(source)
             PROVE  /\ IsPrefix(events, Expansion(source))
                    /\ phase = "done" => events = Expansion(source)
  BY DEF EventsAsIncluded
<1>1. /\ source \in [File -> Seq(Lexeme)] /\ tokens \in Seq(Token) /\ Len(tokens) \in Nat
      /\ phase \in Phase
  BY OpenFacts, LenProperties DEF BufferInv, LexerTypeOK
<1>2. CASE phase = "lex"
  <2> DEFINE all == Expansion(source)
  <2>1. events = <<>>
    BY <1>2 DEF ToldInv, LexTold
  <2>2. all \in Calls
    BY <1>1, ExpansionType
  <2> HIDE DEF all
  <2>3. <<>> \o all = all /\ <<>> \in Calls
    BY <2>2, CallsConcat
  <2>4. IsPrefix(<<>>, <<>> \o all)
    BY <2>2, <2>3, ConcatPrefix
  <2> QED
    BY <1>2, <2>1, <2>3, <2>4 DEF all
<1>3. CASE phase = "prepass"
  <2>1. events = Started(SubSeq(tokens, 1, 0)) /\ WholeHeard(tokens)
    BY <1>3, NothingStarted DEF ToldInv, PrepassTold
  <2>2. 0 \in 0 .. Len(tokens)
    BY <1>1
  <2> QED
    BY <1>1, <1>3, <2>1, <2>2, StartedPrefix
<1>4. CASE phase = "parse"
  <2> DEFINE k == p - 1
  <2>1. /\ p \in 1 .. Len(tokens) + 1 /\ WholeHeard(tokens)
        /\ events = Started(SubSeq(tokens, 1, k))
    BY <1>4 DEF ToldInv, ParseTold
  <2>2. k \in 0 .. Len(tokens)
    BY <1>1, <2>1
  <2> HIDE DEF k
  <2> QED
    BY <1>1, <1>4, <2>1, <2>2, StartedPrefix
<1>5. CASE phase \in {"done", "error", "crash"}
  BY <1>5 DEF ToldInv, EndTold
<1> QED
  BY <1>1, <1>2, <1>3, <1>4, <1>5 DEF Phase

(* The action class is told each statement once, in order, in the file it     *)
(* stands in, and when the parser ends without an error nothing is missing: *)
(* EventsAsIncluded of IncludeParse.                                        *)
THEOREM EventsTellTheSource == ParseSpec => []EventsAsIncluded
<1>1. BufferInv /\ ToldInv /\ BufferInv' /\ [ParseNext]_parseVars => ToldInv'
  BY ToldStep
<1>2. ParseInit => ToldInv
  BY ToldInitial
<1>3. BufferInv /\ ToldInv => EventsAsIncluded
  BY ToldImplies
<1> QED
  BY <1>1, <1>2, <1>3, BufferInvariant, PTL DEF ParseSpec
=============================================================================
