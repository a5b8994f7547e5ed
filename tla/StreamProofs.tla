---------------------------- MODULE StreamProofs ----------------------------
(***************************************************************************)
(* The two conversions of FortranStream, for files of any length: the new    *)
(* buffer, which is as long as the file, always has room for what is copied  *)
(* and for the comments that wait, and the look-ahead of the fixed form      *)
(* stays in the padded buffer.                                              *)
(*                                                                         *)
(* The argument counts: a round keeps at most one character for each one     *)
(* that it consumes. That is enough up to position n; a loop that stands at   *)
(* n writes once more, and has room only if some character was dropped       *)
(* (held < i). The invariant says in which states one was, and where the     *)
(* text ends (TextEnd): behind it there is nothing but line ends and blanks. *)
(***************************************************************************)
EXTENDS SourceForms, SequenceTheorems, NaturalsLemmas

LinesLength == Len(Lines(text))

(* The last line end of the text, or the one that was added behind it.      *)
TextEnd == IF Terminated THEN LinesLength - 1 ELSE LinesLength

(* The buffer has the characters of the text, but for zeros blanked.         *)
DataFromText == \A k \in 0..(n + 1) : data[k] \in {Padded(text)[k], " "}

DataInv ==
    /\ LinesLength \in 0..n /\ TextEnd \in 0..n /\ (Terminated => TextEnd < n)
    /\ data \in [0..(n + 1) -> Char \ {"cr"}]
    /\ data[TextEnd] = "nl" /\ data[TextEnd + 1] = "nl"
    /\ \A k \in 0..(n + 1) :
          /\ k >= LinesLength => data[k] = IF k < LinesLength + 2 THEN "nl" ELSE " "
          /\ k >= TextEnd => data[k] \in {"nl", " "}
    /\ DataFromText

held == Len(newData) + Len(comments)

(* The free form at position k, with h characters kept: cont is the flag     *)
(* that the line is continued, waiting whether there are comments to put.   *)
FreeShape(p, cont, k, h, waiting) ==
    /\ p \in {"preprocess", "comment", "begin"} =>
          /\ k <= n
          /\ cont => h < k
          /\ k = n /\ ~cont => waiting
    /\ p \in {"inside", "string"} => k < n
    /\ p \in {"inside", "string", "stringEnd"} => ~cont
    /\ p = "string" /\ k >= TextEnd => h < k
    /\ p = "stringEnd" => k <= n /\ (k > TextEnd => h < k)
    /\ p = "copy" => k < n \/ (k = n /\ ~cont /\ (k <= TextEnd \/ h < k))

FreeInv == FreeShape(pc, continuation, i, held, comments # <<>>)

FixedCounter == {"column1", "commentLine", "column", "quoted", "lineEnd"}

(* The fixed form at position k, with h characters kept.                    *)
FixedShape(p, k, h) ==
    /\ p \in {"column1", "commentLine"} => k <= n
    /\ p = "column" => k < n
    /\ p = "quoted" => k < TextEnd
    /\ p = "lineEnd" =>
          k < n \/ (k <= TextEnd + 1 /\ data[k] = "nl" /\ (k > TextEnd => h < k))

FixedInv == (pc \in FixedCounter => sourceForm = "fixed") /\ FixedShape(pc, i, held)

StreamInv == TypeOK /\ DataInv /\ FreeInv /\ FixedInv /\ NoCrash

-----------------------------------------------------------------------------
(* What the lines of a text are.                                            *)
NoReturn == Char \ {"cr"}

LineSoFar(upTo, t) ==
    upTo = [k \in 0..Len(t) |->
              IF k = 0 THEN <<>>
              ELSE IF t[k] = "nl" /\ k > 1 /\ t[k - 1] = "cr" THEN upTo[k - 1]
              ELSE Append(upTo[k - 1], IF t[k] = "cr" THEN "nl" ELSE t[k])]

LEMMA LinesRecursion ==
    ASSUME NEW t \in Seq(Char)
    PROVE  \E u : LineSoFar(u, t) /\ Lines(t) = u[Len(t)]
<1> DEFINE next == [k \in Nat |-> [s \in Seq(NoReturn) |->
                      IF k \in 1..Len(t)
                      THEN IF t[k] = "nl" /\ k > 1 /\ t[k - 1] = "cr" THEN s
                           ELSE Append(s, IF t[k] = "cr" THEN "nl" ELSE t[k])
                      ELSE s]]
<1>1. next \in [Nat -> [Seq(NoReturn) -> Seq(NoReturn)]]
  <2> SUFFICES ASSUME NEW k \in Nat, NEW s \in Seq(NoReturn), k \in 1..Len(t)
               PROVE  Append(s, IF t[k] = "cr" THEN "nl" ELSE t[k]) \in Seq(NoReturn)
    OBVIOUS
  <2>1. (IF t[k] = "cr" THEN "nl" ELSE t[k]) \in NoReturn
    <3>1. t[k] \in Char
      BY ElementOfSeq
    <3> QED
      BY <3>1 DEF NoReturn, Char
  <2> QED
    BY <2>1, AppendProperties
<1>2. Len(t) \in Nat /\ <<>> \in Seq(NoReturn)
  BY LenProperties
<1>3. PICK f : /\ Recursion(f, <<>>, next, Len(t))
               /\ \A k \in 0..Len(t) : f[k] \in Seq(NoReturn)
  <2> HIDE DEF next
  <2> QED
    BY <1>1, <1>2, RecursionExists
<1>4. LineSoFar(f, t)
  <2>1. ASSUME NEW k \in 0..Len(t), k # 0
        PROVE  next[k][f[k - 1]] =
                 IF t[k] = "nl" /\ k > 1 /\ t[k - 1] = "cr" THEN f[k - 1]
                 ELSE Append(f[k - 1], IF t[k] = "cr" THEN "nl" ELSE t[k])
    <3>1. k \in 1..Len(t) /\ k \in Nat /\ k - 1 \in 0..Len(t)
      BY <1>2, <2>1
    <3>2. f[k - 1] \in Seq(NoReturn)
      BY <1>3, <3>1
    <3> QED
      BY <3>1, <3>2
  <2> HIDE DEF next
  <2> QED
    BY <1>3, <2>1 DEF LineSoFar, Recursion
<1>5. LineSoFar(CHOOSE u : LineSoFar(u, t), t)
  BY <1>4
<1>6. Lines(t) = (CHOOSE u : LineSoFar(u, t))[Len(t)]
  BY DEF Lines, LineSoFar
<1> QED
  BY <1>5, <1>6

LEMMA LinesFacts ==
    ASSUME NEW t \in Seq(Char)
    PROVE  /\ Lines(t) \in Seq(NoReturn)
           /\ Len(Lines(t)) \in 0..Len(t)
           /\ Len(t) > 0 /\ t[Len(t)] \in {"nl", "cr"} =>
                 Len(Lines(t)) > 0 /\ Lines(t)[Len(Lines(t))] = "nl"
<1>1. PICK u : LineSoFar(u, t) /\ Lines(t) = u[Len(t)]
  BY LinesRecursion
<1> DEFINE N == Len(t)
           EndsAt(s, k) ==
             k > 0 /\ t[k] \in {"nl", "cr"} => Len(s) > 0 /\ s[Len(s)] = "nl"
           Fine(k) == /\ u[k] \in Seq(NoReturn)
                      /\ Len(u[k]) <= k
                      /\ EndsAt(u[k], k)
           Good == {k \in Nat : k <= N => Fine(k)}
<1>2. N \in Nat
  BY LenProperties
<1>3. 0 \in Good
  <2>1. 0 \in 0..N
    BY <1>2
  <2>2. u[0] = <<>>
    BY <1>1, <2>1 DEF LineSoFar
  <2>3. u[0] \in Seq(NoReturn) /\ Len(u[0]) = 0
    BY <2>2
  <2> QED
    BY <2>3
<1>4. ASSUME NEW k \in Nat, k \in Good PROVE k + 1 \in Good
  <2> SUFFICES ASSUME k + 1 <= N PROVE Fine(k + 1)
    OBVIOUS
  <2> DEFINE m == k + 1
             c == IF t[m] = "cr" THEN "nl" ELSE t[m]
  <2>1. m \in 0..N /\ m # 0 /\ m - 1 = k /\ m \in 1..N /\ k <= N /\ m \in Nat
    BY <1>2
  <2>2. Fine(k)
    BY <1>4, <2>1
  <2>3. u[m] = IF t[m] = "nl" /\ m > 1 /\ t[m - 1] = "cr" THEN u[m - 1] ELSE Append(u[m - 1], c)
    <3> HIDE DEF m
    <3> QED
      BY <1>1, <2>1 DEF LineSoFar
  <2>4. t[m] \in Char /\ c \in NoReturn /\ (t[m] \in {"nl", "cr"} => c = "nl")
    <3>1. t[m] \in Char
      <4> HIDE DEF m
      <4> QED
        BY <2>1, ElementOfSeq
    <3> HIDE DEF m
    <3> QED
      BY <3>1 DEF NoReturn, Char
  <2>5. Fine(m)
    <3> DEFINE s == u[k]
    <3>1. s \in Seq(NoReturn) /\ Len(s) \in Nat /\ Len(s) <= k
      BY <2>2
    <3>2. CASE t[m] = "nl" /\ m > 1 /\ t[m - 1] = "cr"
      <4>1. u[m] = s /\ k > 0 /\ t[k] = "cr"
        BY <2>1, <2>3, <3>2
      <4>2. EndsAt(s, k)
        BY <2>2
      <4>3. Len(s) > 0 /\ s[Len(s)] = "nl" /\ Len(s) <= m
        BY <3>1, <4>1, <4>2
      <4> HIDE DEF m, s
      <4> QED
        BY <3>1, <4>1, <4>3
    <3>3. CASE ~(t[m] = "nl" /\ m > 1 /\ t[m - 1] = "cr")
      <4>1. u[m] = Append(s, c)
        BY <2>1, <2>3, <3>3
      <4> HIDE DEF s, c
      <4>2. /\ u[m] \in Seq(NoReturn) /\ Len(u[m]) = Len(s) + 1
            /\ u[m][Len(s) + 1] = c
        BY <2>4, <3>1, <4>1, AppendProperties
      <4>3. Len(u[m]) > 0 /\ Len(u[m]) <= m /\ u[m][Len(u[m])] = c
        BY <3>1, <4>2
      <4> HIDE DEF m
      <4> QED
        BY <2>4, <4>2, <4>3
    <3> QED
      BY <3>2, <3>3
  <2> QED
    BY <2>5
<1>5. N \in Good
  <2> HIDE DEF Good
  <2> QED
    BY <1>2, <1>3, <1>4, SetInduction
<1>6. Fine(N)
  BY <1>2, <1>5
<1>7. Lines(t) \in Seq(NoReturn) /\ Len(Lines(t)) <= N /\ EndsAt(Lines(t), N)
  BY <1>1, <1>6
<1>8. Len(Lines(t)) \in Nat
  BY <1>7
<1> QED
  BY <1>2, <1>7, <1>8

-----------------------------------------------------------------------------
(* What the invariant says of the buffer, for use one by one.               *)
LEMMA BufferFacts ==
    ASSUME TypeOK, DataInv
    PROVE  /\ n \in Nat /\ i \in Nat /\ i \in 0..(n + 1) /\ TextEnd \in 0..n /\ TextEnd \in Nat
           /\ \A k \in 0..(n + 1) : data[k] \in Char /\ data[k] # "cr"
           /\ \A k \in 0..(n + 1) : data[k] \notin {"nl", " "} => k < TextEnd
           /\ newData \in Seq(Char) /\ comments \in Seq(Char)
           /\ Len(newData) \in Nat /\ Len(comments) \in Nat
           /\ held \in Nat /\ held <= i /\ held <= n
<1>1. n \in Nat /\ Len(newData) \in Nat /\ Len(comments) \in Nat
  BY LenProperties DEF TypeOK, n
<1>2. i \in 0..(n + 1) /\ TextEnd \in 0..n /\ newData \in Seq(Char) /\ comments \in Seq(Char)
  BY DEF TypeOK, DataInv
<1>3. \A k \in 0..(n + 1) : data[k] \in Char /\ data[k] # "cr"
  BY DEF TypeOK
<1>4. ASSUME NEW k \in 0..(n + 1), data[k] \notin {"nl", " "} PROVE k < TextEnd
  <2>1. ~ (k >= TextEnd)
    BY <1>4 DEF DataInv
  <2> QED
    BY <1>1, <1>2, <2>1
<1>5. held \in Nat /\ held <= Min({i, n})
  BY <1>1 DEF TypeOK, held
<1>6. Min({i, n}) <= i /\ Min({i, n}) <= n /\ Min({i, n}) \in Nat
  <2>1. {i, n} \in SUBSET Nat /\ {i, n} # {}
    BY <1>1, <1>2
  <2>2. Min({i, n}) \in {i, n} /\ \A k \in {i, n} : Min({i, n}) <= k
    BY <2>1, MinFacts
  <2> QED
    BY <2>1, <2>2
<1>7. held <= i /\ held <= n
  BY <1>1, <1>2, <1>5, <1>6
<1>8. i \in Nat /\ TextEnd \in Nat
  BY <1>1, <1>2
<1> QED
  BY <1>1, <1>2, <1>3, <1>4, <1>5, <1>7, <1>8

LEMMA LineEndFacts ==
    ASSUME TypeOK, DataInv, NEW k \in 0..n
    PROVE  /\ LineEnd(k) \in k..n
           /\ LineEnd(k) = n \/ data[LineEnd(k)] = "nl"
           /\ \A m \in k..n : data[m] = "nl" => LineEnd(k) <= m
           /\ k <= TextEnd => LineEnd(k) <= TextEnd
           /\ NextLine(k) \in k..n /\ NextLine(k) <= LineEnd(k) + 1
           /\ NextLine(k) >= LineEnd(k)
           /\ k < n => NextLine(k) > k
<1> DEFINE S == {m \in k..n : m = n \/ data[m] = "nl"}
<1>1. n \in Nat /\ TextEnd \in 0..n /\ data[TextEnd] = "nl"
  BY BufferFacts DEF DataInv
<1>2. S \in SUBSET Nat /\ n \in S /\ LineEnd(k) = Min(S)
  BY <1>1 DEF LineEnd
<1>3. LineEnd(k) \in S /\ \A m \in S : LineEnd(k) <= m
  <2> HIDE DEF S
  <2> QED
    BY <1>2, MinFacts
<1>4. k <= TextEnd => TextEnd \in S
  BY <1>1
<1>5. LineEnd(k) \in k..n /\ (k <= TextEnd => LineEnd(k) <= TextEnd)
  BY <1>3, <1>4
<1>6. NextLine(k) = IF LineEnd(k) < n THEN LineEnd(k) + 1 ELSE n
  BY DEF NextLine
<1>7. /\ NextLine(k) \in k..n /\ NextLine(k) <= LineEnd(k) + 1
      /\ NextLine(k) >= LineEnd(k) /\ (k < n => NextLine(k) > k)
  <2> HIDE DEF S
  <2> QED
    BY <1>1, <1>5, <1>6
<1>8. /\ LineEnd(k) = n \/ data[LineEnd(k)] = "nl"
      /\ \A m \in k..n : data[m] = "nl" => LineEnd(k) <= m
  BY <1>3
<1> QED
  BY <1>5, <1>7, <1>8

LEMMA NonBlankFacts ==
    ASSUME TypeOK, DataInv, NEW k \in 0..(n + 1)
    PROVE  /\ NonBlank(k) \in k..(n + 1)
           /\ k <= n => NonBlank(k) <= n
           /\ NonBlank(k) >= n \/ data[NonBlank(k)] # " "
           /\ \A m \in k..(n + 1) : m < NonBlank(k) => data[m] = " "
<1> DEFINE S == {m \in k..(n + 1) : m >= n \/ data[m] # " "}
<1>1. n \in Nat
  BY BufferFacts
<1>2. n + 1 \in k..(n + 1) /\ (k <= n => n \in k..(n + 1)) /\ n + 1 >= n /\ k..(n + 1) \subseteq Nat
  BY <1>1
<1>3. n + 1 \in S /\ (k <= n => n \in S)
  <2>1. n >= n
    BY <1>1
  <2> QED
    BY <1>2, <2>1, Zenon
<1>4. S \subseteq k..(n + 1)
  OBVIOUS
<1>5. S \in SUBSET Nat /\ n + 1 \in S /\ (k <= n => n \in S) /\ \A m \in S : m \in k..(n + 1)
  <2> HIDE DEF S
  <2> QED
    BY <1>2, <1>3, <1>4
<1>6. NonBlank(k) = Min(S)
  BY DEF NonBlank
<1>7. NonBlank(k) \in S /\ \A m \in S : NonBlank(k) <= m
  <2> HIDE DEF S
  <2> QED
    BY <1>5, <1>6, MinFacts
<1>8. ASSUME NEW m \in k..(n + 1), m < NonBlank(k) PROVE data[m] = " "
  <2>1. m \notin S
    <3> HIDE DEF S
    <3>1. m \in S => NonBlank(k) <= m
      BY <1>7
    <3>2. NonBlank(k) \in Nat /\ m \in Nat
      BY <1>1, <1>2, <1>5, <1>7
    <3> QED
      BY <1>8, <3>1, <3>2
  <2> QED
    BY <2>1
<1>9. NonBlank(k) \in k..(n + 1) /\ (NonBlank(k) >= n \/ data[NonBlank(k)] # " ")
  BY <1>7
<1>10. k <= n => NonBlank(k) <= n
  <2> HIDE DEF S
  <2> QED
    BY <1>5, <1>7
<1> QED
  BY <1>8, <1>9, <1>10

LEMMA SpanFacts ==
    ASSUME TypeOK, DataInv, NEW k \in 0..(n + 1), NEW m \in k..(n + 1)
    PROVE  Span(k, m) \in Seq(Char) /\ Len(Span(k, m)) = m - k
<1>0. n \in Nat
  BY BufferFacts
<1>1. n \in Nat /\ m - k \in Nat
  BY <1>0
<1>2. \A d \in 1..(m - k) : k + d - 1 \in 0..(n + 1)
  BY <1>1
<1>3. \A d \in 1..(m - k) : data[k + d - 1] \in Char
  BY <1>2, BufferFacts
<1> QED
  BY <1>1, <1>3 DEF Span

LEMMA Appended ==
    ASSUME NEW s \in Seq(Char), NEW t \in Seq(Char)
    PROVE  s \o t \in Seq(Char) /\ Len(s \o t) = Len(s) + Len(t) /\ Len(s) \in Nat /\ Len(t) \in Nat
BY ConcatProperties, LenProperties

(* Whether the file can be converted is a matter of the file alone.          *)
LEMMA ConvertibleSame ==
    ASSUME text' = text, sourceForm' = sourceForm
    PROVE  Terminated' = Terminated /\ Convertible' = Convertible
<1>1. n' = n
  BY DEF n
<1>2. Terminated' = Terminated /\ PaddingShort' = PaddingShort
  BY <1>1 DEF Terminated, PaddingShort
<1>3. LargeNumberIn(Padded(text))' = LargeNumberIn(Padded(text))
  BY <1>1 DEF LargeNumberIn
<1> QED
  BY <1>2, <1>3 DEF Convertible

(* A step that leaves the buffer alone keeps what is said of it; what is     *)
(* left to show of the others is that they stay in their bounds.            *)
LEMMA SameBuffer ==
    ASSUME StreamInv, UNCHANGED <<source, data>>,
           i' \in 0..(n + 1), newData' \in Seq(Char), comments' \in Seq(Char),
           Len(newData') + Len(comments') <= i', Len(newData') + Len(comments') <= n,
           continuation' \in BOOLEAN, col' \in 1..7,
           pc' \in {"preprocess", "comment", "begin", "inside", "string", "stringEnd", "copy",
                    "column1", "commentLine", "column", "quoted", "lineEnd", "done", "crash"},
           pc' = "crash" => ~Convertible
    PROVE  /\ TypeOK' /\ DataInv' /\ NoCrash'
           /\ n' = n /\ TextEnd' = TextEnd /\ Terminated' = Terminated
           /\ text' = text /\ sourceForm' = sourceForm /\ data' = data
           /\ held' = Len(newData') + Len(comments')
<1>1. text' = text /\ sourceForm' = sourceForm /\ data' = data
  BY DEF source
<1>2. n' = n /\ LinesLength' = LinesLength
  BY <1>1 DEF n, LinesLength
<1>3. Terminated' = Terminated /\ Convertible' = Convertible
  BY <1>1, ConvertibleSame
<1>4. TextEnd' = TextEnd
  BY <1>2, <1>3 DEF TextEnd
<1>a. DataFromText'
  BY <1>1, <1>2 DEF DataFromText, DataInv, StreamInv
<1>5. DataInv'
  BY <1>1, <1>2, <1>3, <1>4, <1>a DEF DataInv, StreamInv
<1>6. NoCrash'
  BY <1>3 DEF NoCrash
<1>7. Len(newData') + Len(comments') <= Min({i', n'})
  <2>0. n \in Nat
    BY BufferFacts DEF StreamInv
  <2>1. {i', n'} \in SUBSET Nat /\ {i', n'} # {}
    BY <1>2, <2>0
  <2>2. Min({i', n'}) \in {i', n'}
    BY <2>1, MinFacts
  <2> QED
    BY <1>2, <2>2
<1>8. TypeOK'
  BY <1>1, <1>2, <1>7 DEF TypeOK, StreamInv
<1> QED
  BY <1>1, <1>2, <1>3, <1>4, <1>5, <1>6, <1>8 DEF held

-----------------------------------------------------------------------------
(* A Hollerith constant ends before the end of the file, two quotes and an   *)
(* '&' in a constant not behind it, nor behind the last line end.           *)
NumberRead(number, digits) ==
    number = [d \in 0..Len(digits) |->
                IF d = 0 THEN 0 ELSE 10 * number[d - 1] + (IF digits[d] = "1" THEN 1 ELSE 0)]

LEMMA NumberIsNat ==
    ASSUME NEW digits \in Seq(Char)
    PROVE  Number(digits) \in Nat
<1> DEFINE N == Len(digits)
           next == [d \in Nat |-> [v \in Nat |-> 10 * v + (IF digits[d] = "1" THEN 1 ELSE 0)]]
<1>2. N \in Nat
  BY LenProperties
<1>3. next \in [Nat -> [Nat -> Nat]]
  OBVIOUS
<1>4. PICK f : Recursion(f, 0, next, N) /\ \A d \in 0..N : f[d] \in Nat
  <2> HIDE DEF next, N
  <2> QED
    BY <1>2, <1>3, RecursionExists
<1>5. NumberRead(f, digits)
  <2> HIDE DEF N
  <2>1. ASSUME NEW d \in 0..N, d # 0
        PROVE  next[d][f[d - 1]] = 10 * f[d - 1] + (IF digits[d] = "1" THEN 1 ELSE 0)
    <3>1. d \in Nat /\ d - 1 \in 0..N
      BY <1>2, <2>1
    <3> QED
      BY <1>4, <3>1
  <2> HIDE DEF next
  <2>2. f = [d \in 0..N |->
               IF d = 0 THEN 0 ELSE 10 * f[d - 1] + (IF digits[d] = "1" THEN 1 ELSE 0)]
    BY <1>4, <2>1 DEF Recursion
  <2> QED
    BY <2>2 DEF NumberRead, N
<1> DEFINE u == CHOOSE number : NumberRead(number, digits)
<1>6. NumberRead(u, digits)
  BY <1>5
<1>7. Number(digits) = u[N]
  BY DEF Number, NumberRead
<1> HIDE DEF u, next
<1> DEFINE Good == {d \in Nat : d <= N => u[d] \in Nat}
<1>8. 0 \in Good
  <2>1. 0 \in 0..Len(digits)
    BY <1>2
  <2> QED
    BY <1>6, <2>1 DEF NumberRead
<1>9. ASSUME NEW d \in Nat, d \in Good PROVE d + 1 \in Good
  <2> SUFFICES ASSUME d + 1 <= N PROVE u[d + 1] \in Nat
    OBVIOUS
  <2> DEFINE e == d + 1
  <2>1. e \in 0..Len(digits) /\ e # 0 /\ e - 1 = d /\ d <= N
    BY <1>2
  <2>2. u[d] \in Nat
    BY <1>9, <2>1
  <2> HIDE DEF e
  <2>3. u[e] = 10 * u[d] + (IF digits[e] = "1" THEN 1 ELSE 0)
    BY <1>6, <2>1 DEF NumberRead
  <2>4. u[e] \in Nat
    BY <2>2, <2>3
  <2> QED
    BY <2>4 DEF e
<1>10. N \in Good
  <2> HIDE DEF Good, N
  <2> QED
    BY <1>2, <1>8, <1>9, SetInduction
<1>11. u[N] \in Nat
  <2> HIDE DEF N
  <2> QED
    BY <1>2, <1>10
<1> QED
  BY <1>7, <1>11

LEMMA DigitsEndFacts ==
    ASSUME TypeOK, DataInv, i < n
    PROVE  /\ DigitsEnd \in (i + 1)..(n + 1)
           /\ \A m \in (i + 1)..(n + 1) : m < DigitsEnd => data[m] \in Digit
<1> DEFINE S == {m \in (i + 1)..(n + 1) : data[m] \notin Digit}
<1>1. n \in Nat /\ i \in Nat /\ TextEnd \in 0..n
  BY BufferFacts
<1>2. n + 1 \in (i + 1)..(n + 1) /\ (i + 1)..(n + 1) \subseteq Nat /\ n + 1 >= TextEnd /\ n + 1 \in 0..(n + 1)
  BY <1>1
<1>3. data[n + 1] \in {"nl", " "}
  BY <1>2 DEF DataInv
<1>4. n + 1 \in S /\ S \subseteq (i + 1)..(n + 1)
  BY <1>2, <1>3 DEF Digit
<1>5. DigitsEnd \in S /\ \A m \in S : DigitsEnd <= m
  <2>1. DigitsEnd = Min(S)
    BY DEF DigitsEnd
  <2> HIDE DEF S
  <2>2. S \in SUBSET Nat /\ S # {}
    BY <1>2, <1>4
  <2> QED
    BY <2>1, <2>2, MinFacts
<1>6. ASSUME NEW m \in (i + 1)..(n + 1), m < DigitsEnd PROVE m \notin S
  <2> HIDE DEF S
  <2>1. m \in S => DigitsEnd <= m
    BY <1>5
  <2>2. DigitsEnd \in Nat /\ m \in Nat
    BY <1>1, <1>2, <1>4, <1>5
  <2> QED
    BY <1>6, <2>1, <2>2
<1>7. \A m \in (i + 1)..(n + 1) : m < DigitsEnd => data[m] \in Digit
  BY <1>6
<1> QED
  BY <1>5, <1>7

LEMMA HollerithLengthIsNat ==
    ASSUME TypeOK, DataInv, i < n
    PROVE  HollerithLength \in Nat
<1>1. n \in Nat /\ i \in Nat
  BY BufferFacts
<1>2. i + 1 \in 0..(n + 1) /\ DigitsEnd \in (i + 1)..(n + 1)
  BY <1>1, DigitsEndFacts
<1>3. Span(i + 1, DigitsEnd) \in Seq(Char)
  BY <1>2, SpanFacts
<1> QED
  BY <1>3, NumberIsNat DEF HollerithLength

LEMMA HollerithFacts ==
    ASSUME TypeOK, DataInv, i < n
    PROVE  HollerithLast \in i..(n - 1)
<1>1. n \in Nat /\ i \in Nat
  BY BufferFacts
<1>2. DigitsEnd \in (i + 1)..(n + 1)
  BY DigitsEndFacts
<1>3. HollerithLength \in Nat
  BY HollerithLengthIsNat
<1>4. \/ HollerithLast = i
      \/ HollerithLast = DigitsEnd + HollerithLength /\ DigitsEnd + HollerithLength < n
  BY DEF HollerithLast
<1> QED
  BY <1>1, <1>2, <1>3, <1>4

(* The digits that Integer.parseInt does not take stand in the file itself:  *)
(* none of the zeros blanked in column 6 is among them.                     *)
LEMMA LargeNumberOfText ==
    ASSUME TypeOK, DataInv, i < n, NumberTooLarge
    PROVE  ~Convertible
<1> DEFINE t == Padded(text)
           k == i + 1
           h == DigitsEnd
<1>1. n \in Nat /\ i \in Nat /\ TextEnd \in 0..n
  BY BufferFacts
<1>2. /\ h \in k..(n + 1) /\ data[h] = "h"
      /\ \A m \in k..(n + 1) : m < h => data[m] \in Digit
  BY DigitsEndFacts DEF NumberTooLarge, HollerithBegins
<1>3. \A m \in 0..(n + 1) : data[m] # " " => t[m] = data[m]
  BY DEF DataInv, DataFromText
<1>4. Number(Span(k, h)) > IntMax
  BY DEF NumberTooLarge, HollerithLength
<1>5. k \in Nat /\ h \in Nat /\ h \in 0..(n + 1) /\ k \in 0..h /\ k <= h
  BY <1>1, <1>2
<1> HIDE DEF t, k, h
<1>6. h \in 0..n /\ t[h] = "h"
  <2>1. h < TextEnd
    BY <1>2, <1>5, BufferFacts
  <2>2. t[h] = "h"
    BY <1>2, <1>3, <1>5
  <2> QED
    BY <1>1, <1>5, <2>1, <2>2
<1>7. ASSUME NEW d \in k..(h - 1)
      PROVE  t[d] \in Digit /\ t[d] = data[d]
  <2>1. d \in k..(n + 1) /\ d < h /\ d \in 0..(n + 1)
    BY <1>1, <1>5, <1>6
  <2>2. data[d] \in Digit
    BY <1>2, <2>1
  <2> QED
    BY <1>3, <2>1, <2>2 DEF Digit
<1>8. [d \in 1..(h - k) |-> t[k + d - 1]] = Span(k, h)
  <2>1. ASSUME NEW d \in 1..(h - k) PROVE t[k + d - 1] = data[k + d - 1]
    <3>1. k + d - 1 \in k..(h - 1)
      BY <1>5
    <3> QED
      BY <1>7, <3>1
  <2> QED
    BY <2>1 DEF Span
<1>9. LargeNumberIn(t)
  <2>1. \A d \in k..(h - 1) : t[d] \in Digit
    BY <1>7
  <2>2. Number([d \in 1..(h - k) |-> t[k + d - 1]]) > IntMax
    BY <1>4, <1>8
  <2> QED
    BY <1>5, <1>6, <2>1, <2>2 DEF LargeNumberIn
<1> QED
  BY <1>9 DEF Convertible, t

LEMMA TwoQuotesFacts ==
    ASSUME TypeOK, DataInv, i < n
    PROVE  TwoQuotes \in (i + 1)..n /\ (i < TextEnd => TwoQuotes <= TextEnd)
<1>1. n \in Nat /\ i \in Nat /\ TextEnd \in 0..n
  BY BufferFacts
<1>2. CASE i + 1 < n - 1 /\ data[i + 1] = "'" /\ data[i + 2] = "'"
  <2>1. i + 2 \in 0..(n + 1) /\ data[i + 2] \notin {"nl", " "}
    BY <1>1, <1>2
  <2>2. i + 2 < TextEnd
    BY <2>1, BufferFacts
  <2> QED
    BY <1>1, <1>2, <2>2 DEF TwoQuotes
<1>3. CASE ~(i + 1 < n - 1 /\ data[i + 1] = "'" /\ data[i + 2] = "'")
  BY <1>1, <1>3 DEF TwoQuotes
<1> QED
  BY <1>2, <1>3

LEMMA AmpersandFacts ==
    ASSUME TypeOK, DataInv, i < n
    PROVE  Ampersand \in (i + 1)..n /\ (i < TextEnd => Ampersand <= TextEnd)
<1>1. n \in Nat /\ i \in Nat /\ TextEnd \in 0..n
  BY BufferFacts
<1>2. TwoQuotes \in (i + 1)..n /\ (i < TextEnd => TwoQuotes <= TextEnd)
  BY TwoQuotesFacts
<1>3. data[TwoQuotes] = "&" => TwoQuotes < TextEnd
  <2>1. TwoQuotes \in 0..(n + 1)
    BY <1>1, <1>2
  <2> QED
    BY <2>1, BufferFacts
<1> QED
  BY <1>1, <1>2, <1>3 DEF Ampersand

-----------------------------------------------------------------------------
(* Free form.                                                               *)
FreeCounter == {"preprocess", "comment", "begin", "inside", "string", "stringEnd", "copy"}

LEMMA FreeStep ==
    ASSUME StreamInv, UNCHANGED <<source, col, data>>,
           i' \in 0..(n + 1), newData' \in Seq(Char), comments' \in Seq(Char),
           NEW h \in Nat, h = Len(newData') + Len(comments'), h <= i', h <= n,
           continuation' \in BOOLEAN, pc' \in FreeCounter \cup {"done"},
           FreeShape(pc', continuation', i', h, comments' # <<>>)
    PROVE  StreamInv'
<1>1. /\ TypeOK' /\ DataInv' /\ NoCrash' /\ n' = n /\ TextEnd' = TextEnd /\ held' = h
  <2>1. UNCHANGED <<source, data>> /\ col' = col
    BY DEF source
  <2>2. col' \in 1..7
    BY <2>1 DEF TypeOK, StreamInv
  <2>3. /\ pc' \in {"preprocess", "comment", "begin", "inside", "string", "stringEnd", "copy",
                    "column1", "commentLine", "column", "quoted", "lineEnd", "done", "crash"}
        /\ pc' # "crash"
    BY DEF FreeCounter
  <2> QED
    BY <2>1, <2>2, <2>3, SameBuffer
<1>2. FreeInv'
  BY <1>1 DEF FreeInv, FreeShape
<1>3. FixedInv'
  BY DEF FixedInv, FixedShape, FixedCounter, FreeCounter
<1> QED
  BY <1>1, <1>2, <1>3 DEF StreamInv

LEMMA LineConsumed ==
    ASSUME StreamInv, ConsumePreprocessLine \/ ConsumeCommentLine
    PROVE  StreamInv'
<1> DEFINE h == Len(newData') + Len(comments')
           next == NextLine(i)
           line == Span(i, next)
<1>1. /\ pc \in {"preprocess", "comment"} /\ i < n /\ pc' = pc /\ continuation' = continuation
      /\ comments' = comments \o line /\ i' = next /\ newData' = newData
      /\ UNCHANGED <<source, col, data>>
  BY DEF ConsumePreprocessLine, ConsumeCommentLine, ConsumeLine
<1>2. /\ n \in Nat /\ i \in Nat /\ newData \in Seq(Char) /\ comments \in Seq(Char)
      /\ Len(newData) \in Nat /\ Len(comments) \in Nat /\ held <= i
      /\ held = Len(newData) + Len(comments)
  BY BufferFacts DEF StreamInv, held
<1>3. next \in (i + 1)..n
  <2>1. i \in 0..n
    BY <1>1, <1>2
  <2>2. next \in i..n /\ next > i
    BY <1>1, <2>1, LineEndFacts DEF StreamInv
  <2> HIDE DEF next
  <2> QED
    BY <1>2, <2>2
<1>4. line \in Seq(Char) /\ Len(line) = next - i
  <2>1. i \in 0..(n + 1) /\ next \in i..(n + 1)
    <3> HIDE DEF next
    <3> QED
      BY <1>2, <1>3
  <2> QED
    BY <2>1, SpanFacts DEF StreamInv
<1> HIDE DEF next, line
<1>5. /\ comments' \in Seq(Char) /\ Len(comments') = Len(comments) + next - i
      /\ comments' # <<>>
  <2>1. comments' \in Seq(Char) /\ Len(comments') = Len(comments) + Len(line)
    BY <1>1, <1>2, <1>4, Appended
  <2>2. Len(comments') > 0
    BY <1>2, <1>3, <1>4, <2>1
  <2> QED
    BY <1>2, <1>3, <1>4, <2>1, <2>2
<1>6. h \in Nat /\ h = held + next - i /\ h <= i' /\ h <= n
  BY <1>1, <1>2, <1>3, <1>5
<1>7. (continuation => held < i) /\ continuation \in BOOLEAN
  BY <1>1 DEF StreamInv, FreeInv, FreeShape, TypeOK
<1> HIDE DEF h
<1>8. FreeShape(pc', continuation', i', h, comments' # <<>>)
  <2>1. continuation => h < i'
    BY <1>1, <1>2, <1>3, <1>6, <1>7
  <2>2. i' <= n
    BY <1>1, <1>2, <1>3
  <2> QED
    BY <1>1, <1>5, <2>1, <2>2 DEF FreeShape
<1>9. i' \in 0..(n + 1) /\ newData' \in Seq(Char) /\ continuation' \in BOOLEAN
  BY <1>1, <1>2, <1>3, <1>7
<1>10. pc' \in FreeCounter \cup {"done"}
  BY <1>1 DEF FreeCounter
<1> QED
  BY <1>1, <1>5, <1>6, <1>8, <1>9, <1>10, FreeStep DEF h

(* The facts the steps below start from.                                    *)
LEMMA Situation ==
    ASSUME StreamInv
    PROVE  /\ n \in Nat /\ i \in Nat /\ TextEnd \in Nat /\ TextEnd <= n /\ i <= n + 1
           /\ newData \in Seq(Char) /\ comments \in Seq(Char)
           /\ Len(newData) \in Nat /\ Len(comments) \in Nat
           /\ held = Len(newData) + Len(comments) /\ held \in Nat /\ held <= i /\ held <= n
           /\ continuation \in BOOLEAN
           /\ FreeShape(pc, continuation, i, held, comments # <<>>)
           /\ data[TextEnd] = "nl"
<1>1. n \in Nat /\ i \in Nat /\ TextEnd \in 0..n /\ i \in 0..(n + 1)
  BY BufferFacts DEF StreamInv
<1>2. TextEnd \in Nat /\ TextEnd <= n /\ i <= n + 1
  BY <1>1
<1> QED
  BY <1>1, <1>2, BufferFacts DEF StreamInv, FreeInv, held, TypeOK, DataInv

LEMMA InRange ==
    ASSUME NEW k \in Nat, NEW m \in Nat, k <= m + 1
    PROVE  k \in 0..(m + 1)
OBVIOUS

(* A character that is neither blank nor a line end is in front of the end. *)
LEMMA InFront ==
    ASSUME StreamInv, NEW k \in Nat, k <= n + 1, data[k] \notin {"nl", " "}
    PROVE  k < TextEnd
<1>0. n \in Nat
  BY Situation
<1>1. k \in 0..(n + 1)
  BY <1>0, InRange
<1> QED
  BY <1>1, BufferFacts DEF StreamInv

(* A step that neither stores nor drops a character.                        *)
LEMMA FreeMove ==
    ASSUME StreamInv, UNCHANGED <<source, col, data, newData, comments>>,
           i' \in Nat, i' >= i, i' <= n + 1,
           continuation' \in BOOLEAN, pc' \in FreeCounter \cup {"done"},
           FreeShape(pc', continuation', i', held, comments # <<>>)
    PROVE  StreamInv'
<1>1. /\ n \in Nat /\ i \in Nat /\ held \in Nat /\ held <= i /\ held <= n
      /\ newData \in Seq(Char) /\ comments \in Seq(Char)
      /\ held = Len(newData) + Len(comments)
  BY Situation
<1>2. held <= i' /\ i' \in 0..(n + 1)
  BY <1>1
<1> QED
  BY <1>1, <1>2, FreeStep

LEMMA NothingConsumed ==
    ASSUME StreamInv, NoPreprocessLine \/ NoCommentLine
    PROVE  StreamInv'
<1>1. /\ i' = i /\ continuation' = continuation
      /\ UNCHANGED <<source, col, data, newData, comments>>
      /\ pc \in {"preprocess", "comment"} /\ pc' \in {"comment", "begin"}
  BY DEF NoPreprocessLine, NoCommentLine
<1>2. FreeShape(pc', continuation', i', held, comments # <<>>)
  <2>1. FreeShape(pc, continuation, i, held, comments # <<>>)
    BY Situation
  <2> QED
    BY <1>1, <2>1 DEF FreeShape
<1>3. i \in Nat /\ i <= n + 1 /\ continuation \in BOOLEAN /\ i >= i
  BY Situation
<1>4. pc' \in FreeCounter \cup {"done"}
  BY <1>1 DEF FreeCounter
<1> QED
  BY <1>1, <1>2, <1>3, <1>4, FreeMove

LEMMA ContinuedBegun ==
    ASSUME StreamInv, BeginContinued
    PROVE  StreamInv'
<1>1. /\ pc = "begin" /\ continuation /\ continuation' = FALSE
      /\ UNCHANGED <<source, col, data, newData, comments>>
  BY DEF BeginContinued
<1>2. n \in Nat /\ i \in Nat /\ TextEnd \in Nat /\ TextEnd <= n /\ i <= n /\ held < i /\ i <= n + 1
  BY <1>1, Situation DEF FreeShape
<1>3. CASE data[NonBlank(i)] = "&" /\ i' = NonBlank(i) + 1 /\ pc' = "copy"
  <2>1. i \in 0..(n + 1)
    BY <1>2
  <2>2. NonBlank(i) \in i..(n + 1)
    BY <2>1, NonBlankFacts DEF StreamInv
  <2>3. NonBlank(i) \in Nat /\ NonBlank(i) <= n + 1 /\ NonBlank(i) >= i
    BY <1>2, <2>2
  <2>4. NonBlank(i) < TextEnd
    BY <1>3, <2>3, InFront
  <2>5. i' \in Nat /\ i' >= i /\ i' <= TextEnd /\ i' <= n /\ i' <= n + 1 /\ (i' < n \/ i' = n)
    BY <1>2, <1>3, <2>3, <2>4
  <2>6. FreeShape(pc', continuation', i', held, comments # <<>>)
    BY <1>1, <1>3, <2>5 DEF FreeShape
  <2>7. pc' \in FreeCounter \cup {"done"}
    BY <1>3 DEF FreeCounter
  <2> QED
    BY <1>1, <2>5, <2>6, <2>7, FreeMove
<1>4. CASE /\ pc' = IF i < n /\ data[i] = "'" THEN "string" ELSE "copy"
           /\ i' = i
  <2>1. data[i] = "'" => i < TextEnd
    BY <1>2, InFront
  <2>2. ~(i < n) => i = n
    BY <1>2
  <2>3. i < TextEnd => ~(i >= TextEnd)
    BY <1>2
  <2>4. FreeShape(pc', continuation', i', held, comments # <<>>)
    BY <1>1, <1>2, <1>4, <2>1, <2>2, <2>3 DEF FreeShape
  <2>5. pc' \in FreeCounter \cup {"done"}
    BY <1>4 DEF FreeCounter
  <2>6. i' \in Nat /\ i' >= i /\ i' <= n + 1
    BY <1>2, <1>4
  <2> QED
    BY <1>1, <2>4, <2>5, <2>6, FreeMove
<1> QED
  BY <1>3, <1>4 DEF BeginContinued

LEMMA StatementBegun ==
    ASSUME StreamInv, BeginStatement
    PROVE  StreamInv'
<1>1. /\ pc = "begin" /\ ~continuation /\ newData' = newData \o comments /\ comments' = <<>>
      /\ pc' = (IF comments # <<>> /\ i >= n THEN "done" ELSE "copy")
      /\ UNCHANGED <<source, col, data>> /\ i' = i /\ continuation' = continuation
  BY DEF BeginStatement
<1>2. /\ n \in Nat /\ i \in Nat /\ i <= n /\ held \in Nat /\ held <= i /\ held <= n
      /\ newData \in Seq(Char) /\ comments \in Seq(Char) /\ continuation \in BOOLEAN
      /\ Len(newData) \in Nat /\ Len(comments) \in Nat
      /\ held = Len(newData) + Len(comments) /\ (i = n => comments # <<>>)
  BY <1>1, Situation DEF FreeShape
<1>3. newData' \in Seq(Char) /\ Len(newData') = held
  BY <1>1, <1>2, Appended
<1>4. comments' \in Seq(Char) /\ Len(comments') = 0
  BY <1>1
<1>5. held = Len(newData') + Len(comments')
  BY <1>2, <1>3, <1>4
<1>6. pc' = "copy" => i' < n
  BY <1>1, <1>2
<1>7. FreeShape(pc', continuation', i', held, comments' # <<>>)
  BY <1>1, <1>6 DEF FreeShape
<1>8. pc' \in FreeCounter \cup {"done"}
  BY <1>1 DEF FreeCounter
<1>9. i' \in 0..(n + 1) /\ held <= i' /\ continuation' \in BOOLEAN
  BY <1>1, <1>2
<1> QED
  BY <1>1, <1>2, <1>3, <1>4, <1>5, <1>7, <1>8, <1>9, FreeStep

LEMMA CommentConsumed ==
    ASSUME StreamInv, ConsumeComment
    PROVE  StreamInv'
<1> DEFINE end == LineEnd(i)
           comment == Span(i, end)
           h == held + end - i
<1>1. /\ pc = "inside" /\ data[i] = "!" /\ newData' = (newData \o comments) \o comment
      /\ comments' = <<>> /\ i' = end /\ pc' = "copy"
      /\ UNCHANGED <<source, col, data>> /\ continuation' = continuation
  BY ConcatAssociative, Situation DEF ConsumeComment
<1>2. /\ n \in Nat /\ i \in Nat /\ i < n /\ held \in Nat /\ held <= i /\ held <= n
      /\ newData \in Seq(Char) /\ comments \in Seq(Char) /\ ~continuation /\ continuation \in BOOLEAN
      /\ Len(newData) \in Nat /\ Len(comments) \in Nat /\ i <= n + 1
      /\ held = Len(newData) + Len(comments) /\ TextEnd \in Nat /\ TextEnd <= n
  BY <1>1, Situation DEF FreeShape
<1>3. i < TextEnd
  BY <1>1, <1>2, InFront
<1>4. end \in i..n /\ end <= TextEnd
  <2>1. i \in 0..n /\ i <= TextEnd
    BY <1>2, <1>3
  <2> QED
    BY <2>1, LineEndFacts DEF StreamInv
<1>5. comment \in Seq(Char) /\ Len(comment) = end - i
  <2>1. i \in 0..(n + 1) /\ end \in i..(n + 1)
    <3> HIDE DEF end
    <3> QED
      BY <1>2, <1>4
  <2> QED
    BY <2>1, SpanFacts DEF StreamInv
<1> HIDE DEF end, comment
<1>6. newData' \in Seq(Char) /\ Len(newData') = h
  <2>1. newData \o comments \in Seq(Char) /\ Len(newData \o comments) = held
    BY <1>2, Appended
  <2>2. newData' \in Seq(Char) /\ Len(newData') = held + Len(comment)
    BY <1>1, <1>5, <2>1, Appended
  <2> QED
    BY <1>2, <1>4, <1>5, <2>2
<1>7. comments' \in Seq(Char) /\ Len(comments') = 0
  BY <1>1
<1>8. h \in Nat /\ h <= i' /\ h <= n /\ i' \in 0..(n + 1) /\ i' <= TextEnd /\ (i' < n \/ i' = n)
  BY <1>1, <1>2, <1>4
<1>9. h = Len(newData') + Len(comments')
  BY <1>6, <1>7, <1>8
<1> HIDE DEF h
<1>10. FreeShape(pc', continuation', i', h, comments' # <<>>)
  BY <1>1, <1>2, <1>8 DEF FreeShape
<1>11. pc' \in FreeCounter \cup {"done"} /\ continuation' \in BOOLEAN
  BY <1>1, <1>2 DEF FreeCounter
<1> QED
  BY <1>1, <1>6, <1>7, <1>8, <1>9, <1>10, <1>11, FreeStep

LEMMA ContinuationConsumed ==
    ASSUME StreamInv, ConsumeContinuation
    PROVE  StreamInv'
<1> DEFINE next == NextLine(i)
           behind == Span(i + 1, next)
           h == held + next - i - 1
<1>1. /\ pc = "inside" /\ comments' = comments \o behind /\ newData' = newData
      /\ i' = next - 1 /\ pc' = "copy" /\ continuation' = TRUE
      /\ UNCHANGED <<source, col, data>>
  BY DEF ConsumeContinuation, BehindContinuation
<1>2. /\ n \in Nat /\ i \in Nat /\ i < n /\ held \in Nat /\ held <= i /\ held <= n
      /\ newData \in Seq(Char) /\ comments \in Seq(Char)
      /\ Len(newData) \in Nat /\ Len(comments) \in Nat
      /\ held = Len(newData) + Len(comments)
  BY <1>1, Situation DEF FreeShape
<1>3. next \in i..n /\ next > i
  <2>1. i \in 0..n
    BY <1>2
  <2> QED
    BY <1>2, <2>1, LineEndFacts DEF StreamInv
<1>4. behind \in Seq(Char) /\ Len(behind) = next - (i + 1)
  <2>1. i + 1 \in 0..(n + 1) /\ next \in (i + 1)..(n + 1)
    <3> HIDE DEF next
    <3> QED
      BY <1>2, <1>3
  <2> QED
    BY <2>1, SpanFacts DEF StreamInv
<1> HIDE DEF next, behind
<1>5. comments' \in Seq(Char) /\ Len(comments') = Len(comments) + next - i - 1
  <2>1. comments' \in Seq(Char) /\ Len(comments') = Len(comments) + Len(behind)
    BY <1>1, <1>2, <1>4, Appended
  <2> QED
    BY <1>2, <1>3, <1>4, <2>1
<1>6. h \in Nat /\ h <= i' /\ h <= n /\ i' \in 0..(n + 1) /\ i' < n
  BY <1>1, <1>2, <1>3
<1>7. h = Len(newData') + Len(comments')
  BY <1>1, <1>2, <1>3, <1>5
<1> HIDE DEF h
<1>8. FreeShape(pc', continuation', i', h, comments' # <<>>)
  BY <1>1, <1>6 DEF FreeShape
<1>9. pc' \in FreeCounter \cup {"done"} /\ continuation' \in BOOLEAN /\ newData' \in Seq(Char)
  BY <1>1, <1>2 DEF FreeCounter
<1> QED
  BY <1>1, <1>5, <1>6, <1>7, <1>8, <1>9, FreeStep

(* The character of a statement, a Hollerith constant, or what is copied of   *)
(* a character constant: m is the position behind it.                       *)
LEMMA CharactersCopied ==
    ASSUME StreamInv, UNCHANGED <<source, col, data, comments, continuation>>,
           NEW m \in i..n, i <= n, newData' = newData \o Span(i, m), i' = m,
           pc' \in FreeCounter \cup {"done"},
           FreeShape(pc', continuation, m, held + (m - i), comments # <<>>)
    PROVE  StreamInv'
<1> DEFINE h == held + (m - i)
<1>1. /\ n \in Nat /\ i \in Nat /\ held \in Nat /\ held <= i /\ held <= n
      /\ newData \in Seq(Char) /\ comments \in Seq(Char) /\ continuation \in BOOLEAN
      /\ Len(newData) \in Nat /\ Len(comments) \in Nat
      /\ held = Len(newData) + Len(comments)
  BY Situation
<1>2. i \in 0..(n + 1) /\ m \in i..(n + 1)
  BY <1>1
<1>3. Span(i, m) \in Seq(Char) /\ Len(Span(i, m)) = m - i
  BY <1>2, SpanFacts DEF StreamInv
<1>4. newData' \in Seq(Char) /\ Len(newData') = Len(newData) + (m - i)
  <2> DEFINE s == Span(i, m)
  <2>1. newData \in Seq(Char) /\ s \in Seq(Char) /\ Len(s) = m - i /\ newData' = newData \o s
    BY <1>1, <1>3
  <2> HIDE DEF s
  <2>2. newData \o s \in Seq(Char) /\ Len(newData \o s) = Len(newData) + Len(s)
    BY <2>1, Appended
  <2> QED
    BY <2>1, <2>2
<1>5. h \in Nat /\ h <= i' /\ h <= n /\ i' \in 0..(n + 1) /\ h = Len(newData') + Len(comments')
  <2>1. m \in Nat /\ i' = m /\ m >= i /\ m <= n /\ comments' = comments
    BY <1>1
  <2>2. h \in Nat /\ h <= m /\ h <= n /\ m \in 0..(n + 1)
    BY <1>1, <2>1
  <2>3. h = Len(newData') + Len(comments)
    BY <1>1, <1>4, <2>1
  <2> QED
    BY <2>1, <2>2, <2>3
<1> HIDE DEF h
<1>6. FreeShape(pc', continuation', i', h, comments' # <<>>)
  BY DEF h
<1>7. UNCHANGED <<source, col, data>> /\ comments' \in Seq(Char) /\ continuation' \in BOOLEAN
  BY <1>1
<1> QED
  BY <1>4, <1>5, <1>6, <1>7, FreeStep

LEMMA OtherConsumed ==
    ASSUME StreamInv, OtherCharacter
    PROVE  StreamInv'
<1> DEFINE m == HollerithLast
<1>1. /\ pc = "inside" /\ newData' = newData \o Span(i, m) /\ i' = m /\ pc' = "copy"
      /\ UNCHANGED <<source, col, data, comments, continuation>>
  BY DEF OtherCharacter
<1>2. n \in Nat /\ i \in Nat /\ i < n
  BY <1>1, Situation DEF FreeShape
<1>3. m \in i..(n - 1)
  BY <1>2, HollerithFacts DEF StreamInv
<1> HIDE DEF m
<1>4. m \in i..n /\ m < n /\ i <= n
  BY <1>2, <1>3
<1>5. FreeShape(pc', continuation, m, held + (m - i), comments # <<>>)
  BY <1>1, <1>4 DEF FreeShape
<1>6. pc' \in FreeCounter \cup {"done"}
  BY <1>1 DEF FreeCounter
<1> QED
  BY <1>1, <1>4, <1>5, <1>6, CharactersCopied

(* Crashing keeps the invariant if the file is to blame.                    *)
LEMMA FreeCrash ==
    ASSUME StreamInv, pc' = "crash", ~Convertible,
           UNCHANGED <<source, col, data, i, newData, comments, continuation>>
    PROVE  StreamInv'
<1>1. /\ UNCHANGED <<source, data>> /\ i' = i /\ newData' = newData /\ comments' = comments
      /\ continuation' = continuation /\ col' = col
  OBVIOUS
<1>2. /\ n \in Nat /\ i \in Nat /\ i <= n + 1 /\ held <= i /\ held <= n
      /\ newData \in Seq(Char) /\ comments \in Seq(Char) /\ continuation \in BOOLEAN
      /\ held = Len(newData) + Len(comments)
  BY Situation
<1>3. i' \in 0..(n + 1) /\ Len(newData') + Len(comments') <= i' /\ Len(newData') + Len(comments') <= n
  BY <1>1, <1>2
<1>4. col' \in 1..7
  BY <1>1 DEF StreamInv, TypeOK
<1>5. /\ TypeOK' /\ DataInv' /\ NoCrash'
  BY <1>1, <1>2, <1>3, <1>4, SameBuffer
<1>6. FreeInv' /\ FixedInv'
  BY DEF FreeInv, FreeShape, FixedInv, FixedShape, FixedCounter
<1> QED
  BY <1>5, <1>6 DEF StreamInv

LEMMA LargeNumberCrashes ==
    ASSUME StreamInv, LargeNumber
    PROVE  StreamInv'
<1>1. /\ pc = "inside" /\ NumberTooLarge /\ pc' = "crash"
      /\ UNCHANGED <<source, col, data, i, newData, comments, continuation>>
  BY DEF LargeNumber
<1>2. n \in Nat /\ i \in Nat /\ i < n
  BY <1>1, Situation DEF FreeShape
<1>3. ~Convertible
  BY <1>1, <1>2, LargeNumberOfText DEF StreamInv
<1> QED
  BY <1>1, <1>3, FreeCrash

LEMMA StringCharacterCopied ==
    ASSUME StreamInv, CopyStringCharacter
    PROVE  StreamInv'
<1> DEFINE m == Ampersand
           h == held + (m - i)
<1>1. /\ pc = "string" /\ newData' = newData \o Span(i, m) /\ i' = m
      /\ pc' = IF m < n /\ data[m] \notin {"'", "&", "nl"} THEN "string" ELSE "stringEnd"
      /\ UNCHANGED <<source, col, data, comments, continuation>>
  <2>1. data' = data
    BY DEF CopyStringCharacter
  <2> QED
    BY <2>1 DEF CopyStringCharacter
<1>2. /\ n \in Nat /\ i \in Nat /\ i < n /\ ~continuation /\ held \in Nat /\ held <= i
      /\ TextEnd \in Nat /\ TextEnd <= n /\ data[TextEnd] = "nl" /\ (i >= TextEnd => held < i)
  BY <1>1, Situation DEF FreeShape
<1>3. m \in (i + 1)..n /\ (i < TextEnd => m <= TextEnd)
  BY <1>2, AmpersandFacts DEF StreamInv
<1> HIDE DEF m
<1>4. m \in i..n /\ i <= n /\ m <= n
  BY <1>2, <1>3
<1>5. m > TextEnd => h < m
  BY <1>2, <1>3
<1>6. pc' = "string" => m < n /\ m # TextEnd
  BY <1>1, <1>2
<1>7. pc' = "string" /\ m >= TextEnd => h < m
  BY <1>2, <1>3, <1>5, <1>6
<1>8. FreeShape(pc', continuation, m, held + (m - i), comments # <<>>)
  BY <1>1, <1>2, <1>4, <1>5, <1>6, <1>7 DEF FreeShape
<1>9. pc' \in FreeCounter \cup {"done"}
  BY <1>1 DEF FreeCounter
<1> QED
  BY <1>1, <1>4, <1>8, <1>9, CharactersCopied

LEMMA StringBegun ==
    ASSUME StreamInv, BeginString
    PROVE  StreamInv'
<1>1. /\ pc = "inside" /\ data[i] = "'" /\ pc' = "string" /\ i' = i
      /\ UNCHANGED <<source, col, data, newData, comments>> /\ continuation' = continuation
  BY DEF BeginString
<1>2. /\ n \in Nat /\ i \in Nat /\ i < n /\ ~continuation /\ continuation \in BOOLEAN
      /\ i <= n + 1 /\ i >= i /\ TextEnd \in Nat
  BY <1>1, Situation DEF FreeShape
<1>3. i < TextEnd
  BY <1>1, <1>2, InFront
<1>4. ~(i >= TextEnd)
  BY <1>2, <1>3
<1>5. FreeShape(pc', continuation', i', held, comments # <<>>)
  BY <1>1, <1>2, <1>4 DEF FreeShape
<1>6. pc' \in FreeCounter \cup {"done"}
  BY <1>1 DEF FreeCounter
<1> QED
  BY <1>1, <1>2, <1>5, <1>6, FreeMove

LEMMA StringEnded ==
    ASSUME StreamInv, EndString
    PROVE  StreamInv'
<1>1. /\ pc = "stringEnd" /\ pc' = "copy" /\ i' = i
      /\ UNCHANGED <<source, col, data, newData, comments>> /\ continuation' = continuation
  BY DEF EndString
<1>2. /\ n \in Nat /\ i \in Nat /\ i <= n /\ ~continuation /\ continuation \in BOOLEAN
      /\ i <= n + 1 /\ i >= i /\ TextEnd \in Nat /\ (i > TextEnd => held < i)
  BY <1>1, Situation DEF FreeShape
<1>3. (i < n \/ i = n) /\ (i <= TextEnd \/ i > TextEnd)
  BY <1>2
<1>4. FreeShape(pc', continuation', i', held, comments # <<>>)
  BY <1>1, <1>2, <1>3 DEF FreeShape
<1>5. pc' \in FreeCounter \cup {"done"}
  BY <1>1 DEF FreeCounter
<1> QED
  BY <1>1, <1>2, <1>4, <1>5, FreeMove

LEMMA StringContinued ==
    ASSUME StreamInv, ContinueString
    PROVE  StreamInv'
<1> DEFINE end == LineEnd(i)
           m == ResumeBehind
<1>1. /\ pc = "stringEnd" /\ data[i] = "&" /\ i + 1 < n
      /\ i' = (IF m >= n THEN m - 1 ELSE m) /\ pc' = (IF m >= n THEN pc ELSE "string")
      /\ UNCHANGED <<source, col, data, newData, comments>> /\ continuation' = continuation
  BY DEF ContinueString
<1>2. /\ n \in Nat /\ i \in Nat /\ ~continuation /\ continuation \in BOOLEAN
      /\ TextEnd \in Nat /\ TextEnd <= n /\ held \in Nat /\ held <= i
  BY <1>1, Situation DEF FreeShape
<1>3. i < n /\ i <= n + 1 /\ i \in 0..n
  BY <1>1, <1>2
<1>4. end \in (i + 1)..n
  <2>1. end \in i..n /\ (end = n \/ data[end] = "nl")
    BY <1>3, LineEndFacts DEF StreamInv
  <2>2. end # i
    BY <1>1, <1>3, <2>1
  <2> HIDE DEF end
  <2> QED
    BY <1>2, <2>1, <2>2
<1> HIDE DEF end
<1>5. Resume \in (end + 1)..(n + 1) /\ Resume \in Nat /\ Resume <= n + 1 /\ Resume > i + 1
  <2>1. end + 1 \in 0..(n + 1)
    BY <1>2, <1>4
  <2>2. Resume \in (end + 1)..(n + 1)
    BY <2>1, NonBlankFacts DEF Resume, end, StreamInv
  <2> QED
    BY <1>2, <1>4, <2>2
<1>6. m \in Nat /\ m > i + 1 /\ m <= n + 1
  <2>1. CASE data[Resume] = "&"
    <3>1. Resume < TextEnd
      BY <1>5, <2>1, InFront
    <3>2. m = Resume + 1
      BY <2>1 DEF ResumeBehind
    <3> QED
      BY <1>2, <1>5, <3>1, <3>2
  <2>2. CASE data[Resume] # "&"
    <3>1. m = Resume
      BY <2>2 DEF ResumeBehind
    <3> HIDE DEF m
    <3> QED
      BY <1>2, <1>5, <3>1
  <2> QED
    BY <2>1, <2>2
<1> HIDE DEF m
<1>7. i' \in Nat /\ i' > i /\ i' <= n /\ held < i' /\ i' >= i /\ i' <= n + 1
  BY <1>1, <1>2, <1>6
<1>8. pc' \in {"string", "stringEnd"} /\ (pc' = "string" => i' < n)
  BY <1>1, <1>2, <1>6
<1>9. FreeShape(pc', continuation', i', held, comments # <<>>)
  BY <1>1, <1>2, <1>7, <1>8 DEF FreeShape
<1>10. pc' \in FreeCounter \cup {"done"} /\ continuation' \in BOOLEAN
  BY <1>1, <1>2, <1>8 DEF FreeCounter
<1> QED
  BY <1>1, <1>7, <1>9, <1>10, FreeMove

LEMMA StringHung ==
    ASSUME StreamInv, StringHangs
    PROVE  StreamInv'
<1>1. /\ pc = "stringEnd" /\ pc' = pc /\ i' = i /\ continuation' = continuation
      /\ UNCHANGED <<source, col, data, newData, comments>>
  BY DEF StringHangs, vars, source
<1>2. /\ i \in Nat /\ i <= n + 1 /\ i >= i /\ continuation \in BOOLEAN
      /\ FreeShape(pc, continuation, i, held, comments # <<>>)
  BY Situation
<1>3. pc' \in FreeCounter \cup {"done"}
  BY <1>1 DEF FreeCounter
<1> QED
  BY <1>1, <1>2, <1>3, FreeMove

LEMMA LineContinued ==
    ASSUME StreamInv, ContinueLine
    PROVE  StreamInv'
<1>1. /\ pc = "copy" /\ continuation /\ i' = i + 1 /\ continuation' = continuation
      /\ pc' = (IF i + 1 >= n THEN "done" ELSE "preprocess")
      /\ UNCHANGED <<source, col, data, newData, comments>>
  BY DEF ContinueLine, NextRound
<1>2. n \in Nat /\ i \in Nat /\ i < n /\ held \in Nat /\ held <= i /\ continuation \in BOOLEAN
  BY <1>1, Situation DEF FreeShape
<1>3. /\ i' \in Nat /\ i' >= i /\ i' <= n + 1 /\ held < i' /\ i' <= n
      /\ (pc' = "preprocess" => i' # n)
  BY <1>1, <1>2
<1>4. FreeShape(pc', continuation', i', held, comments # <<>>)
  BY <1>1, <1>3 DEF FreeShape
<1>5. pc' \in FreeCounter \cup {"done"} /\ continuation' \in BOOLEAN
  BY <1>1, <1>2 DEF FreeCounter
<1> QED
  BY <1>1, <1>3, <1>4, <1>5, FreeMove

(* What is stored at the end of a round is at most one character more than   *)
(* was kept, and all of it if the character ends the line.                  *)
LEMMA CopiedFacts ==
    ASSUME StreamInv
    PROVE  /\ Copied \in Seq(Char) /\ Len(Copied) \in Nat
           /\ data[i] = "nl" => Len(Copied) = held + 1
           /\ data[i] # "nl" => Len(Copied) = Len(newData) + 1
<1>1. /\ newData \in Seq(Char) /\ comments \in Seq(Char) /\ held = Len(newData) + Len(comments)
      /\ Len(newData) \in Nat /\ Len(comments) \in Nat /\ held \in Nat
  BY Situation
<1>2. data[i] \in Char /\ "nl" \in Char
  BY BufferFacts DEF StreamInv, Char
<1>3. CASE data[i] = "nl"
  <2>1. <<"nl">> \in Seq(Char) /\ Len(<<"nl">>) = 1
    BY <1>2
  <2>2. newData \o comments \in Seq(Char) /\ Len(newData \o comments) = held
    BY <1>1, Appended
  <2>3. Copied = (newData \o comments) \o <<"nl">>
    BY <1>1, <1>3, <2>1, ConcatAssociative DEF Copied
  <2>4. Copied \in Seq(Char) /\ Len(Copied) = held + 1
    BY <2>1, <2>2, <2>3, Appended
  <2> QED
    BY <1>1, <1>3, <2>4
<1>4. CASE data[i] # "nl"
  <2>1. Copied = Append(newData, data[i])
    BY <1>4 DEF Copied
  <2>2. Copied \in Seq(Char) /\ Len(Copied) = Len(newData) + 1
    BY <1>1, <1>2, <2>1, AppendProperties
  <2> QED
    BY <1>1, <1>4, <2>2
<1> QED
  BY <1>3, <1>4

LEMMA CharacterCopied ==
    ASSUME StreamInv, CopyCharacter
    PROVE  StreamInv'
<1> DEFINE h == held + 1
<1>1. /\ pc = "copy" /\ ~continuation /\ continuation' = continuation /\ newData' = Copied
      /\ Len(Copied) <= n /\ i' = i + 1 /\ UNCHANGED <<source, col, data>>
      /\ comments' = (IF data[i] = "nl" THEN <<>> ELSE comments)
      /\ pc' = (IF i + 1 >= n THEN "done" ELSE IF data[i] = "nl" THEN "preprocess" ELSE "inside")
  BY DEF CopyCharacter, NextRound
<1>2. /\ n \in Nat /\ i \in Nat /\ held \in Nat /\ held <= i /\ held <= n /\ continuation \in BOOLEAN
      /\ comments \in Seq(Char) /\ Len(newData) \in Nat /\ Len(comments) \in Nat
      /\ held = Len(newData) + Len(comments) /\ TextEnd \in Nat /\ TextEnd <= n
      /\ data[TextEnd] = "nl" /\ (i < n \/ (i = n /\ (i <= TextEnd \/ held < i)))
  BY <1>1, Situation DEF FreeShape
<1>3. h = Len(newData') + Len(comments') /\ newData' \in Seq(Char) /\ comments' \in Seq(Char)
  <2>1. CASE data[i] = "nl"
    <3>1. comments' = <<>> /\ Len(newData') = held + 1 /\ newData' \in Seq(Char)
      BY <1>1, <2>1, CopiedFacts
    <3>2. comments' \in Seq(Char) /\ Len(comments') = 0
      BY <3>1
    <3> QED
      BY <1>2, <3>1, <3>2
  <2>2. CASE data[i] # "nl"
    <3>1. comments' = comments /\ Len(newData') = Len(newData) + 1 /\ newData' \in Seq(Char)
      BY <1>1, <2>2, CopiedFacts
    <3> QED
      BY <1>2, <3>1
  <2> QED
    BY <2>1, <2>2
<1>4. h <= n
  <2>1. CASE i < n \/ held < i
    BY <1>2, <2>1
  <2>2. CASE i = n /\ i <= TextEnd
    <3>1. i = TextEnd
      BY <1>2, <2>2
    <3>2. data[i] = "nl"
      BY <1>2, <3>1
    <3>3. Len(Copied) = held + 1
      BY <3>2, CopiedFacts
    <3> QED
      BY <1>1, <3>3
  <2> QED
    BY <1>2, <2>1, <2>2
<1>5. h \in Nat /\ h <= i' /\ i' \in 0..(n + 1)
  BY <1>1, <1>2
<1>6. pc' \in {"preprocess", "inside"} => i' < n /\ i' <= n /\ i' # n
  BY <1>1, <1>2
<1>7. pc' \in FreeCounter \cup {"done"} /\ pc' \in {"preprocess", "inside", "done"}
  BY <1>1 DEF FreeCounter
<1> HIDE DEF h
<1>8. FreeShape(pc', continuation', i', h, comments' # <<>>)
  BY <1>1, <1>6, <1>7 DEF FreeShape
<1>9. continuation' \in BOOLEAN /\ UNCHANGED <<source, col, data>>
  BY <1>1, <1>2
<1> QED
  BY <1>3, <1>4, <1>5, <1>7, <1>8, <1>9, FreeStep

LEMMA FullOnlyUnterminated ==
    ASSUME StreamInv, BufferFull
    PROVE  StreamInv'
<1>1. /\ pc = "copy" /\ ~continuation /\ Len(Copied) > n /\ pc' = "crash"
      /\ UNCHANGED <<source, col, data, i, newData, comments, continuation>>
  BY DEF BufferFull
<1>2. /\ n \in Nat /\ i \in Nat /\ held \in Nat /\ held <= i
      /\ Len(newData) \in Nat /\ Len(comments) \in Nat
      /\ held = Len(newData) + Len(comments) /\ TextEnd \in Nat /\ TextEnd <= n
      /\ (i < n \/ (i = n /\ (i <= TextEnd \/ held < i)))
  BY <1>1, Situation DEF FreeShape
<1>3. Len(Copied) \in Nat /\ Len(Copied) <= held + 1
  <2>1. Len(Copied) = held + 1 \/ Len(Copied) = Len(newData) + 1
    BY CopiedFacts
  <2> QED
    BY <1>2, <2>1
<1>4. i = n /\ n = TextEnd
  BY <1>1, <1>2, <1>3
<1>5. ~Convertible
  <2>1. Terminated => TextEnd < n
    BY DEF StreamInv, DataInv
  <2> QED
    BY <1>2, <1>4, <2>1 DEF Convertible
<1> QED
  BY <1>1, <1>5, FreeCrash

LEMMA FreeKeepsInv ==
    ASSUME StreamInv, FreeNext
    PROVE  StreamInv'
BY LineConsumed, NothingConsumed, ContinuedBegun, StatementBegun, CommentConsumed,
   ContinuationConsumed, StringBegun, OtherConsumed, StringCharacterCopied, StringEnded,
   StringContinued, StringHung, CharacterCopied, LargeNumberCrashes, FullOnlyUnterminated, LineContinued
   DEF FreeNext

-----------------------------------------------------------------------------
(* Fixed form.                                                              *)
LEMMA FixedSituation ==
    ASSUME StreamInv
    PROVE  /\ FixedShape(pc, i, held) /\ (pc \in FixedCounter => sourceForm = "fixed")
           /\ LinesLength \in Nat /\ LinesLength <= n /\ TextEnd <= LinesLength
           /\ LinesLength <= TextEnd + 1
           /\ Terminated => TextEnd < n /\ LinesLength = TextEnd + 1
           /\ data[TextEnd + 1] = "nl"
           /\ \A k \in 0..(n + 1) : k >= LinesLength + 2 => data[k] = " "
           /\ \A k \in 0..(n + 1) : k >= LinesLength /\ k < LinesLength + 2 => data[k] = "nl"
<1>1. n \in Nat
  BY Situation
<1>2. LinesLength \in Nat /\ LinesLength <= n
  <2>1. LinesLength \in 0..n
    BY DEF StreamInv, DataInv
  <2> QED
    BY <1>1, <2>1
<1>3. /\ TextEnd <= LinesLength /\ LinesLength <= TextEnd + 1
      /\ Terminated => LinesLength = TextEnd + 1
  BY <1>2 DEF TextEnd
<1>4. ASSUME NEW k \in 0..(n + 1), k >= LinesLength + 2 PROVE data[k] = " "
  <2>1. k >= LinesLength /\ ~(k < LinesLength + 2)
    BY <1>1, <1>2, <1>4
  <2> QED
    BY <2>1 DEF StreamInv, DataInv
<1>5. ASSUME NEW k \in 0..(n + 1), k >= LinesLength, k < LinesLength + 2 PROVE data[k] = "nl"
  BY <1>5 DEF StreamInv, DataInv
<1>6. (Terminated => TextEnd < n) /\ data[TextEnd + 1] = "nl"
  BY DEF StreamInv, DataInv
<1>7. FixedShape(pc, i, held) /\ (pc \in FixedCounter => sourceForm = "fixed")
  BY DEF StreamInv, FixedInv
<1> QED
  BY <1>2, <1>3, <1>4, <1>5, <1>6, <1>7

LEMMA FixedStep ==
    ASSUME StreamInv, pc \in FixedCounter, UNCHANGED <<fixedUnchanged, data>>,
           i' \in 0..(n + 1), newData' \in Seq(Char), comments' \in Seq(Char),
           NEW h \in Nat, h = Len(newData') + Len(comments'), h <= i', h <= n,
           col' \in 1..7, pc' \in FixedCounter \cup {"done"}, FixedShape(pc', i', h)
    PROVE  StreamInv'
<1>1. UNCHANGED <<source, data>> /\ continuation' = continuation
  BY DEF fixedUnchanged
<1>2. /\ TypeOK' /\ DataInv' /\ NoCrash' /\ n' = n /\ TextEnd' = TextEnd /\ held' = h
      /\ sourceForm' = sourceForm /\ data' = data
  <2>1. continuation' \in BOOLEAN
    BY <1>1, Situation
  <2>2. /\ pc' \in {"preprocess", "comment", "begin", "inside", "string", "stringEnd", "copy",
                    "column1", "commentLine", "column", "quoted", "lineEnd", "done", "crash"}
        /\ pc' # "crash"
    BY DEF FixedCounter
  <2> QED
    BY <1>1, <2>1, <2>2, SameBuffer
<1>3. FixedInv'
  BY <1>2, FixedSituation DEF FixedInv, FixedShape
<1>4. FreeInv'
  BY DEF FreeInv, FreeShape, FixedCounter
<1> QED
  BY <1>2, <1>3, <1>4 DEF StreamInv

LEMMA FixedMove ==
    ASSUME StreamInv, pc \in FixedCounter, UNCHANGED <<fixedUnchanged, data, newData, comments>>,
           i' = i, col' \in 1..7, pc' \in FixedCounter \cup {"done"}, FixedShape(pc', i, held)
    PROVE  StreamInv'
<1>1. /\ n \in Nat /\ i \in Nat /\ i <= n + 1 /\ held \in Nat /\ held <= i /\ held <= n
      /\ newData \in Seq(Char) /\ comments \in Seq(Char)
      /\ held = Len(newData) + Len(comments)
  BY Situation
<1>2. i' \in 0..(n + 1)
  BY <1>1, InRange
<1> QED
  BY <1>1, <1>2, FixedStep

LEMMA FixedNothingConsumed ==
    ASSUME StreamInv,
           NoFixedPreprocessLine \/ NoFixedLine \/ BeginFixedLine \/ LabelCharacter
               \/ BeginFixedString
    PROVE  StreamInv'
<1>1. /\ UNCHANGED <<fixedUnchanged, data, newData, comments>> /\ i' = i
      /\ pc \in {"column1", "commentLine", "column"}
  BY DEF NoFixedPreprocessLine, NoFixedLine, BeginFixedLine, LabelCharacter, BeginFixedString
<1>2. col' \in 1..7
  <2>1. col \in 1..7
    BY DEF StreamInv, TypeOK
  <2>2. col' = col \/ col' = 5 \/ col' = 1
    BY DEF NoFixedPreprocessLine, NoFixedLine, BeginFixedLine, LabelCharacter, BeginFixedString
  <2> QED
    BY <2>1, <2>2
<1>3. n \in Nat /\ i \in Nat /\ i <= n + 1 /\ FixedShape(pc, i, held)
  BY Situation, FixedSituation
<1>4. pc \in FixedCounter
  BY <1>1 DEF FixedCounter
<1>5. pc' \in FixedCounter \cup {"done"} /\ FixedShape(pc', i, held)
  <2>1. CASE NoFixedPreprocessLine \/ NoFixedLine
    BY <1>3, <2>1 DEF NoFixedPreprocessLine, NoFixedLine, FixedShape, FixedCounter
  <2>2. CASE BeginFixedLine \/ LabelCharacter
    <3>1. i < n /\ pc' = "lineEnd"
      BY <1>3, <2>2 DEF BeginFixedLine, LabelCharacter, FixedShape
    <3> QED
      BY <3>1 DEF FixedShape, FixedCounter
  <2>3. CASE BeginFixedString
    <3>1. pc' = "quoted" /\ i < TextEnd
      BY <1>3, <2>3, InFront DEF BeginFixedString
    <3> QED
      BY <3>1 DEF FixedShape, FixedCounter
  <2> QED
    BY <2>1, <2>2, <2>3
<1> QED
  BY <1>1, <1>2, <1>4, <1>5, FixedMove

LEMMA FreeCommentFacts ==
    ASSUME StreamInv, NEW k \in Nat, k <= n
    PROVE  /\ FreeComment(k) \in Seq(Char)
           /\ Len(FreeComment(k)) = NextLine(k) - k
<1> DEFINE next == NextLine(k)
           line == Span(k, next)
<1>1. n \in Nat /\ k <= n + 1 /\ TextEnd \in Nat /\ TextEnd <= n
  BY Situation
<1>2. next \in k..n /\ (k < n => next > k)
  <2>1. k \in 0..n
    BY <1>1
  <2> QED
    BY <2>1, LineEndFacts DEF StreamInv
<1>3. line \in Seq(Char) /\ Len(line) = next - k
  <2>1. k \in 0..(n + 1) /\ next \in k..(n + 1)
    <3> HIDE DEF next
    <3> QED
      BY <1>1, <1>2
  <2> QED
    BY <2>1, SpanFacts DEF StreamInv
<1>4. FreeComment(k) = IF data[k] = "c" THEN [line EXCEPT ![1] = "!"] ELSE line
  BY DEF FreeComment
<1> HIDE DEF line, next
<1>5. CASE data[k] = "c"
  <2>1. k < TextEnd
    BY <1>1, <1>5, InFront
  <2>2. "!" \in Char
    BY DEF Char
  <2>4. next - k \in Nat /\ next - k > 0
    BY <1>1, <1>2, <2>1
  <2>5. 1 \in 1..Len(line)
    BY <1>3, <2>4
  <2>3. [line EXCEPT ![1] = "!"] \in Seq(Char) /\ Len([line EXCEPT ![1] = "!"]) = Len(line)
    BY <1>3, <2>2, <2>5, ExceptSeq
  <2> QED
    BY <1>3, <1>4, <1>5, <2>3 DEF next
<1>6. CASE data[k] # "c"
  BY <1>3, <1>4, <1>6 DEF next
<1> QED
  BY <1>5, <1>6

LEMMA FixedLineTaken ==
    ASSUME StreamInv, FixedPreprocessLine \/ FixedCommentLine
    PROVE  StreamInv'
<1> DEFINE next == NextLine(i)
           h == held + next - i
<1>1. PICK line : /\ line \in {Span(i, NextLine(i)), FreeComment(i)}
                  /\ TakeLine(line) /\ i < n /\ pc \in {"column1", "commentLine"}
  BY DEF FixedPreprocessLine, FixedCommentLine
<1>2. /\ newData' = newData \o comments \o line /\ comments' = <<>> /\ i' = next
      /\ UNCHANGED <<fixedUnchanged, data>> /\ col' = col /\ pc' = pc
  BY <1>1 DEF TakeLine
<1>3. /\ n \in Nat /\ i \in Nat /\ held \in Nat /\ held <= i
      /\ newData \in Seq(Char) /\ comments \in Seq(Char)
      /\ Len(newData) \in Nat /\ Len(comments) \in Nat
      /\ held = Len(newData) + Len(comments)
  BY Situation
<1>4. next \in i..n
  <2>1. i \in 0..n
    BY <1>1, <1>3
  <2> QED
    BY <2>1, LineEndFacts DEF StreamInv
<1>5. line \in Seq(Char) /\ Len(line) = next - i
  <2>1. i \in 0..(n + 1) /\ next \in i..(n + 1) /\ i <= n
    <3> HIDE DEF next
    <3> QED
      BY <1>1, <1>3, <1>4
  <2>2. Span(i, next) \in Seq(Char) /\ Len(Span(i, next)) = next - i
    BY <2>1, SpanFacts DEF StreamInv
  <2>3. FreeComment(i) \in Seq(Char) /\ Len(FreeComment(i)) = next - i
    BY <1>3, <2>1, FreeCommentFacts
  <2> QED
    BY <1>1, <2>2, <2>3
<1> HIDE DEF next
<1>6. newData' \in Seq(Char) /\ Len(newData') = h
  <2>1. newData \o comments \in Seq(Char) /\ Len(newData \o comments) = held
    BY <1>3, Appended
  <2>2. newData' = (newData \o comments) \o line
    BY <1>2, <1>3, <1>5, ConcatAssociative
  <2>3. newData' \in Seq(Char) /\ Len(newData') = held + Len(line)
    BY <1>5, <2>1, <2>2, Appended
  <2> QED
    BY <1>3, <1>4, <1>5, <2>3
<1>7. h \in Nat /\ h <= i' /\ h <= n /\ i' \in 0..(n + 1) /\ i' <= n
  BY <1>2, <1>3, <1>4
<1>8. comments' \in Seq(Char) /\ Len(comments') = 0
  BY <1>2
<1>9. h = Len(newData') + Len(comments')
  BY <1>6, <1>7, <1>8
<1> HIDE DEF h
<1>10. /\ pc \in FixedCounter /\ pc' \in FixedCounter \cup {"done"} /\ FixedShape(pc', i', h)
       /\ col' \in 1..7
  <2>1. col \in 1..7
    BY DEF StreamInv, TypeOK
  <2> QED
    BY <1>1, <1>2, <1>7, <2>1 DEF FixedShape, FixedCounter
<1> QED
  BY <1>2, <1>6, <1>7, <1>8, <1>9, <1>10, FixedStep

LEMMA FixedCommentConsumed ==
    ASSUME StreamInv, FixedComment
    PROVE  StreamInv'
<1> DEFINE end == LineEnd(i)
           comment == Span(i, end)
           all == comments \o comment
           h == held + end - i
<1>1. /\ pc = "column" /\ data[i] = "!" /\ i' = end /\ pc' = "lineEnd"
      /\ UNCHANGED <<fixedUnchanged, data>> /\ col' = col
      /\ \/ comments' = all /\ newData' = newData
         \/ newData' = newData \o all /\ comments' = <<>>
  BY DEF FixedComment
<1>2. /\ n \in Nat /\ i \in Nat /\ held \in Nat /\ held <= i
      /\ newData \in Seq(Char) /\ comments \in Seq(Char) /\ i <= n + 1
      /\ Len(newData) \in Nat /\ Len(comments) \in Nat
      /\ held = Len(newData) + Len(comments) /\ TextEnd \in Nat /\ TextEnd <= n
      /\ data[TextEnd] = "nl"
  BY Situation
<1>3. i < TextEnd
  BY <1>1, <1>2, InFront
<1>4. end \in i..n /\ end <= TextEnd /\ (end = n \/ data[end] = "nl")
  <2>1. i \in 0..n /\ i <= TextEnd
    BY <1>2, <1>3
  <2> QED
    BY <2>1, LineEndFacts DEF StreamInv
<1>5. comment \in Seq(Char) /\ Len(comment) = end - i
  <2>1. i \in 0..(n + 1) /\ end \in i..(n + 1)
    <3> HIDE DEF end
    <3> QED
      BY <1>2, <1>4
  <2> QED
    BY <2>1, SpanFacts DEF StreamInv
<1> HIDE DEF end, comment
<1>6. all \in Seq(Char) /\ Len(all) = Len(comments) + (end - i)
  BY <1>2, <1>5, Appended
<1> HIDE DEF all
<1>7. newData' \in Seq(Char) /\ comments' \in Seq(Char) /\ h = Len(newData') + Len(comments')
  <2>1. CASE comments' = all /\ newData' = newData
    <3>1. Len(newData') + Len(comments') = Len(newData) + Len(comments) + (end - i)
      BY <1>2, <1>4, <1>6, <2>1
    <3>2. h = held + (end - i)
      BY <1>2, <1>4
    <3> QED
      BY <1>2, <1>6, <2>1, <3>1, <3>2
  <2>2. CASE newData' = newData \o all /\ comments' = <<>>
    <3>1. newData' \in Seq(Char) /\ Len(newData') = Len(newData) + Len(all)
      BY <1>2, <1>6, <2>2, Appended
    <3>2. comments' \in Seq(Char) /\ Len(comments') = 0
      BY <2>2
    <3> QED
      BY <1>2, <1>4, <1>6, <3>1, <3>2
  <2> QED
    BY <1>1, <2>1, <2>2
<1>8. h \in Nat /\ h <= i' /\ h <= n /\ i' \in 0..(n + 1)
  BY <1>1, <1>2, <1>4
<1>9. i' < n \/ (i' <= TextEnd + 1 /\ data[i'] = "nl" /\ ~(i' > TextEnd))
  <2>1. end = n => TextEnd = n
    BY <1>2, <1>4
  <2>2. end < n \/ (end <= TextEnd + 1 /\ ~(end > TextEnd))
    BY <1>2, <1>4
  <2>3. data[end] = "nl"
    BY <1>2, <1>4, <2>1
  <2> QED
    BY <1>1, <2>2, <2>3
<1> HIDE DEF h
<1>10. /\ pc \in FixedCounter /\ pc' \in FixedCounter \cup {"done"} /\ FixedShape(pc', i', h)
       /\ col' \in 1..7
  <2>1. col \in 1..7
    BY DEF StreamInv, TypeOK
  <2> QED
    BY <1>1, <1>9, <2>1 DEF FixedShape, FixedCounter
<1> QED
  BY <1>1, <1>7, <1>8, <1>10, FixedStep

LEMMA FixedCharactersCopied ==
    ASSUME StreamInv, UNCHANGED <<fixedUnchanged, data, comments, col>>,
           NEW m \in i..n, newData' = newData \o Span(i, m), i' = m,
           pc \in FixedCounter, pc' \in FixedCounter \cup {"done"},
           FixedShape(pc', m, held + (m - i))
    PROVE  StreamInv'
<1> DEFINE h == held + (m - i)
<1>1. /\ n \in Nat /\ i \in Nat /\ held \in Nat /\ held <= i
      /\ newData \in Seq(Char) /\ comments \in Seq(Char)
      /\ Len(newData) \in Nat /\ Len(comments) \in Nat
      /\ held = Len(newData) + Len(comments)
  BY Situation
<1>2. i \in 0..(n + 1) /\ m \in i..(n + 1)
  BY <1>1
<1>3. Span(i, m) \in Seq(Char) /\ Len(Span(i, m)) = m - i
  BY <1>2, SpanFacts DEF StreamInv
<1>4. newData' \in Seq(Char) /\ Len(newData') = Len(newData) + (m - i)
  <2> DEFINE s == Span(i, m)
  <2>1. newData \in Seq(Char) /\ s \in Seq(Char) /\ Len(s) = m - i /\ newData' = newData \o s
    BY <1>1, <1>3
  <2> HIDE DEF s
  <2>2. newData \o s \in Seq(Char) /\ Len(newData \o s) = Len(newData) + Len(s)
    BY <2>1, Appended
  <2> QED
    BY <2>1, <2>2
<1>5. h \in Nat /\ h <= i' /\ h <= n /\ i' \in 0..(n + 1) /\ h = Len(newData') + Len(comments')
  BY <1>1, <1>4
<1> HIDE DEF h
<1>6. FixedShape(pc', i', h)
  BY DEF h
<1>7. UNCHANGED <<fixedUnchanged, data>> /\ comments' \in Seq(Char) /\ col' \in 1..7
  BY <1>1 DEF StreamInv, TypeOK
<1> QED
  BY <1>4, <1>5, <1>6, <1>7, FixedStep

LEMMA FixedStringCopied ==
    ASSUME StreamInv, CopyFixedString
    PROVE  StreamInv'
<1> DEFINE m == TwoQuotes
<1>1. /\ pc = "quoted" /\ newData' = newData \o Span(i, m) /\ i' = m
      /\ pc' = IF m < n /\ data[m] \notin {"'", "nl"} THEN "quoted" ELSE "lineEnd"
      /\ UNCHANGED <<fixedUnchanged, data, comments, col>>
  <2>1. data' = data
    BY DEF CopyFixedString
  <2> QED
    BY <2>1 DEF CopyFixedString
<1>2. /\ n \in Nat /\ i \in Nat /\ i < TextEnd
      /\ TextEnd \in Nat /\ TextEnd <= n /\ data[TextEnd] = "nl"
  BY <1>1, Situation, FixedSituation DEF FixedShape
<1>3. m \in (i + 1)..n /\ m <= TextEnd
  <2>1. i < n
    BY <1>2
  <2> QED
    BY <1>2, <2>1, TwoQuotesFacts DEF StreamInv
<1> HIDE DEF m
<1>4. m \in i..n /\ m \in Nat
  BY <1>2, <1>3
<1>5. pc' = "quoted" => m < TextEnd
  <2>1. pc' = "quoted" => m # TextEnd
    BY <1>1, <1>2
  <2> QED
    BY <1>2, <1>3, <1>4, <2>1
<1>6. m < n \/ (m <= TextEnd + 1 /\ data[m] = "nl" /\ ~(m > TextEnd))
  <2>1. m < n \/ m = TextEnd
    BY <1>2, <1>3, <1>4
  <2>2. m <= TextEnd + 1 /\ ~(m > TextEnd)
    BY <1>2, <1>3, <1>4
  <2> QED
    BY <1>2, <2>1, <2>2
<1>7. FixedShape(pc', m, held + (m - i))
  BY <1>1, <1>5, <1>6 DEF FixedShape
<1>8. pc \in FixedCounter /\ pc' \in FixedCounter \cup {"done"}
  BY <1>1 DEF FixedCounter
<1> QED
  BY <1>1, <1>4, <1>7, <1>8, FixedCharactersCopied

LEMMA FixedOtherConsumed ==
    ASSUME StreamInv, FixedCharacter
    PROVE  StreamInv'
<1> DEFINE m == HollerithLast
<1>1. /\ pc = "column" /\ newData' = newData \o Span(i, m) /\ i' = m /\ pc' = "lineEnd"
      /\ UNCHANGED <<fixedUnchanged, data, comments, col>>
  BY DEF FixedCharacter
<1>2. n \in Nat /\ i \in Nat /\ i < n
  BY <1>1, Situation, FixedSituation DEF FixedShape
<1>3. m \in i..(n - 1)
  BY <1>2, HollerithFacts DEF StreamInv
<1> HIDE DEF m
<1>4. m \in i..n /\ m < n
  BY <1>2, <1>3
<1>5. FixedShape(pc', m, held + (m - i))
  BY <1>1, <1>4 DEF FixedShape
<1>6. pc \in FixedCounter /\ pc' \in FixedCounter \cup {"done"}
  BY <1>1 DEF FixedCounter
<1> QED
  BY <1>1, <1>4, <1>5, <1>6, FixedCharactersCopied

(* The only step that changes the buffer: a 0 is not one of the characters   *)
(* the invariant looks for.                                                 *)
LEMMA ZeroBlanked ==
    ASSUME StreamInv, Column6
    PROVE  StreamInv'
<1>1. /\ pc = "column" /\ pc' = "lineEnd" /\ i' = i /\ newData' = newData
      /\ comments' = comments /\ col' = col /\ continuation' = continuation
      /\ text' = text /\ sourceForm' = sourceForm
      /\ data' = IF data[i] = "0" THEN [data EXCEPT ![i] = " "] ELSE data
  BY DEF Column6, fixedUnchanged, source
<1>2. n' = n /\ LinesLength' = LinesLength /\ Terminated' = Terminated
  <2>1. n' = n /\ LinesLength' = LinesLength
    BY <1>1 DEF n, LinesLength
  <2> QED
    BY <1>1, <2>1 DEF Terminated
<1>3. TextEnd' = TextEnd
  BY <1>2 DEF TextEnd
<1>4. /\ n \in Nat /\ i \in Nat /\ i < n /\ i <= n + 1 /\ TextEnd \in Nat /\ TextEnd <= n
      /\ pc \in FixedCounter /\ sourceForm = "fixed"
  BY <1>1, Situation, FixedSituation DEF FixedShape, FixedCounter
<1>5. data \in [0..(n + 1) -> Char \ {"cr"}]
  BY DEF StreamInv, DataInv
<1>6. \A k \in 0..(n + 1) : data'[k] = data[k] \/ (data[k] = "0" /\ data'[k] = " ")
  BY <1>1, <1>5
<1>7. data' \in [0..(n + 1) -> Char \ {"cr"}]
  BY <1>1, <1>5 DEF Char
<1>8. data'[TextEnd] = "nl" /\ data'[TextEnd + 1] = "nl"
  <2>1. TextEnd \in 0..(n + 1) /\ TextEnd + 1 \in 0..(n + 1)
    BY <1>4
  <2>2. data[TextEnd] = "nl" /\ data[TextEnd + 1] = "nl"
    BY DEF StreamInv, DataInv
  <2> QED
    BY <1>6, <2>1, <2>2
<1>9. ASSUME NEW k \in 0..(n + 1)
      PROVE  /\ k >= LinesLength => data'[k] = IF k < LinesLength + 2 THEN "nl" ELSE " "
             /\ k >= TextEnd => data'[k] \in {"nl", " "}
  <2>1. /\ k >= LinesLength => data[k] = IF k < LinesLength + 2 THEN "nl" ELSE " "
        /\ k >= TextEnd => data[k] \in {"nl", " "}
    BY DEF StreamInv, DataInv
  <2>2. data[k] = "0" => ~(k >= LinesLength) /\ ~(k >= TextEnd)
    BY <2>1
  <2> QED
    BY <1>6, <2>1, <2>2
<1>a. DataFromText'
  BY <1>1, <1>2, <1>6 DEF DataFromText, DataInv, StreamInv
<1>10. DataInv'
  BY <1>2, <1>3, <1>7, <1>8, <1>9, <1>a DEF DataInv, StreamInv
<1>11. TypeOK'
  BY <1>1, <1>2, <1>7 DEF TypeOK, StreamInv
<1>12. FreeInv' /\ FixedInv' /\ NoCrash'
  <2>1. FreeInv' /\ NoCrash'
    BY <1>1 DEF FreeInv, FreeShape, NoCrash
  <2>2. FixedInv'
    BY <1>1, <1>2, <1>4 DEF FixedInv, FixedShape
  <2> QED
    BY <2>1, <2>2
<1> QED
  BY <1>10, <1>11, <1>12 DEF StreamInv

-----------------------------------------------------------------------------
(* The look-ahead of the fixed form.  It passes over no line that begins     *)
(* behind the added line ends, so that it stops behind them at last.        *)
LEMMA NoLineBehind ==
    ASSUME StreamInv, NEW m \in Nat, m >= LinesLength + 2
    PROVE  ~PassedOver(m)
<1> SUFFICES ASSUME PassedOver(m) PROVE FALSE
  OBVIOUS
<1>1. n \in Nat /\ LinesLength \in Nat
  BY Situation, FixedSituation
<1>2. m <= n + 1
  BY DEF PassedOver
<1>3. m \in 0..(n + 1)
  BY <1>1, <1>2, InRange
<1>4. data[m] = " "
  BY <1>3, FixedSituation
<1>5. m < n /\ data[NonBlank(m)] \in {"!", "nl"}
  BY <1>4 DEF PassedOver, CommentLineAt
<1>6. NonBlank(m) \in m..(n + 1)
  BY <1>3, NonBlankFacts DEF StreamInv
<1>7. NonBlank(m) \in 0..(n + 1) /\ NonBlank(m) >= LinesLength + 2
  BY <1>1, <1>3, <1>6
<1>8. data[NonBlank(m)] = " "
  BY <1>7, FixedSituation
<1> QED
  BY <1>5, <1>8

LEMMA PassedOverIsInFile ==
    ASSUME StreamInv, NEW m \in Nat, PassedOver(m)
    PROVE  m < n
<1>1. n \in Nat /\ TextEnd \in Nat /\ TextEnd <= n /\ m <= n + 1
  BY Situation DEF PassedOver
<1>2. CASE data[m] = "#"
  <2>1. m < TextEnd
    BY <1>1, <1>2, InFront
  <2> QED
    BY <1>1, <2>1
<1>3. CASE CommentLineAt(m)
  BY <1>3 DEF CommentLineAt
<1> QED
  BY <1>2, <1>3 DEF PassedOver

LEMMA FollowerFacts ==
    ASSUME StreamInv, NEW k \in Nat, k <= n + 1
    PROVE  /\ Follower(k) \in Nat /\ k + 1 <= Follower(k) /\ Follower(k) <= n + 2
           /\ Follower(k) <= LinesLength + 2 \/ Follower(k) = k + 1
           /\ ~PassedOver(k + 1) => Follower(k) = k + 1
           /\ \A m \in (k + 1)..(n + 2) : data[m - 1] = "nl" /\ ~PassedOver(m) => Follower(k) <= m
<1> DEFINE S == {m \in (k + 1)..(n + 2) : (m = k + 1 \/ data[m - 1] = "nl") /\ ~PassedOver(m)}
           last == LinesLength + 2
<1>1. n \in Nat /\ LinesLength \in Nat /\ LinesLength <= n
  BY Situation, FixedSituation
<1>2. data[last - 1] = "nl" /\ last \in Nat /\ last <= n + 2
  <2>1. LinesLength + 1 \in 0..(n + 1) /\ last - 1 = LinesLength + 1
        /\ LinesLength + 1 >= LinesLength /\ LinesLength + 1 < LinesLength + 2
    BY <1>1
  <2>2. data[LinesLength + 1] = "nl"
    BY <2>1, FixedSituation
  <2> QED
    BY <1>1, <2>1, <2>2
<1>3. ~PassedOver(last)
  BY <1>1, <1>2, NoLineBehind
<1>4. k + 1 <= last => last \in S
  <2> SUFFICES ASSUME k + 1 <= last PROVE last \in S
    OBVIOUS
  <2>1. last \in (k + 1)..(n + 2)
    BY <1>1, <1>2
  <2> HIDE DEF last
  <2> QED
    BY <1>2, <1>3, <2>1
<1>5. k + 1 \in (k + 1)..(n + 2)
  BY <1>1
<1>6. ~PassedOver(k + 1) => k + 1 \in S
  BY <1>5
<1>7. ~(k + 1 <= last) => ~PassedOver(k + 1)
  <2> SUFFICES ASSUME ~(k + 1 <= last) PROVE ~PassedOver(k + 1)
    OBVIOUS
  <2>1. k + 1 \in Nat /\ k + 1 >= LinesLength + 2
    BY <1>1
  <2> QED
    BY <2>1, NoLineBehind
<1>8. S \in SUBSET Nat /\ S \subseteq (k + 1)..(n + 2)
  <2>1. (k + 1)..(n + 2) \subseteq Nat
    BY <1>1
  <2> QED
    BY <2>1
<1>9. Follower(k) = Min(S)
  BY DEF Follower
<1>10. \A m \in (k + 1)..(n + 2) : data[m - 1] = "nl" /\ ~PassedOver(m) => m \in S
  OBVIOUS
<1> HIDE DEF S
<1>11. S # {}
  BY <1>4, <1>6, <1>7
<1>12. Follower(k) \in S /\ \A m \in S : Follower(k) <= m
  BY <1>8, <1>9, <1>11, MinFacts
<1>13. Follower(k) \in Nat /\ k + 1 <= Follower(k) /\ Follower(k) <= n + 2
  <2>1. Follower(k) \in (k + 1)..(n + 2)
    BY <1>8, <1>12
  <2> QED
    BY <1>1, <2>1
<1>14. ~PassedOver(k + 1) => Follower(k) = k + 1
  <2> SUFFICES ASSUME ~PassedOver(k + 1) PROVE Follower(k) = k + 1
    OBVIOUS
  <2>1. Follower(k) <= k + 1
    BY <1>6, <1>12
  <2> QED
    BY <1>13, <2>1
<1>15. Follower(k) <= last \/ Follower(k) = k + 1
  BY <1>4, <1>7, <1>12, <1>14
<1> QED
  BY <1>10, <1>12, <1>13, <1>14, <1>15

LEMMA TabInFacts ==
    ASSUME StreamInv, NEW m \in Nat, TabIn(m) # {}
    PROVE  /\ Min(TabIn(m)) \in Nat /\ m <= Min(TabIn(m)) /\ Min(TabIn(m)) <= n + 1
           /\ data[Min(TabIn(m))] \in {"tab", "nl"}
<1>1. TabIn(m) \in SUBSET Nat
  <2>1. m..(m + 4) \subseteq Nat
    OBVIOUS
  <2> QED
    BY <2>1 DEF TabIn
<1>2. Min(TabIn(m)) \in TabIn(m)
  BY <1>1, MinFacts
<1>3. Min(TabIn(m)) \in Nat
  BY <1>1, <1>2
<1>4. /\ Min(TabIn(m)) \in m..(m + 4) /\ Min(TabIn(m)) <= n + 1
      /\ data[Min(TabIn(m))] \in {"tab", "nl"}
  BY <1>2 DEF TabIn
<1> QED
  BY <1>3, <1>4

(* With enough padding the look-ahead from a line end of a terminated file   *)
(* stays in the buffer: it meets one of the last line ends, or six blanks.  *)
LEMMA MarkerIsThere ==
    ASSUME StreamInv, Terminated, n - LinesLength \notin 2..5,
           NEW k \in Nat, k <= n, data[k] = "nl", k < n \/ LinesLength = n
    PROVE  MarkerRead(k)
<1> DEFINE m == Follower(k)
<1>1. n \in Nat /\ LinesLength \in Nat /\ LinesLength <= n
  BY Situation, FixedSituation
<1>2. k < LinesLength + 2
  <2>1. k \in 0..(n + 1)
    BY <1>1
  <2>2. ~(k >= LinesLength + 2)
    BY <2>1, FixedSituation
  <2> QED
    BY <1>1, <2>2
<1>3. m \in Nat /\ k + 1 <= m /\ m <= n + 2 /\ m <= LinesLength + 2
  <2>1. k <= n + 1
    BY <1>1
  <2>2. m \in Nat /\ k + 1 <= m /\ m <= n + 2 /\ (m <= LinesLength + 2 \/ m = k + 1)
    BY <2>1, FollowerFacts
  <2> HIDE DEF m
  <2> QED
    BY <1>1, <1>2, <2>2
<1>4. MarkerRead(k) <=> (TabIn(m) = {} => m + 5 <= n + 1)
  BY DEF MarkerRead, Marker
<1> SUFFICES ASSUME TabIn(m) = {} PROVE m + 5 <= n + 1
  BY <1>4
<1>5. ASSUME NEW e \in Nat, e <= n + 1, m <= e, data[e] = "nl" PROVE m + 5 <= e
  <2>1. e \notin m..(m + 4)
    BY <1>5 DEF TabIn
  <2> HIDE DEF m
  <2> QED
    BY <1>3, <1>5, <2>1
<1>6. ASSUME NEW e \in Nat, e >= k, e <= n, data[e] = "nl", e + 1 >= n
      PROVE  m <= e + 1
  <2>1. e + 1 \in (k + 1)..(n + 2) /\ e + 1 - 1 = e /\ e + 1 \in Nat
    BY <1>1, <1>6
  <2>2. ~PassedOver(e + 1)
    <3>1. ~(e + 1 < n)
      BY <1>1, <1>6
    <3> QED
      BY <2>1, <3>1, PassedOverIsInFile
  <2>3. k <= n + 1
    BY <1>1
  <2> QED
    BY <1>6, <2>1, <2>2, <2>3, FollowerFacts
<1>7. CASE LinesLength = n
  <2>1. data[n] = "nl" /\ data[n + 1] = "nl"
    <3>1. n \in 0..(n + 1) /\ n + 1 \in 0..(n + 1) /\ n >= LinesLength /\ n < LinesLength + 2
          /\ n + 1 >= LinesLength /\ n + 1 < LinesLength + 2
      BY <1>1, <1>7
    <3> QED
      BY <3>1, FixedSituation
  <2>2. n >= k /\ n <= n /\ n + 1 >= n /\ n + 1 \in Nat /\ n + 1 <= n + 1
    BY <1>1
  <2>3. m <= n + 1
    BY <1>1, <1>6, <2>1, <2>2
  <2> QED
    BY <1>5, <2>1, <2>2, <2>3
<1>8. CASE LinesLength = n - 1
  <2>1. data[n - 1] = "nl" /\ data[n] = "nl"
    <3>1. n \in 0..(n + 1) /\ n - 1 \in 0..(n + 1) /\ n >= LinesLength /\ n < LinesLength + 2
          /\ n - 1 >= LinesLength /\ n - 1 < LinesLength + 2
      BY <1>1, <1>8
    <3> QED
      BY <3>1, FixedSituation
  <2>2. n - 1 \in Nat /\ n - 1 >= k /\ n - 1 <= n /\ n - 1 + 1 >= n /\ n - 1 + 1 = n /\ n <= n + 1
    BY <1>1, <1>8
  <2>3. m <= n
    BY <1>6, <2>1, <2>2
  <2>4. m + 5 <= n
    BY <1>1, <1>5, <2>1, <2>2, <2>3
  <2> HIDE DEF m
  <2> QED
    BY <1>1, <1>3, <2>4
<1>9. CASE LinesLength # n /\ LinesLength # n - 1
  <2>1. LinesLength + 6 <= n
    BY <1>1, <1>9
  <2> HIDE DEF m
  <2> QED
    BY <1>1, <1>3, <2>1
<1> QED
  BY <1>7, <1>8, <1>9

(* Only a line in front of the last line end is continued by the next, whose *)
(* marker is in front of it too or is it.                                   *)
LEMMA JoinedInText ==
    ASSUME StreamInv, NEW k \in Nat, k <= n + 1,
           MarkerRead(k), Continues(k), Follower(k) = k + 1
    PROVE  /\ Marker(k + 1) \in Nat /\ Marker(k + 1) > k + 1
           /\ Marker(k + 1) <= TextEnd
<1> DEFINE m == k + 1
           t == Min(TabIn(m))
<1>1. n \in Nat /\ TextEnd \in Nat /\ TextEnd <= n /\ m \in Nat
  BY Situation
<1>2. CASE TabIn(m) = {}
  <2> DEFINE c == m + 5
  <2>1. Marker(m) = c /\ c <= n + 1 /\ data[c] \notin {"0", " "}
    BY <1>2 DEF Marker, MarkerRead, Continues
  <2>2. c \in 0..(n + 1) /\ c \in Nat
    <3>1. c \in Nat
      BY <1>1
    <3> HIDE DEF c
    <3> QED
      BY <1>1, <2>1, <3>1, InRange
  <2>3. ASSUME NEW e \in Nat, e <= n + 1, m <= e, data[e] = "nl" PROVE m + 5 <= e
    <3>1. e \notin m..(m + 4)
      BY <1>2, <2>3 DEF TabIn
    <3> HIDE DEF m
    <3> QED
      BY <1>1, <2>3, <3>1
  <2>4. ~(c >= LinesLength + 2)
    BY <2>1, <2>2, FixedSituation
  <2>5. LinesLength \in Nat /\ LinesLength <= TextEnd + 1 /\ data[TextEnd] = "nl" /\ TextEnd <= n + 1
    <3>1. LinesLength \in Nat /\ LinesLength <= TextEnd + 1 /\ data[TextEnd] = "nl"
      BY FixedSituation, Situation
    <3>2. TextEnd <= n + 1
      BY <1>1
    <3> QED
      BY <3>1, <3>2
  <2>6. m <= TextEnd
    BY <1>1, <2>4, <2>5
  <2>7. c <= TextEnd
    BY <1>1, <2>3, <2>5, <2>6
  <2> HIDE DEF c
  <2>8. c > k + 1
    BY DEF c
  <2> QED
    BY <2>1, <2>2, <2>7, <2>8
<1>3. CASE TabIn(m) # {}
  <2>1. Marker(m) = t + 1 /\ data[t] = "tab" /\ data[t + 1] = "1"
    BY <1>3 DEF Marker, Continues
  <2>2. t \in Nat /\ m <= t /\ t <= n + 1
    BY <1>1, <1>3, TabInFacts
  <2> HIDE DEF t
  <2>3. t < TextEnd
    BY <2>1, <2>2, InFront
  <2>4. t + 1 \in Nat /\ t + 1 <= n + 1
    BY <1>1, <2>2, <2>3
  <2>5. t + 1 < TextEnd
    BY <2>1, <2>4, InFront
  <2> QED
    BY <1>1, <2>1, <2>2, <2>4, <2>5
<1> QED
  BY <1>2, <1>3

LEMMA CommentMoved ==
    ASSUME StreamInv, MoveComment
    PROVE  StreamInv'
<1> DEFINE line == FreeComment(i + 1)
           next == NextLine(i + 1)
           h == held + next - i - 1
<1>1. /\ pc = "lineEnd" /\ Follower(i) # i + 1 /\ comments' = comments \o line
      /\ i' = next - 1 /\ UNCHANGED <<fixedUnchanged, data>> /\ newData' = newData /\ col' = col
      /\ pc' = pc
  BY DEF MoveComment, EndsContinued, LastOfLine
<1>2. /\ n \in Nat /\ i \in Nat /\ held \in Nat /\ held <= i
      /\ newData \in Seq(Char) /\ comments \in Seq(Char) /\ i <= n + 1
      /\ Len(newData) \in Nat /\ Len(comments) \in Nat
      /\ held = Len(newData) + Len(comments)
  BY Situation
<1>3. i + 1 \in Nat /\ i + 1 < n /\ i + 1 \in 0..n /\ i + 1 <= n
  <2>1. PassedOver(i + 1)
    BY <1>1, <1>2, FollowerFacts
  <2>2. i + 1 < n
    BY <1>2, <2>1, PassedOverIsInFile
  <2> QED
    BY <1>2, <2>2
<1>4. next \in (i + 1)..n /\ next > i + 1
  BY <1>3, LineEndFacts DEF StreamInv
<1>5. line \in Seq(Char) /\ Len(line) = next - (i + 1)
  BY <1>3, FreeCommentFacts
<1> HIDE DEF line, next
<1>6. comments' \in Seq(Char) /\ Len(comments') = Len(comments) + (next - (i + 1))
  BY <1>1, <1>2, <1>5, Appended
<1>7. h \in Nat /\ h <= i' /\ h <= n /\ i' \in 0..(n + 1) /\ i' < n
  BY <1>1, <1>2, <1>4
<1>8. h = Len(newData') + Len(comments')
  BY <1>1, <1>2, <1>4, <1>6
<1> HIDE DEF h
<1>9. /\ pc \in FixedCounter /\ pc' \in FixedCounter \cup {"done"} /\ FixedShape(pc', i', h)
      /\ col' \in 1..7 /\ newData' \in Seq(Char)
  <2>1. col \in 1..7
    BY DEF StreamInv, TypeOK
  <2> QED
    BY <1>1, <1>2, <1>7, <2>1 DEF FixedShape, FixedCounter
<1> QED
  BY <1>1, <1>6, <1>7, <1>8, <1>9, FixedStep

LEMMA LineJoined ==
    ASSUME StreamInv, JoinLine
    PROVE  StreamInv'
<1> DEFINE h == Len(newData') + Len(comments')
           c == Marker(i + 1)
<1>1. /\ pc = "lineEnd" /\ Follower(i) = i + 1 /\ MarkerRead(i) /\ Continues(i)
      /\ comments' \in {comments, Append(comments, "nl")}
      /\ i' = c + 1 /\ UNCHANGED <<fixedUnchanged, data>> /\ newData' = newData /\ col' = col
      /\ pc' = pc
  BY DEF JoinLine, EndsContinued
<1>2. /\ n \in Nat /\ i \in Nat /\ held \in Nat /\ held <= i
      /\ newData \in Seq(Char) /\ comments \in Seq(Char) /\ i <= n + 1
      /\ Len(newData) \in Nat /\ Len(comments) \in Nat /\ TextEnd \in Nat /\ TextEnd <= n
      /\ held = Len(newData) + Len(comments)
  BY Situation
<1>3. c \in Nat /\ c > i + 1 /\ c <= TextEnd
  BY <1>1, <1>2, JoinedInText
<1> HIDE DEF c
<1>4. comments' \in Seq(Char) /\ Len(comments') \in Nat /\ Len(comments') <= Len(comments) + 1
  <2>1. CASE comments' = comments
    BY <1>2, <2>1
  <2>2. CASE comments' = Append(comments, "nl")
    <3>1. "nl" \in Char
      BY DEF Char
    <3>2. comments' \in Seq(Char) /\ Len(comments') = Len(comments) + 1
      BY <1>2, <2>2, <3>1, AppendProperties
    <3> QED
      BY <1>2, <3>2
  <2> QED
    BY <1>1, <2>1, <2>2
<1>5. h \in Nat /\ h < i' /\ h <= i' /\ h <= n /\ i' \in 0..(n + 1) /\ i' <= TextEnd + 1
  BY <1>1, <1>2, <1>3, <1>4
<1>6. i' < n \/ data[i'] = "nl"
  <2>1. i' < n \/ i' = TextEnd \/ i' = TextEnd + 1
    BY <1>2, <1>3, <1>1
  <2> QED
    BY <2>1, Situation, FixedSituation
<1>7. newData' \in Seq(Char)
  BY <1>1, <1>2
<1> HIDE DEF h
<1>8. /\ pc \in FixedCounter /\ pc' \in FixedCounter \cup {"done"} /\ FixedShape(pc', i', h)
      /\ col' \in 1..7
  <2>1. col \in 1..7
    BY DEF StreamInv, TypeOK
  <2> QED
    BY <1>1, <1>5, <1>6, <2>1 DEF FixedShape, FixedCounter
<1> QED
  BY <1>1, <1>4, <1>5, <1>7, <1>8, FixedStep DEF h

LEMMA FixedCopiedFacts ==
    ASSUME StreamInv
    PROVE  /\ FixedCopied \in Seq(Char) /\ Len(FixedCopied) \in Nat
           /\ data[i] = "nl" => Len(FixedCopied) = held + 1
           /\ data[i] # "nl" => Len(FixedCopied) = Len(newData) + 1
<1>1. /\ newData \in Seq(Char) /\ comments \in Seq(Char) /\ held = Len(newData) + Len(comments)
      /\ Len(newData) \in Nat /\ Len(comments) \in Nat /\ held \in Nat
  BY Situation
<1>2. data[i] \in Char /\ "nl" \in Char
  BY BufferFacts DEF StreamInv, Char
<1>3. CASE data[i] = "nl"
  <2>1. <<"nl">> \in Seq(Char) /\ Len(<<"nl">>) = 1
    BY <1>2
  <2>2. newData \o <<"nl">> \in Seq(Char) /\ Len(newData \o <<"nl">>) = Len(newData) + 1
    BY <1>1, <2>1, Appended
  <2>3. FixedCopied = (newData \o <<"nl">>) \o comments
    BY <1>1, <1>3, <2>1, ConcatAssociative DEF FixedCopied
  <2>4. FixedCopied \in Seq(Char) /\ Len(FixedCopied) = Len(newData) + 1 + Len(comments)
    BY <1>1, <2>2, <2>3, Appended
  <2> QED
    BY <1>1, <1>3, <2>4
<1>4. CASE data[i] # "nl"
  <2>1. FixedCopied = Append(newData, data[i])
    BY <1>4 DEF FixedCopied
  <2>2. FixedCopied \in Seq(Char) /\ Len(FixedCopied) = Len(newData) + 1
    BY <1>1, <1>2, <2>1, AppendProperties
  <2> QED
    BY <1>1, <1>4, <2>2
<1> QED
  BY <1>3, <1>4

(* Two positions behind the buffer there is nothing to read.                *)
LEMMA NoMarkerBehind ==
    ASSUME StreamInv
    PROVE  ~MarkerRead(n + 1)
<1>1. n \in Nat /\ n + 1 \in Nat /\ n + 1 <= n + 1 /\ n + 2 \in Nat /\ n + 1 + 1 = n + 2
  <2>1. n \in Nat
    BY Situation
  <2> QED
    BY <2>1
<1>2. Follower(n + 1) = n + 2
  <2>1. n + 2 <= Follower(n + 1) /\ Follower(n + 1) <= n + 2 /\ Follower(n + 1) \in Nat
    BY <1>1, FollowerFacts
  <2> QED
    BY <1>1, <2>1
<1>3. TabIn(n + 2) = {}
  <2>1. \A t \in (n + 2)..(n + 2 + 4) : ~(t <= n + 1)
    BY <1>1
  <2> QED
    BY <2>1 DEF TabIn
<1>4. ~(n + 2 + 5 <= n + 1)
  BY <1>1
<1> QED
  BY <1>2, <1>3, <1>4 DEF MarkerRead, Marker

LEMMA FixedCharacterCopied ==
    ASSUME StreamInv, CopyFixedCharacter
    PROVE  StreamInv'
<1> DEFINE h == held + 1
<1>1. /\ pc = "lineEnd" /\ newData' = FixedCopied /\ Len(FixedCopied) <= n /\ i' = i + 1
      /\ UNCHANGED <<fixedUnchanged, data>> /\ (data[i] = "nl" => MarkerRead(i))
      /\ IF data[i] = "nl" THEN col' = 1 /\ comments' = <<>>
         ELSE col' = Min({col + 1, 7}) /\ comments' = comments
      /\ pc' = IF i + 1 >= n THEN "done" ELSE IF col' = 1 THEN "column1" ELSE "column"
  BY DEF CopyFixedCharacter, RoundEnds
<1>2. /\ n \in Nat /\ i \in Nat /\ held \in Nat /\ held <= i /\ held <= n
      /\ comments \in Seq(Char) /\ Len(newData) \in Nat /\ Len(comments) \in Nat /\ i <= n + 1
      /\ held = Len(newData) + Len(comments) /\ TextEnd \in Nat /\ TextEnd <= n
  BY Situation
<1>3. i < n \/ data[i] = "nl"
  BY <1>1, FixedSituation DEF FixedShape
<1>4. h = Len(newData') + Len(comments') /\ newData' \in Seq(Char) /\ comments' \in Seq(Char)
  <2>1. CASE data[i] = "nl"
    <3>1. comments' = <<>> /\ Len(newData') = held + 1 /\ newData' \in Seq(Char)
      BY <1>1, <2>1, FixedCopiedFacts
    <3>2. comments' \in Seq(Char) /\ Len(comments') = 0
      BY <3>1
    <3> QED
      BY <1>2, <3>1, <3>2
  <2>2. CASE data[i] # "nl"
    <3>1. comments' = comments /\ Len(newData') = Len(newData) + 1 /\ newData' \in Seq(Char)
      BY <1>1, <2>2, FixedCopiedFacts
    <3> QED
      BY <1>2, <3>1
  <2> QED
    BY <2>1, <2>2
<1>5. h <= n
  <2>1. CASE i < n
    BY <1>2, <2>1
  <2>2. CASE data[i] = "nl"
    <3>1. Len(FixedCopied) = held + 1
      BY <2>2, FixedCopiedFacts
    <3> QED
      BY <1>1, <3>1
  <2> QED
    BY <1>3, <2>1, <2>2
<1>6. i # n + 1
  <2>1. ASSUME i = n + 1 PROVE FALSE
    <3>1. data[i] = "nl"
      BY <1>2, <1>3, <2>1
    <3> QED
      BY <1>1, <2>1, <3>1, NoMarkerBehind
  <2> QED
    BY <2>1
<1>7. h \in Nat /\ h <= i' /\ i' \in 0..(n + 1)
  BY <1>1, <1>2, <1>6
<1>8. col' \in 1..7
  <2>1. col \in 1..7
    BY DEF StreamInv, TypeOK
  <2>2. {col + 1, 7} \in SUBSET Nat /\ {col + 1, 7} # {}
    BY <2>1
  <2>3. Min({col + 1, 7}) \in {col + 1, 7} /\ Min({col + 1, 7}) <= 7
    BY <2>2, MinFacts
  <2>4. Min({col + 1, 7}) \in 1..7
    BY <2>1, <2>3
  <2> QED
    BY <1>1, <2>4
<1>9. pc' \in {"column1", "column"} => i' < n /\ i' <= n
  BY <1>1, <1>2
<1>10. pc' \in {"column1", "column", "done"}
  BY <1>1
<1> HIDE DEF h
<1>11. /\ pc \in FixedCounter /\ pc' \in FixedCounter \cup {"done"} /\ FixedShape(pc', i', h)
  BY <1>1, <1>9, <1>10 DEF FixedShape, FixedCounter
<1> QED
  BY <1>1, <1>4, <1>5, <1>7, <1>8, <1>11, FixedStep

(* Neither the end of newData nor that of the buffer is overrun in a         *)
(* terminated file whose padding is not too short.  What makes a file crash *)
(* is a matter of the file.                                                 *)
LEMMA CrashOnlyUnterminated ==
    ASSUME StreamInv, pc \in FixedCounter, pc' = "crash",
           UNCHANGED <<fixedUnchanged, data, i, newData, comments, col>>,
           ~Convertible
    PROVE  StreamInv'
<1>1. /\ UNCHANGED <<source, data>> /\ i' = i /\ newData' = newData /\ comments' = comments
      /\ continuation' = continuation /\ col' = col
  BY DEF fixedUnchanged
<1>2. /\ n \in Nat /\ i \in Nat /\ i <= n + 1 /\ held <= i /\ held <= n
      /\ newData \in Seq(Char) /\ comments \in Seq(Char) /\ continuation \in BOOLEAN
      /\ held = Len(newData) + Len(comments)
  BY Situation
<1>3. i' \in 0..(n + 1) /\ col' \in 1..7
  <2>1. col' \in 1..7
    BY <1>1 DEF StreamInv, TypeOK
  <2> QED
    BY <1>1, <1>2, <2>1, InRange
<1>4. /\ TypeOK' /\ DataInv' /\ NoCrash'
  BY <1>1, <1>2, <1>3, SameBuffer
<1>5. FreeInv' /\ FixedInv'
  BY DEF FreeInv, FreeShape, FixedInv, FixedShape, FixedCounter
<1> QED
  BY <1>4, <1>5 DEF StreamInv

LEMMA FixedLargeNumberCrashes ==
    ASSUME StreamInv, FixedLargeNumber
    PROVE  StreamInv'
<1>1. /\ pc = "column" /\ NumberTooLarge /\ pc' = "crash"
      /\ UNCHANGED <<fixedUnchanged, data, i, newData, comments, col>>
  BY DEF FixedLargeNumber
<1>2. n \in Nat /\ i \in Nat /\ i < n
  BY <1>1, Situation, FixedSituation DEF FixedShape
<1>3. ~Convertible /\ pc \in FixedCounter
  BY <1>1, <1>2, LargeNumberOfText DEF StreamInv, FixedCounter
<1> QED
  BY <1>1, <1>3, CrashOnlyUnterminated

LEMMA FixedFullOnlyUnterminated ==
    ASSUME StreamInv, FixedBufferFull
    PROVE  StreamInv'
<1>1. /\ pc = "lineEnd" /\ Len(FixedCopied) > n /\ pc' = "crash"
      /\ UNCHANGED <<fixedUnchanged, data, i, newData, comments, col>>
  BY DEF FixedBufferFull, RoundEnds
<1>2. /\ n \in Nat /\ i \in Nat /\ held \in Nat /\ held <= i
      /\ Len(newData) \in Nat /\ Len(comments) \in Nat
      /\ held = Len(newData) + Len(comments) /\ TextEnd \in Nat
  BY Situation
<1>3. i < n \/ (i <= TextEnd + 1 /\ (i > TextEnd => held < i))
  BY <1>1, FixedSituation DEF FixedShape
<1>4. Len(FixedCopied) \in Nat /\ Len(FixedCopied) <= held + 1
  <2>1. Len(FixedCopied) \in {held + 1, Len(newData) + 1}
    BY FixedCopiedFacts
  <2> QED
    BY <1>2, <2>1
<1>5. ~(TextEnd < n)
  BY <1>1, <1>2, <1>3, <1>4
<1>6. ~Convertible /\ pc \in FixedCounter
  BY <1>1, <1>5, FixedSituation DEF FixedCounter, Convertible
<1> QED
  BY <1>1, <1>6, CrashOnlyUnterminated

LEMMA BeyondOnlyUnterminated ==
    ASSUME StreamInv, LookBeyond
    PROVE  StreamInv'
<1>1. /\ pc \in {"lineEnd", "column"} /\ pc' = "crash"
      /\ UNCHANGED <<fixedUnchanged, data, i, newData, comments, col>>
  BY DEF LookBeyond
<1>2. /\ n \in Nat /\ i \in Nat /\ TextEnd \in Nat /\ TextEnd <= n /\ i <= n + 1
      /\ LinesLength \in Nat /\ LinesLength <= n
  BY Situation, FixedSituation
<1>3. pc \in FixedCounter /\ sourceForm = "fixed"
  BY <1>1, FixedSituation DEF FixedCounter
<1>4. ASSUME Terminated, ~PaddingShort PROVE FALSE
  <2>1. n - LinesLength \notin 2..5
    BY <1>3, <1>4 DEF PaddingShort, LinesLength
  <2>2. TextEnd < n /\ LinesLength = TextEnd + 1
    BY <1>4, FixedSituation
  <2>3. CASE pc = "lineEnd" /\ data[i] = "nl" /\ ~MarkerRead(i)
    <3>1. i < n \/ i <= TextEnd + 1
      BY <2>3, FixedSituation DEF FixedShape
    <3>2. i <= n /\ (i < n \/ LinesLength = n)
      BY <1>2, <2>2, <3>1
    <3> QED
      BY <1>2, <1>4, <2>1, <2>3, <3>2, MarkerIsThere
  <2>4. CASE data[i] = "!" /\ ~MarkerRead(LineEnd(i))
    <3> DEFINE end == LineEnd(i)
    <3>1. i < TextEnd
      BY <1>2, <2>4, InFront
    <3>2. i \in 0..n /\ i <= TextEnd
      BY <1>2, <3>1
    <3>3. end \in i..n /\ end <= TextEnd /\ (end = n \/ data[end] = "nl")
      BY <3>2, LineEndFacts DEF StreamInv
    <3> HIDE DEF end
    <3>4. end \in Nat /\ end < n /\ end <= n /\ end # n
      BY <1>2, <2>2, <3>3
    <3>5. MarkerRead(end)
      BY <1>4, <2>1, <3>3, <3>4, MarkerIsThere
    <3> QED
      BY <2>4, <3>5 DEF end
  <2> QED
    BY <2>3, <2>4 DEF LookBeyond
<1>5. ~Convertible
  BY <1>4 DEF Convertible
<1> QED
  BY <1>1, <1>3, <1>5, CrashOnlyUnterminated

LEMMA FixedKeepsInv ==
    ASSUME StreamInv, FixedNext
    PROVE  StreamInv'
BY FixedNothingConsumed, FixedLineTaken, FixedCommentConsumed, ZeroBlanked, FixedStringCopied,
   FixedOtherConsumed, FixedLargeNumberCrashes, CommentMoved, LineJoined, FixedCharacterCopied, FixedFullOnlyUnterminated,
   BeyondOnlyUnterminated DEF FixedNext

-----------------------------------------------------------------------------
LEMMA StreamInvInit == Init => StreamInv
<1> SUFFICES ASSUME Init PROVE StreamInv
  OBVIOUS
<1>1. /\ text \in Seq(Char) /\ sourceForm \in {"free", "fixed"} /\ data = Padded(text) /\ i = 0
      /\ newData = <<>> /\ comments = <<>> /\ continuation = FALSE /\ col = 1
      /\ pc = IF n = 0 THEN "done" ELSE FirstRound[sourceForm]
  BY StreamAssumption DEF Init
<1>2. /\ pc \in {"done", "preprocess", "column1"} /\ (pc # "done" => n # 0)
      /\ (pc = "column1" => sourceForm = "fixed")
  BY <1>1 DEF FirstRound
<1> DEFINE lines == Lines(text)
           L == Len(lines)
<1>3. /\ lines \in Seq(NoReturn) /\ L \in 0..n
      /\ n > 0 /\ text[n] \in {"nl", "cr"} => L > 0 /\ lines[L] = "nl"
  BY <1>1, LinesFacts DEF n
<1>4. n \in Nat /\ L \in Nat /\ L <= n
  <2>1. n \in Nat
    BY <1>1, LenProperties DEF n
  <2> HIDE DEF L
  <2> QED
    BY <1>3, <2>1
<1>5. LinesLength = L /\ (Terminated => L > 0 /\ lines[L] = "nl")
  BY <1>3 DEF LinesLength, Terminated
<1>6. data = [k \in 0..(n + 1) |-> IF k < L THEN lines[k + 1] ELSE IF k < L + 2 THEN "nl" ELSE " "]
  BY <1>1 DEF Padded, n
<1>7. \A k \in 0..(n + 1) : k < L => lines[k + 1] \in NoReturn
  <2> SUFFICES ASSUME NEW k \in 0..(n + 1), k < L PROVE lines[k + 1] \in NoReturn
    OBVIOUS
  <2>1. k + 1 \in 1..L
    <3> HIDE DEF L
    <3> QED
      BY <1>4
  <2> QED
    BY <1>3, <2>1, ElementOfSeq
<1> HIDE DEF L, lines
<1>8. data \in [0..(n + 1) -> Char \ {"cr"}]
  BY <1>6, <1>7 DEF NoReturn, Char
<1>9. TextEnd = (IF Terminated THEN L - 1 ELSE L) /\ TextEnd \in 0..n /\ (Terminated => TextEnd < n)
  BY <1>4, <1>5 DEF TextEnd
<1>10. ASSUME NEW k \in 0..(n + 1)
       PROVE  /\ k >= L => data[k] = IF k < L + 2 THEN "nl" ELSE " "
              /\ k >= TextEnd => data[k] \in {"nl", " "}
  <2>1. k >= L => data[k] = IF k < L + 2 THEN "nl" ELSE " "
    <3>1. k \in Nat
      BY <1>4
    <3>2. k >= L => ~(k < L)
      BY <1>4, <3>1
    <3> QED
      BY <1>6, <3>2
  <2>2. CASE k >= L
    BY <2>1, <2>2
  <2>3. CASE k >= TextEnd /\ ~(k >= L)
    <3>1. Terminated /\ k + 1 = L /\ k < L
      BY <1>4, <1>9, <2>3
    <3>2. data[k] = lines[k + 1]
      BY <1>6, <3>1
    <3> QED
      BY <1>5, <2>1, <3>1, <3>2
  <2> QED
    BY <2>1, <2>2, <2>3
<1>11. data[TextEnd] = "nl" /\ data[TextEnd + 1] = "nl"
  <2>1. CASE Terminated
    <3>1. L - 1 \in 0..(n + 1) /\ L \in 0..(n + 1) /\ L - 1 < L /\ L - 1 + 1 = L /\ L >= L /\ L < L + 2
      BY <1>4, <1>5, <2>1
    <3>2. data[L - 1] = lines[L] /\ data[L] = "nl"
      BY <1>6, <1>10, <3>1
    <3> QED
      BY <1>5, <1>9, <2>1, <3>1, <3>2
  <2>2. CASE ~Terminated
    <3>1. L \in 0..(n + 1) /\ L + 1 \in 0..(n + 1) /\ L >= L /\ L < L + 2 /\ L + 1 >= L /\ L + 1 < L + 2
      BY <1>4
    <3>2. data[L] = "nl" /\ data[L + 1] = "nl"
      BY <1>10, <3>1
    <3> QED
      BY <1>9, <2>2, <3>2
  <2> QED
    BY <2>1, <2>2
<1>12. DataInv
  <2>1. LinesLength \in 0..n
    BY <1>4, <1>5
  <2> QED
    BY <1>1, <1>5, <1>8, <1>9, <1>10, <1>11, <2>1 DEF DataInv, DataFromText
<1>13. held = 0 /\ newData \in Seq(Char) /\ comments \in Seq(Char)
       /\ Len(newData) + Len(comments) = 0
  BY <1>1 DEF held
<1>14. TypeOK
  <2>1. {i, n} \in SUBSET Nat /\ {i, n} # {}
    BY <1>1, <1>4
  <2>2. Min({i, n}) \in Nat
    BY <2>1, MinFacts
  <2>3. 0 <= Min({i, n}) /\ i \in 0..(n + 1) /\ col \in 1..7
    BY <1>1, <1>4, <2>2
  <2>4. Len(newData) + Len(comments) <= Min({i, n})
    BY <1>13, <2>3
  <2>5. continuation \in BOOLEAN
    BY <1>1
  <2> QED
    BY <1>1, <1>2, <1>8, <1>13, <2>3, <2>4, <2>5 DEF TypeOK
<1>15. FreeInv /\ FixedInv /\ NoCrash
  <2>1. i <= n /\ (pc # "done" => i # n)
    BY <1>1, <1>2, <1>4
  <2>2. FreeInv
    BY <1>1, <1>2, <2>1 DEF FreeInv, FreeShape
  <2>3. FixedInv
    BY <1>1, <1>2, <2>1 DEF FixedInv, FixedShape, FixedCounter
  <2> QED
    BY <1>2, <2>2, <2>3 DEF NoCrash
<1> QED
  BY <1>12, <1>14, <1>15 DEF StreamInv

LEMMA StreamInvStep == StreamInv /\ [Next]_vars => StreamInv'
<1> SUFFICES ASSUME StreamInv, [Next]_vars PROVE StreamInv'
  OBVIOUS
<1>1. CASE FreeNext
  BY <1>1, FreeKeepsInv
<1>2. CASE FixedNext
  BY <1>2, FixedKeepsInv
<1>3. CASE UNCHANGED vars
  <2>1. /\ text' = text /\ sourceForm' = sourceForm /\ data' = data /\ i' = i /\ newData' = newData
        /\ comments' = comments /\ continuation' = continuation /\ col' = col /\ pc' = pc
    BY <1>3 DEF vars
  <2>2. /\ n' = n /\ LinesLength' = LinesLength /\ held' = held
    BY <2>1 DEF n, LinesLength, held
  <2>3. Terminated' = Terminated /\ Convertible' = Convertible
    BY <2>1, ConvertibleSame
  <2>4. TextEnd' = TextEnd
    BY <2>2, <2>3 DEF TextEnd
  <2>5. TypeOK' /\ DataInv'
    BY <2>1, <2>2, <2>3, <2>4 DEF StreamInv, TypeOK, DataInv, DataFromText
  <2>6. FreeInv' /\ FixedInv' /\ NoCrash'
    BY <2>1, <2>2, <2>3, <2>4 DEF StreamInv, FreeInv, FreeShape, FixedInv, FixedShape, NoCrash
  <2> QED
    BY <2>5, <2>6 DEF StreamInv
<1> QED
  BY <1>1, <1>2, <1>3 DEF Next

(* The invariant of the two conversions, for files of any length.           *)
THEOREM StreamInvariant == Spec => []StreamInv
BY StreamInvInit, StreamInvStep, PTL DEF Spec

(* Every variable keeps its type, and newData has room for what is in it and *)
(* for the comments that wait, for any file in either form: no character is  *)
(* stored twice.                                                            *)
THEOREM StreamTypes == Spec => []TypeOK
<1>1. StreamInv => TypeOK
  BY DEF StreamInv
<1> QED
  BY <1>1, StreamInvariant, PTL

(* FortranStream's constructor writes no character behind newData, and reads *)
(* none behind the padded buffer, and Integer.parseInt takes every number in *)
(* front of an H, for any file that ends with a line end, whose padding is   *)
(* not too short and which has no number in front of an "h" that is larger   *)
(* than an int.                                                             *)
THEOREM NoOverrun == Spec => []NoCrash
<1>1. StreamInv => NoCrash
  BY DEF StreamInv
<1> QED
  BY <1>1, StreamInvariant, PTL
=============================================================================
