--------------------------- MODULE CParserProofs ---------------------------
(***************************************************************************)
(* Proofs about the C parser for every grammar, file and program: types,   *)
(* the stacks, the order of the reports, the silence of predicates, and    *)
(* that only files the grammar derives are walked.                         *)
(***************************************************************************)
EXTENDS CParser, SequenceTheorems, FiniteSetTheorems, TLAPS

(* What is true of a stack of frames by itself.                            *)

FrameOK(fs, i) ==
    /\ fs[i].alt <= Len(Grammar[fs[i].rule])
    /\ i = 1 <=> fs[i].how = "start"
    /\ fs[i].how = "pred" =>
         /\ fs[i - 1].alt = 0
         /\ fs[i - 1].try <= Len(Grammar[fs[i - 1].rule])
WellFormed(fs) == fs \in Seq(Frame) /\ \A i \in 1 .. Len(fs) : FrameOK(fs, i)

HowOf(fs, how) == {i \in 1 .. Len(fs) : fs[i].how = how}
Bit(b) == IF b THEN 1 ELSE 0

(* Every mark is a place of the file, and no place a report names is       *)
(* behind the mark of a predicate or behind the parser.                    *)
MarkOK(f) ==
    /\ f.mark <= Len(input)
    /\ f.how = "pred" => \A j \in 1 .. Len(reports) : reports[j].at <= f.mark
MarksOK == \A i \in 1 .. Len(frames) : MarkOK(frames[i])
FlagsOK ==
    /\ error => exception \in Exception /\ backtracking = 0
    /\ failed => backtracking > 0
    /\ resync => error
PhaseOK == phase # "unit" => frames = <<>>
StacksOK ==
    /\ Len(following) = Cardinality(HowOf(frames, "call"))
    /\ backtracking = Cardinality(HowOf(frames, "pred"))
OrderOK ==
    /\ errorCount = Len(reports)
    /\ \A i, j \in 1 .. Len(reports) : i <= j => reports[i].at <= reports[j].at
    /\ \A i \in 1 .. Len(reports) : reports[i].at <= index

IInv == /\ TypeOK /\ WellFormed(frames)
        /\ MarksOK /\ FlagsOK /\ PhaseOK /\ StacksOK /\ OrderOK
------------------------------------------------------------------------------
(* Stacks of frames.                                                       *)

\* Frames entered in the same ways are counted alike.
LEMMA SameHows ==
    ASSUME NEW fs, NEW gs, Len(gs) = Len(fs),
           \A i \in 1 .. Len(fs) : gs[i].how = fs[i].how
    PROVE  \A how : HowOf(gs, how) = HowOf(fs, how)
  BY DEF HowOf

\* The frames entered in one way are finitely many.
LEMMA HowFinite ==
    ASSUME NEW fs \in Seq(Frame), NEW how
    PROVE  IsFiniteSet(HowOf(fs, how)) /\ Cardinality(HowOf(fs, how)) \in Nat
  <1>1. Len(fs) \in Nat
    BY LenProperties
  <1>2. IsFiniteSet(1 .. Len(fs))
    BY <1>1, FS_Interval
  <1>3. HowOf(fs, how) \subseteq 1 .. Len(fs)
    BY DEF HowOf
  <1>4. IsFiniteSet(HowOf(fs, how))
    BY <1>2, <1>3, FS_Subset
  <1> QED
    BY <1>4, FS_CardinalityType

\* One frame more.
LEMMA PushHow ==
    ASSUME NEW fs \in Seq(Frame), NEW f \in Frame, NEW how
    PROVE  Cardinality(HowOf(Append(fs, f), how))
             = Cardinality(HowOf(fs, how)) + Bit(f.how = how)
  <1> DEFINE gs == Append(fs, f)
  <1>1. /\ Len(fs) \in Nat /\ Len(gs) = Len(fs) + 1
        /\ gs[Len(fs) + 1] = f
        /\ \A i \in 1 .. Len(fs) : gs[i] = fs[i]
    BY AppendProperties, LenProperties
  <1> HIDE DEF gs
  <1>2. IsFiniteSet(HowOf(fs, how)) /\ Cardinality(HowOf(fs, how)) \in Nat
    BY HowFinite
  <1>3. CASE f.how = how
    <2>1. HowOf(gs, how) = HowOf(fs, how) \cup {Len(fs) + 1}
      BY <1>1, <1>3 DEF HowOf
    <2>2. Len(fs) + 1 \notin HowOf(fs, how)
      BY <1>1 DEF HowOf
    <2>3. Cardinality(HowOf(gs, how)) = Cardinality(HowOf(fs, how)) + 1
      BY <1>2, <2>1, <2>2, FS_AddElement
    <2> QED
      BY <1>3, <2>3 DEF gs, Bit
  <1>4. CASE f.how # how
    <2>1. HowOf(gs, how) = HowOf(fs, how)
      BY <1>1, <1>4 DEF HowOf
    <2> QED
      BY <1>2, <1>4, <2>1 DEF gs, Bit
  <1> QED
    BY <1>3, <1>4

\* The stack without its last frame.
LEMMA Popped ==
    ASSUME NEW fs \in Seq(Frame), fs # <<>>
    PROVE  LET gs == SubSeq(fs, 1, Len(fs) - 1)
           IN  /\ gs \in Seq(Frame) /\ Len(gs) = Len(fs) - 1
               /\ Len(fs) \in Nat \ {0} /\ fs[Len(fs)] \in Frame
               /\ \A i \in 1 .. Len(gs) : gs[i] = fs[i]
  <1> DEFINE gs == SubSeq(fs, 1, Len(fs) - 1)
  <1>1. Len(fs) \in Nat \ {0}
    BY EmptySeq, LenProperties
  <1>2. \A i \in 1 .. Len(fs) : fs[i] \in Frame
    BY ElementOfSeq
  <1>3. \A i \in 1 .. Len(fs) - 1 : fs[i] \in Frame
    BY <1>1, <1>2
  <1>4. /\ gs \in Seq(Frame)
        /\ Len(gs) = IF 1 <= Len(fs) - 1 THEN Len(fs) - 1 - 1 + 1 ELSE 0
        /\ \A i \in 1 .. Len(fs) - 1 - 1 + 1 : gs[i] = fs[1 + i - 1]
    BY <1>1, <1>3, SubSeqProperties
  <1> HIDE DEF gs
  <1>5. Len(gs) = Len(fs) - 1
    <2> DEFINE n == Len(fs)
               m == Len(gs)
    <2>1. n \in Nat /\ n # 0 /\ m = IF 1 <= n - 1 THEN n - 1 - 1 + 1 ELSE 0
      BY <1>1, <1>4
    <2> HIDE DEF n, m
    <2>2. m = n - 1
      BY <2>1
    <2> QED
      BY <2>2 DEF n, m
  <1>6. \A i \in 1 .. Len(gs) : gs[i] = fs[i]
    BY <1>1, <1>4, <1>5
  <1>7. fs[Len(fs)] \in Frame
    BY <1>1, <1>2
  <1> QED
    BY <1>1, <1>4, <1>5, <1>6, <1>7 DEF gs

\* One frame less.
LEMMA PopHow ==
    ASSUME NEW fs \in Seq(Frame), fs # <<>>, NEW how
    PROVE  Cardinality(HowOf(fs, how))
             = Cardinality(HowOf(SubSeq(fs, 1, Len(fs) - 1), how))
               + Bit(fs[Len(fs)].how = how)
  <1> DEFINE gs == SubSeq(fs, 1, Len(fs) - 1)
             f  == fs[Len(fs)]
  <1>1. /\ gs \in Seq(Frame) /\ Len(gs) = Len(fs) - 1 /\ f \in Frame
        /\ Len(fs) \in Nat \ {0}
        /\ \A i \in 1 .. Len(gs) : gs[i] = fs[i]
    BY Popped
  <1>2. Cardinality(HowOf(Append(gs, f), how))
          = Cardinality(HowOf(gs, how)) + Bit(f.how = how)
    <2> HIDE DEF gs, f
    <2> QED
      BY <1>1, PushHow
  <1>3. /\ Len(Append(gs, f)) = Len(fs)
        /\ \A i \in 1 .. Len(fs) : Append(gs, f)[i] = fs[i]
    <2>1. Len(Append(gs, f)) = Len(gs) + 1
      BY <1>1, AppendProperties
    <2>2. \A i \in 1 .. Len(gs) : Append(gs, f)[i] = gs[i]
      BY <1>1, AppendProperties
    <2>3. Append(gs, f)[Len(gs) + 1] = f
      BY <1>1, AppendProperties
    <2> HIDE DEF gs
    <2> QED
      BY <1>1, <2>1, <2>2, <2>3
  <1>4. HowOf(Append(gs, f), how) = HowOf(fs, how)
    BY <1>3 DEF HowOf
  <1> QED
    BY <1>2, <1>4
------------------------------------------------------------------------------
(* What an action does to the stack.                                       *)

SameCalls(fs, gs) ==
    /\ Len(gs) = Len(fs)
    /\ \A i \in 1 .. Len(fs) : gs[i].how = fs[i].how /\ gs[i].mark = fs[i].mark

\* The alternatives of a rule are a list, their elements too.
LEMMA GrammarLists ==
    ASSUME NEW r \in Rule
    PROVE  /\ Grammar[r] \in Seq(Alternative) /\ Len(Grammar[r]) \in Nat
           /\ \A a \in 1 .. Len(Grammar[r]) :
                /\ Grammar[r][a] \in Alternative
                /\ Grammar[r][a].elems \in Seq(Element)
  <1>1. Grammar[r] \in Seq(Alternative)
    BY GrammarAssumption
  <1>2. Len(Grammar[r]) \in Nat
    BY <1>1, LenProperties
  <1>3. \A a \in 1 .. Len(Grammar[r]) : Grammar[r][a] \in Alternative
    BY <1>1, ElementOfSeq
  <1>4. \A a \in Alternative : a.elems \in Seq(Element)
    BY DEF Alternative
  <1> QED
    BY <1>1, <1>2, <1>3, <1>4

\* The top frame goes on in its rule.
LEMMA TopReplaced ==
    ASSUME NEW fs, WellFormed(fs), fs # <<>>, NEW f \in Frame,
           f.rule = fs[Len(fs)].rule, f.how = fs[Len(fs)].how,
           f.mark = fs[Len(fs)].mark, f.alt <= Len(Grammar[f.rule])
    PROVE  LET gs == [fs EXCEPT ![Len(fs)] = f]
           IN  WellFormed(gs) /\ gs # <<>> /\ SameCalls(fs, gs)
  <1> DEFINE gs == [fs EXCEPT ![Len(fs)] = f]
             n  == Len(fs)
  <1>1. fs \in Seq(Frame) /\ n \in Nat \ {0} /\ \A i \in 1 .. n : fs[i] \in Frame
    BY EmptySeq, LenProperties, ElementOfSeq DEF WellFormed
  <1>2. gs \in Seq(Frame) /\ Len(gs) = n
    BY <1>1, ExceptSeq
  <1>3. gs[n] = f /\ \A i \in 1 .. n : i # n => gs[i] = fs[i]
    BY <1>1, LenProperties
  <1>4. gs # <<>>
    BY <1>1, <1>2, EmptySeq
  <1>5. \A i \in 1 .. n : FrameOK(fs, i)
    BY DEF WellFormed
  <1> HIDE DEF gs
  <1>6. \A i \in 1 .. n : gs[i].how = fs[i].how /\ gs[i].mark = fs[i].mark
                          /\ gs[i].rule = fs[i].rule
    BY <1>3
  <1>7. ASSUME NEW i \in 1 .. n
        PROVE  FrameOK(gs, i)
    <2>1. gs[i].alt <= Len(Grammar[gs[i].rule])
      BY <1>3, <1>5 DEF FrameOK
    <2>2. i = 1 <=> gs[i].how = "start"
      BY <1>5, <1>6 DEF FrameOK
    <2>3. ASSUME gs[i].how = "pred"
          PROVE  gs[i - 1].alt = 0 /\ gs[i - 1].try <= Len(Grammar[gs[i - 1].rule])
      <3>1. fs[i].how = "pred" /\ i # 1
        BY <1>5, <1>6, <2>3 DEF FrameOK
      <3>2. i - 1 \in 1 .. n /\ i - 1 # n
        BY <1>1, <3>1
      <3>3. gs[i - 1] = fs[i - 1]
        BY <1>3, <3>2
      <3> QED
        BY <1>5, <3>1, <3>3 DEF FrameOK
    <2> QED
      BY <2>1, <2>2, <2>3 DEF FrameOK
  <1> QED
    BY <1>2, <1>4, <1>6, <1>7 DEF WellFormed, SameCalls, gs

\* A rule or a predicate is called.
LEMMA PushedFrame ==
    ASSUME NEW fs, WellFormed(fs), fs # <<>>, NEW f \in Frame,
           f.alt = 0, f.how # "start",
           f.how = "pred" => /\ fs[Len(fs)].alt = 0
                             /\ fs[Len(fs)].try <= Len(Grammar[fs[Len(fs)].rule])
    PROVE  WellFormed(Append(fs, f))
  <1> DEFINE gs == Append(fs, f)
             n  == Len(fs)
  <1>1. fs \in Seq(Frame) /\ n \in Nat \ {0}
    BY EmptySeq, LenProperties DEF WellFormed
  <1>2. /\ gs \in Seq(Frame) /\ Len(gs) = n + 1
        /\ gs[n + 1] = f
        /\ \A i \in 1 .. n : gs[i] = fs[i]
    BY <1>1, AppendProperties
  <1>3. \A i \in 1 .. n : FrameOK(fs, i)
    BY DEF WellFormed
  <1>4. Len(Grammar[f.rule]) \in Nat
    BY GrammarLists DEF Frame
  <1> HIDE DEF gs
  <1>5. ASSUME NEW i \in 1 .. n
        PROVE  FrameOK(gs, i)
    <2>1. gs[i] = fs[i] /\ FrameOK(fs, i)
      BY <1>2, <1>3
    <2>2. i # 1 => gs[i - 1] = fs[i - 1]
      BY <1>1, <1>2
    <2> QED
      BY <2>1, <2>2 DEF FrameOK
  <1>6. FrameOK(gs, n + 1)
    <2>1. n + 1 # 1 /\ n + 1 - 1 = n
      BY <1>1
    <2>2. gs[n + 1 - 1] = fs[n]
      BY <1>1, <1>2, <2>1
    <2> QED
      BY <1>2, <1>4, <2>1, <2>2 DEF FrameOK
  <1>7. \A i \in 1 .. n + 1 : FrameOK(gs, i)
    <2>1. \A i \in 1 .. n + 1 : i \in 1 .. n \/ i = n + 1
      BY <1>1
    <2> QED
      BY <1>5, <1>6, <2>1
  <1> QED
    BY <1>2, <1>7 DEF WellFormed, gs

\* A rule or a predicate returns.
LEMMA PoppedFrame ==
    ASSUME NEW fs, WellFormed(fs), fs # <<>>
    PROVE  WellFormed(SubSeq(fs, 1, Len(fs) - 1))
  <1> DEFINE gs == SubSeq(fs, 1, Len(fs) - 1)
  <1>1. /\ gs \in Seq(Frame) /\ Len(gs) = Len(fs) - 1
        /\ Len(fs) \in Nat \ {0}
        /\ \A i \in 1 .. Len(gs) : gs[i] = fs[i]
    BY Popped DEF WellFormed
  <1>2. \A i \in 1 .. Len(fs) : FrameOK(fs, i)
    BY DEF WellFormed
  <1> HIDE DEF gs
  <1>3. ASSUME NEW i \in 1 .. Len(gs)
        PROVE  FrameOK(gs, i)
    <2>1. gs[i] = fs[i] /\ FrameOK(fs, i)
      BY <1>1, <1>2
    <2>2. i # 1 => gs[i - 1] = fs[i - 1]
      BY <1>1
    <2> QED
      BY <2>1, <2>2 DEF FrameOK
  <1> QED
    BY <1>1, <1>3 DEF WellFormed, gs
------------------------------------------------------------------------------
(* What an action does to the rest of the state.                           *)

\* The types of a state of IInv, and its stack when it is not empty.
LEMMA StackTypes ==
    ASSUME IInv
    PROVE  /\ frames \in Seq(Frame) /\ Len(frames) \in Nat
           /\ frames # <<>> => /\ Len(frames) \in Nat \ {0}
                              /\ Len(frames) \in 1 .. Len(frames)
                              /\ Top \in Frame
                              /\ Grammar[Top.rule] \in Seq(Alternative)
                              /\ Len(Alternatives) \in Nat
                              /\ Top.alt <= Len(Alternatives)
  <1>1. frames \in Seq(Frame) /\ Len(frames) \in Nat
    BY LenProperties DEF IInv, WellFormed
  <1>2. ASSUME frames # <<>>
        PROVE  Len(frames) \in Nat \ {0} /\ Len(frames) \in 1 .. Len(frames)
    BY <1>1, <1>2, EmptySeq
  <1>3. ASSUME frames # <<>>
        PROVE  /\ Top \in Frame /\ Grammar[Top.rule] \in Seq(Alternative)
               /\ Len(Alternatives) \in Nat /\ Top.alt <= Len(Alternatives)
    <2>1. Top \in Frame
      BY <1>1, <1>2, <1>3, ElementOfSeq DEF Top
    <2>2. Top.rule \in Rule
      BY <2>1 DEF Frame
    <2>3. Top.alt <= Len(Alternatives)
      BY <1>2, <1>3 DEF IInv, WellFormed, FrameOK, Top, Alternatives
    <2> QED
      BY <2>1, <2>2, <2>3, GrammarLists DEF Alternatives
  <1> QED
    BY <1>1, <1>2, <1>3

\* The element the parser is at.
LEMMA HereElement ==
    ASSUME IInv, NEW kind, AtElement(kind)
    PROVE  /\ Here \in Element /\ Here.kind = kind
           /\ Top.pos \in Nat \ {0} /\ Top.alt \in 1 .. Len(Alternatives)
  <1>1. /\ Top \in Frame /\ Len(Alternatives) \in Nat
        /\ Top.alt <= Len(Alternatives)
    BY StackTypes DEF AtElement
  <1>2. Top.rule \in Rule /\ Top.alt \in Nat /\ Top.pos \in Nat \ {0}
    BY <1>1 DEF Frame
  <1>3. Top.alt # 0 /\ Top.pos <= Len(Elements) /\ Here.kind = kind
    BY DEF AtElement, Here
  <1>4. Top.alt \in 1 .. Len(Alternatives)
    BY <1>1, <1>2, <1>3
  <1>5. Elements \in Seq(Element)
    BY <1>2, <1>4, GrammarLists DEF Elements, Alternatives
  <1>6. Len(Elements) \in Nat
    BY <1>5, LenProperties
  <1>7. Top.pos \in 1 .. Len(Elements)
    BY <1>2, <1>3, <1>6
  <1>8. Here \in Element
    BY <1>5, <1>7, ElementOfSeq DEF Here
  <1> QED
    BY <1>2, <1>3, <1>4, <1>8

\* Going to another element leaves the calls in progress as they are.
LEMMA Gone ==
    ASSUME IInv, NEW kind, AtElement(kind), NEW n \in Nat \ {0}, GoTo(n)
    PROVE  /\ WellFormed(frames') /\ frames' # <<>>
           /\ SameCalls(frames, frames')
  <1> DEFINE f == [frames[Len(frames)] EXCEPT !.pos = n]
  <1>1. frames # <<>> /\ WellFormed(frames)
    BY DEF AtElement, IInv
  <1>2. frames[Len(frames)] \in Frame
        /\ frames[Len(frames)].alt <= Len(Grammar[frames[Len(frames)].rule])
    BY <1>1, StackTypes DEF Top, Alternatives
  <1>3. /\ f \in Frame /\ f.rule = frames[Len(frames)].rule
        /\ f.how = frames[Len(frames)].how /\ f.mark = frames[Len(frames)].mark
        /\ f.alt = frames[Len(frames)].alt
    BY <1>2 DEF Frame
  <1>4. frames' = [frames EXCEPT ![Len(frames)] = f]
    BY DEF GoTo
  <1> HIDE DEF f
  <1> QED
    BY <1>1, <1>2, <1>3, <1>4, TopReplaced

\* Without backtracking no predicate is being tried.
LEMMA NoPredicates ==
    ASSUME IInv, backtracking = 0
    PROVE  \A i \in 1 .. Len(frames) : frames[i].how # "pred"
  <1>1. frames \in Seq(Frame) /\ Cardinality(HowOf(frames, "pred")) = 0
    BY DEF IInv, WellFormed, StacksOK
  <1>2. HowOf(frames, "pred") = {}
    BY <1>1, HowFinite, FS_EmptySet
  <1> QED
    BY <1>2 DEF HowOf

\* A step that keeps the calls in progress keeps the stacks, and the marks
\* when it reports nothing while a predicate is tried.
LEMMA CallsKept ==
    ASSUME IInv, SameCalls(frames, frames'),
           UNCHANGED <<input, following, backtracking>>,
           reports' = reports \/ backtracking = 0
    PROVE  StacksOK' /\ MarksOK'
  <1>1. \A how : HowOf(frames', how) = HowOf(frames, how)
    BY SameHows DEF SameCalls
  <1>2. StacksOK'
    BY <1>1 DEF IInv, StacksOK
  <1>3. ASSUME NEW i \in 1 .. Len(frames)
        PROVE  MarkOK(frames[i])'
    <2>1. frames'[i].how = frames[i].how /\ frames'[i].mark = frames[i].mark
      BY DEF SameCalls
    <2>2. MarkOK(frames[i])
      BY DEF IInv, MarksOK
    <2>3. CASE reports' = reports
      BY <2>1, <2>2, <2>3 DEF MarkOK
    <2>4. CASE backtracking = 0
      <3>1. frames[i].how # "pred"
        BY <2>4, NoPredicates
      <3> QED
        BY <2>1, <2>2, <3>1 DEF MarkOK
    <2> QED
      BY <2>3, <2>4
  <1>4. MarksOK'
    BY <1>3 DEF MarksOK, SameCalls
  <1> QED
    BY <1>2, <1>4

\* Further along in the file, not behind its end.
LEMMA PastEnd ==
    ASSUME IInv, NEW k \in Nat
    PROVE  Past(index, k) \in 0 .. Len(input) /\ index <= Past(index, k)
  <1>1. Len(input) \in Nat /\ index \in 0 .. Len(input)
    BY LenProperties DEF IInv, TypeOK, RecognizerTypeOK
  <1> QED
    BY <1>1 DEF Past

\* A report is typed, counted, and behind the ones before it.
LEMMA Reported ==
    ASSUME IInv, NEW exc \in Exception, reportError(exc, index)
    PROVE  /\ errorRecovery' \in BOOLEAN /\ errorCount' \in Nat
           /\ reports' \in Seq(Report)
           /\ errorCount' = Len(reports')
           /\ \A i, j \in 1 .. Len(reports') :
                 i <= j => reports'[i].at <= reports'[j].at
           /\ \A i \in 1 .. Len(reports') : reports'[i].at <= index
  <1>1. /\ errorRecovery \in BOOLEAN /\ errorCount \in Nat
        /\ reports \in Seq(Report) /\ index \in Nat
    BY LenProperties DEF IInv, TypeOK, RecognizerTypeOK
  <1>2. OrderOK
    BY DEF IInv
  <1>3. CASE errorRecovery
    BY <1>1, <1>2, <1>3 DEF reportError, OrderOK
  <1>4. CASE ~errorRecovery
    <2> DEFINE r == [type |-> exc.type, shown |-> exc.index, at |-> index]
               n == Len(reports)
    <2>1. r \in Report /\ r.at = index
      BY <1>1 DEF Report, Exception
    <2>2. /\ errorRecovery' = TRUE /\ errorCount' = errorCount + 1
          /\ reports' = Append(reports, r)
      BY <1>4 DEF reportError
    <2> HIDE DEF r
    <2>3. /\ reports' \in Seq(Report) /\ Len(reports') = n + 1
          /\ reports'[n + 1] = r /\ \A i \in 1 .. n : reports'[i] = reports[i]
      BY <1>1, <2>1, <2>2, AppendProperties
    <2>4. n \in Nat /\ \A i \in 1 .. n : reports[i].at \in Nat
      <3>1. \A i \in 1 .. n : reports[i] \in Report
        BY <1>1, ElementOfSeq
      <3> QED
        BY <1>1, <3>1, LenProperties DEF Report
    <2>5. \A i \in 1 .. n + 1 : i \in 1 .. n \/ i = n + 1
      BY <2>4
    <2>6. \A i \in 1 .. n + 1 : reports'[i].at <= index
      BY <1>1, <1>2, <2>1, <2>3, <2>5 DEF OrderOK
    <2>7. \A i, j \in 1 .. n + 1 : i <= j => reports'[i].at <= reports'[j].at
      BY <1>1, <1>2, <2>1, <2>3, <2>4, <2>5 DEF OrderOK
    <2> QED
      BY <1>1, <1>2, <2>2, <2>3, <2>6, <2>7 DEF OrderOK
  <1> QED
    BY <1>1, <1>3, <1>4
------------------------------------------------------------------------------
(* The steps of the recognizer.                                            *)

\* Prediction.
LEMMA PredictionKeeps ==
    ASSUME IInv, UNCHANGED <<driver, phase, count, walked>>,
           Predict \/ BeginSynpred \/ NoViableAlt
    PROVE  IInv'
  <1>1. /\ frames # <<>> /\ ~error /\ ~failed /\ Top.alt = 0
        /\ frames \in Seq(Frame) /\ Len(frames) \in 1 .. Len(frames)
        /\ Top \in Frame /\ Top = frames[Len(frames)]
        /\ Len(Alternatives) \in Nat
    BY StackTypes DEF Predict, BeginSynpred, NoViableAlt, Predicting, Top
  <1>2. ~resync
    BY <1>1 DEF IInv, FlagsOK
  <1>3. \A i \in Viable : i \in Nat \ {0} /\ i <= Len(Alternatives)
    BY <1>1 DEF Viable, Frame
  <1>4. /\ TypeOK /\ RecognizerTypeOK /\ WellFormed(frames) /\ OrderOK
        /\ MarksOK /\ FlagsOK /\ PhaseOK /\ StacksOK
    BY DEF IInv, TypeOK
  <1>5. CASE Predict
    <2>1. PICK i \in Viable : frames' = [frames EXCEPT ![Len(frames)].alt = i]
      BY <1>5 DEF Predict
    <2> DEFINE f == [frames[Len(frames)] EXCEPT !.alt = i]
    <2>2. frames' = [frames EXCEPT ![Len(frames)] = f]
      BY <2>1
    <2>3. /\ f \in Frame /\ f.rule = Top.rule /\ f.how = Top.how
          /\ f.mark = Top.mark /\ f.alt = i
      BY <1>1, <1>3 DEF Frame
    <2>4. f.alt <= Len(Grammar[f.rule])
      BY <1>3, <2>3 DEF Alternatives
    <2> HIDE DEF f
    <2>5. /\ WellFormed(frames') /\ frames' # <<>> /\ SameCalls(frames, frames')
      BY <1>1, <1>4, <2>2, <2>3, <2>4, TopReplaced
    <2>6. UNCHANGED <<input, index, following, errorRecovery, lastErrorIndex, failed,
              error, exception, errorCount, backtracking, resync, reports>>
      BY <1>5 DEF Predict
    <2>7. StacksOK' /\ MarksOK'
      BY <2>5, <2>6, CallsKept
    <2>8. TypeOK'
      BY <1>4, <2>5, <2>6 DEF TypeOK, RecognizerTypeOK, WellFormed
    <2>9. FlagsOK' /\ PhaseOK' /\ OrderOK'
      BY <1>1, <1>4, <2>6 DEF FlagsOK, PhaseOK, OrderOK
    <2> QED
      BY <2>5, <2>7, <2>8, <2>9 DEF IInv
  <1>6. CASE BeginSynpred
    <2>1. PICK i \in Viable :
            /\ Alternatives[i].pred # NoRule
            /\ frames' = Append([frames EXCEPT ![Len(frames)].try = i],
                                NewFrame(Alternatives[i].pred, "pred", index))
      BY <1>6 DEF BeginSynpred
    <2> DEFINE f  == [frames[Len(frames)] EXCEPT !.try = i]
               gs == [frames EXCEPT ![Len(frames)] = f]
               g  == NewFrame(Alternatives[i].pred, "pred", index)
    <2>2. /\ backtracking' = backtracking + 1
          /\ UNCHANGED <<input, index, following, errorRecovery, lastErrorIndex, failed,
                         error, exception, errorCount, resync, reports>>
      BY <1>6 DEF BeginSynpred
    <2>3. frames' = Append(gs, g)
      BY <2>1
    <2>4. /\ f \in Frame /\ f.rule = Top.rule /\ f.how = Top.how
          /\ f.mark = Top.mark /\ f.alt = 0 /\ f.try = i
      BY <1>1, <1>3 DEF Frame
    <2>5. f.alt <= Len(Grammar[f.rule]) /\ f.try <= Len(Grammar[f.rule])
      BY <1>1, <1>3, <2>4 DEF Alternatives
    <2>6. Alternatives[i].pred \in Rule
      <3>1. Alternatives[i] \in Alternative
        BY <1>1, <1>3, GrammarLists DEF Alternatives, Frame
      <3> QED
        BY <2>1, <3>1 DEF Alternative
    <2>7. index \in Nat /\ index <= Len(input) /\ Len(input) \in Nat
      BY <1>4, LenProperties DEF RecognizerTypeOK
    <2>8. g \in Frame /\ g.alt = 0 /\ g.how = "pred" /\ g.mark = index
      BY <2>6, <2>7 DEF NewFrame, Frame, How
    <2> HIDE DEF f, g
    <2>9. WellFormed(gs) /\ gs # <<>> /\ SameCalls(frames, gs)
      BY <1>1, <1>4, <2>4, <2>5, TopReplaced
    <2>10. gs \in Seq(Frame) /\ Len(gs) = Len(frames) /\ gs[Len(gs)] = f
      BY <1>1, <2>4, ExceptSeq
    <2> HIDE DEF gs
    <2>11. WellFormed(frames')
      BY <2>3, <2>4, <2>5, <2>8, <2>9, <2>10, PushedFrame
    <2>12. /\ frames' \in Seq(Frame) /\ Len(frames') = Len(frames) + 1
           /\ frames'[Len(frames) + 1] = g
           /\ \A j \in 1 .. Len(frames) : frames'[j] = gs[j]
      BY <2>3, <2>8, <2>10, AppendProperties
    <2>13. StacksOK'
      <3>1. \A how : HowOf(gs, how) = HowOf(frames, how)
        BY <2>9, SameHows DEF SameCalls
      <3>2. Cardinality(HowOf(frames', "pred")) = Cardinality(HowOf(frames, "pred")) + 1
        BY <2>3, <2>8, <2>10, <3>1, PushHow DEF Bit
      <3>3. Cardinality(HowOf(frames', "call")) = Cardinality(HowOf(frames, "call")) + 0
        <4>1. Bit(g.how = "call") = 0
          BY <2>8 DEF Bit
        <4> QED
          BY <2>3, <2>8, <2>10, <3>1, <4>1, PushHow
      <3>4. Cardinality(HowOf(frames, "call")) \in Nat
        BY <1>1, HowFinite
      <3> QED
        BY <1>4, <2>2, <3>2, <3>3, <3>4 DEF StacksOK
    <2>14. MarksOK'
      <3>1. /\ g.mark <= Len(input')
            /\ \A j \in 1 .. Len(reports') : reports'[j].at <= g.mark
        BY <1>4, <2>2, <2>7, <2>8 DEF OrderOK
      <3>2. ASSUME NEW j \in 1 .. Len(frames)
            PROVE  MarkOK(frames[j])'
        BY <1>4, <2>2, <2>9, <2>12 DEF MarkOK, MarksOK, SameCalls
      <3>3. ASSUME NEW j \in 1 .. Len(frames) + 1
            PROVE  MarkOK(frames[j])'
        <4>1. j \in 1 .. Len(frames) \/ j = Len(frames) + 1
          BY <1>1
        <4>2. CASE j \in 1 .. Len(frames)
          BY <3>2, <4>2
        <4>3. CASE j = Len(frames) + 1
          BY <2>12, <3>1, <4>3 DEF MarkOK
        <4> QED
          BY <4>1, <4>2, <4>3
      <3> QED
        BY <2>12, <3>3 DEF MarksOK
    <2>15. TypeOK'
      BY <1>4, <2>2, <2>12 DEF TypeOK, RecognizerTypeOK
    <2>16. FlagsOK' /\ OrderOK'
      BY <1>1, <1>4, <2>2 DEF FlagsOK, OrderOK, TypeOK, RecognizerTypeOK
    <2>17. PhaseOK'
      BY <1>1, <1>4 DEF PhaseOK
    <2> QED
      BY <2>11, <2>13, <2>14, <2>15, <2>16, <2>17 DEF IInv
  <1>7. CASE NoViableAlt
    <2>1. UNCHANGED <<input, index, frames, following, errorRecovery, lastErrorIndex,
                      errorCount, backtracking, resync, reports>>
      BY <1>7 DEF NoViableAlt
    <2>2. SameCalls(frames, frames')
      BY <2>1 DEF SameCalls
    <2>3. StacksOK' /\ MarksOK'
      BY <2>1, <2>2, CallsKept
    <2>4. index \in Nat /\ backtracking \in Nat
      BY <1>4, LenProperties DEF RecognizerTypeOK
    <2>5. NewException("no_viable_alt") \in Exception
      BY <2>4 DEF NewException, Exception, ErrorKind
    <2>6. \/ /\ backtracking > 0 /\ failed' = TRUE
             /\ UNCHANGED <<error, exception>>
          \/ /\ backtracking = 0 /\ failed' = failed /\ error' = TRUE
             /\ exception' \in Exception
      BY <1>7, <2>4, <2>5 DEF NoViableAlt
    <2>7. TypeOK'
      BY <1>4, <2>1, <2>6 DEF TypeOK, RecognizerTypeOK
    <2>8. FlagsOK' /\ PhaseOK' /\ OrderOK' /\ WellFormed(frames')
      BY <1>1, <1>2, <1>4, <2>1, <2>6 DEF FlagsOK, PhaseOK, OrderOK
    <2> QED
      BY <2>3, <2>7, <2>8 DEF IInv
  <1> QED
    BY <1>5, <1>6, <1>7

\* The parts of a state of IInv.
LEMMA Parts ==
    ASSUME IInv
    PROVE  /\ TypeOK /\ RecognizerTypeOK /\ WellFormed(frames) /\ OrderOK
           /\ MarksOK /\ FlagsOK /\ PhaseOK /\ StacksOK
           /\ Len(input) \in Nat /\ index \in Nat /\ backtracking \in Nat
           /\ frames \in Seq(Frame)
  BY LenProperties DEF IInv, TypeOK, RecognizerTypeOK

\* Matching a token, and failing to while a predicate is tried.
LEMMA MatchKeeps ==
    ASSUME IInv, UNCHANGED <<driver, phase, count, walked>>,
           MatchToken \/ MatchFails
    PROVE  IInv'
  <1>1. /\ AtElement("token") /\ frames # <<>> /\ ~error
    BY DEF MatchToken, MatchFails, AtElement
  <1>2. CASE MatchToken
    <2>1. /\ index' = Past(index, 1) /\ errorRecovery' = FALSE /\ failed' = FALSE
          /\ GoTo(Top.pos + 1)
          /\ UNCHANGED <<input, following, lastErrorIndex, error, exception,
                         errorCount, backtracking, resync, reports>>
      BY <1>2 DEF MatchToken
    <2>2. Top.pos + 1 \in Nat \ {0}
      BY <1>1, HereElement
    <2>3. WellFormed(frames') /\ frames' # <<>> /\ SameCalls(frames, frames')
      BY <1>1, <2>1, <2>2, Gone
    <2>4. StacksOK' /\ MarksOK'
      BY <2>1, <2>3, CallsKept
    <2>5. index' \in 0 .. Len(input) /\ index <= index'
      BY <2>1, PastEnd
    <2>6. TypeOK'
      BY <2>1, <2>3, <2>5, Parts DEF TypeOK, RecognizerTypeOK, WellFormed
    <2>7. FlagsOK' /\ PhaseOK'
      BY <1>1, <2>1, Parts DEF FlagsOK, PhaseOK
    <2>8. OrderOK'
      <3>1. \A i \in 1 .. Len(reports) : reports[i] \in Report
        BY Parts, ElementOfSeq DEF RecognizerTypeOK
      <3>2. \A i \in 1 .. Len(reports) : reports[i].at \in Nat
        BY <3>1 DEF Report
      <3>3. OrderOK /\ index \in Nat /\ index' \in Nat
        BY <2>5, Parts
      <3> QED
        BY <2>1, <2>5, <3>2, <3>3 DEF OrderOK
    <2> QED
      BY <2>3, <2>4, <2>6, <2>7, <2>8 DEF IInv
  <1>3. CASE MatchFails
    <2>1. /\ backtracking > 0 /\ failed' = TRUE
          /\ UNCHANGED <<input, index, frames, following, errorRecovery, lastErrorIndex,
                         error, exception, errorCount, backtracking, resync, reports>>
      BY <1>3 DEF MatchFails
    <2>2. StacksOK' /\ MarksOK'
      BY <2>1, CallsKept DEF SameCalls
    <2>3. TypeOK' /\ WellFormed(frames')
      BY <2>1, Parts DEF TypeOK, RecognizerTypeOK
    <2>4. FlagsOK' /\ PhaseOK' /\ OrderOK'
      BY <2>1, Parts DEF FlagsOK, PhaseOK, OrderOK
    <2> QED
      BY <2>2, <2>3, <2>4 DEF IInv
  <1> QED
    BY <1>2, <1>3

\* The exception of a mismatch.
LEMMA MismatchExceptionType ==
    ASSUME IInv
    PROVE  /\ MismatchException \in Exception
           /\ \A k \in ErrorKind : [MismatchException EXCEPT !.type = k] \in Exception
  <1>1. exception \in Exception \cup {NoException} /\ index \in Nat
    BY Parts DEF RecognizerTypeOK
  <1>2. NewException("mismatched") \in Exception
    BY <1>1 DEF NewException, Exception, ErrorKind
  <1>3. MismatchException \in Exception
    BY <1>1, <1>2 DEF MismatchException
  <1> QED
    BY <1>3 DEF Exception

\* A mismatched token is deleted, inserted, or thrown as an exception.
LEMMA MismatchKeeps ==
    ASSUME IInv, UNCHANGED <<driver, phase, count, walked>>,
           DeleteToken \/ InsertToken \/ MismatchedToken
    PROVE  IInv'
  <1>1. /\ AtElement("token") /\ frames # <<>> /\ ~error /\ ~failed
        /\ backtracking = 0
    BY DEF DeleteToken, InsertToken, MismatchedToken, Mismatch, AtElement
  <1>2. ~resync
    BY <1>1, Parts DEF FlagsOK
  <1>3. CASE DeleteToken \/ InsertToken
    <2>1. PICK k \in {"unwanted", "missing"} :
            exception' = [MismatchException EXCEPT !.type = k]
      BY <1>3 DEF DeleteToken, InsertToken
    <2>2. /\ index' \in {index, Past(index, 2)}
          /\ reportError(exception', index)
          /\ error' = FALSE /\ GoTo(Top.pos + 1)
          /\ UNCHANGED <<input, following, lastErrorIndex, failed, backtracking,
                         resync>>
      BY <1>3 DEF DeleteToken, InsertToken
    <2>3. exception' \in Exception
      BY <2>1, MismatchExceptionType DEF ErrorKind
    <2>4. Top.pos + 1 \in Nat \ {0}
      BY <1>1, HereElement
    <2>5. WellFormed(frames') /\ frames' # <<>> /\ SameCalls(frames, frames')
      BY <1>1, <2>2, <2>4, Gone
    <2>6. StacksOK' /\ MarksOK'
      BY <1>1, <2>2, <2>5, CallsKept
    <2>7. index' \in 0 .. Len(input) /\ index <= index'
      <3>1. Past(index, 2) \in 0 .. Len(input) /\ index <= Past(index, 2)
        BY PastEnd
      <3>2. index \in 0 .. Len(input) /\ index \in Nat
        BY Parts DEF RecognizerTypeOK
      <3> QED
        BY <2>2, <3>1, <3>2
    <2>8. /\ errorRecovery' \in BOOLEAN /\ errorCount' \in Nat
          /\ reports' \in Seq(Report)
          /\ errorCount' = Len(reports')
          /\ \A i, j \in 1 .. Len(reports') :
                i <= j => reports'[i].at <= reports'[j].at
          /\ \A i \in 1 .. Len(reports') : reports'[i].at <= index
      BY <2>2, <2>3, Reported
    <2>9. TypeOK'
      BY <2>2, <2>3, <2>5, <2>7, <2>8, Parts DEF TypeOK, RecognizerTypeOK, WellFormed
    <2>10. FlagsOK' /\ PhaseOK'
      BY <1>1, <1>2, <2>2, Parts DEF FlagsOK, PhaseOK
    <2>11. OrderOK'
      <3>1. \A i \in 1 .. Len(reports') : reports'[i] \in Report
        BY <2>8, ElementOfSeq
      <3>2. \A i \in 1 .. Len(reports') : reports'[i].at \in Nat
        BY <3>1 DEF Report
      <3>3. index \in Nat /\ index' \in Nat
        BY <2>7, Parts
      <3> QED
        BY <2>7, <2>8, <3>2, <3>3 DEF OrderOK
    <2> QED
      BY <2>5, <2>6, <2>9, <2>10, <2>11 DEF IInv
  <1>4. CASE MismatchedToken
    <2>1. /\ exception' = MismatchException /\ error' = TRUE
          /\ UNCHANGED <<input, index, frames, following, errorRecovery,
                         lastErrorIndex, failed, errorCount, backtracking, resync,
                         reports>>
      BY <1>4 DEF MismatchedToken
    <2>2. exception' \in Exception
      BY <2>1, MismatchExceptionType
    <2>3. StacksOK' /\ MarksOK'
      BY <2>1, CallsKept DEF SameCalls
    <2>4. TypeOK' /\ WellFormed(frames')
      BY <2>1, <2>2, Parts DEF TypeOK, RecognizerTypeOK
    <2>5. FlagsOK' /\ PhaseOK' /\ OrderOK'
      BY <1>1, <1>2, <2>1, <2>2, Parts DEF FlagsOK, PhaseOK, OrderOK
    <2> QED
      BY <2>3, <2>4, <2>5 DEF IInv
  <1> QED
    BY <1>3, <1>4

\* Blocks.
LEMMA BlocksKeep ==
    ASSUME IInv, UNCHANGED <<driver, phase, count, walked>>, Block \/ Again
    PROVE  IInv'
  <1>1. PICK kind \in {"block", "again"} : AtElement(kind)
    BY DEF Block, Again
  <1>2. UNCHANGED <<input, index, following, errorRecovery, lastErrorIndex, failed,
                    error, exception, errorCount, backtracking, resync, reports>>
    BY DEF Block, Again
  <1>3. Here \in Element /\ Here.kind = kind /\ Top.pos \in Nat \ {0}
    BY <1>1, HereElement
  <1>4. Here.to \in Nat \ {0}
    BY <1>1, <1>3 DEF Element
  <1>5. Top.pos + 1 \in Nat \ {0}
    BY <1>3
  <1>6. GoTo(Top.pos + 1) \/ GoTo(Here.to)
    BY DEF Block, Again
  <1>7. WellFormed(frames') /\ frames' # <<>> /\ SameCalls(frames, frames')
    BY <1>1, <1>4, <1>5, <1>6, Gone
  <1>8. StacksOK' /\ MarksOK'
    BY <1>2, <1>7, CallsKept
  <1>9. frames # <<>>
    BY <1>1 DEF AtElement
  <1>10. TypeOK'
    BY <1>2, <1>7, Parts DEF TypeOK, RecognizerTypeOK, WellFormed
  <1>11. FlagsOK' /\ PhaseOK' /\ OrderOK'
    BY <1>2, <1>9, Parts DEF FlagsOK, PhaseOK, OrderOK
  <1> QED
    BY <1>7, <1>8, <1>10, <1>11 DEF IInv

\* Calling a rule.
LEMMA CallKeeps ==
    ASSUME IInv, UNCHANGED <<driver, phase, count, walked>>, Call
    PROVE  IInv'
  <1> DEFINE f  == [frames[Len(frames)] EXCEPT !.pos = @ + 1]
             gs == [frames EXCEPT ![Len(frames)] = f]
             g  == NewFrame(Here.sym, "call", 0)
  <1>1. /\ AtElement("rule") /\ frames # <<>>
        /\ frames' = Append(gs, g)
        /\ following' = Append(following, Here.follow)
        /\ UNCHANGED <<input, index, errorRecovery, lastErrorIndex, failed, error,
                       exception, errorCount, backtracking, resync, reports>>
    BY DEF Call, AtElement
  <1>2. /\ frames \in Seq(Frame) /\ Len(frames) \in 1 .. Len(frames)
        /\ Len(frames) \in Nat \ {0} /\ Top \in Frame /\ Top = frames[Len(frames)]
        /\ Top.alt <= Len(Alternatives)
    BY <1>1, StackTypes DEF Top
  <1>3. /\ f \in Frame /\ f.rule = Top.rule /\ f.how = Top.how
        /\ f.mark = Top.mark /\ f.alt = Top.alt
    <2>1. frames[Len(frames)] \in Frame
      BY <1>2
    <2>2. \A n \in Nat \ {0} : n + 1 \in Nat \ {0}
      OBVIOUS
    <2>3. \A h \in Frame : [h EXCEPT !.pos = @ + 1] \in Frame
      BY <2>2 DEF Frame
    <2> QED
      BY <1>2, <2>1, <2>3 DEF Frame
  <1>4. Here.sym \in Rule /\ Here.follow \in Follow
    <2>1. Here \in Element /\ Here.kind = "rule"
      BY <1>1, HereElement
    <2>2. \A e \in Element : e.kind = "rule" => e.sym \in Rule /\ e.follow \in Follow
      BY DEF Element
    <2> QED
      BY <2>1, <2>2
  <1>5. g \in Frame /\ g.alt = 0 /\ g.how = "call" /\ g.mark = 0
    BY <1>4 DEF NewFrame, Frame, How
  <1> HIDE DEF f, g
  <1>6. WellFormed(gs) /\ gs # <<>> /\ SameCalls(frames, gs)
    <2>1. f.alt <= Len(Grammar[f.rule])
      BY <1>2, <1>3 DEF Alternatives
    <2>2. WellFormed(frames)
      BY Parts
    <2> QED
      BY <1>1, <1>2, <1>3, <2>1, <2>2, TopReplaced
  <1>7. gs \in Seq(Frame) /\ Len(gs) = Len(frames)
    BY <1>2, <1>3, ExceptSeq
  <1> HIDE DEF gs
  <1>8. WellFormed(frames')
    BY <1>1, <1>5, <1>6, PushedFrame
  <1>9. /\ frames' \in Seq(Frame) /\ Len(frames') = Len(frames) + 1
        /\ frames'[Len(frames) + 1] = g
        /\ \A j \in 1 .. Len(frames) : frames'[j] = gs[j]
    BY <1>1, <1>5, <1>7, AppendProperties
  <1>10. following \in Seq(Follow)
    BY Parts DEF RecognizerTypeOK
  <1>11. following' \in Seq(Follow) /\ Len(following') = Len(following) + 1
    BY <1>1, <1>4, <1>10, AppendProperties
  <1>12. StacksOK'
    <2>1. \A how : HowOf(gs, how) = HowOf(frames, how)
      BY <1>6, SameHows DEF SameCalls
    <2>2. Bit(g.how = "call") = 1 /\ Bit(g.how = "pred") = 0
      BY <1>5 DEF Bit
    <2>3. \A how : Cardinality(HowOf(frames', how))
                     = Cardinality(HowOf(frames, how)) + Bit(g.how = how)
      BY <1>1, <1>5, <1>7, <2>1, PushHow
    <2>4. Cardinality(HowOf(frames, "pred")) \in Nat
      BY <1>2, HowFinite
    <2>5. StacksOK
      BY Parts
    <2> QED
      BY <1>1, <1>11, <2>2, <2>3, <2>4, <2>5 DEF StacksOK
  <1>13. MarksOK'
    <2>1. g.mark <= Len(input') /\ g.how # "pred"
      BY <1>1, <1>5, Parts
    <2>2. ASSUME NEW j \in 1 .. Len(frames)
          PROVE  MarkOK(frames[j])'
      BY <1>1, <1>6, <1>9, Parts DEF MarkOK, MarksOK, SameCalls
    <2>3. ASSUME NEW j \in 1 .. Len(frames) + 1
          PROVE  MarkOK(frames[j])'
      <3>1. j \in 1 .. Len(frames) \/ j = Len(frames) + 1
        BY <1>2
      <3>2. CASE j \in 1 .. Len(frames)
        BY <2>2, <3>2
      <3>3. CASE j = Len(frames) + 1
        BY <1>9, <2>1, <3>3 DEF MarkOK
      <3> QED
        BY <3>1, <3>2, <3>3
    <2> QED
      BY <1>9, <2>3 DEF MarksOK
  <1>14. TypeOK'
    BY <1>1, <1>9, <1>11, Parts DEF TypeOK, RecognizerTypeOK
  <1>15. FlagsOK' /\ PhaseOK' /\ OrderOK'
    BY <1>1, Parts DEF FlagsOK, PhaseOK, OrderOK
  <1> QED
    BY <1>8, <1>12, <1>13, <1>14, <1>15 DEF IInv

\* The frame on top goes.
LEMMA BelowCounts ==
    ASSUME IInv, frames # <<>>
    PROVE  /\ WellFormed(Below) /\ Below \in Seq(Frame)
           /\ Len(Below) = Len(frames) - 1
           /\ \A i \in 1 .. Len(Below) : Below[i] = frames[i]
           /\ \A i \in 1 .. Len(Below) : i \in 1 .. Len(frames)
           /\ \A how : /\ Cardinality(HowOf(frames, how))
                           = Cardinality(HowOf(Below, how)) + Bit(Top.how = how)
                       /\ Cardinality(HowOf(Below, how)) \in Nat
  <1>1. frames \in Seq(Frame) /\ WellFormed(frames)
    BY Parts
  <1>2. /\ Below \in Seq(Frame) /\ Len(Below) = Len(frames) - 1
        /\ Len(frames) \in Nat \ {0}
        /\ \A i \in 1 .. Len(Below) : Below[i] = frames[i]
    BY <1>1, Popped DEF Below
  <1>3. WellFormed(Below)
    BY <1>1, PoppedFrame DEF Below
  <1>4. ASSUME NEW how
        PROVE  /\ Cardinality(HowOf(frames, how))
                    = Cardinality(HowOf(Below, how)) + Bit(Top.how = how)
               /\ Cardinality(HowOf(Below, how)) \in Nat
    BY <1>1, <1>2, PopHow, HowFinite DEF Below, Top
  <1>5. \A i \in 1 .. Len(Below) : i \in 1 .. Len(frames)
    BY <1>2
  <1> QED
    BY <1>2, <1>3, <1>4, <1>5

\* The frames below the top one keep their marks.
LEMMA BelowMarks ==
    ASSUME IInv, frames # <<>>, NEW fs, SameCalls(Below, fs), frames' = fs,
           UNCHANGED <<input, reports>>
    PROVE  MarksOK'
  <1>1. \A i \in 1 .. Len(Below) : i \in 1 .. Len(frames) /\ Below[i] = frames[i]
    BY BelowCounts
  <1>2. MarksOK
    BY Parts
  <1>3. ASSUME NEW i \in 1 .. Len(Below)
        PROVE  MarkOK(frames[i])'
    <2>1. MarkOK(frames[i])
      BY <1>1, <1>2 DEF MarksOK
    <2>2. frames'[i].how = frames[i].how /\ frames'[i].mark = frames[i].mark
      BY <1>1 DEF SameCalls
    <2> QED
      BY <2>1, <2>2 DEF MarkOK
  <1> QED
    BY <1>3 DEF MarksOK, SameCalls

\* A rule's function returns.
LEMMA Left ==
    ASSUME IInv, frames # <<>>, Top.how # "pred", Leave,
           UNCHANGED <<input, backtracking, reports>>
    PROVE  /\ WellFormed(frames') /\ following' \in Seq(Follow)
           /\ StacksOK' /\ MarksOK'
  <1>1. frames' = Below /\ WellFormed(Below)
    BY BelowCounts DEF Leave
  <1>2. SameCalls(Below, Below)
    BY DEF SameCalls
  <1>3. MarksOK'
    BY <1>1, <1>2, BelowMarks
  <1>4. following \in Seq(Follow) /\ Len(following) \in Nat /\ StacksOK
    BY Parts, LenProperties DEF RecognizerTypeOK
  <1>5. \A how : /\ Cardinality(HowOf(frames, how))
                    = Cardinality(HowOf(Below, how)) + Bit(Top.how = how)
                /\ Cardinality(HowOf(Below, how)) \in Nat
    BY BelowCounts
  <1>6. Bit(Top.how = "pred") = 0
    BY DEF Bit
  <1>7. Cardinality(HowOf(frames', "pred")) = Cardinality(HowOf(frames, "pred"))
    BY <1>1, <1>5, <1>6
  <1>8. CASE Top.how = "call"
    <2> DEFINE n == Len(following)
               gs == SubSeq(following, 1, n - 1)
    <2>1. following' = gs
      BY <1>8 DEF Leave
    <2>2. Bit(Top.how = "call") = 1
      BY <1>8 DEF Bit
    <2>3. n \in Nat \ {0} /\ Cardinality(HowOf(Below, "call")) = n - 1
      BY <1>4, <1>5, <2>2 DEF StacksOK
    <2>4. \A i \in 1 .. n : following[i] \in Follow
      BY <1>4, ElementOfSeq
    <2>5. \A i \in 1 .. n - 1 : following[i] \in Follow
      BY <2>3, <2>4
    <2>6. /\ gs \in Seq(Follow)
          /\ Len(gs) = IF 1 <= n - 1 THEN n - 1 - 1 + 1 ELSE 0
      BY <2>3, <2>5, SubSeqProperties
    <2> HIDE DEF gs, n
    <2>7. Len(gs) = n - 1
      BY <2>3, <2>6
    <2>8. Len(following') = Cardinality(HowOf(frames', "call"))
      BY <1>1, <2>1, <2>3, <2>7
    <2>9. StacksOK'
      BY <1>4, <1>7, <2>8 DEF StacksOK
    <2> QED
      BY <1>1, <1>3, <2>1, <2>6, <2>9
  <1>9. CASE Top.how # "call"
    <2>1. following' = following
      BY <1>9 DEF Leave
    <2>2. Bit(Top.how = "call") = 0
      BY <1>9 DEF Bit
    <2>3. Cardinality(HowOf(frames', "call")) = Cardinality(HowOf(frames, "call"))
      BY <1>1, <1>5, <2>2
    <2>4. StacksOK'
      BY <1>4, <1>7, <2>1, <2>3 DEF StacksOK
    <2> QED
      BY <1>1, <1>3, <1>4, <2>1, <2>4
  <1> QED
    BY <1>8, <1>9

LEMMA ReturnKeeps ==
    ASSUME IInv, UNCHANGED <<driver, phase, count, walked>>, Return
    PROVE  IInv'
  <1>1. /\ frames # <<>> /\ Top.how # "pred" /\ Leave
        /\ UNCHANGED <<input, index, errorRecovery, lastErrorIndex, failed, error,
                       exception, errorCount, backtracking, resync, reports>>
    BY DEF Return, AtEnd
  <1>2. WellFormed(frames') /\ following' \in Seq(Follow) /\ StacksOK' /\ MarksOK'
    BY <1>1, Left
  <1>3. TypeOK'
    BY <1>1, <1>2, Parts DEF TypeOK, RecognizerTypeOK, WellFormed
  <1>4. FlagsOK' /\ PhaseOK' /\ OrderOK'
    BY <1>1, Parts DEF FlagsOK, PhaseOK, OrderOK
  <1> QED
    BY <1>2, <1>3, <1>4 DEF IInv

\* A predicate has been tried: the stream is rewound to its mark.
LEMMA EndSynpredKeeps ==
    ASSUME IInv, UNCHANGED <<driver, phase, count, walked>>, EndSynpred
    PROVE  IInv'
  <1> DEFINE n == Len(Below)
             f == IF failed THEN [Below[n] EXCEPT !.try = @ + 1]
                            ELSE [Below[n] EXCEPT !.alt = Below[n].try]
             gs == [Below EXCEPT ![Len(Below)] = f]
  <1>1. /\ frames # <<>> /\ Top.how = "pred" /\ ~error
        /\ index' = Top.mark /\ backtracking' = backtracking - 1 /\ failed' = FALSE
        /\ UNCHANGED <<input, following, errorRecovery, lastErrorIndex, error,
                       exception, errorCount, resync, reports>>
    BY DEF EndSynpred, AtEnd
  <1>2. frames' = gs
    BY DEF EndSynpred, Decided
  <1>3. /\ Len(frames) \in Nat \ {0} /\ Len(frames) \in 1 .. Len(frames)
        /\ Top \in Frame /\ Top = frames[Len(frames)]
    BY <1>1, StackTypes DEF Top
  <1>4. /\ WellFormed(Below) /\ Below \in Seq(Frame) /\ n = Len(frames) - 1
        /\ \A i \in 1 .. n : Below[i] = frames[i]
    BY <1>1, BelowCounts
  <1>5. FrameOK(frames, Len(frames))
    BY <1>3, Parts DEF WellFormed
  <1>6. Len(frames) # 1
    BY <1>1, <1>3, <1>5 DEF FrameOK
  <1>7. n \in 1 .. n /\ n \in Nat \ {0} /\ Below # <<>>
    <2>1. n \in 1 .. n /\ n \in Nat \ {0}
      BY <1>3, <1>4, <1>6
    <2> QED
      BY <1>4, <2>1, EmptySeq
  <1>8. Below[n] = frames[Len(frames) - 1]
    BY <1>4, <1>7
  <1>9. Below[n].alt = 0 /\ Below[n].try <= Len(Grammar[Below[n].rule])
    BY <1>1, <1>3, <1>5, <1>8 DEF FrameOK
  <1>10. Below[n] \in Frame
    BY <1>4, <1>7, ElementOfSeq
  <1>11. /\ f \in Frame /\ f.rule = Below[n].rule /\ f.how = Below[n].how
         /\ f.mark = Below[n].mark /\ f.alt <= Len(Grammar[f.rule])
    <2>1. \A k \in Nat \ {0} : k + 1 \in Nat \ {0} /\ k \in Nat
      OBVIOUS
    <2>2. \A h \in Frame : /\ [h EXCEPT !.try = @ + 1] \in Frame
                          /\ [h EXCEPT !.alt = h.try] \in Frame
      BY <2>1 DEF Frame
    <2>3. f \in Frame
      BY <1>10, <2>2
    <2>4. /\ f.rule = Below[n].rule /\ f.how = Below[n].how
          /\ f.mark = Below[n].mark /\ f.alt \in {Below[n].alt, Below[n].try}
      BY <1>10 DEF Frame
    <2>5. Len(Grammar[Below[n].rule]) \in Nat
      BY <1>10, GrammarLists DEF Frame
    <2> QED
      BY <1>9, <2>3, <2>4, <2>5
  <1> HIDE DEF f
  <1>12. WellFormed(gs) /\ gs # <<>> /\ SameCalls(Below, gs)
    BY <1>4, <1>7, <1>11, TopReplaced
  <1> HIDE DEF gs
  <1>13. MarksOK'
    BY <1>1, <1>2, <1>12, BelowMarks
  <1>14. StacksOK'
    <2>1. \A how : /\ Cardinality(HowOf(frames, how))
                      = Cardinality(HowOf(Below, how)) + Bit(Top.how = how)
                  /\ Cardinality(HowOf(Below, how)) \in Nat
      BY <1>1, BelowCounts
    <2>2. \A how : HowOf(frames', how) = HowOf(Below, how)
      BY <1>2, <1>12, SameHows DEF SameCalls
    <2>3. Bit(Top.how = "call") = 0 /\ Bit(Top.how = "pred") = 1
      BY <1>1 DEF Bit
    <2>4. StacksOK /\ backtracking \in Nat
      BY Parts
    <2> QED
      BY <1>1, <2>1, <2>2, <2>3, <2>4 DEF StacksOK
  <1>15. MarkOK(Top) /\ Top.mark \in Nat
    BY <1>3, Parts DEF MarksOK, Frame
  <1>16. index' \in 0 .. Len(input) /\ backtracking' \in Nat
    <2>1. backtracking' \in Nat
      <3>1. backtracking' = Cardinality(HowOf(frames', "pred"))
        BY <1>14 DEF StacksOK
      <3>2. frames' \in Seq(Frame)
        BY <1>2, <1>12 DEF WellFormed
      <3> QED
        BY <3>1, <3>2, HowFinite
    <2> QED
      BY <1>1, <1>15, <2>1, Parts DEF MarkOK
  <1>17. TypeOK'
    BY <1>1, <1>2, <1>12, <1>16, Parts DEF TypeOK, RecognizerTypeOK, WellFormed
  <1>18. FlagsOK' /\ PhaseOK'
    BY <1>1, Parts DEF FlagsOK, PhaseOK
  <1>19. OrderOK'
    BY <1>1, <1>15, Parts DEF OrderOK, MarkOK
  <1> QED
    BY <1>2, <1>12, <1>13, <1>14, <1>17, <1>18, <1>19 DEF IInv

\* recover stays inside the file.
LEMMA RecoverMoves ==
    ASSUME IInv, recover
    PROVE  /\ index' \in 0 .. Len(input) /\ index <= index'
           /\ lastErrorIndex' \in Nat /\ resync' = TRUE
  <1>1. index \in 0 .. Len(input) /\ Len(input) \in Nat
    BY Parts DEF RecognizerTypeOK
  <1>2. Past(index, 1) \in 0 .. Len(input) /\ index <= Past(index, 1)
    BY PastEnd
  <1> QED
    BY <1>1, <1>2 DEF recover

\* What is reported in an exception handler, of a rule or of the start rule.
LEMMA HandlerKeeps ==
    ASSUME IInv, error, ~resync, reportError(exception, index), recover,
           UNCHANGED <<input, frames, following, failed, error, exception,
                       backtracking, driver, phase, count, walked>>
    PROVE  IInv'
  <1>1. exception \in Exception /\ backtracking = 0
    BY Parts DEF FlagsOK
  <1>2. /\ errorRecovery' \in BOOLEAN /\ errorCount' \in Nat
        /\ reports' \in Seq(Report)
        /\ errorCount' = Len(reports')
        /\ \A i, j \in 1 .. Len(reports') : i <= j => reports'[i].at <= reports'[j].at
        /\ \A i \in 1 .. Len(reports') : reports'[i].at <= index
    BY <1>1, Reported
  <1>3. /\ index' \in 0 .. Len(input) /\ index <= index'
        /\ lastErrorIndex' \in Nat /\ resync' = TRUE
    BY RecoverMoves
  <1>4. StacksOK' /\ MarksOK'
    BY <1>1, CallsKept DEF SameCalls
  <1>5. TypeOK' /\ WellFormed(frames')
    BY <1>2, <1>3, Parts DEF TypeOK, RecognizerTypeOK
  <1>6. FlagsOK' /\ PhaseOK'
    BY <1>3, Parts DEF FlagsOK, PhaseOK
  <1>7. OrderOK'
    <2>1. \A i \in 1 .. Len(reports') : reports'[i] \in Report
      BY <1>2, ElementOfSeq
    <2>2. \A i \in 1 .. Len(reports') : reports'[i].at \in Nat
      BY <2>1 DEF Report
    <2>3. index \in Nat /\ index' \in Nat
      BY <1>3, Parts
    <2> QED
      BY <1>2, <1>3, <2>2, <2>3 DEF OrderOK
  <1> QED
    BY <1>4, <1>5, <1>6, <1>7 DEF IInv

LEMMA RuleExKeeps ==
    ASSUME IInv, UNCHANGED <<driver, phase, count, walked>>, RuleEx
    PROVE  IInv'
  BY HandlerKeeps DEF RuleEx

LEMMA ConsumeKeeps ==
    ASSUME IInv, UNCHANGED <<driver, phase, count, walked>>, ConsumeUntilSet
    PROVE  IInv'
  <1>1. /\ index' = Past(index, 1)
        /\ UNCHANGED <<input, frames, following, errorRecovery, lastErrorIndex, failed,
                       error, exception, errorCount, backtracking, resync, reports>>
    BY DEF ConsumeUntilSet
  <1>2. index' \in 0 .. Len(input) /\ index <= index'
    BY <1>1, PastEnd
  <1>3. StacksOK' /\ MarksOK'
    BY <1>1, CallsKept DEF SameCalls
  <1>4. TypeOK' /\ WellFormed(frames')
    BY <1>1, <1>2, Parts DEF TypeOK, RecognizerTypeOK
  <1>5. FlagsOK' /\ PhaseOK'
    BY <1>1, Parts DEF FlagsOK, PhaseOK
  <1>6. OrderOK'
    <2>1. \A i \in 1 .. Len(reports) : reports[i] \in Report
      BY Parts, ElementOfSeq DEF RecognizerTypeOK
    <2>2. \A i \in 1 .. Len(reports) : reports[i].at \in Nat
      BY <2>1 DEF Report
    <2>3. OrderOK /\ index \in Nat /\ index' \in Nat
      BY <1>2, Parts
    <2> QED
      BY <1>1, <1>2, <2>2, <2>3 DEF OrderOK
  <1> QED
    BY <1>3, <1>4, <1>5, <1>6 DEF IInv

LEMMA EndRuleExKeeps ==
    ASSUME IInv, UNCHANGED <<driver, phase, count, walked>>, EndRuleEx
    PROVE  IInv'
  <1>1. /\ frames # <<>> /\ resync /\ Leave
        /\ resync' = FALSE /\ error' = FALSE /\ failed' = FALSE
        /\ UNCHANGED <<input, index, errorRecovery, lastErrorIndex, exception,
                       errorCount, backtracking, reports>>
    BY DEF EndRuleEx, Recovered
  <1>2. backtracking = 0
    BY <1>1, Parts DEF FlagsOK
  <1>3. Top.how # "pred"
    BY <1>1, <1>2, NoPredicates, StackTypes DEF Top
  <1>4. WellFormed(frames') /\ following' \in Seq(Follow) /\ StacksOK' /\ MarksOK'
    BY <1>1, <1>3, Left
  <1>5. TypeOK'
    BY <1>1, <1>4, Parts DEF TypeOK, RecognizerTypeOK, WellFormed
  <1>6. FlagsOK' /\ PhaseOK' /\ OrderOK'
    BY <1>1, Parts DEF FlagsOK, PhaseOK, OrderOK
  <1> QED
    BY <1>4, <1>5, <1>6 DEF IInv
------------------------------------------------------------------------------
(* The steps of the programs.                                              *)

LEMMA InitHolds == Init => IInv
  <1> SUFFICES ASSUME Init PROVE IInv
    OBVIOUS
  <1>1. /\ index = 0 /\ frames = <<>> /\ following = <<>>
        /\ errorRecovery = FALSE /\ lastErrorIndex = -1
        /\ failed = FALSE /\ error = FALSE /\ exception = NoException
        /\ errorCount = 0 /\ backtracking = 0
        /\ resync = FALSE /\ reports = <<>>
        /\ driver \in Drivers /\ input \in File[driver]
        /\ phase = "choose" /\ count = 0 /\ walked = FALSE
    BY DEF Init, InitRecognizer
  <1>2. input \in Seq(Token) /\ Len(input) \in Nat
    BY <1>1, FileAssumption, LenProperties
  <1>3. /\ <<>> \in Seq(Frame) /\ <<>> \in Seq(Follow) /\ <<>> \in Seq(Report)
        /\ Len(<<>>) = 0
    OBVIOUS
  <1>4. TypeOK
    <2>1. /\ input \in Seq(Token) /\ index \in 0 .. Len(input)
          /\ lastErrorIndex \in Nat \cup {-1} /\ errorCount \in Nat
          /\ backtracking \in Nat /\ count \in Nat
      BY <1>1, <1>2
    <2>2. /\ frames \in Seq(Frame) /\ following \in Seq(Follow)
          /\ reports \in Seq(Report)
      BY <1>1, <1>3
    <2>3. /\ errorRecovery \in BOOLEAN /\ failed \in BOOLEAN /\ error \in BOOLEAN
          /\ resync \in BOOLEAN /\ walked \in BOOLEAN
          /\ exception \in Exception \cup {NoException}
      BY <1>1
    <2> QED
      BY <1>1, <2>1, <2>2, <2>3 DEF TypeOK, RecognizerTypeOK
  <1>5. \A how : Cardinality(HowOf(frames, how)) = 0
    <2>1. \A how : HowOf(frames, how) = {}
      BY <1>1, <1>3 DEF HowOf
    <2> QED
      BY <2>1, FS_EmptySet
  <1>6. StacksOK
    BY <1>1, <1>3, <1>5 DEF StacksOK
  <1>7. WellFormed(frames) /\ MarksOK /\ FlagsOK /\ PhaseOK /\ OrderOK
    BY <1>1, <1>3 DEF WellFormed, MarksOK, FlagsOK, PhaseOK, OrderOK
  <1> QED
    BY <1>4, <1>6, <1>7 DEF IInv

\* The call of the rule of a program unit.
LEMMA ParseUnitKeeps ==
    ASSUME IInv, ParseUnit
    PROVE  IInv'
  <1>1. PICK u \in DOMAIN UnitRule : Start(UnitRule[u])
    BY DEF ParseUnit
  <1> DEFINE f == NewFrame(UnitRule[u], "start", 0)
  <1>2. /\ frames' = <<f>> /\ phase = "choose" /\ phase' = "unit"
        /\ UNCHANGED <<input, index, following, errorRecovery, lastErrorIndex, failed,
                       error, exception, errorCount, backtracking, resync, reports,
                       driver, count, walked>>
    BY <1>1 DEF ParseUnit, Start
  <1>3. UnitRule[u] \in Rule
    BY UnitRuleAssumption
  <1>4. f \in Frame /\ f.alt = 0 /\ f.how = "start" /\ f.mark = 0
    BY <1>3 DEF NewFrame, Frame, How
  <1>5. Len(Grammar[f.rule]) \in Nat
    BY <1>4, GrammarLists DEF Frame
  <1> HIDE DEF f
  <1>6. /\ frames' \in Seq(Frame) /\ Len(frames') = 1 /\ frames'[1] = f
    BY <1>2, <1>4
  <1>7. WellFormed(frames')
    BY <1>4, <1>5, <1>6 DEF WellFormed, FrameOK
  <1>8. MarksOK'
    BY <1>2, <1>4, <1>6, Parts DEF MarksOK, MarkOK
  <1>9. frames = <<>>
    BY <1>2, Parts DEF PhaseOK
  <1>10. StacksOK'
    <2>1. HowOf(frames, "call") = {} /\ HowOf(frames, "pred") = {}
      BY <1>9 DEF HowOf
    <2>2. HowOf(frames', "call") = {} /\ HowOf(frames', "pred") = {}
      BY <1>4, <1>6 DEF HowOf
    <2> QED
      BY <1>2, <2>1, <2>2, Parts DEF StacksOK
  <1>11. TypeOK'
    BY <1>2, <1>6, Parts DEF TypeOK, RecognizerTypeOK
  <1>12. FlagsOK' /\ PhaseOK' /\ OrderOK'
    BY <1>2, Parts DEF FlagsOK, PhaseOK, OrderOK
  <1> QED
    BY <1>7, <1>8, <1>10, <1>11, <1>12 DEF IInv

\* The other steps of the programs leave the stacks alone.
LEMMA DriverKeeps ==
    ASSUME IInv, UnitParsed \/ Finished \/ EarlyExit \/ EndProgramEx \/ WalkTree
    PROVE  IInv'
  <1>1. /\ frames = <<>>
        /\ UNCHANGED <<input, index, frames, following, errorRecovery, lastErrorIndex,
                       errorCount, backtracking, reports, driver>>
    BY Parts DEF UnitParsed, Finished, AtEOF, EarlyExit, EndProgramEx, WalkTree,
                 PhaseOK, rvars
  <1>2. /\ phase' \in {"choose", "ex", "end", "done"}
        /\ count' \in Nat /\ walked' \in BOOLEAN
    <2>1. phase \in {"choose", "unit", "ex", "end", "done"} /\ count \in Nat
          /\ walked \in BOOLEAN
      BY Parts DEF TypeOK
    <2>2. CASE UnitParsed \/ Finished
      BY <2>1, <2>2 DEF UnitParsed, Finished, AtEOF, rvars
    <2>3. CASE EarlyExit \/ EndProgramEx
      BY <2>1, <2>3 DEF EarlyExit, EndProgramEx
    <2>4. CASE WalkTree
      BY <2>1, <2>4, (errorCount = 0) \in BOOLEAN DEF WalkTree
    <2> QED
      BY <2>2, <2>3, <2>4
  <1>3. backtracking = 0
    <2>1. HowOf(frames, "pred") = {}
      BY <1>1 DEF HowOf
    <2> QED
      BY <2>1, FS_EmptySet, Parts DEF StacksOK
  <1>4. NewException("early_exit") \in Exception
    BY Parts DEF NewException, Exception, ErrorKind
  <1>5. /\ error' \in BOOLEAN /\ failed' \in BOOLEAN /\ resync' \in BOOLEAN
        /\ exception' \in Exception \cup {NoException}
        /\ FlagsOK'
    <2>1. ~failed
      BY <1>3, Parts DEF FlagsOK
    <2>2. CASE UnitParsed \/ Finished \/ WalkTree
      BY <2>2, Parts DEF UnitParsed, Finished, WalkTree, rvars, FlagsOK,
                         RecognizerTypeOK
    <2>3. CASE EarlyExit
      BY <1>1, <1>3, <1>4, <2>1, <2>3, Parts DEF EarlyExit, FlagsOK, RecognizerTypeOK
    <2>4. CASE EndProgramEx
      BY <2>4, Parts DEF EndProgramEx, Recovered, FlagsOK, RecognizerTypeOK
    <2> QED
      BY <2>2, <2>3, <2>4
  <1>6. TypeOK'
    BY <1>1, <1>2, <1>5, Parts DEF TypeOK, RecognizerTypeOK
  <1>7. StacksOK' /\ MarksOK'
    BY <1>1, CallsKept DEF SameCalls
  <1>8. PhaseOK' /\ OrderOK' /\ WellFormed(frames')
    BY <1>1, Parts DEF PhaseOK, OrderOK
  <1> QED
    BY <1>5, <1>6, <1>7, <1>8 DEF IInv

\* Every step keeps the invariant.
LEMMA NextKeeps == IInv /\ [Next]_vars => IInv'
  <1> SUFFICES ASSUME IInv, [Next]_vars PROVE IInv'
    OBVIOUS
  <1>1. CASE UNCHANGED vars
    <2>1. UNCHANGED <<input, index, frames, following, errorRecovery, lastErrorIndex,
                      failed, error, exception, errorCount, backtracking, resync,
                      reports, driver, phase, count, walked>>
      BY <1>1 DEF vars, rvars
    <2>2. StacksOK' /\ MarksOK'
      BY <2>1, CallsKept DEF SameCalls
    <2> QED
      BY <2>1, <2>2, Parts DEF IInv, TypeOK, RecognizerTypeOK, FlagsOK, PhaseOK, OrderOK
  <1>2. CASE ParserStep
    <2>1. UNCHANGED <<driver, phase, count, walked>> /\ NextRecognizer
      BY <1>2 DEF ParserStep
    <2> QED
      BY <2>1, PredictionKeeps, EndSynpredKeeps, MatchKeeps, MismatchKeeps, BlocksKeep,
         CallKeeps, ReturnKeeps, RuleExKeeps, ConsumeKeeps, EndRuleExKeeps
         DEF NextRecognizer
  <1>3. CASE ProgramEx
    BY <1>3, HandlerKeeps DEF ProgramEx
  <1>4. CASE ParseUnit
    BY <1>4, ParseUnitKeeps
  <1>5. CASE UnitParsed \/ Finished \/ EarlyExit \/ EndProgramEx \/ WalkTree
    BY <1>5, DriverKeeps
  <1>6. Next \/ UNCHANGED vars
    OBVIOUS
  <1> QED
    BY <1>1, <1>2, <1>3, <1>4, <1>5, <1>6 DEF Next, Terminating

THEOREM Invariance == Spec => []IInv
  BY InitHolds, NextKeeps, PTL DEF Spec
------------------------------------------------------------------------------
(* What the invariant says of the program.                                 *)

\* The C parser is type correct and never leaves the token stream, for every
\* grammar, program and file (CParser.TypeOK).
THEOREM TypeCorrect == Spec => []TypeOK
  <1>1. IInv => TypeOK
    BY DEF IInv
  <1> QED
    BY <1>1, Invariance, PTL

\* The stack of follow sets and the backtracking level match the calls in
\* progress, whichever way the rules above were left
\* (Recognizer.StacksMatchCalls).
THEOREM StacksMatch == Spec => []StacksMatchCalls
  <1>1. IInv => StacksMatchCalls
    <2> SUFFICES ASSUME IInv PROVE StacksMatchCalls
      OBVIOUS
    <2>1. DOMAIN frames = 1 .. Len(frames)
      BY Parts, LenProperties
    <2>2. \A how : FramesOf(how) = HowOf(frames, how)
      BY <2>1 DEF FramesOf, HowOf
    <2> QED
      BY <2>2, Parts DEF StacksOK, StacksMatchCalls
  <1> QED
    BY <1>1, Invariance, PTL

\* Errors are counted once each and reported in the order of the file, no
\* predicate going back in front of one (Recognizer.ReportsInOrder).
THEOREM InOrder == Spec => []ReportsInOrder
  <1>1. IInv => ReportsInOrder
    <2> SUFFICES ASSUME IInv PROVE ReportsInOrder
      OBVIOUS
    <2>1. DOMAIN reports = 1 .. Len(reports)
      BY Parts, LenProperties DEF RecognizerTypeOK
    <2> QED
      BY <2>1, Parts DEF OrderOK, ReportsInOrder
  <1> QED
    BY <1>1, Invariance, PTL

\* Trying a predicate reports nothing, counts nothing and throws nothing
\* (Recognizer.PredicatesSilent).
THEOREM Silent == Spec => PredicatesSilent
  <1> DEFINE quiet == backtracking > 0 =>
                UNCHANGED <<reports, errorCount, exception, error, lastErrorIndex>>
  <1>1. IInv /\ [Next]_vars => [quiet]_rvars
    <2> SUFFICES ASSUME IInv, [Next]_vars, backtracking > 0, ~UNCHANGED rvars
                 PROVE  UNCHANGED <<reports, errorCount, exception, error,
                                    lastErrorIndex>>
      OBVIOUS
    <2>1. ~error /\ ~resync
      BY Parts DEF FlagsOK
    <2>2. CASE ParserStep
      <3>1. NextRecognizer
        BY <2>2 DEF ParserStep
      <3> QED
        BY <2>1, <3>1, Parts DEF NextRecognizer, Predict, BeginSynpred, EndSynpred,
           NoViableAlt, MatchToken, MatchFails, DeleteToken, InsertToken,
           MismatchedToken, Mismatch, Block, Again, Call, Return, RuleEx,
           ConsumeUntilSet, EndRuleEx
    <2>3. CASE EarlyExit
      <3>1. frames = <<>>
        BY <2>3, Parts DEF EarlyExit, AtEOF, PhaseOK
      <3>2. HowOf(frames, "pred") = {}
        BY <3>1 DEF HowOf
      <3>3. backtracking = 0
        BY <3>2, FS_EmptySet, Parts DEF StacksOK
      <3> QED
        BY <3>3
    <2>4. CASE ParseUnit \/ UnitParsed \/ Finished \/ ProgramEx \/ EndProgramEx
               \/ WalkTree \/ Terminating
      BY <2>1, <2>4 DEF ParseUnit, UnitParsed, Finished, ProgramEx, EndProgramEx,
                        WalkTree, Terminating, vars, rvars
    <2>5. Next
      BY DEF vars
    <2> QED
      BY <2>2, <2>3, <2>4, <2>5 DEF Next
  <1> QED
    BY <1>1, Invariance, PTL DEF Spec, PredicatesSilent
------------------------------------------------------------------------------
(***************************************************************************)
(* What the grammar derives, without look-ahead, predicates and recovery.  *)
(* An item <<r, a, p, i, j>> says that alternative a of rule r, begun      *)
(* behind i tokens, can stand in front of its element p behind j tokens.   *)
(***************************************************************************)

Item == Rule \X Nat \X Nat \X Nat \X Nat

\* Rule r, begun behind i tokens, can end behind j.
EndsIn(S, r, i, j) ==
    \E a \in 1 .. Len(Grammar[r]), p \in Nat :
        p > Len(Grammar[r][a].elems) /\ <<r, a, p, i, j>> \in S

\* Element e leads from element p behind j tokens to element q behind k.
Passes(in, S, e, p, j, q, k) ==
    \/ e.kind = "token" /\ j < Len(in) /\ in[j + 1] = e.sym /\ q = p + 1 /\ k = j + 1
    \/ e.kind = "rule"  /\ EndsIn(S, e.sym, j, k) /\ q = p + 1
    \/ e.kind = "block" /\ q \in {p + 1, e.to} /\ k = j
    \/ e.kind = "again" /\ q = e.to /\ k = j

\* S has the item in front of every alternative and where each item leads.
Closed(in, S) ==
    /\ \A r \in Rule : \A a \in 1 .. Len(Grammar[r]) : \A i \in 0 .. Len(in) :
          <<r, a, 1, i, i>> \in S
    /\ \A r \in Rule : \A a \in 1 .. Len(Grammar[r]) :
       \A p \in 1 .. Len(Grammar[r][a].elems) : \A i, j, q, k \in Nat :
          /\ <<r, a, p, i, j>> \in S
          /\ Passes(in, S, Grammar[r][a].elems[p], p, j, q, k)
          => <<r, a, q, i, k>> \in S

\* The items of a derivation: those of every closed set.
Parsed(in) == {x \in Item : \A S \in SUBSET Item : Closed(in, S) => x \in S}

\* The places behind one program unit or several.
UnitsClosed(in, U) ==
    \A i \in U \cup {0}, j \in Nat, u \in DOMAIN UnitRule :
        EndsIn(Parsed(in), UnitRule[u], i, j) => j \in U
\* The least such set.
UnitEndsOf(in) == {j \in Nat : \A U \in SUBSET Nat : UnitsClosed(in, U) => j \in U}

\* unparse parses a file of program units, the others the one unit in front.
Derived ==
    IF driver = "unparse" THEN Len(input) \in UnitEndsOf(input)
    ELSE \E j \in Nat : EndsIn(Parsed(input), UnitRule[EntryRule(driver)], 0, j)

\* A tree is walked only for a file the grammar derives: no recovery, no
\* predicate and no prediction hides a syntax error (ofpFrontEnd_program).
OnlyDerivedWalked == walked => Derived

\* The derivation below the calls in progress: frame i began behind st[i]
\* tokens; the frames above a predicate's are not part of it.
Stands(in, f, from, to) ==
    /\ f.alt = 0 => f.pos = 1 /\ from = to
    /\ f.alt # 0 => <<f.rule, f.alt, f.pos, from, to>> \in Parsed(in)
\* Frame f waits for the rule of frame g, called by the element behind it.
Waits(in, f, g, from, to) ==
    /\ f.alt \in 1 .. Len(Grammar[f.rule])
    /\ f.pos - 1 \in 1 .. Len(Grammar[f.rule][f.alt].elems)
    /\ Grammar[f.rule][f.alt].elems[f.pos - 1].kind = "rule"
    /\ Grammar[f.rule][f.alt].elems[f.pos - 1].sym = g.rule
    /\ <<f.rule, f.alt, f.pos - 1, from, to>> \in Parsed(in)
\* No predicate is being tried at frame i or below it.
InEarnest(fs, i) == \A k \in 1 .. i : fs[k].how # "pred"
\* Frame i stands at the parser's place or waits for frame i + 1.
Linked(in, fs, at, st, i) ==
    IF i = Len(fs) THEN Stands(in, fs[i], st[i], at)
    ELSE IF fs[i + 1].how = "pred" THEN Stands(in, fs[i], st[i], fs[i + 1].mark)
    ELSE Waits(in, fs[i], fs[i + 1], st[i], st[i + 1])
\* Every frame outside predicates is linked to the next.
Sound(in, fs, at, st) ==
    \A i \in 1 .. Len(fs) : InEarnest(fs, i) => Linked(in, fs, at, st, i)

\* Where the frames may have begun.
StartsOf(in) == [Nat -> 0 .. Len(in)]

\* Every closed set has the items of a derivation.
LEMMA ParsedIn ==
    ASSUME NEW in, NEW S \in SUBSET Item, Closed(in, S)
    PROVE  Parsed(in) \subseteq S
  BY DEF Parsed

\* What passes with fewer items passes with more.
LEMMA PassesMore ==
    ASSUME NEW in, NEW S, NEW T, S \subseteq T, NEW e, NEW p, NEW j, NEW q, NEW k,
           Passes(in, S, e, p, j, q, k)
    PROVE  Passes(in, T, e, p, j, q, k)
  <1>1. \A r : EndsIn(S, r, j, k) => EndsIn(T, r, j, k)
    BY DEF EndsIn
  <1> QED
    BY <1>1 DEF Passes

\* The items of a derivation are closed.
LEMMA ParsedClosed ==
    ASSUME NEW in \in Seq(Token)
    PROVE  Closed(in, Parsed(in))
  <1>1. Len(in) \in Nat
    BY LenProperties
  <1>2. ASSUME NEW r \in Rule, NEW a \in 1 .. Len(Grammar[r]), NEW i \in 0 .. Len(in)
        PROVE  <<r, a, 1, i, i>> \in Parsed(in)
    <2>1. a \in Nat /\ i \in Nat
      BY <1>1, GrammarLists
    <2>2. <<r, a, 1, i, i>> \in Item
      BY <2>1 DEF Item
    <2>3. \A S \in SUBSET Item : Closed(in, S) => <<r, a, 1, i, i>> \in S
      BY DEF Closed
    <2> QED
      BY <2>2, <2>3 DEF Parsed
  <1>3. \A r \in Rule : \A a \in 1 .. Len(Grammar[r]) :
        \A p \in 1 .. Len(Grammar[r][a].elems) : \A i, j, q, k \in Nat :
           /\ <<r, a, p, i, j>> \in Parsed(in)
           /\ Passes(in, Parsed(in), Grammar[r][a].elems[p], p, j, q, k)
           => <<r, a, q, i, k>> \in Parsed(in)
    <2> TAKE r \in Rule
    <2> TAKE a \in 1 .. Len(Grammar[r])
    <2> TAKE p \in 1 .. Len(Grammar[r][a].elems)
    <2> TAKE i, j, q, k \in Nat
    <2> HAVE /\ <<r, a, p, i, j>> \in Parsed(in)
             /\ Passes(in, Parsed(in), Grammar[r][a].elems[p], p, j, q, k)
    <2>1. a \in Nat
      BY GrammarLists
    <2>2. <<r, a, q, i, k>> \in Item
      BY <2>1 DEF Item
    <2>3. ASSUME NEW S \in SUBSET Item, Closed(in, S)
          PROVE  <<r, a, q, i, k>> \in S
      <3>1. Parsed(in) \subseteq S
        BY <2>3, ParsedIn
      <3>2. <<r, a, p, i, j>> \in S
        BY <3>1
      <3>3. Passes(in, S, Grammar[r][a].elems[p], p, j, q, k)
        BY <3>1, PassesMore
      <3> QED
        BY <2>3, <3>2, <3>3 DEF Closed
    <2> QED
      BY <2>2, <2>3 DEF Parsed
  <1> DEFINE P == Parsed(in)
  <1>4. \A r \in Rule : \A a \in 1 .. Len(Grammar[r]) : \A i \in 0 .. Len(in) :
           <<r, a, 1, i, i>> \in P
    BY <1>2
  <1> HIDE DEF P
  <1>5. Closed(in, P)
    BY <1>3, <1>4 DEF Closed, P
  <1> QED
    BY <1>5 DEF P

\* A program unit behind a program unit.
LEMMA UnitBehind ==
    ASSUME NEW in, NEW i \in UnitEndsOf(in) \cup {0}, NEW j \in Nat,
           NEW u \in DOMAIN UnitRule, EndsIn(Parsed(in), UnitRule[u], i, j)
    PROVE  j \in UnitEndsOf(in)
  <1>1. ASSUME NEW U \in SUBSET Nat, UnitsClosed(in, U)
        PROVE  j \in U
    <2>1. i \in U \cup {0}
      BY <1>1 DEF UnitEndsOf
    <2> QED
      BY <1>1, <2>1 DEF UnitsClosed
  <1> QED
    BY <1>1 DEF UnitEndsOf

\* A frame that stands in front of an element passes it.
LEMMA StandsOn ==
    ASSUME NEW in \in Seq(Token), NEW f \in Frame, NEW from \in 0 .. Len(in),
           NEW to \in 0 .. Len(in), Stands(in, f, from, to),
           f.alt \in 1 .. Len(Grammar[f.rule]),
           f.pos <= Len(Grammar[f.rule][f.alt].elems),
           NEW q \in Nat, NEW k \in Nat,
           Passes(in, Parsed(in), Grammar[f.rule][f.alt].elems[f.pos], f.pos, to, q, k)
    PROVE  <<f.rule, f.alt, q, from, k>> \in Parsed(in)
  <1>1. f.rule \in Rule /\ f.pos \in Nat \ {0}
    BY DEF Frame
  <1>2. f.alt # 0
    BY <1>1, GrammarLists
  <1>3. <<f.rule, f.alt, f.pos, from, to>> \in Parsed(in)
    BY <1>2 DEF Stands
  <1>4. Len(Grammar[f.rule][f.alt].elems) \in Nat
    BY <1>1, GrammarLists, LenProperties
  <1>5. f.pos \in 1 .. Len(Grammar[f.rule][f.alt].elems)
    BY <1>1, <1>4
  <1>6. from \in Nat /\ to \in Nat
    BY LenProperties
  <1> QED
    BY <1>1, <1>3, <1>5, <1>6, ParsedClosed DEF Closed

\* An alternative that is begun is derived.
LEMMA StandsAtFirst ==
    ASSUME NEW in \in Seq(Token), NEW r \in Rule, NEW a \in 1 .. Len(Grammar[r]),
           NEW i \in 0 .. Len(in)
    PROVE  <<r, a, 1, i, i>> \in Parsed(in)
  BY ParsedClosed DEF Closed

\* Places in a stack of n frames and in one of n + 1.
LEMMA Places ==
    ASSUME NEW n \in Nat
    PROVE  /\ \A i \in 1 .. n : i \in 1 .. n + 1 /\ i # n + 1
           /\ \A i \in 1 .. n + 1 : i \in 1 .. n \/ i = n + 1
           /\ \A i \in 1 .. n - 1 : /\ i \in 1 .. n /\ i # n
                                    /\ i + 1 \in 1 .. n /\ i # n + 1
           /\ \A i \in 1 .. n : i \in 1 .. n - 1 \/ i = n
           /\ \A i \in 1 .. n : \A k \in 1 .. i : k \in 1 .. n
           /\ n > 0 => n \in 1 .. n
  OBVIOUS

\* The first m frames of gs are those of fs, but for what frame m is about
\* to do.
Alike(fs, gs, m) ==
    /\ \A i \in 1 .. m - 1 : gs[i] = fs[i]
    /\ \A i \in 1 .. m : /\ gs[i].rule = fs[i].rule /\ gs[i].how = fs[i].how
                         /\ gs[i].mark = fs[i].mark

LEMMA EarnestAlike ==
    ASSUME NEW fs, NEW gs, NEW m \in Nat, \A i \in 1 .. m : gs[i].how = fs[i].how
    PROVE  \A i \in 1 .. m : InEarnest(gs, i) <=> InEarnest(fs, i)
  <1>1. \A i \in 1 .. m : \A k \in 1 .. i : gs[k].how = fs[k].how
    BY Places
  <1> QED
    BY <1>1 DEF InEarnest

\* What is below the top frame stays as it was derived.
LEMMA LinkedBelow ==
    ASSUME NEW in, NEW fs, NEW gs, NEW m \in Nat, NEW n \in Nat, m <= n,
           Len(gs) = m, Len(fs) = n, Alike(fs, gs, m), NEW at, NEW to, NEW st,
           Sound(in, fs, at, st), NEW i \in 1 .. m - 1, InEarnest(gs, i)
    PROVE  Linked(in, gs, to, st, i)
  <1>1. i \in 1 .. m /\ i + 1 \in 1 .. m /\ i # m
    BY Places
  <1>2. i \in 1 .. n /\ i # n
    OBVIOUS
  <1>3. InEarnest(fs, i)
    BY <1>1, EarnestAlike DEF Alike
  <1>4. Linked(in, fs, at, st, i)
    BY <1>2, <1>3 DEF Sound
  <1>5. /\ gs[i] = fs[i] /\ gs[i + 1].rule = fs[i + 1].rule
        /\ gs[i + 1].how = fs[i + 1].how /\ gs[i + 1].mark = fs[i + 1].mark
    BY <1>1 DEF Alike
  <1>6. i # Len(gs) /\ i # Len(fs)
    BY <1>1, <1>2
  <1> QED
    BY <1>4, <1>5, <1>6 DEF Linked, Waits

\* The top frame goes on, or goes and the frame below it goes on.
LEMMA SoundTop ==
    ASSUME NEW in, NEW fs, NEW gs, NEW m \in Nat, NEW n \in Nat, m <= n,
           Len(gs) = m, Len(fs) = n, Alike(fs, gs, m), NEW at, NEW to, NEW st,
           Sound(in, fs, at, st),
           m > 0 /\ InEarnest(fs, m) => Stands(in, gs[m], st[m], to)
    PROVE  Sound(in, gs, to, st)
  <1> SUFFICES ASSUME NEW i \in 1 .. m, InEarnest(gs, i)
               PROVE  Linked(in, gs, to, st, i)
    BY DEF Sound
  <1>1. InEarnest(fs, i)
    BY EarnestAlike DEF Alike
  <1>2. CASE i = m
    <2>1. m > 0
      OBVIOUS
    <2>2. Stands(in, gs[i], st[i], to)
      BY <1>1, <1>2, <2>1
    <2> QED
      BY <1>2, <2>2 DEF Linked
  <1>3. CASE i \in 1 .. m - 1
    BY <1>3, LinkedBelow
  <1>4. i = m \/ i \in 1 .. m - 1
    BY Places
  <1> QED
    BY <1>2, <1>3, <1>4

\* hs is gs and one more.
Longer(gs, n, g, hs) == hs[n + 1] = g /\ \A i \in 1 .. n : hs[i] = gs[i]

\* A stack that grew.
LEMMA Grown ==
    ASSUME NEW gs \in Seq(Frame), NEW g \in Frame
    PROVE  /\ Append(gs, g) \in Seq(Frame) /\ Len(Append(gs, g)) = Len(gs) + 1
           /\ Longer(gs, Len(gs), g, Append(gs, g))
  BY AppendProperties DEF Longer

LEMMA StartsGrown ==
    ASSUME NEW in, NEW st \in StartsOf(in), NEW n \in Nat, NEW at \in 0 .. Len(in)
    PROVE  \E tt \in StartsOf(in) : Longer(st, n, at, tt)
  <1> DEFINE tt == [st EXCEPT ![n + 1] = at]
  <1>1. tt \in StartsOf(in) /\ tt[n + 1] = at /\ \A i \in 1 .. n : tt[i] = st[i]
    BY DEF StartsOf
  <1> HIDE DEF tt
  <1> QED
    BY <1>1 DEF Longer

\* The frame n of fs, begun at from and going on as f, may call g at place at.
MayCall(in, fs, n, f, from, at, g) ==
    /\ g.alt = 0 /\ g.pos = 1
    /\ InEarnest(fs, n) => /\ g.how = "pred" => Stands(in, f, from, g.mark)
                           /\ g.how # "pred" => Waits(in, f, g, from, at)

\* A rule or a predicate is called above the top frame.
LEMMA SoundPush ==
    ASSUME NEW in, NEW n \in Nat \ {0}, NEW fs, NEW gs, NEW hs, NEW g,
           Len(fs) = n, Len(gs) = n, Len(hs) = n + 1,
           Alike(fs, gs, n), Longer(gs, n, g, hs),
           NEW at, NEW st, NEW tt, Longer(st, n, at, tt),
           Sound(in, fs, at, st), MayCall(in, fs, n, gs[n], st[n], at, g)
    PROVE  Sound(in, hs, at, tt)
  <1>1. n \in Nat /\ n <= n
    OBVIOUS
  <1>2. /\ Len(hs) = n + 1 /\ hs[n + 1] = g
        /\ \A i \in 1 .. n : hs[i] = gs[i]
    BY DEF Longer
  <1>3. tt[n + 1] = at /\ \A i \in 1 .. n : tt[i] = st[i]
    BY DEF Longer
  <1> SUFFICES ASSUME NEW i \in 1 .. n + 1, InEarnest(hs, i)
               PROVE  Linked(in, hs, at, tt, i)
    BY <1>2 DEF Sound
  <1>4. \A k \in 1 .. n : InEarnest(hs, k) <=> InEarnest(fs, k)
    <2>1. \A k \in 1 .. n : hs[k].how = fs[k].how
      BY <1>2 DEF Alike
    <2> QED
      BY <1>1, <2>1, EarnestAlike
  <1>5. CASE i = n + 1
    <2>1. hs[i] = g /\ tt[i] = at /\ i = Len(hs)
      BY <1>2, <1>3, <1>5
    <2>2. Stands(in, g, at, at)
      BY DEF Stands, MayCall
    <2> QED
      BY <2>1, <2>2 DEF Linked
  <1>6. CASE i = n
    <2>1. n \in 1 .. n /\ n # n + 1
      BY <1>1
    <2>2. n # Len(hs) /\ hs[n + 1] = g /\ tt[n + 1] = at
      BY <1>2, <1>3, <2>1
    <2>3. hs[n] = gs[n] /\ tt[n] = st[n]
      BY <1>2, <1>3, <2>1
    <2>4. InEarnest(fs, n)
      BY <1>4, <1>6, <2>1
    <2>5. Linked(in, hs, at, tt, n)
      BY <2>2, <2>3, <2>4 DEF Linked, MayCall
    <2> QED
      BY <1>6, <2>5
  <1>7. CASE i \in 1 .. n - 1
    <2>1. i \in 1 .. n /\ i + 1 \in 1 .. n /\ i # n + 1 /\ i # n
      BY <1>1, <1>7, Places
    <2>2. InEarnest(gs, i)
      BY <1>1, <1>4, <2>1, EarnestAlike DEF Alike
    <2>3. Linked(in, gs, at, st, i)
      BY <1>1, <1>7, <2>2, LinkedBelow
    <2>4. /\ hs[i] = gs[i] /\ hs[i + 1] = gs[i + 1] /\ tt[i] = st[i]
          /\ tt[i + 1] = st[i + 1] /\ i # Len(hs) /\ i # Len(gs)
      BY <1>1, <1>2, <1>3, <2>1
    <2> QED
      BY <2>3, <2>4 DEF Linked
  <1>8. i = n + 1 \/ i = n \/ i \in 1 .. n - 1
    BY <1>1, Places
  <1> QED
    BY <1>5, <1>6, <1>7, <1>8
------------------------------------------------------------------------------
(* The parser, as long as it found no error.                               *)

UnitBegun(r, i) ==
    IF driver = "unparse"
    THEN (\E u \in DOMAIN UnitRule : r = UnitRule[u]) /\ i \in UnitEndsOf(input) \cup {0}
    ELSE r = UnitRule[EntryRule(driver)] /\ i = 0
UnitEnded ==
    IF driver = "unparse" THEN index \in UnitEndsOf(input)
    ELSE EndsIn(Parsed(input), UnitRule[EntryRule(driver)], 0, index)

CallsDerived ==
    \E st \in StartsOf(input) :
        /\ Sound(input, frames, index, st)
        /\ frames # <<>> => UnitBegun(frames[1].rule, st[1])
UnitsDerived ==
    /\ phase = "choose" => IF count = 0 THEN index = 0
                                        ELSE driver = "unparse" /\ UnitEnded
    /\ phase = "unit" /\ frames = <<>> => UnitEnded
    /\ phase = "end" => Derived

(* A parser in recovery has counted an error; one that has not counted any *)
(* has derived what it consumed.                                           *)
DerivedInv ==
    /\ errorRecovery \/ resync => errorCount > 0
    /\ errorCount = 0 => CallsDerived /\ UnitsDerived
    /\ OnlyDerivedWalked

\* Nothing but flags changed.
LEMMA DerivedSame ==
    ASSUME IInv, DerivedInv, UNCHANGED <<input, index, frames, driver, phase, count, walked>>,
           errorCount' = errorCount, errorRecovery' = errorRecovery, resync' = resync
    PROVE  DerivedInv'
  <1>1. Derived' = Derived /\ UnitEnded' = UnitEnded
    BY DEF Derived, UnitEnded
  <1>2. CallsDerived => CallsDerived'
    BY DEF CallsDerived, UnitBegun
  <1>3. UnitsDerived => UnitsDerived'
    BY <1>1 DEF UnitsDerived
  <1>4. OnlyDerivedWalked'
    BY <1>1 DEF DerivedInv, OnlyDerivedWalked
  <1> QED
    BY <1>2, <1>3, <1>4 DEF DerivedInv

\* Errors were counted.
LEMMA DerivedErred ==
    ASSUME DerivedInv, UNCHANGED <<input, driver, walked>>,
           errorCount' \in Nat, errorCount' > 0
    PROVE  DerivedInv'
  <1>1. Derived' = Derived
    BY DEF Derived
  <1>2. OnlyDerivedWalked'
    BY <1>1 DEF DerivedInv, OnlyDerivedWalked
  <1>3. errorCount' # 0
    OBVIOUS
  <1> QED
    BY <1>2, <1>3 DEF DerivedInv

\* A report is counted.
LEMMA ReportCounts ==
    ASSUME IInv, DerivedInv, NEW exc, NEW at, reportError(exc, at)
    PROVE  errorCount' \in Nat /\ errorCount' > 0
  <1>1. errorCount \in Nat
    BY Parts DEF RecognizerTypeOK
  <1>2. CASE errorRecovery
    BY <1>1, <1>2 DEF reportError, DerivedInv
  <1>3. CASE ~errorRecovery
    BY <1>1, <1>3 DEF reportError
  <1> QED
    BY <1>2, <1>3

\* What is left of the proof of a step that neither reports nor begins to
\* recover, in a rule.
LEMMA DerivedStep ==
    ASSUME IInv, DerivedInv, frames # <<>>,
           UNCHANGED <<input, driver, phase, count, walked>>,
           errorCount' = errorCount, errorRecovery' => errorRecovery,
           resync' => resync,
           errorCount = 0 => /\ CallsDerived'
                             /\ frames' = <<>> => UnitEnded'
    PROVE  DerivedInv'
  <1>1. phase = "unit"
    BY Parts DEF PhaseOK
  <1>2. Derived' = Derived
    BY DEF Derived
  <1>3. OnlyDerivedWalked'
    BY <1>2 DEF DerivedInv, OnlyDerivedWalked
  <1>4. errorCount = 0 => UnitsDerived'
    BY <1>1 DEF UnitsDerived
  <1> QED
    BY <1>3, <1>4 DEF DerivedInv

\* The types of a stack in use.
LEMMA InUse ==
    ASSUME IInv, frames # <<>>
    PROVE  /\ Len(frames) \in Nat \ {0} /\ Len(frames) \in 1 .. Len(frames)
           /\ frames \in Seq(Frame) /\ Top = frames[Len(frames)] /\ Top \in Frame
           /\ Top.rule \in Rule /\ Top.pos \in Nat \ {0} /\ Top.alt \in Nat
           /\ input \in Seq(Token) /\ index \in 0 .. Len(input)
  <1>1. Top \in Frame /\ Len(frames) \in Nat \ {0} /\ Len(frames) \in 1 .. Len(frames)
    BY StackTypes
  <1>2. frames \in Seq(Frame) /\ input \in Seq(Token) /\ index \in 0 .. Len(input)
    BY Parts DEF RecognizerTypeOK
  <1>3. Top.rule \in Rule /\ Top.pos \in Nat \ {0} /\ Top.alt \in Nat
    BY <1>1 DEF Frame
  <1> QED
    BY <1>1, <1>2, <1>3 DEF Top

\* The top frame alone changes.
LEMMA AlikeTop ==
    ASSUME NEW fs \in Seq(Frame), fs # <<>>, NEW f \in Frame,
           f.rule = fs[Len(fs)].rule, f.how = fs[Len(fs)].how,
           f.mark = fs[Len(fs)].mark
    PROVE  LET gs == [fs EXCEPT ![Len(fs)] = f]
           IN  /\ gs \in Seq(Frame) /\ Len(gs) = Len(fs) /\ gs[Len(fs)] = f
               /\ Alike(fs, gs, Len(fs)) /\ gs # <<>>
  <1> DEFINE gs == [fs EXCEPT ![Len(fs)] = f]
  <1>1. Len(fs) \in Nat \ {0} /\ Len(fs) \in 1 .. Len(fs)
    BY EmptySeq, LenProperties
  <1>2. gs \in Seq(Frame) /\ Len(gs) = Len(fs)
    BY <1>1, ExceptSeq
  <1>3. gs[Len(fs)] = f /\ \A i \in 1 .. Len(fs) : i # Len(fs) => gs[i] = fs[i]
    BY <1>1, LenProperties
  <1> HIDE DEF gs
  <1>4. gs # <<>>
    BY <1>1, <1>2, EmptySeq
  <1>5. \A i \in 1 .. Len(fs) - 1 : gs[i] = fs[i]
    BY <1>1, <1>3, Places
  <1>6. \A i \in 1 .. Len(fs) : /\ gs[i].rule = fs[i].rule /\ gs[i].how = fs[i].how
                               /\ gs[i].mark = fs[i].mark
    BY <1>3
  <1> QED
    BY <1>2, <1>3, <1>4, <1>5, <1>6 DEF Alike, gs

\* The top frame goes on.
LEMMA TopGoesOn ==
    ASSUME IInv, CallsDerived, frames # <<>>, UNCHANGED <<input, driver>>, NEW f \in Frame,
           f.rule = Top.rule, f.how = Top.how, f.mark = Top.mark,
           frames' = [frames EXCEPT ![Len(frames)] = f],
           \A st \in StartsOf(input) : Sound(input, frames, index, st)
                               /\ InEarnest(frames, Len(frames))
                               => Stands(input, f, st[Len(frames)], index')
    PROVE  CallsDerived' /\ frames' # <<>>
  <1> DEFINE n == Len(frames)
  <1>1. /\ n \in Nat \ {0} /\ n \in Nat /\ n <= n /\ n = Len(frames)
        /\ frames \in Seq(Frame) /\ Top = frames[n]
    BY InUse
  <1>2. /\ frames' \in Seq(Frame) /\ Len(frames') = n /\ frames'[n] = f
        /\ Alike(frames, frames', n) /\ frames' # <<>>
    BY <1>1, AlikeTop
  <1>3. PICK st \in StartsOf(input) : /\ Sound(input, frames, index, st)
                             /\ UnitBegun(frames[1].rule, st[1])
    BY DEF CallsDerived
  <1> HIDE DEF n
  <1>4. n > 0 /\ InEarnest(frames, n) => Stands(input, frames'[n], st[n], index')
    BY <1>1, <1>2, <1>3
  <1>5. Sound(input, frames', index', st)
    BY <1>1, <1>2, <1>3, <1>4, SoundTop
  <1>6. frames'[1].rule = frames[1].rule
    <2>1. 1 \in 1 .. n
      BY <1>1
    <2> QED
      BY <1>2, <2>1 DEF Alike
  <1>7. UnitBegun(frames[1].rule, st[1])'
    BY <1>3, <1>6 DEF UnitBegun
  <1>8. st \in StartsOf(input)'
    OBVIOUS
  <1>9. Sound(input, frames, index, st)'
    BY <1>5
  <1> QED
    BY <1>2, <1>7, <1>8, <1>9 DEF CallsDerived

\* Frame f goes on where frame h was.
Succeeds(f, h) == f.rule = h.rule /\ f.how = h.how /\ f.mark = h.mark

\* The top frame, going on as f, may call g.
CanCall(in, fs, at, st, f, g) ==
    /\ Succeeds(f, fs[Len(fs)]) /\ Sound(in, fs, at, st)
    /\ MayCall(in, fs, Len(fs), f, st[Len(fs)], at, g)

\* The stack hs is sound, and began where the stack began that st is about.
SameBeginning(in, fs, hs, at, st) ==
    /\ hs # <<>> /\ hs[1].rule = fs[1].rule
    /\ \E tt \in StartsOf(in) : Sound(in, hs, at, tt) /\ tt[1] = st[1]

\* The stack and the beginnings of its frames, with one more frame.
LEMMA SoundCalls ==
    ASSUME NEW in, NEW fs \in Seq(Frame), fs # <<>>,
           NEW at \in 0 .. Len(in), NEW st \in StartsOf(in),
           NEW f \in Frame, NEW g \in Frame, CanCall(in, fs, at, st, f, g)
    PROVE  SameBeginning(in, fs, Append([fs EXCEPT ![Len(fs)] = f], g), at, st)
  <1> DEFINE gs == [fs EXCEPT ![Len(fs)] = f]
             hs == Append(gs, g)
             n  == Len(fs)
  <1>1. n \in Nat \ {0} /\ n \in Nat /\ 1 \in 1 .. n /\ n = Len(fs)
    BY EmptySeq, LenProperties
  <1>2. gs \in Seq(Frame) /\ Len(gs) = n /\ gs[n] = f /\ Alike(fs, gs, n)
    BY AlikeTop DEF CanCall, Succeeds
  <1> HIDE DEF n, gs
  <1>3. hs \in Seq(Frame) /\ Len(hs) = n + 1 /\ Longer(gs, n, g, hs)
    BY <1>2, Grown
  <1> HIDE DEF hs
  <1>4. PICK tt \in StartsOf(in) : Longer(st, n, at, tt)
    BY <1>1, StartsGrown
  <1>5. Sound(in, hs, at, tt)
    <2>1. Sound(in, fs, at, st) /\ MayCall(in, fs, n, gs[n], st[n], at, g)
      BY <1>1, <1>2 DEF CanCall
    <2> QED
      BY <1>1, <1>2, <1>3, <1>4, <2>1, SoundPush
  <1>6. hs[1] = gs[1] /\ tt[1] = st[1]
    BY <1>1, <1>3, <1>4 DEF Longer
  <1>7. hs # <<>>
    <2>1. n + 1 # 0
      BY <1>1
    <2> QED
      BY <1>3, <2>1, EmptySeq
  <1>8. hs[1].rule = fs[1].rule
    BY <1>1, <1>2, <1>6 DEF Alike
  <1> QED
    BY <1>5, <1>6, <1>7, <1>8 DEF hs, gs, SameBeginning

\* A rule or a predicate is called.
LEMMA TopCalls ==
    ASSUME IInv, CallsDerived, frames # <<>>, UNCHANGED <<input, index, driver>>,
           NEW f \in Frame, NEW g \in Frame,
           frames' = Append([frames EXCEPT ![Len(frames)] = f], g),
           \A st \in StartsOf(input) : Sound(input, frames, index, st)
                               => CanCall(input, frames, index, st, f, g)
    PROVE  CallsDerived' /\ frames' # <<>>
  <1>1. frames \in Seq(Frame) /\ index \in 0 .. Len(input)
    BY InUse
  <1>2. PICK st \in StartsOf(input) : /\ Sound(input, frames, index, st)
                             /\ UnitBegun(frames[1].rule, st[1])
    BY DEF CallsDerived
  <1>3. CanCall(input, frames, index, st, f, g)
    BY <1>2
  <1>4. /\ frames' # <<>> /\ frames'[1].rule = frames[1].rule
        /\ \E tt \in StartsOf(input) : Sound(input, frames', index, tt) /\ tt[1] = st[1]
    <2>1. SameBeginning(input, frames, frames', index, st)
      BY <1>1, <1>3, SoundCalls
    <2> QED
      BY <2>1 DEF SameBeginning
  <1>5. PICK tt \in StartsOf(input) : Sound(input, frames', index, tt) /\ tt[1] = st[1]
    BY <1>4
  <1>6. UnitBegun(frames[1].rule, tt[1])'
    BY <1>2, <1>4, <1>5 DEF UnitBegun
  <1>7. Sound(input, frames, index, tt)'
    BY <1>5
  <1>8. tt \in StartsOf(input)'
    OBVIOUS
  <1> QED
    BY <1>4, <1>6, <1>7, <1>8 DEF CallsDerived

\* The top frame goes.
LEMMA TopGoes ==
    ASSUME IInv, CallsDerived, frames # <<>>, UNCHANGED <<input, driver>>,
           NEW m \in Nat, m + 1 = Len(frames), frames' \in Seq(Frame),
           Len(frames') = m, Alike(frames, frames', m),
           \A st \in StartsOf(input) : Sound(input, frames, index, st)
                               /\ m > 0 /\ InEarnest(frames, m)
                               => Stands(input, frames'[m], st[m], index')
    PROVE  CallsDerived'
  <1>1. m <= m + 1 /\ m + 1 \in Nat
    OBVIOUS
  <1>2. PICK st \in StartsOf(input) : /\ Sound(input, frames, index, st)
                             /\ UnitBegun(frames[1].rule, st[1])
    BY DEF CallsDerived
  <1>3. m > 0 /\ InEarnest(frames, m) => Stands(input, frames'[m], st[m], index')
    BY <1>2
  <1>4. Sound(input, frames', index', st)
    BY <1>1, <1>2, <1>3, SoundTop
  <1>5. Sound(input, frames, index, st)'
    BY <1>4
  <1>6. frames' # <<>> => UnitBegun(frames'[1].rule, st[1])
    <2>1. frames' # <<>> => frames'[1].rule = frames[1].rule
      <3>1. frames' # <<>> => m # 0
        BY EmptySeq
      <3>2. m # 0 => 1 \in 1 .. m
        OBVIOUS
      <3> QED
        BY <3>1, <3>2 DEF Alike
    <2> QED
      BY <1>2, <2>1
  <1>7. (frames # <<>> => UnitBegun(frames[1].rule, st[1]))'
    BY <1>6 DEF UnitBegun
  <1>8. st \in StartsOf(input)'
    OBVIOUS
  <1> QED
    BY <1>5, <1>7, <1>8 DEF CallsDerived

\* Where the top frame stands, when it is not part of a predicate.
LEMMA TopStands ==
    ASSUME IInv, frames # <<>>, NEW st \in StartsOf(input),
           Sound(input, frames, index, st), InEarnest(frames, Len(frames))
    PROVE  Stands(input, Top, st[Len(frames)], index) /\ st[Len(frames)] \in 0 .. Len(input)
  <1>1. /\ Len(frames) \in 1 .. Len(frames) /\ Len(frames) \in Nat
        /\ Top = frames[Len(frames)]
    BY InUse
  <1>2. Linked(input, frames, index, st, Len(frames))
    BY <1>1 DEF Sound
  <1>3. Stands(input, Top, st[Len(frames)], index)
    BY <1>1, <1>2 DEF Linked
  <1>4. st[Len(frames)] \in 0 .. Len(input)
    BY <1>1 DEF StartsOf
  <1> QED
    BY <1>3, <1>4

\* What passes the element in front of the parser is derived.
LEMMA PassesHere ==
    ASSUME IInv, NEW kind, AtElement(kind), NEW st \in StartsOf(input),
           Sound(input, frames, index, st), InEarnest(frames, Len(frames)),
           NEW q \in Nat, NEW k \in Nat,
           Passes(input, Parsed(input), Here, Top.pos, index, q, k)
    PROVE  <<Top.rule, Top.alt, q, st[Len(frames)], k>> \in Parsed(input)
  <1>1. frames # <<>> /\ Top.pos <= Len(Elements)
    BY DEF AtElement
  <1>2. /\ input \in Seq(Token) /\ index \in 0 .. Len(input) /\ Top \in Frame
    BY <1>1, InUse
  <1>3. Top.alt \in 1 .. Len(Grammar[Top.rule])
    BY HereElement DEF Alternatives
  <1>4. Elements = Grammar[Top.rule][Top.alt].elems /\ Here = Elements[Top.pos]
    BY DEF Elements, Alternatives, Here
  <1>5. Stands(input, Top, st[Len(frames)], index) /\ st[Len(frames)] \in 0 .. Len(input)
    BY <1>1, TopStands
  <1>6. Passes(input, Parsed(input), Grammar[Top.rule][Top.alt].elems[Top.pos],
               Top.pos, index, q, k)
    BY <1>4
  <1>7. Top.pos <= Len(Grammar[Top.rule][Top.alt].elems)
    BY <1>1, <1>4
  <1> QED
    BY <1>2, <1>3, <1>5, <1>6, <1>7, StandsOn

\* The parser goes to element q of its rule, at place k.
LEMMA ElementPassed ==
    ASSUME IInv, DerivedInv, NEW kind, AtElement(kind),
           UNCHANGED <<input, driver, phase, count, walked>>,
           errorCount' = errorCount, errorRecovery' => errorRecovery,
           resync' => resync,
           NEW q \in Nat \ {0}, GoTo(q), index' \in Nat,
           Passes(input, Parsed(input), Here, Top.pos, index, q, index')
    PROVE  DerivedInv'
  <1> DEFINE f == [frames[Len(frames)] EXCEPT !.pos = q]
  <1>1. /\ frames # <<>> /\ Top \in Frame /\ Top = frames[Len(frames)]
        /\ Top.alt # 0
    BY InUse DEF AtElement
  <1>2. frames' = [frames EXCEPT ![Len(frames)] = f]
    BY DEF GoTo
  <1>3. /\ f \in Frame /\ f.rule = Top.rule /\ f.how = Top.how
        /\ f.mark = Top.mark /\ f.alt = Top.alt /\ f.pos = q
    BY <1>1 DEF Frame
  <1> HIDE DEF f
  <1>4. ASSUME NEW st \in StartsOf(input), Sound(input, frames, index, st),
               InEarnest(frames, Len(frames))
        PROVE  Stands(input, f, st[Len(frames)], index')
    <2>1. <<Top.rule, Top.alt, q, st[Len(frames)], index'>> \in Parsed(input)
      BY <1>4, PassesHere
    <2> QED
      BY <1>1, <1>3, <2>1 DEF Stands
  <1>5. errorCount = 0 => CallsDerived
    BY DEF DerivedInv
  <1>6. errorCount = 0 => CallsDerived' /\ frames' # <<>>
    BY <1>1, <1>2, <1>3, <1>4, <1>5, TopGoesOn
  <1> QED
    BY <1>1, <1>6, DerivedStep

\* Matching a token.
LEMMA DerivedMatch ==
    ASSUME IInv, DerivedInv, UNCHANGED <<driver, phase, count, walked>>, MatchToken
    PROVE  DerivedInv'
  <1>1. /\ AtElement("token") /\ LA(1) = Here.sym
        /\ index' = Past(index, 1) /\ errorRecovery' = FALSE
        /\ GoTo(Top.pos + 1)
        /\ UNCHANGED <<input, errorCount, resync>>
    BY DEF MatchToken
  <1>2. Here \in Element /\ Here.kind = "token" /\ Top.pos + 1 \in Nat \ {0}
    BY <1>1, HereElement
  <1>3. Here.sym \in Token
    BY <1>2 DEF Element
  <1>4. LA(1) # EOF
    BY <1>1, <1>3, MarkersAssumption
  <1>5. index + 1 <= Len(input) /\ input[index + 1] = Here.sym
    BY <1>1, <1>4 DEF LA
  <1>6. index \in Nat /\ Len(input) \in Nat
    BY Parts
  <1>7. index < Len(input) /\ index' = index + 1 /\ index' \in Nat
    BY <1>1, <1>5, <1>6 DEF Past
  <1>8. Passes(input, Parsed(input), Here, Top.pos, index, Top.pos + 1, index')
    BY <1>2, <1>5, <1>7 DEF Passes
  <1> QED
    BY <1>1, <1>2, <1>7, <1>8, ElementPassed

\* Blocks.
LEMMA DerivedBlock ==
    ASSUME IInv, DerivedInv, UNCHANGED <<driver, phase, count, walked>>, Block \/ Again
    PROVE  DerivedInv'
  <1>1. PICK kind \in {"block", "again"} :
           /\ AtElement(kind)
           /\ \/ kind = "block" /\ (GoTo(Top.pos + 1) \/ GoTo(Here.to))
              \/ kind = "again" /\ GoTo(Here.to)
    BY DEF Block, Again
  <1>2. UNCHANGED <<input, index, errorRecovery, errorCount, resync>>
    BY DEF Block, Again
  <1>3. Here \in Element /\ Here.kind = kind /\ Top.pos + 1 \in Nat \ {0}
    BY <1>1, HereElement
  <1>4. Here.to \in Nat \ {0}
    BY <1>1, <1>3 DEF Element
  <1>5. index' \in Nat /\ index' = index
    BY <1>2, Parts
  <1>6. PICK q \in {Top.pos + 1, Here.to} : GoTo(q) /\ (kind = "again" => q = Here.to)
    BY <1>1
  <1>7. Passes(input, Parsed(input), Here, Top.pos, index, q, index')
    BY <1>1, <1>3, <1>5, <1>6 DEF Passes
  <1>8. q \in Nat \ {0}
    BY <1>3, <1>4, <1>6
  <1> QED
    BY <1>1, <1>2, <1>5, <1>6, <1>7, <1>8, ElementPassed

\* The places prediction looks at are alternatives of the rule.
LEMMA ViableAlternative ==
    ASSUME IInv, Predicting, NEW i \in Viable
    PROVE  /\ i \in Nat \ {0} /\ i \in 1 .. Len(Grammar[Top.rule])
           /\ Alternatives[i] \in Alternative
           /\ frames # <<>> /\ Top \in Frame /\ Top = frames[Len(frames)]
           /\ Top.alt = 0 /\ Top.rule \in Rule
           /\ input \in Seq(Token) /\ index \in 0 .. Len(input)
  <1>1. /\ frames # <<>> /\ Top.alt = 0
    BY DEF Predicting
  <1>2. /\ Top \in Frame /\ Top = frames[Len(frames)] /\ Top.rule \in Rule
        /\ input \in Seq(Token) /\ index \in 0 .. Len(input)
    BY <1>1, InUse
  <1>3. Len(Alternatives) \in Nat /\ Len(Alternatives) = Len(Grammar[Top.rule])
    BY <1>1, StackTypes DEF Alternatives
  <1>4. i \in Nat \ {0} /\ i <= Len(Alternatives)
    BY <1>2, <1>3 DEF Viable, Frame
  <1>5. i \in 1 .. Len(Grammar[Top.rule])
    BY <1>3, <1>4
  <1>6. Alternatives[i] \in Alternative
    BY <1>2, <1>5, GrammarLists DEF Alternatives
  <1> QED
    BY <1>1, <1>2, <1>4, <1>5, <1>6

\* Predicting an alternative.
LEMMA DerivedPredict ==
    ASSUME IInv, DerivedInv, UNCHANGED <<driver, phase, count, walked>>, Predict
    PROVE  DerivedInv'
  <1>1. PICK i \in Viable : frames' = [frames EXCEPT ![Len(frames)].alt = i]
    BY DEF Predict
  <1>2. Predicting /\ UNCHANGED <<input, index, errorRecovery, errorCount, resync>>
    BY DEF Predict
  <1>3. /\ i \in Nat \ {0} /\ i \in 1 .. Len(Grammar[Top.rule])
        /\ frames # <<>> /\ Top \in Frame /\ Top = frames[Len(frames)]
        /\ Top.alt = 0 /\ Top.rule \in Rule
        /\ input \in Seq(Token) /\ index \in 0 .. Len(input)
    BY <1>2, ViableAlternative
  <1> DEFINE f == [frames[Len(frames)] EXCEPT !.alt = i]
  <1>4. frames' = [frames EXCEPT ![Len(frames)] = f]
    BY <1>1
  <1>5. /\ f \in Frame /\ f.rule = Top.rule /\ f.how = Top.how
        /\ f.mark = Top.mark /\ f.alt = i /\ f.pos = Top.pos
    BY <1>3 DEF Frame
  <1> HIDE DEF f
  <1>6. ASSUME NEW st \in StartsOf(input), Sound(input, frames, index, st),
               InEarnest(frames, Len(frames))
        PROVE  Stands(input, f, st[Len(frames)], index')
    <2>1. Stands(input, Top, st[Len(frames)], index)
      BY <1>3, <1>6, TopStands
    <2>2. Top.pos = 1 /\ st[Len(frames)] = index
      BY <1>3, <2>1 DEF Stands
    <2>3. <<Top.rule, i, 1, index, index>> \in Parsed(input)
      BY <1>3, StandsAtFirst
    <2> QED
      BY <1>2, <1>3, <1>5, <2>2, <2>3 DEF Stands
  <1>7. errorCount = 0 => CallsDerived
    BY DEF DerivedInv
  <1>8. errorCount = 0 => CallsDerived' /\ frames' # <<>>
    BY <1>2, <1>3, <1>4, <1>5, <1>6, <1>7, TopGoesOn
  <1> QED
    BY <1>2, <1>3, <1>8, DerivedStep

\* Beginning a predicate.
LEMMA DerivedSynpred ==
    ASSUME IInv, DerivedInv, UNCHANGED <<driver, phase, count, walked>>, BeginSynpred
    PROVE  DerivedInv'
  <1>1. PICK i \in Viable :
          /\ Alternatives[i].pred # NoRule
          /\ frames' = Append([frames EXCEPT ![Len(frames)].try = i],
                              NewFrame(Alternatives[i].pred, "pred", index))
    BY DEF BeginSynpred
  <1>2. Predicting /\ UNCHANGED <<input, index, errorRecovery, errorCount, resync>>
    BY DEF BeginSynpred
  <1>3. /\ i \in Nat \ {0} /\ Alternatives[i] \in Alternative
        /\ frames # <<>> /\ Top \in Frame /\ Top = frames[Len(frames)]
        /\ Top.alt = 0
    BY <1>2, ViableAlternative
  <1> DEFINE f == [frames[Len(frames)] EXCEPT !.try = i]
             g == NewFrame(Alternatives[i].pred, "pred", index)
  <1>4. frames' = Append([frames EXCEPT ![Len(frames)] = f], g)
    BY <1>1
  <1>5. /\ f \in Frame /\ f.rule = Top.rule /\ f.how = Top.how
        /\ f.mark = Top.mark /\ f.alt = 0 /\ f.pos = Top.pos
    BY <1>3 DEF Frame
  <1>6. Alternatives[i].pred \in Rule /\ index \in Nat
    BY <1>1, <1>3, Parts DEF Alternative
  <1>7. g \in Frame /\ g.alt = 0 /\ g.pos = 1 /\ g.how = "pred" /\ g.mark = index
    BY <1>6 DEF NewFrame, Frame, How
  <1> HIDE DEF f, g
  <1>8. ASSUME NEW st \in StartsOf(input), Sound(input, frames, index, st)
        PROVE  CanCall(input, frames, index, st, f, g)
    <2>1. ASSUME InEarnest(frames, Len(frames))
          PROVE  Stands(input, f, st[Len(frames)], g.mark)
      <3>1. Stands(input, Top, st[Len(frames)], index)
        BY <1>3, <1>8, <2>1, TopStands
      <3> QED
        BY <1>3, <1>5, <1>7, <3>1 DEF Stands
    <2>2. MayCall(input, frames, Len(frames), f, st[Len(frames)], index, g)
      BY <1>7, <2>1 DEF MayCall
    <2>3. Succeeds(f, frames[Len(frames)])
      BY <1>3, <1>5 DEF Succeeds
    <2> QED
      BY <1>8, <2>2, <2>3 DEF CanCall
  <1>9. errorCount = 0 => CallsDerived
    BY DEF DerivedInv
  <1>10. errorCount = 0 => CallsDerived' /\ frames' # <<>>
    BY <1>2, <1>3, <1>4, <1>5, <1>7, <1>8, <1>9, TopCalls
  <1> QED
    BY <1>2, <1>3, <1>10, DerivedStep

\* Calling a rule.
LEMMA DerivedCall ==
    ASSUME IInv, DerivedInv, UNCHANGED <<driver, phase, count, walked>>, Call
    PROVE  DerivedInv'
  <1> DEFINE f == [frames[Len(frames)] EXCEPT !.pos = @ + 1]
             g == NewFrame(Here.sym, "call", 0)
  <1>1. /\ AtElement("rule") /\ frames # <<>> /\ Top.alt # 0
        /\ frames' = Append([frames EXCEPT ![Len(frames)] = f], g)
        /\ UNCHANGED <<input, index, errorRecovery, errorCount, resync>>
        /\ Top.pos <= Len(Elements)
    BY DEF Call, AtElement
  <1>2. /\ Top \in Frame /\ Top = frames[Len(frames)] /\ Top.pos \in Nat \ {0}
        /\ Top.rule \in Rule
    BY <1>1, InUse
  <1>3. /\ f \in Frame /\ f.rule = Top.rule /\ f.how = Top.how
        /\ f.mark = Top.mark /\ f.alt = Top.alt /\ f.pos = Top.pos + 1
    <2>1. Top.pos + 1 \in Nat \ {0}
      BY <1>2
    <2>2. f = [Top EXCEPT !.pos = Top.pos + 1]
      BY <1>2
    <2> QED
      BY <1>2, <2>1, <2>2 DEF Frame
  <1>4. Here \in Element /\ Here.kind = "rule" /\ Top.alt \in 1 .. Len(Grammar[Top.rule])
    BY <1>1, HereElement DEF Alternatives
  <1>5. Here.sym \in Rule
    BY <1>4 DEF Element
  <1>6. g \in Frame /\ g.alt = 0 /\ g.pos = 1 /\ g.how = "call" /\ g.rule = Here.sym
    BY <1>5 DEF NewFrame, Frame, How
  <1> HIDE DEF f, g
  <1>7. /\ Here = Grammar[Top.rule][Top.alt].elems[Top.pos]
        /\ Top.pos <= Len(Grammar[Top.rule][Top.alt].elems)
    BY <1>1 DEF Here, Elements, Alternatives
  <1>8. Top.pos \in 1 .. Len(Grammar[Top.rule][Top.alt].elems)
    <2>1. Len(Grammar[Top.rule][Top.alt].elems) \in Nat
      BY <1>2, <1>4, GrammarLists, LenProperties
    <2> QED
      BY <1>2, <1>7, <2>1
  <1>9. f.pos - 1 = Top.pos
    BY <1>2, <1>3
  <1>10. ASSUME NEW st \in StartsOf(input), Sound(input, frames, index, st)
         PROVE  CanCall(input, frames, index, st, f, g)
    <2>1. ASSUME InEarnest(frames, Len(frames))
          PROVE  Waits(input, f, g, st[Len(frames)], index)
      <3>1. Stands(input, Top, st[Len(frames)], index)
        BY <1>1, <1>10, <2>1, TopStands
      <3>2. <<Top.rule, Top.alt, Top.pos, st[Len(frames)], index>> \in Parsed(input)
        BY <1>1, <3>1 DEF Stands
      <3> QED
        BY <1>3, <1>4, <1>6, <1>7, <1>8, <1>9, <3>2 DEF Waits
    <2>2. MayCall(input, frames, Len(frames), f, st[Len(frames)], index, g)
      BY <1>6, <2>1 DEF MayCall
    <2>3. Succeeds(f, frames[Len(frames)])
      BY <1>2, <1>3 DEF Succeeds
    <2> QED
      BY <1>10, <2>2, <2>3 DEF CanCall
  <1>11. errorCount = 0 => CallsDerived
    BY DEF DerivedInv
  <1>12. errorCount = 0 => CallsDerived' /\ frames' # <<>>
    BY <1>1, <1>3, <1>6, <1>10, <1>11, TopCalls
  <1> QED
    BY <1>1, <1>12, DerivedStep

\* A rule that ends outside predicates is derived.
LEMMA TopEnds ==
    ASSUME IInv, AtEnd, NEW st \in StartsOf(input),
           Sound(input, frames, index, st), InEarnest(frames, Len(frames))
    PROVE  EndsIn(Parsed(input), Top.rule, st[Len(frames)], index)
  <1>1. frames # <<>>
    BY DEF AtEnd
  <1>2. ~failed
    <2>1. HowOf(frames, "pred") = {}
      BY DEF HowOf, InEarnest
    <2>2. backtracking = 0
      BY <2>1, FS_EmptySet, Parts DEF StacksOK
    <2> QED
      BY <2>2, Parts DEF FlagsOK
  <1>3. Top.alt # 0 /\ Top.pos > Len(Elements)
    BY <1>2 DEF AtEnd
  <1>4. /\ Top \in Frame /\ Top.rule \in Rule /\ Top.alt \in Nat
        /\ Top.pos \in Nat \ {0}
    BY <1>1, InUse
  <1>5. Top.alt \in 1 .. Len(Grammar[Top.rule])
    <2>1. Len(Grammar[Top.rule]) \in Nat
      BY <1>4, GrammarLists
    <2>2. Top.alt <= Len(Grammar[Top.rule])
      BY <1>1, StackTypes DEF Alternatives
    <2> QED
      BY <1>3, <1>4, <2>1, <2>2
  <1>6. <<Top.rule, Top.alt, Top.pos, st[Len(frames)], index>> \in Parsed(input)
    BY <1>1, <1>3, TopStands DEF Stands
  <1>7. Top.pos > Len(Grammar[Top.rule][Top.alt].elems) /\ Top.pos \in Nat
    BY <1>3, <1>4 DEF Elements, Alternatives
  <1> QED
    BY <1>5, <1>6, <1>7 DEF EndsIn

\* The caller of a rule that was derived goes on behind it.
LEMMA CallerGoesOn ==
    ASSUME NEW in \in Seq(Token), NEW f \in Frame, NEW g, NEW from \in 0 .. Len(in),
           NEW at \in 0 .. Len(in), NEW to \in 0 .. Len(in),
           Waits(in, f, g, from, at), EndsIn(Parsed(in), g.rule, at, to)
    PROVE  Stands(in, f, from, to)
  <1> DEFINE e == Grammar[f.rule][f.alt].elems[f.pos - 1]
             p == f.pos - 1
  <1>1. /\ f.alt \in 1 .. Len(Grammar[f.rule]) /\ f.rule \in Rule
        /\ f.pos \in Nat \ {0} /\ f.pos - 1 \in 1 .. Len(Grammar[f.rule][f.alt].elems)
        /\ e.kind = "rule" /\ e.sym = g.rule
        /\ <<f.rule, f.alt, f.pos - 1, from, at>> \in Parsed(in)
    BY DEF Waits, Frame
  <1>2. p + 1 = f.pos /\ p \in 1 .. Len(Grammar[f.rule][f.alt].elems)
        /\ e = Grammar[f.rule][f.alt].elems[p]
    BY <1>1
  <1>3. Passes(in, Parsed(in), e, p, at, f.pos, to)
    BY <1>1, <1>2 DEF Passes
  <1>4. from \in Nat /\ at \in Nat /\ to \in Nat /\ f.pos \in Nat
    BY <1>1, LenProperties
  <1>5. <<f.rule, f.alt, p, from, at>> \in Parsed(in)
    BY <1>1
  <1> HIDE DEF p, e
  <1>6. <<f.rule, f.alt, f.pos, from, to>> \in Parsed(in)
    BY <1>1, <1>2, <1>3, <1>4, <1>5, ParsedClosed DEF Closed
  <1>7. f.alt # 0
    BY <1>1, GrammarLists
  <1> QED
    BY <1>6, <1>7 DEF Stands

\* The frames below the top one.
LEMMA BelowAlike ==
    ASSUME IInv, frames # <<>>
    PROVE  /\ Len(Below) \in Nat /\ Len(Below) + 1 = Len(frames)
           /\ Alike(frames, Below, Len(Below)) /\ Below \in Seq(Frame)
           /\ \A i \in 1 .. Len(Below) : Below[i] = frames[i] /\ i \in 1 .. Len(frames)
           /\ frames[Len(Below) + 1] = Top
  <1>1. /\ Below \in Seq(Frame) /\ Len(Below) = Len(frames) - 1
        /\ \A i \in 1 .. Len(Below) : Below[i] = frames[i]
        /\ \A i \in 1 .. Len(Below) : i \in 1 .. Len(frames)
    BY BelowCounts
  <1>2. Len(frames) \in Nat \ {0} /\ Top = frames[Len(frames)]
    BY InUse
  <1>3. Len(Below) \in Nat /\ Len(Below) + 1 = Len(frames)
    BY <1>1, <1>2
  <1>4. Alike(frames, Below, Len(Below))
    <2>1. \A i \in 1 .. Len(Below) - 1 : Below[i] = frames[i]
      BY <1>1, <1>3, Places
    <2> QED
      BY <1>1, <2>1 DEF Alike
  <1> QED
    BY <1>1, <1>2, <1>3, <1>4

\* Returning from a rule.
LEMMA DerivedReturn ==
    ASSUME IInv, DerivedInv, UNCHANGED <<driver, phase, count, walked>>, Return
    PROVE  DerivedInv'
  <1> DEFINE m == Len(Below)
  <1>1. /\ AtEnd /\ frames # <<>> /\ Top.how # "pred" /\ frames' = Below
        /\ UNCHANGED <<input, index, errorRecovery, errorCount, resync>>
    BY DEF Return, Leave, AtEnd
  <1>2. /\ m \in Nat /\ m + 1 = Len(frames) /\ Alike(frames, Below, m)
        /\ Below \in Seq(Frame) /\ m = Len(Below) /\ frames[m + 1] = Top
        /\ \A i \in 1 .. m : Below[i] = frames[i] /\ i \in 1 .. Len(frames)
    BY <1>1, BelowAlike
  <1>3. /\ input \in Seq(Token) /\ index \in 0 .. Len(input)
        /\ \A i \in 1 .. Len(frames) : frames[i] \in Frame
    BY <1>1, InUse, ElementOfSeq
  <1> HIDE DEF m
  <1>4. InEarnest(frames, m) => InEarnest(frames, Len(frames))
    <2>1. \A i \in 1 .. m + 1 : i \in 1 .. m \/ i = m + 1
      BY <1>2, Places
    <2> QED
      BY <1>1, <1>2, <2>1 DEF InEarnest
  <1>5. ASSUME NEW st \in StartsOf(input), Sound(input, frames, index, st),
               m > 0, InEarnest(frames, m)
        PROVE  Stands(input, frames'[m], st[m], index')
    <2>1. m \in 1 .. m /\ m \in 1 .. Len(frames) /\ m # Len(frames)
      BY <1>2, <1>5
    <2>2. Linked(input, frames, index, st, m)
      BY <1>5, <2>1 DEF Sound
    <2>3. Waits(input, frames[m], Top, st[m], st[Len(frames)])
      BY <1>1, <1>2, <2>1, <2>2 DEF Linked
    <2>4. EndsIn(Parsed(input), Top.rule, st[Len(frames)], index)
      BY <1>1, <1>4, <1>5, TopEnds
    <2>5. st[m] \in 0 .. Len(input) /\ st[Len(frames)] \in 0 .. Len(input)
      BY <1>2 DEF StartsOf
    <2>6. Stands(input, frames[m], st[m], index)
      BY <1>3, <2>1, <2>3, <2>4, <2>5, CallerGoesOn
    <2>7. frames'[m] = frames[m]
      BY <1>1, <1>2, <2>1
    <2> QED
      BY <1>1, <2>6, <2>7
  <1>6. ASSUME CallsDerived, frames' = <<>>
        PROVE  UnitEnded'
    <2>1. m = 0 /\ Len(frames) = 1
      <3>1. m = 0
        BY <1>1, <1>2, <1>6, EmptySeq
      <3> QED
        BY <1>2, <3>1
    <2>2. PICK st \in StartsOf(input) : /\ Sound(input, frames, index, st)
                                       /\ UnitBegun(frames[1].rule, st[1])
      BY <1>1, <1>6 DEF CallsDerived
    <2>3. InEarnest(frames, m)
      BY <2>1 DEF InEarnest
    <2>4. EndsIn(Parsed(input), Top.rule, st[Len(frames)], index)
      BY <1>1, <1>4, <2>2, <2>3, TopEnds
    <2>5. EndsIn(Parsed(input), frames[1].rule, st[1], index)
      BY <1>2, <2>1, <2>4
    <2>6. index \in Nat
      BY Parts
    <2>7. CASE driver = "unparse"
      <3>1. PICK u \in DOMAIN UnitRule : frames[1].rule = UnitRule[u]
        BY <2>2, <2>7 DEF UnitBegun
      <3>2. st[1] \in UnitEndsOf(input) \cup {0}
        BY <2>2, <2>7 DEF UnitBegun
      <3>3. index \in UnitEndsOf(input)
        BY <2>5, <2>6, <3>1, <3>2, UnitBehind
      <3> QED
        BY <1>1, <2>7, <3>3 DEF UnitEnded
    <2>8. CASE driver # "unparse"
      <3>1. frames[1].rule = UnitRule[EntryRule(driver)] /\ st[1] = 0
        BY <2>2, <2>8 DEF UnitBegun
      <3> QED
        BY <1>1, <2>5, <2>8, <3>1 DEF UnitEnded
    <2> QED
      BY <2>7, <2>8
  <1>7. errorCount = 0 => CallsDerived
    BY DEF DerivedInv
  <1>8. errorCount = 0 => CallsDerived'
    BY <1>1, <1>2, <1>5, <1>7, TopGoes
  <1> QED
    BY <1>1, <1>6, <1>7, <1>8, DerivedStep

\* A predicate has been tried: the rule goes on where it was before.
LEMMA DerivedEndSynpred ==
    ASSUME IInv, DerivedInv, UNCHANGED <<driver, phase, count, walked>>, EndSynpred
    PROVE  DerivedInv'
  <1> DEFINE m == Len(Below)
             f == IF failed THEN [Below[m] EXCEPT !.try = @ + 1]
                            ELSE [Below[m] EXCEPT !.alt = Below[m].try]
  <1>1. /\ frames # <<>> /\ Top.how = "pred" /\ index' = Top.mark
        /\ UNCHANGED <<input, errorRecovery, errorCount, resync>>
    BY DEF EndSynpred, AtEnd
  <1>2. frames' = [Below EXCEPT ![m] = f]
    BY DEF EndSynpred, Decided
  <1>3. /\ m \in Nat /\ m + 1 = Len(frames) /\ m = Len(Below)
        /\ Below \in Seq(Frame) /\ frames[m + 1] = Top
        /\ \A i \in 1 .. m : Below[i] = frames[i] /\ i \in 1 .. Len(frames)
    BY <1>1, BelowAlike
  <1>4. m + 1 \in 1 .. Len(frames)
    BY <1>3
  <1>5. FrameOK(frames, m + 1)
    BY <1>4, Parts DEF WellFormed
  <1>6. m # 0 /\ frames[m].alt = 0 /\ frames[m].try <= Len(Grammar[frames[m].rule])
    <2>1. m + 1 # 1
      BY <1>1, <1>3, <1>5 DEF FrameOK
    <2>2. m + 1 - 1 = m
      BY <1>3
    <2> QED
      BY <1>1, <1>3, <1>5, <2>1, <2>2 DEF FrameOK
  <1>7. m \in 1 .. m /\ m \in 1 .. Len(frames) /\ m # Len(frames) /\ Below # <<>>
    <2>1. m \in 1 .. m /\ m \in 1 .. Len(frames) /\ m # Len(frames)
      BY <1>3, <1>6
    <2> QED
      BY <1>3, <1>6, <2>1, EmptySeq
  <1>8. Below[m] = frames[m] /\ frames[m] \in Frame
    BY <1>3, <1>7, ElementOfSeq
  <1>9. frames[m].rule \in Rule /\ frames[m].try \in 1 .. Len(Grammar[frames[m].rule])
    <2>1. frames[m].rule \in Rule /\ frames[m].try \in Nat \ {0}
      BY <1>8 DEF Frame
    <2>2. Len(Grammar[frames[m].rule]) \in Nat
      BY <2>1, GrammarLists
    <2> QED
      BY <1>6, <2>1, <2>2
  <1>10. /\ f \in Frame /\ f.rule = frames[m].rule /\ f.how = frames[m].how
         /\ f.mark = frames[m].mark /\ f.pos = frames[m].pos
         /\ f.alt \in {0, frames[m].try}
    <2>1. \A k \in Nat \ {0} : k + 1 \in Nat \ {0} /\ k \in Nat
      OBVIOUS
    <2>2. \A h \in Frame : /\ [h EXCEPT !.try = @ + 1] \in Frame
                          /\ [h EXCEPT !.alt = h.try] \in Frame
      BY <2>1 DEF Frame
    <2>3. f \in Frame
      BY <1>8, <2>2
    <2> QED
      BY <1>6, <1>8, <2>3 DEF Frame
  <1> HIDE DEF f, m
  <1>11. /\ frames' \in Seq(Frame) /\ Len(frames') = m /\ frames'[m] = f
         /\ Alike(Below, frames', m) /\ frames' # <<>>
    BY <1>2, <1>3, <1>7, <1>8, <1>10, AlikeTop
  <1>12. Alike(frames, frames', m)
    <2>1. \A i \in 1 .. m - 1 : i \in 1 .. m
      BY <1>3, Places
    <2> QED
      BY <1>3, <1>11, <2>1 DEF Alike
  <1>13. /\ input \in Seq(Token) /\ Top.mark \in 0 .. Len(input)
    <2>1. MarkOK(frames[m + 1]) /\ Top \in Frame /\ input \in Seq(Token)
      BY <1>1, <1>4, Parts, InUse DEF MarksOK
    <2>2. Top.mark \in Nat /\ Top.mark <= Len(input) /\ Len(input) \in Nat
      BY <1>3, <2>1, LenProperties DEF MarkOK, Frame
    <2> QED
      BY <2>1, <2>2
  <1>14. ASSUME NEW st \in StartsOf(input), Sound(input, frames, index, st),
                m > 0, InEarnest(frames, m)
         PROVE  Stands(input, frames'[m], st[m], index')
    <2>1. Linked(input, frames, index, st, m)
      BY <1>7, <1>14 DEF Sound
    <2>2. Stands(input, frames[m], st[m], Top.mark)
      BY <1>1, <1>3, <1>7, <2>1 DEF Linked
    <2>3. frames[m].pos = 1 /\ st[m] = Top.mark
      BY <1>6, <2>2 DEF Stands
    <2>4. <<frames[m].rule, frames[m].try, 1, Top.mark, Top.mark>> \in Parsed(input)
      BY <1>9, <1>13, StandsAtFirst
    <2> QED
      BY <1>1, <1>10, <1>11, <2>3, <2>4 DEF Stands
  <1>15. errorCount = 0 => CallsDerived
    BY DEF DerivedInv
  <1>16. errorCount = 0 => CallsDerived'
    BY <1>1, <1>3, <1>11, <1>12, <1>14, <1>15, TopGoes
  <1> QED
    BY <1>1, <1>11, <1>16, DerivedStep

\* The steps that report.
LEMMA DerivedReports ==
    ASSUME IInv, DerivedInv, UNCHANGED <<driver, walked>>,
           DeleteToken \/ InsertToken \/ RuleEx \/ ProgramEx
    PROVE  DerivedInv'
  <1>1. UNCHANGED input
    BY DEF DeleteToken, InsertToken, RuleEx, ProgramEx
  <1>2. errorCount' \in Nat /\ errorCount' > 0
    <2>1. CASE DeleteToken \/ InsertToken
      BY <2>1, ReportCounts DEF DeleteToken, InsertToken
    <2>2. CASE RuleEx \/ ProgramEx
      BY <2>2, ReportCounts DEF RuleEx, ProgramEx
    <2> QED
      BY <2>1, <2>2
  <1> QED
    BY <1>1, <1>2, DerivedErred

\* The steps of the recognizer.
LEMMA DerivedRecognizer ==
    ASSUME IInv, DerivedInv, UNCHANGED <<driver, phase, count, walked>>, NextRecognizer
    PROVE  DerivedInv'
  <1>1. CASE NoViableAlt \/ MatchFails \/ MismatchedToken
    BY <1>1, DerivedSame DEF NoViableAlt, MatchFails, MismatchedToken
  <1>2. CASE ConsumeUntilSet \/ EndRuleEx
    <2>1. resync /\ UNCHANGED <<input, errorCount>>
      BY <1>2 DEF ConsumeUntilSet, EndRuleEx
    <2>2. errorCount' \in Nat /\ errorCount' > 0
      BY <2>1, Parts DEF DerivedInv, RecognizerTypeOK
    <2> QED
      BY <2>1, <2>2, DerivedErred
  <1>3. CASE DeleteToken \/ InsertToken \/ RuleEx
    BY <1>3, DerivedReports
  <1> QED
    BY <1>1, <1>2, <1>3, DerivedPredict, DerivedSynpred, DerivedEndSynpred,
       DerivedMatch, DerivedBlock, DerivedCall, DerivedReturn DEF NextRecognizer

\* The end of the file is found behind its last token.
LEMMA NothingToCome ==
    ASSUME IInv, ofpGetProgramUnitType(ToCome) = "EOF"
    PROVE  index = Len(input)
  <1>1. /\ input \in Seq(Token) /\ index \in 0 .. Len(input) /\ Len(input) \in Nat
    BY Parts DEF RecognizerTypeOK
  <1>2. 1 \in DOMAIN ToCome => ToCome[1] = "EOF"
    BY DEF ofpGetProgramUnitType, DecidingToken
  <1>3. ASSUME index < Len(input)
        PROVE  FALSE
    <2>1. \A i \in index + 1 .. Len(input) : input[i] \in Token
      BY <1>1, ElementOfSeq
    <2> DEFINE from == index + 1
               to   == Len(input)
    <2>2. from \in Nat \ {0} /\ to \in Nat /\ from <= to /\ 1 \in 1 .. to - from + 1
      BY <1>1, <1>3
    <2>3. ToCome = SubSeq(input, from, to)
      BY DEF ToCome
    <2> HIDE DEF from, to
    <2>4. /\ ToCome \in Seq(Token)
          /\ Len(ToCome) = IF from <= to THEN to - from + 1 ELSE 0
          /\ \A i \in 1 .. to - from + 1 : ToCome[i] = input[from + i - 1]
      BY <1>1, <2>1, <2>2, <2>3, SubSeqProperties DEF from, to
    <2>5. 1 \in DOMAIN ToCome /\ ToCome[1] \in Token
      <3>1. 1 \in 1 .. Len(ToCome)
        BY <2>2, <2>4
      <3> QED
        BY <2>4, <3>1, LenProperties, ElementOfSeq
    <2> QED
      BY <1>2, <2>5, EndOfFileAssumption, MarkersAssumption
  <1> QED
    BY <1>1, <1>3

\* The rule of a program unit is called.
LEMMA DerivedUnitBegins ==
    ASSUME IInv, DerivedInv, ParseUnit
    PROVE  DerivedInv'
  <1>1. PICK r : /\ Start(r)
                 /\ IF driver = "unparse" THEN \E u \in DOMAIN UnitRule : r = UnitRule[u]
                    ELSE r = UnitRule[EntryRule(driver)]
    BY DEF ParseUnit
  <1> DEFINE f == NewFrame(r, "start", 0)
             st == [i \in Nat |-> index]
  <1>2. /\ frames' = <<f>> /\ phase = "choose" /\ phase' = "unit"
        /\ UNCHANGED <<input, index, errorRecovery, errorCount, resync, driver, walked>>
    BY <1>1 DEF ParseUnit, Start
  <1>3. f.rule = r /\ f.alt = 0 /\ f.pos = 1
    BY DEF NewFrame
  <1>4. Len(frames') = 1 /\ frames'[1] = f /\ frames' # <<>>
    BY <1>2
  <1>5. index \in 0 .. Len(input)
    BY Parts DEF RecognizerTypeOK
  <1>6. st \in StartsOf(input) /\ st[1] = index
    BY <1>5 DEF StartsOf
  <1>7. PICK tt \in StartsOf(input) : tt[1] = index
    BY <1>6
  <1> HIDE DEF f, st
  <1>8. Sound(input, frames', index, tt)
    <2>1. Stands(input, f, tt[1], index)
      BY <1>3, <1>7 DEF Stands
    <2>2. Linked(input, frames', index, tt, 1)
      BY <1>4, <2>1 DEF Linked
    <2> QED
      BY <1>4, <2>2 DEF Sound
  <1>9. Sound(input, frames, index, tt)' /\ tt \in StartsOf(input)'
    BY <1>2, <1>8
  <1>10. errorCount = 0 => UnitBegun(r, index)
    <2>1. errorCount = 0 => IF count = 0 THEN index = 0
                                         ELSE driver = "unparse" /\ UnitEnded
      BY <1>2 DEF DerivedInv, UnitsDerived
    <2> QED
      BY <1>1, <2>1 DEF UnitBegun, UnitEnded
  <1>11. errorCount = 0 => UnitBegun(frames[1].rule, tt[1])'
    BY <1>2, <1>3, <1>4, <1>7, <1>10 DEF UnitBegun
  <1>12. errorCount = 0 => CallsDerived'
    BY <1>9, <1>11 DEF CallsDerived
  <1>13. UnitsDerived'
    BY <1>2, <1>4 DEF UnitsDerived
  <1>14. OnlyDerivedWalked'
    <2>1. Derived' = Derived
      BY <1>2 DEF Derived
    <2> QED
      BY <1>2, <2>1 DEF DerivedInv, OnlyDerivedWalked
  <1> QED
    BY <1>2, <1>12, <1>13, <1>14 DEF DerivedInv

\* The steps from one program unit to the next and to the tree walker.
LEMMA DerivedBetween ==
    ASSUME IInv, DerivedInv, UnitParsed \/ Finished \/ EarlyExit \/ WalkTree
    PROVE  DerivedInv'
  <1>1. /\ frames = <<>>
        /\ UNCHANGED <<input, index, frames, errorRecovery, errorCount, resync, driver>>
    BY Parts DEF UnitParsed, Finished, AtEOF, EarlyExit, WalkTree, PhaseOK, rvars
  <1>2. Derived' = Derived /\ UnitEnded' = UnitEnded
    BY <1>1 DEF Derived, UnitEnded
  <1>3. CallsDerived => CallsDerived'
    BY <1>1 DEF CallsDerived, UnitBegun
  <1>4. index \in Nat /\ count \in Nat /\ errorCount \in Nat
    BY Parts DEF TypeOK, RecognizerTypeOK
  <1>5. CASE UnitParsed
    <2>1. phase = "unit" /\ count' = count + 1 /\ walked' = walked
          /\ phase' = IF driver = "unparse" THEN "choose" ELSE "end"
      BY <1>5 DEF UnitParsed
    <2>2. errorCount = 0 => UnitEnded
      BY <1>1, <2>1 DEF DerivedInv, UnitsDerived
    <2>3. driver # "unparse" /\ UnitEnded => Derived
      BY <1>4 DEF Derived, UnitEnded
    <2>4. count' # 0
      BY <1>4, <2>1
    <2>5. errorCount = 0 => UnitsDerived'
      BY <1>1, <1>2, <2>1, <2>2, <2>3, <2>4 DEF UnitsDerived
    <2> QED
      BY <1>1, <1>2, <1>3, <2>1, <2>5 DEF DerivedInv, OnlyDerivedWalked
  <1>6. CASE Finished
    <2>1. /\ phase = "choose" /\ driver = "unparse" /\ count > 0 /\ phase' = "end"
          /\ ofpGetProgramUnitType(ToCome) = "EOF" /\ UNCHANGED <<count, walked>>
      BY <1>6 DEF Finished, AtEOF
    <2>2. index = Len(input)
      BY <2>1, NothingToCome
    <2>3. errorCount = 0 => UnitEnded
      BY <1>4, <2>1 DEF DerivedInv, UnitsDerived
    <2>4. errorCount = 0 => Derived
      BY <2>1, <2>2, <2>3 DEF Derived, UnitEnded
    <2>5. errorCount = 0 => UnitsDerived'
      BY <1>2, <2>1, <2>4 DEF UnitsDerived
    <2> QED
      BY <1>1, <1>2, <1>3, <2>1, <2>5 DEF DerivedInv, OnlyDerivedWalked
  <1>7. CASE EarlyExit
    <2>1. phase' = "ex" /\ walked' = walked
      BY <1>7 DEF EarlyExit
    <2>2. UnitsDerived'
      BY <2>1 DEF UnitsDerived
    <2> QED
      BY <1>1, <1>2, <1>3, <2>1, <2>2 DEF DerivedInv, OnlyDerivedWalked
  <1>8. CASE WalkTree
    <2>1. phase = "end" /\ phase' = "done" /\ walked' = (errorCount = 0)
      BY <1>8 DEF WalkTree
    <2>2. UnitsDerived'
      BY <2>1 DEF UnitsDerived
    <2>3. OnlyDerivedWalked'
      BY <1>2, <2>1 DEF DerivedInv, UnitsDerived, OnlyDerivedWalked
    <2> QED
      BY <1>1, <1>3, <2>2, <2>3 DEF DerivedInv
  <1> QED
    BY <1>5, <1>6, <1>7, <1>8

\* Every step keeps what was derived.
LEMMA DerivedKept == IInv /\ DerivedInv /\ [Next]_vars => DerivedInv'
  <1> SUFFICES ASSUME IInv, DerivedInv, [Next]_vars PROVE DerivedInv'
    OBVIOUS
  <1>1. CASE UNCHANGED vars
    BY <1>1, DerivedSame DEF vars, rvars
  <1>2. CASE ParserStep
    BY <1>2, DerivedRecognizer DEF ParserStep
  <1>3. CASE ProgramEx
    BY <1>3, DerivedReports DEF ProgramEx
  <1>4. CASE EndProgramEx
    <2>1. resync /\ UNCHANGED <<input, driver, walked, errorCount>>
      BY <1>4 DEF EndProgramEx
    <2>2. errorCount' \in Nat /\ errorCount' > 0
      BY <2>1, Parts DEF DerivedInv, RecognizerTypeOK
    <2> QED
      BY <2>1, <2>2, DerivedErred
  <1>5. CASE ParseUnit
    BY <1>5, DerivedUnitBegins
  <1>6. CASE UnitParsed \/ Finished \/ EarlyExit \/ WalkTree
    BY <1>6, DerivedBetween
  <1>7. Next \/ UNCHANGED vars
    OBVIOUS
  <1> QED
    BY <1>1, <1>2, <1>3, <1>4, <1>5, <1>6, <1>7 DEF Next, Terminating

LEMMA DerivedInit == Init => DerivedInv
  <1> SUFFICES ASSUME Init PROVE DerivedInv
    OBVIOUS
  <1>1. /\ frames = <<>> /\ errorRecovery = FALSE /\ resync = FALSE /\ index = 0
        /\ phase = "choose" /\ count = 0 /\ walked = FALSE
    BY DEF Init, InitRecognizer
  <1>2. input \in Seq(Token)
    BY FileAssumption DEF Init
  <1>3. CallsDerived
    <2> DEFINE st == [i \in Nat |-> 0]
    <2>1. 0 \in 0 .. Len(input)
      BY <1>2, LenProperties
    <2>2. st \in StartsOf(input)
      BY <2>1 DEF StartsOf
    <2>3. 1 .. Len(frames) = {}
      BY <1>1
    <2>4. Sound(input, frames, index, st)
      BY <2>3 DEF Sound
    <2> QED
      BY <1>1, <2>2, <2>4 DEF CallsDerived
  <1> QED
    BY <1>1, <1>3 DEF DerivedInv, UnitsDerived, OnlyDerivedWalked

\* A tree is walked only when the grammar derives the file: whatever the
\* prediction, the predicates, deletion, insertion and resynchronization did,
\* no error means that a derivation was found (recoverFromMismatchedToken,
\* recover, synpred, ofpFrontEnd_program).
THEOREM OnlyDerivedFiles == Spec => []OnlyDerivedWalked
  <1>1. DerivedInv => OnlyDerivedWalked
    BY DEF DerivedInv
  <1>2. Spec => []DerivedInv
    BY DerivedInit, DerivedKept, Invariance, PTL DEF Spec
  <1> QED
    BY <1>1, <1>2, PTL
=============================================================================
