--------------------------- MODULE FrontEndProofs ---------------------------
(***************************************************************************)
(* What main() promises of a command line of any length, with any sources:  *)
(* where the headers are found, that no source depends on the ones before it *)
(* in any other way, and that the exit status tells of every failure.       *)
(***************************************************************************)
EXTENDS FrontEnd, FiniteSetTheorems, SequenceTheorems, NaturalsLemmas

(* A syntax error among the first k units, and the units the action class is *)
(* told of when k of them have been parsed.                                 *)
FaultyIn(us, k) == \E j \in 1 .. k : us[j] \in Faulty

Told(us, k) ==
    {j \in 1 .. k : us[j] = "correct" /\ \A m \in 1 .. j : us[m] \notin Faulty}

UnitCalls(count) == [j \in 1 .. count |-> "unit"]

SeenUpTo(us, k) == <<"start_of_file">> \o UnitCalls(Cardinality(Told(us, k)))

(* While a source is processed it exists.                                   *)
InSource ==
    phase \in {"lex", "parse", "crash"} =>
        arg \in 1 .. Len(command.sources) /\ source.exists

(* The action is the source's own until its first syntax error, which both   *)
(* error flags remember.                                                    *)
Parsing ==
    phase = "parse" =>
        /\ NextHeader = NoHeader
        /\ unit \in 0 .. Len(units)
        /\ hasError = FaultyIn(units, unit)
        /\ callError = hasError
        /\ action = IF hasError THEN "null" ELSE "own"
        /\ calls[arg] = SeenUpTo(units, unit)

NotYetCalled ==
    \A k \in 1 .. Len(command.sources) :
        k > arg \/ (k = arg /\ phase # "parse") => calls[k] = <<>>

ErrorKept ==
    error <=> \E k \in 1 .. Len(command.sources) : k < arg /\ Failed(k)

Ended == phase = "exit" => arg = Len(command.sources) + 1

(* A source that has been processed: the calls of SourcesIndependent.        *)
Processed ==
    \A i \in 1 .. Len(command.sources) :
        i < arg =>
          IF command.sources[i].exists
          THEN /\ command.sources[i].includes[resolved[i]] = NoHeader
               /\ calls[i] = Seen(command.sources[i].units[resolved[i]])
          ELSE calls[i] = <<>>

SourcesInv ==
    /\ TypeOK /\ InSource /\ Parsing /\ NotYetCalled /\ ErrorKept /\ Ended
    /\ Processed

-----------------------------------------------------------------------------
(* Facts about command lines and their sources.                             *)
LEMMA CommandFacts ==
    ASSUME NEW c \in Commands
    PROVE  /\ c \in Command
           /\ Len(c.sources) \in Nat
           /\ \A k \in 1 .. Len(c.sources) : c.sources[k] \in Source
           /\ c.dashI \in Seq(Dir \cup {NoDir}) /\ c.dashI \in Seq(Dir)
<1>1. c \in Command
  BY FrontEndAssumption
<1>2. c.sources \in Seq(Source) /\ c.dashI \in Seq(Dir)
  BY <1>1 DEF Command
<1> QED
  BY <1>1, <1>2, LenProperties, ElementOfSeq, SeqMonotonic

UnitSeqs == Seq(Unit) \cup {<<"blank">>}

LEMMA UnitSeqFacts ==
    ASSUME NEW us \in UnitSeqs
    PROVE  /\ Len(us) \in Nat
           /\ \A k \in 1 .. Len(us) : us[k] \in Unit \cup {"blank"}
           /\ \A k \in 1 .. Len(us) : us[k] = "blank" => k = 1 /\ Len(us) = 1
           /\ us \in Seq(Unit \cup {"blank"})
<1>1. CASE us \in Seq(Unit)
  BY <1>1, LenProperties, ElementOfSeq, SeqMonotonic DEF Unit
<1>2. CASE us = <<"blank">>
  BY <1>2
<1> QED
  BY <1>1, <1>2 DEF UnitSeqs

(* The units and the next header of a source are given by where its headers  *)
(* were found, and no more than MaxIncludes of them are ever looked for.    *)
LEMMA SourceFacts ==
    ASSUME NEW c \in Commands, NEW i \in 1 .. Len(c.sources), NEW f \in Found
    PROVE  /\ c.sources[i].units[f] \in UnitSeqs
           /\ c.sources[i].includes[f] \in Header \cup {NoHeader}
           /\ Len(f) \in 0 .. MaxIncludes /\ f \in [1 .. Len(f) -> Place]
           /\ c.sources[i].includes[f] # NoHeader => Len(f) + 1 \in 0 .. MaxIncludes
<1>1. c.sources[i] \in Source
  BY CommandFacts
<1>2. PICK n \in 0 .. MaxIncludes : f \in [1 .. n -> Place]
  BY DEF Found
<1>3. n \in Nat /\ Len(f) = n
  BY <1>2, FrontEndAssumption
<1>4. n = MaxIncludes => c.sources[i].includes[f] = NoHeader
  BY <1>2, FrontEndAssumption
<1> QED
  BY <1>1, <1>2, <1>3, <1>4, FrontEndAssumption DEF Source, UnitSeqs

LEMMA FoundAppend ==
    ASSUME NEW f \in Found, Len(f) + 1 \in 0 .. MaxIncludes, NEW d \in Place
    PROVE  Append(f, d) \in Found
<1>1. PICK n \in 0 .. MaxIncludes : f \in [1 .. n -> Place]
  BY DEF Found
<1>2. n \in Nat /\ Len(f) = n /\ f \in Seq(Place)
  BY <1>1, FrontEndAssumption
<1>3. Append(f, d) \in [1 .. n + 1 -> Place]
  <2>1. Append(f, d) \in Seq(Place) /\ Len(Append(f, d)) = n + 1
    BY <1>2, AppendProperties
  <2> QED
    BY <1>2, <2>1, LenProperties
<1> QED
  BY <1>2, <1>3 DEF Found

(* One more call for a unit.                                                *)
LEMMA UnitCallsFacts ==
    ASSUME NEW count \in Nat
    PROVE  /\ UnitCalls(count) \in Seq({"unit"})
           /\ Len(UnitCalls(count)) = count
           /\ UnitCalls(count) \o <<"unit">> = UnitCalls(count + 1)
BY DEF UnitCalls

Calls == {"start_of_file", "unit", "end_of_file", "cleanUp"}

LEMMA ToldFacts ==
    ASSUME NEW us \in UnitSeqs, NEW k \in 0 .. Len(us)
    PROVE  /\ IsFiniteSet(Told(us, k)) /\ Cardinality(Told(us, k)) \in Nat
           /\ SeenUpTo(us, k) \in Seq(Calls)
<1>1. k \in Nat
  BY UnitSeqFacts
<1>2. IsFiniteSet(Told(us, k)) /\ Cardinality(Told(us, k)) \in Nat
  <2>1. IsFiniteSet(1 .. k) /\ Told(us, k) \subseteq 1 .. k
    BY <1>1, FS_Interval DEF Told
  <2> QED
    BY <2>1, FS_Subset, FS_CardinalityType
<1>3. UnitCalls(Cardinality(Told(us, k))) \in Seq(Calls)
  BY <1>2, UnitCallsFacts, SeqMonotonic DEF Calls
<1>4. <<"start_of_file">> \in Seq(Calls)
  BY DEF Calls
<1> QED
  BY <1>2, <1>3, <1>4, ConcatProperties DEF SeenUpTo

(* A correct unit in front of every error is one more the action class is    *)
(* told of; behind an error it is told of none.                             *)
LEMMA ToldStep ==
    ASSUME NEW us \in UnitSeqs, NEW k \in 0 .. Len(us) - 1
    PROVE  /\ us[k + 1] = "correct" /\ ~ FaultyIn(us, k)
                 => SeenUpTo(us, k + 1) = SeenUpTo(us, k) \o <<"unit">>
           /\ us[k + 1] # "correct" \/ FaultyIn(us, k)
                 => SeenUpTo(us, k + 1) = SeenUpTo(us, k)
<1>0. k \in Nat /\ k \in 0 .. Len(us) /\ Len(us) \in Nat
  BY UnitSeqFacts
<1>1. CASE us[k + 1] = "correct" /\ ~ FaultyIn(us, k)
  <2>1. Told(us, k + 1) = Told(us, k) \cup {k + 1} /\ k + 1 \notin Told(us, k)
    BY <1>0, <1>1 DEF Told, FaultyIn, Faulty
  <2>2. IsFiniteSet(Told(us, k))
    BY <1>0, ToldFacts
  <2> DEFINE count == Cardinality(Told(us, k))
  <2>3. count \in Nat /\ Cardinality(Told(us, k + 1)) = count + 1
    BY <2>1, <2>2, FS_AddElement, FS_CardinalityType
  <2>4. UnitCalls(count) \in Seq(Calls) /\ <<"start_of_file">> \in Seq(Calls)
        /\ <<"unit">> \in Seq(Calls)
    <3>1. UnitCalls(count) \in Seq({"unit"}) /\ {"unit"} \subseteq Calls
      BY <2>3, UnitCallsFacts DEF Calls
    <3>2. UnitCalls(count) \in Seq(Calls)
      BY <3>1, SeqMonotonic
    <3> QED
      BY <3>2 DEF Calls
  <2>5. (<<"start_of_file">> \o UnitCalls(count)) \o <<"unit">>
           = <<"start_of_file">> \o (UnitCalls(count) \o <<"unit">>)
    BY <2>4, ConcatAssociative
  <2> QED
    BY <1>1, <2>3, <2>5, UnitCallsFacts DEF SeenUpTo
<1>2. CASE us[k + 1] # "correct" \/ FaultyIn(us, k)
  <2>1. Told(us, k + 1) = Told(us, k)
    BY <1>0, <1>2 DEF Told, FaultyIn
  <2> QED
    BY <1>1, <1>2, <2>1 DEF SeenUpTo
<1> QED
  BY <1>1, <1>2

(* When the last unit, or one behind an error, has been parsed, the action  *)
(* class has been told of the source what it is to be told.                 *)
LEMMA SeenFacts ==
    ASSUME NEW us \in UnitSeqs, NEW k \in 0 .. Len(us)
    PROVE  /\ FaultyIn(us, k) => Seen(us) = SeenUpTo(us, k)
           /\ ~ FaultyIn(us, k) /\ k = Len(us) =>
                 Seen(us) = SeenUpTo(us, k) \o <<"end_of_file", "cleanUp">>
<1>0. k \in Nat /\ Len(us) \in Nat
  BY UnitSeqFacts
<1> DEFINE bad  == {i \in 1 .. Len(us) : us[i] \in Faulty}
           good == IF bad = {} THEN us ELSE SubSeq(us, 1, Min(bad) - 1)
           correct == {i \in 1 .. Len(good) : good[i] = "correct"}
           tail == IF bad = {} THEN <<"end_of_file", "cleanUp">> ELSE <<>>
<1>1. Seen(us) = <<"start_of_file">> \o UnitCalls(Cardinality(correct)) \o tail
  BY DEF Seen, UnitCalls
<1>2. CASE FaultyIn(us, k)
  <2>1. bad # {} /\ bad \in SUBSET Nat
    BY <1>0, <1>2 DEF FaultyIn
  <2> DEFINE first == Min(bad)
  <2>2. first \in bad /\ \A j \in bad : first <= j
    BY <2>1, MinFacts
  <2>3. PICK j \in 1 .. k : j \in bad
    BY <1>0, <1>2 DEF FaultyIn
  <2>4. first \in 1 .. k /\ first - 1 \in Nat
    BY <1>0, <2>2, <2>3
  <2>5. \A i \in 1 .. first - 1 : us[i] \in Unit \cup {"blank"}
    BY <1>0, <2>4, UnitSeqFacts
  <2>6. Len(good) = first - 1 /\ \A i \in 1 .. first - 1 : good[i] = us[i]
    <3> HIDE DEF first, bad
    <3>1. /\ Len(SubSeq(us, 1, first - 1)) = IF 1 <= first - 1 THEN first - 1 - 1 + 1 ELSE 0
          /\ \A i \in 1 .. first - 1 - 1 + 1 : SubSeq(us, 1, first - 1)[i] = us[1 + i - 1]
      BY <2>4, <2>5, SubSeqProperties
    <3>2. good = SubSeq(us, 1, first - 1)
      BY <2>1 DEF first
    <3> HIDE DEF good
    <3> QED
      BY <2>4, <3>1, <3>2
  <2>7. correct = Told(us, k)
    <3>1. \A i \in 1 .. first - 1 : \A m \in 1 .. i : us[m] \notin Faulty
      BY <1>0, <2>2, <2>4
    <3>2. ASSUME NEW i \in 1 .. k, i \in Told(us, k), ~ (i < first) PROVE FALSE
      <4>1. us[first] \in Faulty
        BY <2>2
      <4>2. \A m \in 1 .. i : us[m] \notin Faulty
        BY <3>2 DEF Told
      <4> HIDE DEF first, bad, good
      <4>3. first \in 1 .. i
        BY <1>0, <2>4, <3>2
      <4> QED
        BY <4>1, <4>2, <4>3
    <3> HIDE DEF first, bad, good
    <3> QED
      BY <2>4, <2>6, <3>1, <3>2, <1>0 DEF Told
  <2>8. Seen(us) = SeenUpTo(us, k) \o <<>>
    BY <1>1, <2>1, <2>7 DEF SeenUpTo
  <2> QED
    BY <1>2, <2>8, ToldFacts, ConcatEmptySeq
<1>3. CASE ~ FaultyIn(us, k) /\ k = Len(us)
  <2>1. bad = {}
    BY <1>3 DEF FaultyIn
  <2>2. correct = Told(us, k)
    BY <1>3, <2>1, <1>0 DEF Told, FaultyIn
  <2> QED
    BY <1>1, <1>3, <2>1, <2>2 DEF SeenUpTo
<1> QED
  BY <1>2, <1>3

-----------------------------------------------------------------------------
(* The directory in which a header is found is one of those that are        *)
(* searched, or null.                                                       *)
LEMMA FirstDirFacts ==
    ASSUME NEW dirs \in Seq(Dir \cup {NoDir}), NEW name
    PROVE  FirstDir(dirs, name) \in Dir \cup {NoDir, NotFound}
<1> DEFINE found == {i \in 1 .. Len(dirs) : dirs[i] = NoDir \/ Has(dirs[i], name)}
<1>1. found # {} => dirs[Min(found)] \in Dir \cup {NoDir}
  <2>1. found \in SUBSET Nat
    OBVIOUS
  <2>2. found # {} => Min(found) \in found
    <3> HIDE DEF found
    <3> QED
      BY <2>1, MinFacts
  <2> QED
    BY <2>2, ElementOfSeq
<1> QED
  BY <1>1, FrontEndAssumption DEF FirstDir

LEMMA TypeInit == Init => TypeOK /\ InSource
<1> SUFFICES ASSUME Init PROVE TypeOK /\ InSource
  OBVIOUS
<1>1. command \in Commands
  BY DEF Init
<1>2. Len(command.sources) \in Nat /\ command.dashI \in Seq(Dir \cup {NoDir})
      /\ command.dashI \in Seq(Dir)
  BY <1>1, CommandFacts
<1>3. IsPrefix(command.dashI, command.dashI)
  BY <1>2 DEF IsPrefix
<1>4. <<>> \in Found /\ <<>> \in Seq({"start_of_file", "unit", "end_of_file", "cleanUp"})
  <2>1. 0 \in 0 .. MaxIncludes /\ <<>> \in [1 .. 0 -> Place]
    BY FrontEndAssumption
  <2> QED
    BY <2>1 DEF Found
<1>5. /\ calls \in [1 .. Len(command.sources)
                       -> Seq({"start_of_file", "unit", "end_of_file", "cleanUp"})]
      /\ resolved \in [1 .. Len(command.sources) -> Found]
  BY <1>4 DEF Init
<1>6. includeDirs \in Seq(Dir \cup {NoDir}) /\ IsPrefix(command.dashI, includeDirs)
  BY <1>2, <1>3 DEF Init
<1>7. /\ arg \in 1 .. Len(command.sources) + 1 /\ phase = "arg" /\ unit = 0
      /\ action = "null" /\ hasError = FALSE /\ callError = FALSE /\ error = FALSE
  BY <1>2 DEF Init
<1>8. TypeOK
  BY <1>1, <1>5, <1>6, <1>7 DEF TypeOK
<1> QED
  BY <1>7, <1>8 DEF InSource

(* What the calls of a step append to those of a source are calls.           *)
LEMMA CallsOfFacts ==
    ASSUME TypeOK, NEW names \in Seq(Calls)
    PROVE  /\ CallsOf(names) \in [1 .. Len(command.sources) -> Seq(Calls)]
           /\ \A k \in 1 .. Len(command.sources) : k # arg => CallsOf(names)[k] = calls[k]
           /\ arg \in 1 .. Len(command.sources) =>
                CallsOf(names)[arg] =
                   IF action = "own" THEN calls[arg] \o names ELSE calls[arg]
<1>1. calls \in [1 .. Len(command.sources) -> Seq(Calls)]
  BY DEF TypeOK, Calls
<1>2. \A k \in 1 .. Len(command.sources) : calls[k] \o names \in Seq(Calls)
  BY <1>1, ConcatProperties
<1> QED
  BY <1>1, <1>2 DEF CallsOf

LEMMA TypeStep ==
    ASSUME TypeOK, InSource, Next
    PROVE  TypeOK' /\ InSource'
<1>0. /\ Len(command.sources) \in Nat /\ arg \in 1 .. Len(command.sources) + 1
      /\ \A k \in 1 .. Len(command.sources) : command.sources[k] \in Source
      /\ command.dashI \in Seq(Dir)
  BY CommandFacts DEF TypeOK
<1>1. CASE MissingSource
  BY <1>0, <1>1 DEF MissingSource, TypeOK, InSource, source
<1>2. CASE OpenSource
  <2>1. source \in Source /\ source.dir \in Dir \cup {NoDir}
    BY <1>0, <1>2 DEF OpenSource, source, Source
  <2>2. includeDirs' \in Seq(Dir \cup {NoDir}) /\ Len(includeDirs') = Len(includeDirs) + 1
        /\ Len(includeDirs) \in Nat
        /\ \A i \in 1 .. Len(includeDirs) : includeDirs'[i] = includeDirs[i]
    BY <1>2, <2>1, AppendProperties, LenProperties DEF OpenSource, AddedDirs, TypeOK
  <2>3. IsPrefix(command.dashI, includeDirs')
    BY <1>0, <2>2, <2>1, <1>2 DEF IsPrefix, TypeOK, OpenSource, AddedDirs
  <2> QED
    BY <1>0, <1>2, <2>2, <2>3 DEF OpenSource, TypeOK, InSource, source
<1>3. CASE FollowInclude
  <2> DEFINE d == FirstDir(includeDirs, NextHeader)
  <2>1. d \in Place
    BY <1>3, FirstDirFacts DEF FollowInclude, TypeOK, Place
  <2>2. arg \in 1 .. Len(command.sources) /\ resolved[arg] \in Found
    BY <1>3 DEF FollowInclude, TypeOK, InSource
  <2>3. Len(resolved[arg]) + 1 \in 0 .. MaxIncludes
    BY <1>3, <2>2, SourceFacts DEF FollowInclude, TypeOK, NextHeader, source
  <2>4. Append(resolved[arg], d) \in Found
    <3> HIDE DEF d
    <3> QED
      BY <2>1, <2>2, <2>3, FoundAppend
  <2>5. resolved' \in [1 .. Len(command.sources) -> Found]
    BY <1>3, <2>4 DEF FollowInclude, TypeOK
  <2> QED
    BY <1>0, <1>3, <2>5 DEF FollowInclude, TypeOK, InSource, source
<1>4. CASE IncludeCrash
  BY <1>4 DEF IncludeCrash, TypeOK, InSource, source
<1>5. CASE InitializeParser
  <2>1. <<"start_of_file">> \in Seq(Calls)
    BY DEF Calls
  <2>2. calls' \in [1 .. Len(command.sources) -> Seq(Calls)]
    BY <1>5, <2>1 DEF InitializeParser, TypeOK, Calls
  <2> QED
    BY <1>0, <1>5, <2>2 DEF InitializeParser, InitialAction, TypeOK, InSource, source, Calls
<1>6. CASE ParseProgramUnit
  <2>1. (IF NextUnit = "correct" THEN <<"unit">> ELSE <<>>) \in Seq(Calls)
    <3>1. <<"unit">> \in Seq(Calls) /\ <<>> \in Seq(Calls)
      BY DEF Calls
    <3> QED
      BY <3>1
  <2>2. calls' \in [1 .. Len(command.sources) -> Seq(Calls)]
    BY <1>6, <2>1, CallsOfFacts DEF ParseProgramUnit
  <2>3. UnitError \in BOOLEAN
    BY DEF UnitError, TypeOK
  <2>4. hasError' \in BOOLEAN /\ callError' \in BOOLEAN /\ action' \in {"own", "null"}
        /\ unit' \in Nat
    <3>1. hasError' \in BOOLEAN
      BY <1>6, <2>3 DEF ParseProgramUnit
    <3>2. callError' = FALSE \/ callError' = hasError'
      BY <1>6 DEF ParseProgramUnit
    <3>3. action' \in {"own", "null"} /\ unit' \in Nat
      BY <1>6 DEF ParseProgramUnit, TypeOK
    <3> QED
      BY <3>1, <3>2, <3>3
  <2>5. InSource'
    BY <1>6 DEF ParseProgramUnit, InSource, source
  <2>6. /\ UNCHANGED <<command, arg, phase, includeDirs, resolved, error>>
    BY <1>6 DEF ParseProgramUnit
  <2> QED
    BY <2>2, <2>4, <2>5, <2>6 DEF TypeOK, Calls
<1>7. CASE VerboseReturn
  <2>1. MainError \in BOOLEAN
    BY DEF MainError, TypeOK
  <2> QED
    BY <1>0, <1>7, <2>1 DEF VerboseReturn, NextSource, TypeOK, InSource, source
<1>8. CASE EndOfFile
  <2>1. MainError \in BOOLEAN
    BY DEF MainError, TypeOK
  <2>2. <<"end_of_file", "cleanUp">> \in Seq(Calls)
    BY DEF Calls
  <2>3. calls' \in [1 .. Len(command.sources) -> Seq(Calls)]
    BY <1>8, <2>2, CallsOfFacts DEF EndOfFile
  <2> QED
    BY <1>0, <1>8, <2>1, <2>3 DEF EndOfFile, NextSource, TypeOK, InSource, source, Calls
<1>9. CASE Exit
  BY <1>9 DEF Exit, TypeOK, InSource, source
<1> QED
  BY <1>1, <1>2, <1>3, <1>4, <1>5, <1>6, <1>7, <1>8, <1>9 DEF Next

(* Every variable keeps its type, and the directories of -I stay in front of *)
(* those of the sources: TypeOK of FrontEnd.                                 *)
THEOREM FrontEndTypes == Spec => []TypeOK
<1>1. Init => TypeOK /\ InSource
  BY TypeInit
<1>2. (TypeOK /\ InSource) /\ [Next]_vars => (TypeOK /\ InSource)'
  <2>1. CASE Next
    BY <2>1, TypeStep
  <2>2. CASE UNCHANGED vars
    BY <2>2 DEF vars, TypeOK, InSource, source
  <2> QED
    BY <2>1, <2>2
<1> QED
  BY <1>1, <1>2, PTL DEF Spec

-----------------------------------------------------------------------------
(* An error among the units parsed so far, and the failure of the source.    *)
LEMMA FaultyFacts ==
    ASSUME NEW us \in UnitSeqs, NEW k \in 0 .. Len(us)
    PROVE  /\ FaultyIn(us, k) \in BOOLEAN
           /\ FaultyIn(us, k) => FaultyIn(us, Len(us))
           /\ k < Len(us) => (FaultyIn(us, k + 1) <=> FaultyIn(us, k) \/ us[k + 1] \in Faulty)
           /\ k > 0 /\ us[k] = "dropped" => FaultyIn(us, k)
<1>1. Len(us) \in Nat
  BY UnitSeqFacts
<1> QED
  BY <1>1 DEF FaultyIn, Faulty

(* The facts the steps below share.                                         *)
LEMMA ArgFacts ==
    ASSUME TypeOK, InSource
    PROVE  /\ Len(command.sources) \in Nat /\ arg \in 1 .. Len(command.sources) + 1
           /\ \A k \in 1 .. Len(command.sources) : command.sources[k] \in Source
           /\ arg <= Len(command.sources) => source \in Source
           /\ phase \in {"lex", "parse", "crash"} =>
                /\ arg \in 1 .. Len(command.sources)
                /\ source \in Source /\ source.exists
                /\ units \in UnitSeqs /\ Len(units) \in Nat
                /\ Failed(arg) <=> FaultyIn(units, Len(units))
<1>1. /\ Len(command.sources) \in Nat /\ arg \in 1 .. Len(command.sources) + 1
      /\ \A k \in 1 .. Len(command.sources) : command.sources[k] \in Source
  BY CommandFacts DEF TypeOK
<1>2. ASSUME phase \in {"lex", "parse", "crash"}
      PROVE  /\ units \in UnitSeqs /\ Len(units) \in Nat
             /\ Failed(arg) <=> FaultyIn(units, Len(units))
  <2>1. arg \in 1 .. Len(command.sources) /\ source.exists /\ source = command.sources[arg]
    BY <1>2 DEF InSource, source
  <2>2. command \in Commands /\ resolved[arg] \in Found
    BY <2>1 DEF TypeOK
  <2>3. units \in UnitSeqs
    BY <2>1, <2>2, SourceFacts DEF units
  <2>4. Failed(arg) <=> \E k \in 1 .. Len(units) : units[k] \in Faulty
    BY <2>1 DEF Failed, units
  <2> QED
    BY <2>3, <2>4, UnitSeqFacts DEF FaultyIn
<1> QED
  BY <1>1, <1>2 DEF InSource, source

(* What has been processed stays as it is when the next source is taken, if  *)
(* the action class was told what it is to be told and the error is kept.   *)
LEMMA SourceDone ==
    ASSUME SourcesInv, arg \in 1 .. Len(command.sources),
           command' = command, arg' = arg + 1, phase' = "arg", resolved' = resolved,
           calls' \in [1 .. Len(command.sources) -> Seq(Calls)],
           \A k \in 1 .. Len(command.sources) : k # arg => calls'[k] = calls[k],
           IF source.exists THEN NextHeader = NoHeader /\ calls'[arg] = Seen(units)
                            ELSE calls'[arg] = <<>>,
           error' <=> error \/ Failed(arg)
    PROVE  (Parsing /\ NotYetCalled /\ ErrorKept /\ Ended /\ Processed)'
<1>0. Len(command.sources) \in Nat /\ arg \in Nat /\ command.sources[arg] = source
  BY ArgFacts DEF SourcesInv, source
<1>1. Parsing' /\ Ended'
  BY DEF Parsing, Ended
<1>2. NotYetCalled'
  <2> SUFFICES ASSUME NEW k \in 1 .. Len(command.sources), k > arg + 1 \/ k = arg + 1
               PROVE  calls'[k] = <<>>
    BY DEF NotYetCalled
  <2>1. k > arg /\ k # arg
    BY <1>0
  <2> QED
    BY <2>1 DEF SourcesInv, NotYetCalled
<1>3. ErrorKept'
  <2>1. \A k \in 1 .. Len(command.sources) : k < arg + 1 <=> k < arg \/ k = arg
    BY <1>0
  <2>2. \A k \in 1 .. Len(command.sources) : Failed(k)' <=> Failed(k)
    BY DEF Failed
  <2>3. error' <=> \E k \in 1 .. Len(command.sources) : k < arg + 1 /\ Failed(k)
    BY <1>0, <2>1 DEF SourcesInv, ErrorKept
  <2> QED
    BY <2>2, <2>3 DEF ErrorKept
<1>4. Processed'
  <2> SUFFICES ASSUME NEW k \in 1 .. Len(command.sources), k < arg + 1
               PROVE  IF command.sources[k].exists
                      THEN /\ command.sources[k].includes[resolved[k]] = NoHeader
                           /\ calls'[k] = Seen(command.sources[k].units[resolved[k]])
                      ELSE calls'[k] = <<>>
    BY DEF Processed
  <2>1. CASE k = arg
    BY <2>1, <1>0 DEF NextHeader, units
  <2>2. CASE k # arg
    <3>1. k < arg
      BY <2>2, <1>0
    <3> QED
      BY <2>2, <3>1 DEF SourcesInv, Processed
  <2> QED
    BY <2>1, <2>2
<1> QED
  BY <1>1, <1>2, <1>3, <1>4

(* A step that neither parses nor goes on to the next source, and resolves   *)
(* headers of the present one at most.                                      *)
LEMMA SourceSetUp ==
    ASSUME SourcesInv, phase # "parse", phase' # "parse",
           UNCHANGED <<command, arg, calls, error>>,
           \A k \in 1 .. Len(command.sources) : k < arg => resolved'[k] = resolved[k],
           phase' = "exit" => arg = Len(command.sources) + 1
    PROVE  (Parsing /\ NotYetCalled /\ ErrorKept /\ Ended /\ Processed)'
<1>1. \A k \in 1 .. Len(command.sources) : k < arg => (Failed(k)' <=> Failed(k))
  BY DEF Failed
<1> QED
  BY <1>1 DEF SourcesInv, Parsing, NotYetCalled, ErrorKept, Ended, Processed

LEMMA SeenNothing ==
    ASSUME NEW us \in UnitSeqs
    PROVE  SeenUpTo(us, 0) = <<"start_of_file">> /\ ~ FaultyIn(us, 0)
<1>1. Told(us, 0) = {} /\ ~ FaultyIn(us, 0)
  BY DEF Told, FaultyIn
<1>2. UnitCalls(0) = <<>>
  BY DEF UnitCalls
<1>3. <<"start_of_file">> \o <<>> = <<"start_of_file">>
  OBVIOUS
<1> QED
  BY <1>1, <1>2, <1>3, FS_EmptySet DEF SeenUpTo

LEMMA FailedStays ==
    UNCHANGED <<command, resolved>> =>
        \A k \in 1 .. Len(command.sources) : Failed(k)' <=> Failed(k)
BY DEF Failed

LEMMA InitializeParserStep ==
    ASSUME SourcesInv, InitializeParser
    PROVE  (Parsing /\ NotYetCalled /\ ErrorKept /\ Ended /\ Processed)'
<1>1. /\ arg \in 1 .. Len(command.sources) /\ source \in Source /\ Len(command.sources) \in Nat
      /\ units \in UnitSeqs /\ Len(units) \in Nat
  BY ArgFacts DEF SourcesInv, InitializeParser
<1>2. calls' = [calls EXCEPT ![arg] = <<"start_of_file">>] /\ action' = "own"
      /\ UNCHANGED <<command, arg, resolved, error>>
      /\ units' = units /\ NextHeader' = NextHeader /\ NextHeader = NoHeader
  BY DEF InitializeParser, InitialAction, units, NextHeader, source
<1>3. calls'[arg] = <<"start_of_file">>
      /\ \A k \in 1 .. Len(command.sources) : k # arg => calls'[k] = calls[k]
  BY <1>1, <1>2 DEF SourcesInv, TypeOK
<1>4. Parsing'
  <2>1. unit' = 0 /\ hasError' = FALSE /\ callError' = FALSE
    BY DEF InitializeParser
  <2>2. unit' \in 0 .. Len(units')
    BY <1>1, <1>2, <2>1
  <2>3. FaultyIn(units', unit') = FALSE /\ SeenUpTo(units', unit') = <<"start_of_file">>
    BY <1>1, <1>2, <2>1, SeenNothing DEF FaultyIn
  <2> QED
    BY <1>2, <1>3, <2>1, <2>2, <2>3 DEF Parsing
<1>5. NotYetCalled'
  <2>1. phase' = "parse"
    BY DEF InitializeParser
  <2>2. \A k \in 1 .. Len(command.sources) : k > arg => k # arg
    BY <1>1
  <2> QED
    BY <1>2, <1>3, <2>1, <2>2 DEF SourcesInv, NotYetCalled
<1>6. Processed'
  <2>1. \A k \in 1 .. Len(command.sources) : k < arg => k # arg
    BY <1>1
  <2> QED
    BY <1>2, <1>3, <2>1 DEF SourcesInv, Processed
<1>7. ErrorKept'
  BY <1>2, FailedStays DEF SourcesInv, ErrorKept
<1> QED
  BY <1>4, <1>5, <1>6, <1>7 DEF Ended, InitializeParser

LEMMA ParseProgramUnitStep ==
    ASSUME SourcesInv, ParseProgramUnit
    PROVE  (Parsing /\ NotYetCalled /\ ErrorKept /\ Ended /\ Processed)'
<1>1. /\ arg \in 1 .. Len(command.sources) /\ source \in Source /\ Len(command.sources) \in Nat
      /\ units \in UnitSeqs /\ Len(units) \in Nat /\ source.exists
  BY ArgFacts DEF SourcesInv, ParseProgramUnit
<1>2. /\ unit \in 0 .. Len(units) /\ hasError = FaultyIn(units, unit)
      /\ action = IF hasError THEN "null" ELSE "own"
      /\ calls[arg] = SeenUpTo(units, unit)
  BY DEF SourcesInv, Parsing, ParseProgramUnit
<1>3. unit < Len(units) /\ unit \in 0 .. Len(units) - 1
      /\ unit + 1 \in 0 .. Len(units)
  BY <1>1, <1>2 DEF ParseProgramUnit, AtEof
<1> DEFINE told == IF NextUnit = "correct" THEN <<"unit">> ELSE <<>>
<1>4. UNCHANGED <<command, arg, phase, error, resolved>> /\ unit' = unit + 1
      /\ calls' = CallsOf(told) /\ phase = "parse"
      /\ units' = units /\ NextHeader' = NextHeader /\ NextHeader = NoHeader
  BY DEF ParseProgramUnit, SourcesInv, Parsing, units, NextHeader, source
<1>5. told \in Seq(Calls)
  <2>1. <<"unit">> \in Seq(Calls) /\ <<>> \in Seq(Calls)
    BY DEF Calls
  <2> QED
    BY <2>1
<1>6. /\ \A k \in 1 .. Len(command.sources) : k # arg => calls'[k] = calls[k]
      /\ calls'[arg] = IF action = "own" THEN calls[arg] \o told ELSE calls[arg]
  <2> HIDE DEF told
  <2> QED
    BY <1>1, <1>4, <1>5, CallsOfFacts DEF SourcesInv
<1>7. hasError' = FaultyIn(units, unit + 1)
  BY <1>1, <1>2, <1>3, FaultyFacts DEF ParseProgramUnit, UnitError, NextUnit
<1>8. callError' = hasError'
  <2>1. CASE NextUnit = "blank"
    <3>1. unit = 0
      BY <1>1, <1>3, <2>1, UnitSeqFacts DEF NextUnit
    <3>2. NextUnit \notin Faulty /\ ~ FaultyIn(units, 0)
      BY <1>1, <2>1, SeenNothing DEF Faulty
    <3>3. hasError' = FALSE
      BY <1>1, <1>2, <1>3, <1>7, <3>1, <3>2, FaultyFacts DEF NextUnit, FaultyIn
    <3> QED
      BY <2>1, <3>3 DEF ParseProgramUnit
  <2>2. CASE NextUnit # "blank"
    BY <2>2 DEF ParseProgramUnit
  <2> QED
    BY <2>1, <2>2
<1>9. action' = IF hasError' THEN "null" ELSE "own"
  BY <1>1, <1>2, <1>3, <1>7, FaultyFacts DEF ParseProgramUnit, NextUnit
<1>10. calls'[arg] = SeenUpTo(units, unit + 1)
  <2>1. CASE hasError
    BY <1>1, <1>2, <1>3, <1>6, <2>1, ToldStep
  <2>2. CASE ~ hasError /\ NextUnit = "correct"
    BY <1>1, <1>2, <1>3, <1>6, <2>2, ToldStep DEF NextUnit
  <2>3. CASE ~ hasError /\ NextUnit # "correct"
    <3>1. calls[arg] \o <<>> = calls[arg]
      BY <1>1, <1>2, ToldFacts, ConcatEmptySeq
    <3> QED
      BY <1>1, <1>2, <1>3, <1>6, <2>3, <3>1, ToldStep DEF NextUnit
  <2> QED
    BY <2>1, <2>2, <2>3 DEF SourcesInv, TypeOK
<1>11. Parsing'
  BY <1>3, <1>4, <1>7, <1>8, <1>9, <1>10 DEF Parsing
<1>12. NotYetCalled'
  <2>1. \A k \in 1 .. Len(command.sources) : k > arg => k # arg
    BY <1>1
  <2> QED
    BY <1>4, <1>6, <2>1 DEF SourcesInv, NotYetCalled
<1>13. Processed'
  <2>1. \A k \in 1 .. Len(command.sources) : k < arg => k # arg
    BY <1>1
  <2> QED
    BY <1>4, <1>6, <2>1 DEF SourcesInv, Processed
<1>14. ErrorKept'
  BY <1>4, FailedStays DEF SourcesInv, ErrorKept
<1> QED
  BY <1>4, <1>11, <1>12, <1>13, <1>14 DEF Ended

LEMMA VerboseReturnStep ==
    ASSUME SourcesInv, VerboseReturn
    PROVE  (Parsing /\ NotYetCalled /\ ErrorKept /\ Ended /\ Processed)'
<1>1. /\ arg \in 1 .. Len(command.sources) /\ source \in Source /\ source.exists
      /\ units \in UnitSeqs /\ unit \in 0 .. Len(units) /\ FaultyIn(units, unit)
      /\ calls[arg] = SeenUpTo(units, unit) /\ callError /\ NextHeader = NoHeader
      /\ Failed(arg) <=> FaultyIn(units, Len(units))
  BY ArgFacts DEF SourcesInv, Parsing, VerboseReturn, verboseReturn
<1>2. calls[arg] = Seen(units) /\ Failed(arg)
  BY <1>1, SeenFacts, FaultyFacts
<1>3. calls' = calls /\ calls \in [1 .. Len(command.sources) -> Seq(Calls)]
  BY DEF VerboseReturn, SourcesInv, TypeOK, Calls
<1>4. UNCHANGED <<command, resolved>> /\ arg' = arg + 1 /\ phase' = "arg" /\ (error' <=> error \/ callError)
  BY DEF VerboseReturn, NextSource, MainError
<1> QED
  BY <1>1, <1>2, <1>3, <1>4, SourceDone

LEMMA EndOfFileStep ==
    ASSUME SourcesInv, EndOfFile
    PROVE  (Parsing /\ NotYetCalled /\ ErrorKept /\ Ended /\ Processed)'
<1>1. /\ arg \in 1 .. Len(command.sources) /\ source \in Source /\ source.exists
      /\ units \in UnitSeqs /\ unit \in 0 .. Len(units) /\ NextHeader = NoHeader
      /\ callError = FaultyIn(units, unit) /\ Len(units) \in Nat
      /\ Failed(arg) <=> FaultyIn(units, Len(units))
      /\ action = IF callError THEN "null" ELSE "own"
      /\ calls[arg] = SeenUpTo(units, unit)
  BY ArgFacts DEF SourcesInv, Parsing, EndOfFile
<1>2. unit # Len(units) => FaultyIn(units, unit)
  BY <1>1, FaultyFacts DEF EndOfFile, AtEof
<1>3. callError <=> Failed(arg)
  BY <1>1, <1>2, FaultyFacts
<1>4. <<"end_of_file", "cleanUp">> \in Seq(Calls)
  BY DEF Calls
<1>5. /\ calls' = CallsOf(<<"end_of_file", "cleanUp">>)
      /\ calls' \in [1 .. Len(command.sources) -> Seq(Calls)]
      /\ \A k \in 1 .. Len(command.sources) : k # arg => calls'[k] = calls[k]
      /\ calls'[arg] = IF action = "own" THEN calls[arg] \o <<"end_of_file", "cleanUp">>
                       ELSE calls[arg]
  BY <1>1, <1>4, CallsOfFacts DEF EndOfFile, SourcesInv
<1>6. calls'[arg] = Seen(units)
  BY <1>1, <1>2, <1>5, SeenFacts
<1>7. UNCHANGED <<command, resolved>> /\ arg' = arg + 1 /\ phase' = "arg" /\ (error' <=> error \/ callError)
  BY DEF EndOfFile, NextSource, MainError
<1> QED
  BY <1>1, <1>3, <1>5, <1>6, <1>7, SourceDone

LEMMA MissingSourceStep ==
    ASSUME SourcesInv, MissingSource
    PROVE  (Parsing /\ NotYetCalled /\ ErrorKept /\ Ended /\ Processed)'
<1>1. arg \in 1 .. Len(command.sources)
  BY ArgFacts DEF SourcesInv, MissingSource
<1>2. /\ UNCHANGED <<command, calls, resolved>> /\ arg' = arg + 1 /\ phase' = "arg" /\ error' = TRUE
      /\ ~ source.exists /\ phase = "arg"
  BY DEF MissingSource
<1>3. Failed(arg) /\ calls[arg] = <<>>
  BY <1>1, <1>2 DEF Failed, SourcesInv, NotYetCalled, source
<1>4. calls' \in [1 .. Len(command.sources) -> Seq(Calls)]
  BY <1>2 DEF SourcesInv, TypeOK, Calls
<1> QED
  BY <1>1, <1>2, <1>3, <1>4, SourceDone

LEMMA SourcesStep ==
    ASSUME SourcesInv, Next
    PROVE  SourcesInv'
<1> DEFINE Rest == Parsing /\ NotYetCalled /\ ErrorKept /\ Ended /\ Processed
<1>1. TypeOK' /\ InSource'
  BY TypeStep DEF SourcesInv
<1>2. arg \in 1 .. Len(command.sources) + 1 /\ Len(command.sources) \in Nat
  BY ArgFacts DEF SourcesInv
<1>3. CASE MissingSource
  BY <1>1, <1>3, MissingSourceStep DEF SourcesInv
<1>4. CASE OpenSource \/ FollowInclude \/ IncludeCrash
  <2>1. /\ phase # "parse" /\ phase' # "parse" /\ phase' # "exit"
        /\ UNCHANGED <<command, arg, calls, error>>
    BY <1>4 DEF OpenSource, FollowInclude, IncludeCrash
  <2>2. \A k \in 1 .. Len(command.sources) : k < arg => resolved'[k] = resolved[k]
    <3>1. \A k \in 1 .. Len(command.sources) : k < arg => k # arg
      BY <1>2
    <3> QED
      BY <1>4, <3>1 DEF OpenSource, FollowInclude, IncludeCrash, SourcesInv, TypeOK
  <2> QED
    BY <1>1, <2>1, <2>2, SourceSetUp DEF SourcesInv
<1>5. CASE InitializeParser
  BY <1>1, <1>5, InitializeParserStep DEF SourcesInv
<1>6. CASE ParseProgramUnit
  BY <1>1, <1>6, ParseProgramUnitStep DEF SourcesInv
<1>7. CASE VerboseReturn
  BY <1>1, <1>7, VerboseReturnStep DEF SourcesInv
<1>8. CASE EndOfFile
  BY <1>1, <1>8, EndOfFileStep DEF SourcesInv
<1>9. CASE Exit
  <2>1. /\ phase # "parse" /\ phase' # "parse" /\ arg = Len(command.sources) + 1
        /\ UNCHANGED <<command, arg, calls, error, resolved>>
    BY <1>2, <1>9 DEF Exit
  <2> QED
    BY <1>1, <2>1, SourceSetUp DEF SourcesInv
<1> QED
  BY <1>3, <1>4, <1>5, <1>6, <1>7, <1>8, <1>9 DEF Next

LEMMA SourcesInvariant == Spec => []SourcesInv
<1>1. Init => SourcesInv
  <2> SUFFICES ASSUME Init PROVE SourcesInv
    OBVIOUS
  <2>1. TypeOK /\ InSource /\ arg = 1 /\ phase = "arg" /\ error = FALSE
        /\ calls = [i \in 1 .. Len(command.sources) |-> <<>>]
    BY TypeInit DEF Init
  <2>2. Len(command.sources) \in Nat /\ \A k \in 1 .. Len(command.sources) : ~ (k < 1)
    BY <2>1, ArgFacts
  <2>3. Parsing /\ Ended /\ NotYetCalled
    BY <2>1, <2>2 DEF Parsing, Ended, NotYetCalled
  <2>4. ErrorKept /\ Processed
    BY <2>1, <2>2 DEF ErrorKept, Processed
  <2> QED
    BY <2>1, <2>3, <2>4 DEF SourcesInv
<1>2. SourcesInv /\ [Next]_vars => SourcesInv'
  <2>1. CASE Next
    BY <2>1, SourcesStep
  <2>2. CASE UNCHANGED vars
    BY <2>2 DEF vars, SourcesInv, TypeOK, InSource, source, Parsing, NotYetCalled,
                ErrorKept, Ended, Processed, Failed, units, NextHeader
  <2> QED
    BY <2>1, <2>2
<1> QED
  BY <1>1, <1>2, PTL DEF Spec

(* The exit status is 1 just if a source was missing or had a syntax error:  *)
(* ExitReportsFailure of FrontEnd.                                           *)
THEOREM ExitReportsEveryFailure == Spec => []ExitReportsFailure
<1>1. SourcesInv => ExitReportsFailure
  <2> SUFFICES ASSUME SourcesInv, phase = "exit"
               PROVE  error <=> \E k \in 1 .. Len(command.sources) : Failed(k)
    BY DEF ExitReportsFailure
  <2>1. Len(command.sources) \in Nat /\ arg = Len(command.sources) + 1
    BY ArgFacts DEF SourcesInv, Ended
  <2>2. \A k \in 1 .. Len(command.sources) : k < arg
    BY <2>1
  <2> QED
    BY <2>2 DEF SourcesInv, ErrorKept
<1> QED
  BY <1>1, SourcesInvariant, PTL

-----------------------------------------------------------------------------
(* One more directory is searched behind all the others.                     *)
LEMMA FirstDirAppend ==
    ASSUME NEW dirs \in Seq(Dir \cup {NoDir}), NEW d \in Dir \cup {NoDir}, NEW name
    PROVE  FirstDir(Append(dirs, d), name) =
             IF FirstDir(dirs, name) # NotFound THEN FirstDir(dirs, name)
             ELSE IF d = NoDir \/ Has(d, name) THEN d ELSE NotFound
<1> DEFINE more == Append(dirs, d)
           Hits(ds) == {i \in 1 .. Len(ds) : ds[i] = NoDir \/ Has(ds[i], name)}
           last == Len(dirs) + 1
<1>1. /\ Len(dirs) \in Nat /\ Len(more) = last /\ more[last] = d
      /\ \A i \in 1 .. Len(dirs) : more[i] = dirs[i] /\ dirs[i] \in Dir \cup {NoDir}
  BY AppendProperties, LenProperties, ElementOfSeq
<1>2. Hits(more) = Hits(dirs) \cup (IF d = NoDir \/ Has(d, name) THEN {last} ELSE {})
  <2> HIDE DEF more
  <2>1. \A i \in 1 .. last : i = last \/ i \in 1 .. Len(dirs)
    BY <1>1
  <2>2. last \in 1 .. last /\ 1 .. Len(dirs) \subseteq 1 .. last
    BY <1>1
  <2> QED
    BY <1>1, <2>1, <2>2
<1>3. Hits(dirs) \in SUBSET Nat /\ Hits(more) \in SUBSET Nat
  BY <1>1
<1>4. NoDir # NotFound /\ NotFound \notin Dir
  BY FrontEndAssumption
<1> HIDE DEF more
<1>5. CASE Has(Cwd, name)
  BY <1>5, FrontEndAssumption DEF FirstDir, more
<1>6. CASE ~ Has(Cwd, name) /\ Hits(dirs) # {}
  <2> DEFINE first == Min(Hits(dirs))
  <2>1. first \in Hits(dirs) /\ \A k \in Hits(dirs) : first <= k
    <3> HIDE DEF Hits
    <3> QED
      BY <1>3, <1>6, MinFacts
  <2>2. \A k \in Hits(more) : first <= k
    BY <1>1, <1>2, <2>1
  <2>3. Min(Hits(more)) = first
    <3> HIDE DEF first
    <3>1. first \in Hits(more)
      BY <1>2, <2>1
    <3> HIDE DEF Hits
    <3> QED
      BY <1>3, <2>2, <3>1, MinIs
  <2>4. FirstDir(more, name) = more[first] /\ FirstDir(dirs, name) = dirs[first]
    BY <1>2, <1>6, <2>3 DEF FirstDir
  <2>5. more[first] = dirs[first] /\ dirs[first] # NotFound
    <3> HIDE DEF first
    <3> QED
      BY <1>1, <1>4, <2>1
  <2> HIDE DEF first
  <2> QED
    BY <2>4, <2>5 DEF more
<1>7. CASE ~ Has(Cwd, name) /\ Hits(dirs) = {}
  <2>1. FirstDir(dirs, name) = NotFound
    BY <1>7 DEF FirstDir
  <2>2. CASE d = NoDir \/ Has(d, name)
    <3>1. Hits(more) = {last} /\ Hits(more) # {}
      BY <1>2, <1>7, <2>2
    <3>2. Min(Hits(more)) = last
      <4>1. \A k \in {last} : last <= k
        BY <1>1
      <4>2. {last} \in SUBSET Nat
        BY <1>1
      <4> HIDE DEF last, Hits
      <4> QED
        BY <3>1, <4>1, <4>2, MinIs
    <3>3. FirstDir(more, name) = more[last]
      BY <1>7, <3>1, <3>2 DEF FirstDir
    <3> QED
      BY <1>1, <2>1, <2>2, <3>3 DEF more
  <2>3. CASE ~ (d = NoDir \/ Has(d, name))
    <3>1. Hits(more) = {}
      BY <1>2, <1>7, <2>3
    <3>2. FirstDir(more, name) = NotFound
      BY <1>7, <3>1 DEF FirstDir
    <3> QED
      BY <2>1, <2>3, <3>2 DEF more
  <2> QED
    BY <2>2, <2>3
<1> QED
  BY <1>5, <1>6, <1>7

(* Where a header is found if only -I says where to look.                    *)
InDashI(name, p) ==
    /\ p \in 1 .. Len(command.dashI) /\ Has(command.dashI[p], name)
    /\ \A q \in 1 .. (p - 1) : ~ Has(command.dashI[q], name)

LEMMA FirstDirDashI ==
    ASSUME command \in Commands, NEW name
    PROVE  /\ Has(Cwd, name) => FirstDir(command.dashI, name) = Cwd
           /\ \A p : ~ Has(Cwd, name) /\ InDashI(name, p) =>
                  FirstDir(command.dashI, name) = command.dashI[p]
           /\ Elsewhere(name) => FirstDir(command.dashI, name) = NotFound
           /\ ~ Has(Cwd, name) => Elsewhere(name) \/ \E p : InDashI(name, p)
<1> DEFINE found == {i \in 1 .. Len(command.dashI) :
                       command.dashI[i] = NoDir \/ Has(command.dashI[i], name)}
<1>1. /\ Len(command.dashI) \in Nat
      /\ \A i \in 1 .. Len(command.dashI) :
            command.dashI[i] \in Dir /\ command.dashI[i] # NoDir
            /\ command.dashI[i] \in Range(command.dashI)
  <2>1. command.dashI \in Seq(Dir) /\ NoDir \notin Dir
    BY CommandFacts, FrontEndAssumption
  <2> QED
    BY <2>1, LenProperties, ElementOfSeq DEF Range
<1>2. found = {i \in 1 .. Len(command.dashI) : Has(command.dashI[i], name)}
  BY <1>1
<1>3. found \in SUBSET Nat
  BY <1>1
<1>4. ASSUME NEW p, InDashI(name, p) PROVE found # {} /\ Min(found) = p
  <2>1. p \in found
    BY <1>2, <1>4 DEF InDashI
  <2>2. \A k \in found : p <= k
    <3>1. \A k \in 1 .. Len(command.dashI) : p <= k \/ k \in 1 .. (p - 1)
      BY <1>1, <1>4 DEF InDashI
    <3> QED
      BY <1>2, <1>4, <3>1 DEF InDashI
  <2> HIDE DEF found
  <2> QED
    BY <1>3, <2>1, <2>2, MinIs
<1>5. Elsewhere(name) => found = {} /\ ~ Has(Cwd, name)
  BY <1>1, <1>2 DEF Elsewhere
<1>6. found # {} => InDashI(name, Min(found))
  <2> SUFFICES ASSUME found # {} PROVE InDashI(name, Min(found))
    OBVIOUS
  <2> DEFINE first == Min(found)
  <2>1. first \in found /\ \A k \in found : first <= k
    <3> HIDE DEF found
    <3> QED
      BY <1>3, MinFacts
  <2>2. \A q \in 1 .. (first - 1) : q \in 1 .. Len(command.dashI) /\ ~ (first <= q)
    <3> HIDE DEF first
    <3> QED
      BY <1>1, <2>1
  <2> QED
    BY <1>2, <2>1, <2>2 DEF InDashI
<1>7. ~ Has(Cwd, name) /\ found = {} => Elsewhere(name)
  <2>1. command.dashI \in Seq(Dir)
    BY CommandFacts
  <2>2. \A d \in Range(command.dashI) : \E i \in 1 .. Len(command.dashI) : d = command.dashI[i]
    BY <2>1, LenProperties DEF Range
  <2> QED
    BY <1>2, <2>2 DEF Elsewhere
<1> QED
  BY <1>4, <1>5, <1>6, <1>7 DEF FirstDir

-----------------------------------------------------------------------------
(* The first source whose directory ends a search may be the one that is     *)
(* opened: the last of those that have been.                                *)
Opened == IF phase \in {"lex", "parse", "crash"} THEN arg ELSE arg - 1

Names == Header \cup {NoHeader}

Searched == \A name \in Names : HeaderPlace(Opened, name, FirstDir(includeDirs, name))

ResolvedIfExists ==
    \A i \in 1 .. Len(command.sources) :
        ~ command.sources[i].exists => resolved[i] = <<>>

HeadersInv == TypeOK /\ InSource /\ Searched /\ ResolvedIfExists /\ HeadersAsSearched

(* No source is opened yet: only -I counts.                                  *)
LEMMA NoneOpened ==
    ASSUME command \in Commands, NEW name
    PROVE  HeaderPlace(0, name, FirstDir(command.dashI, name))
<1>1. CASE Has(Cwd, name)
  BY <1>1, FirstDirDashI DEF HeaderPlace
<1>2. CASE Elsewhere(name)
  BY <1>2, FirstDirDashI DEF HeaderPlace
<1>3. CASE ~ Has(Cwd, name) /\ \E p : InDashI(name, p)
  <2>1. PICK p : InDashI(name, p)
    BY <1>3
  <2>2. FirstDir(command.dashI, name) = command.dashI[p]
    BY <1>3, <2>1, FirstDirDashI
  <2> QED
    BY <1>3, <2>1, <2>2 DEF HeaderPlace, InDashI
<1> QED
  BY <1>1, <1>2, <1>3, FirstDirDashI

(* The search goes on to the directory of source i just if no directory in   *)
(* front of it ended it.                                                    *)
LEMMA OneMoreOpened ==
    ASSUME command \in Commands, NEW i \in 1 .. Len(command.sources),
           command.sources[i].exists,
           NEW dirs \in Seq(Dir \cup {NoDir}), NEW name,
           HeaderPlace(i - 1, name, FirstDir(dirs, name))
    PROVE  HeaderPlace(i, name, FirstDir(Append(dirs, command.sources[i].dir), name))
<1> DEFINE d == command.sources[i].dir
           f == FirstDir(dirs, name)
           g == FirstDir(Append(dirs, d), name)
<1>1. d \in Dir \cup {NoDir} /\ Len(command.sources) \in Nat /\ i \in Nat
  BY CommandFacts DEF Source
<1>2. g = IF f # NotFound THEN f ELSE IF d = NoDir \/ Has(d, name) THEN d ELSE NotFound
  <2> HIDE DEF d
  <2> QED
    BY <1>1, FirstDirAppend
<1>3. d # NotFound
  BY <1>1, FrontEndAssumption
<1>4. Ends(i, name) <=> d = NoDir \/ Has(d, name)
  BY DEF Ends
<1>5. 1 .. i = 1 .. (i - 1) \cup {i}
  BY <1>1
<1> HIDE DEF d, f, g
<1>6. CASE f # NotFound
  <2>1. g = f
    BY <1>2, <1>6
  <2>2. HeaderPlace(i - 1, name, f)
    BY DEF f
  <2>3. HeaderPlace(i, name, f)
    BY <1>5, <1>6, <2>2 DEF HeaderPlace
  <2> QED
    BY <2>1, <2>3 DEF g, d
<1>7. CASE f = NotFound
  <2>1. Elsewhere(name) /\ \A j \in 1 .. (i - 1) : ~ Ends(j, name)
    <3>1. HeaderPlace(i - 1, name, NotFound)
      BY <1>7 DEF f
    <3>2. NotFound # Cwd /\ NotFound \notin Dir /\ NotFound # NoDir
      BY FrontEndAssumption
    <3>3. \A p \in 1 .. Len(command.dashI) : command.dashI[p] # NotFound
      <4>1. command.dashI \in Seq(Dir)
        BY CommandFacts
      <4> QED
        BY <3>2, <4>1, ElementOfSeq
    <3>4. \A j \in 1 .. (i - 1) : command.sources[j].dir # NotFound
      <4>1. \A j \in 1 .. (i - 1) : j \in 1 .. Len(command.sources)
        BY <1>1
      <4> QED
        BY <3>2, <4>1, CommandFacts DEF Source
    <3> QED
      BY <3>1, <3>2, <3>3, <3>4 DEF HeaderPlace
  <2>2. CASE Ends(i, name)
    <3>1. g = d /\ FirstSource(i, name)
      BY <1>2, <1>4, <1>7, <2>1, <2>2 DEF FirstSource
    <3> QED
      BY <1>5, <3>1 DEF HeaderPlace, g, d
  <2>3. CASE ~ Ends(i, name)
    <3>1. g = NotFound /\ \A j \in 1 .. i : ~ Ends(j, name)
      BY <1>2, <1>4, <1>5, <1>7, <2>1, <2>3
    <3> QED
      BY <2>1, <3>1 DEF HeaderPlace, g, d
  <2> QED
    BY <2>2, <2>3
<1> QED
  BY <1>6, <1>7

(* A header found in the order of the command line is found where it is if   *)
(* the source is the only one, or an earlier source is in the way.          *)
LEMMA AloneOrInTheWay ==
    ASSUME command \in Commands, NEW i \in 1 .. Len(command.sources),
           command.sources[i].exists, NEW name, NEW d, HeaderPlace(i, name, d)
    PROVE  d = Alone(i, name) \/ InTheWay(i, name)
<1> DEFINE own == command.sources[i].dir
<1>1. own \in Dir \cup {NoDir} /\ Len(command.sources) \in Nat /\ i \in Nat
      /\ command.dashI \in Seq(Dir \cup {NoDir}) /\ command.dashI \in Seq(Dir)
  BY CommandFacts DEF Source
<1>2. Alone(i, name) =
        IF FirstDir(command.dashI, name) # NotFound THEN FirstDir(command.dashI, name)
        ELSE IF own = NoDir \/ Has(own, name) THEN own ELSE NotFound
  <2> HIDE DEF own
  <2>1. FirstDir(Append(command.dashI, own), name) =
          IF FirstDir(command.dashI, name) # NotFound THEN FirstDir(command.dashI, name)
          ELSE IF own = NoDir \/ Has(own, name) THEN own ELSE NotFound
    BY <1>1, FirstDirAppend
  <2> QED
    BY <2>1 DEF Alone, own
<1>3. NotFound \notin Dir /\ Cwd \in Dir
  BY FrontEndAssumption
<1> HIDE DEF own
<1>4. CASE d = Cwd /\ Has(Cwd, name)
  BY <1>2, <1>3, <1>4, FirstDirDashI
<1>5. CASE ~ Has(Cwd, name) /\ \E p : InDashI(name, p) /\ d = command.dashI[p]
  <2>1. PICK p : InDashI(name, p) /\ d = command.dashI[p]
    BY <1>5
  <2>2. FirstDir(command.dashI, name) = d /\ d \in Dir
    BY <1>1, <1>5, <2>1, FirstDirDashI, ElementOfSeq DEF InDashI
  <2> QED
    BY <1>2, <1>3, <2>2
<1>6. CASE \E j \in 1 .. i : FirstSource(j, name) /\ d = command.sources[j].dir
  <2>1. PICK j \in 1 .. i : FirstSource(j, name) /\ d = command.sources[j].dir
    BY <1>6
  <2>2. Elsewhere(name) /\ Ends(j, name)
    BY <2>1 DEF FirstSource
  <2>3. CASE j = i
    <3>1. d = own /\ (own = NoDir \/ Has(own, name))
      BY <2>1, <2>2, <2>3 DEF Ends, own
    <3> QED
      BY <1>2, <2>2, <3>1, FirstDirDashI
  <2>4. CASE j # i
    <3>1. j \in 1 .. (i - 1)
      BY <1>1, <2>4
    <3> QED
      BY <2>2, <3>1 DEF InTheWay, Ends
  <2> QED
    BY <2>3, <2>4
<1>7. CASE d = NotFound /\ Elsewhere(name) /\ \A j \in 1 .. i : ~ Ends(j, name)
  <2>1. ~ (own = NoDir \/ Has(own, name))
    <3>1. i \in 1 .. i
      BY <1>1
    <3> QED
      BY <1>7, <3>1 DEF Ends, own
  <2> QED
    BY <1>2, <1>7, <2>1, FirstDirDashI
<1> QED
  BY <1>4, <1>5, <1>6, <1>7 DEF HeaderPlace, InDashI

(* What is appended leaves the names looked for before as they are.          *)
LEMMA PrefixFacts ==
    ASSUME NEW s \in Seq(Place), NEW d \in Place
    PROVE  /\ \A k \in 1 .. Len(s) + 1 : SubSeq(Append(s, d), 1, k - 1) = SubSeq(s, 1, k - 1)
           /\ SubSeq(s, 1, Len(s)) = s
<1>1. Len(s) \in Nat /\ Append(s, d) \in Seq(Place) /\ Len(Append(s, d)) = Len(s) + 1
      /\ \A m \in 1 .. Len(s) : Append(s, d)[m] = s[m]
  BY AppendProperties, LenProperties
<1>2. ASSUME NEW k \in 1 .. Len(s) + 1
      PROVE  SubSeq(Append(s, d), 1, k - 1) = SubSeq(s, 1, k - 1)
  <2>1. \A m \in 1 .. k - 1 : m \in 1 .. Len(s)
    BY <1>1
  <2> QED
    BY <1>1, <2>1
<1>3. SubSeq(s, 1, Len(s)) = s
  <2>1. s = [m \in 1 .. Len(s) |-> s[m]]
    BY LenProperties
  <2> QED
    BY <1>1, <2>1
<1> QED
  BY <1>2, <1>3

LEMMA HeadersInit == Init => HeadersInv
<1> SUFFICES ASSUME Init PROVE HeadersInv
  OBVIOUS
<1>1. TypeOK /\ InSource
  BY TypeInit
<1>2. /\ command \in Commands /\ arg = 1 /\ phase = "arg" /\ includeDirs = command.dashI
      /\ \A i \in 1 .. Len(command.sources) : resolved[i] = <<>>
  BY DEF Init
<1>3. Searched
  <2>1. Opened = 0
    BY <1>2 DEF Opened
  <2> QED
    BY <1>2, <2>1, NoneOpened DEF Searched
<1>4. ResolvedIfExists
  BY <1>2 DEF ResolvedIfExists
<1>5. HeadersAsSearched
  BY <1>2 DEF HeadersAsSearched
<1> QED
  BY <1>1, <1>3, <1>4, <1>5 DEF HeadersInv

(* Whether a header is where it is to be found is a matter of the command    *)
(* line only.                                                               *)
LEMMA PlaceStays ==
    ASSUME command' = command, NEW i, NEW name, NEW d
    PROVE  HeaderPlace(i, name, d)' <=> HeaderPlace(i, name, d)
BY DEF HeaderPlace, FirstSource, Ends, Elsewhere, Has

(* A step that looks for no header.                                         *)
LEMMA NoHeaderStep ==
    ASSUME HeadersInv, UNCHANGED <<command, resolved>>, phase' # "crash"
    PROVE  (ResolvedIfExists /\ HeadersAsSearched)'
<1>1. \A i, k : Name(i, k)' = Name(i, k)
  BY DEF Name
<1>2. \A i \in 1 .. Len(command.sources) : \A k \in 1 .. Len(resolved[i]) :
         resolved[i][k] # NoDir /\ HeaderPlace(i, Name(i, k), resolved[i][k])
  BY DEF HeadersInv, HeadersAsSearched
<1>3. \A i \in 1 .. Len(command.sources) : \A k \in 1 .. Len(resolved'[i]) :
         /\ resolved'[i][k] # NoDir
         /\ HeaderPlace(i, Name(i, k)', resolved'[i][k])
  BY <1>1, <1>2
<1>4. HeadersAsSearched'
  BY <1>3, PlaceStays DEF HeadersAsSearched
<1> QED
  BY <1>4 DEF HeadersInv, ResolvedIfExists

LEMMA OpenSourceStep ==
    ASSUME HeadersInv, OpenSource
    PROVE  (Searched /\ ResolvedIfExists /\ HeadersAsSearched)'
<1>1. /\ phase = "arg" /\ phase' = "lex" /\ UNCHANGED <<command, arg, resolved>>
      /\ arg <= Len(command.sources) /\ command.sources[arg].exists
      /\ includeDirs' = Append(includeDirs, command.sources[arg].dir)
  BY DEF OpenSource, AddedDirs, source
<1>2. /\ command \in Commands /\ includeDirs \in Seq(Dir \cup {NoDir})
      /\ arg \in 1 .. Len(command.sources)
  BY <1>1, ArgFacts DEF HeadersInv, TypeOK
<1>3. Opened = arg - 1 /\ Opened' = arg
  BY <1>1 DEF Opened
<1>4. \A name \in Names : HeaderPlace(arg, name, FirstDir(includeDirs', name))
  BY <1>1, <1>2, <1>3, OneMoreOpened DEF HeadersInv, Searched
<1>5. Searched'
  <2>1. \A name \in Names : FirstDir(includeDirs, name)' = FirstDir(includeDirs', name)
    OBVIOUS
  <2> QED
    BY <1>1, <1>3, <1>4, <2>1, PlaceStays DEF Searched, Names
<1> QED
  BY <1>1, <1>5, NoHeaderStep

(* When the next source is taken, the one before it was opened or is not     *)
(* there.                                                                   *)
LEMMA MissingIsNoEnd ==
    ASSUME HeadersInv, MissingSource, NEW name, NEW d, HeaderPlace(arg - 1, name, d)
    PROVE  HeaderPlace(arg, name, d)
<1>1. ~ command.sources[arg].exists /\ arg \in 1 .. Len(command.sources) + 1
      /\ Len(command.sources) \in Nat
  BY ArgFacts DEF HeadersInv, MissingSource, source
<1>2. ~ Ends(arg, name)
  BY <1>1 DEF Ends
<1>3. 1 .. arg = 1 .. (arg - 1) \cup {arg}
  BY <1>1
<1> QED
  BY <1>2, <1>3 DEF HeaderPlace

LEMMA FollowIncludeStep ==
    ASSUME HeadersInv, FollowInclude
    PROVE  (Searched /\ ResolvedIfExists /\ HeadersAsSearched)'
<1> DEFINE d == FirstDir(includeDirs, NextHeader)
<1>1. /\ phase = "lex" /\ UNCHANGED <<command, arg, phase, includeDirs>>
      /\ resolved' = [resolved EXCEPT ![arg] = Append(@, d)] /\ d # NoDir
  BY DEF FollowInclude
<1>2. /\ command \in Commands /\ includeDirs \in Seq(Dir \cup {NoDir})
      /\ resolved \in [1 .. Len(command.sources) -> Found]
      /\ arg \in 1 .. Len(command.sources) /\ command.sources[arg].exists
  BY <1>1, ArgFacts DEF HeadersInv, TypeOK, InSource, source
<1>3. NextHeader \in Names
  BY <1>2, SourceFacts DEF NextHeader, Names, source
<1>4. d \in Place
  BY <1>1, <1>2, FirstDirFacts DEF Place
<1>5. HeaderPlace(arg, NextHeader, d)
  <2>1. Opened = arg
    BY <1>1 DEF Opened
  <2> QED
    BY <1>3, <2>1 DEF HeadersInv, Searched
<1> HIDE DEF d
<1>6. Searched'
  <2>1. Opened' = Opened
    BY <1>1 DEF Opened
  <2>2. \A name \in Names : FirstDir(includeDirs, name)' = FirstDir(includeDirs, name)
    BY <1>1
  <2> QED
    BY <1>1, <2>1, <2>2, PlaceStays DEF HeadersInv, Searched, Names
<1>7. ResolvedIfExists'
  <2>1. \A i \in 1 .. Len(command.sources) : i # arg => resolved'[i] = resolved[i]
    BY <1>1, <1>2
  <2> QED
    BY <1>1, <1>2, <2>1 DEF HeadersInv, ResolvedIfExists
<1>8. HeadersAsSearched'
  <2> SUFFICES ASSUME NEW i \in 1 .. Len(command.sources), NEW k \in 1 .. Len(resolved'[i])
               PROVE  resolved'[i][k] # NoDir /\ HeaderPlace(i, Name(i, k)', resolved'[i][k])
    BY <1>1, PlaceStays DEF HeadersAsSearched
  <2>1. CASE i # arg
    <3>1. resolved'[i] = resolved[i]
      BY <1>1, <1>2, <2>1
    <3>2. Name(i, k)' = Name(i, k)
      BY <1>1, <3>1 DEF Name
    <3> QED
      BY <3>1, <3>2 DEF HeadersInv, HeadersAsSearched
  <2>2. CASE i = arg
    <3> DEFINE s == resolved[arg]
    <3>1. resolved'[i] = Append(s, d)
      BY <1>1, <1>2, <2>2
    <3>2. s \in Seq(Place) /\ Len(s) \in Nat
      <4>1. s \in Found /\ Len(s) \in 0 .. MaxIncludes /\ s \in [1 .. Len(s) -> Place]
        BY <1>2, SourceFacts
      <4>2. Len(s) \in Nat
        BY <4>1, FrontEndAssumption
      <4> HIDE DEF s
      <4> QED
        BY <4>1, <4>2
    <3>3. /\ Len(Append(s, d)) = Len(s) + 1 /\ Append(s, d)[Len(s) + 1] = d
          /\ \A m \in 1 .. Len(s) : Append(s, d)[m] = s[m]
      <4> HIDE DEF s
      <4> QED
        BY <1>4, <3>2, AppendProperties
    <3>4. k \in 1 .. Len(s) + 1
      BY <3>1, <3>3
    <3>5. SubSeq(Append(s, d), 1, k - 1) = SubSeq(s, 1, k - 1) /\ SubSeq(s, 1, Len(s)) = s
      <4> HIDE DEF s
      <4> QED
        BY <1>4, <3>2, <3>4, PrefixFacts
    <3>6. Name(i, k)' = Name(arg, k)
      BY <1>1, <2>2, <3>1, <3>5 DEF Name
    <3>7. CASE k = Len(s) + 1
      <4>1. SubSeq(s, 1, k - 1) = s
        BY <3>2, <3>5, <3>7
      <4>2. Name(arg, k) = NextHeader
        BY <4>1 DEF Name, NextHeader, source
      <4>3. resolved'[i][k] = d
        BY <3>1, <3>3, <3>7
      <4> QED
        BY <1>1, <1>5, <2>2, <3>6, <4>2, <4>3
    <3>8. CASE k # Len(s) + 1
      <4>1. k \in 1 .. Len(s)
        BY <3>2, <3>4, <3>8
      <4>2. resolved'[i][k] = resolved[arg][k]
        BY <3>1, <3>3, <4>1
      <4>3. resolved[arg][k] # NoDir /\ HeaderPlace(arg, Name(arg, k), resolved[arg][k])
        BY <1>2, <4>1 DEF HeadersInv, HeadersAsSearched
      <4> QED
        BY <2>2, <3>6, <4>2, <4>3
    <3> QED
      BY <3>7, <3>8
  <2> QED
    BY <2>1, <2>2
<1> QED
  BY <1>6, <1>7, <1>8

LEMMA IncludeCrashStep ==
    ASSUME HeadersInv, IncludeCrash
    PROVE  (Searched /\ ResolvedIfExists /\ HeadersAsSearched)'
<1>1. /\ phase = "lex" /\ phase' = "crash" /\ UNCHANGED <<command, arg, includeDirs, resolved>>
      /\ FirstDir(includeDirs, NextHeader) = NoDir
  BY DEF IncludeCrash
<1>2. /\ command \in Commands /\ resolved \in [1 .. Len(command.sources) -> Found]
      /\ arg \in 1 .. Len(command.sources)
  BY <1>1, ArgFacts DEF HeadersInv, TypeOK
<1>3. NextHeader \in Names /\ Opened = arg /\ Opened' = arg
  BY <1>1, <1>2, SourceFacts DEF NextHeader, Names, source, Opened
<1>4. HeaderPlace(arg, NextHeader, NoDir)
  BY <1>1, <1>3 DEF HeadersInv, Searched
<1>5. Searched'
  <2>1. \A name \in Names : FirstDir(includeDirs, name)' = FirstDir(includeDirs, name)
    BY <1>1
  <2> QED
    BY <1>1, <1>3, <2>1, PlaceStays DEF HeadersInv, Searched, Names
<1>6. HeadersAsSearched'
  <2>1. NextHeader' = NextHeader /\ \A i, k : Name(i, k)' = Name(i, k)
    BY <1>1 DEF NextHeader, Name, source
  <2>2. \A i \in 1 .. Len(command.sources) :
           /\ \A k \in 1 .. Len(resolved'[i]) :
                 resolved'[i][k] # NoDir /\ HeaderPlace(i, Name(i, k)', resolved'[i][k])
           /\ i = arg => HeaderPlace(i, NextHeader', NoDir)
    BY <1>1, <1>4, <2>1 DEF HeadersInv, HeadersAsSearched
  <2> QED
    BY <1>1, <2>2, PlaceStays DEF HeadersAsSearched
<1> QED
  BY <1>1, <1>5, <1>6 DEF HeadersInv, ResolvedIfExists

LEMMA HeadersStep ==
    ASSUME HeadersInv, Next
    PROVE  HeadersInv'
<1>0. TypeOK' /\ InSource'
  BY TypeStep DEF HeadersInv
<1>a. arg \in Nat
  BY ArgFacts DEF HeadersInv
<1>1. CASE MissingSource
  <2>1. /\ phase = "arg" /\ phase' = "arg" /\ arg' = arg + 1
        /\ UNCHANGED <<command, includeDirs, resolved>>
    BY <1>1 DEF MissingSource
  <2>2. Opened = arg - 1 /\ Opened' = arg
    BY <1>a, <2>1 DEF Opened
  <2>3. \A name \in Names : HeaderPlace(arg, name, FirstDir(includeDirs, name))
    BY <1>1, <2>2, MissingIsNoEnd DEF HeadersInv, Searched
  <2>4. \A name \in Names : FirstDir(includeDirs, name)' = FirstDir(includeDirs, name)
    BY <2>1
  <2>5. Searched'
    BY <2>1, <2>2, <2>3, <2>4, PlaceStays DEF Searched, Names
  <2> QED
    BY <1>0, <2>1, <2>5, NoHeaderStep DEF HeadersInv
<1>2. CASE OpenSource
  BY <1>0, <1>2, OpenSourceStep DEF HeadersInv
<1>3. CASE FollowInclude
  BY <1>0, <1>3, FollowIncludeStep DEF HeadersInv
<1>4. CASE IncludeCrash
  BY <1>0, <1>4, IncludeCrashStep DEF HeadersInv
<1>5. CASE InitializeParser \/ ParseProgramUnit \/ VerboseReturn \/ EndOfFile \/ Exit
  <2>1. /\ phase' # "crash" /\ UNCHANGED <<command, includeDirs, resolved>>
    BY <1>5 DEF InitializeParser, ParseProgramUnit, VerboseReturn, EndOfFile, Exit, NextSource
  <2>2. Opened' = Opened
    <3>1. CASE InitializeParser \/ ParseProgramUnit
      BY <3>1 DEF Opened, InitializeParser, ParseProgramUnit
    <3>2. CASE VerboseReturn \/ EndOfFile
      BY <1>a, <3>2 DEF Opened, VerboseReturn, EndOfFile, NextSource
    <3>3. CASE Exit
      BY <3>3 DEF Opened, Exit
    <3> QED
      BY <1>5, <3>1, <3>2, <3>3
  <2>3. \A name \in Names : FirstDir(includeDirs, name)' = FirstDir(includeDirs, name)
    BY <2>1
  <2>4. Searched'
    BY <2>1, <2>2, <2>3, PlaceStays DEF HeadersInv, Searched, Names
  <2> QED
    BY <1>0, <2>1, <2>4, NoHeaderStep DEF HeadersInv
<1> QED
  BY <1>1, <1>2, <1>3, <1>4, <1>5 DEF Next

LEMMA HeadersInvariant == Spec => []HeadersInv
<1>1. HeadersInv /\ UNCHANGED vars => HeadersInv'
  <2> SUFFICES ASSUME HeadersInv, UNCHANGED vars PROVE HeadersInv'
    OBVIOUS
  <2>1. UNCHANGED <<command, arg, phase, includeDirs, resolved>>
    BY DEF vars
  <2>2. TypeOK' /\ InSource'
    BY DEF vars, HeadersInv, TypeOK, InSource, source
  <2>3. Searched'
    <3>1. Opened' = Opened
      BY <2>1 DEF Opened
    <3>2. \A name \in Names : FirstDir(includeDirs, name)' = FirstDir(includeDirs, name)
      BY <2>1
    <3> QED
      BY <2>1, <3>1, <3>2, PlaceStays DEF HeadersInv, Searched, Names
  <2>4. HeadersAsSearched'
    <3>1. NextHeader' = NextHeader /\ \A i, k : Name(i, k)' = Name(i, k)
      BY <2>1 DEF NextHeader, Name, source
    <3>2. \A i \in 1 .. Len(command.sources) :
             /\ \A k \in 1 .. Len(resolved'[i]) :
                   resolved'[i][k] # NoDir /\ HeaderPlace(i, Name(i, k)', resolved'[i][k])
             /\ i = arg' /\ phase' = "crash" => HeaderPlace(i, NextHeader', NoDir)
      BY <2>1, <3>1 DEF HeadersInv, HeadersAsSearched
    <3> QED
      BY <2>1, <3>2, PlaceStays DEF HeadersAsSearched
  <2> QED
    BY <2>1, <2>2, <2>3, <2>4 DEF HeadersInv, ResolvedIfExists
<1>2. HeadersInv /\ [Next]_vars => HeadersInv'
  BY <1>1, HeadersStep
<1> QED
  BY <1>2, HeadersInit, PTL DEF Spec

(* Every header is found in the first directory of the command line that has *)
(* it, and a source without a directory makes the front end crash only if   *)
(* none in front of it has the header: HeadersAsSearched of FrontEnd.        *)
THEOREM HeadersFound == Spec => []HeadersAsSearched
<1>1. HeadersInv => HeadersAsSearched
  BY DEF HeadersInv
<1> QED
  BY <1>1, HeadersInvariant, PTL

(* However long the command line is and whatever its sources do, each source *)
(* is processed as if it were the only one, but for the headers an earlier   *)
(* source is in the way of: SourcesIndependent of FrontEnd.                  *)
THEOREM SourcesAreIndependent == Spec => []SourcesIndependent
<1>1. SourcesInv /\ HeadersInv => SourcesIndependent
  <2> SUFFICES ASSUME SourcesInv, HeadersInv, NEW i \in 1 .. Len(command.sources)
               PROVE  /\ i < arg =>
                           IF command.sources[i].exists
                           THEN /\ command.sources[i].includes[resolved[i]] = NoHeader
                                /\ calls[i] = Seen(command.sources[i].units[resolved[i]])
                           ELSE calls[i] = <<>>
                      /\ \A k \in 1 .. Len(resolved[i]) :
                           resolved[i][k] = Alone(i, Name(i, k)) \/ InTheWay(i, Name(i, k))
                      /\ i = arg /\ phase = "crash" =>
                           Alone(i, NextHeader) = NoDir \/ InTheWay(i, NextHeader)
    BY DEF SourcesIndependent
  <2>1. command \in Commands
    BY DEF HeadersInv, TypeOK
  <2>2. ASSUME NEW k \in 1 .. Len(resolved[i])
        PROVE  resolved[i][k] = Alone(i, Name(i, k)) \/ InTheWay(i, Name(i, k))
    <3>1. command.sources[i].exists
      <4>1. Len(<<>>) = 0
        OBVIOUS
      <4> QED
        BY <2>2, <4>1 DEF HeadersInv, ResolvedIfExists
    <3>2. HeaderPlace(i, Name(i, k), resolved[i][k])
      BY DEF HeadersInv, HeadersAsSearched
    <3> QED
      BY <2>1, <3>1, <3>2, AloneOrInTheWay
  <2>3. ASSUME i = arg, phase = "crash"
        PROVE  Alone(i, NextHeader) = NoDir \/ InTheWay(i, NextHeader)
    <3>1. command.sources[i].exists
      BY <2>3 DEF HeadersInv, InSource, source
    <3>2. HeaderPlace(i, NextHeader, NoDir)
      BY <2>3 DEF HeadersInv, HeadersAsSearched
    <3> QED
      BY <2>1, <3>1, <3>2, AloneOrInTheWay
  <2> QED
    BY <2>2, <2>3 DEF SourcesInv, Processed
<1> QED
  BY <1>1, SourcesInvariant, HeadersInvariant, PTL
=============================================================================
