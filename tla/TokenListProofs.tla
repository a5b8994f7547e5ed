-------------------------- MODULE TokenListProofs --------------------------
(***************************************************************************)
(* No token is lost or freed twice, the latest token is the last with a     *)
(* line, and the array implements the registry, for lists of any size.      *)
(***************************************************************************)
EXTENDS TokenList, SequenceTheorems, TLAPS

USE TokenListAssumption

(* The first of the pending tokens, and those behind it.                    *)
LEMMA FirstAndRest ==
    ASSUME NEW S, NEW s \in Seq(S), s # <<>>
    PROVE  /\ Len(s) \in Nat \ {0}
           /\ Head(s) = s[1]
           /\ s[1] \in S
           /\ Tail(s) \in Seq(S)
           /\ Len(Tail(s)) = Len(s) - 1
           /\ \A i \in 1 .. Len(Tail(s)) : Tail(s)[i] = s[i + 1]
<1>1. Len(s) \in Nat \ {0}
  BY EmptySeq
<1>2. 1 \in 1 .. Len(s)
  BY <1>1
<1>3. Head(s) = s[1]
  BY <1>1, <1>2, HeadTailOfSubSeq, SubSeqFull
<1> QED
  BY <1>1, <1>2, <1>3, ElementOfSeq, HeadTailProperties

(* The size register_token computes is an int and has room for one token    *)
(* more: a size that has wrapped around is not positive.                    *)
LEMMA SizeAfterRegister ==
    ASSUME ListTypeOK, NeededSize > 0
    PROVE  /\ NeededSize \in 0 .. IntMax
           /\ num_tokens < NeededSize
           /\ token_list_size <= NeededSize
<1>1. token_list_size \in Nat /\ token_list_size <= IntMax /\ num_tokens \in 0 .. token_list_size
  BY DEF ListTypeOK
<1>2. CASE token_list_size = 0
  BY <1>1, <1>2 DEF NeededSize
<1>3. CASE token_list_size # 0 /\ num_tokens = token_list_size
  <2>1. NeededSize = Doubled
    BY <1>3 DEF NeededSize
  <2>2. 2 * token_list_size <= IntMax /\ Doubled = 2 * token_list_size
    BY <1>1, <1>3, <2>1 DEF Doubled
  <2> QED
    BY <1>1, <1>3, <2>1, <2>2
<1>4. CASE token_list_size # 0 /\ num_tokens # token_list_size
  BY <1>1, <1>4 DEF NeededSize
<1> QED
  BY <1>2, <1>3, <1>4

(* What register_token does to the list: the old elements stay, and the     *)
(* new token is behind them.                                                *)
LEMMA RegisteredBehind ==
    ASSUME ListTypeOK, RegisterToken
    PROVE  /\ token_list' \in [0 .. (NeededSize - 1) -> Token \cup {NULL}]
           /\ token_list'[num_tokens] = pending[1]
           /\ \A i \in Used : token_list'[i] = token_list[i]
           /\ \A i \in 0 .. (NeededSize - 1) : token_list'[i] # NULL <=> i < num_tokens + 1
<1> DEFINE N == NeededSize
<1>1. /\ N \in 0 .. IntMax /\ num_tokens < N /\ token_list_size <= N
      /\ num_tokens \in 0 .. token_list_size /\ token_list_size \in Nat
  <2>1. NeededSize > 0
    BY DEF RegisterToken
  <2> QED
    BY <2>1, SizeAfterRegister DEF ListTypeOK
<1>2. pending[1] \in Token /\ Head(pending) = pending[1]
  <2>1. pending \in Seq(Token) /\ pending # <<>>
    BY DEF ListTypeOK, RegisterToken
  <2> QED
    BY <2>1, FirstAndRest
<1>3. token_list' = [Grown(N) EXCEPT ![num_tokens] = pending[1]]
  BY <1>2 DEF RegisterToken
<1>4. token_list \in [Index -> Token \cup {NULL}]
      /\ \A i \in Index : token_list[i] # NULL <=> i < num_tokens
  BY DEF ListTypeOK
<1> HIDE DEF N
<1>5. /\ Grown(N) \in [0 .. (N - 1) -> Token \cup {NULL}]
      /\ \A i \in 0 .. (N - 1) : Grown(N)[i] # NULL <=> i < num_tokens
      /\ \A i \in Used : Grown(N)[i] = token_list[i]
  BY <1>1, <1>4 DEF Grown, Index, Used
<1>6. num_tokens \in 0 .. (N - 1)
  BY <1>1
<1>7. /\ token_list' \in [0 .. (N - 1) -> Token \cup {NULL}]
      /\ token_list'[num_tokens] = pending[1]
      /\ \A i \in 0 .. (N - 1) : i # num_tokens => token_list'[i] = Grown(N)[i]
  BY <1>2, <1>3, <1>5, <1>6
<1>8. \A i \in Used : token_list'[i] = token_list[i]
  BY <1>1, <1>5, <1>7 DEF Used
<1>9. \A i \in 0 .. (N - 1) : token_list'[i] # NULL <=> i < num_tokens + 1
  BY <1>1, <1>2, <1>5, <1>7
<1> QED
  BY <1>7, <1>8, <1>9 DEF N

-----------------------------------------------------------------------------
LEMMA InitType == Init => ListTypeOK
<1> SUFFICES ASSUME Init PROVE ListTypeOK
  OBVIOUS
<1>1. pending \in Seq(Token)
  BY EmptySeq DEF Init
<1>2. Index = 0 .. -1 /\ 0 .. -1 = {}
  BY DEF Init, Index
<1> QED
  BY <1>1, <1>2 DEF Init, ListTypeOK, NoList

(* Every step keeps the types, and the list has room for what it gets.       *)
LEMMA TypeStep == ListTypeOK /\ [Next]_vars => ListTypeOK'
<1> SUFFICES ASSUME ListTypeOK, [Next]_vars
             PROVE  ListTypeOK'
  OBVIOUS
<1>1. ASSUME NEW t \in Token, NEW l \in Line, CreateToken(t, l)
      PROVE  ListTypeOK'
  <2>1. pending' \in Seq(Token)
    BY <1>1, AppendProperties DEF CreateToken, ListTypeOK
  <2>2. line' \in [Token -> Line]
    BY <1>1 DEF CreateToken, ListTypeOK
  <2> QED
    BY <1>1, <2>1, <2>2 DEF CreateToken, ListTypeOK, Index
<1>2. CASE CallAction
  BY <1>2 DEF CallAction, ListTypeOK, Index
<1>3. CASE RegisterToken
  <2>1. NeededSize > 0
    BY <1>3 DEF RegisterToken
  <2>2. /\ NeededSize \in 0 .. IntMax /\ num_tokens < NeededSize
        /\ num_tokens \in Nat
    BY <2>1, SizeAfterRegister DEF ListTypeOK
  <2>3. pending \in Seq(Token) /\ pending # <<>>
    BY <1>3 DEF RegisterToken, ListTypeOK
  <2>4. /\ Len(pending) \in Nat \ {0} /\ Head(pending) = pending[1] /\ pending[1] \in Token
        /\ Tail(pending) \in Seq(Token) /\ Len(Tail(pending)) = Len(pending) - 1
    BY <2>3, FirstAndRest
  <2>5. token_list_size' = NeededSize /\ num_tokens' = num_tokens + 1
    BY <1>3 DEF RegisterToken
  <2>6. token_list_size' \in 0 .. IntMax /\ num_tokens' \in 0 .. token_list_size'
    BY <2>2, <2>5
  <2>7. /\ token_list' \in [Index' -> Token \cup {NULL}]
        /\ \A i \in Index' : token_list'[i] # NULL <=> i < num_tokens'
    <3>1. Index' = 0 .. (NeededSize - 1)
      BY <2>5 DEF Index
    <3> QED
      BY <1>3, <2>5, <3>1, RegisteredBehind
  <2>8. token_current' \in Token \cup {NULL}
    BY <1>3, <2>4 DEF RegisterToken, Latest, ListTypeOK
  <2>9. pending' \in Seq(Token)
    BY <1>3, <2>4 DEF RegisterToken
  <2>10. /\ step' \in {"create", "register", "exit"}
         /\ step' = "register" => pending' # <<>>
    <3>1. step' = StepAfterRegister /\ pending' = Tail(pending)
      BY <1>3 DEF RegisterToken
    <3>2. Len(pending) # 1 => Tail(pending) # <<>>
      BY <2>4, EmptySeq
    <3> QED
      BY <3>1, <3>2 DEF StepAfterRegister
  <2>11. line' \in [Token -> Line] /\ live' \subseteq Token
    BY <1>3 DEF RegisterToken, ListTypeOK
  <2> QED
    BY <2>6, <2>7, <2>8, <2>9, <2>10, <2>11 DEF ListTypeOK
<1>4. CASE AllocationFails
  BY <1>4 DEF AllocationFails, ListTypeOK, Index
<1>5. CASE FreeTokenList
  <2>1. Index' = {} /\ 0 .. -1 = {}
    BY <1>5 DEF FreeTokenList, Index
  <2> QED
    BY <1>5, <2>1 DEF FreeTokenList, ListTypeOK, NoList
<1>6. CASE UNCHANGED vars
  BY <1>6 DEF vars, ListTypeOK, Index
<1> QED
  BY <1>1, <1>2, <1>3, <1>4, <1>5, <1>6 DEF Next

(* ListTypeOK holds always: register_token never stores behind the list, and     *)
(* the size of the list stays an int, for every INIT_TOKEN_LIST_SIZE and     *)
(* every width of int.                                                      *)
THEOREM TypeCorrect == Spec => []ListTypeOK
<1> QED
  BY InitType, TypeStep, PTL DEF Spec

-----------------------------------------------------------------------------
(* What register_token does to the two sets of tokens: the first pending    *)
(* token becomes the last registered one.                                   *)
LEMMA RegisterMoves ==
    ASSUME ListTypeOK, RegisterToken
    PROVE  /\ num_tokens \in Nat /\ num_tokens' = num_tokens + 1
           /\ Used' = Used \cup {num_tokens} /\ num_tokens \notin Used
           /\ token_list'[num_tokens] = pending[1]
           /\ \A i \in Used : token_list'[i] = token_list[i]
           /\ Len(pending) \in Nat \ {0} /\ pending[1] \in Token
           /\ Len(pending') = Len(pending) - 1
           /\ \A i \in 1 .. Len(pending') : pending'[i] = pending[i + 1]
<1>1. pending \in Seq(Token) /\ pending # <<>>
  BY DEF RegisterToken, ListTypeOK
<1>2. num_tokens \in Nat /\ num_tokens' = num_tokens + 1 /\ pending' = Tail(pending)
  BY DEF RegisterToken, ListTypeOK
<1>3. Used' = Used \cup {num_tokens} /\ num_tokens \notin Used
  BY <1>2 DEF Used
<1> QED
  BY <1>1, <1>2, <1>3, FirstAndRest, RegisteredBehind

(* Every step leaves each allocated token in one place.                     *)
LEMMA OwnedStep == ListTypeOK /\ EveryTokenOwned /\ [Next]_vars => EveryTokenOwned'
<1> SUFFICES ASSUME ListTypeOK, EveryTokenOwned, [Next]_vars
             PROVE  EveryTokenOwned'
  OBVIOUS
<1>1. ASSUME NEW t \in Token, NEW l \in Line, CreateToken(t, l)
      PROVE  EveryTokenOwned'
  <2>1. pending \in Seq(Token) /\ pending' = Append(pending, t)
    BY <1>1 DEF CreateToken, ListTypeOK
  <2>2. /\ Len(pending) \in Nat /\ Len(pending') = Len(pending) + 1
        /\ pending'[Len(pending) + 1] = t
        /\ \A i \in 1 .. Len(pending) : pending'[i] = pending[i]
    BY <2>1, AppendProperties, LenProperties
  <2>3. Pending' = Pending \cup {t}
    <3>1. 1 .. Len(pending') = (1 .. Len(pending)) \cup {Len(pending) + 1}
      BY <2>2
    <3> QED
      BY <2>2, <3>1 DEF Pending
  <2>4. Registered' = Registered /\ Used' = Used /\ token_list' = token_list
    BY <1>1 DEF CreateToken, Registered, Used
  <2>5. t \notin live /\ live' = live \cup {t}
    BY <1>1 DEF CreateToken
  <2>6. t \notin Registered /\ t \notin Pending
    BY <2>5 DEF EveryTokenOwned
  <2>7. \A i, j \in 1 .. Len(pending') : pending'[i] = pending'[j] => i = j
    <3>1. \A i \in 1 .. Len(pending) : pending[i] # t
      BY <2>6 DEF Pending
    <3> QED
      BY <2>2, <3>1 DEF EveryTokenOwned
  <2> QED
    BY <2>3, <2>4, <2>5, <2>6, <2>7 DEF EveryTokenOwned
<1>2. CASE CallAction
  BY <1>2 DEF CallAction, EveryTokenOwned, Registered, Pending, Used
<1>3. CASE RegisterToken
  <2> DEFINE t == pending[1]
  <2>1. /\ num_tokens \in Nat
        /\ Used' = Used \cup {num_tokens} /\ num_tokens \notin Used
        /\ token_list'[num_tokens] = t
        /\ \A i \in Used : token_list'[i] = token_list[i]
        /\ Len(pending) \in Nat \ {0}
        /\ Len(pending') = Len(pending) - 1
        /\ \A i \in 1 .. Len(pending') : pending'[i] = pending[i + 1]
    BY <1>3, RegisterMoves
  <2>2. t \in Pending
    BY <2>1 DEF Pending
  <2>3. Registered' = Registered \cup {t}
    BY <2>1 DEF Registered
  <2>4. \A i \in 2 .. Len(pending) : pending[i] # t
    BY <2>1 DEF EveryTokenOwned
  <2>5. Pending' = Pending \ {t}
    <3>1. Pending' = {pending[i + 1] : i \in 1 .. Len(pending')}
      BY <2>1 DEF Pending
    <3>2. {pending[i + 1] : i \in 1 .. Len(pending')} = {pending[i] : i \in 2 .. Len(pending)}
      <4>1. \A i \in 1 .. Len(pending') : i + 1 \in 2 .. Len(pending)
        BY <2>1
      <4>2. \A i \in 2 .. Len(pending) : i - 1 \in 1 .. Len(pending') /\ (i - 1) + 1 = i
        BY <2>1
      <4> QED
        BY <4>1, <4>2
    <3>3. 1 .. Len(pending) = {1} \cup (2 .. Len(pending))
      BY <2>1
    <3> QED
      BY <2>4, <3>1, <3>2, <3>3 DEF Pending
  <2>6. live' = live
    BY <1>3 DEF RegisterToken
  <2>7. t \notin Registered
    BY <2>2 DEF EveryTokenOwned
  <2>8. \A i, j \in Used' : token_list'[i] = token_list'[j] => i = j
    <3>1. \A i \in Used : token_list[i] # t
      BY <2>7 DEF Registered
    <3> QED
      BY <2>1, <3>1 DEF EveryTokenOwned
  <2>9. \A i, j \in 1 .. Len(pending') : pending'[i] = pending'[j] => i = j
    BY <2>1 DEF EveryTokenOwned
  <2> HIDE DEF t
  <2> QED
    BY <2>2, <2>3, <2>5, <2>6, <2>7, <2>8, <2>9 DEF EveryTokenOwned
<1>4. CASE AllocationFails
  BY <1>4 DEF AllocationFails, EveryTokenOwned, Registered, Pending, Used
<1>5. CASE FreeTokenList
  <2>1. live' = live \ Registered /\ pending' = pending
    BY <1>5 DEF FreeTokenList, Freed, Registered
  <2>2. Used' = {}
    BY <1>5 DEF FreeTokenList, Used
  <2>3. Registered' = {}
    BY <2>2 DEF Registered
  <2>4. Pending' = Pending
    BY <2>1 DEF Pending
  <2> QED
    BY <2>1, <2>2, <2>3, <2>4 DEF EveryTokenOwned
<1>6. CASE UNCHANGED vars
  BY <1>6 DEF vars, EveryTokenOwned, Registered, Pending, Used
<1> QED
  BY <1>1, <1>2, <1>3, <1>4, <1>5, <1>6 DEF Next

LEMMA InitOwned == Init => EveryTokenOwned
<1> SUFFICES ASSUME Init PROVE EveryTokenOwned
  OBVIOUS
<1>1. Used = {} /\ 1 .. Len(pending) = {}
  BY EmptySeq DEF Init, Used
<1> QED
  BY <1>1 DEF Init, EveryTokenOwned, Registered, Pending

(* EveryTokenOwned holds always: free_token_list frees each token once, and  *)
(* no token that create_token made is lost.                                 *)
THEOREM NoTokenLost == Spec => []EveryTokenOwned
<1> QED
  BY InitType, TypeStep, InitOwned, OwnedStep, PTL DEF Spec

-----------------------------------------------------------------------------
(* A step that leaves the list, its tokens' lines and token_current alone    *)
(* leaves LatestHasLine alone.                                              *)
LEMMA SameLatest ==
    ASSUME LatestHasLine, Used' = Used, token_list' = token_list,
           token_current' = token_current,
           \A i \in Used : line'[token_list[i]] = line[token_list[i]]
    PROVE  LatestHasLine'
<1>1. HasLine' = HasLine
  BY DEF HasLine
<1> QED
  BY <1>1 DEF LatestHasLine

(* Every step keeps token_current on the last token with a line: malloc      *)
(* never returns a token of the list, so that no line in it changes.        *)
LEMMA LatestStep ==
    ListTypeOK /\ EveryTokenOwned /\ LatestHasLine /\ [Next]_vars => LatestHasLine'
<1> SUFFICES ASSUME ListTypeOK, EveryTokenOwned, LatestHasLine, [Next]_vars
             PROVE  LatestHasLine'
  OBVIOUS
<1>1. ASSUME NEW t \in Token, NEW l \in Line, CreateToken(t, l)
      PROVE  LatestHasLine'
  <2>1. \A i \in Used : token_list[i] # t
    BY <1>1 DEF CreateToken, EveryTokenOwned, Registered
  <2>2. \A i \in Used : line'[token_list[i]] = line[token_list[i]]
    <3>1. \A i \in Used : token_list[i] \in Token
      BY DEF EveryTokenOwned, Registered, ListTypeOK
    <3> QED
      BY <1>1, <2>1, <3>1 DEF CreateToken, ListTypeOK
  <2> QED
    BY <1>1, <2>2, SameLatest DEF CreateToken, Used
<1>2. CASE CallAction
  BY <1>2, SameLatest DEF CallAction, Used
<1>3. CASE RegisterToken
  <2> DEFINE t == pending[1]
             n == num_tokens
  <2>1. /\ n \in Nat
        /\ Used' = Used \cup {n} /\ n \notin Used
        /\ token_list'[n] = t
        /\ \A i \in Used : token_list'[i] = token_list[i]
    BY <1>3, RegisterMoves
  <2>2. token_current' = Latest(t) /\ line' = line
    <3>1. pending \in Seq(Token) /\ pending # <<>>
      BY <1>3 DEF RegisterToken, ListTypeOK
    <3>2. Head(pending) = t
      BY <3>1, FirstAndRest
    <3> QED
      BY <1>3, <3>2 DEF RegisterToken
  <2>3. \A i \in Used : i < n
    BY <2>1 DEF Used
  <2>4. CASE line[t] > 0
    <3>1. n \in HasLine'
      BY <2>1, <2>2, <2>4 DEF HasLine
    <3>2. \A i \in Used : ~(n <= i)
      BY <2>1, <2>3 DEF Used
    <3>3. token_current' = t
      BY <2>2, <2>4 DEF Latest
    <3>4. \A i \in HasLine' : i = n \/ i \in Used
      BY <2>1 DEF HasLine
    <3>5. ASSUME NEW i \in HasLine', \A j \in HasLine' : j <= i
          PROVE  token_current' = token_list'[i]
      <4>1. i = n
        BY <3>1, <3>2, <3>4, <3>5
      <4> QED
        BY <2>1, <3>3, <4>1
    <3> QED
      BY <3>5 DEF LatestHasLine
  <2>5. CASE ~(line[t] > 0)
    <3>1. HasLine' = HasLine
      BY <2>1, <2>2, <2>5 DEF HasLine
    <3>2. token_current' = token_current
      BY <2>2, <2>5 DEF Latest
    <3>3. \A i \in HasLine : token_list'[i] = token_list[i]
      BY <2>1 DEF HasLine
    <3> QED
      BY <3>1, <3>2, <3>3 DEF LatestHasLine
  <2> QED
    BY <2>4, <2>5
<1>4. CASE AllocationFails
  BY <1>4, SameLatest DEF AllocationFails, Used
<1>5. CASE FreeTokenList
  <2>1. Used' = {}
    BY <1>5 DEF FreeTokenList, Used
  <2> QED
    BY <2>1 DEF LatestHasLine, HasLine
<1>6. CASE UNCHANGED vars
  BY <1>6, SameLatest DEF vars, Used
<1> QED
  BY <1>1, <1>2, <1>3, <1>4, <1>5, <1>6 DEF Next

(* LatestHasLine holds always: get_latest_token returns the last token of    *)
(* the list that has a line.                                                *)
THEOREM LatestIsLast == Spec => []LatestHasLine
<1>1. Init => LatestHasLine
  <2> SUFFICES ASSUME Init PROVE LatestHasLine
    OBVIOUS
  <2>1. Used = {}
    BY DEF Init, Used
  <2> QED
    BY <2>1 DEF LatestHasLine, HasLine
<1> QED
  BY <1>1, InitType, TypeStep, InitOwned, OwnedStep, LatestStep, PTL DEF Spec

-----------------------------------------------------------------------------
(* The first n elements of an array as a sequence; the registry is the        *)
(* elements in use.                                                         *)
Elements(f, n) == [i \in 1 .. n |-> f[i - 1]]
Bar == Elements(token_list, num_tokens)

LEMMA ShiftedIsSeq ==
    ASSUME NEW S, NEW n \in Nat, NEW f, \A i \in 0 .. (n - 1) : f[i] \in S
    PROVE  /\ Elements(f, n) \in Seq(S) /\ Len(Elements(f, n)) = n
           /\ \A i \in 1 .. n : Elements(f, n)[i] = f[i - 1]
<1> DEFINE g == Elements(f, n)
<1>1. g \in [1 .. n -> S]
  BY \A i \in 1 .. n : i - 1 \in 0 .. (n - 1) DEF Elements
<1>2. g \in Seq(S)
  BY <1>1, SeqDef
<1>3. Len(g) \in Nat /\ 1 .. n = 1 .. Len(g)
  BY <1>1, <1>2, LenProperties
<1>4. Len(g) = n
  <2>1. n > Len(g) => n \in 1 .. n /\ n \notin 1 .. Len(g)
    BY <1>3
  <2>2. Len(g) > n => Len(g) \notin 1 .. n /\ Len(g) \in 1 .. Len(g)
    BY <1>3
  <2> QED
    BY <1>3, <2>1, <2>2
<1> QED
  BY <1>2, <1>4 DEF Elements

LEMMA BarIsSeq ==
    ASSUME ListTypeOK
    PROVE  /\ Bar \in Seq(Token) /\ Len(Bar) = num_tokens
           /\ \A i \in 1 .. num_tokens : Bar[i] = token_list[i - 1]
<1>1. num_tokens \in Nat
  BY DEF ListTypeOK
<1>2. \A i \in 0 .. (num_tokens - 1) : token_list[i] \in Token
  BY DEF ListTypeOK, Index
<1>3. Bar \in Seq(Token)
  BY ONLY <1>1, <1>2, ShiftedIsSeq, Zenon DEF Bar
<1>4. Len(Bar) = num_tokens
  BY ONLY <1>1, <1>2, ShiftedIsSeq, Zenon DEF Bar
<1> QED
  BY <1>3, <1>4 DEF Bar, Elements

(* register_token appends to the registry a token it does not have.         *)
LEMMA RegisterRefines ==
    ASSUME ListTypeOK, EveryTokenOwned, RegisterToken
    PROVE  \E t \in Token : Registry!Register(t)
<1> DEFINE t == pending[1]
<1>1. /\ num_tokens \in Nat /\ num_tokens' = num_tokens + 1
      /\ token_list'[num_tokens] = t /\ t \in Token
      /\ \A i \in Used : token_list'[i] = token_list[i]
      /\ Len(pending) \in Nat \ {0}
  BY RegisterMoves
<1>2. /\ Bar \in Seq(Token) /\ Len(Bar) = num_tokens
      /\ \A i \in 1 .. num_tokens : Bar[i] = token_list[i - 1]
  BY BarIsSeq
<1>3. /\ Bar' \in Seq(Token) /\ Len(Bar') = num_tokens'
      /\ \A i \in 1 .. num_tokens' : Bar'[i] = token_list'[i - 1]
  <2>1. \A i \in Used : token_list[i] \in Token
    BY DEF ListTypeOK, Used, Index
  <2>2. \A i \in 0 .. (num_tokens' - 1) : i \in Used \/ i = num_tokens
    BY <1>1 DEF Used
  <2>3. num_tokens' \in Nat
    BY <1>1
  <2>4. \A i \in 0 .. (num_tokens' - 1) : token_list'[i] \in Token
    BY <1>1, <2>1, <2>2
  <2>5. Bar' \in Seq(Token)
    BY ONLY <2>3, <2>4, ShiftedIsSeq, Zenon DEF Bar
  <2>6. Len(Bar') = num_tokens'
    BY ONLY <2>3, <2>4, ShiftedIsSeq, Zenon DEF Bar
  <2> QED
    BY <2>5, <2>6 DEF Bar, Elements
<1>4. \A i \in 1 .. num_tokens : Bar[i] # t
  <2>1. t \in Pending
    BY <1>1 DEF Pending
  <2>2. \A i \in 1 .. num_tokens : i - 1 \in Used
    BY <1>1 DEF Used
  <2> QED
    BY <1>2, <2>1, <2>2 DEF EveryTokenOwned, Registered
<1>5. Bar' = Append(Bar, t)
  <2>1. /\ Append(Bar, t) \in Seq(Token) /\ Len(Append(Bar, t)) = num_tokens + 1
        /\ \A i \in 1 .. num_tokens : Append(Bar, t)[i] = Bar[i]
        /\ Append(Bar, t)[num_tokens + 1] = t
    BY <1>1, <1>2, AppendProperties
  <2>2. \A i \in 1 .. num_tokens : Bar'[i] = Bar[i]
    <3> SUFFICES ASSUME NEW i \in 1 .. num_tokens PROVE Bar'[i] = Bar[i]
      OBVIOUS
    <3>1. i \in 1 .. num_tokens' /\ i - 1 \in Used
      BY <1>1 DEF Used
    <3> QED
      BY <1>1, <1>2, <1>3, <3>1
  <2>3. Bar'[num_tokens + 1] = t
    BY <1>1, <1>3
  <2> QED
    BY <1>1, <1>3, <2>1, <2>2, <2>3, SeqEqual
<1> QED
  BY <1>1, <1>2, <1>4, <1>5 DEF Registry!Register, Bar, Elements

(* A step of the list is a step of the registry, or leaves it as it is.      *)
LEMMA StepRefines ==
    ListTypeOK /\ EveryTokenOwned /\ [Next]_vars => [Registry!RegistryNext]_Bar
<1> SUFFICES ASSUME ListTypeOK, EveryTokenOwned, [Next]_vars
             PROVE  [Registry!RegistryNext]_Bar
  OBVIOUS
<1>1. CASE RegisterToken
  BY <1>1, RegisterRefines DEF Registry!RegistryNext
<1>2. CASE FreeTokenList
  <2>1. num_tokens' = 0
    BY <1>2 DEF FreeTokenList
  <2>2. Bar' = <<>>
    BY <2>1 DEF Bar, Elements
  <2> QED
    BY <2>2 DEF Registry!RegistryNext, Registry!ReleaseAll, Bar, Elements
<1>3. CASE \/ \E t \in Token, l \in Line : CreateToken(t, l)
           \/ CallAction \/ AllocationFails \/ UNCHANGED vars
  BY <1>3 DEF CreateToken, CallAction, AllocationFails, vars, Bar, Elements
<1> QED
  BY <1>1, <1>2, <1>3 DEF Next

(* The array implements the registry: what the C actions are given is kept,  *)
(* once and in order, until cleanUp.                                        *)
THEOREM ListIsRegistry == Spec => ImplementsRegistry
<1>1. Init => Registry!RegistryInit
  BY DEF Init, Registry!RegistryInit
<1>2. ListTypeOK /\ EveryTokenOwned /\ [Next]_vars
        => [Registry!RegistryNext]_[i \in 1 .. num_tokens |-> token_list[i - 1]]
  BY StepRefines DEF Bar, Elements
<1> QED
  BY <1>1, <1>2, TypeCorrect, NoTokenLost, PTL
     DEF ImplementsRegistry, Registry!RegistrySpec, Spec
=============================================================================
