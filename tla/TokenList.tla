----------------------------- MODULE TokenList ------------------------------
(***************************************************************************)
(* parser/c/token.c: the growing array token_list, in which every token     *)
(* made for a C action is kept so that cleanUp can free it, and the pointer *)
(* token_current that get_latest_token returns.  Its callers are the JNI    *)
(* functions tools/ToC.java generates, one for each action: they create a   *)
(* token for every Token argument, call the C action, and then register the *)
(* tokens; the one for cleanUp calls free_token_list.                       *)
(*                                                                         *)
(* token_list = NULL is token_list_size = 0: both become true together.     *)
(***************************************************************************)
EXTENDS Integers, Sequences

CONSTANTS
    Token,       \* the addresses malloc may return
    NULL,
    Line,        \* line numbers; 0 is a token the parser made up
    InitSize,    \* INIT_TOKEN_LIST_SIZE
    IntMax,      \* INT_MAX
    MaxArgs      \* the most Token arguments an action has

ASSUME TokenListAssumption ==
    /\ NULL \notin Token
    /\ Line \subseteq Nat
    /\ InitSize \in Nat \ {0} /\ IntMax \in Nat /\ InitSize <= IntMax
    /\ MaxArgs \in Nat \ {0}

VARIABLES
    token_list,
    token_list_size,
    num_tokens,
    token_current,
    line,            \* the line of each token
    live,            \* the tokens allocated and not freed
    pending,         \* the tokens of the current call, not yet registered
    step             \* of the JNI function: "create", "register"; or "exit"

vars == <<token_list, token_list_size, num_tokens, token_current, line, live,
          pending, step>>

Index == 0 .. (token_list_size - 1)
Used == 0 .. (num_tokens - 1)

NoList == [i \in 0 .. -1 |-> NULL]

Init ==
    /\ token_list = NoList
    /\ token_list_size = 0
    /\ num_tokens = 0
    /\ token_current = NULL
    /\ line \in [Token -> Line]
    /\ live = {}
    /\ pending = <<>>
    /\ step = "create"

-----------------------------------------------------------------------------
(* create_token for each Token argument: malloc returns memory not in use.   *)
CreateToken(t, l) ==
    /\ step = "create"
    /\ Len(pending) < MaxArgs
    /\ t \notin live
    /\ live' = live \cup {t}
    /\ line' = [line EXCEPT ![t] = l]
    /\ pending' = Append(pending, t)
    /\ UNCHANGED <<token_list, token_list_size, num_tokens, token_current, step>>

(* The C action; it has no access to the list but get_latest_token.         *)
CallAction ==
    /\ step = "create"
    /\ pending # <<>>
    /\ step' = "register"
    /\ UNCHANGED <<token_list, token_list_size, num_tokens, token_current, line,
                   live, pending>>

(* size << 1 wraps around to a negative int.                                *)
Doubled ==
    IF 2 * token_list_size > IntMax THEN 2 * token_list_size - 2 * (IntMax + 1)
    ELSE 2 * token_list_size

growsOneLate ==
    IF token_list_size = 0 THEN InitSize
    ELSE IF num_tokens = token_list_size + 1 THEN Doubled
    ELSE token_list_size

(* The size register_token needs: a full list is doubled.                   *)
NeededSize ==
    IF token_list_size = 0 THEN InitSize
    ELSE IF num_tokens = token_list_size THEN Doubled
    ELSE token_list_size

oldElementsLost(n) == [i \in 0 .. (n - 1) |-> NULL]

(* The elements behind the old ones are NULL.                               *)
Grown(n) == [i \in 0 .. (n - 1) |-> IF i \in Index THEN token_list[i] ELSE NULL]

latestOfAny(t) == t

Latest(t) == IF line[t] > 0 THEN t ELSE token_current

StepAfterRegister ==
    IF num_tokens + 1 >= IntMax THEN "exit"
    ELSE IF Len(pending) = 1 THEN "create"
    ELSE "register"

(* A negative size is, as a size_t, more than realloc can give.             *)
RegisterToken ==
    /\ step = "register"
    /\ NeededSize > 0
    /\ token_list' = [Grown(NeededSize) EXCEPT ![num_tokens] = Head(pending)]
    /\ token_list_size' = NeededSize
    /\ num_tokens' = num_tokens + 1
    /\ token_current' = Latest(Head(pending))
    /\ pending' = Tail(pending)
    /\ step' = StepAfterRegister
    /\ UNCHANGED <<line, live>>

(* malloc or realloc returns NULL.                                          *)
AllocationFails ==
    /\ step = "register"
    /\ NeededSize # token_list_size
    /\ step' = "exit"
    /\ UNCHANGED <<token_list, token_list_size, num_tokens, token_current, line,
                   live, pending>>

allButTheLast == {token_list[i] : i \in 0 .. (num_tokens - 2)}

Freed == {token_list[i] : i \in Used}

(* cleanUp has no Token argument.  token_current is left as it is.           *)
FreeTokenList ==
    /\ step = "create"
    /\ pending = <<>>
    /\ live' = live \ Freed
    /\ token_list' = NoList
    /\ token_list_size' = 0
    /\ num_tokens' = 0
    /\ UNCHANGED <<token_current, line, pending, step>>

Next ==
    \/ \E t \in Token, l \in Line : CreateToken(t, l)
    \/ CallAction
    \/ RegisterToken
    \/ AllocationFails
    \/ FreeTokenList

Spec == Init /\ [][Next]_vars

-----------------------------------------------------------------------------
(* Every variable has its type, the sizes are ints, and the list has room    *)
(* for its tokens: an element is NULL just if it is not in use.             *)
ListTypeOK ==
    /\ token_list_size \in 0 .. IntMax
    /\ token_list \in [Index -> Token \cup {NULL}]
    /\ num_tokens \in 0 .. token_list_size
    /\ \A i \in Index : token_list[i] # NULL <=> i < num_tokens
    /\ token_current \in Token \cup {NULL}
    /\ line \in [Token -> Line]
    /\ live \subseteq Token
    /\ pending \in Seq(Token)
    /\ step \in {"create", "register", "exit"}
    /\ step = "register" => pending # <<>>

(* No token is freed twice and none is lost: the tokens in use are those in  *)
(* the list and those about to be registered, and each is in one place.     *)
Registered == {token_list[i] : i \in Used}
Pending == {pending[i] : i \in 1 .. Len(pending)}

EveryTokenOwned ==
    /\ live = Registered \cup Pending
    /\ Registered \cap Pending = {}
    /\ \A i, j \in Used : token_list[i] = token_list[j] => i = j
    /\ \A i, j \in 1 .. Len(pending) : pending[i] = pending[j] => i = j

(* get_latest_token returns the last registered token with a line in the     *)
(* source, which is still allocated.  (With no such token in the list it     *)
(* returns one that has been freed.)                                        *)
HasLine == {i \in Used : line[token_list[i]] > 0}

LatestHasLine ==
    \A i \in HasLine : (\A j \in HasLine : j <= i) => token_current = token_list[i]

(* The list is the registry the C actions rely on.                          *)
Registry == INSTANCE TokenRegistry
    WITH registered <- [i \in 1 .. num_tokens |-> token_list[i - 1]]

ImplementsRegistry == Registry!RegistrySpec
=============================================================================
