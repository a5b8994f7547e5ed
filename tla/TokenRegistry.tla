---------------------------- MODULE TokenRegistry ---------------------------
(***************************************************************************)
(* What the C actions rely on: the tokens given to them are kept, in the    *)
(* order of the calls and each once, until cleanUp gives all of them back.  *)
(***************************************************************************)
EXTENDS Naturals, Sequences

CONSTANT Token

VARIABLE registered

RegistryInit == registered = <<>>

Register(t) ==
    /\ \A i \in 1..Len(registered) : registered[i] # t
    /\ registered' = Append(registered, t)

ReleaseAll == registered' = <<>>

RegistryNext == ReleaseAll \/ \E t \in Token : Register(t)

RegistrySpec == RegistryInit /\ [][RegistryNext]_registered
=============================================================================
