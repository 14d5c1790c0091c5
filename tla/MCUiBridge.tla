----------------------------- MODULE MCUiBridge -----------------------------
(***************************************************************************)
(* Small instances of UiBridge.  A UI announces no operations, or one that *)
(* is free, or one that needs a paid account.                              *)
(***************************************************************************)
EXTENDS UiBridge, TLC

CONSTANTS c1, c2, r1, r2

MCName == {"op"}
FreeList == "op" :> TRUE
ProList == "op" :> FALSE
BothLists == {NoOps, FreeList, ProList}
OneList == {NoOps, FreeList}

\* A ctl request needs a paid account; an mcp one depends on the operation.
CtlAndMcp == r1 :> "ctl" @@ r2 :> "mcp"
McpOnly == r1 :> "mcp"

SameName == r1 :> "op" @@ r2 :> "op"
OneName == r1 :> "op"

ChannelSymmetry == Permutations(Channel)

=============================================================================
