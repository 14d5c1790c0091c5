----------------------------- MODULE ArrayFilter -----------------------------
(***************************************************************************)
(* Array.prototype.filter, for the two filters that docker-commands.ts and *)
(* the build of a Dockerfile apply.  It is SelectSeq, as a recursion over  *)
(* the positions that proofs can unfold.                                   *)
(***************************************************************************)
EXTENDS Naturals, Sequences

\* The members of s other than x, in their order.
Without(s, x) ==
    LET kept[n \in 0..Len(s)] ==
            CASE n = 0 -> <<>>
              [] n > 0 /\ s[n] # x -> Append(kept[n - 1], s[n])
              [] OTHER -> kept[n - 1]
    IN  kept[Len(s)]
=============================================================================
