---------------------------- MODULE MCZapBuffer ----------------------------
(***************************************************************************)
(* ZapBuffer for TLC: a buffer of three bytes, messages of one and two     *)
(* bytes, so that two fit exactly, leave a byte free, or do not fit.       *)
(***************************************************************************)
EXTENDS ZapBuffer, TLC

CONSTANTS m1, m2, m3

ShortLen == m1 :> 1 @@ m2 :> 2 @@ m3 :> 2

\* Threads, and messages of one length, are interchangeable (for invariants).
Sym == Permutations(Writer) \cup Permutations({m2, m3})
=============================================================================
