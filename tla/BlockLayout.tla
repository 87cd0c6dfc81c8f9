---------------------------- MODULE BlockLayout ----------------------------
(***************************************************************************)
(* How a length is cut (file.controller.ts): a file into blocks, and a      *)
(* block into the parts of its multipart upload, by the same computation.   *)
(***************************************************************************)
EXTENDS Naturals

\* Pieces of at most max in a length n: Math.ceil(n / max)
Pieces(n, max) == (n + max - 1) \div max

\* The length of piece i: the last one is the remainder, unless that is 0.
PieceSize(n, max, i) ==
  IF i = Pieces(n, max) /\ n % max # 0 THEN n % max ELSE max

\* Sizes added up one after the other, as the variable previousEnd does it
RunningSum(F) ==
  LET sum[i \in Nat] == IF i = 0 THEN 0 ELSE sum[i - 1] + F[i]
  IN  sum

\* The first i pieces
SizeUpTo(n, max, i) == RunningSum([j \in Nat |-> PieceSize(n, max, j)])[i]
=============================================================================
