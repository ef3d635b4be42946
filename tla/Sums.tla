-------------------------------- MODULE Sums --------------------------------
(***************************************************************************)
(* Finite sums of the values f[1], ..., f[n], written as a recursive       *)
(* function so that the proofs can reason about it.  The ledger adds up    *)
(* money over accounts and over bets; both are numbered (a UUID is a       *)
(* number, and the code orders accounts by it when it takes row locks).    *)
(***************************************************************************)
EXTENDS Integers

\* The running totals s[0] = 0, s[i] = s[i-1] + f[i].
PartialSums(f, n) ==
    LET s[i \in 0..n] == IF i = 0 THEN 0 ELSE s[i - 1] + f[i]
    IN  s

SumTo(f, n) == PartialSums(f, n)[n]
=============================================================================
