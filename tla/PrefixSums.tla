----------------------------- MODULE PrefixSums -----------------------------
(***************************************************************************)
(* Finite sums over 1..n, written as a recursive function so that the      *)
(* theorems of RulesProofs can be used by every module that adds up the    *)
(* positions of a ledger or the orders of a broker.                        *)
(***************************************************************************)
EXTENDS Integers

\* f[1] + f[2] + ... + f[n]; 0 when n = 0.
SumUpTo(f, n) ==
  LET s[i \in 0..n] == IF i = 0 THEN 0 ELSE s[i - 1] + f[i]
  IN  s[n]

Abs(x) == IF x < 0 THEN -x ELSE x

Lesser(a, b) == IF a < b THEN a ELSE b

Greater(a, b) == IF a < b THEN b ELSE a

=============================================================================
