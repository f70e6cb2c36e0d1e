------------------------------- MODULE Common -------------------------------
(* The arithmetic of common.h that every part of the library counts with.  *)
EXTENDS Integers, FiniteSetsExt

RoundUpDiv(n, chunk)  == (n \div chunk) + (IF n % chunk > 0 THEN 1 ELSE 0)
RoundUpTo(n, chunk)   == RoundUpDiv(n, chunk) * chunk

\* The least member of a set, or default for an empty one.
Least(S, default) == IF S = {} THEN default ELSE Min(S)

\* f[0] + ... + f[n - 1].
Total(f, n) == LET sum[k \in 0..n] == IF k = 0 THEN 0 ELSE sum[k - 1] + f[k - 1]
               IN sum[n]
=============================================================================
