-------------------------------- MODULE Sums --------------------------------
(***************************************************************************)
(* The sum of the first elements of a function on positions.  A recursive  *)
(* function, so that the sums of bytes and of points can be proved about   *)
(* by induction on the positions; a fold of the library cannot.            *)
(***************************************************************************)
EXTENDS Naturals

\* f[1] + ... + f[n]
SumTo(f, n) ==
    LET sum[i \in 0..n] == IF i = 0 THEN 0 ELSE sum[i - 1] + f[i] IN sum[n]
=============================================================================
