-------------------------------- MODULE Sums --------------------------------
(* What the engines add up in their loops over estimates and measurements. *)
EXTENDS Integers

\* The sum g[1] + ... + g[n].
Total(g, n) ==
    LET upTo[k \in 0 .. n] == IF k = 0 THEN 0 ELSE upTo[k - 1] + g[k] IN upTo[n]
=============================================================================
