------------------------------- MODULE Chains -------------------------------
(* Following links from node to node.                                      *)
EXTENDS Integers, SequencesExt

(* The nodes that next links from first on, before end: n at most, so that *)
(* a walk ends whatever the links are.                                     *)
Walk(next, first, end, n) ==
  LET longer == [s \in Seq(DOMAIN next) |->
                   LET x == IF s = <<>> THEN first ELSE next[s[Len(s)]]
                   IN IF x = end THEN s ELSE Append(s, x)]
      steps[k \in 0 .. n] == IF k = 0 THEN <<>> ELSE longer[steps[k - 1]]
  IN steps[n]
=============================================================================
