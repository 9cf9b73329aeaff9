---------------------------- MODULE MCLRUCacheShard ----------------------------
(* Instances of LRUCacheShard for TLC: the entries' charges are given one by   *)
(* one and added up here.                                                      *)
EXTENDS LRUCacheShard, FiniteSets, TLC

CONSTANTS h1, h2, h3, ChargeOf1, ChargeOf2, ChargeOf3

MCHandle == {h1, h2, h3}

MCCharge ==
  [S \in SUBSET MCHandle |->
     (IF h1 \in S THEN ChargeOf1 ELSE 0) + (IF h2 \in S THEN ChargeOf2 ELSE 0)
       + (IF h3 \in S THEN ChargeOf3 ELSE 0)]

Symmetry == Permutations(Key)
=============================================================================
