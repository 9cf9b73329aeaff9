--------------------------- MODULE MCLRUHandleTable ---------------------------
(* An instance of LRUHandleTable for TLC: five keys, the first with two        *)
(* handles.  a and b have the same hash; c and e share their bucket with them  *)
(* in an array of four, and e still does in an array of eight.                 *)
EXTENDS LRUHandleTable, TLC

CONSTANTS a1, a2, b1, c1, d1, e1

MCHandle == {a1, a2, b1, c1, d1, e1}

MCKey == {"a", "b", "c", "d", "e"}

MCKeyOf ==
  a1 :> "a" @@ a2 :> "a" @@ b1 :> "b" @@ c1 :> "c" @@ d1 :> "d" @@ e1 :> "e"

MCHashOf == [a |-> 1, b |-> 1, c |-> 5, d |-> 2, e |-> 9]
=============================================================================
