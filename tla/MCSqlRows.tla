----------------------------- MODULE MCSqlRows -----------------------------
EXTENDS SqlRows

CONSTANTS t1, t2, t3, none
MCCallers == {t1, t2, t3}
TwoCallers == {t1, t2}
MCKeys == {1, 2}

Change(ks) == [kind |-> "change", keys |-> ks]
Plain(k) == [kind |-> "plain", keys |-> {k}]

(* Blocks that take every turn they need before they hold a row, and one   *)
(* that does nothing.                                                      *)
TurnsFirst ==
  {<<>>, <<Change({2})>>, <<Change({1, 2})>>, <<Change({1, 2}), Change({1})>>,
   <<Change({1}), Plain(2)>>, <<Plain(2), Plain(1)>>}

(* A block that changes one row then the other, in key order, and one that *)
(* changes both at once.                                                   *)
InKeyOrder == {<<Change({1}), Change({2})>>, <<Change({1, 2})>>}
=============================================================================
