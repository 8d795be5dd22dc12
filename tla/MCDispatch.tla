----------------------------- MODULE MCDispatch -----------------------------
(***************************************************************************)
(* Instances of Dispatch: how the lists are laid out in groups.            *)
(***************************************************************************)
EXTENDS Dispatch

OneList == {0}
TwoLists == {0, 1}

All(n) == [type |-> "ALL", n |-> n]
Mod(n) == [type |-> "MOD", n |-> n]

TwoListsMixed == [l \in TwoLists |-> IF l = 0 THEN <<All(2)>> ELSE <<All(1)>>]
OneListAll2 == [l \in OneList |-> <<All(2)>>]
OneListMod2 == [l \in OneList |-> <<Mod(2)>>]
=============================================================================
