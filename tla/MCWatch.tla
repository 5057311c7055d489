------------------------------ MODULE MCWatch -----------------------------
(* Instances of Watch for TLC: one or two listeners on one path.  The two  *)
(* do the same, so they are symmetric.                                     *)
EXTENDS Watch, TLC

CONSTANTS door, one, two

DoorPaths == {door}

OneListener  == {one}
TwoListeners == {one, two}
Symmetry     == Permutations(TwoListeners)
DoorOf == [l \in {one, two} |-> door]
OneOf  == [l \in {one} |-> door]

\* The browser comes back only as long as it can still subscribe, then with one
\* listener at a time and to a subject that does not replay: what is checked of
\* two listeners and of replaying is about one connection.
OneAfterReconnect ==
    /\ conns' > 1 => Cardinality(subs') <= 1 /\ replaying = {}
    /\ conns' > conns => made < MaxReq
TwoSpec == Init /\ [][Next /\ OneAfterReconnect]_vars
=============================================================================
