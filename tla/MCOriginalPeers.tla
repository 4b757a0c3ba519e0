-------------------------- MODULE MCOriginalPeers --------------------------
(* Hosts for the model checker, of one slot each or a server of two, and   *)
(* the bounds of their runs.                                               *)
EXTENDS OriginalPeers

ClientServer == [h \in {"client", "server"} |-> IF h = "client" THEN 1 ELSE 2]
OneEach == [h \in {"client", "server"} |-> 1]

Bound(a, x, c, e) == [accepts |-> a, extras |-> x, calls |-> c, events |-> e]

\* Two connections, served in either way, or so many that sessions come round.
TwoOrRound == {Bound(2, 2, 2, BOOLEAN), Bound(5, 0, 2, {TRUE})}
Two == {Bound(2, 2, 2, BOOLEAN)}
Round == {Bound(5, 0, 2, {TRUE})}
=============================================================================
