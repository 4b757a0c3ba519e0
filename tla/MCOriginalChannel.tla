------------------------- MODULE MCOriginalChannel -------------------------
(* The plans of the applications for the model checker.                    *)
EXTENDS OriginalChannel

P(kind, size) == [kind |-> kind, size |-> size]
R(n) == P("reliable", n)
U(n) == P("unreliable", n)
S(n) == P("unsequenced", n)
F(n) == P("fragment", n)

MCPlans == {
    <<R(1), R(1), R(1), R(1), R(1), R(1), R(1)>>,
    <<R(1), U(1), R(3), U(1)>>,
    <<F(2), S(1), R(2), F(2)>>,
    <<S(1), S(1), S(1), U(2)>>,
    <<U(1), F(2), U(1), U(1)>> }
=============================================================================
