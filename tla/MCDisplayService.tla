-------------------------- MODULE MCDisplayService --------------------------
(***************************************************************************)
(* Small desks for DisplayService.                                         *)
(***************************************************************************)
EXTENDS DisplayService, TLC

CONSTANTS panel, monitor, low, mid, high

Both(p, m, on) == (panel :> [on |-> TRUE, mode |-> p]) @@ (monitor :> [on |-> on, mode |-> m])
Alone(p) == panel :> [on |-> TRUE, mode |-> p]

MCOutput == {panel, monitor}
MCMode == {low, mid, high}

\* One output: the preimage and one candidate.
TwoLayouts == {Alone(low), Alone(high)}

\* A desk with both outputs on, the same with the monitor disabled, and the
\* desk once the lid is closed.
LidLayouts == {Both(low, low, TRUE), Both(high, low, FALSE), monitor :> [on |-> TRUE, mode |-> high]}

\* Modes are interchangeable where every layout of one output is a candidate.
ModeSymmetry == Permutations({low, high})
=============================================================================
