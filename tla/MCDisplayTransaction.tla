------------------------ MODULE MCDisplayTransaction ------------------------
(***************************************************************************)
(* Small desks for DisplayTransaction: a laptop panel, and a monitor that  *)
(* can be unplugged, enabled, or left disabled.                            *)
(***************************************************************************)
EXTENDS DisplayTransaction, TLC

CONSTANTS panel, monitor, low, mid, high

Both(p, m, on) == (panel :> [on |-> TRUE, mode |-> p]) @@ (monitor :> [on |-> on, mode |-> m])
Alone(p) == panel :> [on |-> TRUE, mode |-> p]

\* The lid closes: only the monitor is left.
OtherOutput == monitor :> [on |-> TRUE, mode |-> high]

MCOutput == {panel, monitor}
MCMode == {low, mid, high}

\* One candidate against one preimage, and the monitor can go and come back.
HotplugLayouts == {Both(low, low, TRUE), Both(high, low, FALSE), Alone(low), Alone(high),
                   OtherOutput}
SwapLayouts == {Alone(low), Alone(high), OtherOutput}
=============================================================================
