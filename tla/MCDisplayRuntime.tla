-------------------------- MODULE MCDisplayRuntime --------------------------
(***************************************************************************)
(* One output and one candidate under DisplayRuntime.                      *)
(***************************************************************************)
EXTENDS DisplayRuntime, TLC

CONSTANTS panel, low, high

MCLayouts == {panel :> [on |-> TRUE, mode |-> m] : m \in {low, high}}
=============================================================================
