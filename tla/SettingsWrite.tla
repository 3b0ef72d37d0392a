---------------------------- MODULE SettingsWrite ----------------------------
(***************************************************************************)
(* What Settings1 promises to a client that writes a setting: the write    *)
(* takes effect at most once, and the writer is told once what became of   *)
(* it.  A report of success or refusal is final and true; the only other   *)
(* report is "uncertain", after which the write may still take effect,     *)
(* once, for as long as it is under way.                                   *)
(***************************************************************************)
EXTENDS Naturals

VARIABLES
    write,    \* the write in flight: "none", "asked", or what became of it
    told,     \* the last report to the writer
    strays,   \* writes reported uncertain that are still under way
    effects   \* how often a write of this writer changed the settings

writeVars == <<write, told, strays, effects>>

Init == write = "none" /\ told = "nothing" /\ strays = 0 /\ effects = 0

Begin ==
    /\ write = "none" /\ write' = "asked"
    /\ UNCHANGED <<told, strays, effects>>

\* The service decides; a write of the value that is already there is applied
\* without an effect.
Decide ==
    /\ write = "asked" /\ write' \in {"applied", "refused"}
    /\ effects' \in IF write' = "applied" THEN {effects, effects + 1} ELSE {effects}
    /\ UNCHANGED <<told, strays>>

\* A stray takes effect, is refused, or is lost with the service.
Strayed ==
    /\ strays' \in 0 .. strays
    /\ effects' \in effects .. effects + (strays - strays')
    /\ UNCHANGED <<write, told>>

Finish ==
    /\ write \in {"applied", "refused"}
    /\ told' = write /\ write' = "none"
    /\ UNCHANGED <<strays, effects>>

\* The writer is told that the outcome is unknown, or, when it stops itself,
\* nothing.
Doubt ==
    /\ write # "none" /\ write' = "none"
    /\ told' \in {"uncertain", "nothing"}
    /\ strays' \in strays .. strays + IF write = "asked" THEN 1 ELSE 0
    /\ UNCHANGED effects

Next == Begin \/ Decide \/ Strayed \/ Finish \/ Doubt

Spec == Init /\ [][Next]_writeVars
=============================================================================
