---------------------------- MODULE MCDoNotDisturb ----------------------------
EXTENDS DoNotDisturb

\* The switch and the schedule both write.
AnyWrite == UserWrite

\* No property of the switch reads the history variables.
WithoutHistory == <<client, bus, serving, births, rev, value, calls, dnd>>
=============================================================================
