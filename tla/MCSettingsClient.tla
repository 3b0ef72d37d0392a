--------------------------- MODULE MCSettingsClient ---------------------------
EXTENDS SettingsClient

\* A switch that is only turned on: the first write has an effect, the next has none.
TurnOn == {[by |-> "switch", value |-> TRUE]}
=============================================================================
