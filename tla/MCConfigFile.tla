---------------------------- MODULE MCConfigFile ----------------------------
(* Instances of ConfigFile for TLC. *)
EXTENDS ConfigFile

Says(shape, priorities, aliases) ==
  [shape |-> shape, priorities |-> priorities, aliases |-> aliases]

NoProviders == Says("none", 1, 1)

Boot == Says("old", 1, 1)

Saves == {Boot, Says("new", 1, 1), Broken}

=============================================================================
