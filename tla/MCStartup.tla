----------------------------- MODULE MCStartup ------------------------------
(* Startup with a plugin and a terminal on one database, an old one that     *)
(* lacks some of two columns, or none yet, two migrations, and two releases  *)
(* of Hermes, of which the second covers an intent.                          *)
EXTENDS Startup

MCMinVersion == [i \in Matrix |-> 2]
=============================================================================
