--------------------------- MODULE MCPluginManager --------------------------
(* With and without HOME. *)
EXTENDS PluginManager

OneOrTwo == {1, 2}
=============================================================================
