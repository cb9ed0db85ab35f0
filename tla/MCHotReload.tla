---------------------------- MODULE MCHotReload ----------------------------
(* Two shells of one host, whose platform is the module m with template t; *)
(* y is the YAML file of another platform, which defines a command the     *)
(* host does not have, and no prompt.                                      *)
EXTENDS HotReload

CONSTANTS m, y, t, h1, old, new, s1, s2
MCTemplateOf == [f \in Modules |-> t]
MCDefines    == [f \in Sources |-> IF f = m THEN {old, "prompt"} ELSE {new}]
MCPlatform   == [h \in Hosts |-> {m}]
MCHostOf     == [s \in Shells |-> h1]
=============================================================================
