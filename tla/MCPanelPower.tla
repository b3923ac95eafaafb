---------------------------- MODULE MCPanelPower ----------------------------
(* Instances of PanelPower. *)
EXTENDS PanelPower

AllBuilds == Build
Product == {[fire |-> TRUE, gpio |-> FALSE, drops |-> TRUE, fitted |-> TRUE]}
=============================================================================
