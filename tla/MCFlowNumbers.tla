--------------------------- MODULE MCFlowNumbers ---------------------------
(* Instances of FlowNumbers for TLC: the configuration gives the largest    *)
(* int.                                                                    *)
EXTENDS FlowNumbers
=============================================================================
