--------------------------- MODULE MCInventorySave ---------------------------
(* InventorySave for one item row, and for two independent ones. *)
EXTENDS InventorySave
CONSTANTS k1, k2
OneKey == {k1}
TwoKeys == {k1, k2}
=============================================================================
