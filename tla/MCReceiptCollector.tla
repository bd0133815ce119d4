------------------------- MODULE MCReceiptCollector -------------------------
(* Instances of ReceiptCollector for TLC: the .cfg files name the model      *)
(* values and the bounds.                                                    *)
EXTENDS ReceiptCollector
=============================================================================
