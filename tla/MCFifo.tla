------------------------------- MODULE MCFifo -------------------------------
(* Three blocks, and the control register values that tell the cases apart. *)
EXTENDS Fifo, TLC

MCMin == -1

On(bits) == [bit \in DOMAIN Off |-> bit \in bits]

MCControls ==
  (TRUE  :> {Off, On({"GPReadEnable", "GPLinkEnable"})}) @@
  (FALSE :> {Off, On({"GPReadEnable"}), On({"GPReadEnable", "GPLinkEnable", "FifoUnderflowIntEnable"}),
             On({"GPReadEnable", "GPLinkEnable", "BPEnable", "BPInt"}), On({"BPEnable"})})
============================================================================
