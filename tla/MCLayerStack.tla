---------------------------- MODULE MCLayerStack ----------------------------
(* LayerStack on a small instance: three layers, so that one can be closed  *)
(* between two siblings of equal z-order, two z-orders of which one is the  *)
(* default of a new layer, and two client buffers.                          *)
EXTENDS LayerStack, TLC

CONSTANTS l1, l2, l3, c1, c2

MCLayers == {l1, l2, l3}
OneLayer == {l1}
MCBuffers == {c1, c2}
MCTypes == {"CLIENT", "VIDEO"}
MCZOrders == {0, 1}

\* Layers are interchangeable: only equality of ids is used.
Symmetry == Permutations(MCLayers)
=============================================================================
