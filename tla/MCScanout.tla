----------------------------- MODULE MCScanout -----------------------------
(* Two displays that compete for the two planes of the device, of which the *)
(* second display may use the first only.  A display on its own presents    *)
(* two dma-bufs, so that a handle that was closed early is another's when   *)
(* it is closed again; two displays present the same one.                   *)
EXTENDS Scanout, FiniteSets, TLC

CONSTANTS d1, d2, p1, p2, b1, b2

MCPlanes == {p1, p2}
MCDisplays == {d1, d2}
MCCandidates == [d \in MCDisplays |-> <<p1, p2>>]
MCMasked == [d \in MCDisplays |-> MCPlanes]
MCCrtcOk == (d1 :> MCPlanes) @@ (d2 :> {p1})
MCBuffers == {b1, b2}

Open == {clientBuffer[d] : d \in Displays} \cup {handle[i] : i \in Ids}

\* Bound: a second display is there only while one dma-buf is.
SharedBuffer == Cardinality(found') > 1 => Open' \subseteq {b1, NoBuffer}

MCSpec == ScanInit /\ [][ScanNext /\ SharedBuffer]_scanVars
=============================================================================
