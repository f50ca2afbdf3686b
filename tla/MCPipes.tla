------------------------------ MODULE MCPipes ------------------------------
(* Pipes on a panel and an HDMI connector with an encoder each, two crtcs of *)
(* which both encoders reach one and HDMI's the other, and two monitors that *)
(* list the same modes in different order; the second prefers a mode that is *)
(* not its first.                                                            *)
EXTENDS Pipes, TLC

CONSTANTS dsi, hdmi, e1, e2, k1, k2, panel, tv1, tv2, m1, m2

MCConnectors == {dsi, hdmi}
MCEncoders == {e1, e2}
MCCrtcs == {k1, k2}
MCPossible == (dsi :> <<e1>>) @@ (hdmi :> <<e2>>)
MCReach == (e1 :> {k1}) @@ (e2 :> MCCrtcs)
MCMonitors == {panel, tv1, tv2}
MCPlugs == (dsi :> {panel}) @@ (hdmi :> {tv1, tv2, None})
MCModeList == (panel :> <<m1>>) @@ (tv1 :> <<m1, m2>>) @@ (tv2 :> <<m2, m1>>)
MCPreferred == (panel :> 0) @@ (tv1 :> 0) @@ (tv2 :> 1)
\* 0, and 2, which is negative where ids have two bits.
MCAsked == {0, 2}
=============================================================================
