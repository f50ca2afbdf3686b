-------------------------------- MODULE MCWifi --------------------------------
(* The interface is used in one role: as an access point or as a station; or a behaviour *)
(* is that of the net device below, or of the calls that are only passed on.  The four   *)
(* share no state but the driver's, so a behaviour is that of one of them.               *)
EXTENDS WifiAp, WifiSta, WifiNet, WifiCalls

CONSTANTS c1, c2, c36, m1, m2, Station

VARIABLE role

\* none; no channel; one, one twice, with another of its band, of the other and of none; one
\* twice and then another, where there is no room for a third
MCAsked == {<<>>, <<Unknown>>, <<c1>>, <<c1, c1>>, <<c1, c2>>, <<c1, c36>>, <<c1, Unknown>>, <<c1, c1, c2>>}
\* the whole band; without channels 12 to 14; without the first; between two channels
MCDomains == {<<2400, 2495>>, <<2402, 2472>>, <<2417, 2477>>, <<2473, 2483>>}

WifiInit ==
  /\ Init /\ StaInit /\ NetInit /\ CallsInit /\ role \in {"ap", "station", "net", "calls"}
  /\ role # "net" => mac = m1
  /\ role # "station" => bands[2] = Absent
  /\ role # "calls" => linux = "wiphy"

WifiNext ==
  \/ role = "ap" /\ Next /\ UNCHANGED <<staVars, netVars, callVars, role>>
  \/ role = "station" /\ StaNext /\ UNCHANGED <<vars, netVars, callVars, role>>
  \/ role = "net" /\ NetNext /\ UNCHANGED <<vars, staVars, callVars, role>>
  \/ role = "calls" /\ CallsNext /\ UNCHANGED <<vars, staVars, netVars, role>>

WifiSpec == WifiInit /\ [][WifiNext]_<<vars, staVars, netVars, callVars, role>>
=============================================================================
