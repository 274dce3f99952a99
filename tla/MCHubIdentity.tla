--------------------------- MODULE MCHubIdentity ---------------------------
(* Instances of HubIdentity small enough for TLC. *)
EXTENDS HubIdentity, TLC

CONSTANTS h1, h2, eth1, wlan1, eth2, s1, s2, s3

OneHub == {h1}
TwoHubs == {h1, h2}
OneHubMacs == {eth1, wlan1}
TwoHubMacs == {eth1, wlan1, eth2}
OneHubHardware == h1 :> {eth1, wlan1}
TwoHubHardware == h1 :> {eth1, wlan1} @@ h2 :> {eth2}

SerialSymmetry == Permutations(Serial)
=============================================================================
