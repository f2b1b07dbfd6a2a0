---------------------------- MODULE MCInterface -----------------------------
(* Instances of Interface for TLC: a payload of 16 bytes, two interfaces,  *)
(* the hello of one node, and frames of other equipment whose payload_len  *)
(* is below, at and above the bytes that follow and the payload's size.    *)
EXTENDS Interface

MCIface == {"wlo1", "eth0"}
MCCommon == <<"wlo1", "eth0">>
MCMac == [wlo1 |-> <<164, 196, 148, 16, 255, 1>>, eth0 |-> <<12, 0, 0, 0, 128, 9>>]

MCFiles == {
  << >>,
  << Line("passphrase", "x"), Line("discovery_ttl", 7), Line("colour", "red"),
     Line("discovery_ttl", 320), Line("interface", "eth0") >>,
  << Line("passphrase", "") >>,
  << Line("discovery_interval_ms", Junk), Line("passphrase", "x") >>,
  << Line("discovery_interval_ms", 65537), Line("interface", "wlan7") >> }

Hello == <<65, 82, 65, 66, 65, 32, 72, 101, 108, 108, 111, 33>>
MCSent == {Packet(1, <<164, 196, 148, 16, 2, 254>>, [j \in 1 .. 6 |-> 255], <<n, 0, 0, 0>>, 64, Hello) :
             n \in 0 .. 1}

(* A frame of len bytes that reads as a header with this payload_len.      *)
Other(len, claimed) == [j \in 1 .. len |-> IF j = 34 THEN claimed ELSE IF j = 35 THEN 0 ELSE 64]
MCForeign == { Other(20, 64), Other(36, 1), Other(36, 2), Other(37, 2), Other(51, 16), Other(60, 17) }
=============================================================================
