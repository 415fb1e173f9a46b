------------------------------ MODULE MCUPnPClient ------------------------------
(* Two routers; the first discoverer may find a service outside of the LAN, *)
(* the second one the first router, the third one either router.            *)
EXTENDS UPnPClient

MCServiceOf == [s \in WANService |->
    CASE s = "outside" -> [router |-> "B", host |-> "outside", local |-> "lan"]
      [] s = "A"       -> [router |-> "A", host |-> "lan", local |-> "lan"]
      [] s = "B"       -> [router |-> "B", host |-> "lan", local |-> "lan"]]

MCAnswers == [i \in 1 .. NumDiscoverers |->
    CASE i = 1 -> {"outside"} [] i = 2 -> {"A"} [] i = 3 -> {"A", "B"}]

=============================================================================
