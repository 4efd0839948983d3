----------------------------- MODULE MCLegacyCpx -----------------------------
(* Model-checking instances of LegacyCpx: one short control packet and one   *)
(* packet of full length for a function without a queue, or the first alone. *)
EXTENDS LegacyCpx

MCControl == {[route |-> "wifi_ctrl", len |-> 7]}
MCIncoming == MCControl \cup {[route |-> "app", len |-> 1021]}
MCTxLength == [wifi_rx_task |-> 3, camera_task |-> 1022]
==============================================================================
