---------------------------- MODULE MCHandshake ----------------------------
(* The clients of Handshake for TLC, by the version they speak, and how    *)
(* the clock is set.                                                       *)
EXTENDS Handshake

CONSTANTS NewClients, OldClients

MCAddresses == NewClients \cup OldClients
MCSpeaks == [a \in MCAddresses |-> IF a \in NewClients THEN 6 ELSE 5]
MCAdjustments == {-1, 2}
=============================================================================
