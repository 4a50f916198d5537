--------------------------- MODULE MCTransmission ---------------------------
(* Transmission for TLC: the packets of the send queue and of the listener.  *)
EXTENDS Transmission

TheSendable == [queue |-> {"value", "stealthy"}, listener |-> {"ok"}]
=============================================================================
