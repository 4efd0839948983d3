--------------------------- MODULE MCUartProtocol ---------------------------
(* UartProtocol with the lengths of uart_protocol.h, and scaled down by about four *)
EXTENDS UartProtocol

MCKind == {"STA", "RNG", "TOF"}
RealLength == [STA |-> 32, RNG |-> 4, TOF |-> 68]
MCLength == [STA |-> 8, RNG |-> 2, TOF |-> 16]
=============================================================================
