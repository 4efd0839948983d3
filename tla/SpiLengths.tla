----------------------------- MODULE SpiLengths -----------------------------
(***************************************************************************)
(* The lengths of one transfer with NINA, from cpx_spi.c.  A transfer      *)
(* clocks the four-byte header, then as many bytes as the request's        *)
(* payload_head has, then the rest of the longer of the two packets.       *)
(* Lengths are in bytes; send is head + tail, or 0 without a send request; *)
(* recv is the length field of the received header, whatever NINA wrote.   *)
(***************************************************************************)
EXTENDS Integers

CONSTANT MTU  \* CPX_SPI_MTU

\* The comment on tail lengths in cpx_spi.c assumes it; 4092 - 4 in cpx_spi.h.
ASSUME MtuAssumption == MTU \in Nat /\ MTU % 4 = 0

Shorter(a, b) == IF a < b THEN a ELSE b
Longer(a, b) == IF a > b THEN a ELSE b

RoundedUp(n) == IF n % 4 = 0 THEN n ELSE n + (4 - (n % 4))
RoundedDown(n) == n - (n % 4)

\* Mutant of TotalLength: a send ignores what NINA has.
TotalOfSend(send, recv) == IF send > 0 THEN send ELSE Shorter(recv, MTU)

TotalLength(send, recv) == Longer(send, Shorter(recv, MTU))

\* cpx_spi_transfer_payload_head_async clears the CS when nothing is left
EndsAtHead(send, recv, head) == TotalLength(send, recv) = head

\* Bytes that cpx_spi_transfer_payload_tail_async clocks; none when 0
TailBytes(send, recv, head) == RoundedUp(TotalLength(send, recv) - head)

\* cpx_spi_send_max_tail_length
MaxTailLength(head) == RoundedDown(MTU - head)
=============================================================================
