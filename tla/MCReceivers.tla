----------------------------- MODULE MCReceivers -----------------------------
(***************************************************************************)
(* The three receivers of what comes in at a pace they do not set, one     *)
(* beside the other: via says which of them a behaviour is about, and the  *)
(* others stay where they start.  Of the client, "tcp" has packets that    *)
(* follow each other over TCP and "udp" the streamer's datagrams, with one *)
(* packet over TCP.                                                        *)
(***************************************************************************)
EXTENDS CameraPipeline, MCUartProtocol, Client

VARIABLE via

receiversVars == <<vars, uartVars, clientVars, via>>

\* The first states of the receivers that are left alone
CameraAtRest == Init /\ mode = "pipelined"
UartAtRest ==
  UartInit /\ sent = 0 /\ message = [kind |-> "RNG", id |-> 0, decoy |-> {}]

ReceiversInit ==
  /\ ClientInit
  /\ \/ via = "camera" /\ Init /\ UartAtRest
     \/ via = "uart" /\ UartInit /\ CameraAtRest
     \/ via \in {"tcp", "udp"} /\ CameraAtRest /\ UartAtRest

\* What the deck sends to the client
OverTcp == ClientNext /\ ~DeckSends
OverUdp == ClientNext /\ tcpSent' <= 1

ReceiversNext ==
  \/ via = "camera" /\ Next /\ UNCHANGED <<uartVars, clientVars, via>>
  \/ via = "uart" /\ UartNext /\ UNCHANGED <<vars, clientVars, via>>
  \/ via = "tcp" /\ OverTcp /\ UNCHANGED <<vars, uartVars, via>>
  \/ via = "tcp" /\ UNCHANGED receiversVars \* the deck may fall silent
  \/ via = "udp" /\ OverUdp /\ UNCHANGED <<vars, uartVars, via>>

\* The fairness of Spec, UartSpec and ClientSpec
ReceiversSpec ==
  /\ ReceiversInit /\ [][ReceiversNext]_receiversVars
  /\ WF_vars(via = "camera" /\ CameraTask)
  /\ WF_vars(via = "camera" /\ CaptureDone)
  /\ WF_vars(via = "camera" /\ FrameCaptured)
  /\ WF_uartVars(via = "uart" /\ (ByteArrives \/ UartTask))
  /\ WF_clientVars(via = "udp" /\ TcpThread) /\ WF_clientVars(via = "udp" /\ UdpThread)
  /\ WF_clientVars(via = "udp" /\ MainReceive)
  /\ SF_clientVars(via = "udp" /\ UdpConnect) /\ SF_clientVars(via = "udp" /\ UdpLock)
  /\ WF_clientVars(via = "udp" /\ DeckSends) /\ WF_clientVars(via = "udp" /\ Undeliverable)
------------------------------------------------------------------------------
\* FramesKeepComing, Resynchronises and BuffersReturn, each of its own receiver.
CameraKeepsGoing == via = "camera" => FramesKeepComing
UartResynchronises == via = "uart" => Resynchronises
ClientBuffersReturn == via = "udp" => BuffersReturn
==============================================================================
