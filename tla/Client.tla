-------------------------------- MODULE Client --------------------------------
(* The receiving side of the Python client: tcp_receive and udp_receive, the   *)
(* two threads of MultiClientTransport, put packets into a queue of two, from  *)
(* which StreamerClient.receive puts the buffers together. Each new TCP        *)
(* connection replaces the UDP socket, under the condition variable that       *)
(* udp_receive holds while it waits for a datagram.                            *)
(*                                                                             *)
(* External: the AI-deck and the network, which may drop, duplicate or reorder *)
(* datagrams and reset the connection; what closing a socket does to a thread  *)
(* that is reading from it (on Linux nothing, elsewhere the read fails). The   *)
(* streamer's packets travel over UDP and packets of other functions over TCP. *)
(* Each segment carries one unit of the buffer, and a CRC tells any two        *)
(* buffers apart. Sending and shutting down are left out.                      *)
EXTENDS Integers, Sequences, SequencesExt

CONSTANTS Images,          \* buffers are numbered modulo this
          Segments,        \* packets per buffer
          Summed,          \* the buffers that are sent with a checksum
          SeqNumbers,          \* 65536: the sequence numbers of datagrams
          QueueSize,       \* rx_queue
          MaxConnections, MaxFaults, MaxFlight,
          MaxTcpPackets    \* bounds; the last one is per connection
ASSUME SizesAssumption ==
  /\ Images \in Nat \ {0} /\ Segments \in Nat \ {0} /\ SeqNumbers \in Nat \ {0}
  /\ QueueSize \in Nat \ {0} /\ Summed \subseteq 0..Images - 1

None == -2        \* Python's None, for a socket or a sequence number

VARIABLES
  conn,       \* TCP connections made so far; the last one names its UDP socket
  wire,       \* units on the TCP connection that have not been received
  tcpSent,    \* packets sent over TCP in all
  flight,     \* datagrams on their way
  peer,       \* the next datagram: sequence number, buffer, segment
  faults, disturbed,
  tpc, tcpBuffer, state, header, tcpPacket,                 \* tcp_receive
  socket, closed, nextRx, cv,                            \* UDPClientTransport
  upc, reading, datagram,                                \* udp_receive
  rxq,
  expected, parts, remaining, begun,                     \* StreamerClient.receive
  yielded                                                \* and what it has just yielded
deck == <<conn, wire, tcpSent, flight, peer, faults, disturbed>>
tcp  == <<tpc, tcpBuffer, state, header, tcpPacket>>
sock == <<socket, closed, nextRx, cv>>
udp  == <<upc, reading, datagram>>
main == <<expected, parts, remaining, begun, yielded>>
clientVars == <<deck, tcp, sock, udp, rxq, main>>

Nothing == [buffer |-> None, parts |-> <<>>]
NoHeader == <<>>
NoDatagram == [to |-> None, seq |-> None, img |-> None, seg |-> None]
ClientInit ==
  /\ conn = 0 /\ wire = <<>> /\ tcpSent = 0 /\ flight = <<>>
  /\ peer = [seq |-> 0, img |-> 0, seg |-> 1]
  /\ faults = 0 /\ disturbed = FALSE
  /\ tpc = "connect" /\ tcpBuffer = <<>> /\ state = "header" /\ header = NoHeader
  /\ tcpPacket = <<>>
  /\ socket = None /\ closed = FALSE /\ nextRx = None /\ cv = "free"
  /\ upc = "lock" /\ reading = None /\ datagram = NoDatagram
  /\ rxq = <<>>
  /\ expected = "BEGIN" /\ parts = <<>> /\ remaining = 0 /\ begun = None
  /\ yielded = Nothing

------------------------------------------------------------------------------
(* TCPClientTransport, driven by tcp_receive.                                 *)

\* Mutant of EmptyBuffer: what was left of the last connection stays.
KeptBuffer(b) == b
EmptyBuffer(b) == <<>>

\* _receive_stream connects; receive starts afresh and reports the reset.
TcpConnect ==
  /\ tpc = "connect" /\ conn < MaxConnections
  /\ conn' = conn + 1 /\ wire' = <<>>
  /\ tcpBuffer' = EmptyBuffer(tcpBuffer) /\ state' = "header" /\ header' = NoHeader
  /\ tpc' = IF socket = None THEN "lock" ELSE "close"
  /\ UNCHANGED <<tcpSent, flight, peer, faults, disturbed, tcpPacket, sock, udp, rxq, main>>

\* UDPClientTransport.disconnect, which does not take the lock, in two steps ...
UdpClose ==
  /\ tpc = "close" /\ tpc' = "forget" /\ closed' = TRUE
  /\ UNCHANGED <<deck, tcpBuffer, state, header, tcpPacket, socket, nextRx, cv, udp, rxq, main>>
UdpForget ==
  /\ tpc = "forget" /\ tpc' = "lock" /\ socket' = None /\ nextRx' = None
  /\ UNCHANGED <<deck, tcpBuffer, state, header, tcpPacket, closed, cv, udp, rxq, main>>

\* ... and connect, which does.
UdpConnect ==
  /\ tpc = "lock" /\ cv = "free"
  /\ tpc' = "recv" /\ socket' = conn /\ closed' = FALSE /\ nextRx' = -1
  /\ UNCHANGED <<deck, tcpBuffer, state, header, tcpPacket, cv, udp, rxq, main>>

\* A header and a payload of two units each, so that a chunk can end inside of either;
\* the first unit of a header is its length.
HeaderUnits == 2
PayloadUnits == 2

\* One chunk moves the receiver by one state at most, whatever it completes. A
\* length over the maximum ends the generator, and with it its variables.
TcpReceive ==
  /\ tpc = "recv" /\ wire # <<>>
  /\ \E n \in 1..Len(wire) :
       LET got == tcpBuffer \o SubSeq(wire, 1, n) IN
       /\ wire' = SubSeq(wire, n + 1, Len(wire))
       /\ \/ /\ state = "header" /\ Len(got) < HeaderUnits
             /\ tcpBuffer' = got /\ UNCHANGED <<tpc, state, header, tcpPacket>>
          \/ /\ state = "header" /\ Len(got) >= HeaderUnits
             /\ header' = SubSeq(got, 1, HeaderUnits)
             /\ tcpBuffer' = SubSeq(got, HeaderUnits + 1, Len(got))
             /\ state' = "payload" /\ UNCHANGED <<tpc, tcpPacket>>
          \/ /\ state = "payload" /\ header[1].long
             /\ tpc' = "end" /\ tcpBuffer' = <<>> /\ state' = "header" /\ header' = NoHeader
             /\ UNCHANGED tcpPacket
          \/ /\ state = "payload" /\ ~header[1].long /\ Len(got) < PayloadUnits
             /\ tcpBuffer' = got /\ UNCHANGED <<tpc, state, header, tcpPacket>>
          \/ /\ state = "payload" /\ ~header[1].long /\ Len(got) >= PayloadUnits
             /\ tcpPacket' = header \o SubSeq(got, 1, PayloadUnits)
             /\ tcpBuffer' = SubSeq(got, PayloadUnits + 1, Len(got))
             /\ state' = "header" /\ header' = NoHeader /\ tpc' = "put"
  /\ UNCHANGED <<conn, tcpSent, flight, peer, faults, disturbed, sock, udp, rxq, main>>

\* The connection is lost, with what has not been received; the next follows.
TcpReset ==
  /\ tpc = "recv" /\ 0 < conn /\ conn < MaxConnections
  /\ tpc' = "connect" /\ wire' = <<>> /\ disturbed' = TRUE
  /\ UNCHANGED <<conn, tcpSent, flight, peer, faults, tcpBuffer, state, header, tcpPacket,
                 sock, udp, rxq, main>>

\* rx_queue.put: the packet, or None once a length over the maximum has ended
\* the generator.
TcpPut ==
  /\ tpc \in {"put", "end"} /\ Len(rxq) < QueueSize
  /\ rxq' = Append(rxq, [function |-> "OTHER"])
  /\ tpc' = IF tpc = "put" THEN "recv" ELSE "over"
  /\ tcpPacket' = <<>>
  /\ UNCHANGED <<deck, tcpBuffer, state, header, sock, udp, main>>

------------------------------------------------------------------------------
(* UDPClientTransport.receive, driven by udp_receive.                         *)

\* with self.cv: self.cv.wait_for(self.is_connected)
UdpLock ==
  /\ upc = "lock" /\ cv = "free" /\ socket # None
  /\ upc' = "enter" /\ cv' = "udp"
  /\ UNCHANGED <<deck, tcp, socket, closed, nextRx, reading, datagram, rxq, main>>

\* The attribute is read anew: it may be None by now, and None has no recv.
UdpEnter ==
  /\ upc = "enter"
  /\ \/ socket = None /\ upc' = "dead" /\ cv' = "free" /\ UNCHANGED reading
     \/ socket # None /\ closed /\ upc' = "lock" /\ cv' = "free" /\ UNCHANGED reading
     \/ socket # None /\ ~closed /\ upc' = "recv" /\ reading' = socket /\ UNCHANGED cv
  /\ UNCHANGED <<deck, tcp, socket, closed, nextRx, datagram, rxq, main>>

ReadingClosed == upc = "recv" /\ (socket # reading \/ closed)

\* recv returns a datagram: the next, a later one, or one that comes again.
UdpReceive ==
  /\ upc = "recv" /\ upc' = "check" /\ reading' = None
  /\ \E i \in 1..Len(flight), again \in BOOLEAN :
       /\ flight[i].to = reading
       /\ datagram' = flight[i]
       /\ IF i = 1 /\ ~again THEN UNCHANGED <<faults, disturbed>>
          ELSE faults < MaxFaults /\ faults' = faults + 1 /\ disturbed' = TRUE
       /\ flight' = IF again THEN flight ELSE RemoveAt(flight, i)
  /\ UNCHANGED <<conn, wire, tcpSent, peer, tcp, sock, rxq, main>>

\* recv of a socket that has been closed raises EBADF, where closing wakes up the
\* reader; nothing says that it ever happens.
UdpReceiveClosed ==
  /\ ReadingClosed
  /\ upc' = "lock" /\ cv' = "free" /\ reading' = None
  /\ UNCHANGED <<deck, tcp, socket, closed, nextRx, datagram, rxq, main>>

\* Mutant of AfterSeq: the sequence number is not wrapped.
AfterSeqUnwrapped(n) == n + 1
AfterSeq(n) == (n + 1) % SeqNumbers
\* The sequence number is compared with next_rx_seq, which may be None by now; one
\* below it is dropped, and with it what was expected.
UdpCheck ==
  /\ upc = "check"
  /\ \/ /\ nextRx = None /\ upc' = "dead" /\ cv' = "free"
        /\ datagram' = NoDatagram /\ UNCHANGED nextRx
     \/ /\ nextRx # None /\ datagram.seq < nextRx
        /\ nextRx' = -1 /\ upc' = "lock" /\ cv' = "free" /\ datagram' = NoDatagram
     \/ /\ nextRx # None /\ datagram.seq >= nextRx
        /\ nextRx' = AfterSeq(datagram.seq) /\ upc' = "put" /\ UNCHANGED <<cv, datagram>>
  /\ UNCHANGED <<deck, tcp, socket, closed, reading, rxq, main>>

\* rx_queue.put, still under the lock.
UdpPut ==
  /\ upc = "put" /\ Len(rxq) < QueueSize
  /\ rxq' = Append(rxq, [function |-> "STREAMER", img |-> datagram.img, seg |-> datagram.seg])
  /\ upc' = "lock" /\ cv' = "free" /\ datagram' = NoDatagram
  /\ UNCHANGED <<deck, tcp, socket, closed, nextRx, reading, main>>

------------------------------------------------------------------------------
(* MultiClientTransport.receive and StreamerClient.receive.                   *)

\* Mutant of Corrupted: the checksum is not compared.
CorruptedUnread(img, got) == FALSE
\* binascii.crc32 of the buffer against the checksum of its BEGIN, unless zero.
Corrupted(img, got) ==
  img \in Summed /\ got # [s \in 1..Segments |-> [img |-> img, seg |-> s]]

Received(got, left, img) ==
  /\ IF left > 1
     THEN /\ expected' = "DATA" /\ parts' = got /\ remaining' = left - 1 /\ begun' = img
          /\ yielded' = Nothing
     ELSE /\ expected' = "BEGIN" /\ parts' = <<>> /\ remaining' = 0 /\ begun' = None
          /\ yielded' = IF Corrupted(img, got) THEN Nothing
                        ELSE [buffer |-> img, parts |-> got]

\* A packet that is not the expected one drops the buffer; a BEGIN starts anew.
MainReceive ==
  /\ rxq # <<>> /\ rxq' = Tail(rxq)
  /\ LET packet == Head(rxq) IN
     \/ packet.function # "STREAMER" /\ yielded' = Nothing
        /\ UNCHANGED <<expected, parts, remaining, begun>>
     \/ /\ packet.function = "STREAMER" /\ packet.seg = 1
        /\ Received(<<[img |-> packet.img, seg |-> 1]>>, Segments, packet.img)
     \/ /\ packet.function = "STREAMER" /\ packet.seg > 1 /\ expected = "DATA"
        /\ Received(Append(parts, [img |-> packet.img, seg |-> packet.seg]),
                    remaining, begun)
     \/ /\ packet.function = "STREAMER" /\ packet.seg > 1 /\ expected = "BEGIN"
        /\ parts' = <<>> /\ remaining' = 0 /\ begun' = None
        /\ yielded' = Nothing /\ UNCHANGED expected
  /\ UNCHANGED <<deck, tcp, sock, udp>>

------------------------------------------------------------------------------
(* The AI-deck and the network.                                               *)

\* The deck sends its buffers over and over, to the port of the last connection.
DeckSends ==
  /\ conn > 0 /\ Len(flight) < MaxFlight
  /\ flight' = Append(flight, [to |-> conn, seq |-> peer.seq, img |-> peer.img, seg |-> peer.seg])
  /\ peer' = [seq |-> (peer.seq + 1) % SeqNumbers,
              img |-> IF peer.seg < Segments THEN peer.img ELSE (peer.img + 1) % Images,
              seg |-> IF peer.seg < Segments THEN peer.seg + 1 ELSE 1]
  /\ UNCHANGED <<conn, wire, tcpSent, faults, disturbed, tcp, sock, udp, rxq, main>>

\* A packet may follow another that has not been received yet.
DeckSendsTcp ==
  /\ conn > 0 /\ tpc \notin {"connect", "over"} /\ tcpSent < MaxTcpPackets * conn
  /\ \E long \in BOOLEAN :
       wire' = wire \o [u \in 1..HeaderUnits + PayloadUnits |->
                          [long |-> long /\ u = 1, number |-> tcpSent]]
  /\ tcpSent' = tcpSent + 1
  /\ UNCHANGED <<conn, flight, peer, faults, disturbed, tcp, sock, udp, rxq, main>>

Lose ==
  /\ faults < MaxFaults /\ faults' = faults + 1 /\ disturbed' = TRUE
  /\ \E i \in 1..Len(flight) : flight' = RemoveAt(flight, i)
  /\ UNCHANGED <<conn, wire, tcpSent, peer, tcp, sock, udp, rxq, main>>

\* A datagram for a port without a socket, or with one that nobody will read.
Undeliverable ==
  /\ flight # <<>>
  /\ Head(flight).to \notin {socket, reading} \/ upc = "dead"
  /\ flight' = Tail(flight) /\ disturbed' = TRUE
  /\ UNCHANGED <<conn, wire, tcpSent, peer, faults, tcp, sock, udp, rxq, main>>

TcpThread == TcpConnect \/ UdpClose \/ UdpForget \/ UdpConnect \/ TcpReceive \/ TcpPut
UdpThread == UdpLock \/ UdpEnter \/ UdpReceive \/ UdpCheck \/ UdpPut
ClientNext ==
  TcpThread \/ TcpReset \/ UdpThread \/ UdpReceiveClosed
    \/ MainReceive \/ DeckSends \/ DeckSendsTcp \/ Lose \/ Undeliverable
ClientFairness ==
  /\ WF_clientVars(TcpThread) /\ WF_clientVars(UdpThread) /\ WF_clientVars(MainReceive)
  /\ SF_clientVars(UdpConnect) /\ SF_clientVars(UdpLock)
  /\ WF_clientVars(DeckSends) /\ WF_clientVars(Undeliverable)
ClientSpec == ClientInit /\ [][ClientNext]_clientVars /\ ClientFairness

------------------------------------------------------------------------------
\* A buffer that is yielded is the one that was sent, segment by segment, unless
\* it was sent without a checksum and the network disturbed the order.
BuffersIntact ==
  yielded # Nothing =>
    \/ yielded.parts = [s \in 1..Segments |-> [img |-> yielded.buffer, seg |-> s]]
    \/ yielded.buffer \notin Summed /\ disturbed

\* The packets cut out of the TCP stream are the ones that were sent, however
\* the stream is cut into chunks, within a header, within a payload or with the end
\* of one packet and the start of the next in one, and wherever a connection was lost.
PacketsWhole ==
  tcpPacket # <<>> =>
    /\ Len(tcpPacket) = HeaderUnits + PayloadUnits
    /\ \A u \in 1..Len(tcpPacket) : tcpPacket[u].number = tcpPacket[1].number

\* udp_receive has ended with an exception, or waits in recv for a socket that
\* nobody can send to while tcp_receive waits for the lock it holds.
UdpLost == upc = "dead" \/ ReadingClosed
\* Once the network has done its worst, every buffer gets through again, unless
\* a reconnection has taken the UDP thread away.
BuffersReturn == (<>[]UdpLost) \/ (\A i \in 0..Images - 1 : []<>(yielded.buffer = i))
==============================================================================
