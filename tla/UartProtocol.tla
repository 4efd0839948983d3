---------------------------- MODULE UartProtocol ----------------------------
(***************************************************************************)
(* uart_protocol_task of nanocockpit/lib/uart_protocol.c: it finds the     *)
(* messages of the STM32 in a stream of bytes.  It reads a few bytes at a  *)
(* time until it sees a header, then the rest of the message, compares the *)
(* checksum and has the message's callback run.  Bytes can be lost, and a  *)
(* payload can contain what looks like a header.                           *)
(*                                                                         *)
(* A byte is a triple: what the search sees of it, and the message and the *)
(* place in it that it comes from.  The checksum is taken to match only    *)
(* for all bytes of one message in their order.  What is written behind    *)
(* the buffer is taken to fall on done_event, the next member, which is    *)
(* initialised before it is used again.                                    *)
(***************************************************************************)
EXTENDS Integers, Sequences

CONSTANTS
  Kind,            \* the three kinds of message
  Length,          \* [Kind -> length of the payload]
  UART_HEADER_LENGTH, UART_READ_SIZE, UART_CHECKSUM_LENGTH, UART_BUFFER_LENGTH,
  TimestampLength, \* of recv_timestamp, the last member of uart_msg_t
  Decoy,           \* kinds whose header a payload may begin with
  MaxLosses,       \* how many bytes are lost
  Ids              \* numbers that tell messages apart, used in turn

\* A read never takes a byte of the next message; the search starts with a whole header,
\* and the last of its reads fills the buffer exactly; each message fits by itself.
ASSUME UartAssumption ==
  /\ \A n \in {UART_HEADER_LENGTH, UART_READ_SIZE, UART_CHECKSUM_LENGTH, UART_BUFFER_LENGTH,
               TimestampLength, Ids} : n \in Nat \ {0}
  /\ Length \in [Kind -> Nat \ {0}]
  /\ Decoy \subseteq Kind
  /\ UART_READ_SIZE = UART_HEADER_LENGTH
  /\ UART_BUFFER_LENGTH % UART_READ_SIZE = 0
  /\ \A k \in Kind : LET rest == Length[k] + UART_CHECKSUM_LENGTH
                     IN  /\ UART_READ_SIZE <= rest
                         /\ UART_HEADER_LENGTH + rest <= UART_BUFFER_LENGTH
  /\ MaxLosses \in Nat

VARIABLES
  message,   \* what the STM32 is sending: kind, number, and the decoy in its payload
  sent,      \* bytes of it that have left
  losses,    \* bytes lost so far
  buffer,    \* the available bytes of protocol->buffer
  wanted,    \* bytes that the read under way still waits for
  discarded, \* discarded_length
  found,     \* kinds whose header was found: none or one
  at         \* where the task resumes

sender == <<message, sent, losses>>
uartVars == <<sender, buffer, wanted, discarded, found, at>>

Message == [kind : Kind, id : 0 .. Ids - 1, decoy : {{}} \cup {{k} : k \in Decoy}]
Total(k) == UART_HEADER_LENGTH + Length[k] + UART_CHECKSUM_LENGTH

\* The header of the kind, then the payload, which may begin with another header
Seen(m, i) ==
  IF i < UART_HEADER_LENGTH THEN {<<m.kind, i>>}
  ELSE IF i < 2 * UART_HEADER_LENGTH THEN {<<k, i - UART_HEADER_LENGTH>> : k \in m.decoy}
  ELSE {}

ByteOf(m, i) == [seen |-> Seen(m, i), id |-> m.id, place |-> i]

\* uart_protocol_start, with the STM32 in the middle of some message, and the first read
UartInit ==
  /\ message \in {m \in Message : m.id = 0}
  /\ sent \in 0 .. Total(message.kind) - 1
  /\ losses = 0
  /\ buffer = << >>
  /\ wanted = UART_READ_SIZE
  /\ discarded = 0 /\ found = {}
  /\ at = "search"
----------------------------------------------------------------------------
(* The stream *)

\* The next byte leaves; after the last one of a message another message follows.
ByteLeaves ==
  IF sent + 1 < Total(message.kind)
    THEN sent' = sent + 1 /\ UNCHANGED message
    ELSE /\ sent' = 0
         /\ \E m \in Message :
              /\ m.id = (message.id + 1) % Ids
              /\ message' = m

ByteArrives ==
  /\ wanted > 0
  /\ ByteLeaves
  /\ buffer' = Append(buffer, ByteOf(message, sent))
  /\ wanted' = wanted - 1
  /\ UNCHANGED <<losses, discarded, found, at>>

ByteLost ==
  /\ losses < MaxLosses
  /\ losses' = losses + 1
  /\ ByteLeaves
  /\ UNCHANGED <<buffer, wanted, discarded, found, at>>
----------------------------------------------------------------------------
(* uart_protocol_task, when the read it waits for is complete *)

available == Len(buffer)

\* The head of the outer loop: nothing is kept of the buffer.
StartOver ==
  /\ buffer' = << >>
  /\ wanted' = UART_READ_SIZE
  /\ discarded' = 0 /\ found' = {}
  /\ at' = "search"

\* memcmp with the headers, at discarded_length
HeadersHere ==
  {k \in Kind : \A i \in 0 .. UART_HEADER_LENGTH - 1 :
                  <<k, i>> \in buffer[discarded + i + 1].seen}

NeedsMore(n) == n + UART_HEADER_LENGTH > available

\* Mutant of BufferExhausted: the search goes on to the end of the buffer.
ExhaustedLater(n) == n > UART_BUFFER_LENGTH

BufferExhausted(n) == n + UART_READ_SIZE > UART_BUFFER_LENGTH

\* Mutant of SkipByte: the search goes from one read to the next.
SkipRead ==
  /\ HeadersHere = {}
  /\ StartOver

\* One byte further, with another read if that takes more bytes, or all over again
SkipByte ==
  /\ HeadersHere = {}
  /\ IF BufferExhausted(discarded + 1)
       THEN StartOver
       ELSE /\ discarded' = discarded + 1
            /\ wanted' = IF NeedsMore(discarded + 1) THEN UART_READ_SIZE ELSE 0
            /\ UNCHANGED <<buffer, found, at>>

\* total_length
MessageEnd(k) == discarded + Total(k)

\* Mutant of ReadRest: what is available already is not subtracted.
ReadWhole ==
  \E k \in HeadersHere :
    IF MessageEnd(k) > UART_BUFFER_LENGTH
      THEN StartOver
      ELSE /\ found' = {k}
           /\ wanted' = MessageEnd(k)
           /\ at' = "check"
           /\ UNCHANGED <<buffer, discarded>>

\* A header is found: the rest is read, unless it does not fit.
ReadRest ==
  \E k \in HeadersHere :
    IF MessageEnd(k) > UART_BUFFER_LENGTH
      THEN StartOver
      ELSE /\ found' = {k}
           /\ wanted' = IF MessageEnd(k) > available THEN MessageEnd(k) - available ELSE 0
           /\ at' = "check"
           /\ UNCHANGED <<buffer, discarded>>

Search ==
  /\ at = "search" /\ wanted = 0
  /\ SkipByte \/ ReadRest
  /\ UNCHANGED sender

\* &message->checksum and &message->recv_timestamp come after the longest payload.
LongestPayload == CHOOSE n \in {Length[k] : k \in Kind} : \A k \in Kind : Length[k] <= n
FieldsEnd == discarded + UART_HEADER_LENGTH + LongestPayload + UART_CHECKSUM_LENGTH
               + TimestampLength

\* The bytes of the message, from its header to its checksum
MessageBytes(k) == SubSeq(buffer, discarded + 1, discarded + Total(k))

ChecksumMatches(k) ==
  LET bytes == MessageBytes(k)
  IN  \A i \in DOMAIN bytes : bytes[i].place = i - 1 /\ bytes[i].id = bytes[1].id

\* The checksum and the time are written behind the message, and the sum is compared.
CheckMessage ==
  /\ at = "check" /\ wanted = 0
  /\ \E k \in found :
       IF ChecksumMatches(k)
         THEN at' = "callback" /\ UNCHANGED <<buffer, wanted, discarded, found>>
         ELSE StartOver
  /\ UNCHANGED sender

\* The callback takes what it needs of the message and returns.
MessageCallback ==
  /\ at = "callback"
  /\ StartOver
  /\ UNCHANGED sender

UartTask == Search \/ CheckMessage \/ MessageCallback
UartNext == ByteArrives \/ ByteLost \/ UartTask

\* The STM32 keeps sending and the scheduler keeps running the task.
UartSpec == UartInit /\ [][UartNext]_uartVars /\ WF_uartVars(ByteArrives \/ UartTask)
----------------------------------------------------------------------------
\* No read asks for more than the buffer has room for, headers are only looked for
\* in bytes that were read, and when a message is complete nothing of the next one has
\* been taken: its end would be lost (uart_protocol.c:67, 78, 83, 106, 132).
ReadsWithinBuffer ==
  /\ available + wanted <= UART_BUFFER_LENGTH
  /\ at = "search" /\ wanted = 0 => discarded + UART_HEADER_LENGTH <= available
  /\ at \in {"check", "callback"} => \A k \in found : available + wanted = MessageEnd(k)

\* The buffer holds the message that is being sent as far as it has left, from its first
\* byte on, or a whole message and nothing of the next.
FirstBytes(m, n) == [i \in 1 .. n |-> ByteOf(m, i - 1)]
InStep ==
  /\ discarded = 0
  /\ \/ buffer = FirstBytes(message, sent)
     \/ sent = 0 /\ \E m \in Message : buffer = FirstBytes(m, Total(m.kind))

\* A receiver that is in step with the STM32 stays so as long as no byte is lost, and gives
\* up nothing of what it has read but a message that the callback was given: no header in
\* a payload, no kind or order of messages and no boundary of a read makes it drop one.
StaysInStep ==
  [][InStep /\ losses' = losses =>
       InStep' /\ (buffer' = << >> => buffer = << >> \/ at = "callback")]_uartVars

\* "Give up and start again from the beginning of the buffer" (uart_protocol.c:99-100)
\* when a message passes the end: what is accepted is handled within the buffer, the
\* checksum and the time of reception included.
StaysWithinBuffer == at = "check" /\ wanted = 0 => FieldsEnd <= UART_BUFFER_LENGTH

\* Once no more bytes are lost and no payload looks like a header the receiver finds its
\* way back into the stream, as long as there come messages again and again that fit in
\* the buffer behind any other that the search began in: behind a long one that was missed
\* there is no room for another, which is then missed as well (the FIXME at
\* uart_protocol.c:101).  With decoys it can be misled again and again.
Fits(m) == \A k \in Kind : Total(k) - 1 + Total(m.kind) <= UART_BUFFER_LENGTH
Resynchronises == <>[](message.decoy = {}) /\ []<>Fits(message) => []<>(at = "callback")
============================================================================
