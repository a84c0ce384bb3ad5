--------------------------- MODULE MessageFraming ---------------------------
(***************************************************************************)
(* hdfs/messages/message_handler.go: one connection on which one process   *)
(* sends a message, some chunk data after it where the message announces   *)
(* it, and closes, and another receives.  Bytes written become readable in *)
(* pieces of any length; the connection may break, and then bytes written  *)
(* last are lost.                                                          *)
(***************************************************************************)
EXTENDS Integers, SequencesExt

CONSTANTS
  PrefixLength, \* bytes of the length before a message
  Radix,        \* values of a byte
  Sizes,        \* bound: lengths of a message
  DataSizes     \* bound: lengths of the data after it

\* What a byte counts that has i bytes before it.
Weight[i \in 0 .. PrefixLength] == IF i = 0 THEN 1 ELSE Radix * Weight[i - 1]

ASSUME FramingAssumption ==
  /\ PrefixLength \in Nat \ {0}
  /\ Radix \in Nat \ {0, 1}
  /\ Sizes \subseteq 1 .. Weight[PrefixLength] - 1
  /\ DataSizes \subseteq Nat

VARIABLES
  role,            \* which process receives
  size, dataSize,  \* of the message sent, and of the data after it
  sender,          \* the sender's next step
  broken,          \* history: the connection broke
  wire,            \* written and not yet read
  receiver,        \* the receiver's next step, or how it ended
  prefix,          \* what was read into each buffer
  payload,
  data

vars == <<role, size, dataSize, sender, broken, wire, receiver, prefix, payload,
          data>>

Byte == [part : {"prefix"}, value : 0 .. Radix - 1] \cup
        [part : {"payload", "data"}, value : Nat]

TypeOK ==
  /\ role \in {"client", "node"}
  /\ size \in Sizes /\ dataSize \in DataSizes
  /\ sender \in {"prefix", "payload", "data", "close", "closed"}
  /\ broken \in BOOLEAN
  /\ wire \in Seq(Byte)
  /\ receiver \in {"prefix", "payload", "data", "returned", "failed"}
  /\ prefix \in Seq(Byte) /\ Len(prefix) <= PrefixLength
  /\ payload \in Seq(Byte)
  /\ data \in Seq(Byte) /\ Len(data) <= dataSize

-----------------------------------------------------------------------------
(* Sending. *)

DigitWide(n, i) == n \div Weight[i - 1]  \* mutant: not cut to a byte
Digit(n, i) == (n \div Weight[i - 1]) % Radix

\* binary.LittleEndian.PutUint64.
PutUint(n) ==
  [i \in 1 .. PrefixLength |-> [part |-> "prefix", value |-> Digit(n, i)]]

Message == [i \in 1 .. size |-> [part |-> "payload", value |-> i]]
Data    == [i \in 1 .. dataSize |-> [part |-> "data", value |-> i]]

Write(step, bytes, next) ==
  /\ sender = step
  /\ wire' = wire \o bytes
  /\ sender' = next
  /\ UNCHANGED <<role, size, dataSize, broken, receiver, prefix, payload, data>>

\* Send, and the data its callers write after it; then Close.
SendPrefix  == Write("prefix", PutUint(size), "payload")
SendPayload == Write("payload", Message, "data")
SendData    == Write("data", Data, "close")
Close       == Write("close", <<>>, "closed")

\* The sender ends, or the network fails.
Break ==
  /\ sender # "closed"
  /\ sender' = "closed"
  /\ broken' = TRUE
  /\ \E n \in 0 .. Len(wire) : wire' = SubSeq(wire, 1, n)
  /\ UNCHANGED <<role, size, dataSize, receiver, prefix, payload, data>>

-----------------------------------------------------------------------------
(* Receiving. *)

Least(m, n) == IF m < n THEN m ELSE n

\* How many bytes a Read into a buffer with `room` returns: some, if there are
\* any; none at the end of the stream; else it blocks.
Readable(room) ==
  IF wire # <<>> THEN 1 .. Least(room, Len(wire))
  ELSE IF sender = "closed" THEN {0} ELSE {}

Taken(n) == SubSeq(wire, 1, n)
Drop(n)  == wire' = SubSeq(wire, n + 1, Len(wire))

\* The number in a buffer of zeros into which the prefix was read, as far as it
\* was there.
Uint(s) ==
  LET upTo[i \in 0 .. Len(s)] ==
        IF i = 0 THEN 0 ELSE upTo[i - 1] + s[i].value * Weight[i - 1]
  IN upTo[Len(s)]

payloadSize == Uint(prefix)

ReadPrefix ==
  /\ receiver = "prefix"
  /\ \E n \in Readable(PrefixLength) : prefix' = Taken(n) /\ Drop(n)
  /\ receiver' = "payload"
  /\ UNCHANGED <<role, size, dataSize, sender, broken, payload, data>>

\* A message's fields are numbered from 1: one that starts with what is left of
\* a prefix is refused, or taken for another message.
Unmarshal(s) == IF s = <<>> THEN {"empty"}
                ELSE IF s = Message THEN {"message"} ELSE {"error", "other"}

Short == Len(prefix) < PrefixLength

MoreToReadOnce(s) == s = <<>> /\ payloadSize > 0  \* mutant: whatever one Read gets
MoreToReadOver(s) == Len(s) <= payloadSize        \* mutant: one byte too many
MoreToRead(s)     == Len(s) < payloadSize

\* A Read that returns nothing, at the end of the stream, changes nothing: the
\* loop goes round for ever.
ReadPayload ==
  /\ receiver = "payload" /\ MoreToRead(payload)
  /\ \E n \in Readable(payloadSize - Len(payload)) :
       payload' = payload \o Taken(n) /\ Drop(n)
  /\ UNCHANGED <<role, size, dataSize, sender, broken, receiver, prefix, data>>

\* The handlers end the process on an error, and return on an empty message.
Receive ==
  /\ receiver = "payload" /\ ~MoreToRead(payload)
  /\ \E outcome \in Unmarshal(payload) :
       receiver' = CASE outcome = "error"   -> "failed"
                     [] outcome = "message" -> "data"
                     [] OTHER               -> "returned"
  /\ UNCHANGED <<role, size, dataSize, sender, broken, wire, prefix, payload, data>>

\* Mutant: the client does not look at CopyN's error either.
AfterCopyUnchecked(n) == IF n = 0 THEN "returned" ELSE "data"

\* The stream ends before the data do: HandleError ends the client, while the
\* storage node goes on with as much of the chunk as there was.
AfterCopy(n) == IF n # 0 THEN "data"
                ELSE IF role = "client" THEN "failed" ELSE "returned"

\* io.CopyN of as many bytes as the message says.
CopyData ==
  /\ receiver = "data" /\ Len(data) < dataSize
  /\ \E n \in Readable(dataSize - Len(data)) :
       /\ data' = data \o Taken(n)
       /\ Drop(n)
       /\ receiver' = AfterCopy(n)
  /\ UNCHANGED <<role, size, dataSize, sender, broken, prefix, payload>>

Return ==
  /\ receiver = "data" /\ Len(data) = dataSize
  /\ receiver' = "returned"
  /\ UNCHANGED <<role, size, dataSize, sender, broken, wire, prefix, payload, data>>

-----------------------------------------------------------------------------
Init ==
  /\ role \in {"client", "node"}
  /\ size \in Sizes /\ dataSize \in DataSizes
  /\ sender = "prefix"
  /\ broken = FALSE
  /\ wire = <<>>
  /\ receiver = "prefix"
  /\ prefix = <<>> /\ payload = <<>> /\ data = <<>>

Sender   == SendPrefix \/ SendPayload \/ SendData \/ Close
Receiver == ReadPrefix \/ ReadPayload \/ Receive \/ CopyData \/ Return

Next == Sender \/ Receiver \/ Break

Spec == Init /\ [][Next]_vars

\* Both goroutines run.
FairSpec == Spec /\ WF_vars(Sender) /\ WF_vars(Receiver)

-----------------------------------------------------------------------------
(* Properties. *)

\* Wherever the stream is split or breaks, a message is handled only as it was
\* sent, and the data copied after it begins where the sender's begins: unless
\* the first Read got less than the whole prefix.
Framed ==
  receiver \notin {"prefix", "payload"} /\ ~Short =>
    payload = Message /\ IsPrefix(data, Data)

\* A message read after a prefix that came in pieces is not the one sent, so no
\* data are copied for it.  A client goes on with a message only after all its
\* data; a storage node, which does not look at CopyN's error, also after a part of
\* them, but only if the connection broke.  And nobody fails but for these reasons.
CopiedWhole ==
  /\ Short => data = <<>> /\ receiver # "data"
  /\ receiver = "returned" /\ ~Short => data = Data \/ (role = "node" /\ broken)
  /\ receiver = "failed" => Short \/ (role = "client" /\ broken)

\* The loop that waits for bytes of a message that broke off.
Starved == /\ receiver = "payload" /\ Len(payload) < payloadSize
           /\ wire = <<>> /\ sender = "closed"

\* The receiver comes to an end, unless the connection breaks after some of
\* the prefix and before the end of the message.
ReceiveEnds == <>(receiver \in {"returned", "failed"} \/ (broken /\ Starved))

=============================================================================
