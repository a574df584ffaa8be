------------------------------- MODULE Framing ------------------------------
(***************************************************************************)
(* From messages to bytes and back.  One end writes encoded messages to a  *)
(* connection; at the other end a decoder reads them with conn.read, which *)
(* each transport answers in its own way, however the bytes are cut up on  *)
(* the way.  A behaviour has one encoder and one kind of connection:       *)
(*   "websocket"  javascript/mux/transport/websocket.ts with mux/codec     *)
(*   "browser"    javascript/legacy/qmux, qmux_browser.ts                  *)
(*   "nodeWs"     javascript/legacy/qmux, WebsocketConn of qmux_node.ts    *)
(*   "nodeTcp"    javascript/legacy/qmux, TCPConn of qmux_node.ts          *)
(*   "go"         golang/mux/codec over a net.Conn                         *)
(* A unit on the wire is the byte that names the message, a uint32, or one *)
(* piece of payload.  JavaScript runs until it awaits, so bytes arrive     *)
(* only while no read can be answered.                                     *)
(***************************************************************************)
EXTENDS Integers, Sequences, FiniteSets

CONSTANTS
    Kinds,        \* kinds of connection to read from
    Coders,       \* encoders: "ts", "qmux", "go"
    Messages,     \* messages the writing end may send
    MaxMessages   \* bound: how many it sends

ASSUME KindsAssumption ==
    Kinds \subseteq {"websocket", "browser", "nodeWs", "nodeTcp", "go"}
ASSUME CodersAssumption == Coders \subseteq {"ts", "qmux", "go"}
ASSUME MaxMessagesAssumption == MaxMessages \in Nat

VARIABLES
    kind, coder,  \* chosen once
    sent,         \* messages written, in order
    net,          \* units on their way
    fin,          \* the writing end has closed the connection
    cut,          \* ... and part of what it wrote is lost
    buf,          \* units that have arrived and not been read
    closed,       \* the conn is closed here: isClosed, or a destroyed socket
    ended,        \* a socket that has seen the end of the stream
    error,        \* TCPConn.error
    asked,        \* close was called by the reading end
    late,         \* the conn closed while the session's loop was not reading
    state,        \* where the decoder stands
    packet,       \* units of the message being read
    thrown,       \* an event handler has thrown
    short,        \* a read has returned less than was asked for
    decoded       \* messages decoded, in order

chosen == <<kind, coder>>
writer == <<sent, fin, cut>>
conn == <<closed, ended, error, asked, late>>
vars == <<chosen, writer, net, buf, conn, state, packet, thrown, short, decoded>>

-----------------------------------------------------------------------------
(* Messages: the number that names them, the bytes that follow it (four to a *)
(* uint32) and the order of their fields, as each encoder and decoder has it *)

OpenID == 100
OpenConfirmID == 101
OpenFailureID == 102
WindowAdjustID == 103
DataID == 104
EofID == 105
CloseID == 106

MessageIDs == OpenID .. CloseID

(* One entry per message, in the order of their numbers. *)
Table(open, confirm, failure, adjust, data, eof, close) ==
    [id \in MessageIDs |->
        CASE id = OpenID -> open
          [] id = OpenConfirmID -> confirm
          [] id = OpenFailureID -> failure
          [] id = WindowAdjustID -> adjust
          [] id = DataID -> data
          [] id = EofID -> eof
          [] id = CloseID -> close]

(* Slip: a data message is taken for one with a single uint32. *)
payloadSizesOff == Table(12, 16, 4, 8, 4, 4, 4)

payloadSizes == Table(12, 16, 4, 8, 8, 4, 4)

(* Legacy qmux makes its own table for every packet. *)
sizes == Table(12, 16, 4, 8, 8, 4, 4)

Number == <<"channelID">>

MarshalFields ==
    Table(<<"senderID", "windowSize", "maxPacketSize">>,
          <<"channelID", "senderID", "windowSize", "maxPacketSize">>,
          Number, <<"channelID", "additionalBytes">>, <<"channelID", "length">>, Number, Number)

UnmarshalFields ==
    Table(<<"senderID", "windowSize", "maxPacketSize">>,
          <<"channelID", "senderID", "windowSize", "maxPacketSize">>,
          Number, <<"channelID", "additionalBytes">>, <<"channelID", "length">>, Number, Number)

(* Legacy qmux calls the first number peersID, which in an open message is *)
(* the sender's, and the sender's number in a confirmation myID.           *)
encodeFields ==
    Table(<<"senderID", "windowSize", "maxPacketSize">>,
          <<"channelID", "senderID", "windowSize", "maxPacketSize">>,
          Number, <<"channelID", "additionalBytes">>, <<"channelID", "length">>, Number, Number)

(* Slip: a confirmation is decoded with its two numbers the other way round. *)
decodeFieldsSwapped ==
    Table(<<"senderID", "windowSize", "maxPacketSize">>,
          <<"senderID", "channelID", "windowSize", "maxPacketSize">>,
          Number, <<"channelID", "additionalBytes">>, <<"channelID", "length">>, Number, Number)

decodeFields ==
    Table(<<"senderID", "windowSize", "maxPacketSize">>,
          <<"channelID", "senderID", "windowSize", "maxPacketSize">>,
          Number, <<"channelID", "additionalBytes">>, <<"channelID", "length">>, Number, Number)

GoMarshalFields ==
    Table(<<"senderID", "windowSize", "maxPacketSize">>,
          <<"channelID", "senderID", "windowSize", "maxPacketSize">>,
          Number, <<"channelID", "additionalBytes">>, <<"channelID", "length">>, Number, Number)

GoUnmarshalFields ==
    Table(<<"senderID", "windowSize", "maxPacketSize">>,
          <<"channelID", "senderID", "windowSize", "maxPacketSize">>,
          Number, <<"channelID", "additionalBytes">>, <<"channelID", "length">>, Number, Number)

(* What the applications of both ends send: numbers, and data of the length *)
(* that the message announces.                                              *)
MessageType ==
    [ID: {OpenID}, senderID: Nat, windowSize: Nat, maxPacketSize: Nat]
    \cup [ID: {OpenConfirmID}, channelID: Nat, senderID: Nat, windowSize: Nat, maxPacketSize: Nat]
    \cup [ID: {WindowAdjustID}, channelID: Nat, additionalBytes: Nat]
    \cup {m \in [ID: {DataID}, channelID: Nat, length: Nat, data: Seq(Nat)] :
            m.length = Len(m.data)}
    \cup [ID: {OpenFailureID, EofID, CloseID}, channelID: Nat]

ASSUME MessagesAssumption == Messages \subseteq MessageType

Payload(m) == IF m.ID = DataID THEN m.data ELSE <<>>

Packet(fields, m) ==
    <<m.ID>> \o [i \in 1 .. Len(fields[m.ID]) |-> m[fields[m.ID][i]]] \o Payload(m)

(* A getUint32 beyond the end of the packet throws. *)
Decodable(fields, p) == p[1] \in DOMAIN fields /\ Len(p) > Len(fields[p[1]])

MessageOf(fields, p) ==
    LET names == fields[p[1]] IN
    [f \in {"ID"} \cup {names[i] : i \in 1 .. Len(names)}
                  \cup (IF p[1] = DataID THEN {"data"} ELSE {}) |->
        CASE f = "ID" -> p[1]
          [] f = "data" -> SubSeq(p, Len(names) + 2, Len(p))
          [] OTHER -> p[1 + CHOOSE i \in 1 .. Len(names) : names[i] = f]]

Encoded(m) ==
    Packet(CASE coder = "ts" -> MarshalFields
             [] coder = "qmux" -> encodeFields
             [] coder = "go" -> GoMarshalFields, m)

FieldsRead ==
    CASE kind = "websocket" -> UnmarshalFields
      [] kind \in {"browser", "nodeWs", "nodeTcp"} -> decodeFields
      [] kind = "go" -> GoUnmarshalFields

-----------------------------------------------------------------------------
(* conn.read(len): the answers it can give now, none while it waits *)

Units(n) == [is |-> "units", units |-> SubSeq(buf, 1, n), left |-> SubSeq(buf, n + 1, Len(buf))]

End == [is |-> "end", units |-> <<>>, left |-> <<>>]

Rejected == [is |-> "rejected", units |-> <<>>, left |-> <<>>]

(* Slip: a read waits for a unit more than it was asked for. *)
ReadWebsocketLater(len) ==
    CASE closed -> {End}
      [] ~closed /\ len < Len(buf) -> {Units(len)}
      [] OTHER -> {}

(* A length of 0 takes whatever there is. *)
ReadWebsocket(len) ==
    CASE closed -> {End}
      [] ~closed /\ len = 0 /\ buf # <<>> -> {Units(Len(buf))}
      [] ~closed /\ (len # 0 \/ buf = <<>>) /\ len <= Len(buf) -> {Units(len)}
      [] OTHER -> {}

(* close has dropped the buffer. *)
ReadBrowser(len) ==
    CASE closed -> {End}
      [] ~closed /\ len <= Len(buf) -> {Units(len)}
      [] OTHER -> {}

ReadNodeWs(len) ==
    CASE closed -> {End}
      [] ~closed /\ len <= Len(buf) -> {Units(len)}
      [] OTHER -> {}

(* stream.read(0) is never more than null; once the stream has ended it *)
(* returns what is left, be it less than was asked for.                 *)
ReadNodeTcp(len) ==
    CASE error -> {Rejected}
      [] ~error /\ (closed \/ (ended /\ buf = <<>>)) -> {End}
      [] ~error /\ ~closed /\ len # 0 /\ len <= Len(buf) -> {Units(len)}
      [] ~error /\ ~closed /\ ended /\ buf # <<>> /\ len > Len(buf) -> {Units(Len(buf))}
      [] OTHER -> {}

(* net.Conn.Read returns what has arrived, at least one byte; the rest of *)
(* the slice stays zero.                                                  *)
ReadGo(len) ==
    CASE len = 0 -> {Units(0)}
      [] len > 0 /\ buf # <<>> /\ ~closed ->
            {[Units(n) EXCEPT !.units = @ \o [i \in 1 .. len - n |-> 0]] :
                n \in 1 .. (IF len < Len(buf) THEN len ELSE Len(buf))}
      [] len > 0 /\ (closed \/ (ended /\ buf = <<>>)) -> {End}
      [] OTHER -> {}

Read(len) ==
    CASE kind = "websocket" -> ReadWebsocket(len)
      [] kind = "browser" -> ReadBrowser(len)
      [] kind = "nodeWs" -> ReadNodeWs(len)
      [] kind = "nodeTcp" -> ReadNodeTcp(len)
      [] kind = "go" -> ReadGo(len)

-----------------------------------------------------------------------------
(* readPacket: one byte, the bytes its number calls for, and the payload of  *)
(* a data message, whose length is the second uint32                         *)

Reading == {"head", "rest", "data"}

Stands(where, p) == [state |-> where, packet |-> p]

Fails == Stands("failed", <<>>)

Asks(sizeOf) ==
    CASE state = "head" -> 1
      [] state = "rest" -> IF packet[1] \in DOMAIN sizeOf THEN sizeOf[packet[1]] \div 4 ELSE 0
      [] state = "data" -> packet[3]

ReadPacketTs(r) ==
    CASE r.is = "end" -> IF state = "head" THEN Stands("ended", <<>>) ELSE Fails
      [] r.is = "units" /\ state = "head" ->
            IF r.units[1] \in DOMAIN payloadSizes THEN Stands("rest", r.units) ELSE Fails
      [] r.is = "units" /\ state = "rest" ->
            Stands(IF packet[1] = DataID THEN "data" ELSE "whole", packet \o r.units)
      [] r.is = "units" /\ state = "data" ->
            \* util.concat into a buffer of the length announced
            IF Len(r.units) > packet[3] THEN Fails ELSE Stands("whole", packet \o r.units)

(* Buffer.concat to the length announced fills up with zeros. *)
ReadPacketQmux(r) ==
    CASE r.is = "rejected" -> Fails
      [] r.is = "end" -> IF state = "head" THEN Stands("ended", <<>>) ELSE Fails
      [] r.is = "units" /\ state = "head" ->
            IF r.units[1] \in MessageIDs THEN Stands("rest", r.units) ELSE Fails
      [] r.is = "units" /\ state = "rest" /\ packet[1] = DataID ->
            IF Len(r.units) < 2 THEN Fails ELSE Stands("data", packet \o r.units)
      [] r.is = "units" /\ state = "rest" /\ packet[1] # DataID ->
            Stands("whole", packet \o r.units)
      [] r.is = "units" /\ state = "data" ->
            Stands("whole", packet \o r.units \o [i \in 1 .. packet[3] - Len(r.units) |-> 0])

(* An error from Read ends the session whatever was being read. *)
ReadPacketGo(r) ==
    CASE r.is = "end" -> IF state = "head" THEN Stands("ended", <<>>) ELSE Fails
      [] r.is = "units" /\ state = "head" -> Stands("rest", r.units)
      [] r.is = "units" /\ state = "rest" ->
            Stands(IF packet[1] = DataID THEN "data" ELSE "whole", packet \o r.units)
      [] r.is = "units" /\ state = "data" -> Stands("whole", packet \o r.units)

Wanted ==
    CASE kind = "websocket" -> Asks(payloadSizes)
      [] kind \in {"browser", "nodeWs", "nodeTcp"} -> Asks(sizes)
      [] kind = "go" -> Asks(payloadSizes)

ReadPacket(r) ==
    CASE kind = "websocket" -> ReadPacketTs(r)
      [] kind \in {"browser", "nodeWs", "nodeTcp"} -> ReadPacketQmux(r)
      [] kind = "go" -> ReadPacketGo(r)

(* A read the decoder waits for, or none. *)
Waits == state \in Reading /\ Read(Wanted) = {}

-----------------------------------------------------------------------------
(* The two ends *)

Init ==
    /\ kind \in Kinds /\ coder \in Coders
    /\ sent = <<>> /\ decoded = <<>>
    /\ net = <<>> /\ buf = <<>> /\ packet = <<>>
    /\ fin = FALSE /\ cut = FALSE
    /\ closed = FALSE /\ ended = FALSE /\ error = FALSE /\ asked = FALSE /\ late = FALSE
    /\ state = "head" /\ thrown = FALSE /\ short = FALSE

(* Encoder.encode: one conn.write of the whole packet. *)
Encode(m) ==
    /\ Len(sent) < MaxMessages /\ ~fin
    /\ sent' = Append(sent, m)
    /\ net' = net \o Encoded(m)
    /\ UNCHANGED <<chosen, fin, cut, buf, conn, state, packet, thrown, short, decoded>>

(* The writing end goes away; what has not left yet may be lost. *)
PeerCloses ==
    /\ ~fin
    /\ fin' = TRUE
    /\ \E n \in 0 .. Len(net) :
          /\ net' = SubSeq(net, 1, n)
          /\ cut' = (n < Len(net))
    /\ UNCHANGED <<chosen, sent, buf, conn, state, packet, thrown, short, decoded>>

(* An event is handled when no JavaScript runs. *)
EventLoopFree == kind = "go" \/ Waits \/ state \notin Reading

(* websocket.ts appends to its buffer, be it closed or not. *)
MessageWebsocket(units) ==
    kind = "websocket" /\ buf' = buf \o units /\ UNCHANGED thrown

(* The legacy conns have no buffer to append to once they are closed, and throw. *)
MessageBrowser(units) ==
    /\ kind = "browser"
    /\ IF closed THEN thrown' = TRUE /\ UNCHANGED buf
                 ELSE buf' = buf \o units /\ UNCHANGED thrown

MessageNodeWs(units) ==
    /\ kind = "nodeWs"
    /\ IF closed THEN thrown' = TRUE /\ UNCHANGED buf
                 ELSE buf' = buf \o units /\ UNCHANGED thrown

(* A socket keeps what arrives until it is read; a destroyed one is silent. *)
Readable(units) ==
    kind \in {"nodeTcp", "go"} /\ ~closed /\ buf' = buf \o units /\ UNCHANGED thrown

(* Some more units of the stream. *)
Message ==
    /\ EventLoopFree
    /\ \E n \in 1 .. Len(net) :
          /\ net' = SubSeq(net, n + 1, Len(net))
          /\ LET units == SubSeq(net, 1, n) IN
             \/ MessageWebsocket(units) \/ MessageBrowser(units)
             \/ MessageNodeWs(units) \/ Readable(units)
    /\ UNCHANGED <<chosen, writer, conn, state, packet, short, decoded>>

(* conn.close, once: what has arrived is out of reach, a waiting read gets *)
(* the end.  The legacy conns also drop the buffer.                        *)
CloseWebsocket == kind = "websocket" /\ closed' = TRUE /\ UNCHANGED buf

CloseBrowser == kind = "browser" /\ closed' = TRUE /\ buf' = <<>>

CloseNodeWs == kind = "nodeWs" /\ closed' = TRUE /\ buf' = <<>>

Destroy == kind \in {"nodeTcp", "go"} /\ closed' = TRUE /\ UNCHANGED buf

CloseConn == CloseWebsocket \/ CloseBrowser \/ CloseNodeWs

(* Slip: the conn closes before the last messages have arrived. *)
OnCloseEarly ==
    /\ EventLoopFree /\ fin /\ ~closed
    /\ CloseConn
    /\ late' = (state = "busy" /\ buf # <<>>)
    /\ UNCHANGED <<chosen, writer, net, ended, error, asked, state, packet, thrown, short, decoded>>

(* onclose: the conns over a WebSocket close themselves. *)
OnClose ==
    /\ EventLoopFree /\ fin /\ net = <<>> /\ ~closed
    /\ CloseConn
    /\ late' = (state = "busy" /\ buf # <<>>)
    /\ UNCHANGED <<chosen, writer, net, ended, error, asked, state, packet, thrown, short, decoded>>

(* "end" of a socket: what has arrived can still be read. *)
OnEnd ==
    /\ kind \in {"nodeTcp", "go"}
    /\ EventLoopFree /\ fin /\ net = <<>> /\ ~ended
    /\ ended' = TRUE
    /\ UNCHANGED <<chosen, writer, net, buf, closed, error, asked, late, state, packet, thrown, short, decoded>>

(* "error" of a socket: a waiting read rejects at once, else the next one does. *)
OnError ==
    /\ kind = "nodeTcp" /\ ~closed /\ ~fin /\ EventLoopFree
    /\ fin' = TRUE /\ cut' = TRUE /\ closed' = TRUE
    /\ net' = <<>> /\ buf' = <<>>
    /\ IF Waits
       THEN state' = "failed" /\ packet' = <<>> /\ UNCHANGED error
       ELSE error' = TRUE /\ UNCHANGED <<state, packet>>
    /\ UNCHANGED <<chosen, sent, ended, asked, late, thrown, short, decoded>>

(* The reading end closes its conn. *)
Close ==
    /\ EventLoopFree /\ ~closed /\ ~asked
    /\ CloseConn \/ Destroy
    /\ asked' = TRUE
    /\ UNCHANGED <<chosen, writer, net, ended, error, late, state, packet, thrown, short, decoded>>

(* A write to a WebSocket in a browser resolves at once. *)
WritesAtOnce == kind \in {"websocket", "browser"}

(* The session's loop awaits the write of its answer to an open message. *)
AwaitsAnswer(m) == m.ID = OpenID /\ ~WritesAtOnce

DecodeStep ==
    /\ state \in Reading
    /\ \E r \in Read(Wanted) :
          LET next == ReadPacket(r) IN
          /\ buf' = r.left
          /\ IF next.state = "whole"
             THEN /\ packet' = <<>>
                  /\ IF Decodable(FieldsRead, next.packet)
                     THEN LET m == MessageOf(FieldsRead, next.packet) IN
                          /\ decoded' = Append(decoded, m)
                          /\ state' = IF AwaitsAnswer(m) THEN "busy" ELSE "head"
                     ELSE state' = "failed" /\ UNCHANGED decoded
             ELSE state' = next.state /\ packet' = next.packet /\ UNCHANGED decoded
          /\ short' = (short \/ (r.is = "units" /\ Len(buf) - Len(r.left) < Wanted))
    /\ error' = FALSE
    /\ UNCHANGED <<chosen, writer, net, closed, ended, asked, late, thrown>>

(* The callback of send: the answer has been written, the loop reads again. *)
Answered ==
    /\ state = "busy"
    /\ state' = "head"
    /\ UNCHANGED <<chosen, writer, net, buf, conn, packet, thrown, short, decoded>>

Next ==
    \/ \E m \in Messages : Encode(m)
    \/ PeerCloses \/ Message \/ OnClose \/ OnEnd \/ OnError \/ Close \/ DecodeStep \/ Answered

Spec == Init /\ [][Next]_vars

(* The transport delivers, the event loop turns, the decoder reads on. *)
FairSpec ==
    /\ Spec
    /\ WF_vars(Message) /\ WF_vars(OnClose) /\ WF_vars(OnEnd)
    /\ WF_vars(DecodeStep) /\ WF_vars(Answered)

-----------------------------------------------------------------------------
(* What must hold *)

(* Every variable has its type, and a packet the length its stage calls for. *)
TypeOK ==
    /\ kind \in Kinds /\ coder \in Coders
    /\ sent \in Seq(Messages) /\ Len(sent) <= MaxMessages
    /\ net \in Seq(Nat) /\ buf \in Seq(Nat) /\ packet \in Seq(Nat)
    /\ {fin, cut, closed, ended, error, asked, late, thrown, short} \subseteq BOOLEAN
    /\ state \in Reading \cup {"busy", "ended", "failed"}
    /\ state = "rest" => Len(packet) = 1
    /\ state = "data" => Len(packet) = 3 /\ packet[1] = DataID
    /\ state \notin Reading \/ state = "head" => packet = <<>>
    /\ \A i \in DOMAIN decoded : decoded[i].ID \in MessageIDs

IsEmptyData(m) == m.ID = DataID /\ m.length = 0

(* An empty data message breaks two of the transports: see FailsOnlyWhen. *)
EmptyDataMatters ==
    kind \in {"websocket", "nodeTcp"} /\ \E i \in DOMAIN sent : IsEmptyData(sent[i])

(* The last message, cut off by the end of a socket and filled up. *)
FilledUp(i) ==
    /\ kind = "nodeTcp" /\ short /\ cut /\ i = Len(decoded)
    /\ sent[i].ID = DataID /\ decoded[i] = [sent[i] EXCEPT !.data = decoded[i].data]
    /\ \A j \in 1 .. sent[i].length : decoded[i].data[j] \in {0, sent[i].data[j]}

GoReadShort == kind = "go" /\ short

(* The messages decoded are those that were sent, in order and field by      *)
(* field, whichever encoder wrote them and however the bytes were cut up; the *)
(* exceptions are a data message at the end of a socket and, in Go, whatever  *)
(* follows a Read that returned less than was asked for (conn.read at every   *)
(* transport, readPacket, Marshal and Unmarshal).                             *)
DecodedAsSent ==
    \/ GoReadShort
    \/ /\ Len(decoded) <= Len(sent)
       /\ \A i \in DOMAIN decoded : decoded[i] = sent[i] \/ FilledUp(i)

(* The decoder throws, and with it the session's loop dies without closing   *)
(* anything, only when the connection ended within a message or broke, or    *)
(* on an empty data message: read(0) takes the bytes of the next message in  *)
(* one transport and never returns in another. An event handler throws, which *)
(* ends a Node process, only for data that arrive after this end has closed a *)
(* legacy conn.                                                               *)
FailsOnlyWhen ==
    /\ state = "failed" => cut \/ asked \/ EmptyDataMatters \/ GoReadShort
    /\ thrown => asked /\ kind \in {"browser", "nodeWs"}

(* When decode reports the orderly end of the connection, every message      *)
(* that was sent has been decoded; the conn over ws drops what has arrived   *)
(* when it closes while the loop awaits a write.                             *)
EndLosesNothing ==
    state = "ended" /\ ~cut /\ ~asked /\ ~GoReadShort =>
        decoded = sent \/ (kind = "nodeWs" /\ late)

(* The decoder stops for what the connection did, in a way that tells how   *)
(* much was lost: it fails, or it reports the end, and never one for the     *)
(* other.                                                                    *)
StopsOnlyWhen == FailsOnlyWhen /\ EndLosesNothing

(* Every message sent is decoded, if the connection lives and no empty data  *)
(* message stops the decoder.                                                *)
AllDecoded ==
    \A n \in 1 .. MaxMessages :
        Len(sent) >= n ~> Len(decoded) >= n \/ cut \/ asked \/ late \/ EmptyDataMatters
                                              \/ GoReadShort
=============================================================================
