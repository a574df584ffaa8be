---------------------------- MODULE FramingProofs ----------------------------
(***************************************************************************)
(* Theorems about Framing, for any messages, however many and however the  *)
(* bytes are cut up: what is decoded is what was sent, and the decoder     *)
(* stops only for what the connection did. The argument is FramingInv.     *)
(***************************************************************************)
EXTENDS FramingInvariant, TLAPS, SequenceTheorems

-----------------------------------------------------------------------------
(* Sequences *)

LEMMA Empty ==  <<>> \in Seq(Nat) /\ Len(<<>>) = 0
  OBVIOUS

LEMMA EmptyIs ==
    ASSUME NEW S, NEW q \in Seq(S), Len(q) = 0
    PROVE  q = <<>>
  OBVIOUS

LEMMA ElementOf ==
    ASSUME NEW S, NEW q \in Seq(S), NEW i \in 1 .. Len(q)
    PROVE  q[i] \in S
  OBVIOUS

LEMMA Joined ==
    ASSUME NEW S, NEW a \in Seq(S), NEW b \in Seq(S)
    PROVE  /\ a \o b \in Seq(S) /\ Len(a \o b) = Len(a) + Len(b)
           /\ \A n \in 1 .. Len(a) : (a \o b)[n] = a[n]
           /\ \A n \in 1 .. Len(b) : (a \o b)[Len(a) + n] = b[n]
  OBVIOUS

LEMMA Parted ==
    ASSUME NEW S, NEW q \in Seq(S), NEW n \in 0 .. Len(q)
    PROVE  /\ SubSeq(q, 1, n) \in Seq(S) /\ Len(SubSeq(q, 1, n)) = n
           /\ \A i \in 1 .. n : SubSeq(q, 1, n)[i] = q[i]
           /\ SubSeq(q, n + 1, Len(q)) \in Seq(S)
           /\ Len(SubSeq(q, n + 1, Len(q))) = Len(q) - n
           /\ \A i \in 1 .. Len(q) - n : SubSeq(q, n + 1, Len(q))[i] = q[n + i]
<1>1. /\ SubSeq(q, 1, n) \in Seq(S) /\ Len(SubSeq(q, 1, n)) = n
      /\ \A i \in 1 .. n : SubSeq(q, 1, n)[i] = q[i]
  BY SubSeqProperties
<1>2. /\ SubSeq(q, n + 1, Len(q)) \in Seq(S)
      /\ Len(SubSeq(q, n + 1, Len(q))) = Len(q) - n
      /\ \A i \in 1 .. Len(q) - n : SubSeq(q, n + 1, Len(q))[i] = q[n + i]
  BY SubSeqProperties
<1> QED  BY <1>1, <1>2

LEMMA OneMore ==
    ASSUME NEW S, NEW q \in Seq(S), NEW x \in S
    PROVE  /\ Append(q, x) \in Seq(S) /\ Len(Append(q, x)) = Len(q) + 1
           /\ Append(q, x)[Len(q) + 1] = x
           /\ \A n \in 1 .. Len(q) : Append(q, x)[n] = q[n]
  OBVIOUS

(* Sequences with the same elements are the same. *)
LEMMA SameSequence ==
    ASSUME NEW S, NEW T, NEW a \in Seq(S), NEW b \in Seq(T), Len(a) = Len(b),
           \A n \in 1 .. Len(a) : a[n] = b[n]
    PROVE  a = b
  OBVIOUS

-----------------------------------------------------------------------------
(* Pieces of the stream *)

LEMMA PieceJoined ==
    ASSUME NEW a \in Seq(Nat), NEW b \in Seq(Nat), NEW s, NEW p \in Nat,
           Piece(a, s, p), Piece(b, s, p + Len(a))
    PROVE  Piece(a \o b, s, p)
<1> SUFFICES ASSUME NEW n \in 1 .. Len(a \o b)
             PROVE  (a \o b)[n] = s[p + n]
  BY DEF Piece
<1>1. CASE n \in 1 .. Len(a)
  BY <1>1, Joined DEF Piece
<1>2. CASE n \notin 1 .. Len(a)
  <2>1. PICK k \in 1 .. Len(b) : n = Len(a) + k
    <3>1. n - Len(a) \in 1 .. Len(b) /\ n = Len(a) + (n - Len(a))
      BY <1>2, Joined
    <3> QED  BY <3>1
  <2>2. (a \o b)[n] = b[k] /\ b[k] = s[p + Len(a) + k]
    BY <2>1, Joined DEF Piece
  <2>3. p + Len(a) + k = p + n
    BY <2>1
  <2> QED  BY <2>2, <2>3
<1> QED  BY <1>1, <1>2

LEMMA PieceParted ==
    ASSUME NEW q \in Seq(Nat), NEW s, NEW p \in Nat, NEW n \in 0 .. Len(q), Piece(q, s, p)
    PROVE  /\ Piece(SubSeq(q, 1, n), s, p)
           /\ Piece(SubSeq(q, n + 1, Len(q)), s, p + n)
<1>1. Piece(SubSeq(q, 1, n), s, p)
  BY Parted DEF Piece
<1>2. ASSUME NEW i \in 1 .. Len(q) - n
      PROVE  SubSeq(q, n + 1, Len(q))[i] = s[p + n + i]
  <2>1. n + i \in 1 .. Len(q) /\ p + (n + i) = p + n + i
    OBVIOUS
  <2>2. SubSeq(q, n + 1, Len(q))[i] = q[n + i]
    BY Parted
  <2> QED  BY <2>1, <2>2 DEF Piece
<1>3. Len(SubSeq(q, n + 1, Len(q))) = Len(q) - n
  BY Parted
<1> QED  BY <1>1, <1>2, <1>3 DEF Piece

LEMMA PieceOfMore ==
    ASSUME NEW q \in Seq(Nat), NEW s \in Seq(Nat), NEW t \in Seq(Nat), NEW p \in Nat,
           Piece(q, s, p), p + Len(q) <= Len(s)
    PROVE  Piece(q, s \o t, p)
<1> SUFFICES ASSUME NEW n \in 1 .. Len(q)
             PROVE  q[n] = (s \o t)[p + n]
  BY DEF Piece
<1>1. p + n \in 1 .. Len(s)
  OBVIOUS
<1> QED  BY <1>1, Joined DEF Piece

-----------------------------------------------------------------------------
(* Messages and packets *)

(* All encoders and decoders agree on the fields of a message. *)
Fields == MarshalFields

Units4(id) == Len(Fields[id])

LEMMA OneTable ==
    ASSUME kind \in Kinds, coder \in Coders
    PROVE  /\ FieldsRead = Fields /\ \A m : Encoded(m) = Packet(Fields, m)
           /\ DOMAIN Fields = MessageIDs
           /\ DOMAIN payloadSizes = MessageIDs /\ sizes = payloadSizes
<1>1. FieldsRead = Fields
  BY KindsAssumption
     DEF FieldsRead, Fields, MarshalFields, UnmarshalFields, decodeFields, GoUnmarshalFields
<1>2. \A m : Encoded(m) = Packet(Fields, m)
  BY CodersAssumption DEF Encoded, Fields, MarshalFields, encodeFields, GoMarshalFields
<1>3. DOMAIN Fields = MessageIDs
  BY DEF Fields, MarshalFields, Table
<1>4. DOMAIN payloadSizes = MessageIDs /\ sizes = payloadSizes
  BY DEF payloadSizes, sizes, Table
<1> QED  BY <1>1, <1>2, <1>3, <1>4

LEMMA Ids ==
    MessageIDs = {OpenID, OpenConfirmID, OpenFailureID, WindowAdjustID, DataID, EofID, CloseID}
  BY DEF MessageIDs, OpenID, OpenConfirmID, OpenFailureID, WindowAdjustID, DataID, EofID, CloseID

LEMMA TableAt ==
    ASSUME NEW open, NEW confirm, NEW failure, NEW adjust, NEW data, NEW eof, NEW close
    PROVE  LET t == Table(open, confirm, failure, adjust, data, eof, close) IN
           /\ t[OpenID] = open /\ t[OpenConfirmID] = confirm /\ t[OpenFailureID] = failure
           /\ t[WindowAdjustID] = adjust /\ t[DataID] = data /\ t[EofID] = eof
           /\ t[CloseID] = close
  BY DEF Table, MessageIDs, OpenID, OpenConfirmID, OpenFailureID, WindowAdjustID, DataID,
         EofID, CloseID

LEMMA FieldsAt ==
    /\ Fields[OpenID] = <<"senderID", "windowSize", "maxPacketSize">>
    /\ Fields[OpenConfirmID] = <<"channelID", "senderID", "windowSize", "maxPacketSize">>
    /\ Fields[WindowAdjustID] = <<"channelID", "additionalBytes">>
    /\ Fields[DataID] = <<"channelID", "length">>
    /\ \A id \in {OpenFailureID, EofID, CloseID} : Fields[id] = <<"channelID">>
  BY TableAt DEF Fields, MarshalFields, Number

LEMMA Lengths ==
    \A a, b, c, d : /\ Len(<<a>>) = 1 /\ Len(<<a, b>>) = 2
                   /\ Len(<<a, b, c>>) = 3 /\ Len(<<a, b, c, d>>) = 4
  OBVIOUS

LEMMA SizesAt ==
    ASSUME NEW id \in MessageIDs
    PROVE  Units4(id) \in 1 .. 4 /\ payloadSizes[id] \div 4 = Units4(id)
<1>1. /\ payloadSizes[OpenID] = 12 /\ payloadSizes[OpenConfirmID] = 16
      /\ payloadSizes[OpenFailureID] = 4 /\ payloadSizes[WindowAdjustID] = 8
      /\ payloadSizes[DataID] = 8 /\ payloadSizes[EofID] = 4 /\ payloadSizes[CloseID] = 4
  BY TableAt DEF payloadSizes
<1>2. 12 \div 4 = 3 /\ 16 \div 4 = 4 /\ 4 \div 4 = 1 /\ 8 \div 4 = 2
  OBVIOUS
<1>3. /\ Units4(OpenID) = 3 /\ Units4(OpenConfirmID) = 4
      /\ Units4(WindowAdjustID) = 2 /\ Units4(DataID) = 2
  BY FieldsAt, Lengths, Zenon DEF Units4
<1>4. Units4(OpenFailureID) = 1 /\ Units4(EofID) = 1 /\ Units4(CloseID) = 1
  BY FieldsAt, Lengths, Zenon DEF Units4
<1>5. CASE id \in {OpenID, OpenConfirmID, WindowAdjustID, DataID}
  BY <1>1, <1>2, <1>3, <1>5
<1>6. CASE id \in {OpenFailureID, EofID, CloseID}
  BY <1>1, <1>2, <1>4, <1>6
<1> QED  BY <1>5, <1>6, Ids

(* The fields of a message are those of its table, each once, and its data. *)
Shaped(m) ==
    LET names == Fields[m.ID]
        size == Units4(m.ID)
    IN  /\ m.ID \in MessageIDs
        /\ \A i, j \in 1 .. size : names[i] = names[j] => i = j
        /\ \A i \in 1 .. size : names[i] # "ID" /\ names[i] # "data" /\ m[names[i]] \in Nat
        /\ DOMAIN m = {"ID"} \cup {names[i] : i \in 1 .. size}
                          \cup (IF m.ID = DataID THEN {"data"} ELSE {})
        /\ m = [f \in DOMAIN m |-> m[f]]

LEMMA ShapeOne ==
    ASSUME NEW m \in [ID: {OpenFailureID, EofID, CloseID}, channelID: Nat]
    PROVE  Shaped(m)
<1>1. m.ID \in {OpenFailureID, EofID, CloseID} /\ m.ID \in MessageIDs /\ m.ID # DataID
  BY Ids DEF OpenFailureID, EofID, CloseID, DataID
<1>2. PICK names : names = Fields[m.ID] /\ names = <<"channelID">>
  BY <1>1, FieldsAt
<1>3. Units4(m.ID) = 1
  BY <1>2, Lengths, Zenon DEF Units4
<1>4. \A i \in 1 .. 1 : names[i] = "channelID" /\ i = 1
  BY <1>2
<1>5. {names[i] : i \in 1 .. 1} = {"channelID"}
  BY <1>4
<1>6. DOMAIN m = {"ID", "channelID"} /\ m = [f \in DOMAIN m |-> m[f]] /\ m["channelID"] \in Nat
  OBVIOUS
<1> QED  BY <1>1, <1>2, <1>3, <1>4, <1>5, <1>6 DEF Shaped

LEMMA ShapeAdjust ==
    ASSUME NEW m \in [ID: {WindowAdjustID}, channelID: Nat, additionalBytes: Nat]
    PROVE  Shaped(m)
<1>1. m.ID = WindowAdjustID /\ m.ID \in MessageIDs /\ m.ID # DataID
  BY Ids DEF WindowAdjustID, DataID
<1>2. PICK names : names = Fields[m.ID] /\ names = <<"channelID", "additionalBytes">>
  BY <1>1, FieldsAt
<1>3. Units4(m.ID) = 2
  BY <1>2, Lengths, Zenon DEF Units4
<1>4. /\ names[1] = "channelID" /\ names[2] = "additionalBytes"
      /\ \A i \in 1 .. 2 : i = 1 \/ i = 2
  BY <1>2
<1>5. {names[i] : i \in 1 .. 2} = {"channelID", "additionalBytes"}
  BY <1>4
<1>6. /\ DOMAIN m = {"ID", "channelID", "additionalBytes"}
      /\ m = [f \in DOMAIN m |-> m[f]]
      /\ m["channelID"] \in Nat /\ m["additionalBytes"] \in Nat
  OBVIOUS
<1> QED  BY <1>1, <1>2, <1>3, <1>4, <1>5, <1>6 DEF Shaped

LEMMA ShapeOpen ==
    ASSUME NEW m \in [ID: {OpenID}, senderID: Nat, windowSize: Nat, maxPacketSize: Nat]
    PROVE  Shaped(m)
<1>1. m.ID = OpenID /\ m.ID \in MessageIDs /\ m.ID # DataID
  BY Ids DEF OpenID, DataID
<1>2. PICK names : names = Fields[m.ID] /\ names = <<"senderID", "windowSize", "maxPacketSize">>
  BY <1>1, FieldsAt
<1>3. Units4(m.ID) = 3
  BY <1>2, Lengths, Zenon DEF Units4
<1>4. /\ names[1] = "senderID" /\ names[2] = "windowSize" /\ names[3] = "maxPacketSize"
      /\ \A i \in 1 .. 3 : i = 1 \/ i = 2 \/ i = 3
  BY <1>2
<1>5. {names[i] : i \in 1 .. 3} = {"senderID", "windowSize", "maxPacketSize"}
  BY <1>4
<1>6. /\ DOMAIN m = {"ID", "senderID", "windowSize", "maxPacketSize"}
      /\ m = [f \in DOMAIN m |-> m[f]]
      /\ m["senderID"] \in Nat /\ m["windowSize"] \in Nat /\ m["maxPacketSize"] \in Nat
  OBVIOUS
<1> QED  BY <1>1, <1>2, <1>3, <1>4, <1>5, <1>6 DEF Shaped

LEMMA ShapeConfirm ==
    ASSUME NEW m \in [ID: {OpenConfirmID}, channelID: Nat, senderID: Nat, windowSize: Nat, maxPacketSize: Nat]
    PROVE  Shaped(m)
<1>1. m.ID = OpenConfirmID /\ m.ID \in MessageIDs /\ m.ID # DataID
  BY Ids DEF OpenConfirmID, DataID
<1>2. PICK names : names = Fields[m.ID] /\ names = <<"channelID", "senderID", "windowSize", "maxPacketSize">>
  BY <1>1, FieldsAt
<1>3. Units4(m.ID) = 4
  BY <1>2, Lengths, Zenon DEF Units4
<1>4. /\ names[1] = "channelID" /\ names[2] = "senderID" /\ names[3] = "windowSize" /\ names[4] = "maxPacketSize"
      /\ \A i \in 1 .. 4 : i = 1 \/ i = 2 \/ i = 3 \/ i = 4
  BY <1>2
<1>5. {names[i] : i \in 1 .. 4} = {"channelID", "senderID", "windowSize", "maxPacketSize"}
  BY <1>4
<1>6. /\ DOMAIN m = {"ID", "channelID", "senderID", "windowSize", "maxPacketSize"}
      /\ m = [f \in DOMAIN m |-> m[f]]
      /\ m["channelID"] \in Nat /\ m["senderID"] \in Nat /\ m["windowSize"] \in Nat /\ m["maxPacketSize"] \in Nat
  OBVIOUS
<1> QED  BY <1>1, <1>2, <1>3, <1>4, <1>5, <1>6 DEF Shaped

LEMMA ShapeData ==
    ASSUME NEW m \in [ID: {DataID}, channelID: Nat, length: Nat, data: Seq(Nat)]
    PROVE  Shaped(m)
<1>1. m.ID = DataID /\ m.ID \in MessageIDs
  BY Ids DEF DataID
<1>2. PICK names : names = Fields[m.ID] /\ names = <<"channelID", "length">>
  BY <1>1, FieldsAt
<1>3. Units4(m.ID) = 2
  BY <1>2, Lengths, Zenon DEF Units4
<1>4. /\ names[1] = "channelID" /\ names[2] = "length"
      /\ \A i \in 1 .. 2 : i = 1 \/ i = 2
  BY <1>2
<1>5. {names[i] : i \in 1 .. 2} = {"channelID", "length"}
  BY <1>4
<1>6. /\ DOMAIN m = {"ID", "channelID", "length", "data"}
      /\ m = [f \in DOMAIN m |-> m[f]]
      /\ m["channelID"] \in Nat /\ m["length"] \in Nat
  OBVIOUS
<1> QED  BY <1>1, <1>2, <1>3, <1>4, <1>5, <1>6 DEF Shaped

LEMMA Shapes ==
    ASSUME NEW m \in MessageType
    PROVE  /\ Shaped(m)
           /\ m.ID = DataID => /\ m.data \in Seq(Nat) /\ m.length = Len(m.data)
                              /\ m \in [ID: {DataID}, channelID: Nat, length: Nat, data: Seq(Nat)]
<1>1. CASE m \in [ID: {OpenFailureID, EofID, CloseID}, channelID: Nat]
  BY <1>1, ShapeOne DEF OpenFailureID, EofID, CloseID, DataID
<1>2. CASE m \in [ID: {WindowAdjustID}, channelID: Nat, additionalBytes: Nat]
  BY <1>2, ShapeAdjust DEF WindowAdjustID, DataID
<1>3. CASE m \in [ID: {OpenID}, senderID: Nat, windowSize: Nat, maxPacketSize: Nat]
  BY <1>3, ShapeOpen DEF OpenID, DataID
<1>4. CASE m \in [ID: {OpenConfirmID}, channelID: Nat, senderID: Nat, windowSize: Nat,
                  maxPacketSize: Nat]
  BY <1>4, ShapeConfirm DEF OpenConfirmID, DataID
<1>5. CASE /\ m \in [ID: {DataID}, channelID: Nat, length: Nat, data: Seq(Nat)]
           /\ m.length = Len(m.data)
  BY <1>5, ShapeData
<1> QED  BY <1>1, <1>2, <1>3, <1>4, <1>5 DEF MessageType

(* The units of a message: its number, its fields, its data. *)
LEMMA PacketOf ==
    ASSUME NEW m \in MessageType
    PROVE  LET e == Packet(Fields, m)
               size == Units4(m.ID)
           IN  /\ e \in Seq(Nat) /\ Payload(m) \in Seq(Nat)
               /\ Len(e) = 1 + size + Len(Payload(m)) /\ e[1] = m.ID
               /\ \A i \in 1 .. size : e[1 + i] = m[Fields[m.ID][i]]
               /\ \A n \in 1 .. Len(Payload(m)) : e[1 + size + n] = Payload(m)[n]
               /\ m.ID # DataID => Payload(m) = <<>>
               /\ m.ID = DataID => /\ size = 2 /\ e[3] = m.length /\ m.length = Len(Payload(m))
                                   /\ Payload(m) = m.data
<1> DEFINE names == Fields[m.ID]
           size == Units4(m.ID)
           head == <<m.ID>>
           mid == [i \in 1 .. size |-> m[names[i]]]
<1>1. Shaped(m) /\ (m.ID = DataID => m.data \in Seq(Nat) /\ m.length = Len(m.data))
  BY Shapes
<1>2. m.ID \in MessageIDs /\ m.ID \in Nat /\ size \in 1 .. 4
  BY <1>1, SizesAt DEF Shaped, MessageIDs, OpenID, CloseID
<1>3. \A i \in 1 .. size : m[names[i]] \in Nat
  BY <1>1 DEF Shaped
<1>4. Payload(m) \in Seq(Nat) /\ (m.ID # DataID => Payload(m) = <<>>) /\ (m.ID = DataID => Payload(m) = m.data)
  BY <1>1 DEF Payload
<1>5. Packet(Fields, m) = head \o mid \o Payload(m)
  BY DEF Packet, Units4
<1> HIDE DEF names, size
<1>6. head \in Seq(Nat) /\ Len(head) = 1 /\ head[1] = m.ID
  BY <1>2
<1>7. mid \in Seq(Nat) /\ Len(mid) = size /\ \A i \in 1 .. size : mid[i] = m[names[i]]
  BY <1>2, <1>3
<1> HIDE DEF head, mid
<1>8. PICK e : e = head \o mid \o Payload(m)
  OBVIOUS
<1>9. PICK b \in Seq(Nat) :
        /\ b = head \o mid /\ Len(b) = 1 + size /\ b[1] = m.ID
        /\ \A i \in 1 .. size : b[1 + i] = mid[i]
  <2>1. PICK h \in Seq(Nat), k \in Seq(Nat) : h = head /\ k = mid
    BY <1>6, <1>7
  <2>2. /\ h \o k \in Seq(Nat) /\ Len(h \o k) = Len(h) + Len(k)
        /\ \A n \in 1 .. Len(h) : (h \o k)[n] = h[n]
        /\ \A n \in 1 .. Len(k) : (h \o k)[Len(h) + n] = k[n]
    BY Joined
  <2>3. Len(h) = 1 /\ h[1] = m.ID /\ Len(k) = size
    BY <1>6, <1>7, <2>1
  <2>4. /\ Len(h \o k) = 1 + size /\ (h \o k)[1] = m.ID
        /\ \A i \in 1 .. size : (h \o k)[1 + i] = k[i]
    BY <1>2, <2>2, <2>3
  <2> QED  BY <2>1, <2>2, <2>4
<1>10. /\ e \in Seq(Nat) /\ Len(e) = 1 + size + Len(Payload(m))
       /\ \A n \in 1 .. 1 + size : e[n] = b[n]
       /\ \A n \in 1 .. Len(Payload(m)) : e[1 + size + n] = Payload(m)[n]
  <2>1. PICK z : z = Payload(m) /\ z \in Seq(Nat)
    BY <1>4
  <2>2. e = b \o z
    BY <1>8, <1>9, <2>1
  <2>3. /\ e \in Seq(Nat) /\ Len(e) = Len(b) + Len(z)
        /\ \A n \in 1 .. Len(b) : e[n] = b[n]
        /\ \A n \in 1 .. Len(z) : e[Len(b) + n] = z[n]
    BY <2>1, <2>2, Joined
  <2> QED  BY <1>9, <2>1, <2>3
<1>11. e[1] = m.ID /\ \A i \in 1 .. size : e[1 + i] = m[names[i]]
  <2>1. 1 \in 1 .. 1 + size /\ \A i \in 1 .. size : 1 + i \in 1 .. 1 + size
    BY <1>2
  <2> QED  BY <1>7, <1>9, <1>10, <2>1
<1>12. ASSUME m.ID = DataID
       PROVE  size = 2 /\ e[3] = m.length /\ m.length = Len(Payload(m))
  <2>1. size = 2
    BY <1>12, FieldsAt, Lengths, Zenon DEF size, Units4
  <2>2. PICK t : t = names /\ t = <<"channelID", "length">>
    BY <1>12, FieldsAt DEF names
  <2>3. names[2] = "length" /\ 1 + 2 = 3 /\ 2 \in 1 .. 2
    BY <2>2
  <2>4. e[1 + 2] = m[names[2]]
    BY <1>11, <2>1, <2>3
  <2> QED  BY <1>1, <1>4, <1>12, <2>1, <2>3, <2>4
<1> QED  BY <1>4, <1>5, <1>8, <1>10, <1>11, <1>12 DEF size, names

(* The units of p are the numbers that m has in its fields. *)
Carries(m, p) ==
    p[1] = m.ID /\ \A i \in 1 .. Units4(m.ID) : p[1 + i] = m[Fields[m.ID][i]]

(* A decoder that gets these units gets the message, and the data it was given. *)
LEMMA Rebuilt ==
    ASSUME NEW m \in MessageType, NEW p, Carries(m, p)
    PROVE  MessageOf(Fields, p) = IF m.ID = DataID THEN [m EXCEPT !.data = SubSeq(p, 4, Len(p))]
                                  ELSE m
<1> DEFINE names == Fields[m.ID]
           size == Units4(m.ID)
           S == {"ID"} \cup {names[i] : i \in 1 .. size} \cup (IF m.ID = DataID THEN {"data"} ELSE {})
           value(f) == CASE f = "ID" -> p[1]
                         [] f = "data" -> SubSeq(p, Len(names) + 2, Len(p))
                         [] OTHER -> p[1 + CHOOSE i \in 1 .. Len(names) : names[i] = f]
           r == IF m.ID = DataID THEN [m EXCEPT !.data = SubSeq(p, 4, Len(p))] ELSE m
<1>1. p[1] = m.ID /\ \A i \in 1 .. size : p[1 + i] = m[names[i]]
  BY DEF Carries
<1>2. MessageOf(Fields, p) = [f \in S |-> value(f)]
  BY <1>1 DEF MessageOf, Units4
<1>3. Shaped(m)
  BY Shapes
<1>4. DOMAIN m = S /\ m = [f \in S |-> m[f]]
  BY <1>3 DEF Shaped
<1>5. DOMAIN r = S /\ r = [f \in S |-> r[f]]
  BY <1>4
<1>6. ASSUME NEW f \in S
      PROVE  value(f) = r[f]
  <2>1. CASE f = "ID"
    <3>1. value(f) = m.ID
      BY <1>1, <2>1
    <3>2. r[f] = m.ID
      BY <1>4, <2>1
    <3> QED  BY <3>1, <3>2
  <2>2. CASE f = "data"
    <3>1. m.ID = DataID
      BY <1>3, <2>2 DEF Shaped
    <3>2. Len(names) + 2 = 4
      BY <3>1, FieldsAt, Lengths
    <3>3. value(f) = SubSeq(p, 4, Len(p))
      BY <2>2, <3>2
    <3> QED  BY <1>4, <2>2, <3>1, <3>3
  <2>3. CASE f # "ID" /\ f # "data"
    <3>1. PICK i \in 1 .. size : names[i] = f
      BY <2>3
    <3>2. (CHOOSE j \in 1 .. size : names[j] = f) = i
      <4>1. \A j \in 1 .. size : names[j] = f => j = i
        BY <1>3, <3>1 DEF Shaped
      <4> QED  BY <3>1, <4>1
    <3>3. value(f) = p[1 + i]
      BY <2>3, <3>2 DEF Units4
    <3>4. r[f] = m[f]
      BY <1>4, <2>3
    <3> QED  BY <1>1, <3>1, <3>3, <3>4
  <2> QED  BY <2>1, <2>2, <2>3
<1> HIDE DEF S, value
<1>7. [f \in S |-> value(f)] = [f \in S |-> r[f]]
  BY <1>6
<1> QED  BY <1>2, <1>5, <1>7

-----------------------------------------------------------------------------
(* The stream *)

(* What a message is in the stream, whoever has encoded it. *)
LEMMA EncodedAs ==
    ASSUME TypeOK, NEW m \in Messages
    PROVE  /\ m \in MessageType /\ Encoded(m) = Packet(Fields, m) /\ Encoded(m) \in Seq(Nat)
           /\ Len(Encoded(m)) \in Nat \ {0}
<1>1. m \in MessageType /\ Encoded(m) = Packet(Fields, m)
  BY MessagesAssumption, OneTable DEF TypeOK
<1>2. m.ID \in MessageIDs
  BY <1>1, Shapes DEF Shaped
<1>3. Units4(m.ID) \in 1 .. 4
  BY <1>2, SizesAt
<1>4. /\ Packet(Fields, m) \in Seq(Nat) /\ Payload(m) \in Seq(Nat)
      /\ Len(Packet(Fields, m)) = 1 + Units4(m.ID) + Len(Payload(m))
  BY <1>1, PacketOf
<1>5. Len(Payload(m)) \in Nat
  BY <1>4
<1> QED  BY <1>1, <1>3, <1>4, <1>5

LEMMA UntilNat ==
    ASSUME NEW at \in Seq(Nat), NEW k \in 0 .. Len(at)
    PROVE  Until(at, k) \in Nat
<1>1. CASE k = 0
  BY <1>1 DEF Until
<1>2. CASE k # 0
  <2>1. k \in 1 .. Len(at)
    BY <1>2
  <2> QED  BY <1>2, <2>1 DEF Until
<1> QED  BY <1>1, <1>2

(* While the stream goes on, the next message is there, whole. *)
LEMMA NextMessage ==
    ASSUME TypeOK, NEW s \in Seq(Nat), NEW at \in Seq(Nat), Stream(s, at),
           NEW k \in 0 .. Len(sent), Until(at, k) < Len(s)
    PROVE  /\ k + 1 \in 1 .. Len(sent) /\ sent[k + 1] \in Messages
           /\ at[k + 1] = Until(at, k) + Len(Encoded(sent[k + 1]))
           /\ Until(at, k + 1) = at[k + 1] /\ at[k + 1] <= Len(s)
           /\ Piece(Encoded(sent[k + 1]), s, Until(at, k))
<1>1. k # Len(sent)
  BY DEF Stream
<1>2. k + 1 \in 1 .. Len(sent) /\ (k + 1) - 1 = k /\ k + 1 # 0
  BY <1>1
<1>3. sent[k + 1] \in Messages
  BY <1>2 DEF TypeOK
<1>4. Lies(s, at, k + 1)
  BY <1>2 DEF Stream
<1> QED  BY <1>2, <1>3, <1>4 DEF Lies, Piece, Until

(* All is decoded when the stream is at its end. *)
LEMMA AllOfIt ==
    ASSUME TypeOK, NEW s \in Seq(Nat), NEW at \in Seq(Nat), Stream(s, at),
           NEW k \in 0 .. Len(sent), Until(at, k) = Len(s)
    PROVE  k = Len(sent)
<1> SUFFICES ASSUME k # Len(sent)  PROVE FALSE
  OBVIOUS
<1>1. k + 1 \in 1 .. Len(sent) /\ (k + 1) - 1 = k
  OBVIOUS
<1>2. sent[k + 1] \in Messages
  BY <1>1 DEF TypeOK
<1>3. PICK l \in Nat \ {0} : l = Len(Encoded(sent[k + 1]))
  BY <1>2, EncodedAs
<1>4. at[k + 1] = Until(at, k) + l /\ at[k + 1] <= Len(s)
  BY <1>1, <1>3 DEF Stream, Lies
<1> QED  BY <1>3, <1>4

(* The stream does not change when nothing is sent. *)
LEMMA StreamKept ==
    ASSUME NEW s, NEW at, Stream(s, at), UNCHANGED <<kind, coder, sent>>
    PROVE  Stream(s, at)'
<1>1. \A k : Encoded(sent[k])' = Encoded(sent[k])
  BY DEF Encoded, Packet, Payload
<1> QED  BY <1>1 DEF Stream, Lies

(* What has been sent stays what it was. *)
LEMMA SentMore ==
    ASSUME TypeOK, sent' = sent \/ \E m \in Messages : sent' = Append(sent, m)
    PROVE  /\ sent' \in Seq(Messages) /\ Len(sent) <= Len(sent')
           /\ \A i \in 1 .. Len(sent) : i \in 1 .. Len(sent') /\ sent'[i] = sent[i]
<1>1. sent \in Seq(Messages)
  BY DEF TypeOK
<1>2. CASE sent' = sent
  BY <1>1, <1>2
<1>3. ASSUME NEW m \in Messages, sent' = Append(sent, m)
      PROVE  /\ sent' \in Seq(Messages) /\ Len(sent) <= Len(sent')
             /\ \A i \in 1 .. Len(sent) : i \in 1 .. Len(sent') /\ sent'[i] = sent[i]
  <2>1. /\ Append(sent, m) \in Seq(Messages) /\ Len(Append(sent, m)) = Len(sent) + 1
        /\ \A i \in 1 .. Len(sent) : Append(sent, m)[i] = sent[i]
    BY <1>1, OneMore
  <2> QED  BY <1>1, <1>3, <2>1
<1> QED  BY <1>2, <1>3

(* Steps in which the decoder stays where it is. *)
LEMMA LocatedKept ==
    ASSUME Located, UNCHANGED <<kind, coder, sent>>,
           \A s \in Seq(Nat), at \in Seq(Nat) :
             Stream(s, at) /\ (InStep => Follows(s, at)) => (InStep' => Follows(s, at)')
    PROVE  Located'
<1>1. PICK s \in Seq(Nat), at \in Seq(Nat) : Stream(s, at) /\ (InStep => Follows(s, at))
  BY DEF Located
<1>2. Stream(s, at)'
  BY <1>1, StreamKept
<1>3. (InStep => Follows(s, at))'
  BY <1>1
<1> QED  BY <1>2, <1>3 DEF Located

LEMMA DecodedKept ==
    ASSUME TypeOK, DecodedAsSent, UNCHANGED <<kind, decoded>>, short => short', cut => cut',
           sent' = sent \/ \E m \in Messages : sent' = Append(sent, m)
    PROVE  DecodedAsSent'
<1>1. CASE GoReadShort
  BY <1>1 DEF DecodedAsSent, GoReadShort
<1>2. CASE ~GoReadShort
  <2>1. /\ Len(decoded) <= Len(sent)
        /\ \A i \in DOMAIN decoded : decoded[i] = sent[i] \/ FilledUp(i)
    BY <1>2 DEF DecodedAsSent
  <2>2. /\ sent \in Seq(Messages) /\ Len(sent) <= Len(sent')
        /\ \A i \in 1 .. Len(sent) : sent'[i] = sent[i]
    BY SentMore DEF TypeOK
  <2>3. decoded' = decoded /\ \A i \in DOMAIN decoded : i \in 1 .. Len(sent)
    BY <2>1 DEF DecodedAsSent
  <2> QED  BY <2>1, <2>2, <2>3 DEF DecodedAsSent, FilledUp
<1> QED  BY <1>1, <1>2

(* A decoder that stops has its reason, and keeps it. *)
LEMMA StopsKept ==
    ASSUME TypeOK, StopsOnlyWhen, UNCHANGED <<kind, decoded, short>>,
           cut => cut', asked => asked', late => late',
           sent' = sent \/ \E m \in Messages : sent' = Append(sent, m),
           sent' = sent \/ ~(state = "ended" /\ ~asked),
           state' = "failed" => state = "failed" \/ cut',
           state' = "ended" => state = "ended",
           thrown' => thrown \/ (asked' /\ kind \in {"browser", "nodeWs"})
    PROVE  StopsOnlyWhen'
<1>1. EmptyDataMatters => EmptyDataMatters'
  <2>1. sent \in Seq(Messages) /\ sent' \in Seq(Messages)
    BY SentMore DEF TypeOK
  <2>2. \A i \in DOMAIN sent : i \in DOMAIN sent' /\ sent'[i] = sent[i]
    BY <2>1, SentMore
  <2> QED  BY <2>2 DEF EmptyDataMatters, IsEmptyData
<1>2. FailsOnlyWhen'
  BY <1>1 DEF StopsOnlyWhen, FailsOnlyWhen, GoReadShort
<1>3. EndLosesNothing'
  BY DEF StopsOnlyWhen, EndLosesNothing, GoReadShort
<1> QED  BY <1>2, <1>3 DEF StopsOnlyWhen

(* What the decoder is in the middle of, and what it asks for. *)
Within(s, at, m) ==
    LET d == Len(decoded)
        p == Until(at, d)
        e == Encoded(m)
    IN  /\ d + 1 \in 1 .. Len(sent) /\ m = sent[d + 1]
        /\ Until(at, d + 1) = p + Len(e) /\ p + Len(e) <= Len(s) /\ Piece(e, s, p)
        /\ \A n \in 1 .. Len(packet) : packet[n] = e[n]
        /\ m.ID = packet[1] /\ m.ID \in MessageIDs
        /\ Wanted \in Nat /\ Len(packet) + Wanted <= Len(e)
        /\ state = "rest" => Wanted = Units4(m.ID) /\ Len(packet) = 1
        /\ state = "data" => /\ Wanted = m.length /\ Wanted = packet[3] /\ m.ID = DataID
                             /\ Len(packet) = 3 /\ Len(e) = 3 + Wanted
        /\ state = "rest" /\ m.ID # DataID => Len(e) = 1 + Wanted
        /\ state = "rest" /\ m.ID = DataID => Wanted = 2 /\ Len(e) = 3 + m.length /\ m.length \in Nat

LEMMA Midway ==
    ASSUME TypeOK, decoded \in Seq(Decodings), NEW s \in Seq(Nat), NEW at \in Seq(Nat),
           Stream(s, at), Follows(s, at), state \in {"rest", "data"}
    PROVE  \E m \in Messages : Within(s, at, m)
<1>1. PICK d \in Nat, p \in Nat :
        /\ d = Len(decoded) /\ p = Until(at, d) /\ d \in 0 .. Len(sent)
  <2>1. Len(decoded) \in 0 .. Len(sent) /\ Len(at) = Len(sent)
    BY DEF Follows, Stream, TypeOK
  <2> QED  BY <2>1, UntilNat
<1>2. /\ packet \in Seq(Nat) /\ Len(packet) \in 1 .. 3
      /\ state = "rest" => Len(packet) = 1
      /\ state = "data" => Len(packet) = 3 /\ packet[1] = DataID
  BY DEF TypeOK
<1>3. PICK k \in 1 .. 3 : k = Len(packet)
  BY <1>2
<1>4. PICK t \in Nat : t = Len(s)
  OBVIOUS
<1>5. Piece(packet, s, p) /\ p + k <= t
  <2>1. PICK i \in Nat, j \in Nat : i = Len(buf) /\ j = Len(net)
    BY DEF TypeOK
  <2>2. Piece(packet, s, p) /\ p + Len(packet) + i + j <= Len(s)
    BY <1>1, <2>1 DEF Follows
  <2>3. p + k + i + j <= t
    BY <1>3, <1>4, <2>2
  <2> QED  BY <2>2, <2>3
<1>6. p < t /\ p < Len(s)
  <2>1. p < t
    BY <1>5
  <2> QED  BY <1>4, <2>1
<1>7. PICK m \in Messages, e \in Seq(Nat) :
        /\ m = sent[d + 1] /\ e = Encoded(m) /\ d + 1 \in 1 .. Len(sent)
        /\ Until(at, d + 1) = p + Len(e) /\ p + Len(e) <= Len(s) /\ Piece(e, s, p)
  BY <1>1, <1>6, NextMessage, EncodedAs
<1>8. /\ m.ID \in MessageIDs /\ Units4(m.ID) \in 1 .. 4
      /\ Payload(m) \in Seq(Nat) /\ Len(e) = 1 + Units4(m.ID) + Len(Payload(m))
      /\ e[1] = m.ID /\ (m.ID # DataID => Payload(m) = <<>>)
      /\ m.ID = DataID => Units4(m.ID) = 2 /\ e[3] = m.length /\ m.length = Len(Payload(m))
  <2>1. m \in MessageType /\ e = Packet(Fields, m)
    BY <1>7, EncodedAs
  <2>2. m.ID \in MessageIDs
    BY <2>1, Shapes DEF Shaped
  <2> QED  BY <2>1, <2>2, SizesAt, PacketOf
<1>9. PICK size \in 1 .. 4 : size = Units4(m.ID)
  BY <1>8
<1>10. PICK load \in Nat : load = Len(Payload(m))
  BY <1>8
<1>11. PICK l \in Nat : l = Len(e)
  BY <1>7
<1>12. /\ l = 1 + size + load /\ (m.ID # DataID => load = 0)
       /\ m.ID = DataID => size = 2 /\ e[3] = m.length /\ m.length = load
  <2>1. l = 1 + size + load
    BY <1>8, <1>9, <1>10, <1>11
  <2> QED  BY <1>8, <1>9, <1>10, <2>1
<1>13. \A n \in 1 .. 3 : n <= k /\ n <= l => packet[n] = e[n]
  <2>1. \A n \in 1 .. k : packet[n] = s[p + n]
    BY <1>5, <1>3 DEF Piece
  <2>2. \A n \in 1 .. l : e[n] = s[p + n]
    BY <1>7, <1>11 DEF Piece
  <2> QED  BY <2>1, <2>2
<1>14. packet[1] = m.ID
  <2>1. 1 \in 1 .. 3 /\ 1 <= k /\ 1 <= l
    BY <1>12
  <2> QED  BY <1>8, <1>13, <2>1
<1>15. Wanted = IF state = "rest" THEN size ELSE packet[3]
  <2>1. payloadSizes[m.ID] \div 4 = size /\ DOMAIN payloadSizes = MessageIDs /\ sizes = payloadSizes
    BY <1>8, <1>12, <1>3, <1>9, <1>10, <1>11, SizesAt, OneTable DEF TypeOK
  <2>2. /\ state = "rest" => Asks(payloadSizes) = size
        /\ state = "data" => Asks(payloadSizes) = packet[3]
    BY <1>8, <1>12, <1>3, <1>9, <1>10, <1>11, <1>14, <2>1 DEF Asks
  <2>3. Wanted = Asks(payloadSizes)
    BY <2>1, KindsAssumption DEF Wanted, TypeOK
  <2>4. state # "rest" => state = "data"
    OBVIOUS
  <2> QED  BY <2>2, <2>3, <2>4
<1>16. CASE state = "rest"
  <2>1. Wanted = size /\ k = 1 /\ Len(packet) = 1
    BY <1>2, <1>15, <1>16, <1>3
  <2>2. \A n \in 1 .. Len(packet) : packet[n] = e[n]
    <3>1. \A n \in 1 .. 1 : n = 1
      OBVIOUS
    <3> QED  BY <1>8, <1>12, <1>3, <1>9, <1>10, <1>11, <1>14, <2>1, <3>1
  <2>3. 1 + size <= l
    BY <1>8, <1>12, <1>3, <1>9, <1>10, <1>11
  <2>4. Len(packet) + Wanted <= Len(e)
    BY <1>8, <1>12, <1>3, <1>9, <1>10, <1>11, <2>1, <2>3
  <2>5. m.ID # DataID => Len(e) = 1 + Wanted
    BY <1>8, <1>12, <1>3, <1>9, <1>10, <1>11, <2>1
  <2>6. m.ID = DataID => Wanted = 2 /\ Len(e) = 3 + m.length /\ m.length \in Nat
    BY <1>8, <1>12, <1>3, <1>9, <1>10, <1>11, <2>1
  <2>7. Wanted \in Nat /\ state # "data"
    BY <1>16, <2>1
  <2>8. Wanted = Units4(m.ID)
    BY <1>8, <1>12, <1>3, <1>9, <1>10, <1>11, <2>1
  <2> QED  BY <1>1, <1>7, <1>8, <1>12, <1>3, <1>9, <1>10, <1>11, <1>14, <2>1, <2>2, <2>4, <2>5, <2>6, <2>7, <2>8 DEF Within
<1>17. CASE state = "data"
  <2>1. m.ID = DataID /\ Len(packet) = 3 /\ k = 3 /\ size = 2
    BY <1>2, <1>8, <1>12, <1>3, <1>9, <1>10, <1>11, <1>14, <1>17
  <2>2. m.length \in Nat /\ l = 3 + m.length /\ Len(e) = 3 + m.length
    BY <1>8, <1>12, <1>3, <1>9, <1>10, <1>11, <2>1
  <2>3. \A n \in 1 .. Len(packet) : packet[n] = e[n]
    <3>1. \A n \in 1 .. 3 : n <= k /\ n <= l
      BY <2>1, <2>2
    <3> QED  BY <1>13, <2>1, <3>1
  <2>4. packet[3] = m.length /\ Wanted = m.length
    <3>1. 3 \in 1 .. Len(packet)
      BY <2>1
    <3>2. packet[3] = m.length
      BY <1>8, <1>12, <1>3, <1>9, <1>10, <1>11, <2>1, <2>3, <3>1
    <3> QED  BY <1>15, <1>17, <3>2
  <2>5. 3 + m.length <= l /\ Len(packet) + Wanted <= Len(e) /\ state # "rest"
    BY <1>8, <1>12, <1>3, <1>9, <1>10, <1>11, <1>17, <2>1, <2>2, <2>4
  <2>6. Wanted \in Nat /\ Wanted = packet[3] /\ Len(e) = 3 + Wanted
    BY <2>2, <2>4
  <2> QED  BY <1>1, <1>7, <1>8, <1>12, <1>3, <1>9, <1>10, <1>11, <1>14, <2>1, <2>3, <2>4, <2>5, <2>6, <1>17 DEF Within
<1> QED  BY <1>16, <1>17

-----------------------------------------------------------------------------
(* What a read returns *)

(* All that was asked for. *)
Full(r, n, len) == n = len /\ Len(r.units) = len /\ (closed => kind = "go")

(* Whatever there is, although nothing was asked for. *)
Over(r, n, len) ==
    kind = "websocket" /\ ~closed /\ len = 0 /\ n = Len(buf) /\ 0 < n /\ Len(r.units) = n

(* What is left at the end of a socket. *)
Under(r, n, len) ==
    /\ kind = "nodeTcp" /\ ended /\ ~closed /\ n = Len(buf) /\ 0 < n /\ n < len
    /\ Len(r.units) = n

(* What has come in Go, and zeros. *)
Padded(r, n, len) == kind = "go" /\ 0 < n /\ n < len /\ Len(r.units) = len

(* The first n units that have arrived are taken. *)
Taken(r, n) ==
    /\ r.is = "units" /\ r.units \in Seq(Nat) /\ n <= Len(r.units)
    /\ \A i \in 1 .. n : r.units[i] = buf[i]
    /\ r.left = SubSeq(buf, n + 1, Len(buf))
    /\ kind = "nodeTcp" => buf # <<>>

Returned(r, n, len) ==
    /\ Taken(r, n)
    /\ Full(r, n, len) \/ Over(r, n, len) \/ Under(r, n, len) \/ Padded(r, n, len)

LEMMA UnitsTaken ==
    ASSUME buf \in Seq(Nat), NEW n \in 0 .. Len(buf), kind = "nodeTcp" => buf # <<>>
    PROVE  Taken(Units(n), n) /\ Len(Units(n).units) = n
<1>1. /\ SubSeq(buf, 1, n) \in Seq(Nat) /\ Len(SubSeq(buf, 1, n)) = n
      /\ \A i \in 1 .. n : SubSeq(buf, 1, n)[i] = buf[i]
  BY Parted
<1>2. /\ Units(n).is = "units" /\ Units(n).units = SubSeq(buf, 1, n)
      /\ Units(n).left = SubSeq(buf, n + 1, Len(buf))
  BY DEF Units
<1> HIDE DEF Units
<1>3. n <= Len(Units(n).units)
  BY <1>1, <1>2
<1> QED  BY <1>1, <1>2, <1>3 DEF Taken

LEMMA Zeros ==
    ASSUME NEW k \in Nat
    PROVE  LET z == [i \in 1 .. k |-> 0] IN
           z \in Seq(Nat) /\ Len(z) = k /\ \A i \in 1 .. k : z[i] = 0
  OBVIOUS

LEMMA ZerosAny ==
    ASSUME NEW a \in Nat, NEW b \in Nat
    PROVE  [i \in 1 .. a - b |-> 0] \in Seq(Nat)
<1>1. CASE a - b \in Nat
  BY <1>1, Zeros
<1>2. CASE a - b \notin Nat
  <2>1. 1 .. a - b = 1 .. 0
    BY <1>2
  <2>2. [i \in 1 .. a - b |-> 0] = [i \in 1 .. 0 |-> 0]
    BY <2>1
  <2> QED  BY <2>2, Zeros
<1> QED  BY <1>1, <1>2

LEMMA ZerosTaken ==
    ASSUME buf \in Seq(Nat), kind = "go", NEW len \in Nat, NEW n \in 1 .. Len(buf), n <= len,
           NEW r, r = [Units(n) EXCEPT !.units = @ \o [i \in 1 .. len - n |-> 0]]
    PROVE  Taken(r, n) /\ Len(r.units) = len
<1> DEFINE zeros == [i \in 1 .. len - n |-> 0]
<1>1. PICK u \in Seq(Nat) : u = SubSeq(buf, 1, n) /\ Len(u) = n /\ \A i \in 1 .. n : u[i] = buf[i]
  <2>1. n \in 0 .. Len(buf)
    OBVIOUS
  <2>2. /\ SubSeq(buf, 1, n) \in Seq(Nat) /\ Len(SubSeq(buf, 1, n)) = n
        /\ \A i \in 1 .. n : SubSeq(buf, 1, n)[i] = buf[i]
    BY <2>1, Parted
  <2> QED  BY <2>2
<1>2. PICK z \in Seq(Nat) : z = zeros /\ Len(z) = len - n
  <2>1. len - n \in Nat
    <3>1. n \in Nat
      OBVIOUS
    <3> QED  BY <3>1
  <2>2. PICK k \in Nat : k = len - n
    BY <2>1
  <2>3. zeros = [i \in 1 .. k |-> 0]
    BY <2>2
  <2>4. [i \in 1 .. k |-> 0] \in Seq(Nat) /\ Len([i \in 1 .. k |-> 0]) = k
    BY Zeros
  <2> QED  BY <2>2, <2>3, <2>4
<1> HIDE DEF zeros
<1>3. r.is = "units" /\ r.units = u \o z /\ r.left = SubSeq(buf, n + 1, Len(buf))
  BY <1>1, <1>2 DEF Units, zeros
<1>4. u \o z \in Seq(Nat) /\ Len(u \o z) = n + (len - n) /\ \A i \in 1 .. n : (u \o z)[i] = u[i]
  BY <1>1, <1>2, Joined
<1>5. Len(r.units) = len /\ n <= Len(r.units)
  <2>1. n \in Nat /\ n + (len - n) = len
    OBVIOUS
  <2>2. Len(u \o z) = len
    BY <1>4, <2>1
  <2> QED  BY <1>3, <2>2
<1> QED  BY <1>1, <1>3, <1>4, <1>5 DEF Taken

(* conn.read, whatever the conn. *)
LEMMA Reads ==
    ASSUME kind \in Kinds, buf \in Seq(Nat), {closed, ended, error} \subseteq BOOLEAN,
           NEW len \in Nat, NEW r \in Read(len)
    PROVE  \/ r = Rejected /\ error /\ kind = "nodeTcp"
           \/ /\ r = End /\ (kind = "go" => len > 0)
              /\ closed \/ (ended /\ buf = <<>> /\ kind \in Sockets)
           \/ \E n \in 0 .. Len(buf) : Returned(r, n, len)
<1>1. PICK b \in Nat : b = Len(buf) /\ (buf = <<>> => b = 0) /\ (b = 0 => buf = <<>>)
  <2>1. Len(buf) \in Nat /\ (buf = <<>> => Len(buf) = 0) /\ (Len(buf) = 0 => buf = <<>>)
    OBVIOUS
  <2> QED  BY <2>1
<1>2. ASSUME r = Units(len), len <= b, closed => kind = "go", kind = "nodeTcp" => buf # <<>>
      PROVE  \E n \in 0 .. Len(buf) : Returned(r, n, len)
  <2>1. len \in 0 .. Len(buf)
    BY <1>1, <1>2
  <2>2. Taken(r, len) /\ Len(r.units) = len
    BY <1>2, <2>1, UnitsTaken
  <2> QED  BY <1>2, <2>1, <2>2 DEF Returned, Full
<1>3. ASSUME r = Units(Len(buf)), b > 0, ~closed,
             \/ kind = "websocket" /\ len = 0
             \/ kind = "nodeTcp" /\ ended /\ len > b
      PROVE  \E n \in 0 .. Len(buf) : Returned(r, n, len)
  <2>1. b \in 0 .. Len(buf)
    BY <1>1
  <2>2. Taken(r, b) /\ Len(r.units) = b
    BY <1>1, <1>3, <2>1, UnitsTaken
  <2>3. Over(r, b, len) \/ Under(r, b, len)
    BY <1>1, <1>3, <2>2 DEF Over, Under
  <2> QED  BY <2>1, <2>2, <2>3 DEF Returned
<1>4. CASE kind = "websocket"
  <2>1. r \in ReadWebsocket(len)
    BY <1>4 DEF Read
  <2>2. \/ closed /\ r = End
        \/ ~closed /\ len = 0 /\ buf # <<>> /\ r = Units(Len(buf))
        \/ ~closed /\ len <= Len(buf) /\ r = Units(len)
    BY <2>1 DEF ReadWebsocket
  <2> QED  BY <1>1, <1>2, <1>3, <1>4, <2>2
<1>5. CASE kind = "browser" \/ kind = "nodeWs"
  <2>1. r \in ReadBrowser(len) \/ r \in ReadNodeWs(len)
    <3>1. kind = "browser" => r \in ReadBrowser(len)
      BY DEF Read
    <3>2. kind = "nodeWs" => r \in ReadNodeWs(len)
      BY DEF Read
    <3> QED  BY <1>5, <3>1, <3>2
  <2>2. \/ closed /\ r = End
        \/ ~closed /\ len <= Len(buf) /\ r = Units(len)
    BY <2>1 DEF ReadBrowser, ReadNodeWs
  <2> QED  BY <1>1, <1>2, <1>5, <2>2
<1>6. CASE kind = "nodeTcp"
  <2>1. r \in ReadNodeTcp(len)
    BY <1>6 DEF Read
  <2>2. \/ error /\ r = Rejected
        \/ (closed \/ (ended /\ buf = <<>>)) /\ r = End
        \/ ~closed /\ len # 0 /\ len <= Len(buf) /\ r = Units(len)
        \/ ~closed /\ ended /\ buf # <<>> /\ len > Len(buf) /\ r = Units(Len(buf))
    BY <2>1 DEF ReadNodeTcp
  <2>3. ASSUME ~closed, len # 0, len <= Len(buf), r = Units(len)
        PROVE  \E n \in 0 .. Len(buf) : Returned(r, n, len)
    <3>1. len <= b /\ b # 0
      BY <1>1, <2>3
    <3> QED  BY <1>1, <1>2, <1>6, <2>3, <3>1
  <2>4. ASSUME ~closed, ended, buf # <<>>, len > Len(buf), r = Units(Len(buf))
        PROVE  \E n \in 0 .. Len(buf) : Returned(r, n, len)
    <3>1. b > 0 /\ len > b
      BY <1>1, <2>4
    <3> QED  BY <1>3, <1>6, <2>4, <3>1
  <2> QED  BY <1>6, <2>2, <2>3, <2>4 DEF Sockets
<1>7. CASE kind = "go"
  <2>1. r \in ReadGo(len)
    BY <1>7 DEF Read
  <2>2. \/ len = 0 /\ r = Units(0)
        \/ /\ len > 0 /\ buf # <<>> /\ ~closed
           /\ \E n \in 1 .. (IF len < Len(buf) THEN len ELSE Len(buf)) :
                r = [Units(n) EXCEPT !.units = @ \o [i \in 1 .. len - n |-> 0]]
        \/ len > 0 /\ (closed \/ (ended /\ buf = <<>>)) /\ r = End
    BY <2>1 DEF ReadGo
  <2>3. CASE len = 0 /\ r = Units(0)
    BY <1>1, <1>2, <1>7, <2>3
  <2>4. ASSUME len > 0, buf # <<>>, ~closed,
               NEW n \in 1 .. (IF len < Len(buf) THEN len ELSE Len(buf)),
               r = [Units(n) EXCEPT !.units = @ \o [i \in 1 .. len - n |-> 0]]
        PROVE  \E k \in 0 .. Len(buf) : Returned(r, k, len)
    <3>1. n \in 1 .. b /\ n <= len
      BY <1>1, <2>4
    <3>2. n \in 1 .. Len(buf) /\ n \in 0 .. Len(buf)
      BY <1>1, <3>1
    <3>3. Taken(r, n) /\ Len(r.units) = len
      BY <1>7, <2>4, <3>1, <3>2, ZerosTaken
    <3>4. Full(r, n, len) \/ Padded(r, n, len)
      BY <1>7, <3>1, <3>3 DEF Full, Padded
    <3> QED  BY <3>2, <3>3, <3>4 DEF Returned
  <2> QED  BY <1>7, <2>2, <2>3, <2>4 DEF Sockets
<1> QED  BY <1>4, <1>5, <1>6, <1>7, KindsAssumption

-----------------------------------------------------------------------------
(* The writing end *)

(* The stream of the messages q. *)
StreamOf(q, s, at) ==
    /\ Len(at) = Len(q) /\ Until(at, Len(q)) = Len(s)
    /\ \A k \in 1 .. Len(q) :
         LET e == Packet(Fields, q[k]) IN
         /\ at[k] = Until(at, k - 1) + Len(e) /\ at[k] <= Len(s)
         /\ \A n \in 1 .. Len(e) : s[Until(at, k - 1) + n] = e[n]

LEMMA StreamIs ==
    ASSUME kind \in Kinds, coder \in Coders, NEW s, NEW at
    PROVE  Stream(s, at) <=> StreamOf(sent, s, at)
<1>1. \A m : Encoded(m) = Packet(Fields, m)
  BY OneTable
<1> QED  BY <1>1 DEF Stream, Lies, StreamOf

LEMMA StreamThen ==
    ASSUME kind \in Kinds, coder \in Coders, UNCHANGED <<kind, coder>>, NEW s, NEW at
    PROVE  Stream(s, at)' <=> StreamOf(sent', s, at)
<1>1. \A m : Encoded(m) = Packet(Fields, m)
  BY OneTable
<1>2. \A m : Encoded(m)' = Encoded(m)
  BY DEF Encoded
<1>3. \A m : Encoded(m)' = Packet(Fields, m)
  BY <1>1, <1>2
<1> QED  BY <1>3 DEF Stream, Lies, StreamOf

(* The stream grows by a message. *)
LEMMA StreamGrows ==
    ASSUME NEW q \in Seq(Messages), NEW s \in Seq(Nat), NEW at \in Seq(Nat),
           StreamOf(q, s, at), NEW m \in Messages, NEW e \in Seq(Nat), e = Packet(Fields, m)
    PROVE  \E at2 \in Seq(Nat) :
             /\ StreamOf(Append(q, m), s \o e, at2)
             /\ \A k \in 0 .. Len(q) : Until(at2, k) = Until(at, k)
<1>1. PICK l \in Nat, c \in Nat, z \in Nat : l = Len(e) /\ c = Len(q) /\ z = Len(s)
  OBVIOUS
<1>2. PICK q2 \in Seq(Messages) :
        /\ q2 = Append(q, m) /\ Len(q2) = c + 1 /\ q2[c + 1] = m
        /\ \A i \in 1 .. c : q2[i] = q[i]
  <2>1. /\ Append(q, m) \in Seq(Messages) /\ Len(Append(q, m)) = Len(q) + 1
        /\ Append(q, m)[Len(q) + 1] = m
        /\ \A i \in 1 .. Len(q) : Append(q, m)[i] = q[i]
    BY OneMore
  <2> QED  BY <1>1, <2>1
<1>3. PICK s2 \in Seq(Nat) :
        /\ s2 = s \o e /\ Len(s2) = z + l
        /\ \A n \in 1 .. z : s2[n] = s[n]
        /\ \A n \in 1 .. l : s2[z + n] = e[n]
  <2>1. /\ s \o e \in Seq(Nat) /\ Len(s \o e) = Len(s) + Len(e)
        /\ \A n \in 1 .. Len(s) : (s \o e)[n] = s[n]
        /\ \A n \in 1 .. Len(e) : (s \o e)[Len(s) + n] = e[n]
    BY Joined
  <2> QED  BY <1>1, <2>1
<1>4. PICK x \in Nat : x = z + l
  BY <1>1
<1>5. PICK at2 \in Seq(Nat) :
        /\ Len(at2) = c + 1 /\ at2[c + 1] = x
        /\ \A i \in 1 .. c : at2[i] = at[i]
  <2>1. Len(at) = c
    BY <1>1 DEF StreamOf
  <2>2. /\ Append(at, x) \in Seq(Nat) /\ Len(Append(at, x)) = Len(at) + 1
        /\ Append(at, x)[Len(at) + 1] = x
        /\ \A i \in 1 .. Len(at) : Append(at, x)[i] = at[i]
    BY OneMore
  <2> QED  BY <2>1, <2>2
<1>6. \A k \in 0 .. c : Until(at2, k) = Until(at, k)
  BY <1>5 DEF Until
<1>7. Until(at2, c) = z /\ Until(at2, c + 1) = x
  <2>1. Until(at, c) = z
    BY <1>1 DEF StreamOf
  <2>2. c \in 0 .. c /\ c + 1 # 0
    BY <1>1
  <2>3. Until(at2, c + 1) = x
    BY <1>5, <2>2 DEF Until
  <2> QED  BY <1>6, <2>1, <2>2, <2>3
<1>8. ASSUME NEW k \in 1 .. c + 1
      PROVE  LET f == Packet(Fields, q2[k]) IN
             /\ at2[k] = Until(at2, k - 1) + Len(f) /\ at2[k] <= Len(s2)
             /\ \A n \in 1 .. Len(f) : s2[Until(at2, k - 1) + n] = f[n]
  <2>1. CASE k = c + 1
    <3>1. q2[k] = m /\ Until(at2, k - 1) = z /\ at2[k] = x
      <4>1. k - 1 = c
        BY <1>1, <2>1
      <4>2. q2[k] = m
        BY <1>2, <2>1
      <4>3. at2[k] = x
        BY <1>5, <2>1
      <4>4. Until(at2, k - 1) = Until(at2, c)
        BY <4>1, Zenon
      <4> QED  BY <1>7, <4>2, <4>3, <4>4
    <3>2. Packet(Fields, q2[k]) = e
      BY <3>1
    <3>3. x = z + Len(e) /\ x <= Len(s2) /\ \A n \in 1 .. Len(e) : s2[z + n] = e[n]
      <4>1. x <= Len(s2)
        BY <1>3, <1>4
      <4> QED  BY <1>1, <1>3, <1>4, <4>1
    <3> QED  BY <3>1, <3>2, <3>3
  <2>2. CASE k # c + 1
    <3>1. k \in 1 .. c /\ k \in 1 .. Len(q) /\ k - 1 \in 0 .. c /\ k - 1 \in 0 .. Len(at)
      <4>1. Len(at) = c
        BY <1>1 DEF StreamOf
      <4> QED  BY <1>1, <2>2, <4>1
    <3>2. PICK f \in Seq(Nat) : f = Packet(Fields, q[k]) /\ f = Packet(Fields, q2[k])
      <4>1. q[k] \in MessageType
        BY <3>1, MessagesAssumption
      <4>2. Packet(Fields, q[k]) \in Seq(Nat) /\ q2[k] = q[k]
        BY <1>2, <3>1, <4>1, PacketOf
      <4> QED  BY <4>2
    <3>3. PICK u \in Nat : u = Until(at, k - 1) /\ u = Until(at2, k - 1)
      BY <1>6, <3>1, UntilNat
    <3>4. PICK g \in Nat : g = Len(f)
      OBVIOUS
    <3>5. at[k] = u + g /\ at[k] <= z /\ \A n \in 1 .. g : s[u + n] = f[n]
      <4>1. /\ at[k] = Until(at, k - 1) + Len(Packet(Fields, q[k])) /\ at[k] <= Len(s)
            /\ \A n \in 1 .. Len(Packet(Fields, q[k])) :
                 s[Until(at, k - 1) + n] = Packet(Fields, q[k])[n]
        BY <3>1 DEF StreamOf
      <4> QED  BY <1>1, <3>2, <3>3, <3>4, <4>1
    <3>6. u + g <= z /\ u + g <= z + l
      BY <3>5
    <3>7. at2[k] = u + g /\ at2[k] <= Len(s2)
      BY <1>3, <1>5, <3>1, <3>5, <3>6
    <3>8. \A n \in 1 .. g : s2[u + n] = f[n]
      <4>1. \A n \in 1 .. g : u + n \in 1 .. z
        BY <3>6
      <4> QED  BY <1>3, <3>5, <4>1
    <3> QED  BY <3>2, <3>3, <3>4, <3>7, <3>8
  <2> QED  BY <2>1, <2>2
<1>9. StreamOf(q2, s2, at2)
  <2>1. Len(at2) = Len(q2) /\ Until(at2, Len(q2)) = Len(s2)
    BY <1>2, <1>3, <1>4, <1>5, <1>7
  <2> QED  BY <1>2, <1>8, <2>1 DEF StreamOf
<1> QED  BY <1>1, <1>2, <1>3, <1>6, <1>9

LEMMA EncodeLocated ==
    ASSUME TypeOK, Located, cut => fin, NEW m \in Messages, Encode(m)
    PROVE  Located'
<1>1. PICK s \in Seq(Nat), at \in Seq(Nat) : Stream(s, at) /\ (InStep => Follows(s, at))
  BY DEF Located
<1>2. /\ sent' = Append(sent, m) /\ net' = net \o Encoded(m) /\ ~cut /\ cut' = cut
      /\ UNCHANGED <<kind, coder, closed, state, short, decoded, packet, buf>>
  BY DEF Encode, chosen, conn
<1>3. PICK e \in Seq(Nat), l \in Nat : e = Encoded(m) /\ e = Packet(Fields, m) /\ l = Len(e)
  <2>1. Encoded(m) \in Seq(Nat) /\ Len(Encoded(m)) \in Nat /\ Encoded(m) = Packet(Fields, m)
    BY EncodedAs
  <2> QED  BY <2>1
<1>4. PICK at2 \in Seq(Nat) :
        /\ StreamOf(sent', s \o e, at2)
        /\ \A k \in 0 .. Len(sent) : Until(at2, k) = Until(at, k)
  <2>1. StreamOf(sent, s, at) /\ sent \in Seq(Messages)
    BY <1>1, StreamIs DEF TypeOK
  <2>2. \E at2 \in Seq(Nat) :
          /\ StreamOf(Append(sent, m), s \o e, at2)
          /\ \A k \in 0 .. Len(sent) : Until(at2, k) = Until(at, k)
    BY <1>3, <2>1, StreamGrows
  <2>3. sent' = Append(sent, m)
    BY <1>2
  <2> QED  BY <2>2, <2>3, Zenon
<1>5. PICK s2 \in Seq(Nat), z \in Nat : s2 = s \o e /\ z = Len(s) /\ Len(s2) = z + l
  <2>1. s \o e \in Seq(Nat) /\ Len(s \o e) = Len(s) + Len(e)
    BY Joined
  <2>2. Len(s) \in Nat /\ Len(s \o e) = Len(s) + l
    BY <1>3, <2>1
  <2> QED  BY <2>1, <2>2
<1>6. Stream(s2, at2)'
  BY <1>2, <1>4, <1>5, StreamThen DEF TypeOK
<1>7. ASSUME Follows(s, at)
      PROVE  Follows(s2, at2)'
  <2>1. PICK p \in Nat, a \in Nat, b \in Nat, c \in Nat :
          /\ p = Until(at, Len(decoded)) /\ p = Until(at2, Len(decoded))
          /\ a = Len(packet) /\ b = Len(buf) /\ c = Len(net)
    <3>1. Len(decoded) \in 0 .. Len(sent) /\ Len(at) = Len(sent)
      BY <1>1, <1>7 DEF Stream, Follows, TypeOK
    <3>2. Until(at, Len(decoded)) \in Nat /\ Until(at2, Len(decoded)) = Until(at, Len(decoded))
      BY <1>4, <3>1, UntilNat
    <3>3. Len(packet) \in Nat /\ Len(buf) \in Nat /\ Len(net) \in Nat
      BY DEF TypeOK
    <3> QED  BY <3>2, <3>3
  <2>2. /\ Piece(packet, s, p) /\ Piece(buf, s, p + a) /\ Piece(net, s, p + a + b)
        /\ p + a + b + c = z
    BY <1>2, <1>5, <1>7, <2>1 DEF Follows
  <2>3. Piece(packet, s2, p) /\ Piece(buf, s2, p + a) /\ Piece(net, s2, p + a + b)
    <3>1. /\ p + a <= z /\ p + a + b <= z /\ p + a + b + c <= z
          /\ p + a \in Nat /\ p + a + b \in Nat
      BY <2>2
    <3>2. packet \in Seq(Nat) /\ buf \in Seq(Nat) /\ net \in Seq(Nat)
      BY DEF TypeOK
    <3>3. Piece(packet, s \o e, p)
      BY <1>5, <2>1, <2>2, <3>1, <3>2, PieceOfMore
    <3>4. Piece(buf, s \o e, p + a)
      BY <1>5, <2>1, <2>2, <3>1, <3>2, PieceOfMore
    <3>5. Piece(net, s \o e, p + a + b)
      BY <1>5, <2>1, <2>2, <3>1, <3>2, PieceOfMore
    <3> QED  BY <1>5, <3>3, <3>4, <3>5
  <2>4. Piece(e, s2, z)
    BY <1>5, Joined DEF Piece
  <2>5. Piece(net', s2, p + a + b) /\ Len(net') = c + l
    <3>1. net \in Seq(Nat) /\ p + a + b \in Nat /\ p + a + b + Len(net) = z
      BY <2>1, <2>2 DEF TypeOK
    <3>2. Piece(net \o e, s2, p + a + b)
      BY <2>3, <2>4, <3>1, PieceJoined
    <3>3. Len(net \o e) = Len(net) + Len(e)
      BY <3>1, Joined
    <3> QED  BY <1>2, <1>3, <2>1, <3>2, <3>3
  <2>6. Len(decoded') <= Len(sent')
    <3>1. PICK i \in Nat, j \in Nat, k \in Nat : i = Len(decoded) /\ j = Len(sent) /\ k = Len(sent')
      <4>1. sent' \in Seq(Messages) /\ sent \in Seq(Messages)
        BY <1>2, OneMore DEF TypeOK
      <4>2. Len(decoded) \in 0 .. Len(sent)
        BY <1>1, <1>7 DEF Stream, Follows, TypeOK
      <4> QED  BY <4>1, <4>2
    <3>2. i <= j /\ j <= k
      BY <1>2, <1>7, <3>1, SentMore DEF Follows
    <3>3. i <= k
      BY <3>2
    <3> QED  BY <1>2, <3>1, <3>3
  <2>7. p + a + b + (c + l) = z + l
    BY <2>2
  <2>8. p + a + b + (c + l) <= z + l
    BY <2>7
  <2>9. Until(at2, Len(decoded')) = p /\ Len(packet') = a /\ Len(buf') = b
    BY <1>2, <2>1
  <2> QED  BY <1>2, <1>5, <2>3, <2>5, <2>6, <2>7, <2>8, <2>9 DEF Follows
<1>8. InStep' => InStep
  BY <1>2 DEF InStep
<1>9. (InStep => Follows(s2, at2))'
  BY <1>1, <1>7, <1>8
<1> QED  BY <1>6, <1>9 DEF Located

LEMMA EncodeKeeps ==
    ASSUME FramingInv, NEW m \in Messages, Encode(m)
    PROVE  FramingInv'
<1>1. /\ Len(sent) < MaxMessages /\ ~fin /\ sent' = Append(sent, m) /\ net' = net \o Encoded(m)
      /\ UNCHANGED <<kind, coder, fin, cut, buf, closed, ended, error, asked, late, state, packet,
                     thrown, short, decoded>>
  BY DEF Encode, chosen, conn
<1>2. ~cut /\ ~ended /\ ~error /\ (closed => asked) /\ (state = "ended" => asked)
  BY <1>1 DEF FramingInv, ConnInv, ClosedInv, TypeOK
<1>3. TypeOK'
  <2>1. Encoded(m) \in Seq(Nat)
    BY EncodedAs DEF FramingInv
  <2>2. net' \in Seq(Nat)
    BY <1>1, <2>1, Joined DEF FramingInv, TypeOK
  <2>3. sent' \in Seq(Messages) /\ Len(sent') = Len(sent) + 1
    BY <1>1, OneMore DEF FramingInv, TypeOK
  <2>4. Len(sent') <= MaxMessages
    <3>1. PICK k \in Nat : k = Len(sent)
      BY DEF FramingInv, TypeOK
    <3> QED  BY <1>1, <2>3, <3>1, MaxMessagesAssumption
  <2> QED  BY <1>1, <2>2, <2>3, <2>4 DEF FramingInv, TypeOK
<1>4. Located'
  BY EncodeLocated DEF FramingInv, ConnInv
<1>5. ConnInv' /\ ShortInv' /\ ClosedInv'
  BY <1>1, <1>2 DEF FramingInv, ConnInv, ShortInv, ClosedInv, WritesAtOnce
<1>6. DecodedAsSent'
  BY <1>1, DecodedKept DEF FramingInv
<1>7. StopsOnlyWhen'
  BY <1>1, <1>2, StopsKept DEF FramingInv
<1> QED  BY <1>1, <1>3, <1>4, <1>5, <1>6, <1>7 DEF FramingInv

-----------------------------------------------------------------------------
(* The transport and the reading end *)

(* Where the packet, the buffer and what is on its way begin, and how long they are. *)
LEMMA Positions ==
    ASSUME TypeOK, NEW s \in Seq(Nat), NEW at \in Seq(Nat), Stream(s, at), Follows(s, at)
    PROVE  \E p \in Nat, a \in Nat, b \in Nat, c \in Nat, z \in Nat :
             /\ p = Until(at, Len(decoded)) /\ a = Len(packet) /\ b = Len(buf)
             /\ c = Len(net) /\ z = Len(s) /\ Len(decoded) \in 0 .. Len(sent)
             /\ Piece(packet, s, p) /\ Piece(buf, s, p + a) /\ Piece(net, s, p + a + b)
             /\ p + a + b + c <= z /\ (~cut => p + a + b + c = z)
<1>1. Len(decoded) \in 0 .. Len(sent) /\ Len(at) = Len(sent)
  BY DEF Stream, Follows, TypeOK
<1>2. /\ Until(at, Len(decoded)) \in Nat /\ Len(packet) \in Nat /\ Len(buf) \in Nat
      /\ Len(net) \in Nat /\ Len(s) \in Nat
  BY <1>1, UntilNat DEF TypeOK
<1>3. PICK p \in Nat, a \in Nat, b \in Nat, c \in Nat, z \in Nat :
        /\ p = Until(at, Len(decoded)) /\ a = Len(packet) /\ b = Len(buf)
        /\ c = Len(net) /\ z = Len(s)
  BY <1>2
<1>4. /\ Piece(packet, s, p) /\ Piece(buf, s, p + a) /\ Piece(net, s, p + a + b)
      /\ p + a + b + c <= z /\ (~cut => p + a + b + c = z)
  BY <1>3 DEF Follows
<1> QED  BY <1>1, <1>3, <1>4

LEMMA Placed ==
    ASSUME NEW s, NEW at, NEW p, NEW a, NEW b, NEW c, NEW z,
           p = Until(at, Len(decoded')), a = Len(packet'), b = Len(buf'), c = Len(net'),
           z = Len(s), Len(decoded') <= Len(sent'),
           Piece(packet', s, p), Piece(buf', s, p + a), Piece(net', s, p + a + b),
           p + a + b + c <= z, ~cut' => p + a + b + c = z
    PROVE  Follows(s, at)'
  BY DEF Follows

LEMMA AnsweredKeeps ==
    ASSUME FramingInv, Answered
    PROVE  FramingInv'
<1>1. /\ state = "busy" /\ state' = "head"
      /\ UNCHANGED <<kind, coder, sent, fin, cut, net, buf, closed, ended, error, asked, late,
                     packet, thrown, short, decoded>>
  BY DEF Answered, chosen, writer, conn
<1>2. TypeOK'
  BY <1>1 DEF FramingInv, TypeOK, Reading
<1>3. Located'
  <2>1. InStep' => InStep
    BY <1>1 DEF InStep, Reading
  <2>2. \A s \in Seq(Nat), at \in Seq(Nat) :
          Stream(s, at) /\ (InStep => Follows(s, at)) => (InStep' => Follows(s, at)')
    BY <1>1, <2>1 DEF Follows
  <2> QED  BY <1>1, <2>2, LocatedKept DEF FramingInv
<1>4. ConnInv' /\ ShortInv' /\ ClosedInv'
  BY <1>1 DEF FramingInv, ConnInv, ShortInv, ClosedInv
<1>5. DecodedAsSent'
  BY <1>1, DecodedKept DEF FramingInv
<1>6. StopsOnlyWhen'
  BY <1>1, StopsKept DEF FramingInv
<1> QED  BY <1>1, <1>2, <1>3, <1>4, <1>5, <1>6 DEF FramingInv

(* What is on its way may be cut off. *)
LEMMA PeerClosesLocated ==
    ASSUME TypeOK, Located, ~cut, PeerCloses
    PROVE  Located'
<1>1. UNCHANGED <<kind, coder, sent, buf, closed, state, packet, short, decoded>>
  BY DEF PeerCloses, chosen, conn
<1>2. PICK n \in 0 .. Len(net) : net' = SubSeq(net, 1, n) /\ cut' = (n < Len(net))
  BY DEF PeerCloses
<1>3. /\ net \in Seq(Nat) /\ Len(net') = n
      /\ \A i \in 1 .. n : net'[i] = net[i]
  <2>1. net \in Seq(Nat)
    BY DEF TypeOK
  <2> QED  BY <1>2, <2>1, Parted
<1>4. ASSUME NEW s \in Seq(Nat), NEW at \in Seq(Nat), Stream(s, at),
             InStep => Follows(s, at), InStep'
      PROVE  Follows(s, at)'
  <2>1. Follows(s, at)
    BY <1>1, <1>4 DEF InStep
  <2>2. PICK p \in Nat, a \in Nat, b \in Nat, c \in Nat, z \in Nat :
          /\ p = Until(at, Len(decoded)) /\ a = Len(packet) /\ b = Len(buf)
          /\ c = Len(net) /\ z = Len(s) /\ Len(decoded) \in 0 .. Len(sent)
          /\ Piece(packet, s, p) /\ Piece(buf, s, p + a) /\ Piece(net, s, p + a + b)
          /\ p + a + b + c <= z /\ (~cut => p + a + b + c = z)
    BY <1>4, <2>1, Positions
  <2>3. n \in 0 .. c /\ (~cut' => n = c)
    <3>1. n \in 0 .. c
      BY <2>2
    <3>2. cut' = (n < c)
      BY <1>2, <2>2
    <3>3. ~cut' => ~(n < c)
      BY <3>2, Zenon
    <3> QED  BY <3>1, <3>3
  <2>4. p + a + b + n <= z /\ (~cut' => p + a + b + n = z)
    <3>1. p + a + b + c = z
      BY <2>2
    <3> QED  BY <2>3, <3>1
  <2>5. Piece(net', s, p + a + b)
    <3>1. \A i \in 1 .. n : i \in 1 .. Len(net)
      BY <2>2, <2>3
    <3> QED  BY <1>3, <2>2, <3>1 DEF Piece
  <2>6. Len(decoded') <= Len(sent')
    BY <1>1, <2>1 DEF Follows
  <2> QED  BY <1>1, <1>3, <2>2, <2>4, <2>5, <2>6, Placed
<1> QED  BY <1>1, <1>4, LocatedKept

LEMMA PeerClosesKeeps ==
    ASSUME FramingInv, PeerCloses
    PROVE  FramingInv'
<1>1. /\ ~fin /\ fin' = TRUE
      /\ UNCHANGED <<kind, coder, sent, buf, closed, ended, error, asked, late, state, packet,
                     thrown, short, decoded>>
  BY DEF PeerCloses, chosen, conn
<1>2. ~cut /\ ~ended /\ ~error /\ (closed => asked) /\ (short => kind # "nodeTcp")
  BY <1>1 DEF FramingInv, ConnInv, ShortInv, TypeOK
<1>3. TypeOK'
  <2>1. PICK n \in 0 .. Len(net) : net' = SubSeq(net, 1, n) /\ cut' = (n < Len(net))
    BY DEF PeerCloses
  <2>2. net' \in Seq(Nat)
    BY <2>1, Parted DEF FramingInv, TypeOK
  <2>3. cut' \in BOOLEAN
    BY <2>1
  <2> QED  BY <1>1, <2>2, <2>3 DEF FramingInv, TypeOK
<1>4. Located'
  BY <1>2, PeerClosesLocated DEF FramingInv
<1>5. ConnInv' /\ ShortInv' /\ ClosedInv'
  BY <1>1, <1>2 DEF FramingInv, ConnInv, ShortInv, ClosedInv, WritesAtOnce
<1>6. DecodedAsSent'
  BY <1>1, <1>2, DecodedKept DEF FramingInv
<1>7. StopsOnlyWhen'
  BY <1>1, <1>2, StopsKept DEF FramingInv
<1> QED  BY <1>1, <1>3, <1>4, <1>5, <1>6, <1>7 DEF FramingInv

(* What arrives goes to the end of the buffer. *)
LEMMA ArrivalLocated ==
    ASSUME TypeOK, Located, UNCHANGED <<kind, coder, sent, cut, closed, state, packet, short, decoded>>,
           NEW n \in 1 .. Len(net), net' = SubSeq(net, n + 1, Len(net)),
           \/ buf' = buf \o SubSeq(net, 1, n)
           \/ closed /\ kind # "go"
    PROVE  Located'
<1>1. /\ net \in Seq(Nat) /\ buf \in Seq(Nat) /\ n \in 0 .. Len(net)
  BY DEF TypeOK
<1>2. ASSUME NEW s \in Seq(Nat), NEW at \in Seq(Nat), Stream(s, at),
             InStep => Follows(s, at), InStep'
      PROVE  Follows(s, at)'
  <2>1. Follows(s, at) /\ (closed => kind = "go")
    BY <1>2 DEF InStep
  <2>2. buf' = buf \o SubSeq(net, 1, n)
    BY <2>1
  <2>3. PICK p \in Nat, a \in Nat, b \in Nat, c \in Nat, z \in Nat :
          /\ p = Until(at, Len(decoded)) /\ a = Len(packet) /\ b = Len(buf)
          /\ c = Len(net) /\ z = Len(s) /\ Len(decoded) \in 0 .. Len(sent)
          /\ Piece(packet, s, p) /\ Piece(buf, s, p + a) /\ Piece(net, s, p + a + b)
          /\ p + a + b + c <= z /\ (~cut => p + a + b + c = z)
    BY <1>2, <2>1, Positions
  <2>4. n \in 0 .. c /\ p + a \in Nat /\ p + a + b \in Nat
    <3>1. n \in 0 .. c
      BY <1>1, <2>3
    <3>2. p + a \in Nat /\ p + a + b \in Nat
      OBVIOUS
    <3> QED  BY <3>1, <3>2
  <2>5. /\ SubSeq(net, 1, n) \in Seq(Nat) /\ Len(SubSeq(net, 1, n)) = n
        /\ Len(net') = c - n
    BY <1>1, <2>3, Parted
  <2>6. Piece(SubSeq(net, 1, n), s, p + a + b) /\ Piece(net', s, p + a + b + n)
    BY <1>1, <2>3, <2>4, PieceParted
  <2>7. Piece(buf', s, p + a) /\ Len(buf') = b + n
    <3>1. Piece(SubSeq(net, 1, n), s, (p + a) + Len(buf))
      BY <2>3, <2>6
    <3>2. Piece(buf \o SubSeq(net, 1, n), s, p + a)
      BY <1>1, <2>3, <2>4, <2>5, <3>1, PieceJoined
    <3> QED  BY <1>1, <2>2, <2>3, <2>5, <3>2, Joined
  <2>8. /\ p + a + (b + n) = p + a + b + n
        /\ p + a + (b + n) + (c - n) <= z /\ (~cut => p + a + (b + n) + (c - n) = z)
    <3>1. p + a + (b + n) = p + a + b + n /\ p + a + (b + n) + (c - n) = p + a + b + c
      BY <2>4
    <3> QED  BY <2>3, <3>1
  <2>9. Piece(net', s, p + a + (b + n))
    BY <2>6, <2>8
  <2>10. Len(decoded') <= Len(sent')
    BY <2>1 DEF Follows
  <2> QED  BY <2>3, <2>5, <2>7, <2>8, <2>9, <2>10, Placed
<1> QED  BY <1>2, LocatedKept

LEMMA MessageKeeps ==
    ASSUME FramingInv, Message
    PROVE  FramingInv'
<1>1. /\ UNCHANGED <<kind, coder, sent, fin, cut, closed, ended, error, asked, late, state, packet,
                     short, decoded>>
  BY DEF Message, chosen, writer, conn
<1>2. PICK n \in 1 .. Len(net) :
        /\ net' = SubSeq(net, n + 1, Len(net))
        /\ \/ MessageWebsocket(SubSeq(net, 1, n)) \/ MessageBrowser(SubSeq(net, 1, n))
           \/ MessageNodeWs(SubSeq(net, 1, n)) \/ Readable(SubSeq(net, 1, n))
  BY DEF Message
<1>3. /\ \/ buf' = buf \o SubSeq(net, 1, n) /\ thrown' = thrown
         \/ closed /\ kind \in {"browser", "nodeWs"} /\ buf' = buf /\ thrown' = TRUE
  BY <1>2 DEF MessageWebsocket, MessageBrowser, MessageNodeWs, Readable
<1>4. net # <<>> /\ net \in Seq(Nat) /\ buf \in Seq(Nat) /\ n \in 0 .. Len(net)
  BY DEF FramingInv, TypeOK
<1>5. ~ended /\ (closed /\ kind \notin Sockets => asked)
  BY <1>4 DEF FramingInv, ConnInv
<1>6. TypeOK'
  <2>1. net' \in Seq(Nat) /\ SubSeq(net, 1, n) \in Seq(Nat)
    BY <1>2, <1>4, Parted
  <2>2. buf' \in Seq(Nat)
    BY <1>3, <1>4, <2>1, Joined
  <2>3. thrown' \in BOOLEAN
    BY <1>3 DEF FramingInv, TypeOK
  <2> QED  BY <1>1, <2>1, <2>2, <2>3 DEF FramingInv, TypeOK
<1>7. Located'
  BY <1>1, <1>2, <1>3, ArrivalLocated DEF FramingInv
<1>8. ConnInv' /\ ShortInv' /\ ClosedInv'
  BY <1>1, <1>5 DEF FramingInv, ConnInv, ShortInv, ClosedInv, WritesAtOnce, Sockets
<1>9. DecodedAsSent'
  BY <1>1, DecodedKept DEF FramingInv
<1>10. StopsOnlyWhen'
  <2>1. thrown' => thrown \/ (asked' /\ kind \in {"browser", "nodeWs"})
    BY <1>1, <1>3, <1>5 DEF Sockets
  <2> QED  BY <1>1, <2>1, StopsKept DEF FramingInv
<1> QED  BY <1>1, <1>6, <1>7, <1>8, <1>9, <1>10 DEF FramingInv

LEMMA OnEndKeeps ==
    ASSUME FramingInv, OnEnd
    PROVE  FramingInv'
<1>1. /\ kind \in Sockets /\ fin /\ net = <<>> /\ ended' = TRUE
      /\ UNCHANGED <<kind, coder, sent, fin, cut, net, buf, closed, error, asked, late, state,
                     packet, thrown, short, decoded>>
  BY DEF OnEnd, chosen, writer, Sockets
<1>2. TypeOK'
  BY <1>1 DEF FramingInv, TypeOK
<1>3. Located'
  <2>1. \A s \in Seq(Nat), at \in Seq(Nat) :
          Stream(s, at) /\ (InStep => Follows(s, at)) => (InStep' => Follows(s, at)')
    BY <1>1 DEF InStep, Follows
  <2> QED  BY <1>1, <2>1, LocatedKept DEF FramingInv
<1>4. ConnInv' /\ ShortInv' /\ ClosedInv'
  BY <1>1 DEF FramingInv, ConnInv, ShortInv, ClosedInv, WritesAtOnce
<1>5. DecodedAsSent'
  BY <1>1, DecodedKept DEF FramingInv
<1>6. StopsOnlyWhen'
  BY <1>1, StopsKept DEF FramingInv
<1> QED  BY <1>1, <1>2, <1>3, <1>4, <1>5, <1>6 DEF FramingInv

LEMMA OnErrorKeeps ==
    ASSUME FramingInv, OnError
    PROVE  FramingInv'
<1>1. /\ kind = "nodeTcp" /\ ~fin /\ fin' = TRUE /\ cut' = TRUE /\ closed' = TRUE
      /\ net' = <<>> /\ buf' = <<>>
      /\ UNCHANGED <<kind, coder, sent, ended, asked, late, thrown, short, decoded>>
  BY DEF OnError, chosen
<1>2. \/ state \in Reading /\ state' = "failed" /\ packet' = <<>> /\ error' = error
      \/ error' = TRUE /\ state' = state /\ packet' = packet
  BY DEF OnError, Waits
<1>3. ~ended /\ ~cut /\ ~short
  BY <1>1 DEF FramingInv, ConnInv, ShortInv, TypeOK
<1>4. TypeOK'
  <2>1. /\ buf' \in Seq(Nat) /\ net' \in Seq(Nat) /\ packet' \in Seq(Nat)
        /\ error' \in BOOLEAN /\ fin' \in BOOLEAN /\ cut' \in BOOLEAN /\ closed' \in BOOLEAN
    <3>1. packet \in Seq(Nat) /\ error \in BOOLEAN
      BY DEF FramingInv, TypeOK
    <3>2. error' \in BOOLEAN /\ packet' \in Seq(Nat)
      BY <1>2, <3>1, Empty
    <3> QED  BY <1>1, <3>2, Empty
  <2>2. /\ state' \in Reading \cup {"busy", "ended", "failed"}
        /\ state' = "rest" => Len(packet') = 1
        /\ state' = "data" => Len(packet') = 3 /\ packet'[1] = DataID
        /\ state' \notin Reading \/ state' = "head" => packet' = <<>>
    BY <1>2 DEF FramingInv, TypeOK, Reading
  <2> QED  BY <1>1, <2>1, <2>2 DEF FramingInv, TypeOK
<1>5. Located'
  <2>1. ~InStep'
    BY <1>1 DEF InStep
  <2> QED  BY <1>1, <2>1, LocatedKept DEF FramingInv
<1>6. ConnInv' /\ ShortInv' /\ ClosedInv'
  BY <1>1, <1>2, <1>3 DEF FramingInv, ConnInv, ShortInv, ClosedInv, WritesAtOnce, Sockets
<1>7. DecodedAsSent'
  BY <1>1, DecodedKept DEF FramingInv
<1>8. StopsOnlyWhen'
  BY <1>1, <1>2, StopsKept DEF FramingInv
<1> QED  BY <1>1, <1>4, <1>5, <1>6, <1>7, <1>8 DEF FramingInv

LEMMA CloseKeeps ==
    ASSUME FramingInv, Close
    PROVE  FramingInv'
<1>1. /\ asked' = TRUE /\ closed' = TRUE
      /\ buf' = buf \/ (buf' = <<>> /\ kind \notin Sockets)
      /\ UNCHANGED <<kind, coder, sent, fin, cut, net, ended, error, late, state, packet,
                     thrown, short, decoded>>
  BY DEF Close, CloseConn, CloseWebsocket, CloseBrowser, CloseNodeWs, Destroy, chosen, writer, Sockets
<1>2. TypeOK'
  <2>1. buf' \in Seq(Nat) /\ asked' \in BOOLEAN /\ closed' \in BOOLEAN
    <3>1. buf \in Seq(Nat)
      BY DEF FramingInv, TypeOK
    <3>2. buf' \in Seq(Nat)
      BY <1>1, <3>1, Empty
    <3> QED  BY <1>1, <3>2
  <2> QED  BY <1>1, <2>1 DEF FramingInv, TypeOK
<1>3. Located'
  <2>1. \A s \in Seq(Nat), at \in Seq(Nat) :
          Stream(s, at) /\ (InStep => Follows(s, at)) => (InStep' => Follows(s, at)')
    <3>1. InStep' => InStep /\ kind = "go" /\ buf' = buf
      BY <1>1 DEF InStep, Sockets
    <3> QED  BY <1>1, <3>1 DEF Follows
  <2> QED  BY <1>1, <2>1, LocatedKept DEF FramingInv
<1>4. ConnInv' /\ ShortInv' /\ ClosedInv'
  BY <1>1 DEF FramingInv, ConnInv, ShortInv, ClosedInv, WritesAtOnce, Sockets
<1>5. DecodedAsSent'
  BY <1>1, DecodedKept DEF FramingInv
<1>6. StopsOnlyWhen'
  BY <1>1, StopsKept DEF FramingInv
<1> QED  BY <1>1, <1>2, <1>3, <1>4, <1>5, <1>6 DEF FramingInv

(* What the decoder asks for. *)
LEMMA WantedIs ==
    ASSUME TypeOK, state \in Reading
    PROVE  /\ Wanted \in Nat
           /\ state = "head" => Wanted = 1
           /\ state = "rest" => Wanted = IF packet[1] \in MessageIDs THEN Units4(packet[1]) ELSE 0
           /\ state = "rest" /\ packet[1] = DataID => Wanted = 2
           /\ state = "data" => Wanted = packet[3]
<1>1. /\ DOMAIN payloadSizes = MessageIDs /\ sizes = payloadSizes
      /\ \A id \in MessageIDs : Units4(id) \in 1 .. 4 /\ payloadSizes[id] \div 4 = Units4(id)
  BY OneTable, SizesAt DEF TypeOK
<1>2. Wanted = Asks(payloadSizes)
  BY <1>1, KindsAssumption DEF Wanted, TypeOK
<1>3. CASE state = "head"
  BY <1>2, <1>3 DEF Asks
<1>4. CASE state = "rest"
  <2>1. Wanted = IF packet[1] \in MessageIDs THEN Units4(packet[1]) ELSE 0
    BY <1>1, <1>2, <1>4 DEF Asks
  <2>2. Wanted \in Nat
    BY <1>1, <2>1
  <2>3. Units4(DataID) = 2 /\ DataID \in MessageIDs
    BY FieldsAt, Lengths, Ids, Zenon DEF Units4
  <2>4. packet[1] = DataID => Wanted = 2
    BY <2>1, <2>3
  <2> QED  BY <1>4, <2>1, <2>2, <2>4
<1>5. CASE state = "data"
  <2>1. packet \in Seq(Nat) /\ Len(packet) = 3
    BY <1>5 DEF TypeOK
  <2>2. packet[3] \in Nat
    <3>1. 3 \in 1 .. Len(packet)
      BY <2>1
    <3> QED  BY <2>1, <3>1, ElementOf
  <2> QED  BY <1>2, <1>5, <2>2 DEF Asks
<1> QED  BY <1>3, <1>4, <1>5 DEF Reading

(* At the end of the stream all has been decoded. *)
LEMMA DecodedAll ==
    ASSUME TypeOK, decoded \in Seq(Decodings), DecodedAsSent, ~GoReadShort,
           kind = "nodeTcp" => ~cut, NEW s \in Seq(Nat), NEW at \in Seq(Nat), Stream(s, at),
           Len(decoded) \in 0 .. Len(sent), Until(at, Len(decoded)) = Len(s)
    PROVE  decoded = sent
<1>1. Len(decoded) = Len(sent)
  BY AllOfIt
<1>2. \A i \in 1 .. Len(decoded) : decoded[i] = sent[i]
  BY DEF DecodedAsSent, FilledUp
<1> QED  BY <1>1, <1>2, SameSequence DEF TypeOK

(* A conn over a WebSocket keeps a read waiting only for units that have not come. *)
LEMMA Waiting ==
    ASSUME kind \notin Sockets, kind \in Kinds, ~closed, NEW len \in Nat, Read(len) = {}
    PROVE  ~(len <= Len(buf))
<1> SUFFICES ASSUME len <= Len(buf)  PROVE Read(len) # {}
  OBVIOUS
<1>1. CASE kind = "websocket"
  <2>1. Read(len) = ReadWebsocket(len)
    BY <1>1 DEF Read
  <2> QED  BY <2>1 DEF ReadWebsocket
<1>2. CASE kind = "browser"
  <2>1. Read(len) = ReadBrowser(len)
    BY <1>2 DEF Read
  <2> QED  BY <2>1 DEF ReadBrowser
<1>3. CASE kind = "nodeWs"
  <2>1. Read(len) = ReadNodeWs(len)
    BY <1>3 DEF Read
  <2> QED  BY <2>1 DEF ReadNodeWs
<1> QED  BY <1>1, <1>2, <1>3, KindsAssumption DEF Sockets

(* The conn closes in order: the decoder is not within a message, and has decoded all. *)
LEMMA ClosesInOrder ==
    ASSUME FramingInv, OnClose, ~cut, state # "failed"
    PROVE  /\ state \notin {"rest", "data"}
           /\ decoded = sent \/ (kind = "nodeWs" /\ state = "busy" /\ buf # <<>>)
<1>1. /\ kind \notin Sockets /\ kind \in Kinds /\ ~closed /\ net = <<>> /\ EventLoopFree
  BY DEF OnClose, CloseConn, CloseWebsocket, CloseBrowser, CloseNodeWs, Sockets, FramingInv, TypeOK
<1>2. ~short /\ state # "ended" /\ ~GoReadShort
  BY <1>1 DEF FramingInv, ShortInv, ClosedInv, Sockets, GoReadShort
<1>3. InStep
  BY <1>1, <1>2 DEF FramingInv, TypeOK, InStep
<1>4. PICK s \in Seq(Nat), at \in Seq(Nat) : Stream(s, at) /\ Follows(s, at)
  BY <1>3 DEF FramingInv, Located
<1>5. PICK p \in Nat, a \in Nat, b \in Nat, c \in Nat, z \in Nat :
        /\ p = Until(at, Len(decoded)) /\ a = Len(packet) /\ b = Len(buf)
        /\ c = Len(net) /\ z = Len(s) /\ Len(decoded) \in 0 .. Len(sent)
        /\ Piece(packet, s, p) /\ Piece(buf, s, p + a) /\ Piece(net, s, p + a + b)
        /\ p + a + b + c <= z /\ (~cut => p + a + b + c = z)
  BY <1>4, Positions DEF FramingInv
<1>6. c = 0 /\ p + a + b = z
  <2>1. c = 0
    BY <1>1, <1>5, Empty
  <2> QED  BY <1>5, <2>1
<1>7. state \in Reading => ~(Wanted <= b)
  <2>1. ASSUME state \in Reading  PROVE Wanted \in Nat /\ Read(Wanted) = {}
    BY <1>1, <2>1, WantedIs DEF FramingInv, EventLoopFree, Waits, Sockets
  <2> QED  BY <1>1, <1>5, <2>1, Waiting
<1>8. state \notin {"rest", "data"}
  <2> SUFFICES ASSUME state \in {"rest", "data"}  PROVE FALSE
    OBVIOUS
  <2>1. PICK m \in Messages : Within(s, at, m)
    BY <1>4, Midway DEF FramingInv
  <2>2. PICK l \in Nat : l = Len(Encoded(m))
    BY EncodedAs DEF FramingInv
  <2>3. Wanted \in Nat /\ a + Wanted <= l /\ p + l <= z
    BY <1>5, <2>1, <2>2 DEF Within
  <2>4. Wanted <= b
    BY <1>6, <2>3
  <2> QED  BY <1>7, <2>4 DEF Reading
<1>9. ASSUME buf = <<>>, packet = <<>>  PROVE decoded = sent
  <2>1. p = z
    <3>1. a = 0 /\ b = 0
      BY <1>5, <1>9, Empty
    <3> QED  BY <1>6, <3>1
  <2> QED  BY <1>2, <1>4, <1>5, <2>1, DecodedAll DEF FramingInv
<1>10. CASE state = "head"
  <2>1. packet = <<>>
    BY <1>10 DEF FramingInv, TypeOK
  <2>2. Wanted = 1
    BY <1>10, WantedIs DEF FramingInv, Reading
  <2>3. b = 0
    BY <1>7, <1>10, <2>2 DEF Reading
  <2>4. buf = <<>>
    <3>1. buf \in Seq(Nat) /\ Len(buf) = 0
      BY <1>5, <2>3 DEF FramingInv, TypeOK
    <3> QED  BY <3>1, EmptyIs
  <2> QED  BY <1>8, <1>9, <2>1, <2>4
<1>11. CASE state = "busy"
  <2>1. packet = <<>>
    BY <1>11 DEF FramingInv, TypeOK, Reading
  <2>2. kind = "nodeWs"
    BY <1>1, <1>11, KindsAssumption DEF FramingInv, ConnInv, WritesAtOnce, Sockets
  <2> QED  BY <1>8, <1>9, <1>11, <2>1, <2>2
<1> QED  BY <1>2, <1>8, <1>10, <1>11 DEF FramingInv, TypeOK, Reading

LEMMA OnCloseKeeps ==
    ASSUME FramingInv, OnClose
    PROVE  FramingInv'
<1>1. /\ kind \notin Sockets /\ ~closed /\ closed' = TRUE /\ fin /\ net = <<>>
      /\ buf' = buf \/ buf' = <<>>
      /\ late' = (state = "busy" /\ buf # <<>>)
      /\ UNCHANGED <<kind, coder, sent, fin, cut, net, ended, error, asked, state, packet,
                     thrown, short, decoded>>
  BY DEF OnClose, CloseConn, CloseWebsocket, CloseBrowser, CloseNodeWs, chosen, writer, Sockets
<1>2. TypeOK'
  <2>1. buf' \in Seq(Nat)
    BY <1>1, Empty DEF FramingInv, TypeOK
  <2>2. late' \in BOOLEAN /\ closed' \in BOOLEAN
    BY <1>1
  <2> QED  BY <1>1, <2>1, <2>2 DEF FramingInv, TypeOK
<1>3. Located'
  <2>1. ~InStep'
    BY <1>1 DEF InStep, Sockets
  <2> QED  BY <1>1, <2>1, LocatedKept DEF FramingInv
<1>4. ConnInv' /\ ShortInv'
  BY <1>1 DEF FramingInv, ConnInv, ShortInv, WritesAtOnce, Sockets
<1>5. ~cut /\ state # "failed" =>
        state \notin {"rest", "data"} /\ (decoded = sent \/ (kind = "nodeWs" /\ late'))
  BY <1>1, ClosesInOrder
<1>6. state # "ended"
  BY <1>1 DEF FramingInv, ClosedInv
<1>7. ClosedInv'
  BY <1>1, <1>5, <1>6 DEF ClosedInv
<1>8. DecodedAsSent'
  BY <1>1, DecodedKept DEF FramingInv
<1>9. StopsOnlyWhen'
  <2>1. FailsOnlyWhen'
    BY <1>1 DEF FramingInv, StopsOnlyWhen, FailsOnlyWhen, EmptyDataMatters, GoReadShort
  <2>2. EndLosesNothing'
    BY <1>1, <1>6 DEF EndLosesNothing
  <2> QED  BY <2>1, <2>2 DEF StopsOnlyWhen
<1> QED  BY <1>1, <1>2, <1>3, <1>4, <1>7, <1>8, <1>9 DEF FramingInv

-----------------------------------------------------------------------------
(* The decoder *)

(* What decode does with what a read has returned. *)
DecodesWith(r) ==
    LET next == ReadPacket(r) IN
    /\ buf' = r.left
    /\ IF next.state = "whole"
       THEN /\ packet' = <<>>
            /\ IF Decodable(FieldsRead, next.packet)
               THEN LET m == MessageOf(FieldsRead, next.packet) IN
                    /\ decoded' = Append(decoded, m)
                    /\ state' = IF AwaitsAnswer(m) THEN "busy" ELSE "head"
               ELSE state' = "failed" /\ UNCHANGED decoded
       ELSE state' = next.state /\ packet' = next.packet /\ UNCHANGED decoded
    /\ short' = (short \/ (r.is = "units" /\ Len(buf) - Len(r.left) < Wanted))

RestUnchanged ==
    /\ error' = FALSE
    /\ UNCHANGED <<kind, coder, sent, fin, cut, net, closed, ended, asked, late, thrown>>

LEMMA DecodeStepIs ==
    ASSUME DecodeStep
    PROVE  /\ state \in Reading /\ RestUnchanged
           /\ \E r \in Read(Wanted) : DecodesWith(r)
  BY DEF DecodeStep, DecodesWith, RestUnchanged, chosen, writer

(* No units: the decoder stops. *)
LEMMA NextOfEnd ==
    ASSUME kind \in Kinds, NEW r, r = End \/ (r = Rejected /\ kind = "nodeTcp")
    PROVE  ReadPacket(r) = IF r = End /\ state = "head" THEN Stands("ended", <<>>) ELSE Fails
<1>1. End.is = "end" /\ Rejected.is = "rejected"
  BY DEF End, Rejected
<1>2. CASE kind = "websocket"
  BY <1>1, <1>2 DEF ReadPacket, ReadPacketTs
<1>3. CASE kind = "browser" \/ kind = "nodeWs" \/ kind = "nodeTcp"
  <2>1. ReadPacket(r) = ReadPacketQmux(r)
    BY <1>3 DEF ReadPacket
  <2> QED  BY <1>1, <2>1 DEF ReadPacketQmux
<1>4. CASE kind = "go"
  <2>1. ReadPacket(r) = ReadPacketGo(r)
    BY <1>4 DEF ReadPacket
  <2> QED  BY <1>1, <1>4, <2>1 DEF ReadPacketGo
<1> QED  BY <1>2, <1>3, <1>4, KindsAssumption

(* Where a decoder stands after some units, and with what. *)
LEMMA NextOfUnits ==
    ASSUME kind \in Kinds, NEW r, r.is = "units"
    PROVE  LET next == ReadPacket(r) IN
           /\ state = "head" =>
                /\ next \in {Stands("rest", r.units), Fails}
                /\ r.units[1] \in MessageIDs => next = Stands("rest", r.units)
           /\ state = "rest" /\ packet[1] = DataID =>
                /\ next \in {Stands("data", packet \o r.units), Fails}
                /\ ~(Len(r.units) < 2) => next = Stands("data", packet \o r.units)
                /\ Len(r.units) < 2 /\ kind = "nodeTcp" => next = Fails
           /\ state = "rest" /\ packet[1] # DataID => next = Stands("whole", packet \o r.units)
           /\ state = "data" =>
                next \in {Stands("whole", packet \o r.units), Fails}
                \/ next = Stands("whole", packet \o r.units \o [i \in 1 .. packet[3] - Len(r.units) |-> 0])
           /\ state = "data" /\ kind = "websocket" =>
                next = IF Len(r.units) > packet[3] THEN Fails
                       ELSE Stands("whole", packet \o r.units)
           /\ state = "data" /\ kind = "go" => next = Stands("whole", packet \o r.units)
           /\ state = "data" /\ kind \notin {"websocket", "go"} =>
                next = Stands("whole", packet \o r.units \o [i \in 1 .. packet[3] - Len(r.units) |-> 0])
<1>1. DOMAIN payloadSizes = MessageIDs
  BY DEF payloadSizes, Table
<1>2. CASE kind = "websocket"
  <2>1. ReadPacket(r) = ReadPacketTs(r)
    BY <1>2 DEF ReadPacket
  <2> QED  BY <1>1, <1>2, <2>1 DEF ReadPacketTs
<1>3. CASE kind = "browser" \/ kind = "nodeWs" \/ kind = "nodeTcp"
  <2>1. ReadPacket(r) = ReadPacketQmux(r)
    BY <1>3 DEF ReadPacket
  <2> QED  BY <1>3, <2>1 DEF ReadPacketQmux
<1>4. CASE kind = "go"
  <2>1. ReadPacket(r) = ReadPacketGo(r)
    BY <1>4 DEF ReadPacket
  <2> QED  BY <1>4, <2>1 DEF ReadPacketGo
<1> QED  BY <1>2, <1>3, <1>4, KindsAssumption

(* A stage has a packet of its length. *)
Staged(next) ==
    /\ next.state \in {"ended", "failed", "rest", "data", "whole"} /\ next.packet \in Seq(Nat)
    /\ next.state \in {"ended", "failed"} => next.packet = <<>>
    /\ next.state = "rest" => Len(next.packet) = 1
    /\ next.state = "data" => Len(next.packet) = 3 /\ next.packet[1] = DataID

LEMMA StandsIs == \A where, p : Stands(where, p).state = where /\ Stands(where, p).packet = p
  BY DEF Stands

LEMMA StagedOne ==
    ASSUME NEW where \in {"ended", "failed", "rest", "data", "whole"}, NEW q \in Seq(Nat),
           where \in {"ended", "failed"} => q = <<>>, where = "rest" => Len(q) = 1,
           where = "data" => Len(q) = 3 /\ q[1] = DataID
    PROVE  Staged(Stands(where, q))
<1>1. PICK next : next = Stands(where, q)
  OBVIOUS
<1>2. next.state = where /\ next.packet = q
  BY <1>1, StandsIs, Zenon
<1>3. Staged(next)
  BY <1>2 DEF Staged
<1> QED  BY <1>1, <1>3, Zenon

LEMMA StagedEnds ==
    /\ Staged(Fails) /\ Fails.state = "failed" /\ Fails.packet = <<>>
    /\ Staged(Stands("ended", <<>>))
<1>1. Staged(Stands("failed", <<>>)) /\ Staged(Stands("ended", <<>>))
  BY StagedOne, Empty
<1> QED  BY <1>1, StandsIs, Zenon DEF Fails

(* A stage that some units lead to. *)
Goes(next) == Staged(next) /\ next.state # "ended"

LEMMA GoesOne ==
    ASSUME NEW where \in {"rest", "data", "whole"}, NEW q \in Seq(Nat),
           where = "rest" => Len(q) = 1, where = "data" => Len(q) = 3 /\ q[1] = DataID
    PROVE  Goes(Stands(where, q))
<1>1. Staged(Stands(where, q))
  BY StagedOne
<1>2. Stands(where, q).state = where
  BY StandsIs, Zenon
<1> QED  BY <1>1, <1>2 DEF Goes

LEMMA FailsGoes == Goes(Fails)
  BY StagedEnds DEF Goes

(* The stage after some units. *)
LEMMA StagesOfUnits ==
    ASSUME TypeOK, state \in Reading, NEW r, NEW n \in 0 .. Len(buf), Returned(r, n, Wanted)
    PROVE  Goes(ReadPacket(r))
<1>1. /\ r.is = "units" /\ r.units \in Seq(Nat)
      /\ Full(r, n, Wanted) \/ Over(r, n, Wanted) \/ Under(r, n, Wanted) \/ Padded(r, n, Wanted)
  BY DEF Returned, Taken
<1>2. PICK u \in Seq(Nat) : u = r.units
  BY <1>1
<1>3. PICK q \in Seq(Nat) : q = packet \o u
  BY Joined DEF TypeOK
<1>4. /\ Len(q) = Len(packet) + Len(u)
      /\ \A i \in 1 .. Len(packet) : q[i] = packet[i]
  BY <1>3, Joined DEF TypeOK
<1>5. CASE state = "head"
  <2>1. Wanted = 1
    BY <1>5, WantedIs
  <2>2. Len(u) = 1
    BY <1>1, <1>2, <2>1 DEF Full, Over, Under, Padded
  <2>3. ReadPacket(r) \in {Stands("rest", u), Fails}
    BY <1>1, <1>2, <1>5, NextOfUnits DEF TypeOK
  <2>4. Goes(Stands("rest", u))
    BY <2>2, GoesOne
  <2> QED  BY <2>3, <2>4, FailsGoes
<1>6. CASE state = "rest" /\ packet[1] = DataID
  <2>1. Wanted = 2 /\ Len(packet) = 1
    BY <1>6, WantedIs DEF TypeOK
  <2>2. CASE Len(u) < 2
    <3>1. kind = "nodeTcp"
      <4>1. Len(u) = Wanted \/ Wanted = 0 \/ kind = "nodeTcp"
        BY <1>1, <1>2 DEF Full, Over, Under, Padded
      <4> QED  BY <2>1, <2>2, <4>1
    <3>2. ReadPacket(r) = Fails
      BY <1>1, <1>2, <1>6, <2>2, <3>1, NextOfUnits DEF TypeOK
    <3> QED  BY <3>2, FailsGoes
  <2>3. CASE ~(Len(u) < 2)
    <3>1. Len(u) = 2
      BY <1>1, <1>2, <2>1, <2>3 DEF Full, Over, Under, Padded
    <3>2. ReadPacket(r) = Stands("data", q)
      BY <1>1, <1>2, <1>3, <1>6, <2>3, NextOfUnits DEF TypeOK
    <3>3. Len(q) = 3 /\ q[1] = DataID
      <4>1. 1 \in 1 .. Len(packet)
        BY <2>1
      <4> QED  BY <1>4, <1>6, <2>1, <3>1, <4>1
    <3>4. Goes(Stands("data", q))
      BY <3>3, GoesOne
    <3> QED  BY <3>2, <3>4
  <2> QED  BY <2>2, <2>3
<1>7. Goes(Stands("whole", q))
  BY GoesOne
<1>8. CASE state = "rest" /\ packet[1] # DataID
  <2>1. ReadPacket(r) = Stands("whole", q)
    BY <1>1, <1>2, <1>3, <1>8, NextOfUnits DEF TypeOK
  <2> QED  BY <1>7, <2>1
<1>9. CASE state = "data"
  <2>1. packet[3] \in Nat /\ Len(u) \in Nat
    BY <1>9, WantedIs
  <2>2. PICK z \in Seq(Nat) : z = [i \in 1 .. packet[3] - Len(u) |-> 0]
    BY <2>1, ZerosAny
  <2>3. PICK o \in Seq(Nat) : o = q \o z
    BY Joined
  <2>4. ReadPacket(r) \in {Stands("whole", q), Fails} \/ ReadPacket(r) = Stands("whole", o)
    <3>1. /\ packet \o r.units = q
          /\ packet \o r.units \o [i \in 1 .. packet[3] - Len(r.units) |-> 0] = o
      BY <1>2, <1>3, <2>2, <2>3, Zenon
    <3> QED  BY <1>1, <1>9, <3>1, NextOfUnits DEF TypeOK
  <2>5. Goes(Stands("whole", o))
    BY GoesOne
  <2> QED  BY <1>7, <2>4, <2>5, FailsGoes
<1> QED  BY <1>5, <1>6, <1>8, <1>9 DEF Reading

LEMMA Stages ==
    ASSUME TypeOK, state \in Reading, NEW r \in Read(Wanted)
    PROVE  Staged(ReadPacket(r))
<1>1. \/ r = Rejected /\ error /\ kind = "nodeTcp"
      \/ /\ r = End /\ (kind = "go" => Wanted > 0)
         /\ closed \/ (ended /\ buf = <<>> /\ kind \in Sockets)
      \/ \E n \in 0 .. Len(buf) : Returned(r, n, Wanted)
  BY WantedIs, Reads DEF TypeOK
<1>2. CASE r = End \/ (r = Rejected /\ kind = "nodeTcp")
  <2>1. ReadPacket(r) = IF r = End /\ state = "head" THEN Stands("ended", <<>>) ELSE Fails
    BY <1>2, NextOfEnd DEF TypeOK
  <2> QED  BY <2>1, StagedEnds
<1> QED  BY <1>1, <1>2, StagesOfUnits DEF Goes

(* What is decoded of any units has the number that they begin with. *)
LEMMA DecodedIs ==
    ASSUME TypeOK, NEW p \in Seq(Nat), Decodable(FieldsRead, p)
    PROVE  /\ MessageOf(FieldsRead, p) \in Decodings
           /\ MessageOf(FieldsRead, p).ID \in MessageIDs
<1>1. FieldsRead = Fields /\ DOMAIN Fields = MessageIDs
  BY OneTable DEF TypeOK
<1>2. UnmarshalFields = Fields
  BY DEF Fields, MarshalFields, UnmarshalFields
<1>3. p[1] \in MessageIDs
  BY <1>1 DEF Decodable
<1>4. MessageOf(Fields, p).ID = p[1]
  BY DEF MessageOf
<1>5. MessageOf(Fields, p) \in Decodings
  BY <1>2 DEF Decodings
<1> QED  BY <1>1, <1>3, <1>4, <1>5

LEMMA DecodeStepTyped ==
    ASSUME FramingInv, DecodeStep
    PROVE  TypeOK' /\ decoded' \in Seq(Decodings)
<1>1. state \in Reading /\ RestUnchanged /\ TypeOK
  BY DecodeStepIs DEF FramingInv
<1>2. PICK r \in Read(Wanted) : DecodesWith(r)
  BY DecodeStepIs
<1>3. Staged(ReadPacket(r))
  BY <1>1, <1>2, Stages
<1>4. buf' \in Seq(Nat)
  <2>1. \/ r = Rejected /\ error /\ kind = "nodeTcp"
        \/ /\ r = End /\ (kind = "go" => Wanted > 0)
           /\ closed \/ (ended /\ buf = <<>> /\ kind \in Sockets)
        \/ \E n \in 0 .. Len(buf) : Returned(r, n, Wanted)
    BY <1>1, WantedIs, Reads DEF TypeOK
  <2>2. buf \in Seq(Nat) /\ buf' = r.left
    BY <1>1, <1>2 DEF TypeOK, DecodesWith
  <2>3. ASSUME NEW n \in 0 .. Len(buf), Returned(r, n, Wanted)  PROVE buf' \in Seq(Nat)
    <3>1. SubSeq(buf, n + 1, Len(buf)) \in Seq(Nat)
      BY <2>2, Parted
    <3>2. buf' = SubSeq(buf, n + 1, Len(buf))
      BY <2>2, <2>3 DEF Returned, Taken
    <3> QED  BY <3>1, <3>2, Zenon
  <2>4. r = Rejected \/ r = End => r.left = <<>>
    BY DEF Rejected, End
  <2> QED  BY <2>1, <2>2, <2>3, <2>4, Empty
<1>5. /\ packet' \in Seq(Nat) /\ state' \in Reading \cup {"busy", "ended", "failed"}
      /\ state' = "rest" => Len(packet') = 1
      /\ state' = "data" => Len(packet') = 3 /\ packet'[1] = DataID
      /\ state' \notin Reading \/ state' = "head" => packet' = <<>>
  BY <1>2, <1>3, Empty DEF DecodesWith, Staged, Reading
<1>6. decoded' \in Seq(Decodings) /\ \A i \in DOMAIN decoded' : decoded'[i].ID \in MessageIDs
  <2>1. decoded \in Seq(Decodings) /\ \A i \in DOMAIN decoded : decoded[i].ID \in MessageIDs
    BY DEF FramingInv, TypeOK
  <2>2. CASE decoded' = decoded
    BY <2>1, <2>2
  <2>3. ASSUME NEW p \in Seq(Nat), Decodable(FieldsRead, p),
               decoded' = Append(decoded, MessageOf(FieldsRead, p))
        PROVE  decoded' \in Seq(Decodings) /\ \A i \in DOMAIN decoded' : decoded'[i].ID \in MessageIDs
    <3>1. PICK m \in Decodings : m = MessageOf(FieldsRead, p) /\ m.ID \in MessageIDs
      BY <1>1, <2>3, DecodedIs
    <3>2. /\ Append(decoded, m) \in Seq(Decodings) /\ Len(Append(decoded, m)) = Len(decoded) + 1
          /\ Append(decoded, m)[Len(decoded) + 1] = m
          /\ \A i \in 1 .. Len(decoded) : Append(decoded, m)[i] = decoded[i]
      BY <2>1, OneMore
    <3>3. ASSUME NEW i \in 1 .. Len(decoded) + 1  PROVE decoded'[i].ID \in MessageIDs
      <4>1. CASE i = Len(decoded) + 1
        BY <2>3, <3>1, <3>2, <4>1
      <4>2. CASE i # Len(decoded) + 1
        <5>1. i \in 1 .. Len(decoded)
          BY <2>1, <4>2
        <5> QED  BY <2>1, <2>3, <3>1, <3>2, <5>1
      <4> QED  BY <4>1, <4>2
    <3>4. decoded' \in Seq(Decodings) /\ Len(decoded') = Len(decoded) + 1
      BY <2>3, <3>1, <3>2
    <3> QED  BY <3>3, <3>4
  <2> QED  BY <1>2, <1>3, <2>2, <2>3 DEF DecodesWith, Staged
<1>7. short' \in BOOLEAN
  BY <1>2 DEF DecodesWith
<1>8. /\ kind' \in Kinds /\ coder' \in Coders /\ sent' \in Seq(Messages)
      /\ Len(sent') <= MaxMessages /\ net' \in Seq(Nat)
      /\ {fin, cut, closed, ended, error, asked, late, thrown}' \subseteq BOOLEAN
  BY <1>1 DEF RestUnchanged, TypeOK
<1> QED  BY <1>4, <1>5, <1>6, <1>7, <1>8 DEF TypeOK

-----------------------------------------------------------------------------
(* The decoder at the end of the connection *)

(* A read that returns nothing tells of the end, or of an error. *)
Stopping(r) ==
    \/ r = Rejected /\ error /\ kind = "nodeTcp"
    \/ /\ r = End /\ (kind = "go" => Wanted > 0)
       /\ closed \/ (ended /\ buf = <<>> /\ kind \in Sockets)

LEMMA StoppingIs ==
    ASSUME TypeOK, NEW r, Stopping(r), DecodesWith(r)
    PROVE  /\ state' = IF r = End /\ state = "head" THEN "ended" ELSE "failed"
           /\ packet' = <<>> /\ buf' = <<>> /\ short' = short /\ decoded' = decoded
<1>1. PICK next : next = ReadPacket(r)
  OBVIOUS
<1>2. next = IF r = End /\ state = "head" THEN Stands("ended", <<>>) ELSE Fails
  BY <1>1, NextOfEnd DEF Stopping, TypeOK
<1>3. /\ next.state = IF r = End /\ state = "head" THEN "ended" ELSE "failed"
      /\ next.packet = <<>>
  BY <1>2, StandsIs, StagedEnds
<1>4. r.left = <<>> /\ r.is # "units"
  BY DEF Stopping, End, Rejected
<1>5. buf' = r.left /\ short' = (short \/ (r.is = "units" /\ Len(buf) - Len(r.left) < Wanted))
  BY DEF DecodesWith
<1>6. short' = short
  BY <1>4, <1>5 DEF TypeOK
<1>7. next.state # "whole" => state' = next.state /\ packet' = next.packet /\ decoded' = decoded
  BY <1>1 DEF DecodesWith
<1> QED  BY <1>3, <1>4, <1>5, <1>6, <1>7

(* A stop within a message has its reason. *)
LEMMA StopsWithin ==
    ASSUME FramingInv, state \in Reading, NEW r, Stopping(r), ~(r = End /\ state = "head")
    PROVE  cut \/ asked \/ EmptyDataMatters \/ GoReadShort
<1> SUFFICES ASSUME ~cut, ~asked, ~GoReadShort  PROVE EmptyDataMatters
  OBVIOUS
<1>1. TypeOK /\ decoded \in Seq(Decodings) /\ Located /\ ConnInv /\ ShortInv /\ ClosedInv
  BY DEF FramingInv
<1>2. r = End /\ (kind = "go" => Wanted > 0) /\ state \in {"rest", "data"}
  BY <1>1 DEF Stopping, ConnInv, Reading
<1>3. ~closed
  BY <1>1, <1>2 DEF ConnInv, ClosedInv
<1>4. ended /\ buf = <<>> /\ kind \in Sockets /\ net = <<>>
  BY <1>1, <1>2, <1>3 DEF Stopping, ConnInv, End, Rejected
<1>5. InStep
  BY <1>1, <1>3, <1>4 DEF InStep, ShortInv, GoReadShort, Sockets
<1>6. PICK s \in Seq(Nat), at \in Seq(Nat) : Stream(s, at) /\ Follows(s, at)
  BY <1>1, <1>5 DEF Located
<1>7. PICK m \in Messages : Within(s, at, m)
  BY <1>1, <1>2, <1>6, Midway
<1>8. PICK p \in Nat, a \in Nat, b \in Nat, c \in Nat, z \in Nat :
        /\ p = Until(at, Len(decoded)) /\ a = Len(packet) /\ b = Len(buf)
        /\ c = Len(net) /\ z = Len(s) /\ p + a + b + c = z
  BY <1>1, <1>6, Positions
<1>9. b = 0 /\ c = 0
  BY <1>4, <1>8, Empty
<1>10. PICK l \in Nat : l = Len(Encoded(m))
  BY <1>1, EncodedAs
<1>11. /\ p + l <= z /\ a + Wanted <= l /\ Wanted \in Nat
       /\ Len(decoded) + 1 \in 1 .. Len(sent) /\ m = sent[Len(decoded) + 1]
       /\ state = "rest" => Wanted = Units4(m.ID) /\ m.ID \in MessageIDs
       /\ state = "data" => Wanted = m.length /\ m.ID = DataID
  BY <1>7, <1>8, <1>10 DEF Within
<1>12. Wanted = 0
  BY <1>8, <1>9, <1>11
<1>13. state = "data"
  BY <1>2, <1>11, <1>12, SizesAt
<1>14. kind = "nodeTcp"
  BY <1>2, <1>4, <1>12 DEF Sockets
<1>15. Len(decoded) + 1 \in DOMAIN sent
  BY <1>1, <1>11 DEF TypeOK
<1> QED  BY <1>11, <1>12, <1>13, <1>14, <1>15 DEF EmptyDataMatters, IsEmptyData

(* A stop between two messages comes when all have been decoded. *)
LEMMA StopsBetween ==
    ASSUME FramingInv, state = "head", NEW r, r = End, Stopping(r), ~cut, ~asked, ~GoReadShort
    PROVE  decoded = sent \/ (kind = "nodeWs" /\ late)
<1>1. /\ TypeOK /\ decoded \in Seq(Decodings) /\ Located /\ ConnInv /\ ShortInv /\ ClosedInv
      /\ DecodedAsSent
  BY DEF FramingInv
<1>2. closed \/ (ended /\ buf = <<>> /\ kind \in Sockets)
  BY DEF Stopping, End, Rejected
<1>3. CASE closed
  BY <1>1, <1>3 DEF ConnInv, ClosedInv
<1>4. CASE ~closed
  <2>1. ended /\ buf = <<>> /\ kind \in Sockets /\ net = <<>>
    BY <1>1, <1>2, <1>4 DEF ConnInv
  <2>2. InStep
    BY <1>1, <1>4, <2>1 DEF InStep, ShortInv, GoReadShort, Sockets, Reading
  <2>3. PICK s \in Seq(Nat), at \in Seq(Nat) : Stream(s, at) /\ Follows(s, at)
    BY <1>1, <2>2 DEF Located
  <2>4. PICK p \in Nat, a \in Nat, b \in Nat, c \in Nat, z \in Nat :
          /\ p = Until(at, Len(decoded)) /\ a = Len(packet) /\ b = Len(buf)
          /\ c = Len(net) /\ z = Len(s) /\ Len(decoded) \in 0 .. Len(sent)
          /\ p + a + b + c = z
    BY <1>1, <2>3, Positions
  <2>5. packet = <<>>
    BY <1>1 DEF TypeOK
  <2>6. a = 0 /\ b = 0 /\ c = 0
    BY <2>1, <2>4, <2>5, Empty
  <2>7. Until(at, Len(decoded)) = Len(s)
    BY <2>4, <2>6
  <2> QED  BY <1>1, <2>3, <2>4, <2>7, DecodedAll
<1> QED  BY <1>3, <1>4

LEMMA StoppingKeeps ==
    ASSUME FramingInv, DecodeStep, state \in Reading, RestUnchanged,
           NEW r, Stopping(r), DecodesWith(r)
    PROVE  FramingInv'
<1>1. /\ TypeOK /\ Located /\ ConnInv /\ ShortInv /\ ClosedInv /\ DecodedAsSent /\ StopsOnlyWhen
  BY DEF FramingInv
<1>2. /\ state' = IF r = End /\ state = "head" THEN "ended" ELSE "failed"
      /\ packet' = <<>> /\ buf' = <<>> /\ short' = short /\ decoded' = decoded
  BY <1>1, StoppingIs
<1>3. /\ error' = FALSE
      /\ UNCHANGED <<kind, coder, sent, fin, cut, net, closed, ended, asked, late, thrown>>
  BY DEF RestUnchanged
<1>4. TypeOK' /\ decoded' \in Seq(Decodings)
  BY DecodeStepTyped
<1>5. Located'
  <2>1. ~InStep'
    BY <1>2 DEF InStep, Reading
  <2> QED  BY <1>1, <1>3, <2>1, LocatedKept
<1>6. ConnInv'
  BY <1>1, <1>2, <1>3 DEF ConnInv, WritesAtOnce
<1>7. ShortInv'
  BY <1>1, <1>2, <1>3 DEF ShortInv
<1>8. ClosedInv'
  <2>1. closed' /\ ~asked' /\ ~cut' /\ kind' \notin Sockets /\ state' # "failed" =>
          decoded' = sent' \/ (kind' = "nodeWs" /\ late')
    BY <1>1, <1>2, <1>3 DEF ClosedInv
  <2>2. state' = "ended" => (asked' \/ fin') /\ (kind' \notin Sockets => closed')
    <3> SUFFICES ASSUME state' = "ended"  PROVE (asked \/ fin) /\ (kind \notin Sockets => closed)
      BY <1>3
    <3>1. closed \/ (ended /\ kind \in Sockets)
      BY <1>2 DEF Stopping, End, Rejected
    <3> QED  BY <1>1, <3>1 DEF ConnInv
  <2>3. state' \notin {"rest", "data"}
    BY <1>2
  <2> QED  BY <2>1, <2>2, <2>3 DEF ClosedInv
<1>9. DecodedAsSent'
  BY <1>1, <1>2, <1>3, DecodedKept
<1>10. StopsOnlyWhen'
  <2>1. (EmptyDataMatters => EmptyDataMatters') /\ (GoReadShort => GoReadShort')
    BY <1>2, <1>3 DEF EmptyDataMatters, GoReadShort
  <2>2. FailsOnlyWhen'
    <3>1. state' = "failed" => cut \/ asked \/ EmptyDataMatters \/ GoReadShort
      BY <1>2, StopsWithin
    <3> QED  BY <1>1, <1>3, <2>1, <3>1 DEF StopsOnlyWhen, FailsOnlyWhen
  <2>3. EndLosesNothing'
    <3> SUFFICES ASSUME state' = "ended", ~cut, ~asked, ~GoReadShort
                 PROVE  decoded = sent \/ (kind = "nodeWs" /\ late)
      BY <1>2, <1>3, <2>1 DEF EndLosesNothing
    <3>1. r = End /\ state = "head"
      BY <1>2
    <3> QED  BY <3>1, StopsBetween
  <2> QED  BY <2>2, <2>3 DEF StopsOnlyWhen
<1> QED  BY <1>4, <1>5, <1>6, <1>7, <1>8, <1>9, <1>10 DEF FramingInv

-----------------------------------------------------------------------------
(* The decoder and what it has read *)

(* n units were taken for the packet of a message e that lies at p. *)
TakenFrom(s, e, p, r, n, u, q) ==
    /\ packet \in Seq(Nat) /\ buf \in Seq(Nat) /\ s \in Seq(Nat) /\ e \in Seq(Nat)
    /\ p \in Nat /\ n \in 0 .. Len(buf) /\ Taken(r, n)
    /\ Piece(e, s, p) /\ Piece(packet, s, p) /\ Piece(buf, s, p + Len(packet))
    /\ Len(packet) + n <= Len(e) /\ u \in Seq(Nat) /\ u = r.units
    /\ q \in Seq(Nat) /\ q = packet \o u

(* The units that are taken are the next ones of the message. *)
LEMMA UnitsMeant ==
    ASSUME NEW s, NEW e, NEW p, NEW r, NEW n, NEW u, NEW q, TakenFrom(s, e, p, r, n, u, q)
    PROVE  \A i \in 1 .. Len(packet) + n : q[i] = e[i]
<1>1. /\ packet \in Seq(Nat) /\ buf \in Seq(Nat) /\ s \in Seq(Nat) /\ e \in Seq(Nat)
      /\ p \in Nat /\ n \in 0 .. Len(buf) /\ Taken(r, n)
      /\ Piece(e, s, p) /\ Piece(packet, s, p) /\ Piece(buf, s, p + Len(packet))
      /\ Len(packet) + n <= Len(e) /\ u \in Seq(Nat) /\ u = r.units
      /\ q \in Seq(Nat) /\ q = packet \o u
  BY DEF TakenFrom
<1>2. PICK a \in Nat, l \in Nat, k \in Nat : a = Len(packet) /\ l = Len(e) /\ k = Len(u)
  BY <1>1
<1>3. p \in Nat /\ n \in Nat /\ a + n <= l /\ n <= k
  BY <1>1, <1>2 DEF Taken
<1>4. /\ \A i \in 1 .. a : q[i] = packet[i]
      /\ \A i \in 1 .. k : q[a + i] = u[i]
  <2>1. PICK x \in Seq(Nat) : x = packet
    BY <1>1
  <2>2. PICK y \in Seq(Nat) : y = u
    BY <1>1
  <2>3. /\ \A i \in 1 .. Len(x) : (x \o y)[i] = x[i]
        /\ \A i \in 1 .. Len(y) : (x \o y)[Len(x) + i] = y[i]
    BY Joined
  <2>4. q = packet \o u
    BY <1>1
  <2> QED  BY <1>2, <2>1, <2>2, <2>3, <2>4, Zenon
<1>5. \A i \in 1 .. n : u[i] = buf[i] /\ i \in 1 .. Len(buf)
  BY <1>1 DEF Taken
<1>6. /\ \A i \in 1 .. l : e[i] = s[p + i]
      /\ \A i \in 1 .. a : packet[i] = s[p + i]
      /\ \A i \in 1 .. Len(buf) : buf[i] = s[p + a + i]
  BY <1>1, <1>2 DEF Piece
<1>7. ASSUME NEW i \in 1 .. a + n  PROVE q[i] = e[i]
  <2>1. CASE i <= a
    <3>1. i \in 1 .. a /\ i \in 1 .. l
      BY <1>2, <1>3, <2>1
    <3> QED  BY <1>4, <1>6, <3>1
  <2>2. CASE ~(i <= a)
    <3>1. PICK j \in 1 .. n : i = a + j
      <4>1. i - a \in 1 .. n /\ i = a + (i - a)
        BY <1>3, <2>2
      <4> QED  BY <4>1
    <3>2. j \in 1 .. k /\ i \in 1 .. l /\ p + i = p + a + j
      BY <1>3, <3>1
    <3>3. q[i] = u[j]
      BY <1>4, <3>1, <3>2
    <3>4. u[j] = s[p + a + j]
      BY <1>5, <1>6
    <3>5. e[i] = s[p + i]
      BY <1>6, <3>2
    <3> QED  BY <3>2, <3>3, <3>4, <3>5
  <2> QED  BY <2>1, <2>2
<1> QED  BY <1>2, <1>7

(* What is left of the buffer goes on where the units that were taken end. *)
LEMMA LeftIs ==
    ASSUME buf \in Seq(Nat), NEW r, NEW n \in 0 .. Len(buf), Taken(r, n), buf' = r.left,
           NEW s, NEW w \in Nat, Piece(buf, s, w)
    PROVE  buf' \in Seq(Nat) /\ Len(buf') = Len(buf) - n /\ Piece(buf', s, w + n)
<1>1. PICK g \in Seq(Nat) : /\ g = SubSeq(buf, n + 1, Len(buf)) /\ Len(g) = Len(buf) - n
                            /\ Piece(g, s, w + n)
  <2>1. /\ SubSeq(buf, n + 1, Len(buf)) \in Seq(Nat)
        /\ Len(SubSeq(buf, n + 1, Len(buf))) = Len(buf) - n
    BY Parted
  <2>2. Piece(SubSeq(buf, n + 1, Len(buf)), s, w + n)
    BY PieceParted
  <2> QED  BY <2>1, <2>2, Zenon
<1>2. buf' = g
  BY <1>1 DEF Taken
<1>3. Piece(buf', s, w + n) <=> Piece(g, s, w + n)
  BY <1>2 DEF Piece
<1> QED  BY <1>1, <1>2, <1>3

(* A part of a message is read. *)
LEMMA PartFollows ==
    ASSUME TypeOK, NEW s \in Seq(Nat), NEW at \in Seq(Nat), Stream(s, at), Follows(s, at),
           RestUnchanged, NEW r, NEW n \in 0 .. Len(buf), Taken(r, n), Len(r.units) = n,
           buf' = r.left, decoded' = decoded, NEW u \in Seq(Nat), u = r.units,
           packet' = packet \o u
    PROVE  Follows(s, at)'
<1>1. PICK p \in Nat, a \in Nat, b \in Nat, c \in Nat, z \in Nat :
        /\ p = Until(at, Len(decoded)) /\ a = Len(packet) /\ b = Len(buf)
        /\ c = Len(net) /\ z = Len(s) /\ Len(decoded) \in 0 .. Len(sent)
        /\ Piece(packet, s, p) /\ Piece(buf, s, p + a) /\ Piece(net, s, p + a + b)
        /\ p + a + b + c <= z /\ (~cut => p + a + b + c = z)
  BY Positions
<1>2. n \in Nat /\ n <= b
  BY <1>1
<1>3. packet \in Seq(Nat) /\ buf \in Seq(Nat)
  BY DEF TypeOK
<1>4. Piece(u, s, p + a)
  <2>1. \A i \in 1 .. Len(u) : u[i] = buf[i] /\ i \in 1 .. Len(buf)
    BY DEF Taken
  <2> QED  BY <1>1, <2>1 DEF Piece
<1>5. Piece(packet', s, p) /\ Len(packet') = a + n
  <2>1. PICK q \in Seq(Nat) : q = packet \o u
    BY <1>3, Joined
  <2>2. Len(q) = a + n
    BY <1>1, <1>3, <2>1, Joined
  <2>3. Piece(q, s, p)
    BY <1>1, <1>3, <1>4, <2>1, PieceJoined
  <2>4. packet' = q
    BY <2>1
  <2>5. Piece(packet', s, p) <=> Piece(q, s, p)
    BY <2>4 DEF Piece
  <2> QED  BY <2>2, <2>3, <2>4, <2>5
<1>6. Len(buf') = b - n /\ Piece(buf', s, p + a + n)
  <2>1. p + a \in Nat
    OBVIOUS
  <2> QED  BY <1>1, <1>3, <2>1, LeftIs
<1>7. net' = net /\ cut' = cut /\ sent' = sent
  BY DEF RestUnchanged
<1>8. PICK a2 \in Nat, b2 \in Nat : a2 = a + n /\ b2 = b - n
  BY <1>2
<1>9. /\ p + a2 + b2 = p + a + b /\ p + a2 = p + a + n
      /\ p + a2 + b2 + c <= z /\ (~cut' => p + a2 + b2 + c = z)
  <2>1. p + a2 + b2 = p + a + b /\ p + a2 = p + a + n
    BY <1>2, <1>8
  <2>2. p + a + b + c <= z /\ (~cut => p + a + b + c = z)
    BY <1>1
  <2> QED  BY <1>7, <2>1, <2>2
<1>10. Piece(net', s, p + a + b)
  BY <1>1, <1>7 DEF Piece
<1>11. /\ p = Until(at, Len(decoded')) /\ a2 = Len(packet') /\ b2 = Len(buf') /\ c = Len(net')
       /\ Len(decoded') <= Len(sent') /\ Piece(buf', s, p + a2) /\ Piece(net', s, p + a2 + b2)
  BY <1>1, <1>5, <1>6, <1>7, <1>8, <1>9, <1>10
<1> QED  BY <1>1, <1>5, <1>9, <1>11, Placed

(* A message is read to its end. *)
LEMMA WholeFollows ==
    ASSUME TypeOK, NEW s \in Seq(Nat), NEW at \in Seq(Nat), Stream(s, at), Follows(s, at),
           RestUnchanged, NEW r, NEW n \in 0 .. Len(buf), Taken(r, n), buf' = r.left,
           packet' = <<>>, Len(decoded') = Len(decoded) + 1, Len(decoded) + 1 \in 1 .. Len(sent),
           Until(at, Len(decoded) + 1) = Until(at, Len(decoded)) + (Len(packet) + n)
    PROVE  Follows(s, at)'
<1>1. PICK p \in Nat, a \in Nat, b \in Nat, c \in Nat, z \in Nat :
        /\ p = Until(at, Len(decoded)) /\ a = Len(packet) /\ b = Len(buf)
        /\ c = Len(net) /\ z = Len(s) /\ Len(decoded) \in 0 .. Len(sent)
        /\ Piece(packet, s, p) /\ Piece(buf, s, p + a) /\ Piece(net, s, p + a + b)
        /\ p + a + b + c <= z /\ (~cut => p + a + b + c = z)
  BY Positions
<1>2. n \in Nat /\ n <= b
  BY <1>1
<1>3. packet \in Seq(Nat) /\ buf \in Seq(Nat)
  BY DEF TypeOK
<1>4. Len(buf') = b - n /\ Piece(buf', s, p + a + n)
  <2>1. p + a \in Nat
    OBVIOUS
  <2> QED  BY <1>1, <1>3, <2>1, LeftIs
<1>5. net' = net /\ cut' = cut /\ sent' = sent
  BY DEF RestUnchanged
<1>6. PICK p2 \in Nat, b2 \in Nat : p2 = p + (a + n) /\ b2 = b - n
  BY <1>2
<1>7. /\ p2 + 0 + b2 = p + a + b /\ p2 + 0 = p + a + n
      /\ p2 + 0 + b2 + c <= z /\ (~cut' => p2 + 0 + b2 + c = z)
  <2>1. p2 + 0 + b2 = p + a + b /\ p2 + 0 = p + a + n
    BY <1>2, <1>6
  <2>2. p + a + b + c <= z /\ (~cut => p + a + b + c = z)
    BY <1>1
  <2> QED  BY <1>5, <2>1, <2>2
<1>8. Piece(net', s, p + a + b)
  BY <1>1, <1>5 DEF Piece
<1>9. Len(packet') = 0 /\ Piece(packet', s, p2)
  BY Empty DEF Piece
<1>10. p2 = Until(at, Len(decoded'))
  BY <1>1, <1>6
<1>11. /\ b2 = Len(buf') /\ c = Len(net') /\ Len(decoded') <= Len(sent')
       /\ Piece(buf', s, p2 + 0) /\ Piece(net', s, p2 + 0 + b2)
  BY <1>1, <1>4, <1>5, <1>6, <1>7, <1>8
<1> QED  BY <1>1, <1>7, <1>9, <1>10, <1>11, Placed

(* The whole of a packet is the message. *)
LEMMA DecodesWhole ==
    ASSUME TypeOK, NEW m \in Messages, NEW r, DecodesWith(r), NEW e, e = Encoded(m),
           ReadPacket(r) = Stands("whole", e)
    PROVE  /\ packet' = <<>> /\ m \in Decodings /\ decoded' = Append(decoded, m)
           /\ state' = IF AwaitsAnswer(m) THEN "busy" ELSE "head"
<1>1. FieldsRead = Fields /\ DOMAIN Fields = MessageIDs
  BY OneTable DEF TypeOK
<1>2. m \in MessageType /\ e = Packet(Fields, m) /\ e \in Seq(Nat)
  BY EncodedAs
<1>3. PICK size \in Nat, y \in Seq(Nat) : size = Units4(m.ID) /\ y = Payload(m)
  <2>1. m.ID \in MessageIDs /\ Payload(m) \in Seq(Nat)
    BY <1>2, Shapes, PacketOf DEF Shaped
  <2> QED  BY <2>1, SizesAt
<1>4. /\ Len(e) = 1 + size + Len(y) /\ e[1] = m.ID /\ m.ID \in MessageIDs
      /\ \A i \in 1 .. size : e[1 + i] = m[Fields[m.ID][i]]
      /\ \A i \in 1 .. Len(y) : e[1 + size + i] = y[i]
      /\ m.ID = DataID => size = 2 /\ y = m.data
  <2>1. /\ Len(e) = 1 + Units4(m.ID) + Len(Payload(m)) /\ e[1] = m.ID
        /\ \A i \in 1 .. Units4(m.ID) : e[1 + i] = m[Fields[m.ID][i]]
        /\ \A i \in 1 .. Len(Payload(m)) : e[1 + Units4(m.ID) + i] = Payload(m)[i]
        /\ m.ID = DataID => Units4(m.ID) = 2 /\ Payload(m) = m.data
    BY <1>2, PacketOf
  <2>2. m.ID \in MessageIDs
    BY <1>2, Shapes DEF Shaped
  <2> QED  BY <1>3, <2>1, <2>2, Zenon
<1>5. Decodable(FieldsRead, e)
  BY <1>1, <1>3, <1>4 DEF Decodable, Units4
<1>6. MessageOf(FieldsRead, e) = m
  <2>1. MessageOf(Fields, e) = IF m.ID = DataID THEN [m EXCEPT !.data = SubSeq(e, 4, Len(e))] ELSE m
    <3>1. Carries(m, e)
      BY <1>3, <1>4, Zenon DEF Carries
    <3> QED  BY <1>2, <1>3, <3>1, Rebuilt
  <2>2. CASE m.ID = DataID
    <3>1. /\ m.data = y /\ size = 2 /\ Len(e) = 3 + Len(y)
          /\ m \in [ID: {DataID}, channelID: Nat, length: Nat, data: Seq(Nat)]
      BY <1>2, <1>3, <1>4, <2>2, Shapes
    <3>2. SubSeq(e, 4, Len(e)) = y
      <4>1. 3 \in 0 .. Len(e) /\ 3 + 1 = 4
        BY <3>1
      <4>2. PICK g \in Seq(Nat) : /\ g = SubSeq(e, 4, Len(e)) /\ Len(g) = Len(e) - 3
                                  /\ \A i \in 1 .. Len(e) - 3 : g[i] = e[3 + i]
        <5>1. /\ SubSeq(e, 3 + 1, Len(e)) \in Seq(Nat)
              /\ Len(SubSeq(e, 3 + 1, Len(e))) = Len(e) - 3
              /\ \A i \in 1 .. Len(e) - 3 : SubSeq(e, 3 + 1, Len(e))[i] = e[3 + i]
          BY <1>2, <4>1, Parted
        <5> QED  BY <4>1, <5>1, Zenon
      <4>3. Len(e) - 3 = Len(y)
        BY <3>1
      <4>4. \A i \in 1 .. Len(y) : e[3 + i] = y[i]
        BY <1>4, <3>1
      <4>5. g = y
        BY <4>2, <4>3, <4>4, SameSequence
      <4> QED  BY <4>2, <4>5
    <3>3. [m EXCEPT !.data = y] = m
      BY <3>1
    <3> QED  BY <1>1, <2>1, <2>2, <3>2, <3>3
  <2> QED  BY <1>1, <2>1, <2>2
<1>7. m \in Decodings
  BY <1>2, <1>5, <1>6, DecodedIs
<1>8. ReadPacket(r).state = "whole" /\ ReadPacket(r).packet = e
  BY StandsIs
<1> QED  BY <1>5, <1>6, <1>7, <1>8 DEF DecodesWith

LEMMA JoinedTo ==
    ASSUME NEW x \in Seq(Nat), NEW y \in Seq(Nat), NEW a, a = Len(x), NEW b, b = Len(y),
           NEW q, q = x \o y
    PROVE  /\ Len(q) = a + b /\ \A i \in 1 .. a : q[i] = x[i]
           /\ \A i \in 1 .. b : q[a + i] = y[i]
<1>1. /\ Len(x \o y) = Len(x) + Len(y)
      /\ \A n \in 1 .. Len(x) : (x \o y)[n] = x[n]
      /\ \A n \in 1 .. Len(y) : (x \o y)[Len(x) + n] = y[n]
  BY Joined
<1> QED  BY <1>1, Zenon

LEMMA PositionOf ==
    ASSUME TypeOK, NEW s \in Seq(Nat), NEW at \in Seq(Nat), Stream(s, at), Follows(s, at),
           NEW p, p = Until(at, Len(decoded))
    PROVE  p \in Nat /\ Piece(packet, s, p) /\ Piece(buf, s, p + Len(packet))
<1>1. PICK x \in Nat, a \in Nat, b \in Nat, c \in Nat, z \in Nat :
        /\ x = Until(at, Len(decoded)) /\ a = Len(packet) /\ b = Len(buf)
        /\ c = Len(net) /\ z = Len(s) /\ Len(decoded) \in 0 .. Len(sent)
        /\ Piece(packet, s, x) /\ Piece(buf, s, x + a) /\ Piece(net, s, x + a + b)
        /\ x + a + b + c <= z /\ (~cut => x + a + b + c = z)
  BY Positions
<1>2. p = x
  BY <1>1
<1> QED  BY <1>1, <1>2, Zenon

(* A message is added to those that were decoded. *)
LEMMA AppendedAsSent ==
    ASSUME TypeOK, decoded \in Seq(Decodings), DecodedAsSent, ~short, sent' = sent,
           NEW x \in Decodings, decoded' = Append(decoded, x), NEW d \in Nat, d = Len(decoded),
           d + 1 \in 1 .. Len(sent), x = sent[d + 1] \/ FilledUp(d + 1)'
    PROVE  DecodedAsSent' /\ Len(decoded') = d + 1
<1>1. /\ Len(decoded') = d + 1 /\ decoded'[d + 1] = x /\ decoded' \in Seq(Decodings)
      /\ \A i \in 1 .. d : decoded'[i] = decoded[i]
  BY OneMore
<1>2. \A i \in 1 .. d : decoded[i] = sent[i]
  <2>1. \A i \in 1 .. Len(decoded) : decoded[i] = sent[i]
    BY DEF DecodedAsSent, GoReadShort, FilledUp
  <2> QED  BY <2>1
<1>3. ASSUME NEW i \in 1 .. d + 1  PROVE decoded'[i] = sent'[i] \/ FilledUp(i)'
  <2>1. CASE i = d + 1
    <3>1. decoded'[i] = x /\ sent'[i] = sent[d + 1]
      BY <1>1, <2>1
    <3>2. FilledUp(d + 1)' => FilledUp(i)'
      BY <2>1 DEF FilledUp
    <3> QED  BY <3>1, <3>2
  <2>2. CASE i # d + 1
    <3>1. i \in 1 .. d
      BY <2>2
    <3> QED  BY <1>1, <1>2, <3>1
  <2> QED  BY <2>1, <2>2
<1>4. DOMAIN decoded' = 1 .. d + 1 /\ d + 1 <= Len(sent')
  BY <1>1
<1> QED  BY <1>1, <1>3, <1>4 DEF DecodedAsSent

(* The message that is being read. *)
Meant(s, at, m) ==
    LET d == Len(decoded)
        p == Until(at, d)
        e == Encoded(m)
    IN  /\ d + 1 \in 1 .. Len(sent) /\ m = sent[d + 1]
        /\ Until(at, d + 1) = p + Len(e) /\ p + Len(e) <= Len(s) /\ Piece(e, s, p)

LEMMA ReadMeant ==
    ASSUME TypeOK, decoded \in Seq(Decodings), NEW s \in Seq(Nat), NEW at \in Seq(Nat),
           Stream(s, at), Follows(s, at), state \in Reading,
           NEW n \in 0 .. Len(buf), state = "head" => 0 < n
    PROVE  \E m \in Messages : /\ Meant(s, at, m)
                               /\ state # "head" => Within(s, at, m)
<1>1. CASE state = "head"
  <2>1. PICK p \in Nat, a \in Nat, b \in Nat, c \in Nat, z \in Nat :
          /\ p = Until(at, Len(decoded)) /\ a = Len(packet) /\ b = Len(buf)
          /\ c = Len(net) /\ z = Len(s) /\ Len(decoded) \in 0 .. Len(sent)
          /\ Piece(packet, s, p) /\ Piece(buf, s, p + a) /\ Piece(net, s, p + a + b)
          /\ p + a + b + c <= z /\ (~cut => p + a + b + c = z)
    BY Positions
  <2>2. p < z
    BY <1>1, <2>1
  <2>3. PICK d \in 0 .. Len(sent) : d = Len(decoded)
    BY <2>1
  <2>4. Until(at, d) < Len(s)
    BY <2>1, <2>2, <2>3
  <2>5. /\ d + 1 \in 1 .. Len(sent) /\ sent[d + 1] \in Messages
        /\ at[d + 1] = Until(at, d) + Len(Encoded(sent[d + 1]))
        /\ Until(at, d + 1) = at[d + 1] /\ at[d + 1] <= Len(s)
        /\ Piece(Encoded(sent[d + 1]), s, Until(at, d))
    BY <2>4, NextMessage
  <2>6. PICK m \in Messages : m = sent[d + 1]
    BY <2>5
  <2>7. Meant(s, at, m)
    BY <2>3, <2>5, <2>6 DEF Meant
  <2> QED  BY <1>1, <2>7
<1>2. CASE state # "head"
  <2>1. state \in {"rest", "data"}
    BY <1>2 DEF Reading
  <2>2. PICK m \in Messages : Within(s, at, m)
    BY <2>1, Midway
  <2>3. Meant(s, at, m)
    BY <2>2 DEF Within, Meant
  <2> QED  BY <2>2, <2>3
<1> QED  BY <1>1, <1>2

(* A read that returns all that was asked for. *)
LEMMA FullKeeps ==
    ASSUME TypeOK, decoded \in Seq(Decodings), DecodedAsSent, ~short, state \in Reading,
           RestUnchanged, NEW r, NEW n \in 0 .. Len(buf), Taken(r, n), Full(r, n, Wanted),
           DecodesWith(r), NEW s \in Seq(Nat), NEW at \in Seq(Nat), Stream(s, at), Follows(s, at)
    PROVE  Follows(s, at)' /\ DecodedAsSent' /\ state' \in Reading \cup {"busy"}
                           /\ (state' = "busy" => ~WritesAtOnce)
<1>1. /\ r.is = "units" /\ n = Wanted /\ Len(r.units) = n /\ buf' = r.left
      /\ packet \in Seq(Nat) /\ buf \in Seq(Nat) /\ kind \in Kinds
  BY DEF Full, Taken, DecodesWith, TypeOK
<1>2. PICK u \in Seq(Nat) : u = r.units
  BY DEF Taken
<1>3. PICK q \in Seq(Nat) : q = packet \o u
  BY <1>1, Joined
<1>4. PICK m \in Messages : /\ Meant(s, at, m)
                            /\ state # "head" => Within(s, at, m)
  <2>1. state = "head" => 0 < n
    BY <1>1, WantedIs
  <2> QED  BY <2>1, ReadMeant
<1>5. PICK e \in Seq(Nat) : e = Encoded(m)
  BY EncodedAs
<1>6. PICK l \in Nat, a \in Nat, p \in Nat :
        l = Len(e) /\ a = Len(packet) /\ p = Until(at, Len(decoded))
  <2>1. Until(at, Len(decoded)) \in Nat
    BY PositionOf
  <2> QED  BY <1>1, <2>1
<1>7. /\ Len(decoded) + 1 \in 1 .. Len(sent) /\ m = sent[Len(decoded) + 1]
      /\ Until(at, Len(decoded) + 1) = p + l /\ Piece(e, s, p)
  BY <1>4, <1>5, <1>6 DEF Meant
<1>8. a + n <= l
  <2>1. CASE state = "head"
    <3>1. l \in Nat \ {0} /\ a = 0 /\ n = 1
      BY <1>1, <1>5, <1>6, <2>1, EncodedAs, WantedIs, Empty DEF TypeOK
    <3> QED  BY <3>1
  <2>2. CASE state # "head"
    BY <1>1, <1>4, <1>5, <1>6, <2>2 DEF Within
  <2> QED  BY <2>1, <2>2
<1>9. (\A i \in 1 .. a + n : q[i] = e[i]) /\ Len(q) = a + n
  <2>1. Piece(packet, s, p) /\ Piece(buf, s, p + Len(packet))
    BY <1>6, PositionOf
  <2>2. Len(q) = a + n
    <3>1. Len(u) = n
      BY <1>1, <1>2, Zenon
    <3>2. Len(packet \o u) = Len(packet) + Len(u)
      BY <1>1, Joined
    <3> QED  BY <1>3, <1>6, <3>1, <3>2, Zenon
  <2>3. Len(packet) + n <= Len(e)
    BY <1>6, <1>8
  <2>4. \A i \in 1 .. Len(packet) + n : q[i] = e[i]
    <3>1. TakenFrom(s, e, p, r, n, u, q)
      BY <1>1, <1>2, <1>3, <1>7, <2>1, <2>3 DEF TakenFrom
    <3> QED  BY <3>1, UnitsMeant
  <2> QED  BY <1>6, <2>2, <2>4
<1>10. ASSUME NEW where \in {"rest", "data"}, ReadPacket(r) = Stands(where, q)
       PROVE  Follows(s, at)' /\ DecodedAsSent' /\ state' \in Reading
  <2>1. state' = where /\ packet' = q /\ decoded' = decoded
    <3>1. ReadPacket(r).state = where /\ ReadPacket(r).packet = q
      BY <1>10, StandsIs, Zenon
    <3> QED  BY <3>1 DEF DecodesWith
  <2>2. Follows(s, at)'
    BY <1>1, <1>2, <1>3, <2>1, PartFollows
  <2>3. DecodedAsSent'
    BY <2>1, DecodedKept DEF RestUnchanged
  <2> QED  BY <2>1, <2>2, <2>3 DEF Reading
<1>11. ASSUME a + n = l, ReadPacket(r) = Stands("whole", q)
       PROVE  /\ Follows(s, at)' /\ DecodedAsSent' /\ state' \in {"head", "busy"}
              /\ state' = "busy" => ~WritesAtOnce
  <2>1. q = e
    BY <1>6, <1>9, <1>11, SameSequence
  <2>2. /\ packet' = <<>> /\ m \in Decodings /\ decoded' = Append(decoded, m)
        /\ state' = IF AwaitsAnswer(m) THEN "busy" ELSE "head"
    BY <1>5, <1>11, <2>1, DecodesWhole
  <2>3. PICK d \in Nat : d = Len(decoded)
    OBVIOUS
  <2>4. DecodedAsSent' /\ Len(decoded') = d + 1
    <3>1. sent' = sent
      BY DEF RestUnchanged
    <3> QED  BY <1>7, <2>2, <2>3, <3>1, AppendedAsSent
  <2>5. Until(at, Len(decoded) + 1) = Until(at, Len(decoded)) + (Len(packet) + n)
    BY <1>6, <1>7, <1>11
  <2>6. Follows(s, at)'
    BY <1>1, <1>7, <2>2, <2>3, <2>4, <2>5, WholeFollows
  <2>7. WritesAtOnce' => WritesAtOnce
    BY DEF RestUnchanged, WritesAtOnce
  <2> QED  BY <2>2, <2>4, <2>6 DEF AwaitsAnswer
<1>12. CASE state = "head"
  <2>1. a = 0 /\ n = 1 /\ packet = <<>>
    BY <1>1, <1>6, <1>12, WantedIs, Empty DEF TypeOK
  <2>2. q = u
    <3>1. PICK k \in Nat : k = Len(u)
      OBVIOUS
    <3>2. Len(q) = a + k /\ \A i \in 1 .. k : q[a + i] = u[i]
      BY <1>1, <1>3, <1>6, <3>1, JoinedTo
    <3>3. Len(q) = k /\ \A i \in 1 .. k : q[i] = u[i]
      BY <2>1, <3>1, <3>2
    <3> QED  BY <3>1, <3>3, SameSequence
  <2>3. q[1] = m.ID /\ m.ID \in MessageIDs
    <3>1. m \in MessageType /\ e = Packet(Fields, m)
      BY <1>5, EncodedAs
    <3>2. e[1] = m.ID /\ m.ID \in MessageIDs
      BY <3>1, PacketOf, Shapes DEF Shaped
    <3> QED  BY <1>9, <2>1, <3>2
  <2>4. ReadPacket(r) = Stands("rest", q)
    <3>1. r.units[1] \in MessageIDs /\ r.units = q
      BY <1>2, <2>2, <2>3, Zenon
    <3>2. ReadPacket(r) = Stands("rest", r.units)
      BY <1>1, <1>12, <3>1, NextOfUnits
    <3> QED  BY <3>1, <3>2, Zenon
  <2> QED  BY <1>10, <2>4 DEF Reading
<1>13. CASE state = "rest" /\ packet[1] = DataID
  <2>1. n = 2
    BY <1>1, <1>13, WantedIs
  <2>2. ReadPacket(r) = Stands("data", q)
    <3>1. ~(Len(r.units) < 2) /\ packet \o r.units = q
      BY <1>1, <1>2, <1>3, <2>1
    <3>2. ReadPacket(r) = Stands("data", packet \o r.units)
      BY <1>1, <1>13, <3>1, NextOfUnits
    <3> QED  BY <3>1, <3>2, Zenon
  <2> QED  BY <1>10, <2>2 DEF Reading
<1>14. CASE state = "rest" /\ packet[1] # DataID
  <2>1. a + n = l
    BY <1>1, <1>4, <1>5, <1>6, <1>14 DEF Within
  <2>2. ReadPacket(r) = Stands("whole", q)
    BY <1>1, <1>2, <1>3, <1>14, NextOfUnits
  <2> QED  BY <1>11, <2>1, <2>2 DEF Reading
<1>15. CASE state = "data"
  <2>1. a + n = l /\ packet[3] = n /\ Len(u) = n
    BY <1>1, <1>2, <1>4, <1>5, <1>6, <1>15 DEF Within
  <2>2. ReadPacket(r) = Stands("whole", q)
    <3>1. CASE kind = "websocket"
      <4>1. ~(Len(r.units) > packet[3]) /\ packet \o r.units = q
        BY <1>1, <1>2, <1>3, <2>1
      <4>2. ReadPacket(r) = IF Len(r.units) > packet[3] THEN Fails
                            ELSE Stands("whole", packet \o r.units)
        BY <1>1, <1>15, <3>1, NextOfUnits
      <4> QED  BY <4>1, <4>2, Zenon
    <3>2. CASE kind = "go"
      BY <1>1, <1>2, <1>3, <1>15, <3>2, NextOfUnits
    <3>3. CASE kind \notin {"websocket", "go"}
      <4>1. PICK zeros : zeros = [i \in 1 .. packet[3] - Len(u) |-> 0]
        OBVIOUS
      <4>2. zeros \in Seq(Nat) /\ Len(zeros) = 0
        <5>1. packet[3] - Len(u) = 0
          BY <2>1
        <5> QED  BY <4>1, <5>1, Zeros
      <4>3. PICK o \in Seq(Nat) : o = q \o zeros
        BY <4>2, Joined
      <4>4. Len(o) = Len(q) /\ \A i \in 1 .. Len(q) : o[i] = q[i]
        BY <4>2, <4>3, Joined
      <4>5. o = q
        BY <4>4, SameSequence
      <4>6. packet \o r.units \o [i \in 1 .. packet[3] - Len(r.units) |-> 0] = o
        BY <1>2, <1>3, <4>1, <4>3, Zenon
      <4> QED  BY <1>1, <1>15, <3>3, <4>5, <4>6, NextOfUnits
    <3> QED  BY <3>1, <3>2, <3>3
  <2> QED  BY <1>11, <2>1, <2>2 DEF Reading
<1> QED  BY <1>12, <1>13, <1>14, <1>15 DEF Reading

(* A read of nothing that returns what follows an empty data message. *)
LEMMA OverStops ==
    ASSUME TypeOK, decoded \in Seq(Decodings), NEW s \in Seq(Nat), NEW at \in Seq(Nat),
           Stream(s, at), Follows(s, at), state \in Reading, NEW r, NEW n \in 0 .. Len(buf),
           Taken(r, n), Over(r, n, Wanted), DecodesWith(r)
    PROVE  state' = "failed" /\ decoded' = decoded /\ EmptyDataMatters
<1>1. /\ r.is = "units" /\ Wanted = 0 /\ 0 < n /\ Len(r.units) = n /\ kind = "websocket"
      /\ kind \in Kinds
  BY DEF Over, Taken, TypeOK
<1>2. state \in {"rest", "data"}
  BY <1>1, WantedIs DEF Reading
<1>3. PICK m \in Messages : Within(s, at, m)
  BY <1>2, Midway
<1>4. state = "data"
  <2>1. state = "rest" => Wanted = Units4(m.ID) /\ m.ID \in MessageIDs
    BY <1>3 DEF Within
  <2>2. m.ID \in MessageIDs => Units4(m.ID) \in 1 .. 4
    BY SizesAt
  <2> QED  BY <1>1, <1>2, <2>1, <2>2
<1>5. /\ Len(decoded) + 1 \in 1 .. Len(sent) /\ m = sent[Len(decoded) + 1]
      /\ m.ID = DataID /\ m.length = 0 /\ packet[3] = 0
  BY <1>1, <1>3, <1>4 DEF Within
<1>6. EmptyDataMatters
  <2>1. Len(decoded) + 1 \in DOMAIN sent
    BY <1>5 DEF TypeOK
  <2> QED  BY <1>1, <1>5, <2>1 DEF EmptyDataMatters, IsEmptyData
<1>7. ReadPacket(r) = Fails
  <2>1. Len(r.units) > packet[3]
    BY <1>1, <1>5
  <2> QED  BY <1>1, <1>4, <2>1, NextOfUnits
<1>8. ReadPacket(r).state = "failed"
  BY <1>7, StagedEnds, Zenon
<1> QED  BY <1>6, <1>8 DEF DecodesWith

(* The end of a socket is within a message only when the stream was cut off. *)
LEMMA UnderCut ==
    ASSUME TypeOK, decoded \in Seq(Decodings), ConnInv, NEW s \in Seq(Nat), NEW at \in Seq(Nat),
           Stream(s, at), Follows(s, at), state \in Reading, NEW r, NEW n \in 0 .. Len(buf),
           Under(r, n, Wanted)
    PROVE  cut /\ state # "head"
<1>1. n = Len(buf) /\ 0 < n /\ n < Wanted /\ net = <<>>
  BY DEF Under, ConnInv
<1>2. state # "head" /\ state \in {"rest", "data"}
  BY <1>1, WantedIs DEF Reading
<1>3. PICK m \in Messages : Within(s, at, m)
  BY <1>2, Midway
<1>4. PICK p \in Nat, a \in Nat, b \in Nat, c \in Nat, z \in Nat :
        /\ p = Until(at, Len(decoded)) /\ a = Len(packet) /\ b = Len(buf)
        /\ c = Len(net) /\ z = Len(s) /\ Len(decoded) \in 0 .. Len(sent)
        /\ Piece(packet, s, p) /\ Piece(buf, s, p + a) /\ Piece(net, s, p + a + b)
        /\ p + a + b + c <= z /\ (~cut => p + a + b + c = z)
  BY Positions
<1>5. PICK l \in Nat : l = Len(Encoded(m))
  BY EncodedAs
<1>6. PICK w \in Nat : w = Wanted /\ p + l <= z /\ a + w <= l
  BY <1>3, <1>4, <1>5 DEF Within
<1>7. c = 0 /\ n = b /\ n < w
  BY <1>1, <1>4, <1>6, Empty
<1> QED  BY <1>2, <1>4, <1>6, <1>7

(* The units of a data message. *)
LEMMA DataPacket ==
    ASSUME TypeOK, NEW m \in Messages, m.ID = DataID, NEW e, e = Encoded(m)
    PROVE  /\ m \in MessageType /\ Units4(m.ID) = 2 /\ e[1] = m.ID
           /\ \A i \in 1 .. Units4(m.ID) : e[1 + i] = m[Fields[m.ID][i]]
           /\ m.data \in Seq(Nat) /\ m.length = Len(m.data)
           /\ m \in [ID: {DataID}, channelID: Nat, length: Nat, data: Seq(Nat)]
           /\ \A j \in 1 .. m.length : e[3 + j] = m.data[j]
<1>1. m \in MessageType /\ e = Packet(Fields, m)
  BY EncodedAs
<1>2. /\ e[1] = m.ID /\ Units4(m.ID) = 2 /\ Payload(m) = m.data
      /\ \A i \in 1 .. Units4(m.ID) : e[1 + i] = m[Fields[m.ID][i]]
      /\ \A i \in 1 .. Len(Payload(m)) : e[1 + Units4(m.ID) + i] = Payload(m)[i]
  BY <1>1, PacketOf
<1>3. /\ m.data \in Seq(Nat) /\ m.length = Len(m.data)
      /\ m \in [ID: {DataID}, channelID: Nat, length: Nat, data: Seq(Nat)]
  BY <1>1, Shapes
<1>4. PICK w \in Nat : w = m.length
  BY <1>3
<1>5. \A j \in 1 .. w : e[1 + 2 + j] = m.data[j]
  BY <1>2, <1>3, <1>4, Zenon
<1>6. \A j \in 1 .. w : e[3 + j] = m.data[j]
  <2>1. \A j \in 1 .. w : 1 + 2 + j = 3 + j
    OBVIOUS
  <2> QED  BY <1>5, <2>1, Zenon
<1> QED  BY <1>1, <1>2, <1>3, <1>4, <1>6, Zenon

(* The zeros that o has behind the first units, q, of the packet e. *)
PaddedOut(e, q, w, n, k, zeros, o) ==
    /\ e \in Seq(Nat) /\ q \in Seq(Nat) /\ zeros \in Seq(Nat) /\ o = q \o zeros
    /\ w \in Nat /\ n \in Nat /\ k \in Nat /\ n + k = w
    /\ Len(q) = 3 + n /\ \A i \in 1 .. 3 + n : q[i] = e[i]
    /\ Len(zeros) = k /\ \A i \in 1 .. k : zeros[i] = 0

(* o is the packet e, some of whose data may be zeros instead. *)
NearlyAs(o, e, w) ==
    /\ \A i \in 1 .. 3 : o[i] = e[i]
    /\ SubSeq(o, 4, Len(o)) \in Seq(Nat)
    /\ \A j \in 1 .. w : SubSeq(o, 4, Len(o))[j] \in {0, e[3 + j]}

LEMMA PaddedOutIs ==
    ASSUME NEW e, NEW q, NEW w, NEW n, NEW k, NEW zeros, NEW o, PaddedOut(e, q, w, n, k, zeros, o)
    PROVE  NearlyAs(o, e, w)
<1>1. /\ e \in Seq(Nat) /\ q \in Seq(Nat) /\ zeros \in Seq(Nat) /\ o = q \o zeros
      /\ w \in Nat /\ n \in Nat /\ k \in Nat /\ n + k = w
      /\ Len(q) = 3 + n /\ (\A i \in 1 .. 3 + n : q[i] = e[i])
      /\ Len(zeros) = k /\ \A i \in 1 .. k : zeros[i] = 0
  BY DEF PaddedOut
<1>2. PICK l \in Nat : l = 3 + n /\ l + k = 3 + w /\ 3 <= l
  BY <1>1
<1>3. /\ o \in Seq(Nat) /\ Len(o) = l + k
      /\ \A i \in 1 .. l : o[i] = q[i]
      /\ \A i \in 1 .. k : o[l + i] = zeros[i]
  <2>1. PICK x \in Seq(Nat), y \in Seq(Nat) : x = q /\ y = zeros
    BY <1>1, Zenon
  <2>2. /\ x \o y \in Seq(Nat) /\ Len(x \o y) = Len(x) + Len(y)
        /\ \A i \in 1 .. Len(x) : (x \o y)[i] = x[i]
        /\ \A i \in 1 .. Len(y) : (x \o y)[Len(x) + i] = y[i]
    BY Joined
  <2>3. o = q \o zeros /\ Len(q) = l /\ Len(zeros) = k
    BY <1>1, <1>2
  <2> QED  BY <2>1, <2>2, <2>3, Zenon
<1>4. (\A i \in 1 .. l : o[i] = e[i]) /\ \A i \in 1 .. k : o[l + i] = 0
  BY <1>1, <1>2, <1>3
<1>5. PICK f \in 0 .. Len(o) : f = 3 /\ f + 1 = 4
  BY <1>1, <1>2, <1>3
<1>6. PICK g \in Seq(Nat) : /\ g = SubSeq(o, 4, Len(o))
                            /\ \A j \in 1 .. Len(o) - f : g[j] = o[f + j]
  <2>1. /\ SubSeq(o, f + 1, Len(o)) \in Seq(Nat)
        /\ \A j \in 1 .. Len(o) - f : SubSeq(o, f + 1, Len(o))[j] = o[f + j]
    BY <1>3, Parted
  <2> QED  BY <1>5, <2>1, Zenon
<1>7. ASSUME NEW j \in 1 .. w  PROVE g[j] \in {0, e[3 + j]}
  <2>1. g[j] = o[3 + j]
    BY <1>1, <1>2, <1>3, <1>5, <1>6
  <2>2. CASE 3 + j <= l
    <3>1. 3 + j \in 1 .. l
      BY <2>2
    <3> QED  BY <1>4, <2>1, <3>1
  <2>3. CASE ~(3 + j <= l)
    <3>1. PICK i \in 1 .. k : 3 + j = l + i
      <4>1. 3 + j - l \in 1 .. k /\ 3 + j = l + (3 + j - l)
        BY <1>1, <1>2, <2>3
      <4> QED  BY <4>1
    <3> QED  BY <1>4, <2>1, <3>1
  <2> QED  BY <2>2, <2>3
<1>8. \A i \in 1 .. 3 : o[i] = e[i]
  BY <1>2, <1>4
<1> QED  BY <1>6, <1>7, <1>8 DEF NearlyAs

(* A data message that was cut off is filled up with zeros. *)
LEMMA FilledUpIs ==
    ASSUME TypeOK, decoded \in Seq(Decodings), RestUnchanged, cut, short', kind = "nodeTcp",
           NEW s \in Seq(Nat), NEW at \in Seq(Nat), Stream(s, at), Follows(s, at),
           state = "data", NEW r, NEW n \in 0 .. Len(buf), Taken(r, n), n < Wanted,
           Len(r.units) = n, NEW u \in Seq(Nat), u = r.units, NEW o \in Seq(Nat),
           o = packet \o u \o [i \in 1 .. packet[3] - n |-> 0], NEW d \in Nat, d = Len(decoded),
           NEW x \in Decodings, x = MessageOf(FieldsRead, o), decoded' = Append(decoded, x)
    PROVE  d + 1 \in 1 .. Len(sent) /\ FilledUp(d + 1)'
<1>1. packet \in Seq(Nat) /\ buf \in Seq(Nat)
  BY DEF TypeOK
<1>2. PICK q \in Seq(Nat) : q = packet \o u
  BY <1>1, Joined
<1>3. PICK m \in Messages : Within(s, at, m)
  BY Midway
<1>4. PICK e \in Seq(Nat), w \in Nat, p \in Nat :
        e = Encoded(m) /\ w = Wanted /\ p = Until(at, Len(decoded))
  <2>1. Until(at, Len(decoded)) \in Nat
    BY PositionOf
  <2>2. Wanted \in Nat
    BY <1>3 DEF Within
  <2> QED  BY <2>1, <2>2, EncodedAs
<1>5. /\ d + 1 \in 1 .. Len(sent) /\ m = sent[d + 1] /\ m.ID = DataID /\ m.length = w
      /\ packet[3] = w /\ Len(packet) = 3 /\ Len(e) = 3 + w /\ Piece(e, s, p)
      /\ \A i \in 1 .. 3 : packet[i] = e[i]
  BY <1>3, <1>4 DEF Within
<1>6. PICK k \in Nat : k = w - n /\ n + k = w
  BY <1>4
<1>7. PICK zeros \in Seq(Nat) : /\ zeros = [i \in 1 .. packet[3] - n |-> 0] /\ Len(zeros) = k
                               /\ \A i \in 1 .. k : zeros[i] = 0
  <2>1. packet[3] - n = k
    BY <1>5, <1>6
  <2>2. LET z == [i \in 1 .. k |-> 0] IN z \in Seq(Nat) /\ Len(z) = k /\ \A i \in 1 .. k : z[i] = 0
    BY Zeros
  <2> QED  BY <2>1, <2>2
<1>8. Len(q) = 3 + n /\ \A i \in 1 .. 3 + n : q[i] = e[i]
  <2>1. Len(q) = 3 + n
    <3>1. Len(u) = n
      OBVIOUS
    <3>2. Len(packet \o u) = Len(packet) + Len(u)
      BY <1>1, Joined
    <3> QED  BY <1>2, <1>5, <3>1, <3>2, Zenon
  <2>2. Piece(packet, s, p) /\ Piece(buf, s, p + Len(packet))
    BY <1>4, PositionOf
  <2>3. Len(packet) + n <= Len(e)
    BY <1>4, <1>5
  <2>4. \A i \in 1 .. Len(packet) + n : q[i] = e[i]
    <3>1. TakenFrom(s, e, p, r, n, u, q)
      BY <1>1, <1>2, <1>5, <2>2, <2>3 DEF TakenFrom
    <3> QED  BY <3>1, UnitsMeant, SMTT(60)
  <2> QED  BY <1>5, <2>1, <2>4
<1>9. /\ \A i \in 1 .. 3 : o[i] = e[i]
      /\ SubSeq(o, 4, Len(o)) \in Seq(Nat)
      /\ \A j \in 1 .. w : SubSeq(o, 4, Len(o))[j] \in {0, e[3 + j]}
  <2>1. o = q \o zeros
    BY <1>2, <1>7, Zenon
  <2>2. n \in Nat
    BY <1>1
  <2>3. PaddedOut(e, q, w, n, k, zeros, o)
    BY <1>4, <1>6, <1>7, <1>8, <2>1, <2>2 DEF PaddedOut
  <2>4. NearlyAs(o, e, w)
    BY <2>3, PaddedOutIs, Zenon
  <2> QED  BY <2>4, Zenon DEF NearlyAs
<1>10. /\ m \in MessageType /\ Units4(m.ID) = 2 /\ e[1] = m.ID
       /\ \A i \in 1 .. Units4(m.ID) : e[1 + i] = m[Fields[m.ID][i]]
       /\ m.data \in Seq(Nat) /\ m.length = Len(m.data)
       /\ m \in [ID: {DataID}, channelID: Nat, length: Nat, data: Seq(Nat)]
       /\ \A j \in 1 .. m.length : e[3 + j] = m.data[j]
  <2>1. m.ID = DataID /\ e = Encoded(m)
    BY <1>4, <1>5
  <2> QED  BY <2>1, DataPacket
<1>11. PICK y \in Seq(Nat) : y = m.data /\ Len(y) = w /\ \A j \in 1 .. w : e[3 + j] = y[j]
  <2>1. m.data \in Seq(Nat) /\ Len(m.data) = w /\ \A j \in 1 .. w : e[3 + j] = m.data[j]
    BY <1>5, <1>10, Zenon
  <2> QED  BY <2>1, Zenon
<1>12. x = [m EXCEPT !.data = SubSeq(o, 4, Len(o))]
  <2>1. FieldsRead = Fields
    BY OneTable DEF TypeOK
  <2>2. \A i \in 1 .. 3 : o[i] = e[i]
    BY <1>9, Zenon
  <2>3. o[1] = m.ID
    <3>1. 1 \in 1 .. 3
      OBVIOUS
    <3> QED  BY <1>10, <2>2, <3>1, Zenon
  <2>4. ASSUME NEW i \in 1 .. Units4(m.ID)  PROVE o[1 + i] = m[Fields[m.ID][i]]
    <3>1. i \in 1 .. 2
      BY <1>10
    <3>2. 1 + i \in 1 .. 3
      BY <3>1
    <3> QED  BY <1>10, <2>2, <3>2, Zenon
  <2>5. MessageOf(Fields, o) = IF m.ID = DataID THEN [m EXCEPT !.data = SubSeq(o, 4, Len(o))] ELSE m
    <3>1. Carries(m, o)
      BY <2>3, <2>4 DEF Carries
    <3> QED  BY <1>10, <3>1, Rebuilt
  <2> QED  BY <1>5, <2>1, <2>5
<1>13. PICK g \in Seq(Nat) : g = SubSeq(o, 4, Len(o)) /\ \A j \in 1 .. w : g[j] \in {0, e[3 + j]}
  BY <1>9, Zenon
<1>14. x = [m EXCEPT !.data = g] /\ x.data = g
  <2>1. x = [m EXCEPT !.data = g]
    BY <1>12, <1>13, Zenon
  <2> QED  BY <1>10, <2>1
<1>15. ASSUME NEW j \in 1 .. m.length  PROVE g[j] \in {0, y[j]}
  <2>1. j \in 1 .. w
    BY <1>5
  <2> QED  BY <1>11, <1>13, <2>1
<1>16. /\ Len(decoded') = d + 1 /\ decoded'[d + 1] = x
       /\ sent' = sent /\ cut' = cut /\ kind' = kind
  <2>1. Len(Append(decoded, x)) = d + 1 /\ Append(decoded, x)[d + 1] = x
    BY OneMore
  <2> QED  BY <2>1 DEF RestUnchanged
<1>17. x = [sent[d + 1] EXCEPT !.data = x.data]
  BY <1>5, <1>14, Zenon
<1>18. \A j \in 1 .. sent[d + 1].length : x.data[j] \in {0, sent[d + 1].data[j]}
  BY <1>5, <1>11, <1>14, <1>15
<1>19. sent[d + 1].ID = DataID
  BY <1>5
<1> QED  BY <1>5, <1>16, <1>17, <1>18, <1>19 DEF FilledUp

(* What is decoded of what is left at the end of a socket. *)
LEMMA UnderDecodes ==
    ASSUME TypeOK, decoded \in Seq(Decodings), DecodedAsSent, ~short, RestUnchanged, cut, short',
           NEW s \in Seq(Nat), NEW at \in Seq(Nat), Stream(s, at), Follows(s, at),
           state \in Reading, state # "head", NEW r, NEW n \in 0 .. Len(buf), Taken(r, n),
           Under(r, n, Wanted), DecodesWith(r)
    PROVE  DecodedAsSent'
<1>1. /\ r.is = "units" /\ kind = "nodeTcp" /\ 0 < n /\ n < Wanted /\ Len(r.units) = n
      /\ packet \in Seq(Nat) /\ kind \in Kinds
  BY DEF Under, Taken, TypeOK
<1>2. ASSUME decoded' = decoded  PROVE DecodedAsSent'
  BY <1>2, DecodedKept DEF RestUnchanged
<1>3. PICK u \in Seq(Nat) : u = r.units
  BY DEF Taken
<1>4. PICK q \in Seq(Nat) : q = packet \o u
  BY <1>1, Joined
<1>5. CASE state = "rest" /\ packet[1] = DataID
  <2>1. Len(r.units) < 2
    BY <1>1, <1>5, WantedIs
  <2>2. ReadPacket(r) = Fails
    BY <1>1, <1>5, <2>1, NextOfUnits
  <2>3. ReadPacket(r).state = "failed"
    BY <2>2, StagedEnds, Zenon
  <2> QED  BY <1>2, <2>3 DEF DecodesWith
<1>6. CASE state = "rest" /\ packet[1] # DataID
  <2>1. ReadPacket(r) = Stands("whole", q)
    BY <1>1, <1>3, <1>4, <1>6, NextOfUnits
  <2>2. ReadPacket(r).state = "whole" /\ ReadPacket(r).packet = q
    BY <2>1, StandsIs, Zenon
  <2>3. Len(packet) = 1
    BY <1>6 DEF TypeOK
  <2>4. Len(q) = 1 + n /\ q[1] = packet[1]
    <3>1. Len(q) = Len(packet) + Len(u) /\ \A i \in 1 .. Len(packet) : q[i] = packet[i]
      BY <1>1, <1>4, Joined
    <3>2. 1 \in 1 .. Len(packet)
      BY <2>3
    <3> QED  BY <1>1, <1>3, <2>3, <3>1, <3>2
  <2>5. ~Decodable(FieldsRead, q)
    <3>1. FieldsRead = Fields /\ DOMAIN Fields = MessageIDs
      BY OneTable DEF TypeOK
    <3>2. packet[1] \in MessageIDs => Wanted = Units4(packet[1]) /\ Units4(packet[1]) \in 1 .. 4
      BY <1>6, WantedIs, SizesAt
    <3> QED  BY <1>1, <2>4, <3>1, <3>2 DEF Decodable, Units4
  <2> QED  BY <1>2, <2>2, <2>5 DEF DecodesWith
<1>7. CASE state = "data"
  <2>1. Wanted = packet[3] /\ packet[3] \in Nat
    BY <1>7, WantedIs
  <2>2. PICK zeros \in Seq(Nat) : zeros = [i \in 1 .. packet[3] - n |-> 0]
    <3>1. n \in Nat
      BY DEF TypeOK
    <3> QED  BY <2>1, <3>1, ZerosAny
  <2>3. PICK o \in Seq(Nat) : o = q \o zeros
    BY Joined
  <2>4. o = packet \o u \o [i \in 1 .. packet[3] - n |-> 0]
    BY <1>4, <2>2, <2>3, Zenon
  <2>5. ReadPacket(r) = Stands("whole", o)
    <3>1. packet \o r.units \o [i \in 1 .. packet[3] - Len(r.units) |-> 0] = o
      BY <1>1, <1>3, <2>4, Zenon
    <3> QED  BY <1>1, <1>7, <3>1, NextOfUnits
  <2>6. ReadPacket(r).state = "whole" /\ ReadPacket(r).packet = o
    BY <2>5, StandsIs, Zenon
  <2>7. CASE ~Decodable(FieldsRead, o)
    BY <1>2, <2>6, <2>7 DEF DecodesWith
  <2>8. CASE Decodable(FieldsRead, o)
    <3>1. PICK x \in Decodings : x = MessageOf(FieldsRead, o)
      BY <2>8, DecodedIs
    <3>2. decoded' = Append(decoded, x)
      BY <2>6, <2>8, <3>1 DEF DecodesWith
    <3>3. PICK d \in Nat : d = Len(decoded)
      OBVIOUS
    <3>4. d + 1 \in 1 .. Len(sent) /\ FilledUp(d + 1)'
      BY <1>1, <1>3, <1>7, <2>4, <3>1, <3>2, <3>3, FilledUpIs
    <3>5. sent' = sent
      BY DEF RestUnchanged
    <3> QED  BY <3>1, <3>2, <3>3, <3>4, <3>5, AppendedAsSent
  <2> QED  BY <2>7, <2>8
<1> QED  BY <1>5, <1>6, <1>7 DEF Reading

-----------------------------------------------------------------------------
(* A step of the decoder *)

LEMMA ShortIs ==
    ASSUME TypeOK, NEW r, NEW n \in 0 .. Len(buf), Taken(r, n), DecodesWith(r)
    PROVE  short' = (short \/ n < Wanted)
<1>1. r.is = "units" /\ r.left = SubSeq(buf, n + 1, Len(buf))
  BY DEF Taken
<1>2. Len(r.left) = Len(buf) - n
  BY <1>1, Parted DEF TypeOK
<1>3. Len(buf) - Len(r.left) = n
  BY <1>2 DEF TypeOK
<1>4. short' = (short \/ (r.is = "units" /\ Len(buf) - Len(r.left) < Wanted))
  BY DEF DecodesWith
<1> QED  BY <1>1, <1>3, <1>4

LEMMA GoesTo ==
    ASSUME NEW r, Goes(ReadPacket(r)), DecodesWith(r)
    PROVE  state' # "ended" /\ (state' = "busy" => ~WritesAtOnce)
  BY DEF Goes, Staged, DecodesWith, AwaitsAnswer

(* What a read that returned units must keep. *)
ReadWell ==
    /\ Located' /\ DecodedAsSent'
    /\ state' = "failed" => cut \/ EmptyDataMatters \/ GoReadShort'
    /\ short' => kind \in Sockets
    /\ short' /\ kind = "nodeTcp" => cut /\ ended /\ buf' = <<>>

LEMMA ReadsWell ==
    ASSUME FramingInv, state \in Reading, RestUnchanged,
           NEW r, NEW n \in 0 .. Len(buf), Returned(r, n, Wanted), DecodesWith(r)
    PROVE  ReadWell
<1>1. /\ TypeOK /\ decoded \in Seq(Decodings) /\ Located /\ ConnInv /\ ShortInv /\ ClosedInv
      /\ DecodedAsSent
  BY DEF FramingInv
<1>2. Taken(r, n) /\ short' = (short \/ n < Wanted) /\ kind' = kind /\ buf' = r.left
      /\ (Full(r, n, Wanted) \/ Over(r, n, Wanted) \/ Under(r, n, Wanted) \/ Padded(r, n, Wanted))
  BY <1>1, ShortIs DEF Returned, RestUnchanged, DecodesWith
<1>3. short => kind = "go"
  BY <1>1, <1>2 DEF ShortInv, Sockets, Taken
<1>4. {short, short'} \subseteq BOOLEAN /\ Wanted \in Nat
  BY <1>1, <1>2, WantedIs DEF TypeOK
<1>5. CASE kind = "go" /\ short'
  <2>1. GoReadShort'
    BY <1>2, <1>5 DEF GoReadShort
  <2>2. ~InStep'
    BY <1>5 DEF InStep
  <2>3. Located'
    BY <1>1, <2>2, LocatedKept DEF RestUnchanged
  <2> QED  BY <1>5, <2>1, <2>3 DEF ReadWell, DecodedAsSent, Sockets
<1>6. CASE ~(kind = "go" /\ short')
  <2>1. ~short
    BY <1>2, <1>3, <1>6
  <2>2. ~Padded(r, n, Wanted)
    BY <1>2, <1>4, <1>6 DEF Padded
  <2>3. closed => kind = "go"
    BY <1>2, <2>2 DEF Full, Over, Under
  <2>4. InStep
    BY <2>1, <2>3 DEF InStep
  <2>5. PICK s \in Seq(Nat), at \in Seq(Nat) : Stream(s, at) /\ Follows(s, at)
    BY <1>1, <2>4 DEF Located
  <2>6. CASE Full(r, n, Wanted)
    <3>1. Follows(s, at)' /\ DecodedAsSent' /\ state' # "failed"
      BY <1>1, <1>2, <2>1, <2>5, <2>6, FullKeeps DEF Reading
    <3>2. Stream(s, at)'
      BY <2>5, StreamKept DEF RestUnchanged
    <3>3. Located'
      BY <3>1, <3>2 DEF Located
    <3>4. ~short'
      BY <1>2, <1>4, <2>1, <2>6 DEF Full
    <3> QED  BY <3>1, <3>3, <3>4 DEF ReadWell
  <2>7. CASE Over(r, n, Wanted)
    <3>1. state' = "failed" /\ decoded' = decoded /\ EmptyDataMatters
      BY <1>1, <1>2, <2>5, <2>7, OverStops
    <3>2. Located'
      <4>1. ~InStep'
        BY <3>1 DEF InStep, Reading
      <4> QED  BY <1>1, <4>1, LocatedKept DEF RestUnchanged
    <3>3. DecodedAsSent'
      BY <1>1, <1>2, <3>1, DecodedKept DEF RestUnchanged
    <3>4. ~short'
      BY <1>2, <1>4, <2>1, <2>7 DEF Over
    <3> QED  BY <3>1, <3>2, <3>3, <3>4 DEF ReadWell
  <2>8. CASE Under(r, n, Wanted)
    <3>1. cut /\ state # "head" /\ short' /\ kind = "nodeTcp" /\ ended
      BY <1>1, <1>2, <1>4, <2>5, <2>8, UnderCut DEF Under
    <3>2. DecodedAsSent'
      BY <1>1, <1>2, <2>1, <2>5, <2>8, <3>1, UnderDecodes
    <3>3. Located'
      <4>1. ~InStep'
        BY <3>1 DEF InStep
      <4> QED  BY <1>1, <4>1, LocatedKept DEF RestUnchanged
    <3>4. buf' = <<>>
      <4>1. PICK g \in Seq(Nat) : g = SubSeq(buf, n + 1, Len(buf)) /\ Len(g) = Len(buf) - n
        <5>1. /\ SubSeq(buf, n + 1, Len(buf)) \in Seq(Nat)
              /\ Len(SubSeq(buf, n + 1, Len(buf))) = Len(buf) - n
          BY <1>1, Parted DEF TypeOK
        <5> QED  BY <5>1, Zenon
      <4>2. Len(g) = 0
        BY <2>8, <4>1 DEF Under
      <4> QED  BY <1>2, <4>1, <4>2, EmptyIs DEF Taken
    <3> QED  BY <3>1, <3>2, <3>3, <3>4 DEF ReadWell, Sockets
  <2> QED  BY <1>2, <2>2, <2>6, <2>7, <2>8
<1> QED  BY <1>5, <1>6

LEMMA ReturnedKeeps ==
    ASSUME FramingInv, DecodeStep, state \in Reading, RestUnchanged,
           NEW r, NEW n \in 0 .. Len(buf), Returned(r, n, Wanted), DecodesWith(r)
    PROVE  FramingInv'
<1>1. TypeOK /\ ConnInv /\ ClosedInv /\ StopsOnlyWhen
  BY DEF FramingInv
<1>2. TypeOK' /\ decoded' \in Seq(Decodings)
  BY DecodeStepTyped
<1>3. ReadWell
  BY ReadsWell
<1>4. state' # "ended" /\ (state' = "busy" => ~WritesAtOnce)
  BY <1>1, StagesOfUnits, GoesTo
<1>5. /\ error' = FALSE
      /\ UNCHANGED <<kind, coder, sent, fin, cut, net, closed, ended, asked, late, thrown>>
  BY DEF RestUnchanged
<1>6. closed => kind \in Sockets
  BY DEF Returned, Full, Over, Under, Padded, Sockets
<1>7. ConnInv'
  BY <1>1, <1>4, <1>5 DEF ConnInv, WritesAtOnce
<1>8. ShortInv'
  BY <1>3, <1>5 DEF ShortInv, ReadWell
<1>9. ClosedInv'
  BY <1>4, <1>5, <1>6 DEF ClosedInv
<1>10. StopsOnlyWhen'
  <2>1. FailsOnlyWhen'
    <3>1. EmptyDataMatters => EmptyDataMatters'
      BY <1>5 DEF EmptyDataMatters
    <3> QED  BY <1>1, <1>3, <1>5, <3>1 DEF StopsOnlyWhen, FailsOnlyWhen, ReadWell
  <2>2. EndLosesNothing'
    BY <1>4 DEF EndLosesNothing
  <2> QED  BY <2>1, <2>2 DEF StopsOnlyWhen
<1> QED  BY <1>2, <1>3, <1>7, <1>8, <1>9, <1>10 DEF FramingInv, ReadWell

LEMMA DecodeStepKeeps ==
    ASSUME FramingInv, DecodeStep
    PROVE  FramingInv'
<1>1. state \in Reading /\ RestUnchanged
  BY DecodeStepIs
<1>2. PICK r \in Read(Wanted) : DecodesWith(r)
  BY DecodeStepIs
<1>3. Stopping(r) \/ \E n \in 0 .. Len(buf) : Returned(r, n, Wanted)
  <2>1. TypeOK /\ Wanted \in Nat
    BY <1>1, WantedIs DEF FramingInv
  <2> QED  BY <1>2, <2>1, Reads DEF Stopping, TypeOK
<1> QED  BY <1>1, <1>2, <1>3, StoppingKeeps, ReturnedKeeps

-----------------------------------------------------------------------------
(* The invariant holds at the start and is kept by every step *)

LEMMA InitHolds ==
    ASSUME Init
    PROVE  FramingInv
<1>1. TypeOK
  <2>1. /\ kind \in Kinds /\ coder \in Coders /\ state = "head"
        /\ net = <<>> /\ buf = <<>> /\ packet = <<>> /\ sent = <<>> /\ decoded = <<>>
        /\ {fin, cut, closed, ended, error, asked, late, thrown, short} \subseteq BOOLEAN
    BY DEF Init
  <2>2. sent \in Seq(Messages) /\ Len(sent) <= MaxMessages
    BY <2>1, MaxMessagesAssumption
  <2>3. net \in Seq(Nat) /\ buf \in Seq(Nat) /\ packet \in Seq(Nat)
    BY <2>1, Empty
  <2>4. \A i \in DOMAIN decoded : decoded[i].ID \in MessageIDs
    BY <2>1
  <2>5. /\ state \in Reading \cup {"busy", "ended", "failed"}
        /\ state # "rest" /\ state # "data"
    BY <2>1 DEF Reading
  <2> QED  BY <2>1, <2>2, <2>3, <2>4, <2>5 DEF TypeOK
<1>2. decoded \in Seq(Decodings) /\ Len(decoded) = 0
  BY DEF Init
<1>3. Located
  <2>1. Stream(<<>>, <<>>)
    BY Empty DEF Init, Stream, Until
  <2>2. Follows(<<>>, <<>>)
    BY Empty DEF Init, Follows, Until, Piece
  <2> QED  BY <2>1, <2>2, Empty DEF Located
<1>4. ConnInv /\ ShortInv /\ ClosedInv
  BY DEF Init, ConnInv, ShortInv, ClosedInv
<1>5. DecodedAsSent
  BY <1>2, Empty DEF Init, DecodedAsSent
<1>6. StopsOnlyWhen
  BY DEF Init, StopsOnlyWhen, FailsOnlyWhen, EndLosesNothing
<1> QED  BY <1>1, <1>2, <1>3, <1>4, <1>5, <1>6 DEF FramingInv

LEMMA StutterKeeps ==
    ASSUME FramingInv, UNCHANGED vars
    PROVE  FramingInv'
<1>1. UNCHANGED <<kind, coder, sent, fin, cut, net, buf, closed, ended, error, asked, late,
                  state, packet, thrown, short, decoded>>
  BY DEF vars, chosen, writer, conn
<1>2. /\ TypeOK /\ decoded \in Seq(Decodings) /\ Located /\ ConnInv /\ ShortInv /\ ClosedInv
      /\ DecodedAsSent /\ StopsOnlyWhen
  BY DEF FramingInv
<1>3. TypeOK' /\ decoded' \in Seq(Decodings)
  BY <1>1, <1>2 DEF TypeOK
<1>4. Located'
  <2>1. InStep' <=> InStep
    BY <1>1 DEF InStep
  <2>2. ASSUME NEW s \in Seq(Nat), NEW at \in Seq(Nat), Follows(s, at)  PROVE Follows(s, at)'
    BY <1>1, <2>2 DEF Follows, Piece
  <2> QED  BY <1>1, <1>2, <2>1, <2>2, LocatedKept
<1>5. ConnInv' /\ ShortInv' /\ ClosedInv'
  BY <1>1, <1>2 DEF ConnInv, ShortInv, ClosedInv, WritesAtOnce
<1>6. DecodedAsSent'
  BY <1>1, <1>2, DecodedKept
<1>7. StopsOnlyWhen'
  BY <1>1, <1>2, StopsKept
<1> QED  BY <1>3, <1>4, <1>5, <1>6, <1>7 DEF FramingInv

LEMMA NextKeeps ==
    ASSUME FramingInv, [Next]_vars
    PROVE  FramingInv'
<1>1. ASSUME NEW m \in Messages, Encode(m)  PROVE FramingInv'
  BY <1>1, EncodeKeeps
<1>2. CASE PeerCloses
  BY <1>2, PeerClosesKeeps
<1>3. CASE Message
  BY <1>3, MessageKeeps
<1>4. CASE OnClose
  BY <1>4, OnCloseKeeps
<1>5. CASE OnEnd
  BY <1>5, OnEndKeeps
<1>6. CASE OnError
  BY <1>6, OnErrorKeeps
<1>7. CASE Close
  BY <1>7, CloseKeeps
<1>8. CASE DecodeStep
  BY <1>8, DecodeStepKeeps
<1>9. CASE Answered
  BY <1>9, AnsweredKeeps
<1>10. CASE UNCHANGED vars
  BY <1>10, StutterKeeps
<1> QED  BY <1>1, <1>2, <1>3, <1>4, <1>5, <1>6, <1>7, <1>8, <1>9, <1>10 DEF Next

(* The units of the packet being read, of the buffer and of what is on its *)
(* way follow each other in the stream, from the end of the last message   *)
(* that was decoded (encode, every conn.read, readPacket, decode).         *)
THEOREM Invariance == Spec => []FramingInv
<1>1. Init => FramingInv
  BY InitHolds
<1>2. FramingInv /\ [Next]_vars => FramingInv'
  BY NextKeeps
<1> QED  BY <1>1, <1>2, PTL DEF Spec

(* The packet being read has the length its stage calls for, and what is   *)
(* decoded is a message of the protocol (readPacket, Unmarshal).           *)
THEOREM TypeCorrect == Spec => []TypeOK
<1>1. FramingInv => TypeOK
  BY DEF FramingInv
<1> QED  BY <1>1, Invariance, PTL

(* Whatever the messages and however the bytes are cut up, what is decoded *)
(* is what was sent, in order and field by field, but for a data message   *)
(* at the cut end of a socket and a Go Read that returned too little.      *)
THEOREM Decoded == Spec => []DecodedAsSent
<1>1. FramingInv => DecodedAsSent
  BY DEF FramingInv
<1> QED  BY <1>1, Invariance, PTL

(* The decoder fails only for what the connection did, or for an empty     *)
(* data message, and reports the end only when all has been decoded.       *)
THEOREM StopsFor == Spec => []StopsOnlyWhen
<1>1. FramingInv => StopsOnlyWhen
  BY DEF FramingInv
<1> QED  BY <1>1, Invariance, PTL
=============================================================================
