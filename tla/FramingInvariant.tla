--------------------------- MODULE FramingInvariant ---------------------------
(***************************************************************************)
(* The inductive invariant of Framing: where the units of the stream are.  *)
(* s is the stream of all that has been written and at[k] is where message *)
(* k ends in it; the packet that is being read, the buffer and what is on  *)
(* its way follow each other in s from the end of the last message that    *)
(* was decoded.                                                            *)
(***************************************************************************)
EXTENDS Framing

Sockets == {"nodeTcp", "go"}

Until(at, k) == IF k = 0 THEN 0 ELSE at[k]

(* Message k lies between the end of message k - 1 and its own. *)
Lies(s, at, k) ==
    LET e == Encoded(sent[k]) IN
    /\ at[k] = Until(at, k - 1) + Len(e) /\ at[k] <= Len(s)
    /\ \A n \in 1 .. Len(e) : s[Until(at, k - 1) + n] = e[n]

Stream(s, at) ==
    /\ Len(at) = Len(sent) /\ Until(at, Len(sent)) = Len(s)
    /\ \A k \in 1 .. Len(sent) : Lies(s, at, k)

(* The units are those of s from position from on. *)
Piece(units, s, from) == \A n \in 1 .. Len(units) : units[n] = s[from + n]

Follows(s, at) ==
    LET p == Until(at, Len(decoded))
        b == p + Len(packet)
        w == b + Len(buf)
    IN  /\ Len(decoded) <= Len(sent)
        /\ Piece(packet, s, p) /\ Piece(buf, s, b) /\ Piece(net, s, w)
        /\ w + Len(net) <= Len(s) /\ (~cut => w + Len(net) = Len(s))

(* A decoder that goes on, at a conn that has kept what arrived. *)
InStep == state \in Reading \cup {"busy"} /\ ~short /\ (closed => kind = "go")

Located == \E s \in Seq(Nat), at \in Seq(Nat) : Stream(s, at) /\ (InStep => Follows(s, at))

(* The end of the connection, as each conn is told of it. *)
ConnInv ==
    /\ cut => fin
    /\ error => cut /\ kind = "nodeTcp"
    /\ ended => fin /\ net = <<>> /\ kind \in Sockets
    /\ closed /\ ~asked => IF kind \in Sockets THEN kind = "nodeTcp" /\ cut ELSE fin /\ net = <<>>
    /\ state = "busy" => ~WritesAtOnce

(* A read is short at the end of a socket that was cut off, or in Go. *)
ShortInv ==
    /\ short => kind \in Sockets
    /\ short /\ kind = "nodeTcp" => cut /\ ended /\ buf = <<>>

(* A conn over a WebSocket that closed in order had passed on everything. *)
ClosedInv ==
    /\ closed /\ ~asked /\ ~cut /\ kind \notin Sockets /\ state # "failed" =>
        /\ state \notin {"rest", "data"}
        /\ decoded = sent \/ (kind = "nodeWs" /\ late)
    /\ state = "ended" => (asked \/ fin) /\ (kind \notin Sockets => closed)

(* What a decoder can make of any packet, also of one that Go read short. *)
Decodings == {MessageOf(UnmarshalFields, p) : p \in Seq(Nat)}

FramingInv ==
    /\ TypeOK /\ decoded \in Seq(Decodings) /\ Located /\ ConnInv /\ ShortInv /\ ClosedInv
    /\ DecodedAsSent /\ StopsOnlyWhen
=============================================================================
