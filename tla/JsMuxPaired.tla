---------------------------- MODULE JsMuxPaired -----------------------------
(***************************************************************************)
(* What joins the two ends of JsMux, as long as nobody closes a channel    *)
(* twice: whose number is in a message, what is still to come for a        *)
(* channel, and where its bytes are.  With Sound it is the inductive       *)
(* invariant from which the properties of JsMux follow.                    *)
(* The parts are stated of values: cs, w and list are the channels of one  *)
(* end, what it has on the wire and its array; ps and v are the channels   *)
(* of the other end and what that has on the wire.                         *)
(***************************************************************************)
EXTENDS JsMuxInvariant

Messages(w) == {w[i] : i \in 1 .. Len(w)}

Carries(w, op, k) == \E m \in Messages(w) : m.op = op /\ m.src = k

Refuses(w, k) == \E m \in Messages(w) : m.op = "Failure" /\ m.to = k

-----------------------------------------------------------------------------
(* Numbers *)

(* No channel has been made for the Open of channel k of the other end. *)
NobodyFor(cs, k) == \A r \in 1 .. Len(cs) : ~cs[r].mine => cs[r].remote # k

(* An Open has been taken in once. *)
Single(cs) ==
    \A i, j \in 1 .. Len(cs) :
        ~cs[i].mine /\ ~cs[j].mine /\ cs[i].remote = cs[j].remote => i = j

(* Two channels that know each other; the one that was taken in knows the   *)
(* other first, and then has a Confirm under way, as long as the other end  *)
(* is alive. Who does not know its peer has heard nothing from it.          *)
Joined(cs, ps, w, alive, k) ==
    LET c == cs[k]
        peer == ps[c.remote]
    IN  /\ c.remote # 0 =>
            /\ peer.mine # c.mine
            /\ peer.remote \in {0, k}
            /\ c.mine => peer.remote = k
            /\ peer.remote = 0 => c.myWindow = Window
            /\ peer.remote = 0 /\ alive => Carries(w, "Confirm", k)
        /\ c.remote = 0 => ~c.sentClose /\ ~c.gotClose /\ ~c.gotEOF /\ c.myWindow = Window

(* Whose numbers are in a message m under way from cs to ps. *)
Addressed(cs, ps, v, m) ==
    /\ m.op = "Open" => /\ m.to = 0 /\ cs[m.src].mine /\ cs[m.src].remote = 0
                        /\ NobodyFor(ps, m.src)
    /\ m.op = "Confirm" => /\ m.to # 0 /\ ~cs[m.src].mine /\ cs[m.src].remote = m.to
                           /\ ps[m.to].remote = 0
    /\ m.op = "Failure" => /\ m.to \in 1 .. Len(ps)
                           /\ ps[m.to].mine /\ ps[m.to].remote = 0
                           /\ NobodyFor(cs, m.to) /\ ~Carries(v, "Open", m.to)
    /\ m.op \in {"Data", "EOF", "Close"} => m.to # 0 /\ cs[m.src].remote = m.to

RefusedOnce(w) ==
    \A i, j \in 1 .. Len(w) :
        w[i].op = "Failure" /\ w[j].op = "Failure" /\ w[i].to = w[j].to => i = j

Numbered(cs, ps, w, v, alive) ==
    /\ \A k \in 1 .. Len(cs) : Joined(cs, ps, w, alive, k)
    /\ \A m \in Messages(w) : Addressed(cs, ps, v, m)
    /\ Single(cs) /\ RefusedOnce(w)

-----------------------------------------------------------------------------
(* Closing *)

(* A Close has been decoded: it was the last message to channel k. *)
Over(c, ps, v, k) ==
    c.gotClose => /\ c.remote # 0 /\ ps[c.remote].sentClose
                  /\ \A m \in Messages(v) : m.to # k

(* A Failure has been decoded: nothing more comes, and open is told. *)
Refused(c, ps, w, v, k) ==
    /\ c.remote = 0 /\ OpenFails(c) /\ NobodyFor(ps, k)
    /\ ~Carries(w, "Open", k) /\ ~Refuses(v, k)

(* Channel k is in its place in the array until it is over. *)
Listed(list, c, ps, w, v, isClosed, k) ==
    /\ list[k] = k \/ c.readyClosed \/ Refused(c, ps, w, v, k)
    /\ c.readyClosed /\ ~isClosed => c.gotClose

Closing(list, cs, ps, w, v, isClosed) ==
    \A k \in 1 .. Len(cs) :
        Over(cs[k], ps, v, k) /\ Listed(list, cs[k], ps, w, v, isClosed, k)

-----------------------------------------------------------------------------
(* The bytes that a channel has sent *)

IsData(m, k) == m.op = "Data" /\ m.src = k

From(m) == m.data[1] - 1

UpTo(m) == m.data[Len(m.data)]

(* The bytes of a data message are numbered on, and are not too many. *)
Regular(m) ==
    Len(m.data) \in 1 .. MaxPayload /\ \A n \in 1 .. Len(m.data) : m.data[n] = From(m) + n

(* Message i begins where what has been received, or a message before it, ends. *)
Linked(received, w, k, i) ==
    \/ From(w[i]) = received
    \/ \E j \in 1 .. i - 1 : IsData(w[j], k) /\ UpTo(w[j]) = From(w[i])

AllUnderWay(sent, received, w, k) ==
    \/ received = sent
    \/ \E j \in 1 .. Len(w) : IsData(w[j], k) /\ UpTo(w[j]) = sent

(* The data messages of channel k join what its peer has received to what it   *)
(* has sent, in order and without a gap, unless it has sent too much; none is  *)
(* missing at the end while the connection lives, or before an EOF.            *)
Flows(sent, received, w, isOpen, k) ==
    /\ received <= sent
    /\ \A i \in 1 .. Len(w) : IsData(w[i], k) =>
        Regular(w[i]) /\ received <= From(w[i]) /\ UpTo(w[i]) <= sent /\ Linked(received, w, k, i)
    /\ \A i, j \in 1 .. Len(w) :
        IsData(w[i], k) /\ IsData(w[j], k) /\ j < i => UpTo(w[j]) <= From(w[i])
    /\ isOpen \/ Carries(w, "EOF", k) => AllUnderWay(sent, received, w, k)

Flow(c, received, w, isOpen, k) ==
    c.remote # 0 /\ ~c.over => Flows(c.sent, received, w, isOpen, k)

(* After its EOF channel k sends no data. *)
DataFirst(c, w, k) ==
    /\ Carries(w, "EOF", k) => c.sentEOF
    /\ \A i, j \in 1 .. Len(w) :
        w[j].op = "EOF" /\ w[j].src = k /\ j < i => ~IsData(w[i], k)

(* All that has been received has been read, unless the channel was shut down. *)
Settled(c) == c.gone /\ ~c.readyClosed => Len(c.got) = Window - c.myWindow

(* Who has decoded an EOF has all that its peer has sent. *)
HasAll(c, peer, v) ==
    c.gotEOF => /\ c.remote # 0 /\ peer.sentEOF
                /\ ~Carries(v, "Data", c.remote)
                /\ ~peer.over => peer.sent = Window - c.myWindow
                /\ Settled(c)

(* What has been read, and what waits in readBuf, is the beginning of what the *)
(* peer has sent.                                                               *)
Buffered(c, peer) == c.remote # 0 /\ ~peer.over => InRow(c.got, c.readBuf)

Received(c, ps) == Window - ps[c.remote].myWindow

Carried(cs, ps, w, v, isOpen) ==
    \A k \in 1 .. Len(cs) :
        /\ Flow(cs[k], Received(cs[k], ps), w, isOpen, k) /\ DataFirst(cs[k], w, k)
        /\ HasAll(cs[k], ps[cs[k].remote], v) /\ Buffered(cs[k], ps[cs[k].remote])

-----------------------------------------------------------------------------
Alive(e) == ~closed[e] /\ loop[e] # "dead"

IsOpen == \A e \in Ends : ~closed[e]

Paired ==
    \A x, y \in Ends : x # y =>
        /\ Numbered(chan[x], chan[y], wire[x], wire[y], Alive(y))
        /\ Closing(channels[x], chan[x], chan[y], wire[x], wire[y], closed[x])
        /\ Carried(chan[x], chan[y], wire[x], wire[y], IsOpen)

IInv == Sound /\ (ClosedTwice \/ Paired)
=============================================================================
