-------------------------- MODULE JsMuxInvariant ---------------------------
(***************************************************************************)
(* What each end of JsMux knows for itself, an inductive invariant that    *)
(* holds whatever applications do: the types, that whatever refers to a    *)
(* channel refers to one there is, how the fields of a channel depend on   *)
(* each other, and in which order a channel's messages are on the wire.    *)
(***************************************************************************)
EXTENDS JsMux

Ops == {"Open", "Confirm", "Failure", "Data", "EOF", "Close"}

MessageType == [op: Ops, ok: BOOLEAN, src: Nat, to: Nat, data: Seq(Nat)]

ChannelType ==
    [mine: BOOLEAN, stage: {"opening", "incoming", "held", "failed"},
     remote: Nat, myWindow: 0..Window,
     sentEOF: BOOLEAN, gotEOF: BOOLEAN, sentClose: BOOLEAN, gotClose: BOOLEAN,
     readBuf: Seq(Nat), gone: BOOLEAN, readers: Seq(Nat),
     ready: Seq(BOOLEAN), readyClosed: BOOLEAN, waiters: Seq({"open", "close"}),
     sent: Nat, over: BOOLEAN, got: Seq(Nat), told: BOOLEAN, closes: Nat]

(* Types, and that whatever refers to a channel refers to one there is. *)
Shape ==
    /\ setting \in Settings
    /\ loop \in [Ends -> {"reading", "writing", "ended", "dead"}]
    /\ closed \in [Ends -> BOOLEAN] /\ broken \in BOOLEAN
    /\ chan \in [Ends -> Seq(ChannelType)]
    /\ channels \in [Ends -> Seq(Int)]
    /\ incoming \in [Ends -> Seq(Nat)]
    /\ pending \in [Ends -> Seq({"open", "close", "loop"} \X Nat)]
    /\ wire \in [Ends -> Seq(MessageType)]

ListRefers(e) ==
    /\ Len(channels[e]) = Len(chan[e])
    /\ \A i \in 1 .. Len(channels[e]) : channels[e][i] \in {Hole, Undefined} \cup 1 .. Len(chan[e])

IncomingRefers(e) ==
    \A i \in 1 .. Len(incoming[e]) :
        incoming[e][i] \in 1 .. Len(chan[e]) /\ ~chan[e][incoming[e][i]].mine

PendingRefers(e) ==
    \A i \in 1 .. Len(pending[e]) :
        LET who == pending[e][i][1]
            k == pending[e][i][2]
        IN  who # "loop" => k \in 1 .. Len(chan[e]) /\ (who = "close" => chan[e][k].sentClose)

(* The loop awaits one write at a time. *)
LoopWrites(e) ==
    \A i \in 1 .. Len(pending[e]) : pending[e][i][1] = "loop" =>
        loop[e] = "writing" /\ \A j \in 1 .. Len(pending[e]) : pending[e][j][1] = "loop" => i = j

RemoteRefers(e) ==
    \A k \in 1 .. Len(chan[e]) : chan[e][k].remote \in 0 .. Len(chan[Other(e)])

Refers(e) ==
    /\ ListRefers(e) /\ IncomingRefers(e) /\ PendingRefers(e) /\ LoopWrites(e)
    /\ RemoteRefers(e)

Total(s, t) == Len(s) + Len(t)

(* The bytes that have been read, and those that wait, are the first ones. *)
InRow(got, buf) ==
    /\ \A i \in 1 .. Len(got) : got[i] = i
    /\ \A i \in 1 .. Len(buf) : buf[i] = Len(got) + i

(* What a channel knows of itself. A channel without a number of its peer has *)
(* not been used; what has been taken out of the window is in readBuf or read. *)
Local(c) ==
    /\ c.remote = 0 => /\ c.mine /\ c.stage \notin {"incoming", "held"}
                       /\ \A i \in 1 .. Len(c.ready) : ~c.ready[i]
                       /\ ~c.sentEOF /\ c.sent = 0 /\ ~c.over /\ c.closes = 0
    /\ c.readyClosed => c.gone /\ c.readers = <<>> /\ c.waiters = <<>>
    /\ c.gone => c.readBuf = <<>>
    /\ c.gone /\ ~c.readyClosed => c.gotEOF
    /\ c.told /\ ~c.readyClosed => c.gone
    /\ ~c.gone => Total(c.got, c.readBuf) = Window - c.myWindow
    /\ Total(c.got, c.readBuf) <= Window - c.myWindow
    /\ c.sentClose /\ ~c.gotClose => c.closes > 0
    /\ \A i \in 1 .. Len(c.waiters) : c.waiters[i] = "close" => c.sentClose
    /\ ~c.over => c.sent <= Window

(* What is on the wire from e: who sends Open or Confirm has sent nothing     *)
(* before, who has sent Close sends nothing after.                            *)
Quiet(e) ==
    /\ \A i \in 1 .. Len(wire[e]) :
        LET m == wire[e][i] IN
        /\ m.ok = (e \in setting.acceptable)
        /\ m.src \in 0 .. Len(chan[e]) /\ (m.src = 0 <=> m.op = "Failure")
        /\ m.op = "Close" => chan[e][m.src].sentClose
    /\ \A i, j \in 1 .. Len(wire[e]) :
        j < i => /\ wire[e][i].op \in {"Open", "Confirm"} => wire[e][j].src # wire[e][i].src
                 /\ wire[e][j].op = "Close" => wire[e][j].src # wire[e][i].src

Locals == \A e \in Ends : \A k \in 1 .. Len(chan[e]) : Local(chan[e][k])

Refer == \A e \in Ends : Refers(e)

AllQuiet == \A e \in Ends : Quiet(e)

Sound == Shape /\ Refer /\ Locals /\ AllQuiet
=============================================================================
