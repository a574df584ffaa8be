------------------------------- MODULE JsMux --------------------------------
(***************************************************************************)
(* The JavaScript sessions and channels, two ends over one connection.     *)
(* Each end runs either javascript/mux ("mux") or the older                *)
(* javascript/legacy/qmux ("qmux"), which speak the same protocol.         *)
(* JavaScript runs until it awaits: an action is what runs between two     *)
(* awaits, and a promise that is resolved resumes its waiter at once.      *)
(* Channels are numbered from 1 here, from 0 in the code; since addCh always *)
(* adds a new number, a channel's localId is its place in chan.             *)
(***************************************************************************)
EXTENDS Integers, Sequences, FiniteSets

CONSTANTS
    Settings,     \* the settings to check, each a member of AnySetting
    Window,       \* channelWindowSize: bytes a channel ever takes in
    MaxPayload,   \* channelMaxPacket: bytes a data message may carry
    MaxInFlight   \* bound: messages on the wire before an application sends more

Ends == {"a", "b"}

Other(e) == IF e = "a" THEN "b" ELSE "a"

(* What is given from the start: the code at each end; which ends announce a *)
(* packet size that the other accepts; the bounds on the channels an end's    *)
(* application opens, the bytes it writes to each and the lengths it reads;   *)
(* the ends whose application may close the session; and whether applications *)
(* call closeWrite, and call close again, and the connection may end within a *)
(* message.                                                                   *)
AnySetting ==
    [impl: [Ends -> {"mux", "qmux"}], acceptable: SUBSET Ends,
     opens: [Ends -> Nat], bytes: [Ends -> Nat], lengths: SUBSET Nat,
     closers: SUBSET Ends, habits: SUBSET {"closeWrite", "closeTwice", "cutShort"}]

ASSUME WindowAssumption == Window \in Nat /\ MaxPayload \in Nat
ASSUME SettingsAssumption == Settings \subseteq AnySetting /\ MaxInFlight \in Nat

VARIABLES
    setting,   \* chosen once
    channels,  \* session.channels: channel, Hole or Undefined under each number
    chan,      \* every channel an end has made, in order
    incoming,  \* channels that wait for accept
    pending,   \* continuations that await the write of a message, in order
    loop,      \* session.loop: "reading", "writing", "ended" or "dead" (it threw)
    closed,    \* the conn is closed at this end
    wire,      \* messages an end has written and the other has not decoded
    broken     \* the connection ended within a message

vars == <<setting, channels, chan, incoming, pending, loop, closed, wire, broken>>

Hole == 0        \* a deleted element, which forEach skips
Undefined == -1  \* an element that was set to undefined, which forEach visits

(* A channel, and what its application and its peer have seen of it.       *)
(* remote: number at the other end; readBuf is gone once it is undefined;  *)
(* readers: lengths of the reads that wait; waiters: who awaits ready.     *)
(* sent, over: bytes written, and whether they overran what the peer takes *)
(* in; got: bytes read; told: a read has returned the end; closes: calls   *)
(* of close by the application.                                            *)
NewChannel(mine, remote) ==
    [mine |-> mine, stage |-> IF mine THEN "opening" ELSE "incoming",
     remote |-> remote, myWindow |-> Window,
     sentEOF |-> FALSE, gotEOF |-> FALSE, sentClose |-> FALSE, gotClose |-> FALSE,
     readBuf |-> <<>>, gone |-> FALSE, readers |-> <<>>,
     ready |-> <<>>, readyClosed |-> FALSE, waiters |-> <<>>,
     sent |-> 0, over |-> FALSE, got |-> <<>>, told |-> FALSE, closes |-> 0]

-----------------------------------------------------------------------------
(* util.queue, for ready: shift waits for what push brings *)

(* What open or close does with the value that its shift has brought: close *)
(* goes back to shift until that is undefined.                              *)
Resumed(c, who, value) ==
    IF who = "open"
    THEN [c EXCEPT !.stage = IF value THEN "held" ELSE "failed"]
    ELSE [c EXCEPT !.waiters = Append(@, "close")]

Push(c, value) ==
    IF c.waiters # <<>>
    THEN Resumed([c EXCEPT !.waiters = Tail(@)], Head(c.waiters), value)
    ELSE [c EXCEPT !.ready = Append(@, value)]

Shift(c, who) ==
    CASE c.readyClosed ->
            IF who = "open" THEN [c EXCEPT !.stage = "failed"] ELSE c
      [] ~c.readyClosed /\ c.ready # <<>> /\ who = "open" ->
            Resumed([c EXCEPT !.ready = Tail(@)], who, Head(c.ready))
      [] OTHER ->
            [c EXCEPT !.ready = IF who = "close" THEN <<>> ELSE @,
                      !.waiters = Append(@, who)]

(* Every waiter gets undefined: open throws, close returns. *)
CloseQueue(c) ==
    [c EXCEPT !.readyClosed = TRUE, !.ready = <<>>, !.waiters = <<>>,
              !.stage = IF \E i \in DOMAIN c.waiters : c.waiters[i] = "open"
                        THEN "failed" ELSE @]

-----------------------------------------------------------------------------
(* Channel: reading *)

(* Slip: what is taken stays in the buffer. *)
TakenAndKept(c, n) == [c EXCEPT !.got = @ \o SubSeq(c.readBuf, 1, n)]

Taken(c, n) ==
    [c EXCEPT !.got = @ \o SubSeq(c.readBuf, 1, n),
              !.readBuf = SubSeq(@, n + 1, Len(@))]

(* Slip: EOF ends the channel whatever is left in the buffer. *)
EndOnEOF(c) == [c EXCEPT !.gone = @ \/ c.gotEOF]

(* Once the buffer has been emptied after EOF there is nothing more to read. *)
EndIfEmpty(c) == [c EXCEPT !.gone = @ \/ (c.readBuf = <<>> /\ c.gotEOF)]

(* A read of length 0 takes the whole buffer. *)
TryReadMux(c, len) ==
    CASE c.gone -> [c EXCEPT !.told = TRUE]
      [] ~c.gone /\ len = 0 /\ c.readBuf # <<>> -> Taken(c, Len(c.readBuf))
      [] ~c.gone /\ (len # 0 \/ c.readBuf = <<>>) /\ len <= Len(c.readBuf) ->
            EndIfEmpty(Taken(c, len))
      [] OTHER -> [c EXCEPT !.readers = Append(@, len)]

TryReadQmux(c, len) ==
    CASE c.gone -> [c EXCEPT !.told = TRUE]
      [] ~c.gone /\ len <= Len(c.readBuf) -> EndIfEmpty(Taken(c, len))
      [] OTHER -> [c EXCEPT !.readers = Append(@, len)]

TryRead(e, c, len) ==
    IF setting.impl[e] = "mux" THEN TryReadMux(c, len) ELSE TryReadQmux(c, len)

WakeReader(e, c) ==
    IF c.readers = <<>> THEN c
    ELSE TryRead(e, [c EXCEPT !.readers = Tail(@)], Head(c.readers))

(* handleData, which is called with what the peer sent: the channel after it, *)
(* and whether it threw.                                                      *)
HandleDataMux(e, c, data) ==
    IF Len(data) > MaxPayload \/ Len(data) > c.myWindow
    THEN [threw |-> TRUE, channel |-> c]
    ELSE [threw |-> FALSE,
          channel |-> WakeReader(e,
              [c EXCEPT !.myWindow = @ - Len(data),
                        !.readBuf = IF c.gone THEN @ ELSE @ \o data])]

(* An async function that nobody awaits: what it throws kills no loop, and *)
(* the data are lost.                                                      *)
HandleDataQmux(e, c, data) ==
    [threw |-> FALSE,
     channel |->
        CASE data = <<>> \/ Len(data) > MaxPayload \/ Len(data) > c.myWindow -> c
          [] data # <<>> /\ Len(data) <= MaxPayload /\ Len(data) <= c.myWindow /\ c.gone ->
                [c EXCEPT !.myWindow = @ - Len(data)]
          [] OTHER -> WakeReader(e, [c EXCEPT !.myWindow = @ - Len(data),
                                              !.readBuf = @ \o data])]

HandleData(e, c, data) ==
    IF setting.impl[e] = "mux" THEN HandleDataMux(e, c, data) ELSE HandleDataQmux(e, c, data)

(* channel.shutdown, without its rmCh: whoever waits is told. *)
ShutDown(c) ==
    CloseQueue([c EXCEPT !.gone = TRUE, !.readBuf = <<>>,
                         !.told = @ \/ c.readers # <<>>, !.readers = <<>>])

-----------------------------------------------------------------------------
(* Session: the array of channels *)

GetCh(list, id) == IF id \in DOMAIN list /\ list[id] > 0 THEN list[id] ELSE Hole

FillUndefined(list, k) == [i \in DOMAIN list |-> IF list[i] = Undefined THEN k ELSE list[i]]

(* The return in the callback of forEach does not leave addCh: the channel  *)
(* is put under every number set to undefined and under a new one, which is *)
(* the one it knows itself by.                                              *)
AddCh(list, k) == Append(FillUndefined(list, k), k)

RmChMux(list, id) == [list EXCEPT ![id] = Hole]

RmChQmux(list, id) == [list EXCEPT ![id] = Undefined]

RmCh(e, list, id) ==
    IF setting.impl[e] = "mux" THEN RmChMux(list, id) ELSE RmChQmux(list, id)

-----------------------------------------------------------------------------
(* What is sent, and where an action leaves a channel *)

(* ok: the sender announces a packet size that the receiver accepts; src: *)
(* the channel of the sender that the message is from.                    *)
Message(op, e, src, to, data) ==
    [op |-> op, ok |-> e \in setting.acceptable, src |-> src, to |-> to, data |-> data]

(* What is on the wires w once e has sent m: the conns swallow what is *)
(* written after the connection has gone.                              *)
Sent(w, e, m) ==
    IF closed[e] \/ closed[Other(e)] THEN w ELSE [w EXCEPT ![e] = Append(@, m)]

Send(e, m) == wire' = Sent(wire, e, m)

(* Slip: a channel's own number instead of its peer's. *)
FromOwnNumber(op, e, k, data) == Message(op, e, k, k, data)

FromChannel(op, e, k, data) == Message(op, e, k, chan[e][k].remote, data)

(* Neither write looks at the window; the bytes of a channel are numbered. *)
DataMessage(e, k, n) == FromChannel("Data", e, k, [i \in 1..n |-> chan[e][k].sent + i])

Await(e, who, k) == pending' = [pending EXCEPT ![e] = Append(@, <<who, k>>)]

Put(e, k, c) == chan' = [chan EXCEPT ![e][k] = c]

(* newChannel: it is listed before anything is sent about it. *)
AddChannel(e, mine, remote) ==
    /\ chan' = [chan EXCEPT ![e] = Append(@, NewChannel(mine, remote))]
    /\ channels' = [channels EXCEPT ![e] = AddCh(@, Len(chan[e]) + 1)]

(* The whole of channel.shutdown. *)
Shut(e, k, c) ==
    /\ Put(e, k, ShutDown(c))
    /\ channels' = [channels EXCEPT ![e] = RmCh(e, @, k)]

Room(e) == Len(wire[e]) < MaxInFlight

Held(e) == {k \in DOMAIN chan[e] : chan[e][k].stage = "held"}

Opened(e) == {k \in DOMAIN chan[e] : chan[e][k].mine}

Init ==
    /\ setting \in Settings
    /\ channels = [e \in Ends |-> <<>>]
    /\ chan = [e \in Ends |-> <<>>]
    /\ incoming = [e \in Ends |-> <<>>]
    /\ pending = [e \in Ends |-> <<>>]
    /\ loop = [e \in Ends |-> "reading"]
    /\ closed = [e \in Ends |-> FALSE]
    /\ wire = [e \in Ends |-> <<>>]
    /\ broken = FALSE

-----------------------------------------------------------------------------
(* The application *)

(* Session.open up to the write of its message: it does not ask whether the *)
(* session has been closed.                                                  *)
Open(e) ==
    /\ Cardinality(Opened(e)) < setting.opens[e] /\ Room(e)
    /\ AddChannel(e, TRUE, 0)
    /\ Send(e, Message("Open", e, Len(chan[e]) + 1, 0, <<>>))
    /\ Await(e, "open", Len(chan[e]) + 1)
    /\ UNCHANGED <<setting, incoming, loop, closed, broken>>

Accept(e) ==
    /\ incoming[e] # <<>>
    /\ incoming' = [incoming EXCEPT ![e] = Tail(@)]
    /\ chan' = [chan EXCEPT ![e][Head(incoming[e])].stage = "held"]
    /\ UNCHANGED <<setting, channels, pending, loop, closed, wire, broken>>

Read(e, k, len) ==
    /\ k \in Held(e) /\ chan[e][k].readers = <<>> /\ ~chan[e][k].told
    /\ Put(e, k, TryRead(e, chan[e][k], len))
    /\ UNCHANGED <<setting, channels, incoming, pending, loop, closed, wire, broken>>

Write(e, k, n) ==
    LET c == chan[e][k] IN
    /\ k \in Held(e) /\ ~c.sentEOF /\ ~c.sentClose
    /\ Room(e) /\ c.sent + n <= setting.bytes[e]
    /\ Send(e, DataMessage(e, k, n))
    /\ Put(e, k, [c EXCEPT !.sent = @ + n,
                           !.over = @ \/ n > MaxPayload \/ c.sent + n > Window])
    /\ UNCHANGED <<setting, channels, incoming, pending, loop, closed, broken>>

(* Slip: send does not look at sentClose. *)
CloseWriteAnyway(e, k) ==
    /\ "closeWrite" \in setting.habits /\ k \in Held(e) /\ Room(e)
    /\ ~chan[e][k].sentEOF
    /\ Send(e, FromChannel("EOF", e, k, <<>>))
    /\ Put(e, k, [chan[e][k] EXCEPT !.sentEOF = TRUE])
    /\ UNCHANGED <<setting, channels, incoming, pending, loop, closed, broken>>

CloseWrite(e, k) ==
    /\ "closeWrite" \in setting.habits /\ k \in Held(e) /\ Room(e)
    /\ ~chan[e][k].sentEOF /\ ~chan[e][k].sentClose
    /\ Send(e, FromChannel("EOF", e, k, <<>>))
    /\ Put(e, k, [chan[e][k] EXCEPT !.sentEOF = TRUE])
    /\ UNCHANGED <<setting, channels, incoming, pending, loop, closed, broken>>

(* Slip: whoever sends Close shuts the channel down without the answer. *)
CloseAtOnce(e, k, c, w) ==
    /\ wire' = IF c.sentClose THEN w ELSE Sent(w, e, FromChannel("Close", e, k, <<>>))
    /\ Shut(e, k, [c EXCEPT !.sentClose = TRUE])
    /\ UNCHANGED pending

(* Slip: the channel is unlisted with its first Close, but not shut down. *)
CloseAndForget(e, k, c, w) ==
    /\ wire' = IF c.sentClose THEN w ELSE Sent(w, e, FromChannel("Close", e, k, <<>>))
    /\ Put(e, k, [c EXCEPT !.sentClose = TRUE])
    /\ channels' = [channels EXCEPT ![e] = RmCh(e, @, k)]
    /\ Await(e, "close", k)

(* Channel.close up to its await, which the loop calls too: c is the channel *)
(* with what the caller has noted in it, w what its message is added to. The *)
(* second call shuts the channel down.                                       *)
CloseChannel(e, k, c, w) ==
    \/ /\ ~c.sentClose
       /\ wire' = Sent(w, e, FromChannel("Close", e, k, <<>>))
       /\ Await(e, "close", k)
       /\ Put(e, k, [c EXCEPT !.sentClose = TRUE])
       /\ UNCHANGED channels
    \/ /\ c.sentClose
       /\ Shut(e, k, c)
       /\ wire' = w
       /\ UNCHANGED pending

Close(e, k) ==
    /\ k \in Held(e) /\ Room(e)
    /\ chan[e][k].closes < IF "closeTwice" \in setting.habits THEN 2 ELSE 1
    /\ CloseChannel(e, k, [chan[e][k] EXCEPT !.closes = @ + 1], wire)
    /\ UNCHANGED <<setting, incoming, loop, closed, broken>>

(* Slip: only the connection is closed. *)
CloseConn(e) == closed' = [closed EXCEPT ![e] = TRUE] /\ UNCHANGED <<chan, channels>>

(* Session.close: every channel that is listed is shut down and unlisted. *)
CloseSession(e) ==
    LET listed == {channels[e][i] : i \in DOMAIN channels[e]} IN
    /\ closed' = [closed EXCEPT ![e] = TRUE]
    /\ chan' = [chan EXCEPT ![e] =
           [k \in DOMAIN @ |-> IF k \in listed THEN ShutDown(@[k]) ELSE @[k]]]
    /\ channels' = [channels EXCEPT ![e] =
           [i \in DOMAIN @ |-> IF i \in listed THEN RmCh(e, @, i)[i] ELSE @[i]]]

Terminate(e) ==
    /\ e \in setting.closers /\ ~closed[e]
    /\ CloseSession(e)
    /\ UNCHANGED <<setting, incoming, pending, loop, wire, broken>>

-----------------------------------------------------------------------------
(* What is awaited *)

(* The conn has written the oldest message that is awaited: open and close *)
(* go on to wait at ready, handleOpen gives the loop back.                 *)
Wrote(e) ==
    /\ pending[e] # <<>>
    /\ pending' = [pending EXCEPT ![e] = Tail(@)]
    /\ LET who == Head(pending[e])[1]
           k == Head(pending[e])[2]
       IN  IF who = "loop"
           THEN loop' = [loop EXCEPT ![e] = "reading"] /\ UNCHANGED chan
           ELSE Put(e, k, Shift(chan[e][k], who)) /\ UNCHANGED loop
    /\ UNCHANGED <<setting, channels, incoming, closed, wire, broken>>

(* The connection has gone between two messages: the loop closes the session. *)
LoopEnds(e) ==
    /\ loop[e] = "reading" /\ (closed[e] \/ closed[Other(e)])
    /\ loop' = [loop EXCEPT ![e] = "ended"]
    /\ CloseSession(e)
    /\ UNCHANGED <<setting, incoming, pending, wire, broken>>

(* It has gone within a message: the loop throws and closes nothing. *)
LoopBroken(e) ==
    /\ loop[e] = "reading" /\ (closed[e] \/ closed[Other(e)]) /\ "cutShort" \in setting.habits
    /\ loop' = [loop EXCEPT ![e] = "dead"]
    /\ broken' = TRUE
    /\ UNCHANGED <<setting, channels, chan, incoming, pending, closed, wire>>

-----------------------------------------------------------------------------
(* The loop: what it does with a message *)

(* The message that the loop of e decodes next, if there is one. *)
Incoming(e) ==
    IF loop[e] = "reading" /\ ~closed[e] /\ wire[Other(e)] # <<>>
    THEN {Head(wire[Other(e)])} ELSE {}

Decoded(e) == [wire EXCEPT ![Other(e)] = Tail(@)]

Dies(e) ==
    /\ loop' = [loop EXCEPT ![e] = "dead"]
    /\ wire' = Decoded(e)

(* An Open that announces a packet size that is not accepted is refused. *)
Refuse(e) ==
    \E m \in Incoming(e) :
        /\ m.op = "Open" /\ ~m.ok
        /\ wire' = Sent(Decoded(e), e, Message("Failure", e, 0, m.src, <<>>))
        /\ UNCHANGED <<channels, chan, incoming>>

TakeIn(e) ==
    \E m \in Incoming(e) :
        LET k == Len(chan[e]) + 1 IN
        /\ m.op = "Open" /\ m.ok
        /\ AddChannel(e, FALSE, m.src)
        /\ incoming' = [incoming EXCEPT ![e] = Append(@, k)]
        /\ wire' = Sent(Decoded(e), e, Message("Confirm", e, k, m.src, <<>>))

(* handleOpen up to its await. *)
HandleOpen(e) ==
    /\ Refuse(e) \/ TakeIn(e)
    /\ loop' = [loop EXCEPT ![e] = "writing"]
    /\ Await(e, "loop", 0)
    /\ UNCHANGED <<setting, closed, broken>>

(* getCh reads localId of what is not there: a TypeError. *)
InvalidChannel(e) ==
    /\ \E m \in Incoming(e) : m.op # "Open" /\ GetCh(channels[e], m.to) = Hole
    /\ Dies(e)
    /\ UNCHANGED <<setting, channels, chan, incoming, pending, closed, broken>>

HandleConfirm(e) ==
    /\ \E m \in Incoming(e) :
        LET k == GetCh(channels[e], m.to) IN
        /\ m.op = "Confirm" /\ k # Hole
        /\ \/ /\ ~m.ok
              /\ Dies(e) /\ UNCHANGED chan
           \/ /\ m.ok
              /\ Put(e, k, Push([chan[e][k] EXCEPT !.remote = m.src], TRUE))
              /\ wire' = Decoded(e) /\ UNCHANGED loop
    /\ UNCHANGED <<setting, channels, incoming, pending, closed, broken>>

HandleFailure(e) ==
    /\ \E m \in Incoming(e) :
        LET k == GetCh(channels[e], m.to) IN
        /\ m.op = "Failure" /\ k # Hole
        /\ channels' = [channels EXCEPT ![e] = RmCh(e, @, m.to)]
        /\ Put(e, k, Push(chan[e][k], FALSE))
        /\ wire' = Decoded(e)
    /\ UNCHANGED <<setting, incoming, pending, loop, closed, broken>>

(* The loop dies of what handleData throws. *)
ReceiveData(e) ==
    /\ \E m \in Incoming(e) :
        LET k == GetCh(channels[e], m.to)
            handled == HandleData(e, chan[e][k], m.data)
        IN  /\ m.op = "Data" /\ k # Hole
            /\ \/ /\ handled.threw
                  /\ Dies(e) /\ UNCHANGED chan
               \/ /\ ~handled.threw
                  /\ Put(e, k, handled.channel)
                  /\ wire' = Decoded(e) /\ UNCHANGED loop
    /\ UNCHANGED <<setting, channels, incoming, pending, closed, broken>>

(* EOF is noted for the reads to come; those that wait are not woken. *)
HandleEOF(e) ==
    /\ \E m \in Incoming(e) :
        LET k == GetCh(channels[e], m.to) IN
        /\ m.op = "EOF" /\ k # Hole
        /\ Put(e, k, [chan[e][k] EXCEPT !.gotEOF = TRUE])
        /\ wire' = Decoded(e)
    /\ UNCHANGED <<setting, channels, incoming, pending, loop, closed, broken>>

(* Slip: Close is noted and not answered. *)
NoteClose(e) ==
    /\ \E m \in Incoming(e) :
        LET k == GetCh(channels[e], m.to) IN
        /\ m.op = "Close" /\ k # Hole
        /\ Put(e, k, [chan[e][k] EXCEPT !.gotClose = TRUE])
        /\ wire' = Decoded(e)
    /\ UNCHANGED <<setting, channels, incoming, pending, loop, closed, broken>>

(* Close is answered by the same close that the application calls. *)
HandleClose(e) ==
    /\ \E m \in Incoming(e) :
        LET k == GetCh(channels[e], m.to) IN
        /\ m.op = "Close" /\ k # Hole
        /\ CloseChannel(e, k, [chan[e][k] EXCEPT !.gotClose = TRUE], Decoded(e))
    /\ UNCHANGED <<setting, incoming, loop, closed, broken>>

Handle(e) ==
    \/ HandleConfirm(e)
    \/ HandleFailure(e)
    \/ ReceiveData(e)
    \/ HandleEOF(e)
    \/ HandleClose(e)

Receive(e) ==
    \/ HandleOpen(e)
    \/ InvalidChannel(e)
    \/ Handle(e)

Application(e) ==
    \/ Open(e)
    \/ Accept(e)
    \/ Terminate(e)
    \/ \E k \in Held(e) :
        \/ \E len \in setting.lengths : Read(e, k, len)
        \/ \E n \in 1..setting.bytes[e] : Write(e, k, n)
        \/ CloseWrite(e, k)
        \/ Close(e, k)

Next == \E e \in Ends :
    Application(e) \/ Wrote(e) \/ LoopEnds(e) \/ LoopBroken(e) \/ Receive(e)

Spec == Init /\ [][Next]_vars

Runs(e) == Wrote(e) \/ LoopEnds(e) \/ Receive(e)

(* Something that can go on does; nothing is asked of the applications. *)
Fairness == WF_vars(\E e \in Ends : Runs(e))

FairSpec == Spec /\ Fairness

-----------------------------------------------------------------------------
(* Properties *)

ClosedTwice == \E e \in Ends : \E k \in DOMAIN chan[e] : chan[e][k].closes > 1

Overrun(e) == \E k \in DOMAIN chan[e] : chan[e][k].over

(* Every variable has its type. *)
TypeOK ==
    /\ setting \in Settings
    /\ loop \in [Ends -> {"reading", "writing", "ended", "dead"}]
    /\ closed \in [Ends -> BOOLEAN] /\ broken \in BOOLEAN
    /\ \A e \in Ends :
        /\ Len(channels[e]) = Len(chan[e])
        /\ \A i \in DOMAIN channels[e] : channels[e][i] \in {Hole, Undefined} \cup DOMAIN chan[e]
        /\ \A k \in DOMAIN chan[e] :
            /\ chan[e][k].stage \in {"opening", "incoming", "held", "failed"}
            /\ chan[e][k].myWindow \in 0..Window
            /\ chan[e][k].waiters \in Seq({"open", "close"})

(* A session's loop dies only of what the peer did against the protocol, of  *)
(* a channel closed twice, or of a connection that ended within a message: no *)
(* order of opening, closing and ending kills it.                            *)
OnlyOverrunKills ==
    \A e \in Ends : loop[e] = "dead" =>
        \/ broken
        \/ ClosedTwice
        \/ Other(e) \notin setting.acceptable
        \/ setting.impl[e] = "mux" /\ Overrun(Other(e))

(* Whatever a channel has sent finds the channel it is connected to, under  *)
(* the number it was sent to, however often numbers have been given out, as *)
(* long as nobody closes a channel twice.                                   *)
Routed ==
    ClosedTwice \/ \A e \in Ends : \A i \in DOMAIN wire[e] :
        LET m == wire[e][i] IN
        m.op \notin {"Open", "Failure"} /\ ~closed[Other(e)] =>
            /\ GetCh(channels[Other(e)], m.to) = m.to
            /\ chan[e][m.src].remote = m.to
            /\ chan[Other(e)][m.to].remote \in {0, m.src}

(* What a channel reads is what its peer wrote, in order, nothing twice and   *)
(* nothing left out, until it is closed or the peer has overrun the window.   *)
ReadsInOrder ==
    \A e \in Ends : \A k \in DOMAIN chan[e] :
        LET c == chan[e][k] 
            peer == chan[Other(e)][c.remote]
            read == c.got \o c.readBuf
        IN  c.remote # 0 /\ ~ClosedTwice /\ ~peer.over =>
                /\ read = [i \in 1..Len(read) |-> i]
                /\ Len(read) <= peer.sent

(* A read returns the end only when the channel has been closed, or when the *)
(* peer has ended its data and all of them have been read.                   *)
EofMeansAll ==
    \A e \in Ends : \A k \in DOMAIN chan[e] :
        LET c == chan[e][k]
            peer == chan[Other(e)][c.remote]
        IN  c.told /\ ~c.readyClosed /\ ~ClosedTwice =>
                c.remote # 0 /\ peer.sentEOF /\ (peer.over \/ Len(c.got) = peer.sent)

(* After its Close a channel sends nothing more: handleClose and the         *)
(* application answer each other at awaits.                                  *)
NothingAfterClose ==
    \A e \in Ends : \A i, j \in DOMAIN wire[e] :
        i < j /\ wire[e][i].op = "Close" => wire[e][j].src # wire[e][i].src

(* A channel that an application holds, or may accept, is listed under its *)
(* number until it has been shut down.                                     *)
ListedWhileOpen ==
    ClosedTwice \/ \A e \in Ends : \A k \in DOMAIN chan[e] :
        ~chan[e][k].readyClosed /\ chan[e][k].stage \in {"incoming", "held"}
            => channels[e][k] = k

(* The array of channels is right, holes and undefined elements included: no *)
(* order of opening and closing takes away the number of a channel in use.    *)
ListInv == TypeOK /\ ListedWhileOpen

(* open has been told, or is about to be, that the peer has refused. *)
OpenFails(c) == c.stage = "failed" \/ \E i \in DOMAIN c.ready : ~c.ready[i]

(* When a session ends its channels are shut down, but for those that were    *)
(* refused; and a channel that is shut down leaves nobody waiting in it: no   *)
(* read, no close, no open.                                                   *)
EndTellsAll ==
    [][\A e \in Ends :
        /\ closed'[e] /\ ~closed[e] =>
            \A k \in DOMAIN chan[e] :
                ClosedTwice \/ OpenFails(chan[e][k]) \/ chan'[e][k].readyClosed
        /\ \A k \in DOMAIN chan'[e] :
            chan'[e][k].readyClosed => chan'[e][k].readers = <<>> /\ chan'[e][k].waiters = <<>>]_vars

(* Every channel there can be. *)
Anyone == Ends \X UNION {1 .. s.opens["a"] + s.opens["b"] : s \in Settings}

Has(x) == x[2] \in DOMAIN chan[x[1]]

Chan(x) == chan[x[1]][x[2]]

LoopDied == \E e \in Ends : loop[e] = "dead"

(* open and close of a channel return, whether or not the peer, or either   *)
(* application, closes the channel or the session meanwhile; unless a loop  *)
(* has died. Left out is an open that comes after the session's loop has     *)
(* ended: its Open is swallowed by the conn, nobody shuts its channel down   *)
(* any more, and it waits at ready for ever.                                 *)
CallsReturn ==
    \A x \in Anyone :
        (/\ Has(x)
         /\ \/ Chan(x).stage = "opening" /\ loop[x[1]] \in {"reading", "writing"}
            \/ Chan(x).closes > 0) ~>
            (LoopDied \/ (Has(x) /\ Chan(x).stage # "opening"
                                /\ (Chan(x).closes > 0 => Chan(x).readyClosed)))

(* spec/qmux.md: "The channel is considered closed for a party when it has   *)
(* both sent and received QMUX_MSG_CHANNEL_CLOSE". The party that answers a  *)
(* Close does not close its channel: who reads from it waits for ever.       *)
ClosedIsClosed ==
    \A x \in Anyone :
        (Has(x) /\ Chan(x).sentClose /\ Chan(x).gotClose) ~> (Has(x) /\ Chan(x).readyClosed)
=============================================================================
