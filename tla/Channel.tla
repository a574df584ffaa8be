------------------------------ MODULE Channel -------------------------------
(***************************************************************************)
(* One established channel of golang/mux, end to end: the two `channel`    *)
(* objects (channel.go), their `window` and `buffer` (util.go) and, of the *)
(* two sessions (session.go), the read loop as far as this channel is      *)
(* concerned.  Opening, channel ids and the channel list are in Session.   *)
(*                                                                         *)
(* At each end four goroutines interleave: the session's read loop, one    *)
(* writer, one reader, and whoever calls Close, CloseWrite or              *)
(* Session.Close.  A step is what happens under one lock, or one message   *)
(* written to the connection.                                              *)
(*                                                                         *)
(* A byte is abstracted to its offset in the stream of the end that wrote  *)
(* it.  A data message carries the n bytes that end at offset `at`.  The   *)
(* other messages carry `at` too, and all carry `adj`, the sum of the      *)
(* window adjustments sent so far: history that no guard reads.            *)
(***************************************************************************)
EXTENDS Integers, Sequences

CONSTANTS
    WindowOf,     \* channelWindowSize: the window each end grants its peer
    MaxPacketOf,  \* channelMaxPacket: the largest payload each end accepts
    Word,         \* 2^32: window counters are uint32
    MaxBytes,     \* bound: bytes the application writes at each end
    MaxInFlight,  \* bound: messages the connection holds before Write blocks
    MayCloseSession  \* bound: the ends whose application closes the session

Ends == {"opener", "acceptor"}

Other(e) == IF e = "opener" THEN "acceptor" ELSE "opener"

ASSUME ChannelAssumption ==
    /\ Word \in Nat \ {0}
    /\ WindowOf \in [Ends -> 0 .. Word - 1]
    /\ MaxPacketOf \in [Ends -> Nat \ {0}]
    /\ MaxBytes \in [Ends -> Nat]
    /\ MaxInFlight \in Nat \ {0}
    /\ MayCloseSession \subseteq Ends

VARIABLES
    remoteWin,   \* remoteWin.win
    winClosed,   \* remoteWin.closed
    myWindow,    \* myWindow
    pending,     \* pending: the bytes received and not yet read
    bufClosed,   \* pending.closed
    sentEOF,     \* sentEOF
    sentClose,   \* sentClose
    linked,      \* the channel is in its session's chanList
    connClosed,  \* the session's conn has been closed at this end
    loop,        \* where the session's read loop is
    err,         \* why the read loop ended
    wire,        \* wire[e]: messages written by e and not yet decoded by Other(e)
    writer,      \* the goroutine in Write: place, bytes left, bytes reserved
    reader,      \* the goroutine in Read: place, bytes taken from the buffer
    sent,        \* bytes put on the wire
    fin,         \* sent when the first EOF or Close was put on the wire, or -1
    got,         \* the bytes Read has returned
    eof,         \* Read has returned io.EOF
    adjusted,    \* sum of the window adjustments put on the wire
    acked        \* sum of the window adjustments added to remoteWin

vars == <<remoteWin, winClosed, myWindow, pending, bufClosed, sentEOF, sentClose,
          linked, connClosed, loop, err, wire, writer, reader, sent, fin, got, eof,
          adjusted, acked>>

Idle == [pc |-> "idle", todo |-> 0, space |-> 0]

Resting == [pc |-> "idle", n |-> 0]

Init ==
    /\ remoteWin = [e \in Ends |-> WindowOf[Other(e)]]
    /\ winClosed = [e \in Ends |-> FALSE]
    /\ myWindow = WindowOf
    /\ pending = [e \in Ends |-> <<>>]
    /\ bufClosed = [e \in Ends |-> FALSE]
    /\ sentEOF = [e \in Ends |-> FALSE]
    /\ sentClose = [e \in Ends |-> FALSE]
    /\ linked = [e \in Ends |-> TRUE]
    /\ connClosed = [e \in Ends |-> FALSE]
    /\ loop = [e \in Ends |-> "reading"]
    /\ err = [e \in Ends |-> "none"]
    /\ wire = [e \in Ends |-> <<>>]
    /\ writer = [e \in Ends |-> Idle]
    /\ reader = [e \in Ends |-> Resting]
    /\ sent = [e \in Ends |-> 0]
    /\ fin = [e \in Ends |-> -1]
    /\ got = [e \in Ends |-> <<>>]
    /\ eof = [e \in Ends |-> FALSE]
    /\ adjusted = [e \in Ends |-> 0]
    /\ acked = [e \in Ends |-> 0]

-----------------------------------------------------------------------------
(* Slips this code could have had: each is a wrong form of one definition    *)
(* below, which some property must catch.  The specification uses none.      *)

ReservedBeyondWindow(asked, win) == asked

RemainingWithOverlap(buf, n) == SubSeq(buf, n, Len(buf))

RemainingWithGap(buf, n) == SubSeq(buf, n + 2, Len(buf))

DrainedUnchecked(e) == TRUE

RefusedNever(e) == FALSE

SignalEOFForgotten(e) == UNCHANGED bufClosed

CloseWindowForgotten(e) == UNCHANGED winClosed

ChargedNothing(win, n) == win

ReplyForgotten(e) == <<>>

-----------------------------------------------------------------------------
Smaller(a, b) == IF a < b THEN a ELSE b

(* window.reserve gives what is asked for, or as much as the window holds. *)
Reserved(asked, win) == Smaller(asked, win)

(* buffer.Read leaves what it did not copy. *)
Remaining(buf, n) == SubSeq(buf, n + 1, Len(buf))

(* buffer.Read looks at closed only when nothing is buffered. *)
Drained(e) == pending[e] = <<>>

Message(type, n, at, adj) == [type |-> type, n |-> n, at |-> at, adj |-> adj]

(* enc.Encode fails on a connection this end has closed.  What is written to *)
(* a peer that has closed the connection is never decoded.                   *)
Encode(e, m) ==
    wire' = IF connClosed[e] \/ connClosed[Other(e)] THEN wire
            ELSE [wire EXCEPT ![e] = Append(@, m)]

(* conn.Close: what the peer has written can no longer be read. *)
CloseConn(e) ==
    /\ connClosed' = [connClosed EXCEPT ![e] = TRUE]
    /\ wire' = [wire EXCEPT ![Other(e)] = <<>>]

(* channel.send refuses every message once Close was sent. *)
Refused(e) == sentClose[e]

Ended(e) ==
    fin' = IF Refused(e) \/ connClosed[e] \/ fin[e] # -1
           THEN fin ELSE [fin EXCEPT ![e] = sent[e]]

(* channel.send of an EOF or Close message. *)
SendEnd(e, type) ==
    /\ IF Refused(e) THEN UNCHANGED wire
                     ELSE Encode(e, Message(type, 0, sent[e], adjusted[e]))
    /\ Ended(e)

-----------------------------------------------------------------------------
(* Write *)

(* sentEOF is read without a lock; a stale read is a call that began before  *)
(* CloseWrite, which this order of steps includes.                           *)
WriteCall(e) ==
    /\ writer[e].pc = "idle"
    /\ ~sentEOF[e]
    /\ \E k \in 1 .. MaxBytes[e] - sent[e] :
          writer' = [writer EXCEPT ![e] = [pc |-> "reserve", todo |-> k, space |-> 0]]
    /\ UNCHANGED <<remoteWin, winClosed, myWindow, pending, bufClosed, sentEOF,
                   sentClose, linked, connClosed, loop, err, wire, reader, sent, fin,
                   got, eof, adjusted, acked>>

(* window.reserve: what Write asks for, as much of it as the window holds.   *)
(* A closed window still gives up its space, and Write returns io.EOF.  min  *)
(* converts len(data) to uint32 before it compares.                          *)
Reserve(e) ==
    LET asked == Smaller(MaxPacketOf[Other(e)], writer[e].todo % Word)
        space == Reserved(asked, remoteWin[e])
    IN  /\ writer[e].pc = "reserve"
        /\ remoteWin[e] > 0 \/ winClosed[e]
        /\ remoteWin' = [remoteWin EXCEPT ![e] = @ - space]
        /\ writer' = [writer EXCEPT ![e] =
                        IF winClosed[e] THEN Idle
                        ELSE [pc |-> "encode", todo |-> @.todo, space |-> space]]
        /\ UNCHANGED <<winClosed, myWindow, pending, bufClosed, sentEOF, sentClose,
                       linked, connClosed, loop, err, wire, reader, sent, fin, got,
                       eof, adjusted, acked>>

(* The data message goes straight to the session's encoder, not through      *)
(* channel.send: neither writeMu nor sentClose is consulted.                 *)
WriteData(e) ==
    LET n == writer[e].space
        left == writer[e].todo - n
    IN  /\ writer[e].pc = "encode"
        /\ connClosed[e] \/ Len(wire[e]) < MaxInFlight
        /\ Encode(e, Message("Data", n, sent[e] + n, adjusted[e]))
        /\ sent' = IF connClosed[e] THEN sent ELSE [sent EXCEPT ![e] = @ + n]
        /\ writer' = [writer EXCEPT ![e] =
                        IF connClosed[e] \/ left = 0 THEN Idle
                        ELSE [pc |-> "reserve", todo |-> left, space |-> 0]]
        /\ UNCHANGED <<remoteWin, winClosed, myWindow, pending, bufClosed, sentEOF,
                       sentClose, linked, connClosed, loop, err, reader, fin, got,
                       eof, adjusted, acked>>

-----------------------------------------------------------------------------
(* Read *)

(* buffer.Read returns what is buffered, up to the size asked for. *)
ReadData(e) ==
    /\ reader[e].pc = "idle"
    /\ \E n \in 1 .. Len(pending[e]) :
          /\ got' = [got EXCEPT ![e] = @ \o SubSeq(pending[e], 1, n)]
          /\ pending' = [pending EXCEPT ![e] = Remaining(@, n)]
          /\ reader' = [reader EXCEPT ![e] = [pc |-> "adjust", n |-> n]]
    /\ UNCHANGED <<remoteWin, winClosed, myWindow, bufClosed, sentEOF, sentClose,
                   linked, connClosed, loop, err, wire, writer, sent, fin, eof,
                   adjusted, acked>>

ReadEOF(e) ==
    /\ reader[e].pc = "idle"
    /\ Drained(e)
    /\ bufClosed[e]
    /\ ~eof[e]
    /\ eof' = [eof EXCEPT ![e] = TRUE]
    /\ UNCHANGED <<remoteWin, winClosed, myWindow, pending, bufClosed, sentEOF,
                   sentClose, linked, connClosed, loop, err, wire, writer, reader,
                   sent, fin, got, adjusted, acked>>

(* adjustWindow: myWindow grows before the peer is told. *)
AdjustWindow(e) ==
    /\ reader[e].pc = "adjust"
    /\ myWindow' = [myWindow EXCEPT ![e] = (@ + reader[e].n) % Word]
    /\ reader' = [reader EXCEPT ![e].pc = "send"]
    /\ UNCHANGED <<remoteWin, winClosed, pending, bufClosed, sentEOF, sentClose,
                   linked, connClosed, loop, err, wire, writer, sent, fin, got, eof,
                   adjusted, acked>>

SendAdjust(e) ==
    LET n == reader[e].n
        quiet == Refused(e) \/ connClosed[e]
    IN  /\ reader[e].pc = "send"
        /\ IF Refused(e) THEN UNCHANGED wire
           ELSE Encode(e, Message("WindowAdjust", n, sent[e], adjusted[e] + n))
        /\ adjusted' = IF quiet THEN adjusted ELSE [adjusted EXCEPT ![e] = @ + n]
        /\ reader' = [reader EXCEPT ![e] = Resting]
        /\ UNCHANGED <<remoteWin, winClosed, myWindow, pending, bufClosed, sentEOF,
                       sentClose, linked, connClosed, loop, err, writer, sent, fin,
                       got, eof, acked>>

-----------------------------------------------------------------------------
(* CloseWrite, Close and Session.Close *)

(* May be called again; bound: one EOF in flight at a time. *)
CloseWrite(e) ==
    /\ \A i \in 1 .. Len(wire[e]) : wire[e][i].type # "EOF"
    /\ sentEOF' = [sentEOF EXCEPT ![e] = TRUE]
    /\ SendEnd(e, "EOF")
    /\ UNCHANGED <<remoteWin, winClosed, myWindow, pending, bufClosed, sentClose,
                   linked, connClosed, loop, err, writer, reader, sent, got, eof,
                   adjusted, acked>>

Close(e) ==
    /\ ~sentClose[e]
    /\ sentClose' = [sentClose EXCEPT ![e] = TRUE]
    /\ SendEnd(e, "Close")
    /\ UNCHANGED <<remoteWin, winClosed, myWindow, pending, bufClosed, sentEOF,
                   linked, connClosed, loop, err, writer, reader, sent, got, eof,
                   adjusted, acked>>

SessionClose(e) ==
    /\ e \in MayCloseSession
    /\ ~connClosed[e]
    /\ CloseConn(e)
    /\ UNCHANGED <<remoteWin, winClosed, myWindow, pending, bufClosed, sentEOF,
                   sentClose, linked, loop, err, writer, reader, sent, fin, got, eof,
                   adjusted, acked>>

-----------------------------------------------------------------------------
(* The read loop: onePacket, channel.handle, and loop's exit *)

Incoming(e, type) ==
    /\ loop[e] = "reading"
    /\ ~connClosed[e]
    /\ wire[Other(e)] # <<>>
    /\ linked[e]
    /\ Head(wire[Other(e)]).type = type

Consume(e) == wire' = [wire EXCEPT ![Other(e)] = Tail(@)]

(* buffer.eof *)
SignalEOF(e) == bufClosed' = [bufClosed EXCEPT ![e] = TRUE]

(* window.close *)
CloseWindow(e) == winClosed' = [winClosed EXCEPT ![e] = TRUE]

(* handleData takes what it accepts from myWindow. *)
Charged(win, n) == win - n

FailWith(e, reason) ==
    /\ loop' = [loop EXCEPT ![e] = "failed"]
    /\ err' = [err EXCEPT ![e] = reason]

HandleData(e) ==
    LET m == Head(wire[Other(e)])
        bad == IF m.n > MaxPacketOf[e] THEN "tooLarge"
               ELSE IF myWindow[e] < m.n THEN "tooMuch" ELSE "none"
    IN  /\ Incoming(e, "Data")
        /\ Consume(e)
        /\ IF bad # "none"
           THEN FailWith(e, bad) /\ UNCHANGED <<myWindow, pending>>
           ELSE /\ myWindow' = [myWindow EXCEPT ![e] = Charged(@, m.n)]
                /\ pending' = [pending EXCEPT ![e] =
                                 @ \o [i \in 1 .. m.n |-> (m.at - m.n) + i]]
                /\ UNCHANGED <<loop, err>>
        /\ UNCHANGED <<remoteWin, winClosed, bufClosed, sentEOF, sentClose, linked,
                       connClosed, writer, reader, sent, fin, got, eof, adjusted,
                       acked>>

HandleEOF(e) ==
    /\ Incoming(e, "EOF")
    /\ Consume(e)
    /\ SignalEOF(e)
    /\ UNCHANGED <<remoteWin, winClosed, myWindow, pending, sentEOF, sentClose,
                   linked, connClosed, loop, err, writer, reader, sent, fin, got, eof,
                   adjusted, acked>>

(* window.add: the sum is taken in uint32, and one that wraps is refused. *)
HandleWindowAdjust(e) ==
    LET m == Head(wire[Other(e)])
        sum == (remoteWin[e] + m.n) % Word
    IN  /\ Incoming(e, "WindowAdjust")
        /\ Consume(e)
        /\ IF m.n # 0 /\ sum < m.n
           THEN FailWith(e, "window") /\ UNCHANGED <<remoteWin, acked>>
           ELSE /\ remoteWin' = [remoteWin EXCEPT ![e] = sum]
                /\ acked' = [acked EXCEPT ![e] = @ + m.n]
                /\ UNCHANGED <<loop, err>>
        /\ UNCHANGED <<winClosed, myWindow, pending, bufClosed, sentEOF, sentClose,
                       linked, connClosed, writer, reader, sent, fin, got, eof,
                       adjusted>>

(* The peer's Close is answered first; the channel goes in the next steps. *)
Reply(e) == IF Refused(e) \/ connClosed[Other(e)] THEN <<>>
            ELSE <<Message("Close", 0, sent[e], adjusted[e])>>

HandleClose(e) ==
    /\ Incoming(e, "Close")
    /\ wire' = [wire EXCEPT ![Other(e)] = Tail(@), ![e] = @ \o Reply(e)]
    /\ Ended(e)
    /\ sentClose' = [sentClose EXCEPT ![e] = TRUE]
    /\ loop' = [loop EXCEPT ![e] = "closing"]
    /\ UNCHANGED <<remoteWin, winClosed, myWindow, pending, bufClosed, sentEOF, linked,
                   connClosed, err, writer, reader, sent, got, eof, adjusted, acked>>

(* chanList.remove (or dropAll, which took the channel out of the list just  *)
(* before) and then channel.close, lock by lock.                             *)
BufferEOF(e) ==
    /\ loop[e] = "closing"
    /\ loop' = [loop EXCEPT ![e] = "marking"]
    /\ linked' = [linked EXCEPT ![e] = FALSE]
    /\ SignalEOF(e)
    /\ UNCHANGED <<remoteWin, winClosed, myWindow, pending, sentEOF, sentClose,
                   connClosed, err, wire, writer, reader, sent, fin, got, eof,
                   adjusted, acked>>

MarkClosed(e) ==
    /\ loop[e] = "marking"
    /\ loop' = [loop EXCEPT ![e] = "releasing"]
    /\ sentClose' = [sentClose EXCEPT ![e] = TRUE]
    /\ UNCHANGED <<remoteWin, winClosed, myWindow, pending, bufClosed, sentEOF, linked,
                   connClosed, err, wire, writer, reader, sent, fin, got, eof,
                   adjusted, acked>>

ReleaseWriter(e) ==
    /\ loop[e] = "releasing"
    /\ loop' = [loop EXCEPT ![e] = IF err[e] = "none" THEN "reading" ELSE "dropped"]
    /\ CloseWindow(e)
    /\ UNCHANGED <<remoteWin, myWindow, pending, bufClosed, sentEOF, sentClose, linked,
                   connClosed, err, wire, writer, reader, sent, fin, got, eof,
                   adjusted, acked>>

(* A message for an id that is no longer in chanList ends the session. *)
InvalidChannel(e) ==
    /\ loop[e] = "reading"
    /\ ~connClosed[e]
    /\ wire[Other(e)] # <<>>
    /\ ~linked[e]
    /\ Consume(e)
    /\ FailWith(e, "invalid")
    /\ UNCHANGED <<remoteWin, winClosed, myWindow, pending, bufClosed, sentEOF,
                   sentClose, linked, connClosed, writer, reader, sent, fin, got, eof,
                   adjusted, acked>>

(* Decode fails: either side has closed the connection.  What the peer wrote *)
(* before it closed may or may not have arrived.                             *)
ConnError(e) ==
    /\ loop[e] = "reading"
    /\ connClosed[e] \/ connClosed[Other(e)]
    /\ FailWith(e, "conn")
    /\ UNCHANGED <<remoteWin, winClosed, myWindow, pending, bufClosed, sentEOF,
                   sentClose, linked, connClosed, wire, writer, reader, sent, fin, got,
                   eof, adjusted, acked>>

(* loop's exit: dropAll, close the channel if it was still in the list, then *)
(* close the connection.                                                     *)
DropAll(e) ==
    /\ loop[e] = "failed"
    /\ loop' = [loop EXCEPT ![e] = IF linked[e] THEN "closing" ELSE "dropped"]
    /\ UNCHANGED <<remoteWin, winClosed, myWindow, pending, bufClosed, sentEOF,
                   sentClose, linked, connClosed, err, wire, writer, reader, sent, fin,
                   got, eof, adjusted, acked>>

LoopExit(e) ==
    /\ loop[e] = "dropped"
    /\ loop' = [loop EXCEPT ![e] = "done"]
    /\ CloseConn(e)
    /\ UNCHANGED <<remoteWin, winClosed, myWindow, pending, bufClosed, sentEOF,
                   sentClose, linked, err, writer, reader, sent, fin, got, eof,
                   adjusted, acked>>

-----------------------------------------------------------------------------
WriterStep(e) == Reserve(e) \/ WriteData(e)

ReaderStep(e) == ReadData(e) \/ ReadEOF(e) \/ AdjustWindow(e) \/ SendAdjust(e)

Handle(e) == HandleData(e) \/ HandleEOF(e) \/ HandleWindowAdjust(e) \/ HandleClose(e)

LoopStep(e) ==
    \/ Handle(e) \/ InvalidChannel(e) \/ ConnError(e)
    \/ BufferEOF(e) \/ MarkClosed(e) \/ ReleaseWriter(e)
    \/ DropAll(e) \/ LoopExit(e)

Application(e) == WriteCall(e) \/ CloseWrite(e) \/ Close(e) \/ SessionClose(e)

Next == \E e \in Ends : Application(e) \/ WriterStep(e) \/ ReaderStep(e) \/ LoopStep(e)

(* Goroutines that can run do run, and a reader keeps calling Read (as       *)
(* io.Copy and ioutil.ReadAll do).  Nobody has to write or close.            *)
Fairness ==
    \A e \in Ends :
        /\ WF_vars(WriterStep(e))
        /\ WF_vars(ReaderStep(e))
        /\ WF_vars(LoopStep(e))

Spec == Init /\ [][Next]_vars

FairSpec == Spec /\ Fairness

-----------------------------------------------------------------------------
(* Properties *)

Places == {"reading", "failed", "closing", "marking", "releasing", "dropped", "done"}

Reasons == {"none", "tooLarge", "tooMuch", "window", "invalid", "conn"}

Types == {"Data", "WindowAdjust", "EOF", "Close"}

Messages == [type : Types, n : Nat, at : Nat, adj : Nat]

(* The types of the fields of channel, window and buffer; windows are uint32. *)
TypeOK ==
    /\ remoteWin \in [Ends -> 0 .. Word - 1]
    /\ winClosed \in [Ends -> BOOLEAN]
    /\ myWindow \in [Ends -> 0 .. Word - 1]
    /\ pending \in [Ends -> Seq(Int)]
    /\ bufClosed \in [Ends -> BOOLEAN]
    /\ sentEOF \in [Ends -> BOOLEAN]
    /\ sentClose \in [Ends -> BOOLEAN]
    /\ linked \in [Ends -> BOOLEAN]
    /\ connClosed \in [Ends -> BOOLEAN]
    /\ loop \in [Ends -> Places]
    /\ err \in [Ends -> Reasons]
    /\ wire \in [Ends -> Seq(Messages)]
    /\ writer \in [Ends -> [pc : {"idle", "reserve", "encode"}, todo : Nat, space : Nat]]
    /\ reader \in [Ends -> [pc : {"idle", "adjust", "send"}, n : Nat]]
    /\ sent \in [Ends -> Nat]
    /\ fin \in [Ends -> Nat \cup {-1}]
    /\ got \in [Ends -> Seq(Int)]
    /\ eof \in [Ends -> BOOLEAN]
    /\ adjusted \in [Ends -> Nat]
    /\ acked \in [Ends -> Nat]

(* Two ends that run this code never trip handleData's checks (channel.go    *)
(* 224, 234) or window.add's (util.go 177), whichever way the four           *)
(* goroutines of each end interleave: no session dies of a flow-control      *)
(* error.                                                                    *)
FlowControl == \A e \in Ends : err[e] \notin {"tooLarge", "tooMuch", "window"}

(* "myWindow ... can never exceed the initial window setting" (channel.go    *)
(* 142), on which adjustWindow's unchecked addition rests; and the same of   *)
(* the window the peer keeps.                                                *)
WindowBounded ==
    \A e \in Ends :
        /\ myWindow[e] <= WindowOf[e]
        /\ remoteWin[e] <= WindowOf[Other(e)]

(* What Read has returned, followed by what is buffered, is a prefix of the  *)
(* stream the other end wrote: nothing lost, repeated or out of order.       *)
InOrder ==
    \A e \in Ends :
        /\ \A i \in 1 .. Len(got[e]) : got[e][i] = i
        /\ \A i \in 1 .. Len(pending[e]) : pending[e][i] = Len(got[e]) + i
        /\ Len(got[e]) + Len(pending[e]) <= sent[Other(e)]

(* Read says io.EOF only when everything the peer wrote before it ended its  *)
(* stream has been returned, unless the session broke: "all data sent before *)
(* this message be delivered" (spec/qmux.md 120).                            *)
EofAfterData ==
    \A e \in Ends :
        eof[e] => \/ err[e] # "none"
                  \/ fin[Other(e)] # -1 /\ fin[Other(e)] <= Len(got[e])

(* onePacket's "invalid channel" (session.go 194), which ends the whole      *)
(* session, is never brought about by EOF, WindowAdjust or Close: only by    *)
(* Data that the peer wrote after it had ended its stream.                   *)
OnlyLateDataKills ==
    \A e \in Ends :
        err[e] = "invalid" => fin[Other(e)] # -1 /\ sent[Other(e)] > fin[Other(e)]

(* The channel keeps what api.go promises of a Channel. *)
Promise == INSTANCE Stream WITH
              Capacity <- WindowOf,
              broken <- [e \in Ends |-> err[e] # "none"]

ImplementsStream == Promise!Spec

(* A Write that has begun returns: window.add, window.close and the reader   *)
(* of the other end see to it that no writer is left waiting.                *)
WriteReturns == \A e \in Ends : writer[e].pc # "idle" ~> writer[e].pc = "idle"

(* Close is enough to be rid of a channel: the peer answers it and the entry *)
(* leaves chanList, whatever the peer's application does.                    *)
CloseCompletes == \A e \in Ends : sentClose[e] ~> ~linked[e]

(* A reader finds out that the other end has ended its stream. *)
ReaderSeesEnd ==
    \A e \in Ends : fin[Other(e)] # -1 ~> eof[e]

(* A connection closed at one end ends the session at both: both loops stop  *)
(* and both readers are told.                                                *)
TeardownCompletes ==
    \A e \in Ends : connClosed[e] ~> \A o \in Ends : loop[o] = "done" /\ eof[o]
=============================================================================
