------------------------------ MODULE Session -------------------------------
(***************************************************************************)
(* Two sessions of golang/mux over one connection (session.go, with the    *)
(* chanList of util.go and the open and close messages of channel.go):     *)
(* numbering channels, Open, Accept, Close and the end of the session.     *)
(* What flows inside a channel is in Channel; here a data message only has *)
(* to find its channel.                                                    *)
(*                                                                         *)
(* At each end interleave: the read loop, the goroutines in Open, one      *)
(* goroutine that keeps calling Accept, and the users of the channels.     *)
(*                                                                         *)
(* A channel is named by who opened it and its rank among that end's Open  *)
(* calls.  The program does not know that name: a message carries it in    *)
(* `of` as history, and finds its way by number only.                      *)
(***************************************************************************)
EXTENDS Integers, Sequences

CONSTANTS
    ChanSize,     \* chanSize: capacity of incomingChannels
    Settings,     \* the settings to check
    MaxOpens,     \* bound: Open calls at each end, in any of them
    MaxInFlight   \* bound: messages the connection holds before Open or Write blocks

Ends == {"client", "server"}

Other(e) == IF e = "client" THEN "server" ELSE "client"

(* The ends whose MaxPacketSize the other end accepts; and as bounds the Open *)
(* calls at each end, the ends whose application closes the session, and what *)
(* users of a channel may do (see Usable and WriteData).                      *)
AnySetting ==
    [acceptable: SUBSET Ends, opens: [Ends -> Nat], mayClose: SUBSET Ends,
     habits: SUBSET {"closeEarly", "writeLate"}]

ASSUME SessionAssumption ==
    /\ ChanSize \in Nat \ {0}
    /\ MaxOpens \in [Ends -> Nat]
    /\ MaxInFlight \in Nat \ {0}
    /\ Settings \subseteq AnySetting

Nil == <<"none", 0>>

Channels == UNION {{<<e, k>> : k \in 1 .. MaxOpens[e]} : e \in Ends}

Opener(c) == c[1]

VARIABLES
    setting,     \* chosen once
    chans,       \* chanList.chans: at index i + 1 the channel numbered i, or Nil
    localId,     \* localId of each channel, at each end
    remoteId,    \* remoteId of each channel, at each end
    sentClose,   \* sentClose of each channel, at each end
    closed,      \* channel.close has run, so ch.msg is closed
    opening,     \* where the Open call of each channel is
    replies,     \* ch.msg of each channel at its opener
    incoming,    \* incomingChannels
    accepted,    \* the channels that Accept has returned
    told,        \* Accept has returned io.EOF
    closeCh,     \* closeCh holds a value
    loop,        \* where the read loop is
    serving,     \* the channel that the loop works on
    doomed,      \* the channels that dropAll returned and are still to be closed
    err,         \* why the loop ended
    connClosed,  \* conn has been closed at this end
    wire,        \* wire[e]: messages written by e and not yet decoded by Other(e)
    wrote        \* the ends and channels that have written their data message

vars == <<setting, chans, localId, remoteId, sentClose, closed, opening, replies,
          incoming, accepted, told, closeCh, loop, serving, doomed, err, connClosed, wire, wrote>>

ids == <<localId, remoteId>>
app == <<accepted, told, wrote>>
link == <<err, connClosed>>

At(v) == [e \in Ends |-> v]

Init ==
    /\ setting \in Settings
    /\ chans = At(<<>>)
    /\ localId = At([c \in Channels |-> 0])
    /\ remoteId = At([c \in Channels |-> 0])
    /\ sentClose = At([c \in Channels |-> FALSE])
    /\ closed = At([c \in Channels |-> FALSE])
    /\ opening = [c \in Channels |-> "none"]
    /\ replies = [c \in Channels |-> <<>>]
    /\ incoming = At(<<>>)
    /\ accepted = At({})
    /\ told = At(FALSE)
    /\ closeCh = At(FALSE)
    /\ loop = At("reading")
    /\ serving = At(Nil)
    /\ doomed = At({})
    /\ err = At("none")
    /\ connClosed = At(FALSE)
    /\ wire = At(<<>>)
    /\ wrote = At({})

-----------------------------------------------------------------------------
(* Slips this code could have had: each is a wrong form of one definition    *)
(* below, which some property must catch.  The specification uses none.      *)

LastSlot(list) == IF list = <<>> THEN 1 ELSE Len(list)

DropNone(list) == {}

RefusedNever(e, c) == FALSE

ConfirmedNever(e, c) == <<>>

AdoptedNever(numbers, e, c, number) == numbers

AnswerForgotten(e, c) == <<>>

SignalForgotten(e) == UNCHANGED closeCh

-----------------------------------------------------------------------------
(* chanList *)

(* add takes the first free place, or a new one. *)
FreeSlot(list) ==
    CHOOSE i \in 1 .. Len(list) + 1 :
        /\ i = Len(list) + 1 \/ list[i] = Nil
        /\ \A j \in 1 .. i - 1 : list[j] # Nil

Added(list, c) ==
    [i \in 1 .. (IF FreeSlot(list) > Len(list) THEN FreeSlot(list) ELSE Len(list)) |->
        IF i = FreeSlot(list) THEN c ELSE list[i]]

GetChan(list, id) == IF id < Len(list) THEN list[id + 1] ELSE Nil

Removed(list, id) == IF id < Len(list) THEN [list EXCEPT ![id + 1] = Nil] ELSE list

(* dropAll returns what is left in the list, in the order of its numbers. *)
Dropped(list) == {list[i] : i \in 1 .. Len(list)} \ {Nil}

-----------------------------------------------------------------------------
(* The connection *)

Message(type, id, sender, of) == [type |-> type, id |-> id, sender |-> sender, of |-> of]

(* What is written after the peer has closed the connection is lost. *)
Encoded(e, s) == IF connClosed[e] \/ connClosed[Other(e)] THEN wire[e] ELSE wire[e] \o s

Encode(e, m) == wire' = [wire EXCEPT ![e] = Encoded(e, <<m>>)]

CloseConn(e) ==
    /\ connClosed' = [connClosed EXCEPT ![e] = TRUE]
    /\ wire' = [wire EXCEPT ![Other(e)] = <<>>]

(* Application goroutines wait for room in the connection. *)
Room(e) == connClosed[e] \/ Len(wire[e]) < MaxInFlight

-----------------------------------------------------------------------------
(* Open *)

(* newChannel *)
NewChannel(e, c) ==
    /\ chans' = [chans EXCEPT ![e] = Added(@, c)]
    /\ localId' = [localId EXCEPT ![e][c] = FreeSlot(chans[e]) - 1]

OpenCall(e) ==
    \E c \in Channels :
        /\ Opener(c) = e
        /\ opening[c] = "none" /\ c[2] <= setting.opens[e]
        /\ \A k \in 1 .. c[2] - 1 : opening[<<e, k>>] # "none"
        /\ NewChannel(e, c)
        /\ opening' = [opening EXCEPT ![c] = "encode"]
        /\ UNCHANGED <<setting, remoteId, sentClose, closed, replies, incoming,
                       closeCh, loop, serving, doomed, wire, app, link>>

(* When Encode fails the channel stays in the list. *)
SendOpen(c) ==
    LET e == Opener(c)
    IN  /\ opening[c] = "encode"
        /\ Room(e)
        /\ Encode(e, Message("Open", 0, localId[e][c], c))
        /\ opening' = [opening EXCEPT ![c] = IF connClosed[e] THEN "failed" ELSE "wait"]
        /\ UNCHANGED <<setting, chans, sentClose, closed, replies, incoming, closeCh,
                       loop, serving, doomed, ids, app, link>>

(* A receive from ch.msg takes what was put in before it was closed.          *)
Received(c) == replies[c]

OpenReturn(c) ==
    /\ opening[c] = "wait"
    /\ Received(c) # <<>> \/ closed[Opener(c)][c]
    /\ opening' = [opening EXCEPT ![c] =
                     IF Received(c) # <<>> /\ Head(Received(c)) = "OpenConfirm"
                     THEN "open" ELSE "failed"]
    /\ replies' = [replies EXCEPT ![c] = IF @ = <<>> THEN @ ELSE Tail(@)]
    /\ UNCHANGED <<setting, chans, sentClose, closed, incoming, closeCh, loop,
                   serving, doomed, wire, ids, app, link>>

-----------------------------------------------------------------------------
(* Accept: select takes either case when both are ready. *)

AcceptChannel(e) ==
    /\ ~told[e]
    /\ incoming[e] # <<>>
    /\ accepted' = [accepted EXCEPT ![e] = @ \cup {Head(incoming[e])}]
    /\ incoming' = [incoming EXCEPT ![e] = Tail(@)]
    /\ UNCHANGED <<setting, chans, sentClose, closed, opening, replies, told,
                   closeCh, loop, serving, doomed, wire, wrote, ids, link>>

AcceptEOF(e) ==
    /\ ~told[e]
    /\ closeCh[e]
    /\ told' = [told EXCEPT ![e] = TRUE]
    /\ closeCh' = [closeCh EXCEPT ![e] = FALSE]
    /\ UNCHANGED <<setting, chans, sentClose, closed, opening, replies, incoming,
                   accepted, loop, serving, doomed, wire, wrote, ids, link>>

-----------------------------------------------------------------------------
(* The users of a channel *)

Holds(e, c) == IF Opener(c) = e THEN opening[c] = "open" ELSE c \in accepted[e]

(* A channel is offered to Accept before its OpenConfirm is written. *)
Unconfirmed(e, c) == loop[e] = "confirming" /\ serving[e] = c

(* "closeEarly": its user may write to it and close it before that. *)
Usable(e, c) == Holds(e, c) /\ ("closeEarly" \in setting.habits \/ ~Unconfirmed(e, c))

(* channel.send refuses every message once Close was sent. *)
Refused(e, c) == sentClose[e][c]

CloseChannel(e, c) ==
    /\ Usable(e, c)
    /\ ~Refused(e, c)
    /\ Room(e)
    /\ sentClose' = [sentClose EXCEPT ![e][c] = TRUE]
    /\ Encode(e, Message("Close", remoteId[e][c], 0, c))
    /\ UNCHANGED <<setting, chans, closed, opening, replies, incoming, closeCh, loop,
                   serving, doomed, ids, app, link>>

(* Write stops only when the window has been closed; "writeLate": its user    *)
(* may write after Close.  Bound: one data message per channel and end.       *)
WriteData(e, c) ==
    /\ Usable(e, c)
    /\ ~closed[e][c]
    /\ "writeLate" \in setting.habits \/ ~sentClose[e][c]
    /\ c \notin wrote[e]
    /\ Room(e)
    /\ wrote' = [wrote EXCEPT ![e] = @ \cup {c}]
    /\ Encode(e, Message("Data", remoteId[e][c], 0, c))
    /\ UNCHANGED <<setting, chans, sentClose, closed, opening, replies, incoming,
                   accepted, told, closeCh, loop, serving, doomed, ids, link>>

SessionClose(e) ==
    /\ e \in setting.mayClose
    /\ ~connClosed[e]
    /\ CloseConn(e)
    /\ UNCHANGED <<setting, chans, sentClose, closed, opening, replies, incoming,
                   closeCh, loop, serving, doomed, err, ids, app>>

-----------------------------------------------------------------------------
(* The read loop *)

NextMessage(e) == Head(wire[Other(e)])

Incoming(e, type) ==
    /\ loop[e] = "reading"
    /\ ~connClosed[e]
    /\ wire[Other(e)] # <<>>
    /\ NextMessage(e).type = type

(* getChan for the message that the loop has decoded. *)
Target(e) == GetChan(chans[e], NextMessage(e).id)

(* e consumes a message and writes the messages of s. *)
Consume(e, s) ==
    wire' = [wire EXCEPT ![Other(e)] = Tail(@), ![e] = Encoded(e, s)]

Fail(e, reason) ==
    /\ loop' = [loop EXCEPT ![e] = "failed"]
    /\ err' = [err EXCEPT ![e] = reason]

(* handleOpen refuses a peer that announces a bad MaxPacketSize. *)
RefuseOpen(e) ==
    /\ Incoming(e, "Open")
    /\ Other(e) \notin setting.acceptable
    /\ Consume(e, <<Message("OpenFailure", NextMessage(e).sender, 0, NextMessage(e).of)>>)
    /\ UNCHANGED <<setting, chans, sentClose, closed, opening, replies, incoming,
                   closeCh, loop, serving, doomed, ids, app, link>>

HandleOpen(e) ==
    LET c == NextMessage(e).of
    IN  /\ Incoming(e, "Open")
        /\ Other(e) \in setting.acceptable
        /\ NewChannel(e, c)
        /\ remoteId' = [remoteId EXCEPT ![e][c] = NextMessage(e).sender]
        /\ serving' = [serving EXCEPT ![e] = c]
        /\ loop' = [loop EXCEPT ![e] = "offering"]
        /\ Consume(e, <<>>)
        /\ UNCHANGED <<setting, sentClose, closed, opening, replies, incoming,
                       closeCh, doomed, app, link>>

(* The loop waits while incomingChannels is full. *)
Offer(e) ==
    /\ loop[e] = "offering"
    /\ Len(incoming[e]) < ChanSize
    /\ incoming' = [incoming EXCEPT ![e] = Append(@, serving[e])]
    /\ loop' = [loop EXCEPT ![e] = "confirming"]
    /\ UNCHANGED <<setting, chans, sentClose, closed, opening, replies, closeCh,
                   serving, doomed, wire, ids, app, link>>

Confirmation(e, c) == <<Message("OpenConfirm", remoteId[e][c], localId[e][c], c)>>

Confirm(e) ==
    /\ loop[e] = "confirming"
    /\ wire' = [wire EXCEPT ![e] = Encoded(e, Confirmation(e, serving[e]))]
    /\ serving' = [serving EXCEPT ![e] = Nil]
    /\ IF connClosed[e] THEN Fail(e, "conn")
       ELSE loop' = [loop EXCEPT ![e] = "reading"] /\ UNCHANGED err
    /\ UNCHANGED <<setting, chans, sentClose, closed, opening, replies, incoming,
                   closeCh, doomed, connClosed, ids, app>>

(* remoteId and the rest of an opened channel come with the confirmation. *)
Adopted(numbers, e, c, number) == [numbers EXCEPT ![e][c] = number]

HandleConfirm(e) ==
    LET c == Target(e)
    IN  /\ Incoming(e, "OpenConfirm")
        /\ c # Nil
        /\ IF Opener(c) # e \/ Other(e) \notin setting.acceptable
           THEN /\ Fail(e, IF Opener(c) # e THEN "response" ELSE "size")
                /\ UNCHANGED <<remoteId, replies>>
           ELSE /\ remoteId' = Adopted(remoteId, e, c, NextMessage(e).sender)
                /\ replies' = [replies EXCEPT ![c] = Append(@, "OpenConfirm")]
                /\ UNCHANGED <<loop, err>>
        /\ Consume(e, <<>>)
        /\ UNCHANGED <<setting, chans, localId, sentClose, closed, opening, incoming,
                       closeCh, serving, doomed, connClosed, app>>

HandleFailure(e) ==
    LET c == Target(e)
    IN  /\ Incoming(e, "OpenFailure")
        /\ c # Nil
        /\ IF Opener(c) # e
           THEN Fail(e, "response") /\ UNCHANGED <<chans, replies>>
           ELSE /\ chans' = [chans EXCEPT ![e] = Removed(@, NextMessage(e).id)]
                /\ replies' = [replies EXCEPT ![c] = Append(@, "OpenFailure")]
                /\ UNCHANGED <<loop, err>>
        /\ Consume(e, <<>>)
        /\ UNCHANGED <<setting, sentClose, closed, opening, incoming, closeCh,
                       serving, doomed, connClosed, ids, app>>

(* channel.handle of anything that stays within the channel. *)
HandleData(e) ==
    /\ Incoming(e, "Data")
    /\ Target(e) # Nil
    /\ Consume(e, <<>>)
    /\ UNCHANGED <<setting, chans, sentClose, closed, opening, replies, incoming,
                   closeCh, loop, serving, doomed, ids, app, link>>

(* The peer's Close is answered, unless this end has sent one itself. *)
Answer(e, c) ==
    IF Refused(e, c) THEN <<>> ELSE <<Message("Close", remoteId[e][c], 0, c)>>

HandleClose(e) ==
    LET c == Target(e)
    IN  /\ Incoming(e, "Close")
        /\ c # Nil
        /\ Consume(e, Answer(e, c))
        /\ sentClose' = [sentClose EXCEPT ![e][c] = TRUE]
        /\ serving' = [serving EXCEPT ![e] = c]
        /\ loop' = [loop EXCEPT ![e] = "removing"]
        /\ UNCHANGED <<setting, chans, closed, opening, replies, incoming, closeCh,
                       doomed, ids, app, link>>

RemoveChannel(e) ==
    /\ loop[e] = "removing"
    /\ chans' = [chans EXCEPT ![e] = Removed(@, localId[e][serving[e]])]
    /\ loop' = [loop EXCEPT ![e] = "closing"]
    /\ UNCHANGED <<setting, sentClose, closed, opening, replies, incoming, closeCh,
                   serving, doomed, wire, ids, app, link>>

(* channel.close: closing ch.msg a second time panics. *)
Finish(e, c) ==
    IF closed[e][c]
    THEN /\ Fail(e, "panic")
         /\ UNCHANGED <<closed, sentClose>>
    ELSE /\ closed' = [closed EXCEPT ![e][c] = TRUE]
         /\ sentClose' = [sentClose EXCEPT ![e][c] = TRUE]
         /\ loop' = [loop EXCEPT ![e] = IF err[e] = "none" THEN "reading" ELSE @]
         /\ UNCHANGED err

FinishChannel(e) ==
    /\ loop[e] = "closing"
    /\ Finish(e, serving[e])
    /\ serving' = [serving EXCEPT ![e] = Nil]
    /\ UNCHANGED <<setting, chans, opening, replies, incoming, closeCh, doomed,
                   connClosed, wire, ids, app>>

InvalidChannel(e) ==
    /\ \E type \in {"OpenConfirm", "OpenFailure", "Data", "Close"} : Incoming(e, type)
    /\ Target(e) = Nil
    /\ Consume(e, <<>>)
    /\ Fail(e, "invalid")
    /\ UNCHANGED <<setting, chans, sentClose, closed, opening, replies, incoming,
                   closeCh, serving, doomed, connClosed, ids, app>>

(* Decode fails: either end has closed the connection. *)
ConnError(e) ==
    /\ loop[e] = "reading"
    /\ connClosed[e] \/ connClosed[Other(e)]
    /\ Fail(e, "conn")
    /\ UNCHANGED <<setting, chans, sentClose, closed, opening, replies, incoming,
                   closeCh, serving, doomed, connClosed, wire, ids, app>>

DropAll(e) ==
    /\ loop[e] = "failed"
    /\ err[e] # "panic"
    /\ doomed' = [doomed EXCEPT ![e] = Dropped(chans[e])]
    /\ chans' = [chans EXCEPT ![e] = <<>>]
    /\ loop' = [loop EXCEPT ![e] = "dropping"]
    /\ UNCHANGED <<setting, sentClose, closed, opening, replies, incoming, closeCh,
                   serving, wire, ids, app, link>>

FinishDropped(e) ==
    /\ loop[e] = "dropping"
    /\ \E c \in doomed[e] :
          /\ \A d \in doomed[e] : localId[e][c] <= localId[e][d]
          /\ Finish(e, c)
          /\ doomed' = [doomed EXCEPT ![e] = @ \ {c}]
    /\ UNCHANGED <<setting, chans, opening, replies, incoming, closeCh, serving,
                   connClosed, wire, ids, app>>

ShutConn(e) ==
    /\ loop[e] = "dropping"
    /\ doomed[e] = {}
    /\ CloseConn(e)
    /\ loop' = [loop EXCEPT ![e] = "reporting"]
    /\ UNCHANGED <<setting, chans, sentClose, closed, opening, replies, incoming,
                   closeCh, serving, doomed, err, ids, app>>

(* closeCh has room for one value. *)
SignalClosed(e) == closeCh' = [closeCh EXCEPT ![e] = TRUE]

(* Then s.err is set and Wait returns. *)
Report(e) ==
    /\ loop[e] = "reporting"
    /\ SignalClosed(e)
    /\ loop' = [loop EXCEPT ![e] = "done"]
    /\ UNCHANGED <<setting, chans, sentClose, closed, opening, replies, incoming,
                   serving, doomed, wire, ids, app, link>>

-----------------------------------------------------------------------------
Handle(e) ==
    \/ RefuseOpen(e) \/ HandleOpen(e) \/ HandleConfirm(e) \/ HandleFailure(e)
    \/ HandleData(e) \/ HandleClose(e) \/ InvalidChannel(e) \/ ConnError(e)

LoopStep(e) ==
    \/ Handle(e) \/ Offer(e) \/ Confirm(e) \/ RemoveChannel(e) \/ FinishChannel(e)
    \/ DropAll(e) \/ FinishDropped(e) \/ ShutConn(e) \/ Report(e)

AcceptStep(e) == AcceptChannel(e) \/ AcceptEOF(e)

OpenStep(c) == SendOpen(c) \/ OpenReturn(c)

Use(e) == SessionClose(e) \/ \E c \in Channels : CloseChannel(e, c) \/ WriteData(e, c)

Next ==
    \/ \E e \in Ends : OpenCall(e) \/ Use(e) \/ AcceptStep(e) \/ LoopStep(e)
    \/ \E c \in Channels : OpenStep(c)

(* Goroutines that can run do run, and one keeps calling Accept until it is  *)
(* told io.EOF, as Server.Respond does (rpc/server.go 13-24).                *)
Fairness ==
    /\ \A e \in Ends : WF_vars(LoopStep(e)) /\ WF_vars(AcceptStep(e))
    /\ \A c \in Channels : WF_vars(OpenStep(c))

Spec == Init /\ [][Next]_vars

FairSpec == Spec /\ Fairness

-----------------------------------------------------------------------------
(* Properties *)

Places == {"reading", "offering", "confirming", "removing", "closing", "failed",
           "dropping", "reporting", "done"}

Reasons == {"none", "conn", "response", "size", "invalid", "panic"}

Messages ==
    [type : {"Open", "OpenConfirm", "OpenFailure", "Data", "Close"},
     id : Nat, sender : Nat, of : Channels]

(* The types of the fields of session and chanList. *)
TypeOK ==
    /\ setting \in Settings
    /\ chans \in [Ends -> Seq(Channels \cup {Nil})]
    /\ localId \in [Ends -> [Channels -> Nat]]
    /\ remoteId \in [Ends -> [Channels -> Nat]]
    /\ sentClose \in [Ends -> [Channels -> BOOLEAN]]
    /\ closed \in [Ends -> [Channels -> BOOLEAN]]
    /\ opening \in [Channels -> {"none", "encode", "wait", "open", "failed"}]
    /\ replies \in [Channels -> Seq({"OpenConfirm", "OpenFailure"})]
    /\ incoming \in [Ends -> Seq(Channels)]
    /\ accepted \in [Ends -> SUBSET Channels]
    /\ told \in [Ends -> BOOLEAN]
    /\ closeCh \in [Ends -> BOOLEAN]
    /\ loop \in [Ends -> Places]
    /\ serving \in [Ends -> Channels \cup {Nil}]
    /\ doomed \in [Ends -> SUBSET Channels]
    /\ err \in [Ends -> Reasons]
    /\ connClosed \in [Ends -> BOOLEAN]
    /\ wire \in [Ends -> Seq(Messages)]
    /\ wrote \in [Ends -> SUBSET Channels]

(* The session's goroutine never closes ch.msg twice (channel.go 154).       *)
NoPanic == \A e \in Ends : err[e] # "panic"

(* "Any other channel-related messages contain the recipient's channel       *)
(* number for the channel" (spec/qmux.md 14): a message is handled by the    *)
(* channel it was sent on and by no other, though numbers are reused.        *)
Routed ==
    \A e \in Ends :
        loop[e] = "reading" /\ ~connClosed[e] /\ wire[Other(e)] # <<>> =>
            NextMessage(e).type = "Open" \/ Target(e) \in {Nil, NextMessage(e).of}

(* No session dies of "invalid channel" (session.go 194) or of a response on *)
(* an inbound channel (channel.go 169) that the other end's session caused.  *)
NoStray == \A e \in Ends : err[e] \notin {"invalid", "response"}

(* A channel in use is found under its number, so that no two channels in    *)
(* use at one end share one (util.go 26, 49), until the session ends.        *)
Listed ==
    \A e \in Ends, c \in Channels :
        Holds(e, c) /\ ~closed[e][c] /\ err[e] = "none"
            /\ ~(loop[e] = "closing" /\ serving[e] = c) =>
                GetChan(chans[e], localId[e][c]) = c

(* When Open has returned a channel, its two ends know each other's numbers; *)
(* it fails only when the session has ended or the peer has refused, also if *)
(* OpenConfirm and Close are both in ch.msg by the time it looks (125).       *)
OpenAgreed ==
    \A c \in Channels :
        LET o == Opener(c)
        IN  /\ opening[c] = "open" =>
                  /\ remoteId[o][c] = localId[Other(o)][c]
                  /\ remoteId[Other(o)][c] = localId[o][c]
            /\ opening[c] = "failed" =>
                  o \notin setting.acceptable \/ connClosed[o] \/ err[o] # "none"

(* The number of a refused Open can be used again (channel.go 214).          *)
RefusedForgotten ==
    \A c \in Channels :
        opening[c] = "failed" /\ err[Opener(c)] = "none" /\ ~connClosed[Opener(c)] =>
            GetChan(chans[Opener(c)], localId[Opener(c)][c]) # c

(* The end of a session reaches every channel that its application holds:    *)
(* none is left with a reader or writer that nothing will wake.              *)
NoOrphan ==
    \A e \in Ends, c \in Channels :
        loop[e] = "done" /\ Holds(e, c) => closed[e][c]

(* The channel list is right from the first Open to the end of the session:  *)
(* a channel is found while it is in use, and forgotten once, by a refusal,  *)
(* by Close or by dropAll, whichever the loop comes to.                      *)
ListInv == TypeOK /\ NoPanic /\ Listed /\ RefusedForgotten /\ NoOrphan

(* Open returns, whatever becomes of the session. *)
OpenReturns == \A c \in Channels : opening[c] = "wait" ~> opening[c] # "wait"

(* Open returns if no application closes the session meanwhile, however full  *)
(* the connection and incomingChannels are, and whatever the peer answers.    *)
OpenAnswered ==
    \A c \in Channels :
        opening[c] = "wait" ~> opening[c] # "wait" \/ \E e \in Ends : connClosed[e]

(* A connection closed at one end ends both sessions: Wait and Accept return *)
(* at both ends ("To synchronize on loop exit, use session.Wait", 157).      *)
SessionEnds ==
    \A e \in Ends : connClosed[e] ~> \A o \in Ends : loop[o] = "done" /\ told[o]

(* Close at one end leads both ends to forget the channel, unless the session *)
(* ends first.                                                                *)
ChannelForgotten ==
    \A e \in Ends, c \in Channels :
        sentClose[e][c] ~> \/ \A o \in Ends : closed[o][c]
                           \/ \E o \in Ends : connClosed[o]
=============================================================================
