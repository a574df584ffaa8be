-------------------------- MODULE SessionInvariant --------------------------
(***************************************************************************)
(* The inductive invariants of Session.                                    *)
(*                                                                         *)
(* ListIInv says where a channel is at one end: in the list under its own  *)
(* number, on its way out, or closed.  It holds whatever the peer sends    *)
(* for whichever number.                                                   *)
(*                                                                         *)
(* RouteInv joins the two ends: what is on the wire to an end that still   *)
(* reads finds the channel it was sent on, because a number is given up    *)
(* only after the last message to it has been handled.  It holds when      *)
(* nobody writes or closes out of turn.                                    *)
(***************************************************************************)
EXTENDS Session

InList(e, c) == \E i \in 1 .. Len(chans[e]) : chans[e][i] = c

Queued(e, c) == \E i \in 1 .. Len(incoming[e]) : incoming[e][i] = c

(* c has had a number at e. *)
Known(e, c) ==
    IF Opener(c) = e THEN opening[c] # "none"
    ELSE \/ c \in accepted[e] \/ Queued(e, c)
         \/ loop[e] = "offering" /\ serving[e] = c

(* A message of this type about c is in s; and there is at most one. *)
Sent(s, type, c) == \E i \in 1 .. Len(s) : s[i].type = type /\ s[i].of = c

Once(s, type, c) ==
    \A i, j \in 1 .. Len(s) :
        s[i].type = type /\ s[i].of = c /\ s[j].type = type /\ s[j].of = c => i = j

Reply(c, answer) == \E i \in 1 .. Len(replies[c]) : replies[c][i] = answer

Opening(e, c) == loop[e] \in {"offering", "confirming"} /\ serving[e] = c

Closing(e, c) == loop[e] \in {"removing", "closing"} /\ serving[e] = c

Acceptable(c) == Opener(c) \in setting.acceptable

-----------------------------------------------------------------------------
(* The channel list *)

(* A channel is in the list at the place that its number says. *)
Placed(e) ==
    \A i \in 1 .. Len(chans[e]) :
        chans[e][i] # Nil => localId[e][chans[e][i]] = i - 1

LoopErr(e) ==
    /\ loop[e] \in {"failed", "dropping", "reporting", "done"} <=> err[e] # "none"
    /\ err[e] # "panic"

ServingInv(e) ==
    /\ IF loop[e] \in {"offering", "confirming", "removing", "closing"}
       THEN serving[e] \in Channels ELSE serving[e] = Nil
    /\ loop[e] \in {"offering", "confirming"} => Opener(serving[e]) # e
    /\ loop[e] = "removing" => InList(e, serving[e])
    /\ loop[e] = "closing" => ~InList(e, serving[e]) /\ ~closed[e][serving[e]]

(* A channel is closed once: when it is in the list no more. *)
ClosedInv(e) ==
    /\ doomed[e] # {} => loop[e] = "dropping"
    /\ \A c \in Channels : closed[e][c] \/ c \in doomed[e] => ~InList(e, c)
    /\ \A c \in Channels : c \in doomed[e] => ~closed[e][c]

(* No channel turns up that was not opened or accepted. *)
KnownInv(e) ==
    \A c \in Channels :
        InList(e, c) \/ closed[e][c] \/ c \in doomed[e] \/ serving[e] = c => Known(e, c)

(* A channel that may be used is in the list, on its way out, or closed. *)
LocatedInv(e) ==
    \A c \in Channels :
        Known(e, c) /\ Acceptable(c) =>
            \/ InList(e, c) \/ closed[e][c] \/ c \in doomed[e]
            \/ loop[e] = "closing" /\ serving[e] = c

(* What Open puts into the list after dropAll is never answered. *)
AfterDrop(e) ==
    loop[e] \in {"dropping", "reporting", "done"} =>
        \A c \in Channels :
            InList(e, c) => /\ Opener(c) = e
                            /\ opening[c] # "open" /\ replies[c] = <<>>

(* The peer's answers to Open, and what became of them. *)
AnswerInv(c) ==
    /\ opening[c] = "open" \/ Reply(c, "OpenConfirm") => Acceptable(c)
    /\ Reply(c, "OpenFailure") => ~Acceptable(c) /\ ~InList(Opener(c), c)
    /\ opening[c] = "none" => replies[c] = <<>>
    /\ opening[c] = "failed" =>
          \/ ~InList(Opener(c), c)
          \/ connClosed[Opener(c)] \/ err[Opener(c)] # "none"

(* The answer to an Open depends on who sent it. *)
WireTypes(e) ==
    \A i \in 1 .. Len(wire[e]) :
        LET m == wire[e][i]
        IN  /\ m.type = "Open" => Opener(m.of) = e
            /\ m.type = "OpenConfirm" => Other(e) \in setting.acceptable
            /\ m.type = "OpenFailure" => Other(e) \notin setting.acceptable

(* The other end has not heard of a channel whose Open it has not handled,   *)
(* and Open is sent once.                                                    *)
OpenInv(c) ==
    LET o == Opener(c)
    IN  /\ Known(Other(o), c) => /\ opening[c] \notin {"none", "encode"}
                                 /\ ~Sent(wire[o], "Open", c)
                                 /\ Acceptable(c)
        /\ opening[c] \in {"none", "encode"} => ~Sent(wire[o], "Open", c)
        /\ Once(wire[o], "Open", c)

ListIInv ==
    /\ TypeOK
    /\ \A e \in Ends : /\ Placed(e) /\ LoopErr(e) /\ ServingInv(e) /\ ClosedInv(e)
                       /\ KnownInv(e) /\ LocatedInv(e) /\ AfterDrop(e) /\ WireTypes(e)
    /\ \A c \in Channels : AnswerInv(c) /\ OpenInv(c)

-----------------------------------------------------------------------------
(* Routing *)

(* e has the other end's number for c. *)
Joined(e, c) ==
    IF Opener(c) = e THEN opening[c] = "open" \/ Reply(c, "OpenConfirm")
    ELSE Known(e, c)

(* e finds the channel that m was sent on. *)
Reaches(e, m) == m.type # "Open" => InList(e, m.of) /\ m.id = localId[e][m.of]

Delivered(e) ==
    err[e] = "none" =>
        \A i \in 1 .. Len(wire[Other(e)]) : Reaches(e, wire[Other(e)][i])

(* Who sends what about a channel. *)
Sendable(e, m) ==
    /\ m.type \in {"OpenConfirm", "OpenFailure"} => Opener(m.of) # e
    /\ m.type \notin {"Open", "OpenFailure"} => Joined(e, m.of)
    /\ m.type \in {"Open", "OpenConfirm"} => m.sender = localId[e][m.of]
    /\ m.type = "Close" => sentClose[e][m.of]

Senders(e) == \A i \in 1 .. Len(wire[e]) : Sendable(e, wire[e][i])

(* Close is the last message about a channel. *)
CloseLast(s) ==
    \A i, j \in 1 .. Len(s) : i < j /\ s[i].type = "Close" => s[j].of # s[i].of

(* Nothing about c but its Open is in s. *)
Silent(s, c) == \A i \in 1 .. Len(s) : s[i].type # "Open" => s[i].of # c

(* Open is refused once, and after it was sent. *)
RefusedOnce(c) ==
    LET s == wire[Other(Opener(c))]
    IN  /\ Sent(s, "OpenFailure", c) => /\ opening[c] \notin {"none", "encode"}
                                        /\ ~Sent(wire[Opener(c)], "Open", c)
        /\ Once(s, "OpenFailure", c)

(* The acceptor says nothing about a channel before it has confirmed it. *)
ConfirmedIn(s, c) ==
    \A i \in 1 .. Len(s) :
        s[i].of = c /\ s[i].type \in {"Data", "Close"} =>
            \E j \in 1 .. i : s[j].of = c /\ s[j].type = "OpenConfirm"

ConfirmFirst(c) ==
    LET o == Opener(c)
        a == Other(o)
    IN  err[o] = "none" /\ ~Joined(o, c) =>
          /\ ConfirmedIn(wire[a], c)
          /\ Known(a, c) /\ ~Opening(a, c) =>
                Sent(wire[a], "OpenConfirm", c) \/ connClosed[a] \/ connClosed[o]

(* Each end has the other's number, the acceptor from Open and the opener    *)
(* from the confirmation on.                                                 *)
NumbersAgree(c) ==
    LET o == Opener(c)
        a == Other(o)
    IN  /\ Known(a, c) => remoteId[a][c] = localId[o][c]
        /\ Joined(o, c) => Known(a, c) /\ remoteId[o][c] = localId[a][c]

(* An Open that is under way will be answered under its number. *)
OpenReachable(c) ==
    LET o == Opener(c)
    IN  (opening[c] = "encode" \/ Sent(wire[o], "Open", c)) /\ err[o] = "none" =>
            InList(o, c)

FailedInv(c) ==
    opening[c] = "failed" =>
        ~Acceptable(c) \/ connClosed[Opener(c)] \/ err[Opener(c)] # "none"

(* While a session lives, a channel ends there when both ends have sent Close. *)
EndedByBoth(e, c) ==
    closed[e][c] /\ err[e] = "none" => Joined(e, c) /\ sentClose[Other(e)][c]

(* Then nothing more is on its way to it, so that its number may be given up. *)
ClosingInv(e, c) ==
    Closing(e, c) =>
        /\ Joined(e, c) /\ sentClose[e][c] /\ sentClose[Other(e)][c]
        /\ Silent(wire[Other(e)], c)

(* A channel is not used before it is offered, nor closed before it is        *)
(* confirmed.                                                                 *)
NotYetUsed(e, c) ==
    /\ loop[e] = "offering" /\ serving[e] = c => c \notin accepted[e] /\ ~Queued(e, c)
    /\ Opening(e, c) => ~sentClose[e][c]
    /\ sentClose[e][c] => Known(e, c)

RouteInv ==
    /\ \A e \in Ends : Delivered(e) /\ Senders(e) /\ CloseLast(wire[e])
    /\ \A c \in Channels : /\ RefusedOnce(c) /\ ConfirmFirst(c) /\ NumbersAgree(c)
                           /\ OpenReachable(c) /\ FailedInv(c)
    /\ \A e \in Ends, c \in Channels :
          EndedByBoth(e, c) /\ ClosingInv(e, c) /\ NotYetUsed(e, c)
    /\ NoStray
=============================================================================
