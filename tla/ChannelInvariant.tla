-------------------------- MODULE ChannelInvariant --------------------------
(***************************************************************************)
(* The inductive invariant of Channel.  A byte is, at any time, in one     *)
(* place: written and on the wire, buffered, taken by Read but not yet     *)
(* given back to the peer, given back and on the wire, or credited again   *)
(* to the writer's window.  The stamps of the messages on the wire join    *)
(* what one end has counted to what the other has, so that no sum over the *)
(* wire is needed.                                                         *)
(***************************************************************************)
EXTENDS Channel

(* Bytes that Read at e has returned, that wait for it, and both. *)
Taken(e) == Len(got[e])

Buffered(e) == Len(pending[e])

Received(e) == Taken(e) + Buffered(e)

(* Bytes that Write at e has reserved and not yet written. *)
Held(e) == IF writer[e].pc = "encode" THEN writer[e].space ELSE 0

(* Bytes that Read at e has taken and not yet added to myWindow. *)
Uncounted(e) == IF reader[e].pc = "adjust" THEN reader[e].n ELSE 0

(* Bytes that Read at e has taken and not yet told the peer of. *)
Untold(e) == IF reader[e].pc = "idle" THEN 0 ELSE reader[e].n

(* The loop at e may still handle a message. *)
Serving(e) == err[e] = "none" /\ ~connClosed[e]

DataBefore(m) == IF m.type = "Data" THEN m.at - m.n ELSE m.at

AdjustedBefore(m) == IF m.type = "WindowAdjust" THEN m.adj - m.n ELSE m.adj

-----------------------------------------------------------------------------
WindowAccounted(e) == myWindow[e] + Buffered(e) + Uncounted(e) = WindowOf[e]

CreditCovered(e) == remoteWin[e] + Held(e) + sent[e] <= WindowOf[Other(e)] + acked[e]

AdjustCovered(e) ==
    /\ acked[e] <= adjusted[Other(e)]
    /\ adjusted[e] + Untold(e) <= Taken(e)

ReservationFits(e) ==
    Held(e) <= MaxPacketOf[Other(e)] /\ Held(e) <= writer[e].todo

(* A stream ends no later than where its writer is. *)
FinSent(e) == fin[e] <= sent[e]

(* The messages of s lead from `bytes` data bytes and `credit` bytes of       *)
(* window adjustment to `bytesTo` and `creditTo`, without a gap.             *)
Joins(s, bytes, credit, bytesTo, creditTo) ==
    /\ s = <<>> => bytes = bytesTo /\ credit = creditTo
    /\ s # <<>> => /\ DataBefore(s[1]) = bytes
                   /\ AdjustedBefore(s[1]) = credit
                   /\ s[Len(s)].at = bytesTo
                   /\ s[Len(s)].adj = creditTo
    /\ \A i \in 1 .. Len(s) - 1 : /\ DataBefore(s[i + 1]) = s[i].at
                                  /\ AdjustedBefore(s[i + 1]) = s[i].adj

(* No message of s goes beyond what was sent, none is larger than `largest`, *)
(* and what ends the stream comes at or after its end.                       *)
Fits(s, largest, bytesTo, creditTo, end) ==
    \A i \in 1 .. Len(s) :
        /\ s[i].at <= bytesTo
        /\ s[i].adj <= creditTo
        /\ s[i].type = "Data" => s[i].n <= largest
        /\ s[i].type \in {"EOF", "Close"} => end # -1 /\ end <= s[i].at

(* What is under way to e continues where e has got to, up to where the      *)
(* other end has got to, and e can accept each message.                      *)
WireInv(e) ==
    Serving(e) =>
        /\ Joins(wire[Other(e)], Received(e), acked[e],
                 sent[Other(e)], adjusted[Other(e)])
        /\ Fits(wire[Other(e)], MaxPacketOf[e],
                sent[Other(e)], adjusted[Other(e)], fin[Other(e)])

(* e has received everything that the other end sent before its end mark. *)
Complete(e) == fin[Other(e)] # -1 /\ fin[Other(e)] <= Received(e)

LoopConsistent(e) ==
    /\ loop[e] = "reading" => err[e] = "none"
    /\ loop[e] \in {"failed", "dropped", "done"} => err[e] # "none"
    /\ loop[e] \in {"closing", "marking", "releasing"} \/ bufClosed[e] =>
          err[e] # "none" \/ Complete(e)

EndInv(e) ==
    /\ WindowAccounted(e)
    /\ CreditCovered(e)
    /\ AdjustCovered(e)
    /\ ReservationFits(e)
    /\ FinSent(e)
    /\ WireInv(e)
    /\ LoopConsistent(e)

IInv ==
    /\ TypeOK
    /\ InOrder
    /\ EofAfterData
    /\ FlowControl
    /\ \A e \in Ends : EndInv(e)

-----------------------------------------------------------------------------
(* Of a channel that is closed: nothing but data follows Close, and only a    *)
(* channel whose peer has written Close leaves the list of a live session.    *)
(* A data message carries something, unless a Write of 2^32 bytes wraps.      *)

Ending(e) == loop[e] \in {"closing", "marking", "releasing"} \/ ~linked[e]

OnlyData(s) == \A i \in 1 .. Len(s) : s[i].type = "Data"

CloseThenData(s) ==
    \A i, j \in 1 .. Len(s) : s[i].type = "Close" /\ i < j => s[j].type = "Data"

ClosedBy(s, e) == \A i \in 1 .. Len(s) : s[i].type = "Close" => sentClose[e]

NoneEmpty(s) == \A i \in 1 .. Len(s) : s[i].type = "Data" => s[i].n > 0

WriterBusy(e) ==
    /\ writer[e].pc # "idle" => writer[e].todo \in 1 .. MaxBytes[e]
    /\ writer[e].pc = "encode" => writer[e].space > 0

CloseInv(e) ==
    /\ ~linked[e] => bufClosed[e]
    /\ CloseThenData(wire[e])
    /\ ClosedBy(wire[e], e)
    /\ NoneEmpty(wire[e])
    /\ WriterBusy(e)
    /\ Ending(e) /\ err[e] = "none" => sentClose[Other(e)] /\ OnlyData(wire[Other(e)])

LateInv == OnlyLateDataKills /\ \A e \in Ends : CloseInv(e)
=============================================================================
