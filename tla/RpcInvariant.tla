---------------------------- MODULE RpcInvariant ----------------------------
(***************************************************************************)
(* The inductive invariant of Rpc. It is said of one call at a time: what  *)
(* its two ends have done, which Close has come, and where the parts of    *)
(* its request and of its reply are, from what the writer has still to     *)
(* write to what the reader's codec has made of them.                      *)
(***************************************************************************)
EXTENDS Rpc

Stages == {"idle", "opening", "hanging", "writing", "header", "reply", "closing",
           "rejecting", "returned", "rejected", "failed"}

Kinds == {"none", "header", "call", "args", "undefined", "null", "value", "throws", "EOF", "junk"}

ValueType == [kind: Kinds, error: BOOLEAN, hijacked: BOOLEAN]

PartType ==
    [part: {"size", "body", "raw", "more", "close"}, size: Nat, value: ValueType]

MessageType == Seq(PartType)

TaskType == [hijack: BOOLEAN, todo: Seq(MessageType)]

CallType ==
    [stage: Stages, todo: Seq(MessageType), error: BOOLEAN, hijacked: BOOLEAN,
     reply: Kinds,
     responder: {"none", "incoming", "frame", "args", "done", "hijacking", "hijacked"},
     ran: Outcomes \cup {"none"}, replies: Seq(TaskType), listed: SUBSET Sides,
     out: [Sides -> Seq(MessageType)], in: [Sides -> Seq(PartType)],
     sentClose: [Sides -> BOOLEAN], finishing: [Sides -> BOOLEAN],
     gone: [Sides -> BOOLEAN], late: [Sides -> BOOLEAN],
     phase: [Sides -> {"none", "size", "body", "stopped"}], size: [Sides -> Nat],
     count: [Sides -> Nat], values: [Sides -> Seq(ValueType)],
     raw: 0 .. MaxRaw, got: Seq(PartType)]

(* What is bound, or will be: only an exported function throws.  *)
Binding == [path: Seq(STRING), handler: AnyHandler]

Fits(b) == b.handler.outcome \in Thrown \cup {"manager"} => Qrpc

Fitting(list) == list \in Seq(Binding) /\ \A n \in 1 .. Len(list) : Fits(list[n])

Typed ==
    /\ setting \in Settings /\ DOMAIN objects = setting.ids
    /\ Fitting(binds) /\ Fitting(bound)
    /\ ended \in [Sides -> BOOLEAN] /\ dead \in [Sides -> BOOLEAN]
    /\ incoming \in Seq(Calls)
    /\ call \in [Calls -> CallType]

(* A call waits for accept once. *)
Waiting ==
    /\ \A n \in 1 .. Len(incoming) : call[incoming[n]].responder = "incoming"
    /\ \A m, n \in 1 .. Len(incoming) : incoming[m] = incoming[n] => m = n

(* Only calls that the setting has are made. *)
Made == \A i \in Calls : call[i].stage # "idle" => i \in DOMAIN setting.path

-----------------------------------------------------------------------------
(* What the two ends have done *)

Closes(messages) == \E n \in 1 .. Len(messages) : messages[n] = Close

ClosesOnce(messages) ==
    \A m, n \in 1 .. Len(messages) : messages[m] = Close /\ messages[n] = Close => m = n

GoesOn(messages) == \E m, n \in 1 .. Len(messages) : messages[m] = Close /\ m < n

(* Nothing has been done for a call before its channel is open. *)
Fresh(c) ==
    c.stage \in {"idle", "opening", "hanging"} =>
        /\ c.todo = <<>> /\ c.responder = "none" /\ c.listed = {} /\ c.got = <<>>
        /\ \A s \in Sides :
            /\ c.out[s] = <<>> /\ c.in[s] = <<>> /\ c.values[s] = <<>>
            /\ c.phase[s] = "none" /\ c.count[s] = 0
            /\ ~c.late[s] /\ ~c.finishing[s]
            /\ c.gone[s] \/ c.sentClose[s] => ended[s] /\ ~Mock

(* The caller has written, or is to write, no Close of its own. *)
Asking(c) ==
    /\ c.stage = "writing" => c.todo # <<>>
    /\ ~Closes(c.todo)
    /\ c.stage \in {"idle", "opening", "hanging", "writing", "header"} => ~c.error /\ ~c.hijacked
    /\ c.got # <<>> => c.stage = "returned"
    /\ c.reply # "none" => c.stage \in {"closing", "returned", "failed"}

(* The server has no reply before a handler has run. *)
Unanswered(c) == c.responder \in {"none", "incoming", "frame", "args"}

Returned(c) == c.responder \in {"done", "hijacking", "hijacked"}

Serving(c) ==
    /\ c.replies # <<>> => c.responder \in {"done", "hijacking"}
    /\ Len(c.replies) <= 4 /\ (Returns(c.ran) <= 1 => Len(c.replies) <= 1)
    /\ \A n \in 1 .. Len(c.replies) :
        /\ ~Closes(c.replies[n].todo)
        /\ c.replies[n].hijack <=> c.responder = "hijacking"
    /\ c.responder \in {"none", "incoming", "frame"} => c.ran = "none"
    /\ c.responder \in {"hijacking", "hijacked"} => c.ran = "hijack"
    /\ c.responder # "hijacked" /\ c.raw # 0 => c.responder = "done" /\ c.ran = "hijack" /\ c.replies = <<>>
    /\ Returned(c) /\ c.ran = "none" => Go("responder") /\ c.sentClose["responder"] /\ c.replies = <<>>
    /\ c.ran = "hijack" /\ c.responder = "done" => c.replies = <<>>
    /\ c.responder = "args" => c.ran # "none"
    /\ ~Qrpc => Returns(c.ran) = 1

-----------------------------------------------------------------------------
(* Closing *)

(* The responder's function threw and returned more than once. *)
Doubled(c) == Returns(c.ran) > 1 /\ Returned(c)

(* The caller is past its reply; the responder has written all. *)
Leaving(c) == c.stage \in {"closing", "rejecting", "returned", "rejected", "failed"}

Finished(c) == c.responder = "done" /\ c.replies = <<>>

HasClosed(c, s) ==
    IF s = "caller" THEN c.stage \in {"closing", "rejecting", "returned", "rejected"}
    ELSE Finished(c) \/ Doubled(c)

(* The Close of the other side has come, and nothing after it in order. *)
Heard(c, s) ==
    LET o == Other(s) IN
    c.sentClose[o] /\ ~Closes(c.out[o]) /\ (c.out[o] = <<>> \/ c.late[o])

(* A Close is sent once, and what follows it is late. *)
Closed(c, s) ==
    /\ Closes(c.out[s]) => c.sentClose[s]
    /\ ClosesOnce(c.out[s])
    /\ GoesOn(c.out[s]) => c.late[s]
    /\ c.late[s] => Go(s) /\ c.sentClose[s]

(* Why a channel was shut down, or has sent Close. *)
Shut(c, s) ==
    /\ Mock => c.out[s] = <<>> /\ ~c.sentClose[s] /\ ~c.finishing[s]
    /\ ended[s] /\ ~Mock => c.gone[s]
    /\ c.gone[s] => IF Go(s) THEN c.sentClose[s] /\ ~c.finishing[s] ELSE c.in[s] = <<>>
    /\ c.gone[s] => ended[s] \/ Mock \/ Heard(c, s) \/ (s = "responder" /\ Doubled(c))
    /\ c.finishing[s] => Go(s) /\ c.sentClose[s] /\ Heard(c, s)
    /\ ~Go(s) /\ c.sentClose[s] => Heard(c, s) \/ HasClosed(c, s)

(* Go answers a Close before it goes on. *)
Told(c, s) ==
    LET o == Other(s)
        told == Closes(c.out[s]) \/ c.finishing[o] \/ c.gone[o]
    IN  Go(o) => /\ c.sentClose[s] => ended[s] \/ told
                 /\ c.late[s] => told

(* One of the two has closed the channel first. *)
First(c) ==
    \A s \in Sides : Closes(c.out[s]) \/ (c.sentClose[s] /\ ~ended[s]) =>
        Leaving(c) \/ Finished(c) \/ Returns(c.ran) # 1

(* A responder in Go that has sent Close, and not everything, was asked to. *)
Answering(c) ==
    LET asked == /\ c.sentClose["caller"]
                 /\ Closes(c.out["responder"]) \/ c.gone["caller"] \/ c.finishing["caller"]
    IN  /\ Go("responder") /\ c.sentClose["responder"] /\ ~Finished(c) =>
               ended["responder"] \/ ended["caller"] \/ asked
        /\ c.late["responder"] => asked

-----------------------------------------------------------------------------
(* The request, as a responder in Go takes it in *)

Before(messages, n) == \A j \in 1 .. n : messages[j] # Close

(* Its first two parts come in one message or in two. *)
Asked(k) == IF k = 1 THEN SizePart(1) ELSE BodyPart(Plain("call"))

AskedMessages == IF Go("caller") THEN 1 ELSE 2

AskedIn(k) == IF Go("caller") THEN <<Asked(1), Asked(2)>> ELSE <<Asked(k)>>

AskedTaken(c) == IF c.phase["responder"] = "body" THEN 1 ELSE 0

(* Of the messages that the first two parts are in, d have come. *)
AskedSoFar(c, d) ==
    LET in == c.in["responder"]
        out == c.out["caller"]
        taken == AskedTaken(c)
    IN  /\ IF d < AskedMessages THEN taken + Len(in) = d ELSE taken + Len(in) >= 2
        /\ \A n \in 1 .. Len(in) : taken + n <= 2 => in[n] = Asked(taken + n)
        /\ Closes(out) \/ ~c.late["caller"] =>
            \A n \in 1 .. Len(out) :
                Before(out, n) /\ d + n <= AskedMessages => out[n] = AskedIn(d + n)
        /\ c.stage = "writing" /\ ~c.sentClose["caller"] /\ (\A s \in Sides : ~ended[s]) =>
            \A n \in 1 .. Len(c.todo) :
                d + Len(out) + n <= AskedMessages => c.todo[n] = AskedIn(d + Len(out) + n)

(* The responder gets the call, unless its channel was shut down. *)
RequestRead(c) ==
    Go("responder") /\ c.responder \in {"none", "incoming", "frame"} =>
        /\ c.responder # "frame" => c.phase["responder"] = "none" /\ c.values["responder"] = <<>>
        /\ c.phase["responder"] = "body" => c.size["responder"] = 1 /\ c.values["responder"] = <<>>
        /\ c.values["responder"] = <<>> => \E d \in 0 .. AskedMessages : AskedSoFar(c, d)
        /\ c.values["responder"] # <<>> /\ Failed(Head(c.values["responder"])) =>
                c.gone["responder"]

-----------------------------------------------------------------------------
(* The reply, from the calls of return to the caller's codec *)

HeaderOf(c) == Value("header", IsError(c.ran), c.ran = "hijack")

AnswerOf(c) == Answer(c.ran)

(* Its parts, and what a handler writes after it. *)
ReplyLength(c) == 3 + Units("responder", AnswerOf(c))

PartAt(c, k) ==
    CASE k = 1 -> SizePart(1)
      [] k = 2 -> BodyPart(HeaderOf(c))
      [] k = 3 -> SizePart(ReplyLength(c) - 3)
      [] k = 4 /\ ReplyLength(c) > 3 -> BodyPart(AnswerOf(c))
      [] k > 4 /\ k <= ReplyLength(c) -> MorePart
      [] OTHER -> RawPart(k - ReplyLength(c))

(* The messages they are in: Go writes a size and what follows at once. *)
PartsOf(d) == IF ~Go("responder") THEN d ELSE IF d <= 2 THEN 2 * d ELSE d + 2

MessageAt(c, k) ==
    IF Go("responder") /\ k <= 2 THEN <<PartAt(c, 2 * k - 1), PartAt(c, 2 * k)>>
    ELSE <<PartAt(c, PartsOf(k))>>

ReplyMessages(c) == IF Go("responder") THEN ReplyLength(c) - 2 ELSE ReplyLength(c)

(* What is still to be written is the end of it. *)
ToWrite(c) ==
    Returns(c.ran) = 1 /\ c.replies # <<>> =>
        LET todo == Head(c.replies).todo
            n == ReplyMessages(c) - Len(todo)
        IN  n >= 0 /\ \A k \in 1 .. Len(todo) : todo[k] = MessageAt(c, n + k)

Sent(c) ==
    CASE Unanswered(c) -> 0
      [] c.replies # <<>> -> ReplyMessages(c) - Len(Head(c.replies).todo)
      [] OTHER -> ReplyMessages(c) + c.raw

(* The parts that the caller's codec, and then its application, has read. *)
Read(c) ==
    CASE c.phase["caller"] = "body" -> 2 * c.count["caller"] + 1
      [] c.phase["caller"] # "body" /\ c.count["caller"] = 2 -> ReplyLength(c) + Len(c.got)
      [] OTHER -> 2 * c.count["caller"]

CutOff(c) ==
    setting.big /\ Go("caller") /\ Go("responder") /\ c.ran \in {"value", "hijack"}

(* The empty frame of undefined, and a caller that has read it: all that is *)
(* there if it runs JavaScript.                                             *)
Empty(c) ==
    /\ setting.nothing /\ setting.impl["responder"] = "rpc"
    /\ c.ran \in {"value", "hijack"}

TookEmpty(c) == Empty(c) /\ c.count["caller"] = 2

(* Functions that throw, and a caller that has met the end of its channel, a  *)
(* frame that is cut or, in JavaScript, one that is empty, do not know where  *)
(* they are.                                                                  *)
Lost(c) ==
    \/ Returns(c.ran) # 1 \/ c.stage = "failed"
    \/ ~Go("caller") /\ (c.gone["caller"] \/ TookEmpty(c))
    \/ ~TookEmpty(c) /\ c.reply = "EOF"
    \/ ~TookEmpty(c) /\ c.values["caller"] # <<>> /\ Failed(Head(c.values["caller"]))

(* d messages of the reply have come, and those on the wire come next; a      *)
(* caller in Go that is told of the end has them all.                         *)
ReplySoFar(c, d) ==
    LET in == c.in["caller"]
        out == c.out["responder"]
    IN  /\ PartsOf(d) = Read(c) + Len(in)
        /\ \A n \in 1 .. Len(in) : in[n] = PartAt(c, Read(c) + n)
        /\ Closes(out) \/ ~c.late["responder"] =>
            \A n \in 1 .. Len(out) : Before(out, n) => out[n] = MessageAt(c, d + n)
        /\ ~c.sentClose["responder"] /\ (Mock \/ \A s \in Sides : ~ended[s]) =>
            d + Len(out) = Sent(c)
        /\ Go("caller") /\ ~ended["caller"] /\ ~Leaving(c) =>
            /\ \A n \in 1 .. Len(out) : out[n] = Close => d + n > ReplyMessages(c)
            /\ c.gone["caller"] \/ c.finishing["caller"] => d >= ReplyMessages(c)

Replying(c) == ~Lost(c) => \E d \in Nat : ReplySoFar(c, d)

(* Nothing comes before a handler has run. *)
Silent(c) ==
    Unanswered(c) \/ c.ran = "none" =>
        /\ c.in["caller"] = <<>> /\ c.count["caller"] = 0 /\ c.phase["caller"] # "body"
        /\ \A n \in 1 .. Len(c.out["responder"]) : c.out["responder"][n] = Close
        /\ c.values["caller"] # <<>> => Go("caller") /\ c.values["caller"] = <<Plain("EOF")>>
        /\ c.stage \in {"idle", "opening", "hanging", "writing", "header", "failed"}
        /\ c.reply = "none"

-----------------------------------------------------------------------------
(* What the caller makes of it *)

(* The codec decodes two frames. *)
Counted(c) ==
    LET n == c.count["caller"]
        values == c.values["caller"]
    IN  /\ n <= 2 /\ (~Go("caller") /\ n = 2 => c.phase["caller"] = "stopped")
        /\ Go("caller") =>
            /\ c.phase["caller"] = "body" => values = <<>> /\ c.stage \in {"header", "reply"}
            /\ c.phase["caller"] # "stopped"
            /\ c.stage \in {"writing", "failed"} => values = <<>>
            /\ c.stage \in {"writing", "header"} => n <= Len(values) /\ Len(values) <= 1
            /\ c.stage = "reply" => n <= 1 + Len(values) /\ Len(values) <= 1

(* The header, and then the answer, until Go meets the end. *)
Decoding(c) ==
    LET n == c.count["caller"]
        values == c.values["caller"]
        atEnd == Go("caller") /\ values = <<Plain("EOF")>> /\ ended["caller"]
        cut == CutOff(c) /\ values = <<Plain("throws")>>
        junk == TookEmpty(c) /\ ~Go("caller")
    IN  Returns(c.ran) = 1 =>
        /\ c.phase["caller"] = "body" /\ ~Lost(c) =>
               n < 2 /\ c.size["caller"] = PartAt(c, 2 * n + 1).size
        /\ c.stage \in {"writing", "header"} =>
               \/ n = 0 /\ values = <<>>
               \/ n = 1 /\ values = <<HeaderOf(c)>>
               \/ n = 2 /\ values = <<HeaderOf(c), AnswerOf(c)>>
               \/ junk /\ values \in {<<HeaderOf(c)>>, <<HeaderOf(c), Plain("junk")>>}
               \/ n < 2 /\ atEnd
        /\ c.stage = "reply" =>
               \/ n = 1 /\ values = <<>>
               \/ n = 2 /\ values = <<AnswerOf(c)>>
               \/ junk /\ values \in {<<>>, <<Plain("junk")>>}
               \/ TookEmpty(c) /\ Go("caller") /\ values = <<Plain("EOF")>>
               \/ n < 2 /\ atEnd
               \/ cut
        /\ c.stage \in {"closing", "returned"} =>
               values = <<>> /\ (n = 2 \/ c.reply = "EOF")

(* Go is told of the end when it has read all that came. *)
AtLast(c) ==
    /\ Returns(c.ran) = 1 /\ Go("caller") /\ ~TookEmpty(c)
    /\ c.reply = "EOF" \/ c.values["caller"] = <<Plain("EOF")>>
    => c.gone["caller"] /\ c.in["caller"] = <<>>

(* The error of the header, and the kind of the answer. *)
Noted(c) ==
    /\ Returns(c.ran) = 1 =>
        /\ c.stage \in {"reply", "closing", "returned"} =>
               c.ran # "none" /\ c.error = IsError(c.ran) /\ c.hijacked = (c.ran = "hijack")
        /\ c.stage \in {"closing", "returned"} =>
               \/ c.reply = AnswerOf(c).kind
               \/ /\ c.reply = "EOF" /\ Go("caller") /\ ~setting.wanted
                  /\ TookEmpty(c) \/ (ended["caller"] /\ c.gone["caller"])
               \/ c.reply = "junk" /\ ~Go("caller") /\ TookEmpty(c)
        /\ c.stage \in {"rejecting", "rejected"} =>
               c.ran # "none" /\ c.error /\ ~c.hijacked /\ IsError(c.ran) /\ (Qrpc \/ Go("caller"))
    /\ c.got # <<>> => c.hijacked
    /\ c.stage = "failed" /\ c.hijacked => Go("caller")
    /\ Go("caller") \/ ~Empty(c) => \A n \in 1 .. Len(c.got) : c.got[n] = RawPart(n)

(* No other handler seems to have hijacked its call. *)
NoMark(parts) == \A n \in 1 .. Len(parts) : ~parts[n].value.hijacked

Unmarked(c) ==
    /\ c.hijacked => c.ran = "hijack" /\ Returned(c)
    /\ c.ran # "hijack" =>
        /\ NoMark(c.in["caller"])
        /\ \A n \in 1 .. Len(c.out["responder"]) : NoMark(c.out["responder"][n])
        /\ \A n \in 1 .. Len(c.values["caller"]) : ~c.values["caller"][n].hijacked
        /\ \A m \in 1 .. Len(c.replies) : \A n \in 1 .. Len(c.replies[m].todo) :
              NoMark(c.replies[m].todo[n])

FailsBecause(c) ==
    c.stage = "failed" =>
        \/ ended["caller"]
        \/ c.sentClose["responder"] /\ c.todo # <<>>
        \/ CutOff(c) /\ c.reply = "throws"
        \/ Go("caller") /\ setting.wanted /\ Empty(c) /\ c.reply = "EOF"
        \/ Go("caller") /\ ~setting.wanted /\ ~IsError(c.ran) /\ c.reply = "value"

-----------------------------------------------------------------------------
Closing(c) ==
    /\ \A s \in Sides : Closed(c, s) /\ Shut(c, s) /\ Told(c, s)
    /\ First(c) /\ Answering(c)

Carried(c) ==
    /\ RequestRead(c) /\ ToWrite(c) /\ Replying(c) /\ Silent(c) /\ Counted(c)
    /\ Decoding(c) /\ AtLast(c) /\ Noted(c) /\ Unmarked(c) /\ FailsBecause(c)

CallInv(c) == Fresh(c) /\ Asking(c) /\ Serving(c) /\ Closing(c) /\ Carried(c)

RpcInv == Typed /\ Waiting /\ Made /\ (\A i \in Calls : CallInv(call[i])) /\ LoopsSurvive
=============================================================================
