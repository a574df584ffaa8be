----------------------------- MODULE RpcProofs ------------------------------
(***************************************************************************)
(* Theorems about Rpc, for any number of calls, any handlers, binds and    *)
(* objects, and every pair of implementations: its types, that no call     *)
(* makes a loop throw but as LoopsSurvive says, and that a call returns    *)
(* what its handler answers, or fails for one of the reasons there are.    *)
(***************************************************************************)
EXTENDS RpcCallProofs

-----------------------------------------------------------------------------
(* A handler returns *)

(* What has been done by then: it was decided which handler runs, and it has run. *)
ToReturn(c) ==
    /\ Unanswered(c) /\ c.replies = <<>> /\ c.raw = 0 /\ c.ran \in Outcomes
    /\ ~Qrpc => Returns(c.ran) = 1

LEMMA ReturnKeeps ==
    ASSUME NEW c \in CallType, NEW d \in CallType, Impls, ToReturn(c), DidReturn(c, d, c.ran)
    PROVE  Serving(d) /\ ToWrite(d) /\ RepliesKept(c, d) /\ Returned(d) /\ d.ran # "none"
<1>1. c.ran \in Outcomes /\ c.replies = <<>> /\ c.raw = 0 /\ d.ran = c.ran /\ d.raw = 0
      /\ (~Qrpc => Returns(c.ran) = 1)
  BY DEF ToReturn, DidReturn
<1>2. PICK r \in Seq(MessageType) :
        /\ r = Reply(c.ran) /\ Len(r) = ReplyMessages(c) /\ Len(r) \in 2 .. 4
        /\ \A k \in 1 .. Len(r) : r[k] = MessageAt(c, k)
        /\ ~Closes(r)
        /\ c.ran # "hijack" => \A k \in 1 .. Len(r) : NoMark(r[k])
  <2>1. /\ Reply(c.ran) \in Seq(MessageType) /\ Len(Reply(c.ran)) = ReplyMessages(c)
        /\ Len(Reply(c.ran)) \in 2 .. 4
        /\ \A k \in 1 .. Len(Reply(c.ran)) : Reply(c.ran)[k] = MessageAt(c, k)
        /\ ~Closes(Reply(c.ran))
        /\ c.ran # "hijack" => \A k \in 1 .. Len(Reply(c.ran)) : NoMark(Reply(c.ran)[k])
    BY <1>1, ReplyIs
  <2> QED  BY <2>1
<1>3. PICK n \in {0, 1, 2, 4} : n = Returns(c.ran)
  <2>1. Returns(c.ran) \in {0, 1, 2, 4}
    BY ReturnsMost
  <2> QED  BY <2>1
<1>4. /\ \A k : PartAt(d, k) = PartAt(c, k) /\ MessageAt(d, k) = MessageAt(c, k)
      /\ ReplyMessages(d) = ReplyMessages(c)
  BY <1>1, SameReplyParts
<1>5. StageOf(c.ran) \in {"done", "hijacking"} /\ (StageOf(c.ran) = "hijacking" <=> c.ran = "hijack")
  BY DEF StageOf
<1>6. c.ran # "none" /\ "none" \notin Outcomes
  <2>1. "none" \notin Outcomes
    BY DEF Outcomes, Thrown
  <2> QED  BY <1>1, <2>1
<1>7. PICK t \in Seq(MessageType) :
        /\ t = Tail(r) /\ Len(t) = Len(r) - 1 /\ ~Closes(t)
        /\ \A k \in 1 .. Len(t) : t[k] = MessageAt(c, 1 + k)
        /\ c.ran # "hijack" => \A k \in 1 .. Len(t) : NoMark(t[k])
  <2>1. r # <<>>
    <3>1. Len(r) # 0
      BY <1>2
    <3> QED  BY <3>1
  <2>2. /\ Tail(r) \in Seq(MessageType) /\ Len(Tail(r)) = Len(r) - 1
        /\ \A k \in 1 .. Len(Tail(r)) : Tail(r)[k] = r[k + 1]
    BY <2>1, OneLess
  <2>3. ~Closes(Tail(r))
    BY <1>2, <2>1, TailCloses
  <2>4. \A k \in 1 .. Len(Tail(r)) : k + 1 \in 1 .. Len(r) /\ k + 1 = 1 + k
    BY <1>2, <2>2
  <2> QED  BY <1>2, <2>2, <2>3, <2>4
<1>8. CASE Go("responder")
  <2>1. PICK a : a = Task(c.ran, r)
    OBVIOUS
  <2>2. d.replies = <<a>> /\ d.responder = StageOf(c.ran)
    BY <1>2, <1>8, <2>1 DEF DidReturn
  <2>3. a.todo = r /\ (a.hijack <=> c.ran = "hijack")
    BY <2>1 DEF Task
  <2>4. Len(d.replies) = 1 /\ d.replies[1] = a /\ Head(d.replies) = a /\ d.replies # <<>>
    BY <2>2
  <2>5. n = 1
    BY <1>1, <1>3, <1>8, GoOrNot
  <2>6. Serving(d)
    <3>1. \A k \in 1 .. Len(d.replies) :
            ~Closes(d.replies[k].todo) /\ (d.replies[k].hijack <=> d.responder = "hijacking")
      BY <1>2, <1>5, <2>2, <2>3, <2>4
    <3>2. c.ran = "hijack" => d.responder # "done"
      BY <1>5, <2>2
    <3> QED  BY <1>1, <1>3, <1>5, <1>6, <2>2, <2>4, <2>5, <3>1, <3>2 DEF Serving, Returned
  <2>7. ToWrite(d)
    <3>1. ReplyMessages(d) - Len(r) = 0
      BY <1>2, <1>4
    <3>2. \A k \in 1 .. Len(r) : 0 + k = k
      OBVIOUS
    <3> QED  BY <1>2, <1>4, <2>3, <2>4, <3>1, <3>2 DEF ToWrite
  <2>8. RepliesKept(c, d)
    BY <1>2, <2>3, <2>4 DEF RepliesKept
  <2> QED  BY <1>1, <1>5, <1>6, <2>2, <2>6, <2>7, <2>8 DEF Returned
<1>9. CASE ~Go("responder") /\ c.sentClose["responder"]
  <2>1. d.responder = "done" /\ d.replies = <<>>
    BY <1>1, <1>9 DEF DidReturn
  <2>2. Len(d.replies) = 0
    BY <2>1
  <2>3. Serving(d)
    BY <1>1, <1>6, <2>1, <2>2 DEF Serving, Returned
  <2> QED  BY <1>1, <1>6, <2>1, <2>2, <2>3 DEF Returned, ToWrite, RepliesKept
<1>10. CASE ~Go("responder") /\ ~c.sentClose["responder"]
  <2>1. PICK a \in TaskType : a = Task(c.ran, t) /\ a.todo = t /\ (a.hijack <=> c.ran = "hijack")
    <3>1. (c.ran = "hijack") \in BOOLEAN
      OBVIOUS
    <3>2. Task(c.ran, t) \in TaskType
      BY <1>7, <3>1 DEF Task, TaskType
    <3> QED  BY <3>2 DEF Task
  <2>2. d.replies = [k \in 1 .. n |-> a] /\ d.responder = StageOf(c.ran)
    BY <1>2, <1>3, <1>7, <1>10, <2>1 DEF DidReturn
  <2>3. d.replies \in Seq(TaskType) /\ Len(d.replies) = n /\ \A k \in 1 .. n : d.replies[k] = a
    BY <2>2, Repeated
  <2>4. Serving(d)
    <3>1. \A k \in 1 .. Len(d.replies) :
            ~Closes(d.replies[k].todo) /\ (d.replies[k].hijack <=> d.responder = "hijacking")
      BY <1>5, <1>7, <2>1, <2>2, <2>3
    <3>2. c.ran = "hijack" => d.responder # "done"
      BY <1>5, <2>2
    <3>3. Len(d.replies) <= 4 /\ (Returns(d.ran) <= 1 => Len(d.replies) <= 1)
      BY <1>1, <1>3, <2>3
    <3> QED  BY <1>1, <1>5, <1>6, <2>2, <3>1, <3>2, <3>3 DEF Serving, Returned
  <2>5. ToWrite(d)
    <3>1. SUFFICES ASSUME n = 1
                   PROVE  LET todo == Head(d.replies).todo
                              z == ReplyMessages(d) - Len(todo)
                          IN  z >= 0 /\ \A k \in 1 .. Len(todo) : todo[k] = MessageAt(d, z + k)
      BY <1>1, <1>3 DEF ToWrite
    <3>2. d.replies # <<>>
      <4>1. Len(d.replies) # 0
        BY <2>3, <3>1
      <4> QED  BY <2>3, <4>1
    <3>3. Head(d.replies) = a
      <4>1. Head(d.replies) = d.replies[1]
        BY <2>3, <3>2, OneLess
      <4> QED  BY <2>3, <3>1, <4>1
    <3>4. ReplyMessages(d) - Len(t) = 1
      BY <1>2, <1>4, <1>7
    <3> QED  BY <1>4, <1>7, <2>1, <3>3, <3>4, SMTT(30)
  <2>6. RepliesKept(c, d)
    BY <1>7, <2>1, <2>3 DEF RepliesKept
  <2> QED  BY <1>1, <1>5, <1>6, <2>2, <2>4, <2>5, <2>6 DEF Returned
<1> QED  BY <1>8, <1>9, <1>10
(* The first message of a reply. *)
LEMMA FirstMessage ==
    ASSUME NEW c, Impls, c.ran \in Outcomes
    PROVE  LET m == Head(Reply(c.ran)) IN
           /\ m \in MessageType /\ m # Close /\ m = MessageAt(c, 1) /\ Reply(c.ran) # <<>>
           /\ c.ran # "hijack" => NoMark(m)
           /\ ~Go("responder") => m = <<SizePart(1)>> /\ SizePart(1) \in PartType
<1>1. PICK r \in Seq(MessageType) :
        /\ r = Reply(c.ran) /\ Len(r) \in 2 .. 4
        /\ \A k \in 1 .. Len(r) : r[k] = MessageAt(c, k)
        /\ ~Closes(r)
        /\ c.ran # "hijack" => \A k \in 1 .. Len(r) : NoMark(r[k])
  <2>1. /\ Reply(c.ran) \in Seq(MessageType) /\ Len(Reply(c.ran)) \in 2 .. 4
        /\ \A k \in 1 .. Len(Reply(c.ran)) : Reply(c.ran)[k] = MessageAt(c, k)
        /\ ~Closes(Reply(c.ran))
        /\ c.ran # "hijack" => \A k \in 1 .. Len(Reply(c.ran)) : NoMark(Reply(c.ran)[k])
    BY ReplyIs
  <2> QED  BY <2>1
<1>2. 1 \in 1 .. Len(r) /\ Len(r) # 0
  <2>1. Len(r) \in 2 .. 4
    BY <1>1
  <2> QED  BY <2>1
<1>3. r # <<>> /\ Head(r) = r[1] /\ r[1] \in MessageType
  BY <1>1, <1>2
<1>4. ~Go("responder") => MessageAt(c, 1) = <<SizePart(1)>>
  <2>1. SUFFICES ASSUME ~Go("responder")  PROVE MessageAt(c, 1) = <<SizePart(1)>>
    OBVIOUS
  <2>2. MessageAt(c, 1) = <<PartAt(c, PartsOf(1))>>
    BY <2>1 DEF MessageAt
  <2>3. PartsOf(1) = 1
    BY <2>1 DEF PartsOf
  <2>4. PartAt(c, 1) = SizePart(1)
    BY DEF PartAt
  <2> QED  BY <2>2, <2>3, <2>4
<1>5. r[1] # Close
  BY <1>1, <1>2 DEF Closes
<1>6. SizePart(1) \in PartType
  BY PartTypes
<1> QED  BY <1>1, <1>2, <1>3, <1>4, <1>5, <1>6

(* Its message, written as often as the function returns. *)
LEMMA MarksJoin ==
    ASSUME NEW p \in Seq(MessageType), NEW m \in MessageType, NEW n \in Nat,
           \A k \in 1 .. Len(p) : NoMark(p[k]), NoMark(m)
    PROVE  \A k \in 1 .. Len(p \o [j \in 1 .. n |-> m]) : NoMark((p \o [j \in 1 .. n |-> m])[k])
<1>1. PICK q \in Seq(MessageType) : /\ q = [j \in 1 .. n |-> m] /\ Len(q) = n
                                    /\ \A k \in 1 .. n : q[k] = m
  <2>1. /\ [j \in 1 .. n |-> m] \in Seq(MessageType) /\ Len([j \in 1 .. n |-> m]) = n
        /\ \A k \in 1 .. n : [j \in 1 .. n |-> m][k] = m
    BY Repeated
  <2> QED  BY <2>1
<1>2. /\ Len(p \o q) = Len(p) + Len(q) /\ Len(p) \in Nat /\ Len(q) \in Nat
      /\ \A k \in 1 .. Len(p) : (p \o q)[k] = p[k]
      /\ \A k \in 1 .. Len(q) : (p \o q)[Len(p) + k] = q[k]
  BY Joined
<1>3. ASSUME NEW k \in 1 .. Len(p \o q)  PROVE NoMark((p \o q)[k])
  <2>1. CASE k \in 1 .. Len(p)
    BY <1>2, <2>1
  <2>2. CASE k \notin 1 .. Len(p)
    <3>1. PICK l \in 1 .. Len(q) : Len(p) + l = k
      <4>1. k - Len(p) \in 1 .. Len(q) /\ Len(p) + (k - Len(p)) = k
        BY <1>2, <1>3, <2>2
      <4> QED  BY <4>1
    <3>2. (p \o q)[k] = q[l] /\ q[l] = m
      BY <1>1, <1>2, <3>1
    <3> QED  BY <3>2
  <2> QED  BY <2>1, <2>2
<1> QED  BY <1>1, <1>3

LEMMA PartMarks ==
    ASSUME NEW p \in Seq(PartType), NEW x \in PartType, NEW n \in Nat,
           NoMark(p), ~x.value.hijacked
    PROVE  NoMark(p \o [j \in 1 .. n |-> x])
<1>1. PICK q \in Seq(PartType) : /\ q = [j \in 1 .. n |-> x] /\ Len(q) = n
                                 /\ \A k \in 1 .. n : q[k] = x
  <2>1. /\ [j \in 1 .. n |-> x] \in Seq(PartType) /\ Len([j \in 1 .. n |-> x]) = n
        /\ \A k \in 1 .. n : [j \in 1 .. n |-> x][k] = x
    BY Repeated
  <2> QED  BY <2>1
<1>2. NoMark(q)
  BY <1>1 DEF NoMark
<1> QED  BY <1>1, <1>2, NoMarkJoins

(* A function that throws returns not once. *)
LEMMA ReplyDoubled ==
    ASSUME NEW c \in CallType, NEW d \in CallType, Impls, ReplyCarried(c), ToReturn(c),
           ServerOnly(c, d), d.ran = c.ran, Returns(c.ran) # 1, Returned(d), RepliesKept(c, d),
           NEW n \in Nat, NEW m, m = Head(Reply(c.ran)), FirstWritten(c, d, n, m),
           ~Go("responder")
    PROVE  ReplyCarried(d)
<1>1. c.ran \in Outcomes /\ c.ran # "hijack" /\ d.ran # "none" /\ Unanswered(c)
  <2>1. "none" \notin Outcomes
    BY DEF Outcomes, Thrown
  <2>2. Returns("hijack") = 1
    BY DEF Returns
  <2> QED  BY <2>1, <2>2 DEF ToReturn
<1>2. /\ d.stage = c.stage /\ d.hijacked = c.hijacked /\ d.reply = c.reply
      /\ d.phase = c.phase /\ d.count = c.count /\ d.values = c.values /\ d.gone = c.gone
  BY DEF ServerOnly, CallerSame, CodecSame, FirstWritten
<1>3. PICK x \in PartType : m = <<x>> /\ NoMark(m) /\ m \in MessageType
  BY <1>1, FirstMessage
<1>4. Head(m) = x /\ ~x.value.hijacked
  <2>1. Len(m) = 1 /\ m[1] = x /\ Head(m) = x
    BY <1>3
  <2> QED  BY <1>3, <2>1 DEF NoMark
<1>5. c.in["caller"] \in Seq(PartType) /\ c.out["responder"] \in Seq(MessageType)
  BY Fields, TheSides
<1>6. NoMark(d.in["caller"])
  <2>1. NoMark(c.in["caller"])
    BY <1>1 DEF Unmarked, ReplyCarried
  <2>2. \/ d.in["caller"] = c.in["caller"]
        \/ d.in["caller"] = c.in["caller"] \o [k \in 1 .. n |-> x]
    <3>1. PICK w : w = [k \in 1 .. n |-> Head(m)]
      OBVIOUS
    <3>2. w = [k \in 1 .. n |-> x]
      BY <1>4, <3>1
    <3>3. d.in = c.in \/ d.in = [c.in EXCEPT !["caller"] = @ \o w]
      BY <3>1 DEF FirstWritten
    <3>4. d.in["caller"] = c.in["caller"] \/ d.in["caller"] = c.in["caller"] \o w
      BY <3>3, Fields, TheSides, SMTT(30)
    <3> QED  BY <3>2, <3>4
  <2> QED  BY <1>4, <1>5, <2>1, <2>2, PartMarks
<1>7. \A k \in 1 .. Len(d.out["responder"]) : NoMark(d.out["responder"][k])
  <2>1. \A k \in 1 .. Len(c.out["responder"]) : NoMark(c.out["responder"][k])
    BY <1>1 DEF Unmarked, ReplyCarried
  <2>2. \/ d.out["responder"] = c.out["responder"]
        \/ d.out["responder"] = c.out["responder"] \o [k \in 1 .. n |-> m]
    <3>1. PICK w : w = [k \in 1 .. n |-> m]
      OBVIOUS
    <3>2. d.out = c.out \/ d.out = [c.out EXCEPT !["responder"] = @ \o w]
      BY <3>1 DEF FirstWritten
    <3>3. d.out["responder"] = c.out["responder"] \/ d.out["responder"] = c.out["responder"] \o w
      BY <3>2, Fields, TheSides, SMTT(30)
    <3> QED  BY <3>1, <3>3
  <2> QED  BY <1>3, <1>5, <2>1, <2>2, MarksJoin
<1>8. Lost(d)
  BY DEF Lost
<1>9. Replying(d)
  BY <1>8 DEF Replying
<1>10. Silent(d)
  BY <1>1 DEF Silent, Unanswered, Returned
<1>11. Counted(d)
  BY <1>2 DEF Counted, ReplyCarried
<1>12. Decoding(d) /\ AtLast(d)
  BY DEF Decoding, AtLast
<1>13. Unmarked(d)
  <2>1. ~c.hijacked
    BY <1>1 DEF Unmarked, ReplyCarried, Returned, Unanswered
  <2> QED  BY <1>1, <1>2, <1>6, <1>7, <2>1 DEF Unmarked, ReplyCarried, RepliesKept
<1> QED  BY <1>9, <1>10, <1>11, <1>12, <1>13 DEF ReplyCarried

(* A handler that returns once writes the first message, unless in Go. *)
LEMMA WroteFirst ==
    ASSUME NEW c \in CallType, NEW d, NEW m \in MessageType, NEW x, m = <<x>>,
           FirstWritten(c, d, 1, m), ~c.sentClose["responder"]
    PROVE  Wrote(c, d, "responder", m)
<1>1. /\ c.late \in [Sides -> BOOLEAN] /\ c.out \in [Sides -> Seq(MessageType)]
      /\ c.in \in [Sides -> Seq(PartType)] /\ "responder" \in Sides
      /\ Other("responder") = "caller"
  BY Fields, TheSides
<1>2. c.late = [c.late EXCEPT !["responder"] = @ \/ c.sentClose["responder"]]
  <2>1. c.late["responder"] \in BOOLEAN
    BY <1>1
  <2>2. (c.late["responder"] \/ c.sentClose["responder"]) = c.late["responder"]
    BY <2>1
  <2> QED  BY <1>1, <2>2
<1>3. [k \in 1 .. 1 |-> Head(m)] = m /\ [k \in 1 .. 1 |-> m] = <<m>>
  OBVIOUS
<1>4. Append(c.out["responder"], m) = c.out["responder"] \o <<m>>
  <2>1. c.out["responder"] \in Seq(MessageType)
    BY <1>1
  <2> QED  BY <2>1, AppendIsConcat
<1>5. d.in = IF Mock /\ ~c.gone["caller"] THEN [c.in EXCEPT !["caller"] = @ \o m] ELSE c.in
  <2>1. PICK w : w = [k \in 1 .. 1 |-> Head(m)]
    OBVIOUS
  <2>2. w = m
    BY <1>3, <2>1
  <2>3. d.in = IF Mock /\ ~c.gone["caller"] THEN [c.in EXCEPT !["caller"] = @ \o w] ELSE c.in
    BY <2>1 DEF FirstWritten
  <2> QED  BY <2>2, <2>3
<1>6. ~Mock => d.out = IF Swallowed THEN c.out ELSE [c.out EXCEPT !["responder"] = Append(@, m)]
  <2>1. PICK w : w = [k \in 1 .. 1 |-> m]
    OBVIOUS
  <2>2. ~Mock => d.out = IF Swallowed THEN c.out ELSE [c.out EXCEPT !["responder"] = @ \o w]
    BY <2>1 DEF FirstWritten
  <2>3. c.out["responder"] \o w = Append(c.out["responder"], m)
    BY <1>3, <1>4, <2>1
  <2> QED  BY <2>2, <2>3
<1>7. /\ d.sentClose = c.sentClose /\ d.finishing = c.finishing /\ d.gone = c.gone
      /\ d.late = c.late /\ (Mock => d.out = c.out)
  BY DEF FirstWritten
<1> QED  BY <1>1, <1>2, <1>5, <1>6, <1>7 DEF Wrote

(* The reply has been made. *)
LEMMA ReplyReturns ==
    ASSUME NEW c \in CallType, NEW d \in CallType, Impls, ReplyCarried(c), ToReturn(c),
           DidReturn(c, d, c.ran), Closed(c, "responder"), Shut(c, "responder")
    PROVE  ReplyCarried(d)
<1>1. Serving(d) /\ RepliesKept(c, d) /\ Returned(d) /\ d.ran # "none"
  BY ReturnKeeps
<1>2. c.ran \in Outcomes /\ Unanswered(c) /\ d.ran = c.ran /\ CallerSame(c, d) /\ CodecSame(c, d)
  BY DEF ToReturn, DidReturn, ServerOnly
<1>3. ~c.hijacked
  BY <1>2 DEF Unmarked, ReplyCarried, Returned, Unanswered
<1>4. Sent(c) = 0
  BY <1>2 DEF Sent, ToReturn
<1>5. CASE Go("responder") \/ c.sentClose["responder"]
  <2>1. ChannelKept(c, d)
    BY <1>5 DEF DidReturn
  <2>2. Sent(d) = Sent(c) \/ d.sentClose["responder"]
    <3>1. CASE Go("responder")
      <4>1. d.replies = <<Task(c.ran, Reply(c.ran))>>
        BY <3>1 DEF DidReturn
      <4>2. d.replies # <<>> /\ Head(d.replies) = Task(c.ran, Reply(c.ran))
        BY <4>1
      <4>3. Head(d.replies).todo = Reply(c.ran)
        BY <4>2 DEF Task
      <4>4. Sent(d) = ReplyMessages(d) - Len(Reply(c.ran))
        BY <1>1, <4>2, <4>3 DEF Sent, Returned, Unanswered
      <4>5. ReplyMessages(d) = Len(Reply(c.ran)) /\ Len(Reply(c.ran)) \in 2 .. 4
        BY <1>2, ReplyIs, SameReplyParts
      <4> QED  BY <1>4, <4>4, <4>5
    <3>2. CASE c.sentClose["responder"]
      BY <2>1, <3>2 DEF ChannelKept, ChannelSame
    <3> QED  BY <1>5, <3>1, <3>2
  <2>3. CodecKept(c, d)
    BY <1>2, <2>1 DEF CodecKept, CodecSame, ChannelKept, ChannelSame
  <2>4. /\ d.in["caller"] = c.in["caller"] /\ d.late["responder"] = c.late["responder"]
        /\ d.out["responder"] = c.out["responder"]
        /\ c.sentClose["responder"] => d.sentClose["responder"]
    BY <2>1 DEF ChannelKept, ChannelSame
  <2> QED  BY <1>1, <1>2, <1>3, <2>2, <2>3, <2>4, ReplyClosed
<1>6. CASE ~Go("responder") /\ ~c.sentClose["responder"]
  <2>1. PICK n \in Nat : n = Returns(c.ran)
    <3>1. Returns(c.ran) \in {0, 1, 2, 4}
      BY ReturnsMost
    <3> QED  BY <3>1
  <2>2. PICK m \in MessageType : /\ m = Head(Reply(c.ran)) /\ m # Close /\ m = MessageAt(c, 1)
                                 /\ c.ran # "hijack" => NoMark(m)
                                 /\ m = <<SizePart(1)>>
    BY <1>2, <1>6, FirstMessage
  <2>3. FirstWritten(c, d, n, m)
    BY <1>6, <2>1, <2>2 DEF DidReturn
  <2>4. CASE n # 1
    <3>1. ServerOnly(c, d)
      BY DEF DidReturn
    <3> QED  BY <1>1, <1>2, <1>6, <2>1, <2>2, <2>3, <2>4, <3>1, ReplyDoubled
  <2>5. CASE n = 1
    <3>1. Wrote(c, d, "responder", m)
      BY <1>6, <2>2, <2>3, <2>5, WroteFirst
    <3>2. CodecKept(c, d)
      BY <1>2, <2>3 DEF CodecKept, CodecSame, FirstWritten
    <3>3. Sent(d) = 1
      <4>1. d.replies = [k \in 1 .. 1 |-> Task(c.ran, Tail(Reply(c.ran)))]
        BY <1>6, <2>1, <2>5 DEF DidReturn
      <4>2. d.replies # <<>> /\ Head(d.replies) = Task(c.ran, Tail(Reply(c.ran)))
        BY <4>1
      <4>3. Head(d.replies).todo = Tail(Reply(c.ran))
        BY <4>2 DEF Task
      <4>4. Sent(d) = ReplyMessages(d) - Len(Tail(Reply(c.ran)))
        BY <1>1, <4>2, <4>3 DEF Sent, Returned, Unanswered
      <4>5. ReplyMessages(d) = Len(Reply(c.ran)) /\ Len(Reply(c.ran)) \in 2 .. 4
            /\ Reply(c.ran) \in Seq(MessageType)
        BY <1>2, ReplyIs, SameReplyParts
      <4>6. Reply(c.ran) # <<>>
        BY <1>2, FirstMessage
      <4>7. Len(Tail(Reply(c.ran))) = Len(Reply(c.ran)) - 1
        BY <4>5, <4>6, OneLess
      <4> QED  BY <4>4, <4>5, <4>7
    <3>4. Sent(c) \in Nat /\ m = MessageAt(c, Sent(c) + 1) /\ Sent(d) = Sent(c) + 1
      BY <1>4, <2>2, <3>3
    <3> QED  BY <1>1, <2>2, <3>1, <3>2, <3>4, ReplyWritten
  <2> QED  BY <2>4, <2>5
<1> QED  BY <1>5, <1>6
-----------------------------------------------------------------------------
(* A step of a call keeps what is said of it *)

(* What others may rely on, and the invariant of the call. *)
Keeps(c, d) ==
    /\ d \in CallType /\ CallInv(d)
    /\ c.responder = "incoming" => d.responder = "incoming"
    /\ Returns(c.ran) > 1 => Returns(d.ran) > 1
    /\ \A s \in Sides : c.late[s] => d.late[s]

(* The same, of a call that has been made. *)
Going(c, d) == c.stage # "idle" /\ Keeps(c, d)

LEMMA PartsOfInv ==
    ASSUME NEW c, CallInv(c)
    PROVE  /\ Fresh(c) /\ Asking(c) /\ Serving(c) /\ Closing(c)
           /\ RequestRead(c) /\ ToWrite(c) /\ ReplyCarried(c) /\ Noted(c) /\ FailsBecause(c)
           /\ \A s \in Sides : Closed(c, s) /\ Shut(c, s) /\ Told(c, s)
BY DEF CallInv, Carried, ReplyCarried, Closing

LEMMA InvOfParts ==
    ASSUME NEW c, Fresh(c), Asking(c), Serving(c), Closing(c),
           RequestRead(c), ToWrite(c), ReplyCarried(c), Noted(c), FailsBecause(c)
    PROVE  CallInv(c)
BY DEF CallInv, Carried, ReplyCarried

(* What the server does leaves the caller's part alone. *)
ServerTook(c, d) ==
    /\ CallerSame(c, d) /\ FlagsUp(c, d)
    /\ d.ran = c.ran \/ Unanswered(c)
    /\ d.count["caller"] = c.count["caller"]
    /\ c.responder \notin {"none", "incoming"} /\ d.responder \notin {"none", "incoming", "frame"}
    /\ Returns(c.ran) > 1 => Returns(d.ran) > 1
    /\ \A s \in Sides : c.late[s] => d.late[s]

LEMMA ServerGoing ==
    ASSUME NEW c \in CallType, NEW d \in CallType, CallInv(c), ServerTook(c, d),
           Serving(d), ToWrite(d), ReplyCarried(d), Closing(d)
    PROVE  Going(c, d)
<1>1. /\ Fresh(c) /\ Asking(c) /\ Silent(c) /\ Noted(c) /\ FailsBecause(c)
  BY PartsOfInv DEF ReplyCarried
<1>2. /\ CallerSame(c, d) /\ FlagsUp(c, d) /\ (d.ran = c.ran \/ Unanswered(c))
      /\ c.responder \notin {"none", "incoming"} /\ d.responder \notin {"none", "incoming", "frame"}
      /\ Returns(c.ran) > 1 => Returns(d.ran) > 1
      /\ \A s \in Sides : c.late[s] => d.late[s]
      /\ d.count["caller"] = c.count["caller"]
  BY DEF ServerTook
<1>3. Fresh(d) /\ c.stage # "idle"
  <2>1. c.stage \notin {"idle", "opening", "hanging"} /\ d.stage = c.stage
    BY <1>1, <1>2 DEF Fresh, CallerSame
  <2> QED  BY <2>1 DEF Fresh
<1>4. Asking(d)
  BY <1>1, <1>2, CallerStays
<1>5. RequestRead(d)
  BY <1>2, RequestOver
<1>6. Noted(d) /\ FailsBecause(d)
  <2>1. CASE d.ran = c.ran
    <3>1. TookEmpty(c) => TookEmpty(d)
      BY <1>2, <2>1, SameReplyParts
    <3> QED  BY <1>1, <1>2, <2>1, <3>1, NotesStay
  <2>2. CASE Unanswered(c)
    <3>1. c.stage \in {"idle", "opening", "hanging", "writing", "header", "failed"} /\ c.reply = "none"
      BY <1>1, <2>2 DEF Silent
    <3>2. /\ d.stage = c.stage /\ d.reply = c.reply /\ d.got = c.got /\ d.hijacked = c.hijacked
          /\ d.todo = c.todo /\ c.got = <<>> /\ (c.sentClose["responder"] => d.sentClose["responder"])
      BY <1>1, <1>2, <3>1, TheSides DEF CallerSame, FlagsUp, Asking
    <3>3. Noted(d)
      <4>1. d.stage \notin {"reply", "closing", "returned", "rejecting", "rejected"}
        BY <3>1, <3>2
      <4>2. Len(d.got) = 0
        BY <3>2
      <4>3. d.stage = "failed" /\ d.hijacked => Go("caller")
        BY <1>1, <3>2 DEF Noted
      <4> QED  BY <3>2, <4>1, <4>2, <4>3 DEF Noted
    <3>4. FailsBecause(d)
      BY <1>1, <3>1, <3>2 DEF FailsBecause
    <3> QED  BY <3>3, <3>4
  <2> QED  BY <1>2, <2>1, <2>2
<1>7. CallInv(d)
  BY <1>3, <1>4, <1>5, <1>6, InvOfParts
<1> QED  BY <1>2, <1>3, <1>7 DEF Going, Keeps

LEMMA WroteThrough ==
    ASSUME NEW c, NEW e, NEW f, NEW d, NEW s, NEW m,
           ChannelKept(c, e), Wrote(e, f, s, m), ChannelKept(f, d)
    PROVE  Wrote(c, d, s, m)
BY DEF ChannelKept, ChannelSame, Wrote

(* What the closing of a channel at the responder does. *)
LEMMA ServerClosed ==
    ASSUME NEW c \in CallType, NEW d \in CallType, Impls, DidClose(c, d, "responder")
    PROVE  /\ FlagsUp(c, d) /\ d.late = c.late /\ d.in["caller"] = c.in["caller"]
           /\ d.gone["caller"] = c.gone["caller"] /\ d.finishing["caller"] = c.finishing["caller"]
           /\ ~Mock => d.sentClose["responder"]
           /\ \/ d.out["responder"] = c.out["responder"]
              \/ /\ ~c.sentClose["responder"] /\ d.sentClose["responder"] /\ ~Swallowed /\ ~Mock
                 /\ d.out["responder"] = Append(c.out["responder"], Close)
<1>1. /\ c.out \in [Sides -> Seq(MessageType)] /\ c.in \in [Sides -> Seq(PartType)]
      /\ c.sentClose \in [Sides -> BOOLEAN] /\ c.finishing \in [Sides -> BOOLEAN]
      /\ c.gone \in [Sides -> BOOLEAN]
  BY Fields
<1>2. Sides = {"caller", "responder"}
  BY DEF Sides
<1>3. CASE Mock
  <2>1. /\ d.out = c.out /\ d.late = c.late /\ d.sentClose = c.sentClose
        /\ d.finishing = c.finishing
        /\ d.gone = [c.gone EXCEPT !["responder"] = TRUE]
        /\ d.in = [c.in EXCEPT !["responder"] = <<>>]
    BY <1>3 DEF DidClose
  <2> QED  BY <1>1, <1>2, <1>3, <2>1 DEF FlagsUp
<1>4. CASE ~Mock /\ ~c.sentClose["responder"]
  <2>1. /\ d.finishing = c.finishing /\ d.gone = c.gone /\ d.in = c.in /\ d.late = c.late
        /\ d.sentClose = [c.sentClose EXCEPT !["responder"] = TRUE]
        /\ d.out = IF Swallowed THEN c.out ELSE [c.out EXCEPT !["responder"] = Append(@, Close)]
    BY <1>4 DEF DidClose
  <2> QED  BY <1>1, <1>2, <1>4, <2>1 DEF FlagsUp
<1>5. CASE ~Mock /\ c.sentClose["responder"] /\ Go("responder")
  <2>1. ChannelSame(c, d) /\ d.in = c.in
    BY <1>5 DEF DidClose
  <2> QED  BY <1>5, <2>1 DEF ChannelSame, FlagsUp
<1>6. CASE ~Mock /\ c.sentClose["responder"] /\ ~Go("responder")
  <2>1. /\ d.out = c.out /\ d.late = c.late
        /\ d.gone = [c.gone EXCEPT !["responder"] = TRUE]
        /\ d.finishing = [c.finishing EXCEPT !["responder"] = FALSE]
        /\ d.sentClose = [c.sentClose EXCEPT !["responder"] = @ \/ Go("responder")]
        /\ d.in = [c.in EXCEPT !["responder"] = <<>>]
    BY <1>6 DEF DidClose, WasShut
  <2>2. d.sentClose["responder"] /\ d.sentClose["caller"] = c.sentClose["caller"]
    BY <1>1, <1>2, <1>6, <2>1
  <2> QED  BY <1>1, <1>2, <1>6, <2>1, <2>2 DEF FlagsUp
<1> QED  BY <1>3, <1>4, <1>5, <1>6

(* No channel that is gone has anything to read in JavaScript. *)
LEMMA GoneEmpty ==
    ASSUME NEW c, NEW d, Closing(c), d.gone = c.gone, d.in = c.in
    PROVE  EmptyIn(d)
BY DEF Closing, Shut, EmptyIn
-----------------------------------------------------------------------------
(* The server writes *)

(* The task that is first, of those that calls of return have left. *)
LEMMA FirstTask ==
    ASSUME NEW c \in CallType, Serving(c), c.replies # <<>>
    PROVE  /\ Head(c.replies) \in TaskType /\ Head(c.replies) = c.replies[1]
           /\ ~Closes(Head(c.replies).todo)
           /\ (Head(c.replies).hijack <=> c.responder = "hijacking")
           /\ c.responder \in {"done", "hijacking"} /\ c.ran # "none" /\ c.raw = 0
           /\ Tail(c.replies) \in Seq(TaskType) /\ Len(Tail(c.replies)) = Len(c.replies) - 1
           /\ Len(c.replies) \in 1 .. 4
           /\ Returns(c.ran) <= 1 => Tail(c.replies) = <<>>
           /\ \A n \in 1 .. Len(Tail(c.replies)) : Tail(c.replies)[n] = c.replies[n + 1]
<1>1. c.replies \in Seq(TaskType) /\ c.raw \in 0 .. MaxRaw
  BY Fields
<1>2. /\ Tail(c.replies) \in Seq(TaskType) /\ Len(Tail(c.replies)) = Len(c.replies) - 1
      /\ Len(c.replies) \in Nat \ {0}
      /\ \A n \in 1 .. Len(Tail(c.replies)) : Tail(c.replies)[n] = c.replies[n + 1]
      /\ Head(c.replies) \in TaskType /\ Head(c.replies) = c.replies[1]
  BY <1>1, OneLess
<1>3. 1 \in 1 .. Len(c.replies)
  BY <1>2
<1>4. c.responder \in {"done", "hijacking"}
  BY DEF Serving
<1>5. c.ran # "none"
  BY <1>4 DEF Serving, Returned
<1>6. c.raw = 0
  BY <1>4 DEF Serving
<1>7. /\ ~Closes(c.replies[1].todo)
      /\ (c.replies[1].hijack <=> c.responder = "hijacking")
  BY <1>3 DEF Serving
<1>8. Len(c.replies) <= 4 /\ (Returns(c.ran) <= 1 => Len(c.replies) <= 1)
  BY DEF Serving
<1>9. Returns(c.ran) <= 1 => Tail(c.replies) = <<>>
  <2>1. PICK q \in Seq(TaskType) : q = Tail(c.replies) /\ Len(q) = Len(c.replies) - 1
    BY <1>2
  <2>2. PICK l \in Nat \ {0} : /\ l = Len(c.replies) /\ (Returns(c.ran) <= 1 => l <= 1)
                               /\ Len(q) = l - 1
    BY <1>2, <1>8, <2>1
  <2>3. l <= 1 => l - 1 = 0
    OBVIOUS
  <2>4. Len(q) = 0 => q = <<>>
    OBVIOUS
  <2> QED  BY <2>1, <2>2, <2>3, <2>4
<1>10. Len(c.replies) \in 1 .. 4
  <2>1. \A l \in Nat \ {0} : l <= 4 => l \in 1 .. 4
    OBVIOUS
  <2> QED  BY <1>2, <1>8, <2>1
<1>11. /\ ~Closes(Head(c.replies).todo)
       /\ (Head(c.replies).hijack <=> c.responder = "hijacking")
  BY <1>2, <1>7
<1> QED  BY <1>2, <1>4, <1>5, <1>6, <1>9, <1>10, <1>11

(* One that has been written, or cannot be, is taken off. *)
Taskless(c, d) ==
    /\ c.replies # <<>> /\ d.replies = Tail(c.replies) /\ d.ran = c.ran /\ d.raw = c.raw

LEMMA TaskDone ==
    ASSUME NEW c \in CallType, NEW d \in CallType, Serving(c), ToWrite(c), ReplyCarried(c),
           Taskless(c, d), c.sentClose["responder"] => d.sentClose["responder"],
           \/ d.responder = c.responder
           \/ d.responder = "done" /\ ~Qrpc
           \/ d.responder = "hijacked" /\ c.responder = "hijacking"
    PROVE  /\ Serving(d) /\ ToWrite(d) /\ RepliesKept(c, d)
           /\ d.ran # "none" /\ Returned(d) /\ Returned(c) /\ ~Finished(c)
           /\ (Doubled(c) => Doubled(d)) /\ (Returns(c.ran) <= 1 => d.replies = <<>>)
           /\ d.responder \notin {"none", "incoming", "frame", "args"}
<1>1. PICK q \in Seq(TaskType) :
        /\ q = d.replies /\ Len(q) = Len(c.replies) - 1 /\ Len(c.replies) \in 1 .. 4
        /\ \A n \in 1 .. Len(q) : q[n] = c.replies[n + 1]
        /\ Returns(c.ran) <= 1 => q = <<>>
  <2>1. c.replies # <<>> /\ d.replies = Tail(c.replies)
    BY DEF Taskless
  <2> QED  BY <2>1, FirstTask
<1>2. c.responder \in {"done", "hijacking"} /\ c.ran # "none" /\ c.raw = 0 /\ d.ran = c.ran /\ d.raw = 0
      /\ c.replies # <<>>
  BY FirstTask DEF Taskless
<1>3. Returned(c) /\ Returned(d) /\ d.responder \notin {"none", "incoming", "frame", "args"}
  BY <1>2 DEF Returned
<1>4. ~Qrpc => Returns(c.ran) = 1
  BY DEF Serving
<1>5. c.responder = "hijacking" => c.ran = "hijack" /\ Returns(c.ran) = 1
  BY DEF Serving, Returns
<1>6. q # <<>> => d.responder = c.responder /\ c.responder = "done"
  BY <1>1, <1>2, <1>4, <1>5
<1>7. \A n \in 1 .. Len(q) : n + 1 \in 1 .. Len(c.replies)
  BY <1>1
<1>8. Serving(d)
  <2>1. Len(q) <= 4 /\ (Returns(d.ran) <= 1 => Len(q) <= 1)
    <3>1. Len(q) <= 4
      BY <1>1, SMTT(30)
    <3>2. q = <<>> => Len(q) <= 1
      OBVIOUS
    <3> QED  BY <1>1, <1>2, <3>1, <3>2
  <2>2. ASSUME NEW n \in 1 .. Len(q)
        PROVE  ~Closes(q[n].todo) /\ (q[n].hijack <=> d.responder = "hijacking")
    <3>1. /\ ~Closes(c.replies[n + 1].todo)
          /\ (c.replies[n + 1].hijack <=> c.responder = "hijacking")
      BY <1>7, <2>2 DEF Serving
    <3>2. q # <<>>
      BY <2>2
    <3> QED  BY <1>1, <1>6, <2>2, <3>1, <3>2
  <2>3. d.responder \in {"hijacking", "hijacked"} => d.ran = "hijack"
    BY <1>2, <1>5
  <2>4. d.ran = "hijack" /\ d.responder = "done" => q = <<>>
    BY <1>1, <1>2 DEF Returns
  <2> QED  BY <1>1, <1>2, <1>3, <1>4, <1>6, <2>1, <2>2, <2>3, <2>4 DEF Serving
<1>9. ToWrite(d)
  BY <1>1, <1>2 DEF ToWrite
<1>10. RepliesKept(c, d)
  BY <1>1, <1>7 DEF RepliesKept, Unmarked, ReplyCarried
<1>11. ~Finished(c) /\ (Doubled(c) => Doubled(d))
  BY <1>2, <1>3 DEF Finished, Doubled
<1> QED  BY <1>1, <1>2, <1>3, <1>8, <1>9, <1>10, <1>11

(* How much of a reply has been written when its task is done. *)
LEMMA AllSent ==
    ASSUME NEW c \in CallType, NEW d \in CallType, Impls, Serving(c), Taskless(c, d),
           Returned(d), Returns(c.ran) = 1, Head(c.replies).todo = <<>>
    PROVE  Sent(c) = ReplyMessages(c) /\ Sent(d) = Sent(c)
<1>1. c.replies # <<>> /\ Returned(c) /\ d.replies = <<>> /\ d.ran = c.ran /\ d.raw = 0
  BY FirstTask DEF Taskless, Returned
<1>2. Len(Head(c.replies).todo) = 0
  OBVIOUS
<1>3. ReplyMessages(c) \in Nat /\ ReplyMessages(d) = ReplyMessages(c)
  <2>1. c.ran \in Outcomes \cup {"none"}
    BY Fields
  <2>2. ReplyLength(c) \in {3, 4, 5} /\ ReplyMessages(c) = IF Go("responder") THEN ReplyLength(c) - 2 ELSE ReplyLength(c)
    BY <2>1, ReplyParts
  <2> QED  BY <1>1, <2>2, SameReplyParts
<1>4. Sent(c) = ReplyMessages(c)
  BY <1>1, <1>2, <1>3 DEF Sent, Returned, Unanswered
<1>5. Sent(d) = ReplyMessages(d)
  BY <1>1, <1>3 DEF Sent, Returned, Unanswered
<1> QED  BY <1>3, <1>4, <1>5

(* What is on the channel and what the caller has stays. *)
LEMMA KeptCodec ==
    ASSUME NEW c, NEW d, CallerSame(c, d), CodecSame(c, d), ChannelKept(c, d), d.ran = c.ran
    PROVE  /\ CodecKept(c, d) /\ FlagsUp(c, d) /\ d.in["caller"] = c.in["caller"]
           /\ d.late["responder"] = c.late["responder"]
           /\ d.out["responder"] = c.out["responder"]
           /\ c.sentClose["responder"] => d.sentClose["responder"]
           /\ \A s \in Sides : c.late[s] => d.late[s]
BY DEF CodecKept, CodecSame, ChannelKept, ChannelSame, FlagsUp

(* All of it has been written: the channel is the handler's, *)
LEMMA Hijacks ==
    ASSUME NEW c \in CallType, NEW d \in CallType, Impls, CallInv(c), Taskless(c, d),
           Head(c.replies).todo = <<>>, Head(c.replies).hijack, d.responder = "hijacked",
           CallerSame(c, d), CodecSame(c, d), ChannelKept(c, d)
    PROVE  Going(c, d)
<1>1. /\ Serving(c) /\ ToWrite(c) /\ ReplyCarried(c) /\ Closing(c) /\ Closed(c, "responder")
  BY PartsOfInv, TheSides
<1>2. d.ran = c.ran /\ c.replies # <<>>
  BY DEF Taskless
<1>3. /\ CodecKept(c, d) /\ FlagsUp(c, d) /\ d.in["caller"] = c.in["caller"]
      /\ d.late["responder"] = c.late["responder"]
      /\ d.out["responder"] = c.out["responder"]
      /\ c.sentClose["responder"] => d.sentClose["responder"]
      /\ \A s \in Sides : c.late[s] => d.late[s]
  BY <1>2, KeptCodec
<1>4. c.responder = "hijacking" /\ Returns(c.ran) = 1
  BY <1>1, <1>2, FirstTask DEF Serving, Returns
<1>5. /\ Serving(d) /\ ToWrite(d) /\ RepliesKept(c, d)
      /\ d.ran # "none" /\ Returned(d) /\ Returned(c) /\ ~Finished(c)
  BY <1>1, <1>3, <1>4, TaskDone
<1>6. ReplyCarried(d)
  <2>1. Sent(d) = Sent(c)
    BY <1>1, <1>4, <1>5, AllSent
  <2>2. Unanswered(d) \/ d.ran = "none" => Unanswered(c) \/ c.ran = "none"
    BY <1>5 DEF Unanswered, Returned
  <2> QED  BY <1>1, <1>3, <1>5, <2>1, <2>2, ReplyClosed
<1>7. Closing(d)
  <2>1. EmptyIn(d)
    BY <1>1, GoneEmpty DEF ChannelKept, ChannelSame
  <2>2. Onward(c, d)
    BY <1>2, <1>4, <1>5 DEF Onward, HasClosed, Doubled, Leaving, CallerSame
  <2> QED  BY <1>1, <2>1, <2>2, StillClosing DEF ChannelKept
<1>8. ServerTook(c, d)
  BY <1>2, <1>3, <1>4 DEF ServerTook, CodecSame
<1> QED  BY <1>1, <1>5, <1>6, <1>7, <1>8, ServerGoing

(* or it is closed. *)
LEMMA ReplyEnds ==
    ASSUME NEW c \in CallType, NEW d \in CallType, Impls, CallInv(c), Taskless(c, d),
           Head(c.replies).todo = <<>>, ~Head(c.replies).hijack, d.responder = c.responder,
           CallerSame(c, d), CodecSame(c, d), DidClose(c, d, "responder")
    PROVE  Going(c, d)
<1>1. /\ Serving(c) /\ ToWrite(c) /\ ReplyCarried(c) /\ Closing(c) /\ Closed(c, "responder")
  BY PartsOfInv, TheSides
<1>2. d.ran = c.ran /\ c.replies # <<>>
  BY DEF Taskless
<1>3. /\ FlagsUp(c, d) /\ d.late = c.late /\ d.in["caller"] = c.in["caller"]
      /\ d.gone["caller"] = c.gone["caller"] /\ d.finishing["caller"] = c.finishing["caller"]
      /\ ~Mock => d.sentClose["responder"]
      /\ \/ d.out["responder"] = c.out["responder"]
         \/ /\ ~c.sentClose["responder"] /\ d.sentClose["responder"] /\ ~Swallowed /\ ~Mock
            /\ d.out["responder"] = Append(c.out["responder"], Close)
  BY ServerClosed
<1>4. c.sentClose["responder"] => d.sentClose["responder"]
  BY <1>3, TheSides DEF FlagsUp
<1>5. c.responder = "done" /\ d.responder = "done"
  BY <1>1, <1>2, FirstTask
<1>6. /\ Serving(d) /\ ToWrite(d) /\ RepliesKept(c, d)
      /\ d.ran # "none" /\ Returned(d) /\ Returned(c) /\ ~Finished(c)
      /\ (Doubled(c) => Doubled(d)) /\ (Returns(c.ran) <= 1 => d.replies = <<>>)
  BY <1>1, <1>4, TaskDone
<1>7. ReplyCarried(d)
  <2>1. Lost(c) \/ (Sent(d) = Sent(c) /\ Sent(c) = ReplyMessages(c))
    <3>1. CASE Returns(c.ran) = 1
      BY <1>1, <1>6, <3>1, AllSent
    <3>2. CASE Returns(c.ran) # 1
      BY <3>2 DEF Lost
    <3> QED  BY <3>1, <3>2
  <2>2. Unanswered(d) \/ d.ran = "none" => Unanswered(c) \/ c.ran = "none"
    BY <1>6 DEF Unanswered, Returned
  <2>3. CodecKept(c, d)
    BY <1>2, <1>3 DEF CodecKept, CodecSame
  <2>4. Lost(c) \/ Sent(c) >= ReplyMessages(c)
    <3>1. ReplyMessages(c) \in Nat
      <4>1. c.ran \in Outcomes \cup {"none"}
        BY Fields
      <4>2. ReplyLength(c) \in {3, 4, 5} /\ ReplyMessages(c) = IF Go("responder") THEN ReplyLength(c) - 2 ELSE ReplyLength(c)
        BY <4>1, ReplyParts
      <4> QED  BY <4>2
    <3> QED  BY <2>1, <3>1
  <2> QED  BY <1>1, <1>3, <1>4, <1>6, <2>1, <2>2, <2>3, <2>4, ReplyClosed
<1>8. Returns(c.ran) \in {0, 1, 2, 4}
  BY ReturnsMost
<1>9. Finished(d) \/ (Doubled(d) /\ Qrpc)
  <2>1. CASE Returns(c.ran) <= 1
    BY <1>5, <1>6, <2>1 DEF Finished
  <2>2. CASE Returns(c.ran) > 1
    BY <1>1, <1>2, <1>6, <2>2 DEF Doubled, Serving
  <2> QED  BY <1>8, <2>1, <2>2
<1>10. Closing(d)
  <2>1. Onward(c, d)
    BY <1>2, <1>6 DEF Onward, HasClosed, Leaving, CallerSame
  <2>2. HasClosed(d, "responder") /\ (~HasClosed(c, "responder") \/ Doubled(d))
    BY <1>6, <1>9 DEF HasClosed
  <2>3. Doubled(d) => Returns(d.ran) # 1
    BY <1>2, <1>8 DEF Doubled
  <2>4. Go("responder") => ~Qrpc
    BY GoOrNot
  <2> QED  BY <1>1, <1>9, <2>1, <2>2, <2>3, <2>4, CloseClosing, TheSides
<1>11. ServerTook(c, d)
  BY <1>2, <1>3, <1>5 DEF ServerTook, CodecSame
<1> QED  BY <1>1, <1>6, <1>7, <1>10, <1>11, ServerGoing

(* A write that fails ends the reply. *)
LEMMA ReplyBreaks ==
    ASSUME NEW c \in CallType, NEW d \in CallType, Impls, CallInv(c), Taskless(c, d),
           c.sentClose["responder"], CallerSame(c, d), CodecSame(c, d), ChannelKept(c, d),
           d.responder = IF Go("responder") THEN "done" ELSE c.responder
    PROVE  Going(c, d)
<1>1. /\ Serving(c) /\ ToWrite(c) /\ ReplyCarried(c) /\ Closing(c) /\ Closed(c, "responder")
  BY PartsOfInv, TheSides
<1>2. d.ran = c.ran /\ c.replies # <<>>
  BY DEF Taskless
<1>3. /\ CodecKept(c, d) /\ FlagsUp(c, d) /\ d.in["caller"] = c.in["caller"]
      /\ d.late["responder"] = c.late["responder"]
      /\ d.out["responder"] = c.out["responder"]
      /\ c.sentClose["responder"] => d.sentClose["responder"]
      /\ \A s \in Sides : c.late[s] => d.late[s]
  BY <1>2, KeptCodec
<1>4. Go("responder") => ~Qrpc
  BY GoOrNot
<1>5. /\ Serving(d) /\ ToWrite(d) /\ RepliesKept(c, d)
      /\ d.ran # "none" /\ Returned(d) /\ Returned(c) /\ ~Finished(c)
      /\ (Doubled(c) => Doubled(d))
      /\ d.responder \notin {"none", "incoming", "frame", "args"}
  BY <1>1, <1>3, <1>4, TaskDone
<1>6. ReplyCarried(d)
  <2>1. d.sentClose["responder"]
    BY <1>3
  <2>2. Unanswered(d) \/ d.ran = "none" => Unanswered(c) \/ c.ran = "none"
    BY <1>5 DEF Unanswered, Returned
  <2> QED  BY <1>1, <1>3, <1>5, <2>1, <2>2, ReplyClosed
<1>7. Closing(d)
  <2>1. EmptyIn(d)
    BY <1>1, GoneEmpty DEF ChannelKept, ChannelSame
  <2>2. Onward(c, d)
    BY <1>2, <1>5 DEF Onward, HasClosed, Leaving, CallerSame
  <2> QED  BY <1>1, <2>1, <2>2, StillClosing DEF ChannelKept
<1>8. ServerTook(c, d)
  BY <1>2, <1>3, <1>5 DEF ServerTook, Returned, CodecSame
<1> QED  BY <1>1, <1>5, <1>6, <1>7, <1>8, ServerGoing
(* The next message is written, and the task takes its turn again. *)
Rewritten(c, d) ==
    /\ c.replies # <<>> /\ Head(c.replies).todo # <<>>
    /\ d.replies = Append(Tail(c.replies),
                          [Head(c.replies) EXCEPT !.todo = Tail(Head(c.replies).todo)])
    /\ d.ran = c.ran /\ d.raw = c.raw /\ d.responder = c.responder

LEMMA NextTask ==
    ASSUME NEW c \in CallType, NEW d \in CallType, Serving(c), Rewritten(c, d)
    PROVE  \E task \in TaskType, rest \in TaskType :
              /\ task = Head(c.replies) /\ task.todo # <<>> /\ ~Closes(task.todo)
              /\ rest.hijack = task.hijack /\ rest.todo = Tail(task.todo)
              /\ (task.hijack <=> c.responder = "hijacking")
              /\ Len(d.replies) = Len(c.replies) /\ Len(c.replies) \in 1 .. 4
              /\ \A n \in 1 .. Len(d.replies) :
                    (n # Len(d.replies) /\ n + 1 \in 1 .. Len(c.replies) /\ d.replies[n] = c.replies[n + 1])
                    \/ (n = Len(d.replies) /\ d.replies[n] = rest)
              /\ d.replies # <<>> /\ (Len(d.replies) = 1 => Head(d.replies) = rest)
<1>1. c.replies # <<>> /\ Head(c.replies).todo # <<>>
  BY DEF Rewritten
<1>2. PICK task \in TaskType :
        /\ task = Head(c.replies) /\ task.todo # <<>> /\ ~Closes(task.todo)
        /\ (task.hijack <=> c.responder = "hijacking")
  BY <1>1, FirstTask
<1>3. PICK todo \in Seq(MessageType) : todo = Tail(task.todo)
  <2>1. task.todo \in Seq(MessageType)
    BY DEF TaskType
  <2> QED  BY <1>2, <2>1, OneLess
<1>4. PICK rest \in TaskType : /\ rest = [task EXCEPT !.todo = todo]
                               /\ rest.hijack = task.hijack /\ rest.todo = Tail(task.todo)
  <2>1. [task EXCEPT !.todo = todo] \in TaskType
    BY DEF TaskType
  <2>2. [task EXCEPT !.todo = todo].hijack = task.hijack /\ [task EXCEPT !.todo = todo].todo = todo
    BY DEF TaskType
  <2> QED  BY <1>3, <2>1, <2>2
<1>5. PICK q \in Seq(TaskType), l \in 1 .. 4 :
        /\ q = Tail(c.replies) /\ Len(q) = l - 1 /\ l = Len(c.replies)
        /\ \A n \in 1 .. Len(q) : q[n] = c.replies[n + 1]
  BY <1>1, FirstTask
<1>6. PICK r \in Seq(TaskType) :
        /\ r = Append(q, rest) /\ Len(r) = Len(q) + 1 /\ r[Len(q) + 1] = rest
        /\ \A n \in 1 .. Len(q) : r[n] = q[n]
  <2>1. /\ Append(q, rest) \in Seq(TaskType) /\ Len(Append(q, rest)) = Len(q) + 1
        /\ Append(q, rest)[Len(q) + 1] = rest
        /\ \A n \in 1 .. Len(q) : Append(q, rest)[n] = q[n]
    BY OneMore
  <2> QED  BY <2>1
<1>7. d.replies = r
  BY <1>2, <1>3, <1>4, <1>5, <1>6 DEF Rewritten
<1>8. Len(r) = l
  BY <1>5, <1>6
<1>9. ASSUME NEW n \in 1 .. Len(r)
      PROVE  \/ n # Len(r) /\ n + 1 \in 1 .. l /\ r[n] = c.replies[n + 1]
             \/ n = Len(r) /\ r[n] = rest
  <2>1. CASE n = Len(r)
    BY <1>5, <1>6, <1>8, <2>1
  <2>2. CASE n # Len(r)
    <3>1. n \in 1 .. Len(q) /\ n + 1 \in 1 .. l
      BY <1>5, <1>6, <1>8, <1>9, <2>2
    <3> QED  BY <1>5, <1>6, <2>2, <3>1
  <2> QED  BY <2>1, <2>2
<1>10. r # <<>> /\ (Len(r) = 1 => Head(r) = rest)
  <2>1. Len(r) # 0
    BY <1>8
  <2>2. r # <<>> /\ Head(r) = r[1]
    BY <2>1
  <2>3. 1 \in 1 .. Len(r)
    BY <1>8
  <2> QED  BY <1>9, <2>2, <2>3
<1>11. Len(d.replies) = Len(c.replies) /\ Len(c.replies) \in 1 .. 4
  BY <1>5, <1>7, <1>8
<1>12. \A n \in 1 .. Len(d.replies) :
          (n # Len(d.replies) /\ n + 1 \in 1 .. Len(c.replies) /\ d.replies[n] = c.replies[n + 1])
          \/ (n = Len(d.replies) /\ d.replies[n] = rest)
  BY <1>5, <1>7, <1>9
<1>13. d.replies # <<>> /\ (Len(d.replies) = 1 => Head(d.replies) = rest)
  BY <1>7, <1>10
<1> QED  BY <1>2, <1>4, <1>11, <1>12, <1>13

LEMMA TaskOn ==
    ASSUME NEW c \in CallType, NEW d \in CallType, Impls, Serving(c), ToWrite(c), ReplyCarried(c),
           Rewritten(c, d), c.sentClose["responder"] => d.sentClose["responder"],
           NEW m, m = Head(Head(c.replies).todo)
    PROVE  /\ Serving(d) /\ ToWrite(d) /\ RepliesKept(c, d)
           /\ m \in MessageType /\ m # Close /\ (c.ran # "hijack" => NoMark(m))
           /\ Returned(d) /\ d.ran # "none" /\ Returned(c) /\ ~Finished(c)
           /\ Returns(c.ran) = 1 =>
                 Sent(c) \in Nat /\ m = MessageAt(c, Sent(c) + 1) /\ Sent(d) = Sent(c) + 1
<1>1. PICK task \in TaskType, rest \in TaskType :
              /\ task = Head(c.replies) /\ task.todo # <<>> /\ ~Closes(task.todo)
              /\ rest.hijack = task.hijack /\ rest.todo = Tail(task.todo)
              /\ (task.hijack <=> c.responder = "hijacking")
              /\ Len(d.replies) = Len(c.replies) /\ Len(c.replies) \in 1 .. 4
              /\ \A n \in 1 .. Len(d.replies) :
                    (n # Len(d.replies) /\ n + 1 \in 1 .. Len(c.replies) /\ d.replies[n] = c.replies[n + 1])
                    \/ (n = Len(d.replies) /\ d.replies[n] = rest)
              /\ d.replies # <<>> /\ (Len(d.replies) = 1 => Head(d.replies) = rest)
  BY NextTask
<1>2. /\ c.replies # <<>> /\ d.ran = c.ran /\ d.raw = c.raw /\ d.responder = c.responder
      /\ c.responder \in {"done", "hijacking"} /\ c.ran # "none" /\ c.raw = 0
      /\ Head(c.replies) = c.replies[1]
  BY FirstTask DEF Rewritten
<1>3. Returned(c) /\ Returned(d) /\ ~Finished(c)
  BY <1>2 DEF Returned, Finished
<1>4. PICK a \in Seq(MessageType) :
        /\ a = task.todo /\ m = a[1] /\ m \in MessageType /\ rest.todo \in Seq(MessageType)
        /\ Len(a) \in Nat \ {0} /\ Len(rest.todo) = Len(a) - 1
        /\ \A k \in 1 .. Len(rest.todo) : rest.todo[k] = a[k + 1]
        /\ ~Closes(rest.todo)
  <2>1. PICK a \in Seq(MessageType) : a = task.todo /\ a # <<>> /\ ~Closes(a)
    BY <1>1 DEF TaskType
  <2>2. /\ Tail(a) \in Seq(MessageType) /\ Len(Tail(a)) = Len(a) - 1 /\ Len(a) \in Nat \ {0}
        /\ \A k \in 1 .. Len(Tail(a)) : Tail(a)[k] = a[k + 1]
        /\ Head(a) \in MessageType /\ Head(a) = a[1]
    BY <2>1, OneLess
  <2>3. ~Closes(Tail(a))
    BY <2>1, TailCloses
  <2> QED  BY <1>1, <2>1, <2>2, <2>3, SMTT(30)
<1>5. 1 \in 1 .. Len(a) /\ \A k \in 1 .. Len(rest.todo) : k + 1 \in 1 .. Len(a)
  BY <1>4
<1>6. m # Close
  BY <1>1, <1>4, <1>5 DEF Closes
<1>7. 1 \in 1 .. Len(c.replies)
  BY <1>1
<1>8. c.ran # "hijack" => \A k \in 1 .. Len(a) : NoMark(a[k])
  BY <1>1, <1>2, <1>4, <1>7 DEF Unmarked, ReplyCarried
<1>9. RepliesKept(c, d)
  <2>1. SUFFICES ASSUME c.ran # "hijack", NEW n \in 1 .. Len(d.replies),
                        NEW k \in 1 .. Len(d.replies[n].todo)
                 PROVE  NoMark(d.replies[n].todo[k])
    BY DEF RepliesKept
  <2>2. CASE n + 1 \in 1 .. Len(c.replies) /\ d.replies[n] = c.replies[n + 1]
    BY <2>1, <2>2 DEF Unmarked, ReplyCarried
  <2>3. CASE d.replies[n] = rest
    BY <1>4, <1>5, <1>8, <2>1, <2>3
  <2> QED  BY <1>1, <2>2, <2>3
<1>10. Serving(d)
  <2>1. ASSUME NEW n \in 1 .. Len(d.replies)
        PROVE  ~Closes(d.replies[n].todo) /\ (d.replies[n].hijack <=> d.responder = "hijacking")
    <3>1. CASE n + 1 \in 1 .. Len(c.replies) /\ d.replies[n] = c.replies[n + 1]
      BY <1>2, <3>1 DEF Serving
    <3>2. CASE d.replies[n] = rest
      BY <1>1, <1>2, <1>4, <3>2
    <3> QED  BY <1>1, <2>1, <3>1, <3>2
  <2>2. Len(d.replies) <= 4 /\ (Returns(d.ran) <= 1 => Len(d.replies) <= 1)
    BY <1>1, <1>2 DEF Serving
  <2>3. ~(c.ran = "hijack" /\ c.responder = "done")
    BY <1>2 DEF Serving
  <2>4. (~Qrpc => Returns(c.ran) = 1) /\ (c.responder = "hijacking" => c.ran = "hijack")
    BY DEF Serving
  <2> QED  BY <1>2, <2>1, <2>2, <2>3, <2>4 DEF Serving
<1>11. ReplyMessages(c) \in Nat /\ ReplyMessages(d) = ReplyMessages(c)
       /\ \A k : MessageAt(d, k) = MessageAt(c, k)
  <2>1. c.ran \in Outcomes \cup {"none"}
    BY Fields
  <2>2. ReplyLength(c) \in {3, 4, 5} /\ ReplyMessages(c) = IF Go("responder") THEN ReplyLength(c) - 2 ELSE ReplyLength(c)
    BY <2>1, ReplyParts
  <2>3. /\ ReplyMessages(d) = ReplyMessages(c)
        /\ \A k : MessageAt(d, k) = MessageAt(c, k)
    BY <1>2, SameReplyParts
  <2>4. ReplyMessages(c) \in Nat
    BY <2>2
  <2> QED  BY <2>3, <2>4
<1>12. ASSUME Returns(c.ran) = 1
       PROVE  /\ ToWrite(d) /\ Sent(c) \in Nat /\ m = MessageAt(c, Sent(c) + 1)
              /\ Sent(d) = Sent(c) + 1
  <2>1. PICK r \in Nat, l \in Nat \ {0} : r = ReplyMessages(c) /\ l = Len(a)
    BY <1>4, <1>11
  <2>2. r - l >= 0 /\ \A k \in 1 .. l : a[k] = MessageAt(c, (r - l) + k)
    BY <1>1, <1>2, <1>4, <1>12, <2>1 DEF ToWrite
  <2>3. Sent(c) = r - l /\ r - l \in Nat
    <3>1. Sent(c) = r - l
      BY <1>1, <1>2, <1>3, <1>4, <2>1 DEF Sent, Returned, Unanswered
    <3> QED  BY <2>2, <3>1
  <2>4. Head(d.replies) = rest
    <3>1. Len(c.replies) <= 1
      BY <1>12 DEF Serving
    <3>2. \A n \in 1 .. 4 : n <= 1 => n = 1
      OBVIOUS
    <3>3. Len(d.replies) = 1
      BY <1>1, <3>1, <3>2
    <3> QED  BY <1>1, <3>3
  <2>5. r - (l - 1) = (r - l) + 1
    OBVIOUS
  <2>6. Sent(d) = r - (l - 1)
    BY <1>1, <1>3, <1>4, <1>11, <2>1, <2>4 DEF Sent, Returned, Unanswered
  <2>7. m = MessageAt(c, (r - l) + 1)
    BY <1>4, <1>5, <2>1, <2>2
  <2>8. ToWrite(d)
    <3>1. r - (l - 1) >= 0
      BY <2>2
    <3>2. ASSUME NEW k \in 1 .. (l - 1)  PROVE rest.todo[k] = MessageAt(d, (r - (l - 1)) + k)
      <4>1. k + 1 \in 1 .. l /\ (r - (l - 1)) + k = (r - l) + (k + 1)
        BY <3>2
      <4>2. rest.todo[k] = a[k + 1]
        BY <1>4, <2>1, <3>2
      <4> QED  BY <1>11, <2>2, <4>1, <4>2
    <3> QED  BY <1>4, <1>11, <2>1, <2>4, <3>1, <3>2 DEF ToWrite
  <2> QED  BY <2>3, <2>5, <2>6, <2>7, <2>8
<1>13. Returns(c.ran) # 1 => ToWrite(d)
  BY <1>2 DEF ToWrite
<1>14. c.ran # "hijack" => NoMark(m)
  BY <1>4, <1>5, <1>8
<1> QED  BY <1>2, <1>3, <1>4, <1>6, <1>9, <1>10, <1>12, <1>13, <1>14

LEMMA ReplyGoesOn ==
    ASSUME NEW c \in CallType, NEW d \in CallType, Impls, CallInv(c), Rewritten(c, d),
           ~CannotWrite(c, "responder"),
           CallerSame(c, d), CodecSame(c, d), Wrote(c, d, "responder", Head(Head(c.replies).todo))
    PROVE  Going(c, d)
<1>1. /\ Serving(c) /\ ToWrite(c) /\ ReplyCarried(c) /\ Closing(c) /\ Closed(c, "responder")
      /\ Shut(c, "responder")
  BY PartsOfInv, TheSides
<1>2. PICK m : m = Head(Head(c.replies).todo)
  OBVIOUS
<1>3. d.ran = c.ran /\ d.responder = c.responder
  BY DEF Rewritten
<1>4. Wrote(c, d, "responder", m) /\ d.sentClose = c.sentClose /\ d.gone = c.gone
      /\ d.finishing = c.finishing
  BY <1>2 DEF Wrote
<1>5. /\ Serving(d) /\ ToWrite(d) /\ RepliesKept(c, d)
      /\ m \in MessageType /\ m # Close /\ (c.ran # "hijack" => NoMark(m))
      /\ Returned(d) /\ d.ran # "none" /\ Returned(c) /\ ~Finished(c)
      /\ Returns(c.ran) = 1 =>
            Sent(c) \in Nat /\ m = MessageAt(c, Sent(c) + 1) /\ Sent(d) = Sent(c) + 1
  BY <1>1, <1>2, <1>4, TaskOn
<1>6. ReplyCarried(d)
  <2>1. CodecKept(c, d)
    BY <1>3, <1>4 DEF CodecKept, CodecSame
  <2>2. ~Lost(c) => Returns(c.ran) = 1
    BY DEF Lost
  <2> QED  BY <1>1, <1>4, <1>5, <2>1, <2>2, ReplyWritten
<1>7. Closing(d)
  <2>1. Onward(c, d)
    BY <1>3, <1>5 DEF Onward, HasClosed, Leaving, CallerSame, Doubled
  <2> QED  BY <1>1, <1>4, <1>5, <2>1, TheSides, WroteClosing
<1>8. ServerTook(c, d)
  <2>1. FlagsUp(c, d)
    BY <1>4 DEF FlagsUp
  <2>2. \A s \in Sides : c.late[s] => d.late[s]
    <3>1. d.late = c.late \/ d.late = [c.late EXCEPT !["responder"] = @ \/ c.sentClose["responder"]]
      BY <1>4 DEF Wrote
    <3>2. c.late \in [Sides -> BOOLEAN]
      BY Fields
    <3> QED  BY <3>1, <3>2
  <2> QED  BY <1>3, <1>5, <2>1, <2>2 DEF ServerTook, Returned, CodecSame
<1> QED  BY <1>1, <1>5, <1>6, <1>7, <1>8, ServerGoing
(* The handler has the channel. *)
LEMMA HasHijacked ==
    ASSUME NEW c \in CallType, Serving(c), c.responder = "hijacked"
    PROVE  /\ c.replies = <<>> /\ c.ran = "hijack" /\ Returns(c.ran) = 1 /\ Returned(c)
           /\ ~Finished(c) /\ ~Doubled(c)
<1>1. c.replies = <<>> /\ c.ran = "hijack"
  BY DEF Serving
<1>2. Returns(c.ran) = 1
  BY <1>1 DEF Returns
<1>3. ~Doubled(c)
  BY <1>2 DEF Doubled
<1> QED  BY <1>1, <1>2, <1>3 DEF Returned, Finished

LEMMA RawNext ==
    ASSUME NEW c \in CallType, Impls, Returned(c), c.replies = <<>>
    PROVE  /\ Sent(c) = ReplyMessages(c) + c.raw /\ Sent(c) \in Nat /\ ReplyMessages(c) \in Nat
           /\ c.raw \in Nat
           /\ MessageAt(c, Sent(c) + 1) = <<RawPart(c.raw + 1)>>
<1>1. PICK l \in {3, 4, 5} : /\ l = ReplyLength(c) /\ (l = 3 => ~Go("responder"))
                             /\ ReplyMessages(c) = IF Go("responder") THEN l - 2 ELSE l
  <2>1. c.ran \in Outcomes \cup {"none"}
    BY Fields
  <2>2. /\ ReplyLength(c) \in {3, 4, 5} /\ (ReplyLength(c) = 3 => ~Go("responder"))
        /\ ReplyMessages(c) = IF Go("responder") THEN ReplyLength(c) - 2 ELSE ReplyLength(c)
    BY <2>1, ReplyParts
  <2> QED  BY <2>2
<1>2. PICK r \in Nat : r = c.raw
  BY SettingsAssumption, Fields
<1>3. PICK t \in Nat : t = ReplyMessages(c)
  BY <1>1
<1>4. Sent(c) = t + r
  BY <1>2, <1>3 DEF Sent, Returned, Unanswered
<1>5. t + r + 1 > 2 /\ PartsOf(t + r + 1) = l + r + 1
  <2>1. CASE Go("responder")
    <3>1. t = l - 2 /\ l # 3
      BY <1>1, <1>3, <2>1
    <3>2. t + r + 1 > 2 /\ (t + r + 1) + 2 = l + r + 1 /\ ~(t + r + 1 <= 2)
      BY <3>1
    <3> QED  BY <2>1, <3>2 DEF PartsOf
  <2>2. CASE ~Go("responder")
    <3>1. t = l
      BY <1>1, <1>3, <2>2
    <3>2. t + r + 1 > 2 /\ t + r + 1 = l + r + 1
      BY <3>1
    <3> QED  BY <2>2, <3>2 DEF PartsOf
  <2> QED  BY <2>1, <2>2
<1>6. PartAt(c, l + r + 1) = RawPart(r + 1)
  <2>1. l + r + 1 > 3 /\ ~(l + r + 1 <= l) /\ (l + r + 1) - l = r + 1
    OBVIOUS
  <2>2. PICK k \in Nat : k = l + r + 1 /\ k > 3 /\ ~(k <= l) /\ k - l = r + 1
    BY <2>1
  <2>3. k # 1 /\ k # 2 /\ k # 3 /\ ~(k = 4 /\ l > 3)
    BY <2>2
  <2>4. PartAt(c, k) = RawPart(k - l)
    BY <1>1, <2>2, <2>3 DEF PartAt
  <2> QED  BY <2>2, <2>4
<1>7. MessageAt(c, t + r + 1) = <<RawPart(r + 1)>>
  <2>1. ~(t + r + 1 <= 2)
    BY <1>5
  <2> QED  BY <1>5, <1>6, <2>1 DEF MessageAt
<1> QED  BY <1>2, <1>3, <1>4, <1>7

LEMMA HijackGoesOn ==
    ASSUME NEW c \in CallType, NEW d \in CallType, Impls, CallInv(c), c.responder = "hijacked",
           ~CannotWrite(c, "responder"), d.raw = c.raw + 1, d.ran = c.ran, d.replies = c.replies,
           d.responder = c.responder, CallerSame(c, d), CodecSame(c, d),
           Wrote(c, d, "responder", <<RawPart(c.raw + 1)>>)
    PROVE  Going(c, d)
<1>1. /\ Serving(c) /\ ToWrite(c) /\ ReplyCarried(c) /\ Closing(c) /\ Closed(c, "responder")
      /\ Shut(c, "responder")
  BY PartsOfInv, TheSides
<1>2. /\ c.replies = <<>> /\ c.ran = "hijack" /\ Returns(c.ran) = 1 /\ Returned(c)
      /\ ~Finished(c) /\ ~Doubled(c) /\ Returned(d)
  BY <1>1, HasHijacked DEF Returned
<1>3. /\ Sent(c) = ReplyMessages(c) + c.raw /\ Sent(c) \in Nat /\ ReplyMessages(c) \in Nat
      /\ c.raw \in Nat
      /\ MessageAt(c, Sent(c) + 1) = <<RawPart(c.raw + 1)>>
  BY <1>2, RawNext
<1>4. PICK m \in MessageType : m = <<RawPart(c.raw + 1)>> /\ m # Close
  <2>1. RawPart(c.raw + 1) \in PartType /\ RawPart(c.raw + 1).part = "raw"
    BY <1>3, PartTypes DEF RawPart, Part
  <2>2. /\ <<RawPart(c.raw + 1)>> \in MessageType /\ <<RawPart(c.raw + 1)>> # <<>>
        /\ <<RawPart(c.raw + 1)>>[1].part # "close"
    BY <2>1 DEF MessageType
  <2> QED  BY <2>2, NotClose
<1>5. /\ Wrote(c, d, "responder", m) /\ d.sentClose = c.sentClose /\ d.gone = c.gone
      /\ d.finishing = c.finishing
  BY <1>4 DEF Wrote
<1>6. Serving(d) /\ ToWrite(d)
  BY <1>1, <1>2 DEF Serving, ToWrite, Returned
<1>7. ReplyCarried(d)
  <2>1. CodecKept(c, d)
    BY <1>5 DEF CodecKept, CodecSame
  <2>2. RepliesKept(c, d)
    BY <1>2 DEF RepliesKept
  <2>3. Sent(d) = Sent(c) + 1
    <3>1. Sent(d) = ReplyMessages(d) + d.raw
      BY <1>2 DEF Sent, Returned, Unanswered
    <3> QED  BY <1>3, <3>1, SameReplyParts
  <2>4. d.ran # "none"
    BY <1>2
  <2> QED  BY <1>1, <1>2, <1>3, <1>4, <1>5, <2>1, <2>2, <2>3, <2>4, ReplyWritten
<1>8. Closing(d)
  <2>1. Onward(c, d)
    BY <1>2 DEF Onward, HasClosed, Leaving, CallerSame
  <2> QED  BY <1>1, <1>2, <1>4, <1>5, <2>1, TheSides, WroteClosing
<1>9. ServerTook(c, d)
  <2>1. FlagsUp(c, d)
    BY <1>5 DEF FlagsUp
  <2>2. \A s \in Sides : c.late[s] => d.late[s]
    <3>1. d.late = c.late \/ d.late = [c.late EXCEPT !["responder"] = @ \/ c.sentClose["responder"]]
      BY <1>5 DEF Wrote
    <3>2. c.late \in [Sides -> BOOLEAN]
      BY Fields
    <3> QED  BY <3>1, <3>2
  <2> QED  BY <2>1, <2>2 DEF ServerTook, CodecSame
<1> QED  BY <1>1, <1>6, <1>7, <1>8, <1>9, ServerGoing

LEMMA HijackEnds ==
    ASSUME NEW c \in CallType, NEW d \in CallType, Impls, CallInv(c), c.responder = "hijacked",
           d.responder = "done", d.raw = c.raw, d.ran = c.ran, d.replies = c.replies,
           CallerSame(c, d), CodecSame(c, d), DidClose(c, d, "responder")
    PROVE  Going(c, d)
<1>1. /\ Serving(c) /\ ToWrite(c) /\ ReplyCarried(c) /\ Closing(c) /\ Closed(c, "responder")
  BY PartsOfInv, TheSides
<1>2. /\ c.replies = <<>> /\ c.ran = "hijack" /\ Returns(c.ran) = 1 /\ Returned(c)
      /\ ~Finished(c) /\ ~Doubled(c) /\ Returned(d) /\ Finished(d)
  BY <1>1, HasHijacked DEF Returned, Finished
<1>3. /\ FlagsUp(c, d) /\ d.late = c.late /\ d.in["caller"] = c.in["caller"]
      /\ d.gone["caller"] = c.gone["caller"] /\ d.finishing["caller"] = c.finishing["caller"]
      /\ ~Mock => d.sentClose["responder"]
      /\ \/ d.out["responder"] = c.out["responder"]
         \/ /\ ~c.sentClose["responder"] /\ d.sentClose["responder"] /\ ~Swallowed /\ ~Mock
            /\ d.out["responder"] = Append(c.out["responder"], Close)
  BY ServerClosed
<1>4. Sent(c) = ReplyMessages(c) + c.raw /\ ReplyMessages(c) \in Nat /\ c.raw \in Nat
  BY <1>2, RawNext
<1>5. Serving(d) /\ ToWrite(d)
  BY <1>1, <1>2 DEF Serving, ToWrite, Returned
<1>6. ReplyCarried(d)
  <2>1. CodecKept(c, d)
    BY <1>3 DEF CodecKept, CodecSame
  <2>2. RepliesKept(c, d) /\ d.ran # "none"
    BY <1>2 DEF RepliesKept
  <2>3. Sent(d) = Sent(c)
    <3>1. Sent(d) = ReplyMessages(d) + d.raw
      BY <1>2 DEF Sent, Returned, Unanswered
    <3> QED  BY <1>4, <3>1, SameReplyParts
  <2>4. Sent(c) >= ReplyMessages(c)
    BY <1>4
  <2>5. Unanswered(d) \/ d.ran = "none" => Unanswered(c) \/ c.ran = "none"
    BY <1>2, <2>2 DEF Unanswered, Returned
  <2>6. c.sentClose["responder"] => d.sentClose["responder"]
    BY <1>3, TheSides DEF FlagsUp
  <2> QED  BY <1>1, <1>2, <1>3, <2>1, <2>2, <2>3, <2>4, <2>5, <2>6, ReplyClosed
<1>7. Closing(d)
  <2>1. Onward(c, d)
    BY <1>2 DEF Onward, HasClosed, Leaving, CallerSame
  <2>2. HasClosed(d, "responder") /\ ~HasClosed(c, "responder")
    BY <1>2 DEF HasClosed
  <2> QED  BY <1>1, <1>2, <2>1, <2>2, CloseClosing, TheSides
<1>8. ServerTook(c, d)
  BY <1>3 DEF ServerTook, CodecSame
<1> QED  BY <1>1, <1>5, <1>6, <1>7, <1>8, ServerGoing

-----------------------------------------------------------------------------
(* The server has the call *)

(* Go meets the end of its channel before the call has come. *)
LEMMA CallFails ==
    ASSUME NEW c \in CallType, NEW d \in CallType, Impls, CallInv(c), c.responder = "frame",
           Go("responder"), c.values["responder"] # <<>>, Failed(Head(c.values["responder"])),
           d.responder = "done", d.raw = c.raw, d.ran = c.ran, d.replies = c.replies,
           CallerSame(c, d), OneDecoded(c, d, "responder"), DidClose(c, d, "responder")
    PROVE  Going(c, d)
<1>1. /\ Serving(c) /\ ToWrite(c) /\ ReplyCarried(c) /\ Closing(c) /\ Closed(c, "responder")
      /\ Shut(c, "responder") /\ RequestRead(c)
  BY PartsOfInv, TheSides
<1>2. ~Mock /\ c.gone["responder"] /\ c.sentClose["responder"]
  <2>1. c.gone["responder"]
    BY <1>1 DEF RequestRead
  <2> QED  BY <1>1, <2>1, GoOrNot DEF Shut
<1>3. ChannelKept(c, d)
  BY <1>2 DEF DidClose, ChannelKept
<1>4. c.ran = "none" /\ c.replies = <<>> /\ c.raw = 0 /\ Unanswered(c)
  BY <1>1 DEF Serving, Unanswered
<1>5. Returns(c.ran) = 1
  BY <1>4 DEF Returns
<1>6. Serving(d) /\ ToWrite(d) /\ Returned(d)
  <2>1. d.sentClose["responder"] /\ Len(d.replies) = 0
    BY <1>2, <1>3, <1>4 DEF ChannelKept, ChannelSame
  <2> QED  BY <1>4, <1>5, <2>1 DEF Serving, ToWrite, Returned
<1>7. ReplyCarried(d)
  <2>1. CodecKept(c, d)
    <3>1. c.values \in [Sides -> Seq(ValueType)]
      BY Fields
    <3>2. d.values["caller"] = c.values["caller"]
      BY <3>1, TheSides DEF OneDecoded
    <3> QED  BY <1>3, <3>2 DEF CodecKept, OneDecoded, ChannelKept, ChannelSame
  <2>2. RepliesKept(c, d)
    BY <1>4 DEF RepliesKept
  <2>3. /\ d.sentClose["responder"] /\ d.out = c.out /\ d.late = c.late /\ d.in = c.in
    BY <1>2, <1>3 DEF ChannelKept, ChannelSame
  <2> QED  BY <1>1, <1>4, <1>6, <2>1, <2>2, <2>3, ReplyClosed
<1>8. Closing(d)
  <2>1. EmptyIn(d)
    BY <1>1, <1>3, GoneEmpty DEF ChannelKept, ChannelSame
  <2>2. Onward(c, d)
    BY <1>4, <1>5 DEF Onward, HasClosed, Leaving, CallerSame, Finished, Doubled
  <2> QED  BY <1>1, <1>3, <2>1, <2>2, StillClosing DEF ChannelKept
<1>9. ServerTook(c, d)
  BY <1>3 DEF ServerTook, ChannelKept, ChannelSame, FlagsUp, OneDecoded
<1> QED  BY <1>1, <1>6, <1>7, <1>8, <1>9, ServerGoing
(* It is known which handler runs, and it has what it takes. *)
Ran(c, d) ==
    /\ CallerSame(c, d) /\ OneDecoded(c, d, "responder") /\ ChannelKept(c, d)
    /\ d.replies = c.replies /\ d.raw = c.raw /\ Unanswered(d)
    /\ d.ran \in Outcomes /\ (~Qrpc => Returns(d.ran) = 1)
    /\ d.ran = c.ran \/ c.ran = "none" \/ Go("responder")

LEMMA RanKeeps ==
    ASSUME NEW c \in CallType, NEW d \in CallType, Impls, CallInv(c), Ran(c, d),
           c.responder \in {"frame", "args"}
    PROVE  /\ ToReturn(d) /\ ReplyCarried(d) /\ Closing(d)
           /\ (Returns(c.ran) > 1 => Returns(d.ran) > 1)
<1>1. /\ Serving(c) /\ ReplyCarried(c) /\ Closing(c) /\ Closed(c, "responder")
  BY PartsOfInv, TheSides
<1>2. /\ CallerSame(c, d) /\ OneDecoded(c, d, "responder") /\ ChannelKept(c, d)
      /\ d.replies = c.replies /\ d.raw = c.raw /\ Unanswered(d)
      /\ d.ran \in Outcomes /\ (~Qrpc => Returns(d.ran) = 1)
      /\ d.ran = c.ran \/ c.ran = "none" \/ Go("responder")
  BY DEF Ran
<1>3. c.replies = <<>> /\ c.raw = 0 /\ Unanswered(c) /\ (~Qrpc => Returns(c.ran) = 1)
  BY <1>1 DEF Serving, Unanswered
<1>4. d.ran = c.ran \/ Returns(c.ran) = 1
  BY <1>2, <1>3, GoOrNot DEF Returns
<1>5. ToReturn(d)
  BY <1>2, <1>3 DEF ToReturn
<1>6. ReplyCarried(d)
  <2>1. CallerKept(c, d)
    <3>1. c.values \in [Sides -> Seq(ValueType)]
      BY Fields
    <3>2. d.values["caller"] = c.values["caller"]
      BY <1>2, <3>1, TheSides DEF OneDecoded
    <3> QED  BY <1>2, <3>2 DEF CallerKept, OneDecoded, ChannelKept, ChannelSame
  <2>2. Returns(c.ran) = 1 \/ Returns(d.ran) # 1
    BY <1>4
  <2> QED  BY <1>1, <1>2, <1>3, <2>1, <2>2, ReplyQuiet
<1>7. Closing(d)
  <2>1. EmptyIn(d)
    BY <1>1, <1>2, GoneEmpty DEF ChannelKept, ChannelSame
  <2>2. Onward(c, d)
    BY <1>2, <1>3, <1>4 DEF Onward, HasClosed, Leaving, CallerSame, Finished, Doubled, Returned, Unanswered
  <2> QED  BY <1>1, <1>2, <2>1, <2>2, StillClosing DEF ChannelKept
<1>8. Returns(c.ran) > 1 => Returns(d.ran) > 1
  BY <1>4
<1> QED  BY <1>5, <1>6, <1>7, <1>8

(* It takes its arguments. *)
LEMMA ArgsNext ==
    ASSUME NEW c \in CallType, NEW d \in CallType, Impls, CallInv(c), Ran(c, d),
           c.responder = "frame", d.responder = "args"
    PROVE  Going(c, d)
<1>1. /\ ToReturn(d) /\ ReplyCarried(d) /\ Closing(d)
      /\ (Returns(c.ran) > 1 => Returns(d.ran) > 1)
  BY RanKeeps
<1>2. d.ran # "none" /\ d.replies = <<>> /\ d.raw = 0 /\ (~Qrpc => Returns(d.ran) = 1)
  <2>1. "none" \notin Outcomes
    BY DEF Outcomes, Thrown
  <2> QED  BY <1>1, <2>1 DEF ToReturn
<1>3. Serving(d) /\ ToWrite(d)
  <2>1. Len(d.replies) = 0
    BY <1>2
  <2> QED  BY <1>2, <2>1 DEF Serving, ToWrite, Returned
<1>4. ServerTook(c, d)
  BY <1>1 DEF ServerTook, Ran, ChannelKept, ChannelSame, FlagsUp, Unanswered, OneDecoded
<1> QED  BY <1>1, <1>3, <1>4, ServerGoing

(* What the calls of return write at once is no Close. *)
LEMMA RepeatCloses ==
    ASSUME NEW p \in Seq(MessageType), NEW m \in MessageType, NEW n \in Nat,
           ~Closes(p), m # Close
    PROVE  /\ ~Closes(p \o [j \in 1 .. n |-> m])
           /\ p # <<>> => p \o [j \in 1 .. n |-> m] # <<>>
<1>1. PICK q \in Seq(MessageType) : /\ q = [j \in 1 .. n |-> m] /\ Len(q) = n
                                    /\ \A k \in 1 .. n : q[k] = m
  <2>1. /\ [j \in 1 .. n |-> m] \in Seq(MessageType) /\ Len([j \in 1 .. n |-> m]) = n
        /\ \A k \in 1 .. n : [j \in 1 .. n |-> m][k] = m
    BY Repeated
  <2> QED  BY <2>1
<1>2. ~Closes(q)
  BY <1>1 DEF Closes
<1>3. ~Closes(p \o q)
  BY <1>2, TwoFrames
<1>4. p # <<>> => p \o q # <<>>
  BY TwoFrames
<1> QED  BY <1>1, <1>3, <1>4

LEMMA ReturnClosing ==
    ASSUME NEW c \in CallType, NEW d \in CallType, Impls, Closing(c), ToReturn(c),
           DidReturn(c, d, c.ran)
    PROVE  Closing(d)
<1>1. c.ran \in Outcomes /\ Unanswered(c) /\ d.ran = c.ran /\ CallerSame(c, d)
  BY DEF ToReturn, DidReturn, ServerOnly
<1>2. Onward(c, d)
  BY <1>1 DEF Onward, HasClosed, Leaving, CallerSame, Finished, Doubled, Returned, Unanswered
<1>3. CASE Go("responder") \/ c.sentClose["responder"]
  <2>1. ChannelKept(c, d)
    BY <1>3 DEF DidReturn
  <2>2. EmptyIn(d)
    BY <2>1, GoneEmpty DEF ChannelKept, ChannelSame
  <2> QED  BY <1>2, <2>1, <2>2, StillClosing DEF ChannelKept
<1>4. CASE ~Go("responder") /\ ~c.sentClose["responder"]
  <2>1. PICK n \in Nat : n = Returns(c.ran)
    <3>1. Returns(c.ran) \in {0, 1, 2, 4}
      BY ReturnsMost
    <3> QED  BY <3>1
  <2>2. PICK m \in MessageType : m = Head(Reply(c.ran)) /\ m # Close
    BY <1>1, FirstMessage
  <2>3. FirstWritten(c, d, n, m)
    BY <1>4, <2>1, <2>2 DEF DidReturn
  <2>4. /\ d.sentClose = c.sentClose /\ d.finishing = c.finishing /\ d.gone = c.gone
        /\ d.late = c.late
    BY <2>3 DEF FirstWritten
  <2>5. EmptyIn(d)
    <3>1. PICK w : w = [k \in 1 .. n |-> Head(m)]
      OBVIOUS
    <3>2. d.in = c.in \/ (~c.gone["caller"] /\ d.in = [c.in EXCEPT !["caller"] = @ \o w])
      BY <2>3, <3>1 DEF FirstWritten
    <3>3. c.in \in [Sides -> Seq(PartType)]
      BY Fields
    <3>4. \A s \in Sides : c.gone[s] => d.in[s] = c.in[s]
      BY <3>2, <3>3
    <3> QED  BY <2>4, <3>4 DEF EmptyIn, Closing, Shut
  <2>6. CASE d.out = c.out
    BY <1>2, <2>4, <2>5, <2>6, StillClosing DEF ChannelSame
  <2>7. CASE d.out # c.out
    <3>1. PICK w : w = [k \in 1 .. n |-> m]
      OBVIOUS
    <3>2. ~Mock /\ ~Swallowed /\ d.out = [c.out EXCEPT !["responder"] = @ \o w]
      BY <2>3, <2>7, <3>1 DEF FirstWritten
    <3>3. c.out \in [Sides -> Seq(MessageType)]
      BY Fields
    <3>4. d.out["responder"] = c.out["responder"] \o w /\ d.out["caller"] = c.out["caller"]
      BY <3>2, <3>3, TheSides
    <3>5. /\ Closed(c, "caller") /\ Closed(c, "responder") /\ Shut(c, "caller") /\ Shut(c, "responder")
          /\ Told(c, "caller") /\ Told(c, "responder") /\ First(c) /\ Answering(c)
      BY TheSides DEF Closing
    <3>6. ~Closes(c.out["responder"]) /\ ~c.late["responder"]
      BY <1>4, <3>5 DEF Closed
    <3>7. ~Closes(d.out["responder"])
      <4>1. c.out["responder"] \in Seq(MessageType)
        BY <3>3, TheSides
      <4> QED  BY <2>2, <3>1, <3>4, <3>6, <4>1, RepeatCloses
    <3>8. ClosesOnce(d.out["responder"]) /\ ~GoesOn(d.out["responder"])
      <4>1. d.out["responder"] \in Seq(MessageType)
        BY Fields, TheSides
      <4> QED  BY <3>7, <4>1 DEF Closes, ClosesOnce, GoesOn
    <3>9. Closed(d, "caller") /\ Closed(d, "responder")
      BY <2>4, <3>4, <3>5, <3>6, <3>7, <3>8 DEF Closed
    <3>10. (Heard(d, "responder") <=> Heard(c, "responder")) /\ ~Heard(c, "caller")
      BY <1>4, <2>4, <3>4, TheSides DEF Heard
    <3>11. Shut(d, "caller") /\ Shut(d, "responder")
      <4>1. (HasClosed(c, "caller") => HasClosed(d, "caller")) /\ (Doubled(c) => Doubled(d))
        BY <1>2, TheSides DEF Onward
      <4>2. \A s \in Sides : ~Go(s) /\ d.gone[s] => d.in[s] = <<>>
        BY <2>5 DEF EmptyIn
      <4> QED  BY <1>4, <2>4, <3>2, <3>5, <3>10, <4>1, <4>2, TheSides DEF Shut
    <3>12. Told(d, "caller") /\ Told(d, "responder")
      BY <1>4, <2>4, <3>4, <3>5, <3>6, TheSides DEF Told
    <3>13. First(d)
      <4>1. (Leaving(c) => Leaving(d)) /\ (Finished(c) => Finished(d))
        BY <1>2 DEF Onward
      <4>2. ASSUME NEW s \in Sides, Closes(d.out[s]) \/ (d.sentClose[s] /\ ~ended[s])
            PROVE  Closes(c.out[s]) \/ (c.sentClose[s] /\ ~ended[s])
        BY <2>4, <3>4, <3>7, <4>2, TheSides
      <4> QED  BY <1>1, <3>5, <4>1, <4>2 DEF First
    <3>14. Answering(d)
      BY <1>4, <2>4, <3>6 DEF Answering
    <3> QED  BY <3>9, <3>11, <3>12, <3>13, <3>14, TheSides DEF Closing
  <2> QED  BY <2>6, <2>7
<1> QED  BY <1>3, <1>4

(* The handler has run: its reply is on its way. *)
LEMMA ReturnGoes ==
    ASSUME NEW c \in CallType, NEW e \in CallType, NEW d \in CallType, Impls, CallInv(c),
           c.responder \in {"frame", "args"}, Ran(c, e), DidReturn(e, d, e.ran)
    PROVE  Going(c, d)
<1>1. /\ ToReturn(e) /\ ReplyCarried(e) /\ Closing(e)
      /\ (Returns(c.ran) > 1 => Returns(e.ran) > 1)
  BY RanKeeps
<1>2. /\ Serving(d) /\ ToWrite(d) /\ Returned(d)
  BY <1>1, ReturnKeeps
<1>3. ReplyCarried(d)
  <2>1. Closed(e, "responder") /\ Shut(e, "responder")
    BY <1>1, TheSides DEF Closing
  <2> QED  BY <1>1, <2>1, ReplyReturns
<1>4. Closing(d)
  BY <1>1, ReturnClosing
<1>5. ServerTook(c, d)
  <2>1. d.sentClose = e.sentClose /\ d.gone = e.gone /\ d.late = e.late
    BY DEF DidReturn, ChannelKept, ChannelSame, FirstWritten
  <2>2. CallerSame(e, d) /\ d.ran = e.ran
    BY DEF DidReturn, ServerOnly
  <2>3. CallerSame(c, e) /\ e.sentClose = c.sentClose /\ e.gone = c.gone /\ e.late = c.late
    BY DEF Ran, ChannelKept, ChannelSame
  <2>4. CallerSame(c, d)
    BY <2>2, <2>3 DEF CallerSame
  <2>5. d.count = c.count
    BY DEF DidReturn, ServerOnly, CodecSame, Ran, OneDecoded
  <2> QED  BY <1>1, <1>2, <2>1, <2>2, <2>3, <2>4, <2>5 DEF ServerTook, FlagsUp, Unanswered, Returned
<1> QED  BY <1>2, <1>3, <1>4, <1>5, ServerGoing
-----------------------------------------------------------------------------
(* The caller's steps *)

LEMMA CallerGoing ==
    ASSUME NEW c \in CallType, NEW d \in CallType, CallInv(c), ServerSame(c, d), FlagsUp(c, d),
           \A s \in Sides : c.late[s] => d.late[s],
           c.stage # "idle", d.stage \notin {"idle", "opening", "hanging"},
           Asking(d), RequestRead(d), ReplyCarried(d), Noted(d), FailsBecause(d), Closing(d)
    PROVE  Going(c, d)
<1>1. Serving(d) /\ ToWrite(d)
  BY PartsOfInv, ServerStays
<1>2. Fresh(d)
  BY DEF Fresh
<1>3. CallInv(d)
  BY <1>1, <1>2, InvOfParts
<1> QED  BY <1>3 DEF Going, Keeps, ServerSame

LEMMA DidGoing ==
    ASSUME NEW c \in CallType, NEW d \in CallType, CallInv(c), CallerDid(c, d),
           c.stage # "idle", d.stage \notin {"idle", "opening", "hanging", "writing"}, Asking(d),
           ReplyCarried(d), Noted(d), FailsBecause(d), Closing(d)
    PROVE  Going(c, d)
<1>1. RequestRead(d)
  BY PartsOfInv, RequestDid, TheSides
<1>2. ServerSame(c, d) /\ FlagsUp(c, d) /\ d.late = c.late
  BY DEF CallerDid
<1> QED  BY <1>1, <1>2, CallerGoing

(* It closes its channel, *)
LEMMA CallerCloses ==
    ASSUME NEW c \in CallType, NEW d \in CallType, Impls, Closing(c), ServerSame(c, d),
           DidClose(c, d, "caller"), c.stage \in {"writing", "header", "reply"},
           d.stage \in {"closing", "rejecting", "returned", "rejected", "failed"},
           d.stage = "failed" => Go("caller")
    PROVE  Closing(d)
<1>1. ~HasClosed(c, "caller") /\ ~Leaving(c) /\ Leaving(d) /\ (HasClosed(d, "caller") \/ Go("caller"))
  BY DEF HasClosed, Leaving
<1>2. Onward(c, d)
  <2>1. Finished(c) => Finished(d)
    BY DEF ServerSame, Finished
  <2>2. Doubled(c) => Doubled(d)
    BY DEF ServerSame, Doubled, Returned
  <2>3. d.ran = c.ran
    BY DEF ServerSame
  <2>4. \A s \in Sides : HasClosed(c, s) => HasClosed(d, s)
    BY <1>1, <2>1, <2>2, TheSides DEF HasClosed
  <2> QED  BY <1>1, <2>1, <2>2, <2>3, <2>4 DEF Onward
<1> QED  BY <1>1, <1>2, TheSides, CloseClosing

(* or does not. *)
LEMMA CallerStill ==
    ASSUME NEW c \in CallType, NEW d \in CallType, Impls, Closing(c), ServerSame(c, d),
           ChannelKept(c, d),
           c.stage \in {"closing", "rejecting"} => d.stage \in {"returned", "rejected"},
           c.stage \notin {"returned", "rejected", "failed"}
    PROVE  Closing(d)
<1>1. EmptyIn(d)
  BY GoneEmpty DEF ChannelKept, ChannelSame
<1>2. Onward(c, d)
  <2>1. Finished(c) => Finished(d)
    BY DEF ServerSame, Finished
  <2>2. Doubled(c) => Doubled(d)
    BY DEF ServerSame, Doubled, Returned
  <2>3. d.ran = c.ran
    BY DEF ServerSame
  <2>4. Leaving(c) => Leaving(d)
    BY DEF Leaving
  <2>5. \A s \in Sides : HasClosed(c, s) => HasClosed(d, s)
    BY <2>1, <2>2, TheSides DEF HasClosed
  <2> QED  BY <2>1, <2>2, <2>3, <2>4, <2>5 DEF Onward
<1> QED  BY <1>1, <1>2, StillClosing DEF ChannelKept

(* What it has noted of a call when it sets the stage. *)
Notes(e, d, stage) ==
    /\ d.stage = stage /\ d.todo = e.todo /\ d.error = e.error /\ d.hijacked = e.hijacked
    /\ d.reply = e.reply /\ d.got = e.got /\ ServerSame(e, d) /\ CodecSame(e, d)

LEMMA StageSet ==
    ASSUME NEW e \in CallType, NEW stage \in Stages
    PROVE  /\ [e EXCEPT !.stage = stage] \in CallType
           /\ Notes(e, [e EXCEPT !.stage = stage], stage)
           /\ ChannelKept(e, [e EXCEPT !.stage = stage])
BY StageDoes DEF Notes

LEMMA ClosedSet ==
    ASSUME NEW e \in CallType, NEW stage \in Stages, Impls
    PROVE  /\ [CloseChannel(e, "caller") EXCEPT !.stage = stage] \in CallType
           /\ Notes(e, [CloseChannel(e, "caller") EXCEPT !.stage = stage], stage)
           /\ DidClose(e, [CloseChannel(e, "caller") EXCEPT !.stage = stage], "caller")
<1>1. PICK f : f = CloseChannel(e, "caller")
  OBVIOUS
<1>2. Others(e, f) /\ DidClose(e, f, "caller")
  BY <1>1, CloseDoes, TheSides
<1>3. f \in CallType
  BY <1>2 DEF Others
<1>4. PICK d : d = [f EXCEPT !.stage = stage]
  OBVIOUS
<1>5. d \in CallType /\ Notes(f, d, stage) /\ ChannelKept(f, d)
  BY <1>3, <1>4, StageSet
<1>6. Notes(e, d, stage)
  BY <1>2, <1>5 DEF Notes, Others, CallerSame, ServerSame, CodecSame
<1>7. DidClose(e, d, "caller")
  <2>1. ChannelKept(e, e)
    BY DEF ChannelKept, ChannelSame
  <2> QED  BY <1>2, <1>5, <2>1, CloseThrough
<1> QED  BY <1>1, <1>4, <1>5, <1>6, <1>7

(* decode has given it a value, of which it has noted what it needs. *)
Took(c, e) ==
    /\ ServerSame(c, e) /\ ChannelKept(c, e) /\ OneDecoded(c, e, "caller")
    /\ e.todo = c.todo /\ e.got = c.got

LEMMA TookOn ==
    ASSUME NEW c \in CallType, NEW e \in CallType, NEW d \in CallType, Impls, Took(c, e),
           NEW stage, Notes(e, d, stage), ChannelKept(e, d) \/ DidClose(e, d, "caller")
    PROVE  /\ CallerDid(c, d) /\ ServerSame(c, d)
           /\ (ChannelKept(e, d) => ChannelKept(c, d))
           /\ (DidClose(e, d, "caller") => DidClose(c, d, "caller"))
           /\ d.values["caller"] = Tail(c.values["caller"]) /\ d.todo = c.todo /\ d.got = c.got
<1>1. /\ ServerSame(c, e) /\ ChannelKept(c, e) /\ OneDecoded(c, e, "caller")
      /\ ServerSame(e, d) /\ CodecSame(e, d) /\ d.todo = c.todo /\ d.got = c.got
  BY DEF Took, Notes
<1>2. /\ ServerSame(c, d) /\ d.phase = c.phase /\ d.size = c.size /\ d.count = c.count
      /\ d.values = [c.values EXCEPT !["caller"] = Tail(@)]
  BY <1>1 DEF ServerSame, OneDecoded, CodecSame
<1>3. d.values["caller"] = Tail(c.values["caller"]) /\ d.values["responder"] = c.values["responder"]
  <2>1. c.values \in [Sides -> Seq(ValueType)]
    BY Fields
  <2> QED  BY <1>2, <2>1, TheSides
<1>4. ChannelKept(e, d) => ChannelKept(c, d)
  BY <1>1 DEF ChannelKept, ChannelSame
<1>5. DidClose(e, d, "caller") => DidClose(c, d, "caller")
  <2>1. ChannelKept(d, d)
    BY DEF ChannelKept, ChannelSame
  <2> QED  BY <1>1, <2>1, CloseThrough
<1>6. CallerDid(c, d)
  BY <1>2, <1>3, <1>4, <1>5, KeptDid, ClosedDid
<1> QED  BY <1>1, <1>2, <1>3, <1>4, <1>5, <1>6
(* It cannot write its call, *)
LEMMA WriteStops ==
    ASSUME NEW c \in CallType, NEW d \in CallType, Impls, CallInv(c), c.stage = "writing",
           CannotWrite(c, "caller"), Notes(c, d, "failed"),
           ChannelKept(c, d) \/ (Go("caller") /\ DidClose(c, d, "caller"))
    PROVE  Going(c, d)
<1>1. /\ Asking(c) /\ ReplyCarried(c) /\ Closing(c) /\ Noted(c) /\ Shut(c, "caller")
  BY PartsOfInv, TheSides
<1>2. ChannelKept(c, d)
  <2>1. CASE Go("caller") /\ DidClose(c, d, "caller")
    <3>1. ~Mock /\ c.sentClose["caller"]
      BY <1>1, <2>1, GoOrNot DEF CannotWrite, Shut
    <3> QED  BY <2>1, <3>1 DEF DidClose, ChannelKept
  <2> QED  BY <2>1
<1>3. /\ d.stage = "failed" /\ d.todo = c.todo /\ d.error = c.error /\ d.hijacked = c.hijacked
      /\ d.reply = c.reply /\ d.got = c.got /\ ServerSame(c, d) /\ CodecSame(c, d)
  BY DEF Notes
<1>4. CallerDid(c, d)
  BY <1>2, <1>3, KeptDid DEF CodecSame
<1>5. ReplyCarried(d) /\ Noted(d) /\ FailsBecause(d)
  <2>1. d.values = c.values /\ d.in = c.in
    BY <1>2, <1>3 DEF CodecSame, ChannelKept
  <2> QED  BY <1>1, <1>3, <1>4, <2>1, WriteFails
<1>6. Asking(d)
  BY <1>1, <1>3 DEF Asking
<1>7. Closing(d)
  BY <1>1, <1>2, <1>3, CallerStill
<1> QED  BY <1>3, <1>4, <1>5, <1>6, <1>7, DidGoing

(* or writes the next message. *)
LEMMA CallGoesOn ==
    ASSUME NEW c \in CallType, NEW d \in CallType, Impls, CallInv(c), c.stage = "writing",
           ~CannotWrite(c, "caller"), Wrote(c, d, "caller", Head(c.todo)),
           d.todo = Tail(c.todo), d.stage = IF Len(c.todo) = 1 THEN "header" ELSE "writing",
           d.error = c.error, d.hijacked = c.hijacked, d.reply = c.reply, d.got = c.got,
           ServerSame(c, d), CodecSame(c, d)
    PROVE  Going(c, d)
<1>1. /\ Asking(c) /\ ReplyCarried(c) /\ Closing(c) /\ Noted(c) /\ RequestRead(c)
      /\ Closed(c, "caller") /\ Shut(c, "caller")
  BY PartsOfInv, TheSides
<1>2. c.todo # <<>> /\ ~Closes(c.todo) /\ c.todo \in Seq(MessageType) /\ ~c.error /\ ~c.hijacked
      /\ c.got = <<>> /\ c.reply = "none"
  BY <1>1, Fields DEF Asking
<1>3. PICK m \in MessageType : m = Head(c.todo) /\ m # Close /\ ~Closes(Tail(c.todo))
  BY <1>2, TailCloses
<1>4. d.todo # <<>> \/ d.stage = "header"
  <2>1. Len(Tail(c.todo)) = Len(c.todo) - 1 /\ Len(c.todo) \in Nat \ {0}
    BY <1>2, OneLess
  <2>2. Tail(c.todo) = <<>> => Len(Tail(c.todo)) = 0
    <3>1. Len(<<>>) = 0
      OBVIOUS
    <3> QED  BY <3>1, Zenon
  <2>3. Tail(c.todo) = <<>> => Len(c.todo) = 1
    BY <2>1, <2>2
  <2> QED  BY <2>3
<1>5. d.stage \in {"writing", "header"}
  OBVIOUS
<1>6. Asking(d)
  BY <1>2, <1>3, <1>4, <1>5 DEF Asking
<1>7. /\ Wrote(c, d, "caller", m) /\ d.sentClose = c.sentClose /\ d.gone = c.gone
      /\ d.finishing = c.finishing
  BY <1>3 DEF Wrote
<1>8. /\ d.in["caller"] = c.in["caller"] /\ d.out["responder"] = c.out["responder"]
      /\ d.late["responder"] = c.late["responder"] /\ (c.late["caller"] => d.late["caller"])
  <2>1. /\ d.in = c.in \/ d.in = [c.in EXCEPT !["responder"] = @ \o m]
        /\ \/ d.out = c.out /\ d.late = c.late
           \/ /\ d.out = [c.out EXCEPT !["caller"] = Append(@, m)]
              /\ d.late = [c.late EXCEPT !["caller"] = @ \/ c.sentClose["caller"]]
    BY <1>7, TheSides DEF Wrote
  <2>2. /\ c.in \in [Sides -> Seq(PartType)] /\ c.out \in [Sides -> Seq(MessageType)]
        /\ c.late \in [Sides -> BOOLEAN]
    BY Fields
  <2> QED  BY <2>1, <2>2, TheSides
<1>9. RequestRead(d)
  BY <1>1, <1>2, <1>3, <1>7, RequestWrites DEF ServerSame, CodecSame
<1>10. ReplyCarried(d)
  <2>1. ReplySame(c, d)
    BY <1>8 DEF ReplySame, ServerSame, CodecSame, Unanswered, Returned
  <2>2. FlagsUp(c, d)
    BY <1>7 DEF FlagsUp
  <2> QED  BY <1>1, <1>5, <1>7, <2>1, <2>2, ReplyStays
<1>11. Noted(d) /\ FailsBecause(d)
  BY <1>1, <1>2, <1>5 DEF Noted, FailsBecause
<1>12. Closing(d)
  <2>1. Onward(c, d)
    <3>1. Finished(c) => Finished(d)
      BY DEF ServerSame, Finished
    <3>2. Doubled(c) => Doubled(d)
      BY DEF ServerSame, Doubled, Returned
    <3>3. d.ran = c.ran
      BY DEF ServerSame
    <3>4. ~Leaving(c)
      BY DEF Leaving
    <3>5. \A s \in Sides : HasClosed(c, s) => HasClosed(d, s)
      BY <3>1, <3>2, TheSides DEF HasClosed
    <3> QED  BY <3>1, <3>2, <3>3, <3>4, <3>5 DEF Onward
  <2> QED  BY <1>1, <1>3, <1>7, <2>1, TheSides, WroteClosing
<1>13. FlagsUp(c, d) /\ \A s \in Sides : c.late[s] => d.late[s]
  BY <1>7, <1>8, TheSides DEF FlagsUp
<1> QED  BY <1>5, <1>6, <1>9, <1>10, <1>11, <1>12, <1>13, CallerGoing

(* It has the header. *)
LEMMA HeaderGoes ==
    ASSUME NEW c \in CallType, NEW e \in CallType, NEW d \in CallType, Impls, CallInv(c),
           c.stage = "header", NEW h, FirstValue(c, h), Took(c, e),
           e.error = h.error, e.hijacked = h.hijacked, e.reply = c.reply,
           NEW stage, Notes(e, d, stage),
           \/ /\ stage = "failed" /\ Go("caller") /\ Failed(h) /\ DidClose(e, d, "caller")
           \/ /\ stage \in {"rejected", "rejecting"} /\ h.error /\ (Qrpc \/ Go("caller"))
              /\ ~(Go("caller") /\ Failed(h)) /\ DidClose(e, d, "caller")
           \/ /\ stage = "reply" /\ ~(Go("caller") /\ Failed(h)) /\ ChannelKept(e, d)
    PROVE  Going(c, d)
<1>1. /\ Asking(c) /\ Serving(c) /\ ReplyCarried(c) /\ Closing(c) /\ Noted(c)
  BY PartsOfInv, TheSides
<1>2. /\ CallerDid(c, d) /\ ServerSame(c, d)
      /\ (ChannelKept(e, d) => ChannelKept(c, d))
      /\ (DidClose(e, d, "caller") => DidClose(c, d, "caller"))
      /\ d.values["caller"] = Tail(c.values["caller"]) /\ d.todo = c.todo /\ d.got = c.got
  BY TookOn
<1>3. /\ d.stage = stage /\ d.error = h.error /\ d.hijacked = h.hijacked /\ d.reply = c.reply
  BY DEF Notes
<1>4. c.got = <<>> /\ c.reply = "none" /\ ~Closes(c.todo)
  BY <1>1 DEF Asking
<1>5. stage \in {"failed", "rejected", "rejecting", "reply"}
  OBVIOUS
<1>6. Asking(d)
  BY <1>2, <1>3, <1>4, <1>5 DEF Asking
<1>7. CASE stage = "failed"
  <2>1. ReplyCarried(d) /\ Noted(d) /\ FailsBecause(d)
    BY <1>1, <1>2, <1>3, <1>7, DecodeFails
  <2>2. Closing(d)
    BY <1>1, <1>2, <1>3, <1>7, CallerCloses
  <2> QED  BY <1>2, <1>3, <1>6, <1>7, <2>1, <2>2, DidGoing
<1>8. CASE stage # "failed"
  <2>1. ReplyCarried(d) /\ Noted(d)
    BY <1>1, <1>2, <1>3, <1>5, <1>8, HeaderNoted
  <2>2. FailsBecause(d)
    BY <1>3, <1>8 DEF FailsBecause
  <2>3. Closing(d)
    <3>1. CASE stage = "reply"
      BY <1>1, <1>2, <1>3, <3>1, CallerStill
    <3>2. CASE stage # "reply"
      BY <1>1, <1>2, <1>3, <1>5, <1>8, <3>2, CallerCloses
    <3> QED  BY <3>1, <3>2
  <2> QED  BY <1>2, <1>3, <1>5, <1>6, <2>1, <2>2, <2>3, DidGoing
<1> QED  BY <1>7, <1>8

(* It has the reply. *)
LEMMA AnswerGoes ==
    ASSUME NEW c \in CallType, NEW e \in CallType, NEW d \in CallType, Impls, CallInv(c),
           c.stage = "reply", NEW h, FirstValue(c, h), Took(c, e),
           e.error = c.error, e.hijacked = c.hijacked, e.reply = h.kind,
           NEW stage, Notes(e, d, stage),
           IF c.hijacked THEN ChannelKept(e, d) ELSE DidClose(e, d, "caller"),
           \/ /\ stage = "failed" /\ Go("caller")
              /\ \/ h.kind = "throws"
                 \/ h.kind = "EOF" /\ setting.wanted
                 \/ h.kind = "value" /\ ~setting.wanted
           \/ /\ stage \in {"closing", "returned"} /\ ~(Go("caller") /\ h.kind = "throws")
              /\ (Go("caller") => stage = "returned" /\ (h.kind = "EOF" => ~setting.wanted))
    PROVE  Going(c, d)
<1>1. /\ Asking(c) /\ Serving(c) /\ ReplyCarried(c) /\ Closing(c) /\ Noted(c)
  BY PartsOfInv, TheSides
<1>2. /\ CallerDid(c, d) /\ ServerSame(c, d)
      /\ (ChannelKept(e, d) => ChannelKept(c, d))
      /\ (DidClose(e, d, "caller") => DidClose(c, d, "caller"))
      /\ d.values["caller"] = Tail(c.values["caller"]) /\ d.todo = c.todo /\ d.got = c.got
  BY TookOn
<1>3. /\ d.stage = stage /\ d.error = c.error /\ d.hijacked = c.hijacked /\ d.reply = h.kind
  BY DEF Notes
<1>4. c.got = <<>> /\ ~Closes(c.todo)
  BY <1>1 DEF Asking
<1>5. stage \in {"failed", "closing", "returned"}
  OBVIOUS
<1>6. Asking(d)
  BY <1>2, <1>3, <1>4, <1>5 DEF Asking
<1>7. ReplyCarried(d) /\ Noted(d) /\ FailsBecause(d)
  <2>1. CASE stage = "failed"
    BY <1>1, <1>2, <1>3, <2>1, DecodeFails
  <2>2. CASE stage # "failed"
    <3>1. ReplyCarried(d) /\ Noted(d)
      BY <1>1, <1>2, <1>3, <1>5, <2>2, AnswerNoted
    <3>2. FailsBecause(d)
      BY <1>3, <2>2 DEF FailsBecause
    <3> QED  BY <3>1, <3>2
  <2> QED  BY <2>1, <2>2
<1>8. Closing(d)
  <2>1. CASE c.hijacked
    BY <1>1, <1>2, <2>1, CallerStill
  <2>2. CASE ~c.hijacked
    BY <1>1, <1>2, <1>3, <1>5, <2>2, CallerCloses
  <2> QED  BY <2>1, <2>2
<1> QED  BY <1>2, <1>3, <1>5, <1>6, <1>7, <1>8, DidGoing

(* Its channel has been shut down. *)
LEMMA CallEnds ==
    ASSUME NEW c \in CallType, NEW d \in CallType, Impls, CallInv(c),
           c.stage \in {"closing", "rejecting"}, ChannelKept(c, d),
           Notes(c, d, IF c.stage = "closing" THEN "returned" ELSE "rejected")
    PROVE  Going(c, d)
<1>1. /\ Asking(c) /\ ReplyCarried(c) /\ Closing(c) /\ Noted(c)
  BY PartsOfInv, TheSides
<1>2. /\ d.stage = (IF c.stage = "closing" THEN "returned" ELSE "rejected")
      /\ d.todo = c.todo /\ d.error = c.error /\ d.hijacked = c.hijacked
      /\ d.reply = c.reply /\ d.got = c.got /\ ServerSame(c, d) /\ CodecSame(c, d)
  BY DEF Notes
<1>3. CallerDid(c, d)
  BY <1>2, KeptDid DEF CodecSame
<1>4. ReplyCarried(d) /\ Noted(d)
  <2>1. d.values = c.values /\ d.in = c.in /\ d.gone = c.gone
    BY <1>2 DEF CodecSame, ChannelKept, ChannelSame
  <2> QED  BY <1>1, <1>2, <1>3, <2>1, CallOver
<1>5. Asking(d)
  BY <1>1, <1>2 DEF Asking
<1>6. FailsBecause(d)
  BY <1>2 DEF FailsBecause
<1>7. Closing(d)
  BY <1>1, <1>2, CallerStill
<1> QED  BY <1>2, <1>3, <1>4, <1>5, <1>6, <1>7, DidGoing

(* The application reads from the channel. *)
LEMMA RawGoes ==
    ASSUME NEW c \in CallType, NEW d \in CallType, Impls, CallInv(c),
           c.stage = "returned", c.hijacked, c.in["caller"] # <<>>,
           Go("caller") \/ c.phase["caller"] = "stopped",
           ServerSame(c, d), CodecSame(c, d), ChannelSame(c, d),
           d.stage = c.stage, d.todo = c.todo, d.error = c.error, d.hijacked = c.hijacked,
           d.reply = c.reply, d.in = [c.in EXCEPT !["caller"] = Tail(@)],
           d.got = Append(c.got, Head(c.in["caller"]))
    PROVE  Going(c, d)
<1>1. /\ Asking(c) /\ ReplyCarried(c) /\ Closing(c) /\ Noted(c) /\ RequestRead(c) /\ Shut(c, "caller")
      /\ Shut(c, "responder")
  BY PartsOfInv, TheSides
<1>2. d.in["caller"] = Tail(c.in["caller"]) /\ d.in["responder"] = c.in["responder"]
  <2>1. c.in \in [Sides -> Seq(PartType)]
    BY Fields
  <2> QED  BY <2>1, TheSides
<1>3. FlagsUp(c, d) /\ \A s \in Sides : c.late[s] => d.late[s]
  BY DEF ChannelSame, FlagsUp
<1>4. ReplyCarried(d) /\ Noted(d)
  BY <1>1, <1>2, RawTaken
<1>5. RequestRead(d)
  BY <1>1, <1>2, <1>3, RequestStays DEF ServerSame, CodecSame, ChannelSame
<1>6. Asking(d)
  BY <1>1 DEF Asking
<1>7. FailsBecause(d)
  BY DEF FailsBecause
<1>8. Closing(d)
  <2>1. EmptyIn(d)
    <3>1. d.gone = c.gone
      BY DEF ChannelSame
    <3> QED  BY <1>1, <1>2, <3>1, TheSides DEF EmptyIn, Shut
  <2> QED  BY <1>1, <2>1, SameOnward, StillClosing
<1> QED  BY <1>3, <1>4, <1>5, <1>6, <1>7, <1>8, CallerGoing
-----------------------------------------------------------------------------
(* The steps of the session and of the codecs *)

LEMMA StepGoing ==
    ASSUME NEW c \in CallType, NEW d \in CallType, CallInv(c), CallerSame(c, d), ServerSame(c, d),
           FlagsUp(c, d), d.late = c.late, c.stage \notin {"idle", "opening", "hanging"},
           TookEmpty(c) => d.count["caller"] = c.count["caller"],
           RequestRead(d), ReplyCarried(d), Closing(d)
    PROVE  Going(c, d)
<1>1. Asking(d)
  BY PartsOfInv, CallerStays
<1>2. Noted(d) /\ FailsBecause(d)
  <2>1. d.ran = c.ran
    BY DEF ServerSame
  <2>2. TookEmpty(c) => TookEmpty(d)
    BY <2>1, SameReplyParts
  <2> QED  BY <2>1, <2>2, PartsOfInv, NotesStay
<1>3. c.stage # "idle" /\ d.stage \notin {"idle", "opening", "hanging"}
  BY DEF CallerSame
<1> QED  BY <1>1, <1>2, <1>3, CallerGoing

(* Data come in. *)
LEMMA DataGoes ==
    ASSUME NEW c \in CallType, NEW d \in CallType, Impls, CallInv(c), NEW s \in Sides,
           c.out[Other(s)] # <<>>, Head(c.out[Other(s)]) # Close, ~c.gone[s], ~c.finishing[s],
           Others(c, d), TookIn(c, d, s)
    PROVE  Going(c, d)
<1>1. /\ CallerSame(c, d) /\ ServerSame(c, d) /\ CodecSame(c, d)
  BY DEF Others
<1>2. /\ ReplyCarried(c) /\ Closing(c) /\ RequestRead(c) /\ Fresh(c)
      /\ Told(c, "caller") /\ Answering(c)
  BY PartsOfInv, TheSides DEF Closing
<1>3. PICK o \in Sides : o = Other(s) /\ o # s /\ Other(o) = s
  BY TheSides
<1>4. /\ d.out[o] = Tail(c.out[o]) /\ d.out[s] = c.out[s]
      /\ d.in[o] = c.in[o]
      /\ d.late = c.late /\ d.sentClose = c.sentClose /\ d.gone = c.gone
      /\ d.finishing = c.finishing
  BY <1>3, TookInParts
<1>5. FlagsUp(c, d)
  BY <1>4 DEF FlagsUp
<1>6. c.stage \notin {"idle", "opening", "hanging"}
  BY <1>2, <1>3 DEF Fresh
<1>7. Closing(d)
  <2>1. EmptyIn(d)
    <3>1. \A t \in Sides : t = s \/ t = o
      BY <1>3, TheSides
    <3>2. c.gone[o] /\ ~Go(o) => c.in[o] = <<>>
      BY <1>2 DEF Closing, Shut
    <3> QED  BY <1>4, <3>1, <3>2 DEF EmptyIn
  <2>2. Popped(c, d, s)
    BY DEF TookIn
  <2> QED  BY <1>1, <1>2, <2>1, <2>2, PopClosing
<1>8. CASE s = "caller"
  <2>1. o = "responder" /\ c.out["responder"] # <<>> /\ Head(c.out["responder"]) # Close
    BY <1>3, <1>8, TheSides
  <2>2. ReplyCarried(d)
    BY <1>1, <1>2, <1>8, <2>1, ReplyComes
  <2>3. RequestRead(d)
    BY <1>1, <1>2, <1>4, <1>5, <1>8, <2>1, RequestStays DEF CallerSame, ServerSame, CodecSame
  <2> QED  BY <1>1, <1>4, <1>5, <1>6, <1>7, <2>2, <2>3, StepGoing DEF CodecSame
<1>9. CASE s = "responder"
  <2>1. o = "caller" /\ c.out["caller"] # <<>> /\ Head(c.out["caller"]) # Close
    BY <1>3, <1>9, TheSides
  <2>2. RequestRead(d)
    BY <1>1, <1>2, <1>9, <2>1, RequestComes
  <2>3. ReplySame(c, d)
    BY <1>1, <1>4, <1>9, <2>1 DEF ReplySame, CallerSame, ServerSame, CodecSame, Unanswered, Returned
  <2>4. ReplyCarried(d)
    BY <1>1, <1>2, <1>4, <1>5, <2>3, ReplyStays DEF CallerSame
  <2> QED  BY <1>1, <1>4, <1>5, <1>6, <1>7, <2>2, <2>4, StepGoing DEF CodecSame
<1> QED  BY <1>8, <1>9, TheSides

(* A Close comes in. *)
LEMMA CloseGoes ==
    ASSUME NEW c \in CallType, NEW d \in CallType, Impls, CallInv(c), NEW s \in Sides,
           c.out[Other(s)] # <<>>, Head(c.out[Other(s)]) = Close, ~c.gone[s],
           Others(c, d), ToldOf(c, d, s)
    PROVE  Going(c, d)
<1>1. /\ CallerSame(c, d) /\ ServerSame(c, d) /\ CodecSame(c, d)
  BY DEF Others
<1>2. /\ ReplyCarried(c) /\ Closing(c) /\ RequestRead(c) /\ Fresh(c) /\ First(c)
      /\ Closed(c, "caller") /\ Closed(c, "responder")
  BY PartsOfInv, TheSides DEF Closing
<1>3. PICK o \in Sides : o = Other(s) /\ o # s /\ Other(o) = s
  BY TheSides
<1>4. /\ d.out[o] = Tail(c.out[o]) /\ d.late = c.late
      /\ d.sentClose[s] /\ (d.sentClose[o] <=> c.sentClose[o])
      /\ d.gone[o] = c.gone[o] /\ d.finishing[o] = c.finishing[o] /\ d.in[o] = c.in[o]
      /\ Go(s) => d.in = c.in
      /\ d.out[s] = IF c.sentClose[s] \/ Swallowed THEN c.out[s] ELSE Append(c.out[s], Close)
  BY <1>3, ToldParts DEF ToldOf
<1>5. FlagsUp(c, d)
  BY ToldParts DEF FlagsUp
<1>6. c.stage \notin {"idle", "opening", "hanging"}
  BY <1>2, <1>3 DEF Fresh
<1>7. Closing(d)
  BY <1>1, <1>2, ToldClosing
<1>8. /\ c.out[o] \in Seq(MessageType) /\ d.out[o] \in Seq(MessageType) /\ Closes(c.out[o])
      /\ ~Closes(d.out[o]) /\ (d.out[o] # <<>> => GoesOn(c.out[o]))
  <2>1. c.out[o] \in Seq(MessageType) /\ d.out[o] \in Seq(MessageType)
    BY Fields
  <2>2. ClosesOnce(c.out[o])
    BY <1>2, TheSides DEF Closed
  <2> QED  BY <1>3, <1>4, <2>1, <2>2, TailCloses
<1>9. CASE s = "caller"
  <2>1. o = "responder" /\ c.out["responder"] # <<>> /\ Head(c.out["responder"]) = Close
    BY <1>3, <1>9, TheSides
  <2>2. ReplyCarried(d)
    BY <1>1, <1>2, <1>9, <2>1, ReplyTold
  <2>3. RequestRead(d)
    <3>1. \/ d.out["caller"] = c.out["caller"]
          \/ ~c.sentClose["caller"] /\ d.out["caller"] = Append(c.out["caller"], Close)
      BY <1>4, <1>9
    <3> QED  BY <1>1, <1>2, <1>4, <1>5, <1>9, <2>1, <3>1, RequestCloses DEF ServerSame, CodecSame
  <2> QED  BY <1>1, <1>4, <1>5, <1>6, <1>7, <2>2, <2>3, StepGoing DEF CodecSame
<1>10. CASE s = "responder"
  <2>1. o = "caller" /\ c.out["caller"] # <<>> /\ Head(c.out["caller"]) = Close
    BY <1>3, <1>10, TheSides
  <2>2. RequestRead(d)
    <3>1. CASE Go("responder")
      <4>1. d.in["responder"] = c.in["responder"]
        BY <1>4, <1>10, <3>1
      <4>2. d.sentClose["caller"] /\ (d.out["caller"] # <<>> => d.late["caller"])
        BY <1>2, <1>4, <1>8, <2>1 DEF Closed
      <4> QED  BY <1>1, <1>2, <1>5, <1>8, <2>1, <4>1, <4>2, RequestHeard DEF ServerSame, CodecSame
    <3>2. CASE ~Go("responder")
      BY <3>2, RequestOver
    <3> QED  BY <3>1, <3>2
  <2>3. ReplyCarried(d)
    <3>1. CodecKept(c, d)
      BY <1>1, <1>4, <2>1 DEF CodecKept, ServerSame, CodecSame
    <3>2. RepliesKept(c, d)
      BY <1>1, <1>2 DEF RepliesKept, Unmarked, ReplyCarried, ServerSame
    <3>3. Sent(d) = Sent(c)
      <4>1. ReplyMessages(d) = ReplyMessages(c)
        BY <1>1, SameReplyParts DEF ServerSame
      <4> QED  BY <1>1, <4>1 DEF Sent, ServerSame, Unanswered
    <3>4. ~c.hijacked \/ Returned(d)
      BY <1>1, <1>2 DEF Unmarked, ReplyCarried, ServerSame, Returned
    <3>5. Unanswered(d) \/ d.ran = "none" => Unanswered(c) \/ c.ran = "none"
      BY <1>1 DEF ServerSame, Unanswered
    <3>6. Lost(c) \/ Leaving(c) \/ Sent(c) >= ReplyMessages(c)
      <4>1. Leaving(c) \/ Finished(c) \/ Returns(c.ran) # 1
        BY <1>2, <1>8, <2>1, TheSides DEF First
      <4>2. Finished(c) => Sent(c) >= ReplyMessages(c)
        <5>1. Finished(c) => Returned(c) /\ c.replies = <<>>
          BY DEF Finished, Returned
        <5>2. SUFFICES ASSUME Finished(c)  PROVE Sent(c) >= ReplyMessages(c)
          OBVIOUS
        <5>3. Sent(c) = ReplyMessages(c) + c.raw /\ ReplyMessages(c) \in Nat /\ c.raw \in Nat
          BY <5>1, <5>2, RawNext
        <5> QED  BY <5>3
      <4> QED  BY <4>1, <4>2 DEF Lost
    <3>7. \/ d.out["responder"] = c.out["responder"]
          \/ /\ ~c.sentClose["responder"] /\ d.sentClose["responder"] /\ ~Swallowed /\ ~Mock
             /\ d.out["responder"] = Append(c.out["responder"], Close)
      <4>1. ~Mock
        BY <1>2, <1>3 DEF Closing, Shut
      <4> QED  BY <1>4, <1>10, <4>1
    <3>8. /\ d.in["caller"] = c.in["caller"] /\ d.late["responder"] = c.late["responder"]
          /\ (c.sentClose["responder"] => d.sentClose["responder"])
      BY <1>4, <1>10, <2>1
    <3> QED  BY <1>2, <3>1, <3>2, <3>3, <3>4, <3>5, <3>6, <3>7, <3>8, ReplyClosed
  <2> QED  BY <1>1, <1>4, <1>5, <1>6, <1>7, <2>2, <2>3, StepGoing DEF CodecSame
<1> QED  BY <1>9, <1>10, TheSides

(* Go shuts the channel down. *)
LEMMA FinishGoes ==
    ASSUME NEW c \in CallType, NEW d \in CallType, Impls, CallInv(c), NEW s \in Sides,
           c.finishing[s], Others(c, d), WasShut(c, d, s)
    PROVE  Going(c, d)
<1>1. /\ CallerSame(c, d) /\ ServerSame(c, d) /\ CodecSame(c, d)
  BY DEF Others
<1>2. /\ ReplyCarried(c) /\ Closing(c) /\ RequestRead(c) /\ Fresh(c) /\ Shut(c, s)
  BY PartsOfInv
<1>3. Go(s)
  BY <1>2 DEF Shut
<1>4. /\ d.out = c.out /\ d.late = c.late /\ d.in = c.in
      /\ d.gone = [c.gone EXCEPT ![s] = TRUE] /\ d.finishing = [c.finishing EXCEPT ![s] = FALSE]
      /\ d.sentClose = [c.sentClose EXCEPT ![s] = TRUE]
  <2>1. c.sentClose \in [Sides -> BOOLEAN] /\ c.in \in [Sides -> Seq(PartType)]
    BY Fields
  <2>2. d.in = c.in
    <3>1. d.in = [c.in EXCEPT ![s] = IF Go(s) THEN @ ELSE <<>>]
      BY DEF WasShut
    <3>2. d.in = [c.in EXCEPT ![s] = @]
      BY <1>3, <3>1
    <3> QED  BY <2>1, <3>2
  <2>3. d.sentClose = [c.sentClose EXCEPT ![s] = TRUE]
    <3>1. d.sentClose = [c.sentClose EXCEPT ![s] = @ \/ Go(s)]
      BY DEF WasShut
    <3> QED  BY <1>3, <2>1, <3>1
  <2> QED  BY <2>2, <2>3 DEF WasShut
<1>5. FlagsUp(c, d)
  <2>1. c.gone \in [Sides -> BOOLEAN] /\ c.sentClose \in [Sides -> BOOLEAN]
    BY Fields
  <2> QED  BY <1>4, <2>1 DEF FlagsUp
<1>6. c.stage \notin {"idle", "opening", "hanging"}
  BY <1>2 DEF Fresh
<1>7. Closing(d)
  BY <1>1, <1>2, FinishClosing
<1>8. RequestRead(d)
  BY <1>1, <1>2, <1>4, <1>5, RequestStays DEF CallerSame, ServerSame, CodecSame
<1>9. ReplyCarried(d)
  <2>1. CASE s = "caller"
    BY <1>1, <1>2, <2>1, ReplyShut
  <2>2. CASE s = "responder"
    <3>1. d.gone["caller"] = c.gone["caller"] /\ d.finishing["caller"] = c.finishing["caller"]
      <4>1. c.gone \in [Sides -> BOOLEAN] /\ c.finishing \in [Sides -> BOOLEAN]
        BY Fields
      <4> QED  BY <1>4, <2>2, <4>1, TheSides
    <3>2. ReplySame(c, d)
      BY <1>1, <1>4 DEF ReplySame, CallerSame, ServerSame, CodecSame, Unanswered, Returned
    <3> QED  BY <1>1, <1>2, <1>5, <3>1, <3>2, ReplyStays DEF CallerSame
  <2> QED  BY <2>1, <2>2, TheSides
<1> QED  BY <1>1, <1>4, <1>5, <1>6, <1>7, <1>8, <1>9, StepGoing DEF CodecSame
(* What a step of the codec of a side leaves alone at the other. *)
AtSide(c, d, s) ==
    /\ CallerSame(c, d) /\ ServerSame(c, d) /\ ChannelSame(c, d)
    /\ \A t \in Sides : t # s =>
        /\ d.in[t] = c.in[t] /\ d.phase[t] = c.phase[t] /\ d.size[t] = c.size[t]
        /\ d.count[t] = c.count[t] /\ d.values[t] = c.values[t]

LEMMA SizeAtSide ==
    ASSUME NEW c \in CallType, NEW d \in CallType, NEW s \in Sides, NEW n,
           CallerSame(c, d), ServerSame(c, d), SizeRead(c, d, s, n)
    PROVE  AtSide(c, d, s)
<1>1. c.in \in [Sides -> Seq(PartType)] /\ c.size \in [Sides -> Nat]
      /\ c.phase \in [Sides -> {"none", "size", "body", "stopped"}]
  BY Fields
<1>2. d.in = [c.in EXCEPT ![s] = Tail(@)] /\ d.size = [c.size EXCEPT ![s] = n]
      /\ d.phase = [c.phase EXCEPT ![s] = "body"]
  BY DEF SizeRead
<1>3. \A t \in Sides : t # s =>
        d.in[t] = c.in[t] /\ d.phase[t] = c.phase[t] /\ d.size[t] = c.size[t]
  BY <1>1, <1>2
<1> QED  BY <1>3 DEF AtSide, SizeRead

LEMMA BodyAtSide ==
    ASSUME NEW c \in CallType, NEW d \in CallType, NEW s \in Sides, NEW n, NEW values, NEW phase,
           CallerSame(c, d), ServerSame(c, d), BodyRead(c, d, s, n, values, phase)
    PROVE  AtSide(c, d, s)
<1>1. c.in \in [Sides -> Seq(PartType)] /\ c.count \in [Sides -> Nat]
      /\ c.phase \in [Sides -> {"none", "size", "body", "stopped"}]
      /\ c.values \in [Sides -> Seq(ValueType)]
  BY Fields
<1>2. /\ d.in = [c.in EXCEPT ![s] = SubSeq(@, n + 1, Len(@))]
      /\ d.count = [c.count EXCEPT ![s] = @ + 1]
      /\ d.values = [c.values EXCEPT ![s] = values] /\ d.phase = [c.phase EXCEPT ![s] = phase]
  BY DEF BodyRead
<1>3. \A t \in Sides : t # s => d.in[t] = c.in[t] /\ d.count[t] = c.count[t]
  BY <1>1, <1>2
<1>4. \A t \in Sides : t # s => d.values[t] = c.values[t] /\ d.phase[t] = c.phase[t]
  BY <1>1, <1>2
<1> QED  BY <1>3, <1>4 DEF AtSide, BodyRead

LEMMA EndAtSide ==
    ASSUME NEW c \in CallType, NEW d \in CallType, NEW s \in Sides, NEW values, NEW phase,
           CallerSame(c, d), ServerSame(c, d), EndRead(c, d, s, values, phase)
    PROVE  AtSide(c, d, s)
<1>1. /\ c.phase \in [Sides -> {"none", "size", "body", "stopped"}]
      /\ c.values \in [Sides -> Seq(ValueType)]
  BY Fields
<1>2. d.values = [c.values EXCEPT ![s] = values] /\ d.phase = [c.phase EXCEPT ![s] = phase]
  BY DEF EndRead
<1>3. \A t \in Sides : t # s => d.values[t] = c.values[t] /\ d.phase[t] = c.phase[t]
  BY <1>1, <1>2
<1> QED  BY <1>3 DEF AtSide, EndRead

LEMMA CodecGoing ==
    ASSUME NEW c \in CallType, NEW d \in CallType, Impls, CallInv(c), NEW s \in Sides,
           AtSide(c, d, s), c.phase[s] # "none", d.in = c.in \/ Go(s) \/ ~c.gone[s],
           TookEmpty(c) => d.count["caller"] = c.count["caller"],
           s = "caller" => ReplyCarried(d), s = "responder" => RequestRead(d)
    PROVE  Going(c, d)
<1>1. CallerSame(c, d) /\ ServerSame(c, d) /\ ChannelSame(c, d)
  BY DEF AtSide
<1>2. /\ ReplyCarried(c) /\ Closing(c) /\ RequestRead(c) /\ Fresh(c)
      /\ \A t \in Sides : Shut(c, t)
  BY PartsOfInv
<1>3. FlagsUp(c, d) /\ d.late = c.late
  BY <1>1 DEF FlagsUp, ChannelSame
<1>4. c.stage \notin {"idle", "opening", "hanging"}
  BY <1>2 DEF Fresh
<1>5. Closing(d)
  <2>1. Onward(c, d)
    BY <1>1, SameOnward DEF CallerSame
  <2>2. EmptyIn(d)
    <3>1. \A t \in Sides : c.gone[t] /\ ~Go(t) => c.in[t] = <<>>
      BY <1>2 DEF Shut
    <3>2. \A t \in Sides : t # s => d.in[t] = c.in[t]
      BY DEF AtSide
    <3>3. d.gone = c.gone
      BY <1>1 DEF ChannelSame
    <3> QED  BY <3>1, <3>2, <3>3 DEF EmptyIn
  <2> QED  BY <1>1, <1>2, <2>1, <2>2, StillClosing
<1>6. CASE s = "caller"
  <2>1. /\ d.in["responder"] = c.in["responder"] /\ d.phase["responder"] = c.phase["responder"]
        /\ d.size["responder"] = c.size["responder"]
        /\ d.values["responder"] = c.values["responder"]
    BY <1>6, TheSides DEF AtSide
  <2>2. RequestRead(d)
    BY <1>1, <1>2, <1>3, <2>1, RequestStays DEF CallerSame, ServerSame, ChannelSame
  <2> QED  BY <1>1, <1>3, <1>4, <1>5, <1>6, <2>2, StepGoing
<1>7. CASE s = "responder"
  <2>1. /\ d.in["caller"] = c.in["caller"] /\ d.phase["caller"] = c.phase["caller"]
        /\ d.size["caller"] = c.size["caller"] /\ d.count["caller"] = c.count["caller"]
        /\ d.values["caller"] = c.values["caller"]
    BY <1>7, TheSides DEF AtSide
  <2>2. ReplySame(c, d)
    BY <1>1, <2>1 DEF ReplySame, CallerSame, ServerSame, ChannelSame, Unanswered, Returned
  <2>3. ReplyCarried(d)
    BY <1>1, <1>2, <1>3, <2>2, ReplyStays DEF CallerSame, ChannelSame
  <2> QED  BY <1>1, <1>3, <1>4, <1>5, <1>7, <2>3, StepGoing
<1> QED  BY <1>6, <1>7, TheSides

(* The codec of a side reads a size, *)
LEMMA SizeGoes ==
    ASSUME NEW c \in CallType, NEW d \in CallType, Impls, CallInv(c), NEW s \in Sides,
           c.phase[s] = "size", c.in[s] # <<>>, Decodes(c, s),
           NEW n \in Nat, Head(c.in[s]).part = "size" => n = Head(c.in[s]).size,
           CallerSame(c, d), ServerSame(c, d), SizeRead(c, d, s, n)
    PROVE  Going(c, d)
<1>1. ReplyCarried(c) /\ RequestRead(c) /\ Shut(c, s)
  BY PartsOfInv
<1>2. Go(s) \/ ~c.gone[s]
  BY <1>1 DEF Shut
<1>3. s = "caller" => ReplyCarried(d)
  <2>1. SUFFICES ASSUME s = "caller"  PROVE ReplyCarried(d)
    OBVIOUS
  <2> QED  BY <1>1, <2>1, ReplySized
<1>4. s = "responder" => RequestRead(d)
  <2>1. SUFFICES ASSUME s = "responder"  PROVE RequestRead(d)
    OBVIOUS
  <2> QED  BY <1>1, <2>1, RequestSized
<1>5. AtSide(c, d, s)
  BY SizeAtSide
<1>6. d.count = c.count
  BY DEF SizeRead
<1> QED  BY <1>2, <1>3, <1>4, <1>5, <1>6, CodecGoing

(* How much of what is there a body takes. *)
LEMMA TakenMost ==
    ASSUME NEW c \in CallType, NEW s \in Sides, BodyHere(c, s)
    PROVE  Taken(c, s) \in 0 .. Len(c.in[s])
<1>1. c.size[s] \in Nat /\ c.in[s] \in Seq(PartType)
  BY Fields
<1>2. PICK n \in Nat, z \in Nat : n = Len(c.in[s]) /\ z = c.size[s]
  BY <1>1, LenProperties
<1>3. CASE Go(s)
  <2>1. ~(setting.impl[s] = "rpc" /\ c.size[s] = 0)
    BY <1>3 DEF Go
  <2>2. c.size[s] > Len(c.in[s]) => Taken(c, s) = Len(c.in[s])
    BY <1>3, <2>1 DEF Taken
  <2>3. ~(c.size[s] > Len(c.in[s])) => Taken(c, s) = c.size[s]
    BY <2>1 DEF Taken
  <2> QED  BY <1>2, <2>2, <2>3
<1>4. CASE ~Go(s)
  <2>1. Taken(c, s) = n \/ Taken(c, s) = z
    BY <1>2, <1>4 DEF Taken, Go
  <2>2. Taken(c, s) <= n
    BY <1>2, <1>4 DEF BodyHere
  <2> QED  BY <1>2, <2>1, <2>2
<1> QED  BY <1>3, <1>4

(* and then a body, *)
LEMMA BodyGoes ==
    ASSUME NEW c \in CallType, NEW d \in CallType, Impls, CallInv(c), NEW s \in Sides,
           c.phase[s] = "body", BodyHere(c, s), NEW v \in ValueType,
           v \in Decodings(s, SubSeq(c.in[s], 1, Taken(c, s)), c.size[s]),
           NEW values, NEW phase \in {"size", "stopped"},
           IF v.kind = "throws" /\ ~Go(s) THEN values = c.values[s] /\ phase = "stopped"
           ELSE /\ values = Append(c.values[s], v)
                /\ phase = IF ~Go(s) /\ c.count[s] + 1 = ReadLimit(s) THEN "stopped" ELSE "size",
           CallerSame(c, d), ServerSame(c, d), BodyRead(c, d, s, Taken(c, s), values, phase)
    PROVE  Going(c, d)
<1>1. ReplyCarried(c) /\ RequestRead(c) /\ Asking(c) /\ Noted(c)
  BY PartsOfInv
<1>2. Go(s) \/ ~c.gone[s]
  BY DEF BodyHere
<1>3. s = "caller" => ReplyCarried(d)
  <2>1. SUFFICES ASSUME s = "caller"  PROVE ReplyCarried(d)
    OBVIOUS
  <2>2. BodyIn(c, v)
    BY <2>1, TakenMost DEF BodyIn
  <2>3. ReadLimit("caller") = 2
    BY DEF ReadLimit
  <2>4. AfterBody(c, v, values, phase)
    BY <2>1, <2>3 DEF AfterBody
  <2>5. BodyRead(c, d, "caller", Taken(c, "caller"), values, phase)
    BY <2>1
  <2> QED  BY <1>1, <2>2, <2>4, <2>5, ReplyBody
<1>4. s = "responder" => RequestRead(d)
  <2>1. SUFFICES ASSUME s = "responder"  PROVE RequestRead(d)
    OBVIOUS
  <2>2. CASE Go("responder")
    <3>1. BodyRead(c, d, "responder", Taken(c, "responder"), Append(c.values["responder"], v), phase)
      BY <2>1, <2>2
    <3>2. c.phase["responder"] = "body" /\ BodyHere(c, "responder")
          /\ v \in Decodings("responder",
                      SubSeq(c.in["responder"], 1, Taken(c, "responder")), c.size["responder"])
      BY <2>1
    <3> QED  BY <1>1, <3>1, <3>2, RequestBody
  <2>3. CASE ~Go("responder")
    BY <2>3, RequestOver
  <2> QED  BY <2>2, <2>3
<1>5. AtSide(c, d, s)
  BY BodyAtSide
<1>6. c.phase[s] # "none"
  OBVIOUS
<1>7. TookEmpty(c) => d.count["caller"] = c.count["caller"]
  <2>1. CASE s = "caller"
    <3>1. c.count["caller"] # 2
      <4>1. c.count["caller"] \in {0, 1}
        BY <1>1, <2>1, MoreToRead DEF ReplyCarried
      <4> QED  BY <4>1
    <3> QED  BY <3>1 DEF TookEmpty
  <2>2. CASE s # "caller"
    BY <1>5, <2>2, TheSides DEF AtSide
  <2> QED  BY <2>1, <2>2
<1> QED  BY <1>2, <1>3, <1>4, <1>5, <1>6, <1>7, CodecGoing

(* or meets the end. *)
LEMMA EndGoes ==
    ASSUME NEW c \in CallType, NEW d \in CallType, Impls, CallInv(c), NEW s \in Sides,
           c.gone[s], c.phase[s] \in {"size", "body"},
           Go(s) => /\ Decodes(c, s) /\ c.in[s] = <<>>
                    /\ ~(c.phase[s] = "body" /\ c.size[s] = 0),
           CallerSame(c, d), ServerSame(c, d),
           EndRead(c, d, s, IF Go(s) THEN <<Plain("EOF")>> ELSE c.values[s],
                   IF Go(s) THEN "size" ELSE "stopped")
    PROVE  Going(c, d)
<1>1. ReplyCarried(c) /\ RequestRead(c) /\ Asking(c)
  BY PartsOfInv
<1>2. s = "caller" => ReplyCarried(d)
  <2>1. SUFFICES ASSUME s = "caller"  PROVE ReplyCarried(d)
    OBVIOUS
  <2>2. EndRead(c, d, "caller", IF Go("caller") THEN <<Plain("EOF")>> ELSE c.values["caller"],
                IF Go("caller") THEN "size" ELSE "stopped")
    BY <2>1
  <2>3. /\ c.gone["caller"] /\ c.phase["caller"] \in {"size", "body"}
        /\ (Go("caller") => /\ Decodes(c, "caller") /\ c.in["caller"] = <<>>
                            /\ ~(c.phase["caller"] = "body" /\ c.size["caller"] = 0))
    BY <2>1
  <2> QED  BY <1>1, <2>2, <2>3, ReplyEnded
<1>3. s = "responder" => RequestRead(d)
  <2>1. SUFFICES ASSUME s = "responder"  PROVE RequestRead(d)
    OBVIOUS
  <2>2. CASE Go("responder")
    <3>1. EndRead(c, d, "responder", <<Plain("EOF")>>, "size")
      BY <2>1, <2>2
    <3>2. c.gone["responder"] /\ c.phase["responder"] \in {"size", "body"}
      BY <2>1
    <3> QED  BY <1>1, <3>1, <3>2, RequestEnded
  <2>3. CASE ~Go("responder")
    BY <2>3, RequestOver
  <2> QED  BY <2>2, <2>3
<1>4. AtSide(c, d, s)
  BY EndAtSide
<1>5. d.in = c.in /\ d.count = c.count
  BY DEF EndRead
<1> QED  BY <1>2, <1>3, <1>4, <1>5, CodecGoing

-----------------------------------------------------------------------------
(* A call is made, its channel opened and accepted *)

LEMMA FreshParts ==
    ASSUME NEW c \in CallType, CallInv(c), c.stage \in {"idle", "opening", "hanging"}
    PROVE  /\ c.todo = <<>> /\ c.responder = "none" /\ c.listed = {} /\ c.got = <<>>
           /\ ~c.error /\ ~c.hijacked /\ c.reply = "none"
           /\ c.replies = <<>> /\ c.ran = "none" /\ c.raw = 0 /\ Unanswered(c)
           /\ \A s \in Sides :
                /\ c.out[s] = <<>> /\ c.in[s] = <<>> /\ c.values[s] = <<>>
                /\ c.phase[s] = "none" /\ c.count[s] = 0
                /\ ~c.late[s] /\ ~c.finishing[s]
                /\ (c.gone[s] \/ c.sentClose[s] => ended[s] /\ ~Mock)
<1>1. Fresh(c) /\ Asking(c) /\ Serving(c)
  BY PartsOfInv
<1>2. /\ c.todo = <<>> /\ c.responder = "none" /\ c.listed = {} /\ c.got = <<>>
      /\ \A s \in Sides :
                /\ c.out[s] = <<>> /\ c.in[s] = <<>> /\ c.values[s] = <<>>
                /\ c.phase[s] = "none" /\ c.count[s] = 0
                /\ ~c.late[s] /\ ~c.finishing[s]
                /\ (c.gone[s] \/ c.sentClose[s] => ended[s] /\ ~Mock)
  BY <1>1 DEF Fresh
<1>3. ~c.error /\ ~c.hijacked /\ c.reply = "none"
  BY <1>1 DEF Asking
<1>4. c.replies = <<>> /\ c.ran = "none" /\ c.raw = 0
  BY <1>1, <1>2 DEF Serving
<1> QED  BY <1>2, <1>3, <1>4 DEF Unanswered

(* Nothing is noted of one that has no answer. *)
LEMMA NothingNoted ==
    ASSUME NEW d, d.got = <<>>, ~d.hijacked,
           d.stage \in {"idle", "opening", "hanging", "writing", "header", "failed"}
    PROVE  Noted(d)
<1>1. Len(d.got) = 0
  OBVIOUS
<1>2. \A n \in 1 .. Len(d.got) : d.got[n] = RawPart(n)
  BY <1>1
<1> QED  BY <1>2 DEF Noted

(* It waits for its channel, or for nothing if there is none. *)
LEMMA OpenGoes ==
    ASSUME NEW c \in CallType, NEW d \in CallType, Impls, CallInv(c), NEW stage,
           Notes(c, d, stage), ChannelKept(c, d), d.listed = c.listed,
           \/ c.stage = "idle" /\ stage \in {"opening", "hanging"}
           \/ c.stage = "opening" /\ stage = "failed" /\ ended["caller"]
    PROVE  Keeps(c, d)
<1>1. /\ Closing(c) /\ RequestRead(c) /\ Serving(c) /\ ToWrite(c) /\ Asking(c)
  BY PartsOfInv
<1>2. /\ c.todo = <<>> /\ c.responder = "none" /\ c.listed = {} /\ c.got = <<>>
      /\ ~c.error /\ ~c.hijacked /\ c.reply = "none"
      /\ c.replies = <<>> /\ c.ran = "none" /\ Unanswered(c)
      /\ \A s \in Sides :
            /\ c.out[s] = <<>> /\ c.in[s] = <<>> /\ c.values[s] = <<>>
            /\ c.phase[s] = "none" /\ c.count[s] = 0
            /\ ~c.late[s] /\ ~c.finishing[s]
            /\ (c.gone[s] \/ c.sentClose[s] => ended[s] /\ ~Mock)
  BY FreshParts
<1>3. /\ d.stage = stage /\ d.todo = c.todo /\ d.error = c.error /\ d.hijacked = c.hijacked
      /\ d.reply = c.reply /\ d.got = c.got /\ ServerSame(c, d) /\ CodecSame(c, d)
  BY DEF Notes
<1>4. /\ d.out = c.out /\ d.late = c.late /\ d.in = c.in
      /\ d.sentClose = c.sentClose /\ d.finishing = c.finishing /\ d.gone = c.gone
  BY DEF ChannelKept, ChannelSame
<1>5. FlagsUp(c, d)
  BY <1>4 DEF FlagsUp
<1>6. Fresh(d)
  BY <1>2, <1>3, <1>4 DEF Fresh, ServerSame, CodecSame
<1>7. Asking(d)
  BY <1>1, <1>2, <1>3 DEF Asking
<1>8. Serving(d) /\ ToWrite(d)
  BY <1>1, <1>3, <1>5, ServerStays
<1>9. Closing(d)
  BY <1>1, <1>3, CallerStill
<1>10. RequestRead(d)
  BY <1>1, <1>3, <1>4, <1>5, RequestStays DEF ServerSame, CodecSame
<1>11. ReplyCarried(d)
  <2>1. Unanswered(d) /\ d.replies = <<>>
    BY <1>2, <1>3 DEF ServerSame, Unanswered
  <2>2. /\ d.in["caller"] = <<>> /\ d.out["responder"] = <<>> /\ d.values["caller"] = <<>>
        /\ d.count["caller"] = 0 /\ d.phase["caller"] = "none"
    BY <1>2, <1>3, <1>4, TheSides DEF CodecSame
  <2>3. d.gone["caller"] \/ d.finishing["caller"] => ended["caller"]
    BY <1>2, <1>4, TheSides
  <2>4. d.stage \in {"idle", "opening", "hanging", "writing", "header", "failed"}
    BY <1>3
  <2> QED  BY <1>2, <1>3, <2>1, <2>2, <2>3, <2>4, ReplyFresh
<1>12. Noted(d)
  BY <1>2, <1>3, NothingNoted
<1>13. FailsBecause(d)
  BY <1>3 DEF FailsBecause
<1>14. CallInv(d)
  BY <1>6, <1>7, <1>8, <1>9, <1>10, <1>11, <1>12, <1>13, InvOfParts
<1> QED  BY <1>2, <1>3, <1>4, <1>14 DEF Keeps, ServerSame

LEMMA QuietOnward ==
    ASSUME NEW c, NEW d, d.ran = c.ran, Unanswered(c), Leaving(c) => Leaving(d),
           HasClosed(c, "caller") => HasClosed(d, "caller")
    PROVE  Onward(c, d)
<1>1. ~Finished(c) /\ ~Doubled(c)
  BY DEF Unanswered, Finished, Doubled, Returned
<1>2. ~HasClosed(c, "responder")
  BY <1>1 DEF HasClosed
<1> QED  BY <1>1, <1>2, TheSides DEF Onward

(* The channel is open: the request can be written. *)
LEMMA BeginGoes ==
    ASSUME NEW c \in CallType, NEW d \in CallType, Impls, CallInv(c), c.stage = "opening",
           NEW i, setting.given[i] \in BOOLEAN, Begun(c, d, Request(i)), Starts(c, d)
    PROVE  Going(c, d)
<1>1. /\ Closing(c) /\ Fresh(c)
  BY PartsOfInv
<1>2. /\ c.responder = "none" /\ c.got = <<>>
      /\ ~c.error /\ ~c.hijacked /\ c.reply = "none"
      /\ c.replies = <<>> /\ c.ran = "none" /\ c.raw = 0 /\ Unanswered(c)
      /\ \A s \in Sides :
            /\ c.out[s] = <<>> /\ c.in[s] = <<>> /\ c.values[s] = <<>>
            /\ c.phase[s] = "none" /\ c.count[s] = 0
            /\ ~c.late[s] /\ ~c.finishing[s]
            /\ (c.gone[s] \/ c.sentClose[s] => ended[s] /\ ~Mock)
  BY FreshParts
<1>3. /\ d.stage = "writing" /\ d.todo = Request(i) /\ d.error = c.error
      /\ d.hijacked = c.hijacked /\ d.reply = c.reply /\ d.got = c.got
      /\ d.ran = c.ran /\ d.replies = c.replies /\ d.raw = c.raw
      /\ d.size = c.size /\ d.count = c.count /\ d.values = c.values
      /\ ChannelKept(c, d)
  BY DEF Begun
<1>4. /\ d.out = c.out /\ d.late = c.late /\ d.in = c.in
      /\ d.sentClose = c.sentClose /\ d.finishing = c.finishing /\ d.gone = c.gone
  BY <1>3 DEF ChannelKept, ChannelSame
<1>5. /\ d.phase["caller"] = "size"
      /\ (Go("responder") => d.phase["responder"] = c.phase["responder"])
      /\ d.responder \in {"incoming", "frame"}
  BY TheSides, GoOrNot DEF Starts
<1>6. Fresh(d) /\ FailsBecause(d)
  BY <1>3 DEF Fresh, FailsBecause
<1>7. Asking(d)
  <2>1. d.todo # <<>> /\ ~Closes(d.todo)
    BY <1>3, RequestIs
  <2> QED  BY <1>2, <1>3, <2>1 DEF Asking
<1>8. Unanswered(d) /\ Returns(d.ran) = 1
  BY <1>2, <1>3, <1>5 DEF Unanswered, Returns
<1>9. Serving(d)
  <2>1. Len(d.replies) = 0
    BY <1>2, <1>3
  <2>2. ~Returned(d) /\ d.responder \notin {"hijacking", "hijacked", "done", "args"}
    BY <1>5 DEF Returned
  <2> QED  BY <1>2, <1>3, <1>8, <2>1, <2>2 DEF Serving
<1>10. ToWrite(d)
  BY <1>2, <1>3 DEF ToWrite
<1>11. Closing(d)
  <2>1. ~Leaving(c) /\ ~HasClosed(c, "caller")
    BY DEF Leaving, HasClosed
  <2>2. Onward(c, d)
    BY <1>2, <1>3, <2>1, QuietOnward
  <2>3. EmptyIn(d)
    BY <1>1, <1>4, GoneEmpty
  <2>4. ChannelSame(c, d)
    BY <1>3 DEF ChannelKept
  <2> QED  BY <1>1, <2>2, <2>3, <2>4, StillClosing
<1>12. RequestRead(d)
  BY <1>1, <1>5, RequestBegun
<1>13. ReplyCarried(d)
  <2>1. /\ d.in["caller"] = <<>> /\ d.out["responder"] = <<>> /\ d.values["caller"] = <<>>
        /\ d.count["caller"] = 0
    BY <1>2, <1>3, <1>4, TheSides
  <2>2. d.gone["caller"] \/ d.finishing["caller"] => ended["caller"]
    BY <1>2, <1>4, TheSides
  <2>3. d.replies = <<>> /\ ~d.hijacked /\ d.reply = "none"
    BY <1>2, <1>3
  <2> QED  BY <1>3, <1>5, <1>8, <2>1, <2>2, <2>3, ReplyFresh
<1>14. Noted(d)
  BY <1>2, <1>3, NothingNoted
<1>15. CallInv(d)
  BY <1>6, <1>7, <1>9, <1>10, <1>11, <1>12, <1>13, <1>14, InvOfParts
<1> QED  BY <1>2, <1>3, <1>4, <1>15 DEF Keeps, Going

(* The server accepts it. *)
LEMMA AcceptGoes ==
    ASSUME NEW c \in CallType, NEW d \in CallType, Impls, CallInv(c), c.responder = "incoming",
           CallerSame(c, d), ChannelKept(c, d), d.responder = "frame",
           d.ran = c.ran, d.replies = c.replies, d.raw = c.raw,
           d.phase = [c.phase EXCEPT !["responder"] = "size"],
           d.size = c.size, d.count = c.count, d.values = c.values
    PROVE  CallInv(d) /\ c.stage # "idle" /\ d.late = c.late
<1>1. /\ Closing(c) /\ RequestRead(c) /\ Serving(c) /\ ReplyCarried(c) /\ Asking(c)
      /\ Noted(c) /\ FailsBecause(c) /\ Fresh(c)
  BY PartsOfInv
<1>2. d.stage = c.stage /\ c.stage \notin {"idle", "opening", "hanging"}
  BY <1>1 DEF Fresh, CallerSame
<1>3. d.phase["responder"] = "size" /\ d.phase["caller"] = c.phase["caller"]
  <2>1. c.phase \in [Sides -> {"none", "size", "body", "stopped"}]
    BY Fields
  <2> QED  BY <2>1, TheSides
<1>4. FlagsUp(c, d)
  BY DEF FlagsUp, ChannelKept, ChannelSame
<1>5. Unanswered(c) /\ Unanswered(d) /\ ~Returned(c) /\ ~Returned(d)
  BY DEF Unanswered, Returned
<1>6. Fresh(d)
  BY <1>2 DEF Fresh
<1>7. Asking(d)
  BY <1>1, CallerStays
<1>8. Serving(d) /\ ToWrite(d)
  <2>1. d.ran = "none" /\ d.raw = 0 /\ d.replies = <<>>
    BY <1>1 DEF Serving
  <2>2. Len(d.replies) = 0
    BY <2>1
  <2>3. Returns(d.ran) = 1
    BY <2>1 DEF Returns
  <2>4. Serving(d)
    BY <1>5, <2>1, <2>2, <2>3 DEF Serving
  <2> QED  BY <2>1, <2>4 DEF ToWrite
<1>9. Closing(d)
  <2>1. Onward(c, d)
    BY <1>2, <1>5, QuietOnward DEF Leaving, HasClosed
  <2>2. EmptyIn(d)
    BY <1>1, GoneEmpty DEF ChannelKept, ChannelSame
  <2>3. ChannelSame(c, d)
    BY DEF ChannelKept
  <2> QED  BY <1>1, <2>1, <2>2, <2>3, StillClosing
<1>10. RequestRead(d)
  BY <1>1, <1>3, RequestAccepted
<1>11. ReplyCarried(d)
  <2>1. ReplySame(c, d)
    BY <1>3, <1>5 DEF ReplySame, CallerSame, ChannelKept, ChannelSame
  <2> QED  BY <1>1, <1>2, <1>4, <2>1, ReplyStays DEF ChannelKept, ChannelSame
<1>12. Noted(d) /\ FailsBecause(d)
  <2>1. TookEmpty(c) => TookEmpty(d)
    BY <1>3, SameReplyParts
  <2> QED  BY <1>1, <1>3, <1>4, <2>1, NotesStay
<1>13. d.late = c.late
  BY DEF ChannelKept, ChannelSame
<1> QED  BY <1>2, <1>6, <1>7, <1>8, <1>9, <1>10, <1>11, <1>12, <1>13, InvOfParts

-----------------------------------------------------------------------------
(* A message comes for a channel that is gone, or a session ends *)

(* The message is dropped. *)
LEMMA PopGoes ==
    ASSUME NEW c \in CallType, NEW d \in CallType, Impls, CallInv(c), NEW s \in Sides,
           c.out[Other(s)] # <<>>, c.gone[s], ~ended[s],
           Others(c, d), Popped(c, d, s), d.in = c.in
    PROVE  Going(c, d)
<1>1. /\ CallerSame(c, d) /\ ServerSame(c, d) /\ CodecSame(c, d)
  BY DEF Others
<1>2. /\ ReplyCarried(c) /\ Closing(c) /\ RequestRead(c) /\ Fresh(c) /\ Serving(c)
      /\ \A t \in Sides : Shut(c, t)
  BY PartsOfInv
<1>3. PICK o \in Sides : o = Other(s) /\ o # s /\ Other(o) = s
  BY TheSides
<1>4. /\ d.out[o] = Tail(c.out[o]) /\ d.out[s] = c.out[s]
      /\ d.late = c.late /\ d.sentClose = c.sentClose /\ d.gone = c.gone
      /\ d.finishing = c.finishing
  <2>1. c.out \in [Sides -> Seq(MessageType)]
    BY Fields
  <2>2. d.out = [c.out EXCEPT ![o] = Tail(@)]
    BY <1>3 DEF Popped
  <2>3. d.out[o] = Tail(c.out[o]) /\ d.out[s] = c.out[s]
    BY <1>3, <2>1, <2>2
  <2> QED  BY <2>3 DEF Popped
<1>5. FlagsUp(c, d)
  BY <1>4 DEF FlagsUp
<1>6. c.stage \notin {"idle", "opening", "hanging"}
  BY <1>2, <1>3 DEF Fresh
<1>7. Closing(d)
  <2>1. EmptyIn(d)
    BY <1>2, <1>4, GoneEmpty
  <2> QED  BY <1>1, <1>2, <2>1, PopClosing
<1>8. CASE s = "caller"
  <2>1. o = "responder" /\ c.out["responder"] # <<>>
    BY <1>3, <1>8, TheSides
  <2>2. ReplyCarried(d)
    <3>1. Popped(c, d, "caller") /\ c.gone["caller"] /\ ~ended["caller"] /\ Shut(c, "caller")
      BY <1>2, <1>8
    <3> QED  BY <1>1, <1>2, <2>1, <3>1, ReplyDropped
  <2>3. RequestRead(d)
    BY <1>1, <1>2, <1>4, <1>5, <1>8, <2>1, RequestStays DEF CallerSame, ServerSame, CodecSame
  <2> QED  BY <1>1, <1>4, <1>5, <1>6, <1>7, <2>2, <2>3, StepGoing DEF CodecSame
<1>9. CASE s = "responder"
  <2>1. o = "caller" /\ c.out["caller"] # <<>>
    BY <1>3, <1>9, TheSides
  <2>2. RequestRead(d)
    <3>1. CASE Go("responder")
      <4>1. ~Mock /\ ~Qrpc
        BY <3>1, GoOrNot
      <4>2. ~Doubled(c)
        <5>1. Returns(c.ran) = 1
          BY <1>2, <4>1 DEF Serving
        <5> QED  BY <5>1 DEF Doubled
      <4>3. Heard(c, "responder")
        BY <1>2, <1>9, <4>1, <4>2 DEF Shut
      <4>4. c.sentClose["caller"] /\ ~Closes(c.out["caller"]) /\ c.late["caller"]
        BY <2>1, <4>3, TheSides DEF Heard
      <4>5. c.out["caller"] \in Seq(MessageType) /\ d.out["caller"] \in Seq(MessageType)
        BY Fields, TheSides
      <4>6. ~Closes(d.out["caller"])
        BY <1>4, <2>1, <4>4, <4>5, TailCloses
      <4> QED  BY <1>1, <1>2, <1>4, <1>5, <4>4, <4>5, <4>6, RequestHeard DEF ServerSame, CodecSame
    <3>2. CASE ~Go("responder")
      BY <3>2, RequestOver
    <3> QED  BY <3>1, <3>2
  <2>3. ReplySame(c, d)
    BY <1>1, <1>4, <1>9, <2>1 DEF ReplySame, CallerSame, ServerSame, CodecSame, Unanswered, Returned
  <2>4. ReplyCarried(d)
    BY <1>1, <1>2, <1>4, <1>5, <2>3, ReplyStays DEF CallerSame
  <2> QED  BY <1>1, <1>4, <1>5, <1>6, <1>7, <2>2, <2>4, StepGoing DEF CodecSame
<1> QED  BY <1>8, <1>9, TheSides

(* What is known of a call but how its channel is closing. *)
Known(c) ==
    /\ RequestRead(c) /\ ReplyCarried(c) /\ Noted(c) /\ FailsBecause(c) /\ ToWrite(c)
    /\ Asking(c) /\ Serving(c)

(* A channel that is shut down with its session leaves that as it is, *)
ShutLeaves ==
    \A c, d \in CallType : \A s \in Sides :
        Impls /\ Known(c) /\ Others(c, d) /\ WasShut(c, d, s) /\ ended[s] => Known(d)

LEMMA ShutKnown == ShutLeaves
<1> SUFFICES ASSUME NEW c \in CallType, NEW d \in CallType, NEW s \in Sides,
                    Impls, Known(c), Others(c, d), WasShut(c, d, s), ended[s]
             PROVE  Known(d)
  BY DEF ShutLeaves
<1>1. /\ CallerSame(c, d) /\ ServerSame(c, d) /\ CodecSame(c, d)
  BY DEF Others
<1>2. /\ ReplyCarried(c) /\ RequestRead(c) /\ Noted(c) /\ FailsBecause(c) /\ ToWrite(c)
      /\ Asking(c) /\ Serving(c)
  BY DEF Known
<1>3. PICK o \in Sides : o = Other(s) /\ o # s /\ Other(o) = s
  BY TheSides
<1>4. /\ d.out = c.out /\ d.late = c.late /\ d.gone[o] = c.gone[o]
      /\ d.finishing[o] = c.finishing[o] /\ d.in[o] = c.in[o]
      /\ (Go(s) => d.in[s] = c.in[s]) /\ FlagsUp(c, d)
  <2>1. /\ c.in \in [Sides -> Seq(PartType)] /\ c.gone \in [Sides -> BOOLEAN]
        /\ c.finishing \in [Sides -> BOOLEAN] /\ c.sentClose \in [Sides -> BOOLEAN]
    BY Fields
  <2>2. /\ d.out = c.out /\ d.late = c.late
        /\ d.gone = [c.gone EXCEPT ![s] = TRUE]
        /\ d.finishing = [c.finishing EXCEPT ![s] = FALSE]
        /\ d.sentClose = [c.sentClose EXCEPT ![s] = @ \/ Go(s)]
        /\ d.in = [c.in EXCEPT ![s] = IF Go(s) THEN @ ELSE <<>>]
    BY DEF WasShut
  <2>3. d.in[o] = c.in[o] /\ (Go(s) => d.in[s] = c.in[s])
    BY <1>3, <2>1, <2>2
  <2>4. d.gone[o] = c.gone[o] /\ d.finishing[o] = c.finishing[o]
    BY <1>3, <2>1, <2>2
  <2>5. \A t \in Sides : (c.sentClose[t] => d.sentClose[t]) /\ (c.gone[t] => d.gone[t])
    BY <2>1, <2>2
  <2> QED  BY <2>2, <2>3, <2>4, <2>5 DEF FlagsUp
<1>5. Asking(d) /\ Serving(d) /\ ToWrite(d)
  BY <1>1, <1>2, <1>4, CallerStays, ServerStays
<1>6. Noted(d) /\ FailsBecause(d)
  <2>1. d.ran = c.ran /\ d.count = c.count
    BY <1>1, <1>2 DEF ServerSame, CodecSame
  <2>2. TookEmpty(c) => TookEmpty(d)
    BY <2>1, SameReplyParts
  <2> QED  BY <1>1, <1>2, <1>4, <2>1, <2>2, NotesStay
<1>7. RequestRead(d)
  <2>1. CASE Go("responder")
    <3>1. d.in["responder"] = c.in["responder"]
      BY <1>3, <1>4, <2>1, TheSides
    <3> QED  BY <1>1, <1>2, <1>4, <3>1, RequestStays DEF CallerSame, ServerSame, CodecSame
  <2>2. CASE ~Go("responder")
    BY <2>2, RequestOver
  <2> QED  BY <2>1, <2>2
<1>8. ReplyCarried(d)
  <2>1. CASE s = "caller"
    BY <1>1, <1>2, <2>1, ReplyShut
  <2>2. CASE s = "responder"
    <3>1. /\ d.gone["caller"] = c.gone["caller"] /\ d.finishing["caller"] = c.finishing["caller"]
          /\ d.in["caller"] = c.in["caller"]
      BY <1>3, <1>4, <2>2, TheSides
    <3>2. ReplySame(c, d)
      BY <1>1, <1>4, <3>1 DEF ReplySame, CallerSame, ServerSame, CodecSame, Unanswered, Returned
    <3> QED  BY <1>1, <1>2, <1>4, <3>1, <3>2, ReplyStays DEF CallerSame
  <2> QED  BY <2>1, <2>2, TheSides
<1> QED  BY <1>5, <1>6, <1>7, <1>8 DEF Known

(* What MockSession.close does to the channels in the list of a session. *)
MockShut(c, d) ==
    /\ Others(c, d) /\ d.out = c.out /\ d.late = c.late /\ d.sentClose = c.sentClose
    /\ d.finishing = c.finishing
    /\ \A t \in Sides : IF t \in c.listed THEN d.gone[t] /\ d.in[t] = <<>>
                        ELSE d.gone[t] = c.gone[t] /\ d.in[t] = c.in[t]

(* and so does one of a MockSession. *)
MockLeaves ==
    \A c, d \in CallType : Impls /\ Mock /\ Known(c) /\ MockShut(c, d) => Known(d)

LEMMA MockKnown == MockLeaves
<1> SUFFICES ASSUME NEW c \in CallType, NEW d \in CallType, Impls, Mock, Known(c), MockShut(c, d)
             PROVE  Known(d)
  BY DEF MockLeaves
<1>1. /\ CallerSame(c, d) /\ ServerSame(c, d) /\ CodecSame(c, d)
  BY DEF Others, MockShut
<1>2. /\ ReplyCarried(c) /\ RequestRead(c) /\ Noted(c) /\ FailsBecause(c) /\ ToWrite(c)
      /\ Asking(c) /\ Serving(c)
  BY DEF Known
<1>3. /\ d.out = c.out /\ d.late = c.late /\ d.sentClose = c.sentClose
      /\ d.finishing = c.finishing
  BY DEF MockShut
<1>4. FlagsUp(c, d)
  BY DEF FlagsUp, MockShut
<1>5. Asking(d) /\ Serving(d) /\ ToWrite(d)
  BY <1>1, <1>2, <1>4, CallerStays, ServerStays
<1>6. Noted(d) /\ FailsBecause(d)
  <2>1. d.ran = c.ran /\ d.count = c.count
    BY <1>1, <1>2 DEF ServerSame, CodecSame
  <2>2. TookEmpty(c) => TookEmpty(d)
    BY <2>1, SameReplyParts
  <2> QED  BY <1>1, <1>2, <1>4, <2>1, <2>2, NotesStay
<1>7. RequestRead(d)
  BY GoOrNot, RequestOver
<1>8. ReplyCarried(d)
  <2>1. CASE "caller" \in c.listed
    <3>1. d.gone["caller"] /\ d.in["caller"] = <<>> /\ ~Go("caller")
      BY <2>1, TheSides, GoOrNot DEF MockShut
    <3>2. ReplyKept(c, d)
      BY <1>1, SameKept
    <3>3. NoneNew(c.out["responder"], d.out["responder"])
      BY <1>3, Fields, TheSides, TailNew
    <3> QED  BY <1>2, <1>4, <3>1, <3>2, <3>3, ReplyGone
  <2>2. CASE "caller" \notin c.listed
    <3>1. d.gone["caller"] = c.gone["caller"] /\ d.in["caller"] = c.in["caller"]
      BY <2>2, TheSides DEF MockShut
    <3>2. ReplySame(c, d)
      BY <1>1, <1>3, <3>1 DEF ReplySame, CallerSame, ServerSame, CodecSame, Unanswered, Returned
    <3> QED  BY <1>1, <1>2, <1>3, <1>4, <3>1, <3>2, ReplyStays DEF CallerSame
  <2> QED  BY <2>1, <2>2
<1> QED  BY <1>5, <1>6, <1>7, <1>8 DEF Known

(* The session of a side ends. *)
LEMMA EndInv ==
    ASSUME NEW c \in CallType, NEW d \in CallType, Impls, CallInv(c), NEW s \in Sides,
           setting' = setting, ended \in [Sides -> BOOLEAN], ended' = [ended EXCEPT ![s] = TRUE],
           ~Mock, Others(c, d), d.listed = c.listed, WasShut(c, d, s)
    PROVE  CallInv(d)'
<1>1. /\ CallerSame(c, d) /\ ServerSame(c, d) /\ CodecSame(c, d)
  BY DEF Others
<1>2. /\ ReplyCarried(c) /\ Closing(c) /\ RequestRead(c) /\ Noted(c) /\ FailsBecause(c)
      /\ ToWrite(c) /\ Asking(c) /\ Serving(c) /\ Fresh(c)
  BY PartsOfInv
<1>3. (\A t \in Sides : ended[t] => ended'[t]) /\ ended'[s]
  OBVIOUS
<1>4. Known(c)'
  BY <1>2, <1>3, EndedUp DEF Known
<1>5. Impls' /\ (Mock <=> Mock') /\ (\A t \in Sides : Go(t) <=> Go(t)')
  BY DEF Impls, Mock, Qrpc, Go
<1>6. Known(d)'
  <2>1. ShutLeaves'
    BY ShutKnown, PTL
  <2>2. Others(c, d)'
    BY DEF Others, CallerSame, ServerSame, CodecSame
  <2>3. WasShut(c, d, s)'
    BY <1>5 DEF WasShut
  <2> QED  BY <1>3, <1>4, <1>5, <2>1, <2>2, <2>3 DEF ShutLeaves
<1>7. Closing(d)'
  BY <1>1, <1>2, EndClosing
<1>8. Fresh(d)'
  <2>1. /\ d.stage = c.stage /\ d.todo = c.todo /\ d.got = c.got /\ d.responder = c.responder
        /\ d.phase = c.phase /\ d.count = c.count /\ d.values = c.values
        /\ d.out = c.out /\ d.late = c.late
    BY <1>1 DEF CallerSame, ServerSame, CodecSame, WasShut
  <2>2. \A t \in Sides :
          /\ d.in[t] = c.in[t] \/ d.in[t] = <<>>
          /\ d.finishing[t] => c.finishing[t]
          /\ d.gone[t] => c.gone[t] \/ t = s
          /\ d.sentClose[t] => c.sentClose[t] \/ t = s
    <3>1. /\ c.in \in [Sides -> Seq(PartType)] /\ c.gone \in [Sides -> BOOLEAN]
          /\ c.finishing \in [Sides -> BOOLEAN] /\ c.sentClose \in [Sides -> BOOLEAN]
      BY Fields
    <3>2. /\ d.gone = [c.gone EXCEPT ![s] = TRUE]
          /\ d.finishing = [c.finishing EXCEPT ![s] = FALSE]
          /\ d.sentClose = [c.sentClose EXCEPT ![s] = @ \/ Go(s)]
          /\ d.in = [c.in EXCEPT ![s] = IF Go(s) THEN @ ELSE <<>>]
      BY DEF WasShut
    <3>3. \A t \in Sides : d.in[t] = c.in[t] \/ d.in[t] = <<>>
      BY <3>1, <3>2
    <3>4. \A t \in Sides :
            /\ d.finishing[t] => c.finishing[t]
            /\ d.gone[t] => c.gone[t] \/ t = s
            /\ d.sentClose[t] => c.sentClose[t] \/ t = s
      BY <3>1, <3>2
    <3> QED  BY <3>3, <3>4
  <2>3. SUFFICES ASSUME d.stage \in {"idle", "opening", "hanging"}
                 PROVE  /\ d.todo = <<>> /\ d.responder = "none" /\ d.listed = {} /\ d.got = <<>>
                        /\ \A t \in Sides :
                            /\ d.out[t] = <<>> /\ d.in[t] = <<>> /\ d.values[t] = <<>>
                            /\ d.phase[t] = "none" /\ d.count[t] = 0
                            /\ ~d.late[t] /\ ~d.finishing[t]
                            /\ (d.gone[t] \/ d.sentClose[t] => ended'[t] /\ ~Mock')
    BY DEF Fresh
  <2>4. /\ c.todo = <<>> /\ c.responder = "none" /\ c.listed = {} /\ c.got = <<>>
        /\ \A t \in Sides :
            /\ c.out[t] = <<>> /\ c.in[t] = <<>> /\ c.values[t] = <<>>
            /\ c.phase[t] = "none" /\ c.count[t] = 0
            /\ ~c.late[t] /\ ~c.finishing[t]
            /\ (c.gone[t] \/ c.sentClose[t] => ended[t] /\ ~Mock)
    BY <1>2, <2>1, <2>3 DEF Fresh
  <2> QED  BY <1>3, <1>5, <2>1, <2>2, <2>4
<1> QED  BY <1>6, <1>7, <1>8 DEF CallInv, Carried, Known, ReplyCarried

(* A MockSession and its pair end. *)
LEMMA MockEndInv ==
    ASSUME NEW c \in CallType, NEW d \in CallType, Impls, CallInv(c), Mock,
           setting' = setting, ended \in [Sides -> BOOLEAN], ended' = [t \in Sides |-> TRUE],
           MockShut(c, d)
    PROVE  CallInv(d)'
<1>1. /\ CallerSame(c, d) /\ ServerSame(c, d) /\ CodecSame(c, d) /\ d.listed = c.listed
  BY DEF Others, MockShut
<1>2. /\ ReplyCarried(c) /\ Closing(c) /\ RequestRead(c) /\ Noted(c) /\ FailsBecause(c)
      /\ ToWrite(c) /\ Asking(c) /\ Serving(c) /\ Fresh(c) /\ (\A t \in Sides : Shut(c, t))
  BY PartsOfInv
<1>3. \A t \in Sides : ended[t] => ended'[t]
  OBVIOUS
<1>4. Known(c)'
  BY <1>2, <1>3, EndedUp DEF Known
<1>5. Impls' /\ (Mock <=> Mock')
  BY DEF Impls, Mock, Qrpc
<1>6. Known(d)'
  <2>1. MockLeaves'
    BY MockKnown, PTL
  <2>2. MockShut(c, d)'
    BY DEF MockShut, Others, CallerSame, ServerSame, CodecSame
  <2> QED  BY <1>4, <1>5, <2>1, <2>2 DEF MockLeaves
<1>7. \A t \in Sides : IF t \in c.listed THEN d.gone[t] /\ d.in[t] = <<>>
                       ELSE d.gone[t] = c.gone[t] /\ d.in[t] = c.in[t]
  BY DEF MockShut
<1>8. /\ d.out = c.out /\ d.late = c.late /\ d.sentClose = c.sentClose
      /\ d.finishing = c.finishing
  BY DEF MockShut
<1>9. Closing(d)'
  <2>1. EmptyIn(d)
    <3>1. \A t \in Sides : c.gone[t] /\ ~Go(t) => c.in[t] = <<>>
      BY <1>2 DEF Shut
    <3> QED  BY <1>7, <3>1 DEF EmptyIn
  <2>2. ended' \in [Sides -> BOOLEAN]
    OBVIOUS
  <2> QED  BY <1>1, <1>2, <1>8, <2>1, <2>2, MockEndClosing
<1>10. Fresh(d)'
  <2>1. /\ d.stage = c.stage /\ d.todo = c.todo /\ d.got = c.got /\ d.responder = c.responder
        /\ d.phase = c.phase /\ d.count = c.count /\ d.values = c.values
    BY <1>1 DEF CallerSame, ServerSame, CodecSame
  <2>2. SUFFICES ASSUME d.stage \in {"idle", "opening", "hanging"}
                 PROVE  /\ d.todo = <<>> /\ d.responder = "none" /\ d.listed = {} /\ d.got = <<>>
                        /\ \A t \in Sides :
                            /\ d.out[t] = <<>> /\ d.in[t] = <<>> /\ d.values[t] = <<>>
                            /\ d.phase[t] = "none" /\ d.count[t] = 0
                            /\ ~d.late[t] /\ ~d.finishing[t]
                            /\ (d.gone[t] \/ d.sentClose[t] => ended'[t] /\ ~Mock')
    BY DEF Fresh
  <2>3. /\ c.todo = <<>> /\ c.responder = "none" /\ c.listed = {} /\ c.got = <<>>
        /\ \A t \in Sides :
            /\ c.out[t] = <<>> /\ c.in[t] = <<>> /\ c.values[t] = <<>>
            /\ c.phase[t] = "none" /\ c.count[t] = 0
            /\ ~c.late[t] /\ ~c.finishing[t]
            /\ (c.gone[t] \/ c.sentClose[t] => ended[t] /\ ~Mock)
    BY <1>2, <2>1, <2>2 DEF Fresh
  <2> QED  BY <1>1, <1>7, <1>8, <2>1, <2>3
<1> QED  BY <1>6, <1>9, <1>10 DEF CallInv, Carried, Known, ReplyCarried

-----------------------------------------------------------------------------
(* The actions are such steps *)

(* One call takes a step. *)
Stepped(i, d) == Keeps(call[i], d) /\ (call[i].stage # "idle" \/ i \in DOMAIN setting.path)

Steps(i) == \E d : Only(i, d) /\ Stepped(i, d)

LEMMA GoingSteps ==
    ASSUME NEW i \in Calls, NEW c, c = call[i], NEW d, Only(i, d), Going(c, d)
    PROVE  Steps(i)
  BY DEF Steps, Stepped, Going

LEMMA KeptSelf ==
    ASSUME NEW c
    PROVE  ChannelKept(c, c) /\ CallerSame(c, c) /\ ServerSame(c, c) /\ CodecSame(c, c)
  BY DEF ChannelKept, ChannelSame, CallerSame, ServerSame, CodecSame

LEMMA ThisCall ==
    ASSUME Typed, NEW i \in Calls, CallInv(call[i])
    PROVE  \E c \in CallType : c = call[i] /\ CallInv(c) /\ Impls
  BY ImplsOfSetting DEF Typed

LEMMA CallSteps ==
    ASSUME Typed, NEW i \in Calls, CallInv(call[i]), Call(i)
    PROVE  Steps(i)
<1>1. PICK c \in CallType : c = call[i] /\ CallInv(c) /\ Impls
  BY ThisCall
<1>2. PICK stage \in {"opening", "hanging"} :
        stage = IF ended["caller"] /\ ~Mock /\ ~Go("caller") THEN "hanging" ELSE "opening"
  OBVIOUS
<1>3. /\ c.stage = "idle" /\ i \in DOMAIN setting.path
      /\ Only(i, [c EXCEPT !.stage = stage])
  BY <1>1, <1>2 DEF Call
<1>4. stage \in Stages
  BY DEF Stages
<1>5. PICK d : d = [c EXCEPT !.stage = stage]
  OBVIOUS
<1>6. /\ d \in CallType /\ Notes(c, d, stage) /\ ChannelKept(c, d) /\ d.listed = c.listed
  BY <1>4, <1>5, StageSet, StageDoes
<1>7. Keeps(c, d)
  BY <1>1, <1>3, <1>6, OpenGoes
<1>8. Only(i, d)
  BY <1>3, <1>5
<1> QED  BY <1>1, <1>3, <1>7, <1>8 DEF Steps, Stepped

LEMMA OpenFailsSteps ==
    ASSUME Typed, NEW i \in Calls, CallInv(call[i]), OpenFails(i)
    PROVE  Steps(i)
<1>1. PICK c \in CallType : c = call[i] /\ CallInv(c) /\ Impls
  BY ThisCall
<1>2. /\ c.stage = "opening" /\ ended["caller"] /\ Only(i, [c EXCEPT !.stage = "failed"])
  BY <1>1 DEF OpenFails
<1>3. "failed" \in Stages
  BY DEF Stages
<1>4. PICK d : d = [c EXCEPT !.stage = "failed"]
  OBVIOUS
<1>5. /\ d \in CallType /\ Notes(c, d, "failed") /\ ChannelKept(c, d) /\ d.listed = c.listed
  BY <1>3, <1>4, StageSet, StageDoes
<1>6. Keeps(c, d)
  BY <1>1, <1>2, <1>5, OpenGoes
<1>7. Only(i, d)
  BY <1>2, <1>4
<1> QED  BY <1>1, <1>2, <1>6, <1>7 DEF Steps, Stepped

(* A call that has a path has arguments or not. *)
LEMMA GivenOrNot ==
    ASSUME Typed, Made, NEW i \in Calls, call[i].stage # "idle"
    PROVE  setting.given[i] \in BOOLEAN
<1>1. IsSetting(setting)
  BY SettingsAssumption DEF Typed
<1>2. i \in DOMAIN setting.path
  BY DEF Made
<1> QED  BY <1>1, <1>2 DEF IsSetting

LEMMA MeetSteps ==
    ASSUME Typed, Made, NEW i \in Calls, CallInv(call[i]), Meet(i)
    PROVE  Steps(i)
<1>1. PICK c \in CallType : c = call[i] /\ CallInv(c) /\ Impls
  BY ThisCall
<1>2. /\ Mock /\ c.stage = "opening"
      /\ \E second \in Sides : Only(i, AsMet(c, Request(i), second))
  BY <1>1 DEF Meet, AsMet
<1>3. setting.given[i] \in BOOLEAN
  BY <1>1, <1>2, GivenOrNot
<1>4. PICK second \in Sides : Only(i, AsMet(c, Request(i), second))
  BY <1>2
<1>5. Request(i) \in Seq(MessageType)
  BY <1>1, <1>3, RequestIs
<1>6. PICK d : d = AsMet(c, Request(i), second)
  OBVIOUS
<1>7. d \in CallType /\ Begun(c, d, Request(i)) /\ Starts(c, d)
  BY <1>2, <1>5, <1>6, OpenedDoes
<1>8. Going(c, d)
  BY <1>1, <1>2, <1>3, <1>7, BeginGoes
<1> QED  BY <1>1, <1>4, <1>6, <1>8, GoingSteps

LEMMA FailsDoes ==
    ASSUME NEW e \in CallType, Impls
    PROVE  /\ Fails(e) \in CallType /\ Notes(e, Fails(e), "failed")
           /\ IF Go("caller") THEN DidClose(e, Fails(e), "caller") ELSE ChannelKept(e, Fails(e))
<1>1. "failed" \in Stages
  BY DEF Stages
<1>2. CASE Go("caller")
  <2>1. Fails(e) = [CloseChannel(e, "caller") EXCEPT !.stage = "failed"]
    BY <1>2 DEF Fails
  <2> QED  BY <1>1, <1>2, <2>1, ClosedSet
<1>3. CASE ~Go("caller")
  <2>1. Fails(e) = [e EXCEPT !.stage = "failed"]
    BY <1>3 DEF Fails
  <2> QED  BY <1>1, <1>3, <2>1, StageSet
<1> QED  BY <1>2, <1>3

LEMMA CallerWritesSteps ==
    ASSUME Typed, NEW i \in Calls, CallInv(call[i]), CallerWrites(i)
    PROVE  Steps(i)
<1>1. PICK c \in CallType : c = call[i] /\ CallInv(c) /\ Impls
  BY ThisCall
<1> DEFINE stage == IF Len(c.todo) = 1 THEN "header" ELSE "writing"
           f == Written(c, "caller", Head(c.todo))
<1>2. /\ c.stage = "writing"
      /\ Only(i, IF CannotWrite(c, "caller") THEN Fails(c) ELSE LessTodo(f, stage))
  BY <1>1 DEF CallerWrites, LessTodo
<1>3. c.todo # <<>> /\ Head(c.todo) \in MessageType
  <2>1. Asking(c) /\ c.todo \in Seq(MessageType)
    BY <1>1, PartsOfInv, Fields
  <2>2. c.todo # <<>>
    BY <1>2, <2>1 DEF Asking
  <2> QED  BY <2>1, <2>2, TailCloses
<1>4. stage \in Stages
  BY DEF Stages
<1> HIDE DEF f, stage
<1>5. CASE CannotWrite(c, "caller")
  <2>1. PICK d : d = Fails(c)
    OBVIOUS
  <2>2. /\ d \in CallType /\ Notes(c, d, "failed")
        /\ IF Go("caller") THEN DidClose(c, d, "caller") ELSE ChannelKept(c, d)
    BY <1>1, <2>1, FailsDoes
  <2>3. Going(c, d)
    BY <1>1, <1>2, <1>5, <2>2, WriteStops
  <2> QED  BY <1>1, <1>2, <1>5, <2>1, <2>3, GoingSteps
<1>6. CASE ~CannotWrite(c, "caller")
  <2>1. Others(c, f) /\ Wrote(c, f, "caller", Head(c.todo))
    BY <1>1, <1>3, TheSides, WrittenDoes DEF f
  <2>2. PICK d : d = LessTodo(f, stage)
    OBVIOUS
  <2>3. /\ d \in CallType /\ ServerSame(f, d) /\ CodecSame(f, d) /\ ChannelKept(f, d)
        /\ d.stage = stage /\ d.todo = Tail(f.todo) /\ d.error = f.error /\ d.got = f.got
        /\ d.hijacked = f.hijacked /\ d.reply = f.reply
    <3>1. f \in CallType /\ f.todo = c.todo
      BY <2>1 DEF Others, CallerSame
    <3> QED  BY <1>3, <1>4, <2>2, <3>1, TodoDoes
  <2>4. Wrote(c, d, "caller", Head(c.todo))
    BY <2>1, <2>3, KeptSelf, WroteThrough
  <2>5. /\ ServerSame(c, d) /\ CodecSame(c, d)
        /\ d.todo = Tail(c.todo) /\ d.error = c.error /\ d.got = c.got
        /\ d.hijacked = c.hijacked /\ d.reply = c.reply
    BY <2>1, <2>3 DEF Others, CallerSame, ServerSame, CodecSame
  <2>6. d.stage = IF Len(c.todo) = 1 THEN "header" ELSE "writing"
    BY <2>3 DEF stage
  <2>7. Going(c, d)
    BY <1>1, <1>2, <1>6, <2>3, <2>4, <2>5, <2>6, CallGoesOn
  <2> QED  BY <1>1, <1>2, <1>6, <2>2, <2>7, GoingSteps
<1> QED  BY <1>5, <1>6

LEMMA GotHeaderSteps ==
    ASSUME Typed, NEW i \in Calls, CallInv(call[i]), GotHeader(i)
    PROVE  Steps(i)
<1>1. PICK c \in CallType : c = call[i] /\ CallInv(c) /\ Impls
  BY ThisCall
<1>2. PICK h : h = Head(c.values["caller"])
  OBVIOUS
<1>3. PICK e : e = Noting(Decoded(c, "caller"), h.error, h.hijacked)
  OBVIOUS
<1>4. /\ c.stage = "header" /\ c.values["caller"] # <<>>
      /\ Only(i, CASE Go("caller") /\ Failed(h) -> Fails(e)
                   [] Go("caller") /\ ~Failed(h) /\ h.error ->
                        [CloseChannel(e, "caller") EXCEPT !.stage = "rejected"]
                   [] Qrpc /\ h.error -> [CloseChannel(e, "caller") EXCEPT !.stage = "rejecting"]
                   [] OTHER -> [e EXCEPT !.stage = "reply"])
  BY <1>1, <1>2, <1>3 DEF GotHeader, HasValue, Noting
<1>5. FirstValue(c, h) /\ c.stage = "header"
  BY <1>2, <1>4 DEF FirstValue
<1>6. /\ e \in CallType /\ Took(c, e) /\ e.error = h.error /\ e.hijacked = h.hijacked
      /\ e.reply = c.reply
  <2>1. PICK f : f = Decoded(c, "caller")
    OBVIOUS
  <2>2. /\ f \in CallType /\ CallerSame(c, f) /\ ServerSame(c, f) /\ ChannelKept(c, f)
        /\ OneDecoded(c, f, "caller") /\ h \in ValueType
    <3>1. /\ Decoded(c, "caller") \in CallType /\ CallerSame(c, Decoded(c, "caller"))
          /\ ServerSame(c, Decoded(c, "caller")) /\ ChannelKept(c, Decoded(c, "caller"))
          /\ OneDecoded(c, Decoded(c, "caller"), "caller")
          /\ Head(c.values["caller"]) \in ValueType
      BY <1>4, TheSides, DecodedDoes
    <3> QED  BY <1>2, <2>1, <3>1
  <2>3. h.error \in BOOLEAN /\ h.hijacked \in BOOLEAN
    BY <2>2 DEF ValueType
  <2>4. /\ e \in CallType /\ ServerSame(f, e) /\ CodecSame(f, e) /\ ChannelKept(f, e)
        /\ e.stage = f.stage /\ e.todo = f.todo /\ e.error = h.error /\ e.got = f.got
        /\ e.hijacked = h.hijacked /\ e.reply = f.reply
    <3>1. e = Noting(f, h.error, h.hijacked)
      BY <1>3, <2>1
    <3> QED  BY <2>2, <2>3, <3>1, NotedDoes
  <2> QED  BY <2>2, <2>4 DEF Took, CallerSame, ServerSame, CodecSame, ChannelKept, ChannelSame,
                             OneDecoded
<1>7. \A stage \in Stages :
        /\ [e EXCEPT !.stage = stage] \in CallType
        /\ Notes(e, [e EXCEPT !.stage = stage], stage)
        /\ ChannelKept(e, [e EXCEPT !.stage = stage])
        /\ [CloseChannel(e, "caller") EXCEPT !.stage = stage] \in CallType
        /\ Notes(e, [CloseChannel(e, "caller") EXCEPT !.stage = stage], stage)
        /\ DidClose(e, [CloseChannel(e, "caller") EXCEPT !.stage = stage], "caller")
  BY <1>1, <1>6, StageSet, ClosedSet
<1>8. {"rejected", "rejecting", "reply"} \subseteq Stages
  BY DEF Stages
<1>9. CASE Go("caller") /\ Failed(h)
  <2>1. PICK d : d = Fails(e)
    OBVIOUS
  <2>2. d \in CallType /\ Notes(e, d, "failed") /\ DidClose(e, d, "caller")
    BY <1>1, <1>6, <1>9, <2>1, FailsDoes
  <2>3. Going(c, d)
    BY <1>1, <1>5, <1>6, <1>9, <2>2, HeaderGoes
  <2>4. ~Qrpc
    BY <1>1, <1>9, GoOrNot
  <2> QED  BY <1>1, <1>4, <1>9, <2>1, <2>3, <2>4, GoingSteps
<1>10. CASE ~(Go("caller") /\ Failed(h)) /\ Go("caller") /\ h.error
  <2>1. PICK d : d = [CloseChannel(e, "caller") EXCEPT !.stage = "rejected"]
    OBVIOUS
  <2>2. d \in CallType /\ Notes(e, d, "rejected") /\ DidClose(e, d, "caller")
    BY <1>7, <1>8, <2>1
  <2>3. Going(c, d)
    BY <1>1, <1>5, <1>6, <1>10, <2>2, HeaderGoes
  <2>4. ~Qrpc
    BY <1>1, <1>10, GoOrNot
  <2> QED  BY <1>1, <1>4, <1>10, <2>1, <2>3, <2>4, GoingSteps
<1>11. CASE ~(Go("caller") /\ Failed(h)) /\ ~Go("caller") /\ Qrpc /\ h.error
  <2>1. PICK d : d = [CloseChannel(e, "caller") EXCEPT !.stage = "rejecting"]
    OBVIOUS
  <2>2. d \in CallType /\ Notes(e, d, "rejecting") /\ DidClose(e, d, "caller")
    BY <1>7, <1>8, <2>1
  <2>3. Going(c, d)
    BY <1>1, <1>5, <1>6, <1>11, <2>2, HeaderGoes
  <2> QED  BY <1>1, <1>4, <1>11, <2>1, <2>3, GoingSteps
<1>12. CASE ~(Go("caller") /\ Failed(h)) /\ ~(Go("caller") /\ h.error) /\ ~(Qrpc /\ h.error)
  <2>1. PICK d : d = [e EXCEPT !.stage = "reply"]
    OBVIOUS
  <2>2. d \in CallType /\ Notes(e, d, "reply") /\ ChannelKept(e, d)
    BY <1>7, <1>8, <2>1
  <2>3. Going(c, d)
    BY <1>1, <1>5, <1>6, <1>12, <2>2, HeaderGoes
  <2> QED  BY <1>1, <1>4, <1>12, <2>1, <2>3, GoingSteps
<1> QED  BY <1>9, <1>10, <1>11, <1>12

LEMMA GotReplySteps ==
    ASSUME Typed, NEW i \in Calls, CallInv(call[i]), GotReply(i)
    PROVE  Steps(i)
<1>1. PICK c \in CallType : c = call[i] /\ CallInv(c) /\ Impls
  BY ThisCall
<1>2. PICK h : h = Head(c.values["caller"])
  OBVIOUS
<1>3. PICK e : e = [Decoded(c, "caller") EXCEPT !.reply = h.kind]
  OBVIOUS
<1>4. PICK f : f = IF c.hijacked THEN e ELSE CloseChannel(e, "caller")
  OBVIOUS
<1>5. PICK stage \in (IF Go("caller") THEN Received(h)
                      ELSE {IF c.hijacked THEN "returned" ELSE "closing"}) :
        Only(i, [f EXCEPT !.stage = stage])
  BY <1>1, <1>2, <1>3, <1>4 DEF GotReply
<1>6. c.stage = "reply" /\ c.values["caller"] # <<>> /\ stage \in Stages
  <2>1. stage \in {"failed", "returned", "closing"}
    BY <1>5 DEF Received
  <2> QED  BY <1>1, <2>1 DEF GotReply, HasValue, Stages
<1>7. FirstValue(c, h)
  BY <1>2, <1>6 DEF FirstValue
<1>8. /\ e \in CallType /\ Took(c, e) /\ e.error = c.error /\ e.hijacked = c.hijacked
      /\ e.reply = h.kind
  <2>1. PICK g : g = Decoded(c, "caller")
    OBVIOUS
  <2>2. /\ g \in CallType /\ CallerSame(c, g) /\ ServerSame(c, g) /\ ChannelKept(c, g)
        /\ OneDecoded(c, g, "caller") /\ h \in ValueType
    <3>1. /\ Decoded(c, "caller") \in CallType /\ CallerSame(c, Decoded(c, "caller"))
          /\ ServerSame(c, Decoded(c, "caller")) /\ ChannelKept(c, Decoded(c, "caller"))
          /\ OneDecoded(c, Decoded(c, "caller"), "caller")
          /\ Head(c.values["caller"]) \in ValueType
      BY <1>6, TheSides, DecodedDoes
    <3> QED  BY <1>2, <2>1, <3>1
  <2>3. h.kind \in Kinds
    BY <2>2 DEF ValueType
  <2>4. /\ e \in CallType /\ ServerSame(g, e) /\ CodecSame(g, e) /\ ChannelKept(g, e)
        /\ e.stage = g.stage /\ e.todo = g.todo /\ e.error = g.error /\ e.got = g.got
        /\ e.hijacked = g.hijacked /\ e.reply = h.kind
    <3>1. e = [g EXCEPT !.reply = h.kind]
      BY <1>3, <2>1
    <3> QED  BY <2>2, <2>3, <3>1, ReplySetDoes
  <2> QED  BY <2>2, <2>4 DEF Took, CallerSame, ServerSame, CodecSame, ChannelKept, ChannelSame,
                             OneDecoded
<1>9. PICK d : d = [f EXCEPT !.stage = stage]
  OBVIOUS
<1>10. /\ d \in CallType /\ Notes(e, d, stage)
       /\ IF c.hijacked THEN ChannelKept(e, d) ELSE DidClose(e, d, "caller")
  <2>1. CASE c.hijacked
    <3>1. d = [e EXCEPT !.stage = stage]
      BY <1>4, <1>9, <2>1
    <3> QED  BY <1>6, <1>8, <2>1, <3>1, StageSet
  <2>2. CASE ~c.hijacked
    <3>1. d = [CloseChannel(e, "caller") EXCEPT !.stage = stage]
      BY <1>4, <1>9, <2>2
    <3> QED  BY <1>1, <1>6, <1>8, <2>2, <3>1, ClosedSet
  <2> QED  BY <2>1, <2>2
<1>11. \/ /\ stage = "failed" /\ Go("caller")
          /\ \/ h.kind = "throws"
             \/ h.kind = "EOF" /\ setting.wanted
             \/ h.kind = "value" /\ ~setting.wanted
       \/ /\ stage \in {"closing", "returned"} /\ ~(Go("caller") /\ h.kind = "throws")
          /\ (Go("caller") => stage = "returned" /\ (h.kind = "EOF" => ~setting.wanted))
  BY <1>5 DEF Received
<1>12. Going(c, d)
  BY <1>1, <1>6, <1>7, <1>8, <1>10, <1>11, AnswerGoes
<1> QED  BY <1>1, <1>5, <1>9, <1>12, GoingSteps

LEMMA CallerClosedSteps ==
    ASSUME Typed, NEW i \in Calls, CallInv(call[i]), CallerClosed(i)
    PROVE  Steps(i)
<1>1. PICK c \in CallType : c = call[i] /\ CallInv(c) /\ Impls
  BY ThisCall
<1>2. PICK stage : stage = IF c.stage = "closing" THEN "returned" ELSE "rejected"
  OBVIOUS
<1>3. c.stage \in {"closing", "rejecting"} /\ Only(i, [c EXCEPT !.stage = stage])
  <2>1. /\ c.stage \in {"closing", "rejecting"}
        /\ Only(i, [c EXCEPT !.stage = IF @ = "closing" THEN "returned" ELSE "rejected"])
    BY <1>1 DEF CallerClosed
  <2> QED  BY <1>2, <2>1
<1>4. stage \in Stages
  BY <1>2 DEF Stages
<1>5. PICK d : d = [c EXCEPT !.stage = stage]
  OBVIOUS
<1>6. d \in CallType /\ Notes(c, d, stage) /\ ChannelKept(c, d)
  BY <1>4, <1>5, StageSet
<1>7. Going(c, d)
  BY <1>1, <1>2, <1>3, <1>6, CallEnds
<1> QED  BY <1>1, <1>3, <1>5, <1>7, GoingSteps

LEMMA TakeRawSteps ==
    ASSUME Typed, NEW i \in Calls, CallInv(call[i]), TakeRaw(i)
    PROVE  Steps(i)
<1>1. PICK c \in CallType : c = call[i] /\ CallInv(c) /\ Impls
  BY ThisCall
<1>2. /\ c.stage = "returned" /\ c.hijacked /\ c.in["caller"] # <<>>
      /\ Go("caller") \/ c.phase["caller"] = "stopped"
      /\ Only(i, Taking(c))
  BY <1>1 DEF TakeRaw, Taking
<1>3. PICK d : d = Taking(c)
  OBVIOUS
<1>4. /\ d \in CallType /\ ServerSame(c, d) /\ CodecSame(c, d) /\ ChannelSame(c, d)
      /\ d.stage = c.stage /\ d.todo = c.todo /\ d.error = c.error
      /\ d.hijacked = c.hijacked /\ d.reply = c.reply
      /\ d.in = [c.in EXCEPT !["caller"] = Tail(@)]
      /\ d.got = Append(c.got, Head(c.in["caller"]))
  BY <1>2, <1>3, TakeRawDoes
<1>5. Going(c, d)
  BY <1>1, <1>2, <1>4, RawGoes
<1> QED  BY <1>1, <1>2, <1>3, <1>5, GoingSteps

(* The channel of a call opens, and waits for the server. *)
LEMMA OpenedSteps ==
    ASSUME Typed, Made, NEW i \in Calls, CallInv(call[i]), Opened(i)
    PROVE  \E d : Put(i, d) /\ Stepped(i, d) /\ call[i].responder = "none" /\ d.responder = "incoming"
<1>1. PICK c \in CallType : c = call[i] /\ CallInv(c) /\ Impls
  BY ThisCall
<1>2. c.stage = "opening" /\ Put(i, AsOpened(c, Request(i)))
  BY <1>1 DEF Opened, AsOpened
<1>3. setting.given[i] \in BOOLEAN
  BY <1>1, <1>2, GivenOrNot
<1>4. Request(i) \in Seq(MessageType)
  BY <1>1, <1>3, RequestIs
<1>5. PICK d : d = AsOpened(c, Request(i))
  OBVIOUS
<1>6. d \in CallType /\ Begun(c, d, Request(i)) /\ Starts(c, d) /\ d.responder = "incoming"
  BY <1>4, <1>5, TheSides, OpenedDoes
<1>7. Going(c, d)
  BY <1>1, <1>2, <1>3, <1>6, BeginGoes
<1>8. c.responder = "none"
  BY <1>1, <1>2, FreshParts
<1> QED  BY <1>1, <1>2, <1>5, <1>6, <1>7, <1>8 DEF Stepped, Going

LEMMA SameThrough ==
    ASSUME NEW c, NEW e, NEW d
    PROVE  /\ CallerSame(c, e) /\ CallerSame(e, d) => CallerSame(c, d)
           /\ CodecSame(c, e) /\ CodecSame(e, d) => CodecSame(c, d)
           /\ ChannelKept(c, e) /\ ChannelKept(e, d) => ChannelKept(c, d)
           /\ \A s \in Sides : OneDecoded(c, e, s) /\ CodecSame(e, d) => OneDecoded(c, d, s)
  BY DEF CallerSame, CodecSame, ChannelKept, ChannelSame, OneDecoded

LEMMA HijackWritesSteps ==
    ASSUME Typed, NEW i \in Calls, CallInv(call[i]), HijackWrites(i)
    PROVE  Steps(i)
<1>1. PICK c \in CallType : c = call[i] /\ CallInv(c) /\ Impls
  BY ThisCall
<1>2. PICK m : m = <<RawPart(c.raw + 1)>>
  OBVIOUS
<1>3. PICK e : e = Written(c, "responder", m)
  OBVIOUS
<1>4. PICK d : d = [e EXCEPT !.raw = e.raw + 1]
  OBVIOUS
<1>5. /\ c.responder = "hijacked" /\ c.raw < MaxRaw /\ ~CannotWrite(c, "responder")
      /\ Only(i, d)
  BY <1>1, <1>2, <1>3, <1>4 DEF HijackWrites
<1>6. c.raw \in 0 .. MaxRaw /\ MaxRaw \in Nat /\ c.raw + 1 \in 0 .. MaxRaw /\ c.raw + 1 \in Nat
  BY <1>5, Fields, SettingsAssumption
<1>7. m \in MessageType
  <2>1. RawPart(c.raw + 1) \in PartType
    BY <1>6, PartTypes
  <2> QED  BY <1>2, <2>1 DEF MessageType
<1>8. Others(c, e) /\ Wrote(c, e, "responder", m)
  BY <1>1, <1>3, <1>7, TheSides, WrittenDoes
<1>9. e.raw = c.raw /\ e \in CallType
  BY <1>8 DEF Others, ServerSame
<1>10. PICK n \in 0 .. MaxRaw : n = c.raw + 1
  BY <1>6
<1>11. d = [e EXCEPT !.raw = n]
  BY <1>4, <1>9, <1>10
<1>12. /\ ServerOnly(e, d) /\ ChannelKept(e, d)
       /\ d.ran = e.ran /\ d.responder = e.responder /\ d.replies = e.replies /\ d.raw = n
  BY <1>9, <1>11, RawDoes
<1>13. Wrote(c, d, "responder", <<RawPart(c.raw + 1)>>)
  BY <1>2, <1>8, <1>12, KeptSelf, WroteThrough
<1>14. /\ d \in CallType /\ CallerSame(c, d) /\ CodecSame(c, d)
       /\ d.ran = c.ran /\ d.responder = c.responder /\ d.replies = c.replies /\ d.raw = c.raw + 1
  BY <1>8, <1>10, <1>12, SameThrough DEF ServerOnly, Others, ServerSame
<1>15. Going(c, d)
  BY <1>1, <1>5, <1>13, <1>14, HijackGoesOn
<1> QED  BY <1>1, <1>5, <1>15, GoingSteps

(* The responder closes its channel, and is done. *)
LEMMA DoneDoes ==
    ASSUME NEW e \in CallType, Impls, NEW d,
           d = [CloseChannel(e, "responder") EXCEPT !.responder = "done"]
    PROVE  /\ d \in CallType /\ CallerSame(e, d) /\ CodecSame(e, d) /\ d.responder = "done"
           /\ d.ran = e.ran /\ d.replies = e.replies /\ d.raw = e.raw
           /\ DidClose(e, d, "responder")
<1>1. PICK f : f = CloseChannel(e, "responder")
  OBVIOUS
<1>2. Others(e, f) /\ DidClose(e, f, "responder")
  BY <1>1, TheSides, CloseDoes
<1>3. f \in CallType /\ "done" \in ResponderStages
  BY <1>2 DEF Others, ResponderStages
<1>4. d = [f EXCEPT !.responder = "done"]
  BY <1>1
<1>5. /\ ServerOnly(f, d) /\ ChannelKept(f, d)
      /\ d.ran = f.ran /\ d.responder = "done" /\ d.replies = f.replies /\ d.raw = f.raw
  <2>1. PICK r \in ResponderStages : r = "done"
    BY <1>3
  <2>2. /\ ServerOnly(f, [f EXCEPT !.responder = r]) /\ ChannelKept(f, [f EXCEPT !.responder = r])
        /\ [f EXCEPT !.responder = r].ran = f.ran /\ [f EXCEPT !.responder = r].responder = r
        /\ [f EXCEPT !.responder = r].replies = f.replies /\ [f EXCEPT !.responder = r].raw = f.raw
    BY <1>3, ResponderDoes
  <2> QED  BY <1>4, <2>1, <2>2
<1>6. DidClose(e, d, "responder")
  BY <1>2, <1>5, KeptSelf, CloseThrough
<1> QED  BY <1>2, <1>5, <1>6, SameThrough DEF ServerOnly, Others, ServerSame

LEMMA HijackClosesSteps ==
    ASSUME Typed, NEW i \in Calls, CallInv(call[i]), HijackCloses(i)
    PROVE  Steps(i)
<1>1. PICK c \in CallType : c = call[i] /\ CallInv(c) /\ Impls
  BY ThisCall
<1>2. PICK d : d = [CloseChannel(c, "responder") EXCEPT !.responder = "done"]
  OBVIOUS
<1>3. c.responder = "hijacked" /\ Only(i, d)
  BY <1>1, <1>2 DEF HijackCloses
<1>4. Going(c, d)
  BY <1>1, <1>2, <1>3, DoneDoes, HijackEnds
<1> QED  BY <1>1, <1>3, <1>4, GoingSteps

LEMMA ResponderWritesSteps ==
    ASSUME Typed, NEW i \in Calls, CallInv(call[i]), ResponderWrites(i)
    PROVE  Steps(i)
<1>1. PICK c \in CallType : c = call[i] /\ CallInv(c) /\ Impls
  BY ThisCall
<1>2. PICK task : task = Head(c.replies)
  OBVIOUS
<1>3. PICK e : e = [c EXCEPT !.replies = Tail(c.replies)]
  OBVIOUS
<1>4. /\ c.replies # <<>>
      /\ Only(i,
            CASE task.todo = <<>> /\ task.hijack -> [e EXCEPT !.responder = "hijacked"]
              [] task.todo = <<>> /\ ~task.hijack -> CloseChannel(e, "responder")
              [] task.todo # <<>> /\ CannotWrite(c, "responder") ->
                   IF Go("responder")
                   THEN [CloseChannel(e, "responder") EXCEPT !.responder = "done"]
                   ELSE e
              [] OTHER ->
                   [Written(e, "responder", Head(task.todo)) EXCEPT
                       !.replies = Append(@, [task EXCEPT !.todo = Tail(@)])])
  BY <1>1, <1>2, <1>3 DEF ResponderWrites
<1>5. c.replies # <<>>
  BY <1>4
<1>6. Serving(c) /\ (\A s \in Sides : Shut(c, s)) /\ Closing(c)
  BY <1>1, PartsOfInv
<1>7. /\ task \in TaskType /\ Tail(c.replies) \in Seq(TaskType)
  BY <1>2, <1>5, <1>6, FirstTask
<1>8. /\ ServerOnly(c, e) /\ ChannelKept(c, e)
      /\ e.ran = c.ran /\ e.responder = c.responder /\ e.replies = Tail(c.replies) /\ e.raw = c.raw
  BY <1>3, <1>7, RepliesDoes
<1>9. e \in CallType /\ CallerSame(c, e) /\ CodecSame(c, e)
  BY <1>8 DEF ServerOnly
<1>10. CASE task.todo = <<>> /\ task.hijack
  <2>1. PICK d : d = [e EXCEPT !.responder = "hijacked"]
    OBVIOUS
  <2>2. Only(i, d)
    BY <1>4, <1>10, <2>1
  <2>3. "hijacked" \in ResponderStages
    BY DEF ResponderStages
  <2>4. /\ ServerOnly(e, d) /\ ChannelKept(e, d)
        /\ d.ran = e.ran /\ d.responder = "hijacked" /\ d.replies = e.replies /\ d.raw = e.raw
    BY <1>9, <2>1, <2>3, ResponderDoes
  <2>5. d \in CallType /\ CallerSame(c, d) /\ CodecSame(c, d) /\ ChannelKept(c, d)
    BY <1>8, <1>9, <2>4, SameThrough DEF ServerOnly
  <2>6. Taskless(c, d)
    BY <1>5, <1>8, <2>4 DEF Taskless
  <2>7. Going(c, d)
    BY <1>1, <1>2, <1>10, <2>4, <2>5, <2>6, Hijacks
  <2> QED  BY <1>1, <2>2, <2>7, GoingSteps
<1>11. CASE task.todo = <<>> /\ ~task.hijack
  <2>1. PICK d : d = CloseChannel(e, "responder")
    OBVIOUS
  <2>2. Only(i, d)
    BY <1>4, <1>11, <2>1
  <2>3. Others(e, d) /\ DidClose(e, d, "responder")
    BY <1>1, <1>9, <2>1, TheSides, CloseDoes
  <2>4. DidClose(c, d, "responder")
    BY <1>8, <2>3, KeptSelf, CloseThrough
  <2>5. /\ d \in CallType /\ CallerSame(c, d) /\ CodecSame(c, d) /\ d.responder = c.responder
        /\ Taskless(c, d)
    BY <1>5, <1>8, <1>9, <2>3, SameThrough DEF Others, ServerSame, Taskless
  <2>6. Going(c, d)
    BY <1>1, <1>2, <1>11, <2>4, <2>5, ReplyEnds
  <2> QED  BY <1>1, <2>2, <2>6, GoingSteps
<1>12. CASE task.todo # <<>> /\ CannotWrite(c, "responder") /\ Go("responder")
  <2>1. PICK d : d = [CloseChannel(e, "responder") EXCEPT !.responder = "done"]
    OBVIOUS
  <2>2. Only(i, d)
    BY <1>4, <1>12, <2>1
  <2>3. /\ d \in CallType /\ CallerSame(e, d) /\ CodecSame(e, d) /\ d.responder = "done"
        /\ d.ran = e.ran /\ d.replies = e.replies /\ d.raw = e.raw
        /\ DidClose(e, d, "responder")
    BY <1>1, <1>9, <2>1, DoneDoes
  <2>4. c.sentClose["responder"]
    BY <1>6, <1>12, TheSides DEF CannotWrite, Shut
  <2>5. ChannelKept(e, d)
    <3>1. e.sentClose["responder"] /\ ~Mock
      BY <1>1, <1>8, <1>12, <2>4, GoOrNot DEF ChannelKept, ChannelSame
    <3> QED  BY <1>12, <2>3, <3>1 DEF DidClose, ChannelKept
  <2>6. CallerSame(c, d) /\ CodecSame(c, d) /\ ChannelKept(c, d)
    BY <1>8, <1>9, <2>3, <2>5, SameThrough
  <2>7. Taskless(c, d)
    BY <1>5, <1>8, <2>3 DEF Taskless
  <2>8. Going(c, d)
    BY <1>1, <1>12, <2>3, <2>4, <2>6, <2>7, ReplyBreaks
  <2> QED  BY <1>1, <2>2, <2>8, GoingSteps
<1>13. CASE task.todo # <<>> /\ CannotWrite(c, "responder") /\ ~Go("responder")
  <2>1. Only(i, e)
    BY <1>4, <1>13
  <2>2. c.sentClose["responder"]
    BY <1>13 DEF CannotWrite
  <2>3. Taskless(c, e)
    BY <1>5, <1>8 DEF Taskless
  <2>4. Going(c, e)
    BY <1>1, <1>8, <1>9, <1>13, <2>2, <2>3, ReplyBreaks
  <2> QED  BY <1>1, <2>1, <2>4, GoingSteps
<1>14. CASE task.todo # <<>> /\ ~CannotWrite(c, "responder")
  <2>1. task.todo \in Seq(MessageType) /\ task.todo # <<>>
    BY <1>7, <1>14 DEF TaskType
  <2>2. Head(task.todo) \in MessageType /\ Tail(task.todo) \in Seq(MessageType)
    BY <2>1, TailCloses
  <2>3. PICK rest : rest = [task EXCEPT !.todo = Tail(task.todo)]
    OBVIOUS
  <2>4. rest \in TaskType
    BY <1>7, <2>2, <2>3 DEF TaskType
  <2>5. PICK f : f = Written(e, "responder", Head(task.todo))
    OBVIOUS
  <2>6. Others(e, f) /\ Wrote(e, f, "responder", Head(task.todo))
    BY <1>1, <1>9, <2>2, <2>5, TheSides, WrittenDoes
  <2>7. f \in CallType /\ f.replies = Tail(c.replies)
    BY <1>8, <2>6 DEF Others, ServerSame
  <2>8. PICK d : d = [f EXCEPT !.replies = Append(f.replies, rest)]
    OBVIOUS
  <2>9. Only(i, d)
    BY <1>4, <1>14, <2>3, <2>5, <2>8
  <2>10. Append(f.replies, rest) \in Seq(TaskType)
    BY <1>7, <2>4, <2>7, OneMore
  <2>11. /\ ServerOnly(f, d) /\ ChannelKept(f, d)
         /\ d.ran = f.ran /\ d.responder = f.responder /\ d.replies = Append(f.replies, rest)
         /\ d.raw = f.raw
    BY <2>7, <2>8, <2>10, RepliesDoes
  <2>12. Wrote(c, d, "responder", Head(Head(c.replies).todo))
    BY <1>2, <1>8, <2>6, <2>11, WroteThrough
  <2>13. d \in CallType /\ CallerSame(c, d) /\ CodecSame(c, d)
    BY <1>9, <2>6, <2>11, SameThrough DEF ServerOnly, Others
  <2>14. Rewritten(c, d)
    <3>1. d.ran = c.ran /\ d.raw = c.raw /\ d.responder = c.responder
      BY <1>8, <2>6, <2>11 DEF Others, ServerSame
    <3> QED  BY <1>2, <1>5, <2>1, <2>3, <2>7, <2>11, <3>1 DEF Rewritten
  <2>15. Going(c, d)
    BY <1>1, <1>14, <2>12, <2>13, <2>14, ReplyGoesOn
  <2> QED  BY <1>1, <2>9, <2>15, GoingSteps
<1>15. task.hijack \in BOOLEAN
  BY <1>7 DEF TaskType
<1> QED  BY <1>10, <1>11, <1>12, <1>13, <1>14, <1>15

(* A handler that runs is one that is bound, or the method of an object. *)
LEMMA DispatchedFits ==
    ASSUME Typed, NEW path, NEW h \in Dispatched(path)
    PROVE  h.outcome \in Outcomes /\ (~Qrpc => Returns(h.outcome) = 1)
<1>1. IsSetting(setting)
  BY SettingsAssumption DEF Typed
<1>2. PICK list : list = bound
  OBVIOUS
<1>3. list \in Seq(Binding) /\ \A n \in 1 .. Len(list) : Fits(list[n])
  BY <1>2 DEF Typed, Fitting
<1>4. Missing \in AnyHandler /\ Missing.outcome = "error"
  BY DEF Missing, AnyHandler, Outcomes
<1>5. PICK g \in Handlers(list, Destination(path)) :
        h = IF g.outcome = "manager" THEN ObjectHandler(path) ELSE g
  BY <1>2 DEF Dispatched
<1>6. g \in AnyHandler /\ (g.outcome \in Thrown \cup {"manager"} => Qrpc)
  <2>1. g = Missing \/ \E j \in DOMAIN list : g = list[j].handler
    BY <1>5 DEF Handlers, Matches
  <2>2. CASE g = Missing
    BY <1>4, <2>2 DEF Thrown
  <2>3. CASE \E j \in DOMAIN list : g = list[j].handler
    <3>1. PICK j \in 1 .. Len(list) : g = list[j].handler
      BY <1>3, <2>3, LenProperties
    <3>2. list[j] \in Binding /\ Fits(list[j])
      BY <1>3, <3>1, ElementOfSeq
    <3> QED  BY <3>1, <3>2 DEF Binding, Fits
  <2> QED  BY <2>1, <2>2, <2>3
<1>7. ObjectHandler(path) \in AnyHandler
  <2>1. ObjectHandler(path) = Missing \/ ObjectHandler(path) = Export(Method(path))
    BY DEF ObjectHandler
  <2>2. \A m : Export(m) \in AnyHandler
    BY <1>1, <1>4 DEF Export, IsSetting
  <2> QED  BY <1>4, <2>1, <2>2
<1>8. \A x \in AnyHandler : x.outcome \in Outcomes
  BY DEF AnyHandler
<1>9. CASE g.outcome = "manager"
  BY <1>5, <1>6, <1>7, <1>8, <1>9
<1>10. CASE g.outcome # "manager"
  <2>1. h = g
    BY <1>5, <1>10
  <2>2. g.outcome \notin Thrown => Returns(g.outcome) = 1
    BY ReturnsMost
  <2> QED  BY <1>6, <1>8, <2>1, <2>2
<1> QED  BY <1>9, <1>10

(* The responder has decoded a frame, and it is known which handler runs. *)
RunsAs(c, ran) ==
    /\ ran \in Outcomes /\ (~Qrpc => Returns(ran) = 1)
    /\ ran = c.ran \/ c.ran = "none" \/ Go("responder")

Running(c, ran) == [c EXCEPT !.ran = ran]

LEMMA RunDoes ==
    ASSUME NEW c \in CallType, CallInv(c), Impls, c.responder \in {"frame", "args"},
           NEW f, f = Decoded(c, "responder"), c.values["responder"] # <<>>,
           NEW ran, RunsAs(c, ran), NEW e, e = Running(f, ran)
    PROVE  e \in CallType /\ Ran(c, e) /\ e.ran = ran /\ e.responder = c.responder
<1>1. ran \in Outcomes
  BY DEF RunsAs
<1>2. /\ f \in CallType /\ CallerSame(c, f) /\ ServerSame(c, f) /\ ChannelKept(c, f)
      /\ OneDecoded(c, f, "responder")
  <2>1. /\ Decoded(c, "responder") \in CallType /\ CallerSame(c, Decoded(c, "responder"))
        /\ ServerSame(c, Decoded(c, "responder")) /\ ChannelKept(c, Decoded(c, "responder"))
        /\ OneDecoded(c, Decoded(c, "responder"), "responder")
    BY TheSides, DecodedDoes
  <2> QED  BY <2>1
<1>3. /\ ServerOnly(f, e) /\ ChannelKept(f, e)
      /\ e.ran = ran /\ e.responder = f.responder /\ e.replies = f.replies /\ e.raw = f.raw
  BY <1>1, <1>2, RanDoes DEF Running
<1>4. /\ e \in CallType /\ CallerSame(c, e) /\ OneDecoded(c, e, "responder") /\ ChannelKept(c, e)
  BY <1>2, <1>3, TheSides, SameThrough DEF ServerOnly
<1>5. e.replies = c.replies /\ e.raw = c.raw /\ e.responder = c.responder
  BY <1>2, <1>3 DEF ServerSame
<1>6. Unanswered(e)
  BY <1>5 DEF Unanswered
<1> QED  BY <1>3, <1>4, <1>5, <1>6 DEF Ran, RunsAs

LEMMA DispatchSteps ==
    ASSUME Typed, NEW i \in Calls, CallInv(call[i]), Dispatch(i)
    PROVE  Steps(i)
<1>1. PICK c \in CallType : c = call[i] /\ CallInv(c) /\ Impls
  BY ThisCall
<1>2. c.responder = "frame" /\ c.values["responder"] # <<>>
  BY <1>1 DEF Dispatch, HasValue
<1>3. CASE Go("responder") /\ Failed(Head(c.values["responder"]))
  <2>1. PICK f : f = Decoded(c, "responder")
    OBVIOUS
  <2>2. PICK d : d = [CloseChannel(f, "responder") EXCEPT !.responder = "done"]
    OBVIOUS
  <2>3. Only(i, d)
    BY <1>1, <1>3, <2>1, <2>2 DEF Dispatch
  <2>4. /\ f \in CallType /\ CallerSame(c, f) /\ ServerSame(c, f) /\ ChannelKept(c, f)
        /\ OneDecoded(c, f, "responder")
    <3>1. /\ Decoded(c, "responder") \in CallType /\ CallerSame(c, Decoded(c, "responder"))
          /\ ServerSame(c, Decoded(c, "responder")) /\ ChannelKept(c, Decoded(c, "responder"))
          /\ OneDecoded(c, Decoded(c, "responder"), "responder")
      BY <1>2, TheSides, DecodedDoes
    <3> QED  BY <2>1, <3>1
  <2>5. /\ d \in CallType /\ CallerSame(f, d) /\ CodecSame(f, d) /\ d.responder = "done"
        /\ d.ran = f.ran /\ d.replies = f.replies /\ d.raw = f.raw
        /\ DidClose(f, d, "responder")
    BY <1>1, <2>2, <2>4, DoneDoes
  <2>6. DidClose(c, d, "responder")
    BY <2>4, <2>5, KeptSelf, CloseThrough
  <2>7. CallerSame(c, d) /\ OneDecoded(c, d, "responder")
    BY <2>4, <2>5, TheSides, SameThrough
  <2>8. d.ran = c.ran /\ d.replies = c.replies /\ d.raw = c.raw
    BY <2>4, <2>5 DEF ServerSame
  <2>9. Going(c, d)
    BY <1>1, <1>2, <1>3, <2>5, <2>6, <2>7, <2>8, CallFails
  <2> QED  BY <1>1, <2>3, <2>9, GoingSteps
<1>4. CASE ~(Go("responder") /\ Failed(Head(c.values["responder"])))
  <2>1. PICK h \in Dispatched(setting.path[i]) :
          LET run == [Decoded(c, "responder") EXCEPT !.ran = h.outcome] IN
          Only(i, IF h.decodes THEN [run EXCEPT !.responder = "args"] ELSE Return(run, h.outcome))
    BY <1>1, <1>4 DEF Dispatch
  <2>2. PICK f : f = Decoded(c, "responder")
    OBVIOUS
  <2>3. PICK ran : ran = h.outcome
    OBVIOUS
  <2>4. c.ran = "none"
    <3>1. Serving(c)
      BY <1>1, PartsOfInv
    <3> QED  BY <1>2, <3>1 DEF Serving
  <2>5. RunsAs(c, ran)
    BY <2>3, <2>4, DispatchedFits DEF RunsAs
  <2>6. PICK e : e = Running(f, ran)
    OBVIOUS
  <2>7. e \in CallType /\ Ran(c, e) /\ e.ran = ran /\ e.responder = c.responder
    BY <1>1, <1>2, <2>2, <2>5, <2>6, RunDoes
  <2>8. CASE h.decodes
    <3>1. PICK r \in ResponderStages : r = "args"
      BY DEF ResponderStages
    <3>2. PICK d : d = [e EXCEPT !.responder = r]
      OBVIOUS
    <3>3. Only(i, d)
      BY <2>1, <2>2, <2>3, <2>6, <2>8, <3>1, <3>2 DEF Running
    <3>4. /\ ServerOnly(e, d) /\ ChannelKept(e, d)
          /\ d.ran = e.ran /\ d.responder = r /\ d.replies = e.replies /\ d.raw = e.raw
      BY <2>7, <3>2, ResponderDoes
    <3>5. Ran(c, d)
      <4>1. /\ CallerSame(c, e) /\ OneDecoded(c, e, "responder") /\ ChannelKept(c, e)
            /\ e.replies = c.replies /\ e.raw = c.raw /\ e.ran \in Outcomes
            /\ (~Qrpc => Returns(e.ran) = 1)
        BY <2>7 DEF Ran
      <4>2. CallerSame(c, d) /\ OneDecoded(c, d, "responder") /\ ChannelKept(c, d)
        BY <3>4, <4>1, TheSides, SameThrough DEF ServerOnly
      <4>3. Unanswered(d)
        BY <3>1, <3>4 DEF Unanswered
      <4> QED  BY <2>4, <3>4, <4>1, <4>2, <4>3 DEF Ran
    <3>6. d \in CallType /\ d.responder = "args"
      BY <3>1, <3>4 DEF ServerOnly
    <3>7. Going(c, d)
      BY <1>1, <1>2, <3>5, <3>6, ArgsNext
    <3> QED  BY <1>1, <3>3, <3>7, GoingSteps
  <2>9. CASE ~h.decodes
    <3>1. PICK d : d = Return(e, ran)
      OBVIOUS
    <3>2. Only(i, d)
      BY <2>1, <2>2, <2>3, <2>6, <2>9, <3>1 DEF Running
    <3>3. DidReturn(e, d, e.ran)
      BY <1>1, <2>5, <2>7, <3>1, ReturnDoes DEF RunsAs
    <3>4. d \in CallType
      BY <3>3 DEF DidReturn, ServerOnly
    <3>5. Going(c, d)
      BY <1>1, <1>2, <2>7, <3>3, <3>4, ReturnGoes
    <3> QED  BY <1>1, <3>2, <3>5, GoingSteps
  <2> QED  BY <2>8, <2>9
<1> QED  BY <1>3, <1>4

LEMMA GotArgsSteps ==
    ASSUME Typed, NEW i \in Calls, CallInv(call[i]), GotArgs(i)
    PROVE  Steps(i)
<1>1. PICK c \in CallType : c = call[i] /\ CallInv(c) /\ Impls
  BY ThisCall
<1>2. c.responder = "args" /\ c.values["responder"] # <<>>
  BY <1>1 DEF GotArgs, HasValue
<1>3. /\ c.ran \in Outcomes /\ (~Qrpc => Returns(c.ran) = 1)
  <2>1. Serving(c) /\ c.ran \in Outcomes \cup {"none"}
    BY <1>1, PartsOfInv, Fields
  <2> QED  BY <1>2, <2>1 DEF Serving
<1>4. PICK ran :
        ran = IF Go("responder") /\ Failed(Head(c.values["responder"])) THEN "error" ELSE c.ran
  OBVIOUS
<1>5. RunsAs(c, ran)
  <2>1. "error" \in Outcomes /\ Returns("error") = 1
    BY DEF Outcomes, Returns
  <2> QED  BY <1>3, <1>4, <2>1 DEF RunsAs
<1>6. PICK f : f = Decoded(c, "responder")
  OBVIOUS
<1>7. PICK e : e = Running(f, ran)
  OBVIOUS
<1>8. e \in CallType /\ Ran(c, e) /\ e.ran = ran /\ e.responder = c.responder
  BY <1>1, <1>2, <1>5, <1>6, <1>7, RunDoes
<1>9. PICK d : d = Return(e, ran)
  OBVIOUS
<1>10. Only(i, d)
  <2>1. CASE Go("responder") /\ Failed(Head(c.values["responder"]))
    BY <1>1, <1>4, <1>6, <1>7, <1>9, <2>1 DEF GotArgs, Running
  <2>2. CASE ~(Go("responder") /\ Failed(Head(c.values["responder"])))
    <3>1. Only(i, Return(f, c.ran))
      BY <1>1, <1>6, <2>2 DEF GotArgs
    <3>2. f \in CallType /\ ServerSame(c, f)
      <4>1. Decoded(c, "responder") \in CallType /\ ServerSame(c, Decoded(c, "responder"))
        BY <1>2, TheSides, DecodedDoes
      <4> QED  BY <1>6, <4>1
    <3>3. e = [f EXCEPT !.ran = f.ran]
      BY <1>4, <1>7, <2>2, <3>2 DEF ServerSame, Running
    <3>4. e = f
      BY <3>2, <3>3 DEF CallType
    <3> QED  BY <1>4, <1>9, <2>2, <3>1, <3>4
  <2> QED  BY <2>1, <2>2
<1>11. DidReturn(e, d, e.ran)
  BY <1>1, <1>5, <1>8, <1>9, ReturnDoes DEF RunsAs
<1>12. d \in CallType
  BY <1>11 DEF DidReturn, ServerOnly
<1>13. Going(c, d)
  BY <1>1, <1>2, <1>8, <1>11, <1>12, ReturnGoes
<1> QED  BY <1>1, <1>10, <1>13, GoingSteps

(* A message is delivered to the channel of a call. *)
LEMMA DeliverSteps ==
    ASSUME Typed, NEW i \in Calls, CallInv(call[i]), NEW s \in Sides, Deliver(i, s)
    PROVE  Steps(i)
<1>1. PICK c \in CallType : c = call[i] /\ CallInv(c) /\ Impls
  BY ThisCall
<1>2. PICK o \in Sides : o = Other(s)
  BY TheSides
<1>3. c.out[Other(s)] # <<>> /\ ~c.gone[s] /\ ~c.finishing[s]
  BY <1>1 DEF Deliver, Arrived, Busy
<1>4. ~Mock
  BY <1>1, <1>2, <1>3, PartsOfInv DEF Shut
<1>5. CASE Head(c.out[Other(s)]) = Close
  <2>1. PICK d : d = Answered(c, s)
    OBVIOUS
  <2>2. Only(i, d)
    BY <1>1, <1>5, <2>1 DEF Deliver, Answered, Less
  <2>3. Others(c, Answered(c, s)) /\ ToldOf(c, Answered(c, s), s)
    BY <1>1, <1>3, <1>4, ToldDoes
  <2>4. d \in CallType /\ Others(c, d) /\ ToldOf(c, d, s)
    BY <2>1, <2>3 DEF Others
  <2>5. Going(c, d)
    BY <1>1, <1>3, <1>5, <2>4, CloseGoes
  <2> QED  BY <1>1, <2>2, <2>5, GoingSteps
<1>6. CASE Head(c.out[Other(s)]) # Close
  <2>1. PICK d : d = TakenIn(c, s)
    OBVIOUS
  <2>2. Only(i, d)
    BY <1>1, <1>6, <2>1 DEF Deliver, TakenIn, Less
  <2>3. Others(c, TakenIn(c, s)) /\ TookIn(c, TakenIn(c, s), s)
    BY <1>1, <1>3, TookInDoes
  <2>4. d \in CallType /\ Others(c, d) /\ TookIn(c, d, s)
    BY <2>1, <2>3 DEF Others
  <2>5. Going(c, d)
    BY <1>1, <1>3, <1>6, <2>4, DataGoes
  <2> QED  BY <1>1, <2>2, <2>5, GoingSteps
<1> QED  BY <1>5, <1>6

LEMMA FinishSteps ==
    ASSUME Typed, NEW i \in Calls, CallInv(call[i]), NEW s \in Sides, Finish(i, s)
    PROVE  Steps(i)
<1>1. PICK c \in CallType : c = call[i] /\ CallInv(c) /\ Impls
  BY ThisCall
<1>2. PICK d : d = ShutDown(c, s)
  OBVIOUS
<1>3. c.finishing[s] /\ Only(i, d)
  BY <1>1, <1>2 DEF Finish
<1>4. d \in CallType /\ Others(c, d) /\ WasShut(c, d, s)
  BY <1>1, <1>2, ShutDownDoes DEF Others
<1>5. Going(c, d)
  BY <1>1, <1>3, <1>4, FinishGoes
<1> QED  BY <1>1, <1>3, <1>5, GoingSteps

(* The codec of a side takes a step. *)
LEMMA ReadSizeSteps ==
    ASSUME Typed, NEW i \in Calls, CallInv(call[i]), NEW s \in Sides, ReadSize(i, s)
    PROVE  Steps(i)
<1>1. PICK c \in CallType : c = call[i] /\ CallInv(c) /\ Impls
  BY ThisCall
<1>2. c.phase[s] = "size" /\ c.in[s] # <<>> /\ Decodes(c, s)
  BY <1>1 DEF ReadSize
<1>3. PICK n : /\ n \in IF Head(c.in[s]).part = "size" THEN {Head(c.in[s]).size} ELSE Junk
               /\ Only(i, WithSize(c, s, n))
  BY <1>1 DEF ReadSize, WithSize
<1>4. n \in Nat /\ (Head(c.in[s]).part = "size" => n = Head(c.in[s]).size)
  <2>1. PICK q \in Seq(PartType) : q = c.in[s]
    BY Fields
  <2>2. Head(q) \in PartType
    BY <1>2, <2>1, PartsJoin
  <2>3. Head(q).size \in Nat
    BY <2>2 DEF PartType
  <2> QED  BY <1>3, <2>1, <2>3 DEF Junk
<1>5. PICK d : d = WithSize(c, s, n)
  OBVIOUS
<1>6. /\ WithSize(c, s, n) \in CallType /\ CallerSame(c, WithSize(c, s, n))
      /\ ServerSame(c, WithSize(c, s, n)) /\ SizeRead(c, WithSize(c, s, n), s, n)
  BY <1>2, <1>4, SizeReadDoes
<1>7. d \in CallType /\ CallerSame(c, d) /\ ServerSame(c, d) /\ SizeRead(c, d, s, n)
  BY <1>5, <1>6
<1>8. Going(c, d)
  BY <1>1, <1>2, <1>4, <1>7, SizeGoes
<1> QED  BY <1>1, <1>3, <1>5, <1>8, GoingSteps

(* What decode makes of some parts. *)
LEMMA DecodingsTyped ==
    ASSUME NEW s \in Sides, NEW parts \in Seq(PartType), NEW size,
           NEW v \in Decodings(s, parts, size)
    PROVE  v \in ValueType
<1>1. \A k \in Kinds : Plain(k) \in ValueType
  BY PartTypes
<1>2. CASE Whole(parts, size)
  <2>1. parts # <<>>
    BY <1>2 DEF Whole
  <2>2. parts[1] \in PartType
    <3>1. Head(parts) \in PartType /\ Head(parts) = parts[1]
      BY <2>1, OneLess
    <3> QED  BY <3>1
  <2>3. Decodings(s, parts, size) = {parts[1].value}
    BY <1>2, <2>1 DEF Decodings
  <2> QED  BY <2>2, <2>3 DEF PartType
<1>3. CASE ~Whole(parts, size)
  <2>1. v \in {Plain("EOF"), Plain("throws"), Plain("junk")}
    BY <1>3 DEF Decodings
  <2> QED  BY <1>1, <2>1 DEF Kinds
<1> QED  BY <1>2, <1>3

LEMMA ReadEndSteps ==
    ASSUME Typed, NEW i \in Calls, CallInv(call[i]), NEW s \in Sides, ReadEnd(i, s)
    PROVE  Steps(i)
<1>1. PICK c \in CallType : c = call[i] /\ CallInv(c) /\ Impls
  BY ThisCall
<1>2. /\ c.gone[s] /\ c.phase[s] \in {"size", "body"}
      /\ (Go(s) => /\ Decodes(c, s) /\ c.in[s] = <<>>
                    /\ ~(c.phase[s] = "body" /\ c.size[s] = 0))
  BY <1>1 DEF ReadEnd
<1>3. PICK d : d = IF Go(s) THEN AtEnd(c, s) ELSE [c EXCEPT !.phase[s] = "stopped"]
  OBVIOUS
<1>4. Only(i, d)
  BY <1>1, <1>3 DEF ReadEnd, AtEnd
<1>5. PICK values, phase :
        /\ values = IF Go(s) THEN <<Plain("EOF")>> ELSE c.values[s]
        /\ phase = IF Go(s) THEN "size" ELSE "stopped"
  OBVIOUS
<1>6. d \in CallType /\ CallerSame(c, d) /\ ServerSame(c, d) /\ EndRead(c, d, s, values, phase)
  <2>1. /\ AtEnd(c, s) \in CallType /\ CallerSame(c, AtEnd(c, s)) /\ ServerSame(c, AtEnd(c, s))
        /\ EndRead(c, AtEnd(c, s), s, <<Plain("EOF")>>, "size")
        /\ [c EXCEPT !.phase[s] = "stopped"] \in CallType
        /\ CallerSame(c, [c EXCEPT !.phase[s] = "stopped"])
        /\ ServerSame(c, [c EXCEPT !.phase[s] = "stopped"])
        /\ EndRead(c, [c EXCEPT !.phase[s] = "stopped"], s, c.values[s], "stopped")
    BY EndReadDoes
  <2> QED  BY <1>3, <1>5, <2>1
<1>7. Going(c, d)
  BY <1>1, <1>2, <1>5, <1>6, EndGoes
<1> QED  BY <1>1, <1>4, <1>7, GoingSteps

LEMMA ReadBodySteps ==
    ASSUME Typed, NEW i \in Calls, CallInv(call[i]), NEW s \in Sides, ReadBody(i, s)
    PROVE  Steps(i)
<1>1. PICK c \in CallType : c = call[i] /\ CallInv(c) /\ Impls
  BY ThisCall
<1>2. c.phase[s] = "body" /\ BodyHere(c, s)
  BY <1>1 DEF ReadBody
<1>3. PICK n : n = Taken(c, s)
  OBVIOUS
<1>4. PICK q \in Seq(PartType) : q = c.in[s]
  BY Fields
<1>5. n \in 0 .. Len(q) /\ Len(q) \in Nat /\ n \in Nat /\ n <= Len(c.in[s])
  BY <1>2, <1>3, <1>4, TakenMost, LenProperties
<1>6. PICK read : read = WithBody(c, s, n)
  OBVIOUS
<1>7. PICK v : /\ v \in Decodings(s, SubSeq(c.in[s], 1, Taken(c, s)), c.size[s])
               /\ Only(i, IF v.kind = "throws" /\ ~Go(s) THEN Stopped(c, s, n)
                          ELSE WithValue(c, s, n, v,
                                   IF ~Go(s) /\ read.count[s] = ReadLimit(s) THEN "stopped" ELSE "size"))
  BY <1>1, <1>3, <1>6 DEF ReadBody, WithBody, Stopped, WithValue
<1>8. v \in ValueType
  <2>1. SubSeq(q, 1, n) \in Seq(PartType)
    BY <1>5, SplitAt
  <2> QED  BY <1>3, <1>4, <1>7, <2>1, DecodingsTyped
<1>9. read.count[s] = c.count[s] + 1
  <2>1. WithBody(c, s, n).count[s] = c.count[s] + 1
    BY <1>5, <1>8, BodyReadDoes
  <2> QED  BY <1>6, <2>1
<1>10. CASE v.kind = "throws" /\ ~Go(s)
  <2>1. PICK d : d = Stopped(c, s, n)
    OBVIOUS
  <2>2. PICK phase \in {"size", "stopped"} : phase = "stopped"
    OBVIOUS
  <2>3. PICK values : values = c.values[s]
    OBVIOUS
  <2>4. /\ Stopped(c, s, n) \in CallType /\ CallerSame(c, Stopped(c, s, n))
        /\ ServerSame(c, Stopped(c, s, n)) /\ BodyRead(c, Stopped(c, s, n), s, n, c.values[s], "stopped")
    BY <1>5, <1>8, BodyReadDoes
  <2>5. d \in CallType /\ CallerSame(c, d) /\ ServerSame(c, d) /\ BodyRead(c, d, s, Taken(c, s), values, phase)
    BY <1>3, <2>1, <2>2, <2>3, <2>4
  <2>6. Going(c, d)
    BY <1>1, <1>2, <1>7, <1>8, <1>10, <2>2, <2>3, <2>5, BodyGoes
  <2> QED  BY <1>1, <1>7, <1>10, <2>1, <2>6, GoingSteps
<1>11. CASE ~(v.kind = "throws" /\ ~Go(s))
  <2>1. PICK phase \in {"size", "stopped"} :
          phase = IF ~Go(s) /\ read.count[s] = ReadLimit(s) THEN "stopped" ELSE "size"
    OBVIOUS
  <2>2. PICK d : d = WithValue(c, s, n, v, phase)
    OBVIOUS
  <2>3. PICK values : values = Append(c.values[s], v)
    OBVIOUS
  <2>4. /\ WithValue(c, s, n, v, phase) \in CallType /\ CallerSame(c, WithValue(c, s, n, v, phase))
        /\ ServerSame(c, WithValue(c, s, n, v, phase))
        /\ BodyRead(c, WithValue(c, s, n, v, phase), s, n, Append(c.values[s], v), phase)
    BY <1>5, <1>8, BodyReadDoes
  <2>5. d \in CallType /\ CallerSame(c, d) /\ ServerSame(c, d) /\ BodyRead(c, d, s, Taken(c, s), values, phase)
    BY <1>3, <2>2, <2>3, <2>4
  <2>6. phase = IF ~Go(s) /\ c.count[s] + 1 = ReadLimit(s) THEN "stopped" ELSE "size"
    BY <1>9, <2>1
  <2>7. Going(c, d)
    BY <1>1, <1>2, <1>7, <1>8, <1>11, <2>3, <2>5, <2>6, BodyGoes
  <2> QED  BY <1>1, <1>7, <1>11, <2>1, <2>2, <2>7, GoingSteps
<1> QED  BY <1>10, <1>11

-----------------------------------------------------------------------------
(* The calls after a step *)

(* A call that nothing happens to stays as it is. *)
LEMMA StillInv ==
    ASSUME NEW c, CallInv(c), Impls, setting' = setting, ended' = ended
    PROVE  CallInv(c)'
<1>1. /\ Fresh(c) /\ Asking(c) /\ Serving(c) /\ Closing(c)
      /\ RequestRead(c) /\ ToWrite(c) /\ ReplyCarried(c) /\ Noted(c) /\ FailsBecause(c)
  BY PartsOfInv
<1>2. /\ RequestRead(c)' /\ ReplyCarried(c)' /\ Noted(c)' /\ FailsBecause(c)' /\ ToWrite(c)'
      /\ Asking(c)' /\ Serving(c)'
  BY <1>1, EndedUp
<1>3. Fresh(c)'
  BY <1>1 DEF Fresh, Mock
<1>4. Closing(c)'
  <2>1. \A s \in Sides : Closed(c, s)' /\ Shut(c, s)' /\ Told(c, s)'
    <3> SUFFICES ASSUME NEW s \in Sides
                 PROVE  Closed(c, s)' /\ Shut(c, s)' /\ Told(c, s)'
      OBVIOUS
    <3>1. Closed(c, s) /\ Shut(c, s) /\ Told(c, s)
      BY <1>1 DEF Closing
    <3>2. Closed(c, s)'
      BY <3>1 DEF Closed, Go
    <3>3. Shut(c, s)'
      BY <3>1 DEF Shut, Go, Mock
    <3>4. Told(c, s)'
      BY <3>1 DEF Told, Go
    <3> QED  BY <3>2, <3>3, <3>4
  <2>2. First(c)' /\ Answering(c)'
    BY <1>1 DEF Closing, First, Answering, Go
  <2> QED  BY <2>1, <2>2 DEF Closing
<1> QED  BY <1>2, <1>3, <1>4 DEF CallInv, Carried, ReplyCarried

(* What a step leaves true of every call. *)
CallsKept ==
    /\ call' \in [Calls -> CallType] /\ (\A j \in Calls : CallInv(call[j]))' /\ Made'
    /\ \A j \in Calls : Returns(call[j].ran) > 1 => Returns(call'[j].ran) > 1
    /\ \A j \in Calls : \A s \in Sides : call[j].late[s] => call'[j].late[s]

LEMMA OneKept ==
    ASSUME Typed, Made, \A j \in Calls : CallInv(call[j]), NEW i \in Calls, NEW d \in CallType,
           Put(i, d), setting' = setting, ended' = ended, CallInv(d),
           call[i].stage # "idle" \/ i \in DOMAIN setting.path,
           Returns(call[i].ran) > 1 => Returns(d.ran) > 1,
           \A s \in Sides : call[i].late[s] => d.late[s]
    PROVE  CallsKept
<1>1. call' = [call EXCEPT ![i] = d] /\ call \in [Calls -> CallType] /\ Impls
  BY ImplsOfSetting DEF Put, Typed
<1>2. call' \in [Calls -> CallType] /\ call'[i] = d /\ \A j \in Calls : j # i => call'[j] = call[j]
  BY <1>1
<1>3. \A j \in Calls : CallInv(call[j])'
  <2> TAKE j \in Calls
  <2>1. PICK c : c = call'[j]
    OBVIOUS
  <2>2. CallInv(c)
    BY <1>2, <2>1
  <2>3. CallInv(c)'
    BY <1>1, <2>2, StillInv
  <2> QED  BY <2>1, <2>3
<1>4. Made'
  BY <1>2 DEF Made
<1> QED  BY <1>2, <1>3, <1>4 DEF CallsKept

LEMMA LoopsStay ==
    ASSUME LoopsSurvive, CallsKept, dead' = dead
    PROVE  LoopsSurvive'
  BY TheSides DEF LoopsSurvive, CallsKept, Threw

LEMMA TypedStays ==
    ASSUME Typed, UNCHANGED <<setting, binds, bound, objects>>,
           ended' \in [Sides -> BOOLEAN], dead' \in [Sides -> BOOLEAN],
           incoming' \in Seq(Calls), CallsKept
    PROVE  Typed'
<1>1. Fitting(binds)' /\ Fitting(bound)'
  BY DEF Typed, Fitting, Fits, Qrpc
<1> QED  BY <1>1 DEF Typed, CallsKept

(* A step of one call keeps the invariant. *)
LEMMA StepsKeep ==
    ASSUME RpcInv, NEW i \in Calls, Steps(i)
    PROVE  RpcInv'
<1>1. Typed /\ Waiting /\ Made /\ (\A j \in Calls : CallInv(call[j])) /\ LoopsSurvive
  BY DEF RpcInv
<1>2. PICK d : Only(i, d) /\ Stepped(i, d)
  BY DEF Steps
<1>3. /\ Put(i, d)
      /\ UNCHANGED <<setting, binds, bound, mountPath, objects, incoming, ended, dead>>
  BY <1>2 DEF Only
<1>4. /\ d \in CallType /\ CallInv(d) /\ (call[i].stage # "idle" \/ i \in DOMAIN setting.path)
      /\ (call[i].responder = "incoming" => d.responder = "incoming")
      /\ (Returns(call[i].ran) > 1 => Returns(d.ran) > 1)
      /\ \A s \in Sides : call[i].late[s] => d.late[s]
  BY <1>2 DEF Stepped, Keeps
<1>5. CallsKept
  BY <1>1, <1>3, <1>4, OneKept
<1>6. Typed'
  BY <1>1, <1>3, <1>5, TypedStays DEF Typed
<1>7. Waiting'
  <2>1. \A j \in Calls : call[j].responder = "incoming" => call'[j].responder = "incoming"
    BY <1>1, <1>3, <1>4 DEF Put, Typed
  <2>2. incoming \in Seq(Calls) /\ \A n \in 1 .. Len(incoming) : incoming[n] \in Calls
    BY <1>1, ElementOfSeq DEF Typed
  <2> QED  BY <1>1, <1>3, <2>1, <2>2 DEF Waiting
<1>8. LoopsSurvive'
  BY <1>1, <1>3, <1>5, LoopsStay
<1> QED  BY <1>5, <1>6, <1>7, <1>8 DEF RpcInv, CallsKept

-----------------------------------------------------------------------------
(* Channels open, and the server accepts them *)

LEMMA OpenedKeeps ==
    ASSUME RpcInv, NEW i \in Calls, Opened(i)
    PROVE  RpcInv'
<1>1. Typed /\ Waiting /\ Made /\ (\A j \in Calls : CallInv(call[j])) /\ LoopsSurvive
  BY DEF RpcInv
<1>2. PICK d : Put(i, d) /\ Stepped(i, d) /\ call[i].responder = "none" /\ d.responder = "incoming"
  BY <1>1, OpenedSteps
<1>3. /\ incoming' = Append(incoming, i)
      /\ UNCHANGED <<setting, binds, bound, mountPath, objects, ended, dead>>
  BY DEF Opened
<1>4. CallsKept
  BY <1>1, <1>2, <1>3, OneKept DEF Stepped, Keeps
<1>5. incoming \in Seq(Calls) /\ call \in [Calls -> CallType]
  BY <1>1 DEF Typed
<1>6. /\ incoming' \in Seq(Calls) /\ Len(incoming') = Len(incoming) + 1 /\ Len(incoming) \in Nat
      /\ incoming'[Len(incoming) + 1] = i
      /\ \A n \in 1 .. Len(incoming) : incoming'[n] = incoming[n] /\ incoming[n] \in Calls
  BY <1>3, <1>5, OneMore, ElementOfSeq
<1>7. Typed'
  BY <1>1, <1>3, <1>4, <1>6, TypedStays DEF Typed
<1>8. Waiting'
  <2>1. call'[i].responder = "incoming" /\ \A j \in Calls : j # i => call'[j] = call[j]
    BY <1>2, <1>5 DEF Put
  <2>2. \A n \in 1 .. Len(incoming) : incoming[n] # i /\ call[incoming[n]].responder = "incoming"
    BY <1>1, <1>2 DEF Waiting
  <2>3. \A n \in 1 .. Len(incoming') : n \in 1 .. Len(incoming) \/ n = Len(incoming) + 1
    BY <1>6
  <2>4. \A n \in 1 .. Len(incoming') : call'[incoming'[n]].responder = "incoming"
    BY <1>6, <2>1, <2>2, <2>3
  <2>5. \A m, n \in 1 .. Len(incoming') : incoming'[m] = incoming'[n] => m = n
    BY <1>1, <1>6, <2>2, <2>3 DEF Waiting
  <2> QED  BY <2>4, <2>5 DEF Waiting
<1>9. LoopsSurvive'
  BY <1>1, <1>3, <1>4, LoopsStay
<1> QED  BY <1>4, <1>7, <1>8, <1>9 DEF RpcInv, CallsKept

LEMMA AcceptKeeps ==
    ASSUME RpcInv, Accept
    PROVE  RpcInv'
<1>1. Typed /\ Waiting /\ Made /\ (\A j \in Calls : CallInv(call[j])) /\ LoopsSurvive
  BY DEF RpcInv
<1>2. incoming \in Seq(Calls) /\ call \in [Calls -> CallType] /\ incoming # <<>>
  BY <1>1 DEF Typed, Accept
<1>3. PICK i : i = Head(incoming)
  OBVIOUS
<1>4. /\ Tail(incoming) \in Seq(Calls) /\ Len(Tail(incoming)) = Len(incoming) - 1
      /\ Len(incoming) \in Nat \ {0} /\ i \in Calls /\ i = incoming[1]
      /\ \A n \in 1 .. Len(Tail(incoming)) : Tail(incoming)[n] = incoming[n + 1]
  BY <1>2, <1>3, OneLess
<1>5. call[i].responder = "incoming"
  BY <1>1, <1>4 DEF Waiting
<1>6. PICK c \in CallType : c = call[i] /\ CallInv(c) /\ Impls
  BY <1>1, <1>4, ThisCall
<1>7. PICK d : d = AsAccepted(c)
  OBVIOUS
<1>8. /\ incoming' = Tail(incoming) /\ Put(i, d)
      /\ UNCHANGED <<setting, binds, bound, mountPath, objects, ended, dead>>
  BY <1>3, <1>6, <1>7 DEF Accept, AsAccepted
<1>9. /\ d \in CallType /\ CallerSame(c, d) /\ ChannelKept(c, d)
      /\ d.responder = "frame" /\ d.ran = c.ran /\ d.replies = c.replies /\ d.raw = c.raw
      /\ d.phase = [c.phase EXCEPT !["responder"] = "size"]
      /\ d.size = c.size /\ d.count = c.count /\ d.values = c.values
  <2>1. /\ AsAccepted(c) \in CallType /\ CallerSame(c, AsAccepted(c)) /\ ChannelKept(c, AsAccepted(c))
        /\ AsAccepted(c).responder = "frame" /\ AsAccepted(c).ran = c.ran
        /\ AsAccepted(c).replies = c.replies /\ AsAccepted(c).raw = c.raw
        /\ AsAccepted(c).phase = [c.phase EXCEPT !["responder"] = "size"]
        /\ AsAccepted(c).size = c.size /\ AsAccepted(c).count = c.count
        /\ AsAccepted(c).values = c.values
    BY AcceptDoes
  <2> QED  BY <1>7, <2>1
<1>10. CallInv(d) /\ c.stage # "idle" /\ d.late = c.late
  BY <1>5, <1>6, <1>9, AcceptGoes
<1>11. CallsKept
  BY <1>1, <1>4, <1>6, <1>8, <1>9, <1>10, OneKept
<1>12. Typed'
  BY <1>1, <1>4, <1>8, <1>11, TypedStays DEF Typed
<1>13. Waiting'
  <2>1. \A j \in Calls : j # i => call'[j] = call[j]
    BY <1>2, <1>8 DEF Put
  <2>2. \A n \in 1 .. Len(incoming') : n + 1 \in 1 .. Len(incoming) /\ n + 1 # 1 /\ 1 \in 1 .. Len(incoming)
    BY <1>4, <1>8
  <2>3. \A n \in 1 .. Len(incoming) : incoming[n] \in Calls /\ call[incoming[n]].responder = "incoming"
    BY <1>1, <1>2, ElementOfSeq DEF Waiting
  <2>4. \A n \in 1 .. Len(incoming') : incoming'[n] = incoming[n + 1] /\ incoming[n + 1] # i
    BY <1>1, <1>4, <1>8, <2>2 DEF Waiting
  <2>5. \A n \in 1 .. Len(incoming') : call'[incoming'[n]].responder = "incoming"
    BY <2>1, <2>2, <2>3, <2>4
  <2>6. \A m, n \in 1 .. Len(incoming') : incoming'[m] = incoming'[n] => m + 1 = n + 1
    BY <1>1, <2>2, <2>4 DEF Waiting
  <2>7. \A m, n \in 1 .. Len(incoming') : m + 1 = n + 1 => m = n
    OBVIOUS
  <2> QED  BY <2>5, <2>6, <2>7 DEF Waiting
<1>14. LoopsSurvive'
  BY <1>1, <1>8, <1>11, LoopsStay
<1> QED  BY <1>11, <1>12, <1>13, <1>14 DEF RpcInv, CallsKept

-----------------------------------------------------------------------------
(* A session ends, or its loop throws *)

LEMMA AllKept ==
    ASSUME Made, setting' = setting, call' \in [Calls -> CallType],
           (\A j \in Calls : CallInv(call[j]))',
           \A j \in Calls : /\ CallerSame(call[j], call'[j]) /\ ServerSame(call[j], call'[j])
                            /\ call'[j].late = call[j].late
    PROVE  CallsKept /\ \A j \in Calls : call'[j].responder = call[j].responder
<1>1. Made'
  BY DEF Made, CallerSame
<1> QED  BY <1>1 DEF CallsKept, ServerSame

LEMMA WaitingStays ==
    ASSUME Typed, Waiting, incoming' = incoming,
           \A j \in Calls : call'[j].responder = call[j].responder
    PROVE  Waiting'
<1>1. \A n \in 1 .. Len(incoming) : incoming[n] \in Calls
  BY ElementOfSeq DEF Typed
<1> QED  BY <1>1 DEF Waiting

LEMMA EndsKeeps ==
    ASSUME RpcInv, NEW s \in Sides, Ends(s)
    PROVE  RpcInv'
<1>1. Typed /\ Waiting /\ Made /\ (\A j \in Calls : CallInv(call[j])) /\ LoopsSurvive /\ Impls
  BY ImplsOfSetting DEF RpcInv
<1>2. /\ ~Mock /\ ended' = [ended EXCEPT ![s] = TRUE]
      /\ call' = [j \in Calls |-> ShutDown(call[j], s)]
      /\ UNCHANGED <<setting, binds, bound, mountPath, objects, incoming, dead>>
  BY DEF Ends
<1>3. ended \in [Sides -> BOOLEAN] /\ call \in [Calls -> CallType]
  BY <1>1 DEF Typed
<1>4. \A j \in Calls : /\ call'[j] \in CallType /\ CallInv(call[j])'
                       /\ CallerSame(call[j], call'[j]) /\ ServerSame(call[j], call'[j])
                       /\ call'[j].late = call[j].late
  <2> TAKE j \in Calls
  <2>1. PICK c \in CallType : c = call[j]
    BY <1>3
  <2>2. PICK d : d = ShutDown(c, s) /\ d = call'[j]
    BY <1>2, <2>1
  <2>3. d \in CallType /\ Others(c, d) /\ WasShut(c, d, s) /\ d.listed = c.listed
    BY <2>2, ShutDownDoes DEF Others
  <2>4. CallInv(c)
    BY <1>1, <2>1
  <2>5. CallInv(d)'
    BY <1>1, <1>2, <1>3, <2>3, <2>4, EndInv
  <2>6. CallInv(call[j])'
    BY <2>2, <2>5
  <2> QED  BY <2>1, <2>2, <2>3, <2>6 DEF Others, WasShut
<1>5. call' \in [Calls -> CallType]
  BY <1>2, <1>4
<1>6. CallsKept /\ \A j \in Calls : call'[j].responder = call[j].responder
  BY <1>1, <1>2, <1>4, <1>5, AllKept
<1>7. Typed'
  BY <1>1, <1>2, <1>3, <1>6, TypedStays DEF Typed
<1>8. Waiting' /\ LoopsSurvive'
  BY <1>1, <1>2, <1>6, WaitingStays, LoopsStay
<1> QED  BY <1>6, <1>7, <1>8 DEF RpcInv, CallsKept

(* What MockSession.close does to a call. *)
MockOver(c) ==
    [c EXCEPT !.gone = [t \in Sides |-> @[t] \/ t \in c.listed],
              !.in = [t \in Sides |-> IF t \in c.listed THEN <<>> ELSE @[t]]]

LEMMA MockOverDoes ==
    ASSUME NEW c \in CallType, NEW d, d = MockOver(c)
    PROVE  d \in CallType /\ MockShut(c, d)
<1>1. /\ c.gone \in [Sides -> BOOLEAN] /\ c.in \in [Sides -> Seq(PartType)] /\ c.listed \in SUBSET Sides
  BY Fields
<1> DEFINE gone == [t \in Sides |-> c.gone[t] \/ t \in c.listed]
           in == [t \in Sides |-> IF t \in c.listed THEN <<>> ELSE c.in[t]]
<1>2. gone \in [Sides -> BOOLEAN]
  <2>1. \A t \in Sides : (c.gone[t] \/ t \in c.listed) \in BOOLEAN
    BY Zenon
  <2> QED  BY <2>1, Zenon
<1>3. in \in [Sides -> Seq(PartType)]
  BY <1>1
<1>4. d = [c EXCEPT !.gone = gone, !.in = in]
  BY DEF MockOver
<1>5. \A t \in Sides : IF t \in c.listed THEN gone[t] /\ in[t] = <<>>
                       ELSE gone[t] = c.gone[t] /\ in[t] = c.in[t]
  <2>1. \A t \in Sides : gone[t] = (c.gone[t] \/ t \in c.listed)
    BY Zenon
  <2>2. \A t \in Sides : c.gone[t] \in BOOLEAN
    BY <1>1
  <2>3. \A t \in Sides : in[t] = IF t \in c.listed THEN <<>> ELSE c.in[t]
    OBVIOUS
  <2> HIDE DEF gone, in
  <2> QED  BY <2>1, <2>3, <2>2
<1> HIDE DEF gone, in
<1>6. d \in CallType /\ d.gone = gone /\ d.in = in
  <2>1. PICK g \in [Sides -> BOOLEAN] : g = gone
    BY <1>2, Zenon
  <2>2. PICK q \in [Sides -> Seq(PartType)] : q = in
    BY <1>3, Zenon
  <2>3. d = [c EXCEPT !.gone = g, !.in = q]
    BY <1>4, <2>1, <2>2, Zenon
  <2>4. d \in CallType /\ d.gone = g /\ d.in = q
    BY <2>3 DEF CallType
  <2> QED  BY <2>1, <2>2, <2>4, Zenon
<1>7. Others(c, d)
  BY <1>4, <1>6 DEF Others, CallerSame, ServerSame, CodecSame, CallType
<1>8. d.out = c.out /\ d.late = c.late /\ d.sentClose = c.sentClose /\ d.finishing = c.finishing
  BY <1>4 DEF CallType
<1> QED  BY <1>5, <1>6, <1>7, <1>8 DEF MockShut

LEMMA MockEndsKeeps ==
    ASSUME RpcInv, NEW s \in Sides, MockEnds(s)
    PROVE  RpcInv'
<1>1. Typed /\ Waiting /\ Made /\ (\A j \in Calls : CallInv(call[j])) /\ LoopsSurvive /\ Impls
  BY ImplsOfSetting DEF RpcInv
<1>2. /\ Mock /\ ended' = [t \in Sides |-> TRUE]
      /\ call' = [j \in Calls |-> MockOver(call[j])]
      /\ UNCHANGED <<setting, binds, bound, mountPath, objects, incoming, dead>>
  BY DEF MockEnds, MockOver
<1>3. ended \in [Sides -> BOOLEAN] /\ call \in [Calls -> CallType]
  BY <1>1 DEF Typed
<1>4. \A j \in Calls : /\ call'[j] \in CallType /\ CallInv(call[j])'
                       /\ CallerSame(call[j], call'[j]) /\ ServerSame(call[j], call'[j])
                       /\ call'[j].late = call[j].late
  <2> TAKE j \in Calls
  <2>1. PICK c \in CallType : c = call[j]
    BY <1>3
  <2>2. PICK d : d = MockOver(c) /\ d = call'[j]
    BY <1>2, <2>1
  <2>3. d \in CallType /\ MockShut(c, d)
    BY <2>2, MockOverDoes
  <2>4. CallInv(c)
    BY <1>1, <2>1
  <2>5. CallInv(d)'
    BY <1>1, <1>2, <1>3, <2>3, <2>4, MockEndInv
  <2>6. CallInv(call[j])'
    BY <2>2, <2>5
  <2> QED  BY <2>1, <2>2, <2>3, <2>6 DEF Others, MockShut
<1>5. call' \in [Calls -> CallType]
  BY <1>2, <1>4
<1>6. CallsKept /\ \A j \in Calls : call'[j].responder = call[j].responder
  BY <1>1, <1>2, <1>4, <1>5, AllKept
<1>7. Typed'
  BY <1>1, <1>2, <1>3, <1>6, TypedStays DEF Typed
<1>8. Waiting' /\ LoopsSurvive'
  BY <1>1, <1>2, <1>6, WaitingStays, LoopsStay
<1> QED  BY <1>6, <1>7, <1>8 DEF RpcInv, CallsKept

(* A message for a channel that is gone: its call was told, or threw, or heard more *)
(* than it should.                                                                  *)
LEMMA WhyInvalid ==
    ASSUME Typed, NEW i \in Calls, CallInv(call[i]), NEW s \in Sides,
           call[i].out[Other(s)] # <<>>, call[i].gone[s], ~ended[s]
    PROVE  ~Mock /\ (call[i].late[Other(s)] \/ Returns(call[i].ran) > 1)
<1>1. PICK o \in Sides : o = Other(s)
  BY TheSides
<1>2. Shut(call[i], s) /\ Shut(call[i], o)
  BY PartsOfInv
<1>3. ~Mock
  BY <1>1, <1>2 DEF Shut
<1>4. Heard(call[i], s) \/ Doubled(call[i])
  BY <1>2, <1>3 DEF Shut
<1> QED  BY <1>3, <1>4 DEF Heard, Doubled

LEMMA SameOut ==
    ASSUME NEW c \in CallType, NEW t
    PROVE  [c EXCEPT !.out[t] = @] = c
<1>1. c.out \in [Sides -> Seq(MessageType)]
  BY Fields
<1>2. [c.out EXCEPT ![t] = @] = c.out
  BY <1>1
<1>3. [c EXCEPT !.out = c.out] = c
  BY DEF CallType
<1> QED  BY <1>2, <1>3

(* What the session makes of the calls that are left. *)
LoopEnded(c, s) == IF Go(s) THEN ShutDown(c, s) ELSE c

LEMMA LoopEndedDoes ==
    ASSUME NEW c \in CallType, NEW s \in Sides, NEW d, d = LoopEnded(c, s), Impls, CallInv(c),
           setting' = setting, ended \in [Sides -> BOOLEAN], ~ended[s],
           ended' = [ended EXCEPT ![s] = Go(s)], ~Mock
    PROVE  d \in CallType /\ CallInv(d)' /\ CallerSame(c, d) /\ ServerSame(c, d) /\ d.late = c.late
<1>1. CASE Go(s)
  <2>1. d = ShutDown(c, s)
    BY <1>1 DEF LoopEnded
  <2>2. d \in CallType /\ Others(c, d) /\ WasShut(c, d, s) /\ d.listed = c.listed
    BY <2>1, ShutDownDoes DEF Others
  <2>3. ended' = [ended EXCEPT ![s] = TRUE]
    BY <1>1, GoOrNot
  <2>4. CallInv(d)'
    BY <2>2, <2>3, EndInv
  <2> QED  BY <2>2, <2>4 DEF Others, WasShut
<1>2. CASE ~Go(s)
  <2>1. d = c
    BY <1>2 DEF LoopEnded
  <2>2. Go(s) = FALSE
    BY <1>2, GoOrNot
  <2>3. ended' = ended
    BY <2>2
  <2>4. CallInv(c)'
    BY <2>3, StillInv
  <2>5. CallInv(d)'
    BY <2>1, <2>4
  <2> QED  BY <2>1, <2>5, KeptSelf
<1> QED  BY <1>1, <1>2

LEMMA InvalidChannelKeeps ==
    ASSUME RpcInv, NEW i \in Calls, NEW s \in Sides, InvalidChannel(i, s)
    PROVE  RpcInv'
<1>1. Typed /\ Waiting /\ Made /\ (\A j \in Calls : CallInv(call[j])) /\ LoopsSurvive /\ Impls
  BY ImplsOfSetting DEF RpcInv
<1>2. /\ call[i].out[Other(s)] # <<>> /\ ~ended[s] /\ call[i].gone[s]
      /\ dead' = [dead EXCEPT ![s] = TRUE] /\ ended' = [ended EXCEPT ![s] = Go(s)]
      /\ call' = [j \in Calls |->
            LoopEnded([call[j] EXCEPT !.out[Other(s)] = IF j = i THEN Tail(@) ELSE @], s)]
      /\ UNCHANGED <<setting, binds, bound, mountPath, objects, incoming>>
  BY DEF InvalidChannel, Arrived, LoopEnded
<1>3. /\ ended \in [Sides -> BOOLEAN] /\ dead \in [Sides -> BOOLEAN] /\ call \in [Calls -> CallType]
  BY <1>1 DEF Typed
<1>4. ~Mock /\ (call[i].late[Other(s)] \/ Returns(call[i].ran) > 1)
  BY <1>1, <1>2, WhyInvalid
<1>5. \A j \in Calls : /\ call'[j] \in CallType /\ CallInv(call[j])'
                       /\ CallerSame(call[j], call'[j]) /\ ServerSame(call[j], call'[j])
                       /\ call'[j].late = call[j].late
  <2> TAKE j \in Calls
  <2>1. PICK c \in CallType : c = call[j] /\ CallInv(c)
    BY <1>1, <1>3
  <2>2. PICK e : e = [c EXCEPT !.out[Other(s)] = IF j = i THEN Tail(@) ELSE @]
    OBVIOUS
  <2>3. PICK d : d = LoopEnded(e, s) /\ d = call'[j]
    BY <1>2, <2>1, <2>2
  <2>4. /\ e \in CallType /\ CallInv(e) /\ CallerSame(c, e) /\ ServerSame(c, e) /\ e.late = c.late
    <3>1. CASE j = i
      <4>1. e = Less(c, s)
        BY <2>2, <3>1 DEF Less
      <4>2. c.out[Other(s)] # <<>> /\ c.gone[s]
        BY <1>2, <2>1, <3>1
      <4>3. Others(c, Less(c, s)) /\ Popped(c, Less(c, s), s) /\ Less(c, s).in = c.in
        BY <4>2, PopDoes
      <4>4. e \in CallType /\ Others(c, e) /\ Popped(c, e, s) /\ e.in = c.in
        BY <4>1, <4>3 DEF Others
      <4>5. Going(c, e)
        BY <1>1, <1>2, <2>1, <4>2, <4>4, PopGoes
      <4> QED  BY <4>4, <4>5 DEF Going, Keeps, Others, Popped
    <3>2. CASE j # i
      <4>1. e = [c EXCEPT !.out[Other(s)] = @]
        BY <2>2, <3>2
      <4>2. e = c
        BY <4>1, SameOut
      <4> QED  BY <2>1, <4>2, KeptSelf
    <3> QED  BY <3>1, <3>2
  <2>5. d \in CallType /\ CallInv(d)' /\ CallerSame(e, d) /\ ServerSame(e, d) /\ d.late = e.late
    BY <1>1, <1>2, <1>3, <1>4, <2>3, <2>4, LoopEndedDoes
  <2>6. CallerSame(c, d) /\ ServerSame(c, d)
    BY <2>4, <2>5, SameThrough DEF ServerSame
  <2>7. CallInv(call[j])'
    BY <2>3, <2>5
  <2> QED  BY <2>1, <2>3, <2>4, <2>5, <2>6, <2>7
<1>6. call' \in [Calls -> CallType]
  BY <1>2, <1>5
<1>7. CallsKept /\ \A j \in Calls : call'[j].responder = call[j].responder
  BY <1>1, <1>2, <1>5, <1>6, AllKept
<1>8. ended' \in [Sides -> BOOLEAN] /\ dead' \in [Sides -> BOOLEAN]
  BY <1>1, <1>2, <1>3, GoOrNot
<1>9. Typed'
  BY <1>1, <1>2, <1>7, <1>8, TypedStays DEF Typed
<1>10. Waiting'
  BY <1>1, <1>2, <1>7, WaitingStays
<1>11. LoopsSurvive'
  <2> SUFFICES ASSUME NEW t \in Sides, dead'[t]
               PROVE  Threw' \/ \E j \in Calls : call'[j].late[Other(t)]
    BY DEF LoopsSurvive
  <2>1. CASE t = s
    <3>1. call'[i].late[Other(s)] \/ Returns(call'[i].ran) > 1
      BY <1>4, <1>5 DEF ServerSame
    <3> QED  BY <2>1, <3>1 DEF Threw
  <2>2. CASE t # s
    <3>1. dead[t]
      BY <1>2, <1>3, <2>2
    <3>2. Threw \/ \E j \in Calls : call[j].late[Other(t)]
      BY <1>1, <3>1 DEF LoopsSurvive
    <3> QED  BY <3>2, <1>7, TheSides DEF Threw, CallsKept
  <2> QED  BY <2>1, <2>2
<1> QED  BY <1>7, <1>9, <1>10, <1>11 DEF RpcInv, CallsKept

-----------------------------------------------------------------------------
(* The server binds handlers, and objects come and go *)

LEMMA NothingKept ==
    ASSUME RpcInv, UNCHANGED <<setting, incoming, ended, dead, call>>
    PROVE  CallsKept /\ Waiting' /\ LoopsSurvive'
<1>1. Typed /\ Waiting /\ Made /\ (\A j \in Calls : CallInv(call[j])) /\ LoopsSurvive /\ Impls
  BY ImplsOfSetting DEF RpcInv
<1>2. call' \in [Calls -> CallType]
  BY <1>1 DEF Typed
<1>3. \A j \in Calls : CallInv(call[j])'
  <2> TAKE j \in Calls
  <2>1. PICK c : c = call[j] /\ c = call'[j]
    OBVIOUS
  <2>2. CallInv(c)
    BY <1>1, <2>1
  <2>3. CallInv(c)'
    BY <1>1, <2>2, StillInv
  <2> QED  BY <2>1, <2>3
<1>4. \A j \in Calls : /\ CallerSame(call[j], call'[j]) /\ ServerSame(call[j], call'[j])
                       /\ call'[j].late = call[j].late
  BY DEF CallerSame, ServerSame
<1>5. CallsKept /\ \A j \in Calls : call'[j].responder = call[j].responder
  BY <1>1, <1>2, <1>3, <1>4, AllKept
<1> QED  BY <1>1, <1>5, WaitingStays, LoopsStay

LEMMA BindFits ==
    ASSUME NEW list, Fitting(list), NEW b \in Binding, Fits(b)
    PROVE  Fitting(Bind(list, b.path, b.handler))
<1>1. PICK r : r = [path |-> b.path, handler |-> b.handler]
  OBVIOUS
<1>2. r \in Binding /\ r.handler = b.handler
  BY <1>1 DEF Binding
<1>3. Fits(r)
  BY <1>2 DEF Fits
<1>4. list \in Seq(Binding) /\ \A n \in 1 .. Len(list) : list[n] \in Binding /\ Fits(list[n])
  BY ElementOfSeq DEF Fitting
<1>5. CASE \E n \in DOMAIN list : list[n].path = b.path
  <2>1. PICK q : q = [n \in DOMAIN list |-> IF list[n].path = b.path THEN r ELSE list[n]]
    OBVIOUS
  <2>2. Bind(list, b.path, b.handler) = q
    BY <1>1, <1>5, <2>1 DEF Bind
  <2>3. DOMAIN list = 1 .. Len(list) /\ Len(list) \in Nat
    BY <1>4, LenProperties
  <2>4. \A n \in 1 .. Len(list) : q[n] = r \/ q[n] = list[n]
    BY <2>1, <2>3
  <2>5. \A n \in 1 .. Len(list) : q[n] \in Binding /\ Fits(q[n])
    BY <1>2, <1>3, <1>4, <2>4
  <2>6. q \in [1 .. Len(list) -> Binding]
    BY <2>1, <2>3, <2>5
  <2>7. q \in Seq(Binding) /\ Len(q) = Len(list)
    BY <2>3, <2>6, SeqDef, LenProperties
  <2> QED  BY <2>2, <2>5, <2>7 DEF Fitting
<1>6. CASE ~\E n \in DOMAIN list : list[n].path = b.path
  <2>1. Bind(list, b.path, b.handler) = Append(list, r)
    BY <1>1, <1>6 DEF Bind
  <2>2. /\ Append(list, r) \in Seq(Binding) /\ Len(Append(list, r)) = Len(list) + 1
        /\ Append(list, r)[Len(list) + 1] = r /\ Len(list) \in Nat
        /\ \A n \in 1 .. Len(list) : Append(list, r)[n] = list[n]
    BY <1>2, <1>4, OneMore
  <2>3. \A n \in 1 .. Len(Append(list, r)) : n \in 1 .. Len(list) \/ n = Len(list) + 1
    BY <2>2
  <2>4. \A n \in 1 .. Len(Append(list, r)) : Fits(Append(list, r)[n])
    BY <1>3, <1>4, <2>2, <2>3
  <2> QED  BY <2>1, <2>2, <2>4 DEF Fitting
<1> QED  BY <1>5, <1>6

(* A bind, of a handler or of an ObjectManager. *)
LEMMA BindsKeep ==
    ASSUME RpcInv, BindNext \/ Mount
    PROVE  RpcInv'
<1>1. /\ binds # <<>> /\ binds' = Tail(binds)
      /\ bound' = Bind(bound, Head(binds).path, Head(binds).handler)
      /\ UNCHANGED <<setting, objects, incoming, ended, dead, call>>
  BY DEF BindNext, Mount
<1>2. Typed
  BY DEF RpcInv
<1>3. Fitting(binds) /\ Fitting(bound)
  BY <1>2 DEF Typed
<1>4. /\ Tail(binds) \in Seq(Binding) /\ Len(Tail(binds)) = Len(binds) - 1
      /\ Len(binds) \in Nat \ {0} /\ Head(binds) \in Binding /\ Head(binds) = binds[1]
      /\ \A n \in 1 .. Len(Tail(binds)) : Tail(binds)[n] = binds[n + 1]
  BY <1>1, <1>3, OneLess DEF Fitting
<1>5. Fits(Head(binds)) /\ \A n \in 1 .. Len(Tail(binds)) : Fits(Tail(binds)[n])
  <2>1. 1 \in 1 .. Len(binds) /\ \A n \in 1 .. Len(Tail(binds)) : n + 1 \in 1 .. Len(binds)
    BY <1>4
  <2> QED  BY <1>3, <1>4, <2>1 DEF Fitting
<1>6. Fitting(Bind(bound, Head(binds).path, Head(binds).handler)) /\ Fitting(Tail(binds))
  BY <1>3, <1>4, <1>5, BindFits DEF Fitting
<1>7. Fitting(binds)' /\ Fitting(bound)'
  BY <1>1, <1>6 DEF Fitting, Fits, Qrpc
<1>8. CallsKept /\ Waiting' /\ LoopsSurvive'
  BY <1>1, NothingKept
<1>9. Typed'
  BY <1>1, <1>2, <1>7, <1>8 DEF Typed, CallsKept
<1> QED  BY <1>8, <1>9 DEF RpcInv, CallsKept

LEMMA ObjectsKeep ==
    ASSUME RpcInv, NEW id \in setting.ids, Register(id) \/ Dispose(id)
    PROVE  RpcInv'
<1>1. /\ DOMAIN objects' = DOMAIN objects
      /\ UNCHANGED <<setting, binds, bound, incoming, ended, dead, call>>
  BY DEF Register, Dispose
<1>2. Typed
  BY DEF RpcInv
<1>3. CallsKept /\ Waiting' /\ LoopsSurvive'
  BY <1>1, NothingKept
<1>4. Fitting(binds)' /\ Fitting(bound)'
  BY <1>1, <1>2 DEF Typed, Fitting, Fits, Qrpc
<1>5. Typed'
  BY <1>1, <1>2, <1>3, <1>4 DEF Typed, CallsKept
<1> QED  BY <1>3, <1>5 DEF RpcInv, CallsKept

LEMMA StutterKeeps ==
    ASSUME RpcInv, UNCHANGED vars
    PROVE  RpcInv'
<1>1. UNCHANGED <<setting, binds, bound, objects, incoming, ended, dead, call>>
  BY DEF vars
<1>2. CallsKept /\ Waiting' /\ LoopsSurvive' /\ Typed
  BY <1>1, NothingKept DEF RpcInv
<1>3. Typed'
  BY <1>1, <1>2, TypedStays DEF Typed
<1> QED  BY <1>2, <1>3 DEF RpcInv, CallsKept

-----------------------------------------------------------------------------
(* The invariant *)

(* A call that has not been made. *)
LEMMA NewCallTyped ==
    /\ NewCall \in CallType
    /\ NewCall.stage = "idle" /\ NewCall.responder = "none" /\ NewCall.ran = "none"
    /\ NewCall.todo = <<>> /\ NewCall.got = <<>> /\ NewCall.replies = <<>>
    /\ NewCall.listed = {} /\ NewCall.reply = "none" /\ NewCall.raw = 0
    /\ ~NewCall.error /\ ~NewCall.hijacked
    /\ \A s \in Sides :
        /\ NewCall.out[s] = <<>> /\ NewCall.in[s] = <<>> /\ NewCall.values[s] = <<>>
        /\ NewCall.phase[s] = "none" /\ NewCall.count[s] = 0
        /\ ~NewCall.late[s] /\ ~NewCall.finishing[s] /\ ~NewCall.gone[s] /\ ~NewCall.sentClose[s]
<1>1. PICK e : e = [s \in Sides |-> <<>>]
  OBVIOUS
<1>2. /\ e \in [Sides -> Seq(MessageType)] /\ e \in [Sides -> Seq(PartType)]
      /\ e \in [Sides -> Seq(ValueType)] /\ \A s \in Sides : e[s] = <<>>
  <2>1. <<>> \in Seq(MessageType) /\ <<>> \in Seq(PartType) /\ <<>> \in Seq(ValueType)
    OBVIOUS
  <2> QED  BY <1>1, <2>1
<1>3. PICK f : f = [s \in Sides |-> FALSE]
  OBVIOUS
<1>4. f \in [Sides -> BOOLEAN] /\ \A s \in Sides : ~f[s]
  BY <1>3
<1>5. PICK p : p = [s \in Sides |-> "none"]
  OBVIOUS
<1>6. p \in [Sides -> {"none", "size", "body", "stopped"}] /\ \A s \in Sides : p[s] = "none"
  BY <1>5
<1>7. PICK z : z = [s \in Sides |-> 0]
  OBVIOUS
<1>8. z \in [Sides -> Nat] /\ \A s \in Sides : z[s] = 0
  BY <1>7
<1>9. NewCall = [stage |-> "idle", todo |-> <<>>, error |-> FALSE, hijacked |-> FALSE,
                 reply |-> "none", responder |-> "none", ran |-> "none", replies |-> <<>>,
                 listed |-> {}, out |-> e, in |-> e, sentClose |-> f, finishing |-> f, gone |-> f,
                 late |-> f, phase |-> p, size |-> z, count |-> z, values |-> e, raw |-> 0,
                 got |-> <<>>]
  BY <1>1, <1>3, <1>5, <1>7 DEF NewCall
<1>10. NewCall \in CallType
  <2>1. 0 \in 0 .. MaxRaw
    BY SettingsAssumption
  <2> QED  BY <1>2, <1>4, <1>6, <1>8, <1>9, <2>1 DEF CallType, Stages, Kinds
<1> QED  BY <1>2, <1>4, <1>6, <1>8, <1>9, <1>10

LEMMA NewCallInv ==
    ASSUME Impls, \A s \in Sides : ~ended[s]
    PROVE  CallInv(NewCall)
<1>1. PICK c \in CallType : c = NewCall
  BY NewCallTyped
<1>2. /\ c.stage = "idle" /\ c.responder = "none" /\ c.ran = "none"
      /\ c.todo = <<>> /\ c.got = <<>> /\ c.replies = <<>>
      /\ c.listed = {} /\ c.reply = "none" /\ c.raw = 0
      /\ ~c.error /\ ~c.hijacked
      /\ \A s \in Sides :
          /\ c.out[s] = <<>> /\ c.in[s] = <<>> /\ c.values[s] = <<>>
          /\ c.phase[s] = "none" /\ c.count[s] = 0
          /\ ~c.late[s] /\ ~c.finishing[s] /\ ~c.gone[s] /\ ~c.sentClose[s]
  BY <1>1, NewCallTyped
<1>3. Fresh(c)
  BY <1>2 DEF Fresh
<1>4. Len(<<>>) = 0 /\ \A n \in 1 .. 0 : FALSE
  OBVIOUS
<1>5. Asking(c)
  BY <1>2, <1>4 DEF Asking, Closes
<1>6. Returns("none") = 1
  BY DEF Returns
<1>7. Serving(c)
  BY <1>2, <1>4, <1>6 DEF Serving, Returned
<1>8. \A s \in Sides : ~Closes(c.out[s]) /\ ~GoesOn(c.out[s]) /\ ClosesOnce(c.out[s])
  BY <1>2, <1>4 DEF Closes, GoesOn, ClosesOnce
<1>9. \A s \in Sides : Closed(c, s) /\ Shut(c, s) /\ Told(c, s)
  BY <1>2, <1>8, TheSides DEF Closed, Shut, Told
<1>10. First(c) /\ Answering(c)
  BY <1>2, <1>8, TheSides DEF First, Answering
<1>11. RequestRead(c)
  <2>1. AskedSoFar(c, 0)
    <3>1. Len(c.in["responder"]) = 0 /\ Len(c.out["caller"]) = 0 /\ AskedTaken(c) = 0
      BY <1>2, <1>4, TheSides DEF AskedTaken
    <3>2. 0 < AskedMessages
      BY AskedMost
    <3> QED  BY <1>2, <1>4, <3>1, <3>2 DEF AskedSoFar
  <2>2. 0 \in 0 .. AskedMessages
    BY AskedMost
  <2> QED  BY <1>2, <2>1, <2>2, TheSides DEF RequestRead
<1>12. ReplyCarried(c)
  BY <1>2, TheSides, ReplyFresh DEF Unanswered
<1>13. ToWrite(c) /\ Noted(c) /\ FailsBecause(c)
  BY <1>2, NothingNoted DEF ToWrite, FailsBecause
<1>14. CallInv(c)
  BY <1>3, <1>5, <1>7, <1>9, <1>10, <1>11, <1>12, <1>13, InvOfParts DEF Closing
<1> QED  BY <1>1, <1>14

LEMMA InvInit ==
    ASSUME Init
    PROVE  RpcInv
<1>1. /\ setting \in Settings /\ bound = <<>> /\ binds = setting.binds
      /\ objects = [id \in setting.ids |-> "new"] /\ incoming = <<>>
      /\ ended = [s \in Sides |-> FALSE] /\ dead = [s \in Sides |-> FALSE]
      /\ call = [i \in Calls |-> NewCall]
  BY DEF Init, NothingBound, NothingManaged
<1>2. IsSetting(setting)
  BY <1>1, SettingsAssumption
<1>3. Fitting(binds)
  <2>1. binds \in Seq(Binding)
    BY <1>1, <1>2 DEF IsSetting, Binding
  <2>2. DOMAIN binds = 1 .. Len(binds)
    BY <2>1, LenProperties
  <2>3. \A n \in 1 .. Len(binds) : Fits(binds[n])
    BY <1>1, <1>2, <2>2 DEF IsSetting, Fits, Qrpc
  <2> QED  BY <2>1, <2>3 DEF Fitting
<1>4. Fitting(bound)
  <2>1. <<>> \in Seq(Binding) /\ Len(<<>>) = 0
    OBVIOUS
  <2> QED  BY <1>1, <2>1 DEF Fitting
<1>5. call \in [Calls -> CallType]
  BY <1>1, NewCallTyped
<1>6. Typed
  BY <1>1, <1>3, <1>4, <1>5 DEF Typed
<1>7. Impls
  BY <1>6, ImplsOfSetting
<1>8. CallInv(NewCall)
  BY <1>1, <1>7, NewCallInv
<1>9. \A i \in Calls : CallInv(call[i])
  BY <1>1, <1>8
<1>10. Waiting /\ LoopsSurvive
  BY <1>1 DEF Waiting, LoopsSurvive
<1>11. Made
  BY <1>1, NewCallTyped DEF Made
<1> QED  BY <1>6, <1>9, <1>10, <1>11 DEF RpcInv

(* What an application, or the server's, does. *)
LEMMA InvApplication ==
    ASSUME RpcInv, Application
    PROVE  RpcInv'
<1>1. Typed /\ Made /\ \A i \in Calls : CallInv(call[i])
  BY DEF RpcInv
<1>2. CASE BindNext \/ Mount
  BY <1>2, BindsKeep
<1>3. CASE \E id \in setting.ids : Register(id) \/ Dispose(id)
  BY <1>3, ObjectsKeep
<1>4. CASE \E i \in Calls : Call(i) \/ TakeRaw(i) \/ HijackWrites(i) \/ HijackCloses(i)
  <2>1. PICK i \in Calls : Call(i) \/ TakeRaw(i) \/ HijackWrites(i) \/ HijackCloses(i)
    BY <1>4
  <2>2. Steps(i)
    BY <1>1, <2>1, CallSteps, TakeRawSteps, HijackWritesSteps, HijackClosesSteps
  <2> QED  BY <2>2, StepsKeep
<1>5. CASE \E s \in Sides : EndSession(s)
  BY <1>5, EndsKeeps, MockEndsKeeps DEF EndSession
<1> QED  BY <1>2, <1>3, <1>4, <1>5 DEF Application

(* What the sessions, the codecs, the callers and the responders do. *)
LEMMA InvRuns ==
    ASSUME RpcInv, Runs
    PROVE  RpcInv'
<1>1. Typed /\ Made /\ \A i \in Calls : CallInv(call[i])
  BY DEF RpcInv
<1>2. CASE Accept
  BY <1>2, AcceptKeeps
<1>3. CASE \E s \in Sides : LoopEnds(s)
  BY <1>3, EndsKeeps DEF LoopEnds
<1>4. ASSUME NEW i \in Calls, Meet(i) \/ OpenFails(i) \/ CallerWrites(i)
             \/ GotHeader(i) \/ GotReply(i) \/ CallerClosed(i)
             \/ Dispatch(i) \/ GotArgs(i) \/ ResponderWrites(i)
      PROVE  RpcInv'
  <2>1. Steps(i)
    BY <1>1, <1>4, MeetSteps, OpenFailsSteps, CallerWritesSteps, GotHeaderSteps, GotReplySteps,
       CallerClosedSteps, DispatchSteps, GotArgsSteps, ResponderWritesSteps
  <2> QED  BY <2>1, StepsKeep
<1>5. ASSUME NEW i \in Calls, Opened(i)  PROVE RpcInv'
  BY <1>5, OpenedKeeps
<1>6. ASSUME NEW i \in Calls, NEW s \in Sides, Deliver(i, s) \/ Finish(i, s) \/ ReadLoop(i, s)
      PROVE  RpcInv'
  <2>1. Steps(i)
    BY <1>1, <1>6, DeliverSteps, FinishSteps, ReadSizeSteps, ReadBodySteps, ReadEndSteps DEF ReadLoop
  <2> QED  BY <2>1, StepsKeep
<1>7. ASSUME NEW i \in Calls, NEW s \in Sides, InvalidChannel(i, s)  PROVE RpcInv'
  BY <1>7, InvalidChannelKeeps
<1> QED  BY <1>2, <1>3, <1>4, <1>5, <1>6, <1>7 DEF Runs

(* What has been done for each call, and where the parts of its request and *)
(* of its reply are, is always as RpcInv says.                              *)
THEOREM Invariance == Spec => []RpcInv
<1>1. Init => RpcInv
  BY InvInit
<1>2. RpcInv /\ [Next]_vars => RpcInv'
  BY InvApplication, InvRuns, StutterKeeps DEF Next
<1> QED  BY <1>1, <1>2, PTL DEF Spec

-----------------------------------------------------------------------------
(* Theorems *)

(* Every variable has its type, and the caller's codec decodes no more than the *)
(* two frames of a reply, whatever else has come on the channel of a call.      *)
THEOREM TypesHold == Spec => []TypeOK
<1>1. RpcInv => TypeOK
  <2> SUFFICES ASSUME RpcInv
               PROVE  TypeOK
    OBVIOUS
  <2>1. Typed /\ \A i \in Calls : CallInv(call[i])
    BY DEF RpcInv
  <2>2. ASSUME NEW i \in Calls
        PROVE  /\ call[i].stage \in {"idle", "opening", "hanging", "writing", "header", "reply", "closing",
                                     "rejecting", "returned", "rejected", "failed"}
               /\ call[i].responder \in {"none", "incoming", "frame", "args", "done",
                                         "hijacking", "hijacked"}
               /\ \A s \in Sides : call[i].phase[s] \in {"none", "size", "body", "stopped"}
               /\ call[i].count["caller"] <= 2 /\ call[i].raw <= MaxRaw
               /\ Len(call[i].replies) <= 4
    <3>1. PICK c \in CallType : c = call[i] /\ CallInv(c)
      BY <2>1 DEF Typed
    <3>2. Counted(c) /\ Serving(c)
      BY <3>1, PartsOfInv DEF ReplyCarried
    <3> QED  BY <3>1, <3>2, Fields, SettingsAssumption DEF Counted, Serving, Stages
  <2> QED  BY <2>1, <2>2 DEF TypeOK, Typed
<1> QED  BY <1>1, Invariance, PTL

(* No call makes the loop of its session throw but one whose function threw,    *)
(* and so closed its channel twice, or that Go wrote to after its answer to the *)
(* Close of the other end.                                                      *)
THEOREM LoopsGoOn == Spec => []LoopsSurvive
<1>1. RpcInv => LoopsSurvive
  BY DEF RpcInv
<1> QED  BY <1>1, Invariance, PTL

(* A call that returns has the answer of the handler that ran for its path,  *)
(* however the codecs, the frames and the Closes of the two ends interleave;  *)
(* but for what is made of no frame, which is at the end of the session or of *)
(* the empty frame of undefined.                                              *)
THEOREM Answers == Spec => []AnswerIsHandlers
<1>1. RpcInv => AnswerIsHandlers
  <2> SUFFICES ASSUME RpcInv, NEW i \in Calls, NEW c, c = call[i],
                      c.stage \in {"returned", "rejected"}, Returns(c.ran) = 1
               PROVE  /\ c.ran # "none"
                      /\ c.hijacked = (c.ran = "hijack")
                      /\ c.error = (c.ran \notin {"value", "hijack"})
                      /\ c.stage = "returned" =>
                            \/ c.reply = Answer(c.ran).kind
                            \/ /\ c.reply = "EOF" /\ Go("caller") /\ ~setting.wanted
                               /\ ended["caller"] \/ Emptied(i)
                            \/ c.reply = "junk" /\ Emptied(i) /\ ~Go("caller")
                      /\ c.stage = "rejected" => c.error /\ (Qrpc \/ Go("caller"))
    BY DEF AnswerIsHandlers
  <2>1. c \in CallType /\ Noted(c)
    BY PartsOfInv DEF RpcInv, Typed
  <2>2. c.hijacked \in BOOLEAN /\ c.error \in BOOLEAN
    BY <2>1, Fields
  <2>3. CASE c.stage = "returned"
    <3>1. /\ c.ran # "none" /\ c.error = IsError(c.ran) /\ c.hijacked = (c.ran = "hijack")
          /\ \/ c.reply = AnswerOf(c).kind
             \/ /\ c.reply = "EOF" /\ Go("caller") /\ ~setting.wanted
                /\ TookEmpty(c) \/ ended["caller"]
             \/ c.reply = "junk" /\ ~Go("caller") /\ TookEmpty(c)
      BY <2>1, <2>3 DEF Noted
    <3>2. AnswerOf(c) = Answer(c.ran) /\ (TookEmpty(c) => Emptied(i))
      BY DEF AnswerOf, TookEmpty, Empty, Emptied
    <3> QED  BY <2>3, <3>1, <3>2 DEF IsError
  <2>4. CASE c.stage = "rejected"
    <3>1. c.ran # "none" /\ c.error /\ ~c.hijacked /\ IsError(c.ran) /\ (Qrpc \/ Go("caller"))
      BY <2>1, <2>4 DEF Noted
    <3> QED  BY <2>2, <2>4, <3>1 DEF IsError
  <2> QED  BY <2>3, <2>4
<1> QED  BY <1>1, Invariance, PTL

(* A call that fails has lost its session, was answered before its arguments   *)
(* had been written, or is of Go and has met a value that spans data messages, *)
(* the empty frame of undefined, or a value for which it has no reply.         *)
THEOREM FailsForReasons == Spec => []FailsOnlyWhen
<1>1. RpcInv => FailsOnlyWhen
  <2> SUFFICES ASSUME RpcInv, NEW i \in Calls
               PROVE  FailsBecause(call[i])
    BY DEF FailsOnlyWhen, FailsBecause, CutOff, Cut, Empty, Emptied, IsError
  <2> QED  BY PartsOfInv DEF RpcInv
<1> QED  BY <1>1, Invariance, PTL

(* The application that has hijacked a call reads what the handler writes,  *)
(* from the first part on and in order, and no frame of it is left with the *)
(* codec: but for the reply itself, if that has been cut.                   *)
THEOREM Hijacked == Spec => []HijackedOut
<1>1. RpcInv => HijackedOut
  <2> SUFFICES ASSUME RpcInv, NEW i \in Calls, NEW c, c = call[i],
                      ~(Emptied(i) /\ ~Go("caller"))
               PROVE  /\ c.got = [n \in 1 .. Len(c.got) |-> RawPart(n)]
                      /\ c.hijacked /\ ~c.gone["caller"] /\ ~Cut(i) =>
                            \/ c.values["caller"] = <<>>
                            \/ c.values["caller"][1].kind = Answer("hijack").kind
                            \/ c.values["caller"][1].kind = "EOF" /\ Emptied(i)
    BY DEF HijackedOut
  <2>1. /\ c \in CallType /\ Asking(c) /\ Serving(c) /\ Noted(c)
        /\ Counted(c) /\ Decoding(c) /\ AtLast(c) /\ Unmarked(c)
    BY PartsOfInv DEF RpcInv, Typed, ReplyCarried
  <2>2. (Empty(c) <=> Emptied(i)) /\ (TookEmpty(c) => Emptied(i))
    BY DEF Empty, Emptied, TookEmpty
  <2>3. c.got = [n \in 1 .. Len(c.got) |-> RawPart(n)]
    <3>1. PICK got \in Seq(PartType) : got = c.got
      BY <2>1, Fields
    <3>2. \A n \in 1 .. Len(got) : got[n] = RawPart(n)
      BY <2>1, <2>2, <3>1 DEF Noted
    <3>3. got \in [1 .. Len(got) -> PartType]
      BY <3>1
    <3>4. got = [n \in 1 .. Len(got) |-> RawPart(n)]
      BY <3>2, <3>3
    <3> QED  BY <3>1, <3>4
  <2>4. ASSUME c.hijacked, ~c.gone["caller"], ~Cut(i)
        PROVE  \/ c.values["caller"] = <<>>
               \/ c.values["caller"][1].kind = Answer("hijack").kind
               \/ c.values["caller"][1].kind = "EOF" /\ Emptied(i)
    <3>1. c.ran = "hijack" /\ Returns(c.ran) = 1 /\ ~CutOff(c)
      <4>1. c.ran = "hijack"
        BY <2>1, <2>4 DEF Unmarked
      <4>2. Returns("hijack") = 1
        BY DEF Returns
      <4> QED  BY <2>4, <4>1, <4>2 DEF CutOff, Cut
    <3>2. c.stage \in Stages
      BY <2>1, Fields
    <3>3. c.stage \notin {"idle", "opening", "hanging", "writing", "header", "rejecting", "rejected"}
      BY <2>1, <2>4, <3>1 DEF Asking, Noted
    <3>4. CASE c.stage \in {"closing", "returned"}
      BY <2>1, <3>1, <3>4 DEF Decoding
    <3>5. CASE c.stage = "failed"
      BY <2>1, <2>4, <3>5 DEF Noted, Counted
    <3>6. CASE c.stage = "reply"
      <4>1. \/ c.values["caller"] = <<>> \/ c.values["caller"] = <<AnswerOf(c)>>
            \/ Go("caller") /\ c.values["caller"] = <<Plain("EOF")>>
        BY <2>1, <2>2, <3>1, <3>6 DEF Decoding
      <4>2. Go("caller") /\ c.values["caller"] = <<Plain("EOF")>> => Emptied(i)
        BY <2>1, <2>4, <2>2, <3>1 DEF AtLast
      <4>3. AnswerOf(c) = Answer("hijack") /\ Plain("EOF").kind = "EOF"
        BY <3>1 DEF AnswerOf, Plain, Value
      <4>4. <<AnswerOf(c)>>[1] = AnswerOf(c) /\ <<Plain("EOF")>>[1] = Plain("EOF")
        OBVIOUS
      <4> QED  BY <4>1, <4>2, <4>3, <4>4
    <3> QED  BY <3>2, <3>3, <3>4, <3>5, <3>6 DEF Stages
  <2> QED  BY <2>3, <2>4
<1> QED  BY <1>1, Invariance, PTL
=============================================================================
