--------------------------- MODULE RpcCallProofs ----------------------------
(***************************************************************************)
(* Lemmas about one call of Rpc: what a step of the caller, of the server, *)
(* of a session or of a codec leaves true of it, whatever else goes on.    *)
(* Lemmas speak of values: c is the call before the step, d after it.      *)
(***************************************************************************)
EXTENDS RpcInvariant, TLAPS, SequenceTheorems

-----------------------------------------------------------------------------
(* The setting *)

(* What the implementations are to each other. *)
Impls ==
    /\ Mock \in BOOLEAN /\ setting.big \in BOOLEAN
    /\ Mock => Qrpc
    /\ Qrpc <=> setting.impl["responder"] = "qrpc"
    /\ \A s \in Sides : setting.impl[s] \in {"rpc", "qrpc", "go"}

LEMMA ImplsOfSetting ==
    ASSUME Typed
    PROVE  Impls
<1>1. IsSetting(setting)
  BY SettingsAssumption DEF Typed
<1> QED  BY <1>1 DEF Impls, IsSetting, Mock, Qrpc, Sides

LEMMA TheSides ==
    /\ \A s \in Sides : Other(s) \in Sides /\ Other(s) # s /\ Other(Other(s)) = s
    /\ Other("caller") = "responder" /\ Other("responder") = "caller"
    /\ \A s \in Sides : s = "caller" \/ s = "responder"
    /\ "caller" \in Sides /\ "responder" \in Sides
  BY DEF Sides, Other

LEMMA GoOrNot ==
    ASSUME Impls
    PROVE  /\ Qrpc => ~Go("caller") /\ ~Go("responder")
           /\ Mock => ~Go("caller") /\ ~Go("responder")
           /\ \A s \in Sides : Go(s) \in BOOLEAN
  BY DEF Impls, Go, Qrpc

-----------------------------------------------------------------------------
(* Parts and messages *)

LEMMA PartTypes ==
    /\ \A n \in Nat : SizePart(n) \in PartType /\ RawPart(n) \in PartType
    /\ MorePart \in PartType
    /\ \A v \in ValueType : BodyPart(v) \in PartType
    /\ \A k \in Kinds : Plain(k) \in ValueType
    /\ Close \in MessageType
<1>1. \A k \in Kinds : Plain(k) \in ValueType
  BY DEF Plain, Value, ValueType
<1>2. "none" \in Kinds
  BY DEF Kinds
<1>3. \A n \in Nat : SizePart(n) \in PartType /\ RawPart(n) \in PartType
  BY <1>1, <1>2 DEF SizePart, RawPart, Part, PartType
<1>4. MorePart \in PartType
  BY <1>1, <1>2 DEF MorePart, Part, PartType
<1>5. \A v \in ValueType : BodyPart(v) \in PartType
  BY DEF BodyPart, Part, PartType
<1>6. Part("close", 0, Plain("none")) \in PartType
  BY <1>1, <1>2 DEF Part, PartType
<1>7. Close \in MessageType
  BY <1>6 DEF Close, MessageType
<1> QED  BY <1>1, <1>3, <1>4, <1>5, <1>7

(* What begins with another part is not a Close. *)
LEMMA NotClose ==
    ASSUME NEW m \in MessageType, m # <<>>, m[1].part # "close"
    PROVE  m # Close
<1>1. Close[1].part = "close"
  BY DEF Close, Part
<1> QED  BY <1>1

-----------------------------------------------------------------------------
(* What the operations on a call leave alone *)

CallerSame(c, d) ==
    /\ d.stage = c.stage /\ d.todo = c.todo /\ d.error = c.error
    /\ d.hijacked = c.hijacked /\ d.reply = c.reply /\ d.got = c.got

ServerSame(c, d) ==
    d.responder = c.responder /\ d.ran = c.ran /\ d.replies = c.replies /\ d.raw = c.raw

CodecSame(c, d) ==
    d.phase = c.phase /\ d.size = c.size /\ d.count = c.count /\ d.values = c.values

ChannelSame(c, d) ==
    /\ d.out = c.out /\ d.late = c.late
    /\ d.sentClose = c.sentClose /\ d.finishing = c.finishing /\ d.gone = c.gone

Swallowed == ~Mock /\ \E s \in Sides : ended[s]

LEMMA Fields ==
    ASSUME NEW c \in CallType
    PROVE  /\ c.stage \in Stages /\ c.todo \in Seq(MessageType) /\ c.reply \in Kinds
           /\ c.error \in BOOLEAN /\ c.hijacked \in BOOLEAN /\ c.got \in Seq(PartType)
           /\ c.ran \in Outcomes \cup {"none"} /\ c.replies \in Seq(TaskType)
           /\ c.responder \in {"none", "incoming", "frame", "args", "done", "hijacking", "hijacked"}
           /\ c.raw \in 0 .. MaxRaw /\ c.listed \in SUBSET Sides
           /\ c.out \in [Sides -> Seq(MessageType)] /\ c.in \in [Sides -> Seq(PartType)]
           /\ c.sentClose \in [Sides -> BOOLEAN] /\ c.finishing \in [Sides -> BOOLEAN]
           /\ c.gone \in [Sides -> BOOLEAN] /\ c.late \in [Sides -> BOOLEAN]
           /\ c.phase \in [Sides -> {"none", "size", "body", "stopped"}]
           /\ c.size \in [Sides -> Nat] /\ c.count \in [Sides -> Nat]
           /\ c.values \in [Sides -> Seq(ValueType)]
  BY DEF CallType

(* What Written does. *)
Wrote(c, d, s, m) ==
    LET o == Other(s) IN
    /\ d.sentClose = c.sentClose /\ d.finishing = c.finishing /\ d.gone = c.gone
    /\ IF Mock \/ Swallowed THEN d.out = c.out /\ d.late = c.late
       ELSE /\ d.out = [c.out EXCEPT ![s] = Append(@, m)]
            /\ d.late = [c.late EXCEPT ![s] = @ \/ c.sentClose[s]]
    /\ d.in = IF Mock /\ ~c.gone[o] THEN [c.in EXCEPT ![o] = @ \o m] ELSE c.in

Others(c, d) ==
    /\ d \in CallType
    /\ CallerSame(c, d) /\ ServerSame(c, d) /\ CodecSame(c, d) /\ d.listed = c.listed

LEMMA WrittenDoes ==
    ASSUME NEW c \in CallType, NEW s \in Sides, NEW m \in MessageType, Impls
    PROVE  Others(c, Written(c, s, m)) /\ Wrote(c, Written(c, s, m), s, m)
<1> DEFINE d == Written(c, s, m)
<1>0. PICK o \in Sides : o = Other(s) /\ o # s
  BY TheSides
<1>1. CASE Mock /\ c.gone[o]
  <2>1. d = c
    BY <1>0, <1>1 DEF Written, MockWritten
  <2> QED
    BY <1>0, <1>1, <2>1 DEF Others, CallerSame, ServerSame, CodecSame, Wrote
<1>2. CASE Mock /\ ~c.gone[o]
  <2> DEFINE e == [c EXCEPT !.in[o] = @ \o m]
  <2>1. d = e
    BY <1>0, <1>2 DEF Written, MockWritten
  <2>2. c.in[o] \in Seq(PartType) /\ m \in Seq(PartType)
    BY <1>0 DEF CallType, MessageType
  <2>3. PICK q \in Seq(PartType) : q = c.in[o] \o m
    <3>1. c.in[o] \o m \in Seq(PartType)
      BY <2>2, ConcatProperties
    <3> QED  BY <3>1
  <2>4. e = [c EXCEPT !.in[o] = q]
    BY <2>3
  <2>5. [c EXCEPT !.in[o] = q] \in CallType
    BY DEF CallType
  <2>6. CallerSame(c, e) /\ ServerSame(c, e) /\ CodecSame(c, e) /\ e.listed = c.listed
    BY DEF CallType, CallerSame, ServerSame, CodecSame
  <2>7. /\ e.out = c.out /\ e.late = c.late /\ e.sentClose = c.sentClose
        /\ e.finishing = c.finishing /\ e.gone = c.gone /\ e.in = [c.in EXCEPT ![o] = @ \o m]
    BY DEF CallType
  <2> HIDE DEF e
  <2> QED
    BY <1>0, <1>2, <2>1, <2>4, <2>5, <2>6, <2>7 DEF Others, Wrote
<1>3. CASE ~Mock /\ Swallowed
  <2>1. ended[s] \/ ended[o]
    BY <1>0, <1>3, TheSides DEF Swallowed
  <2>2. d = c
    BY <1>0, <1>3, <2>1 DEF Written
  <2> QED
    BY <1>3, <2>2 DEF Others, CallerSame, ServerSame, CodecSame, Wrote
<1>4. CASE ~Mock /\ ~Swallowed
  <2> DEFINE e == [c EXCEPT !.out[s] = Append(@, m), !.late[s] = @ \/ c.sentClose[s]]
  <2>1. ~(ended[s] \/ ended[o])
    BY <1>4, <1>0 DEF Swallowed
  <2>2. d = e
    BY <1>0, <1>4, <2>1 DEF Written
  <2>3. PICK q \in Seq(MessageType) : q = Append(c.out[s], m)
    <3>1. c.out[s] \in Seq(MessageType)
      BY Fields
    <3> QED  BY <3>1, AppendProperties
  <2>4. PICK b \in BOOLEAN : b = (c.late[s] \/ c.sentClose[s])
    OBVIOUS
  <2>5. e = [c EXCEPT !.out[s] = q, !.late[s] = b]
    BY <2>3, <2>4
  <2>6. [c EXCEPT !.out[s] = q, !.late[s] = b] \in CallType
    BY DEF CallType
  <2>7. CallerSame(c, e) /\ ServerSame(c, e) /\ CodecSame(c, e) /\ e.listed = c.listed
    BY DEF CallType, CallerSame, ServerSame, CodecSame
  <2>8. /\ e.sentClose = c.sentClose /\ e.finishing = c.finishing /\ e.gone = c.gone
        /\ e.in = c.in /\ e.out = [c.out EXCEPT ![s] = Append(@, m)]
        /\ e.late = [c.late EXCEPT ![s] = @ \/ c.sentClose[s]]
    BY DEF CallType
  <2> HIDE DEF e
  <2> QED
    BY <1>4, <2>2, <2>5, <2>6, <2>7, <2>8 DEF Others, Wrote
<1> QED  BY <1>1, <1>2, <1>3, <1>4 DEF Swallowed

(* What ShutDown does. *)
WasShut(c, d, s) ==
    /\ d.out = c.out /\ d.late = c.late
    /\ d.gone = [c.gone EXCEPT ![s] = TRUE] /\ d.finishing = [c.finishing EXCEPT ![s] = FALSE]
    /\ d.sentClose = [c.sentClose EXCEPT ![s] = @ \/ Go(s)]
    /\ d.in = [c.in EXCEPT ![s] = IF Go(s) THEN @ ELSE <<>>]

LEMMA ShutDownDoes ==
    ASSUME NEW c \in CallType, NEW s \in Sides
    PROVE  Others(c, ShutDown(c, s)) /\ WasShut(c, ShutDown(c, s), s)
<1> DEFINE d == ShutDown(c, s)
<1>1. PICK b \in BOOLEAN : b = (c.sentClose[s] \/ Go(s))
  OBVIOUS
<1>2. PICK q \in Seq(PartType) : q = IF Go(s) THEN c.in[s] ELSE <<>>
  <2>1. c.in[s] \in Seq(PartType) /\ <<>> \in Seq(PartType)
    BY DEF CallType
  <2> QED  BY <2>1
<1> DEFINE e == [c EXCEPT !.gone[s] = TRUE, !.finishing[s] = FALSE,
                          !.sentClose[s] = b, !.in[s] = q]
<1>3. d = e
  BY <1>1, <1>2 DEF ShutDown
<1>4. e \in CallType
  BY DEF CallType
<1>5. CallerSame(c, e) /\ ServerSame(c, e) /\ CodecSame(c, e) /\ e.listed = c.listed
  BY DEF CallType, CallerSame, ServerSame, CodecSame
<1>6. /\ e.out = c.out /\ e.late = c.late
      /\ e.gone = [c.gone EXCEPT ![s] = TRUE] /\ e.finishing = [c.finishing EXCEPT ![s] = FALSE]
      /\ e.sentClose = [c.sentClose EXCEPT ![s] = b] /\ e.in = [c.in EXCEPT ![s] = q]
  BY DEF CallType
<1> HIDE DEF e
<1>7. WasShut(c, e, s)
  BY <1>1, <1>2, <1>6 DEF WasShut
<1> QED  BY <1>3, <1>4, <1>5, <1>7 DEF Others

(* What CloseChannel does. *)
DidClose(c, d, s) ==
    /\ Mock =>
        /\ d.out = c.out /\ d.late = c.late /\ d.sentClose = c.sentClose
        /\ d.finishing = c.finishing
        /\ d.gone = [c.gone EXCEPT ![s] = TRUE] /\ d.in = [c.in EXCEPT ![s] = <<>>]
    /\ ~Mock /\ ~c.sentClose[s] =>
        /\ d.finishing = c.finishing /\ d.gone = c.gone /\ d.in = c.in /\ d.late = c.late
        /\ d.sentClose = [c.sentClose EXCEPT ![s] = TRUE]
        /\ d.out = IF Swallowed THEN c.out ELSE [c.out EXCEPT ![s] = Append(@, Close)]
    /\ ~Mock /\ c.sentClose[s] /\ Go(s) => d.in = c.in /\ ChannelSame(c, d)
    /\ ~Mock /\ c.sentClose[s] /\ ~Go(s) => WasShut(c, d, s)

LEMMA CloseDoes ==
    ASSUME NEW c \in CallType, NEW s \in Sides, Impls
    PROVE  Others(c, CloseChannel(c, s)) /\ DidClose(c, CloseChannel(c, s), s)
<1> DEFINE d == CloseChannel(c, s)
<1>1. CASE Mock
  <2>0. PICK q \in Seq(PartType) : q = <<>>
    <3>1. <<>> \in Seq(PartType)
      OBVIOUS
    <3> QED  BY <3>1
  <2> DEFINE e == [c EXCEPT !.gone[s] = TRUE, !.in[s] = q]
  <2>1. d = e
    BY <1>1, <2>0 DEF CloseChannel, MockClosed
  <2>2. e \in CallType
    BY DEF CallType
  <2>3. CallerSame(c, e) /\ ServerSame(c, e) /\ CodecSame(c, e) /\ e.listed = c.listed
    BY DEF CallType, CallerSame, ServerSame, CodecSame
  <2>4. /\ e.out = c.out /\ e.late = c.late /\ e.sentClose = c.sentClose
        /\ e.finishing = c.finishing /\ e.gone = [c.gone EXCEPT ![s] = TRUE]
        /\ e.in = [c.in EXCEPT ![s] = q]
    BY DEF CallType
  <2> HIDE DEF e
  <2> QED
    BY <1>1, <2>0, <2>1, <2>2, <2>3, <2>4 DEF Others, DidClose
<1>2. CASE ~Mock /\ ~c.sentClose[s]
  <2> DEFINE w == Written(c, s, Close)
             e == [w EXCEPT !.sentClose[s] = TRUE]
  <2>1. d = e
    BY <1>2 DEF CloseChannel, SendClose
  <2>2. w \in CallType /\ Others(c, w) /\ Wrote(c, w, s, Close)
    BY WrittenDoes, PartTypes DEF Others
  <2> HIDE DEF w
  <2>3. e \in CallType
    BY <2>2 DEF CallType
  <2>4. CallerSame(w, e) /\ ServerSame(w, e) /\ CodecSame(w, e) /\ e.listed = w.listed
    BY <2>2 DEF CallerSame, ServerSame, CodecSame, CallType
  <2>5. /\ e.out = w.out /\ e.late = w.late /\ e.gone = w.gone /\ e.finishing = w.finishing
        /\ e.in = w.in /\ e.sentClose = [w.sentClose EXCEPT ![s] = TRUE]
    BY <2>2 DEF CallType
  <2> HIDE DEF e
  <2>6. Others(c, e)
    BY <2>2, <2>3, <2>4 DEF Others, CallerSame, ServerSame, CodecSame
  <2>7. [c.late EXCEPT ![s] = @ \/ c.sentClose[s]] = c.late
    <3>1. c.late \in [Sides -> BOOLEAN]
      BY DEF CallType
    <3> QED  BY <1>2, <3>1
  <2>8. DidClose(c, e, s)
    BY <1>2, <2>2, <2>5, <2>7 DEF Wrote, DidClose
  <2> QED  BY <2>1, <2>6, <2>8
<1>3. CASE ~Mock /\ c.sentClose[s] /\ Go(s)
  <2>1. d = c
    BY <1>3 DEF CloseChannel
  <2> QED
    BY <1>3, <2>1 DEF Others, CallerSame, ServerSame, CodecSame, DidClose, ChannelSame
<1>4. CASE ~Mock /\ c.sentClose[s] /\ ~Go(s)
  <2>1. d = ShutDown(c, s)
    BY <1>4 DEF CloseChannel
  <2> QED  BY <1>4, <2>1, ShutDownDoes DEF DidClose
<1> QED  BY <1>1, <1>2, <1>3, <1>4

-----------------------------------------------------------------------------
(* Sequences *)

LEMMA OneMore ==
    ASSUME NEW S, NEW q \in Seq(S), NEW m \in S
    PROVE  /\ Append(q, m) \in Seq(S) /\ Len(Append(q, m)) = Len(q) + 1
           /\ Append(q, m)[Len(q) + 1] = m
           /\ \A n \in 1 .. Len(q) : Append(q, m)[n] = q[n]
           /\ Len(q) \in Nat
  BY AppendProperties

LEMMA OneLess ==
    ASSUME NEW S, NEW q \in Seq(S), q # <<>>
    PROVE  /\ Tail(q) \in Seq(S) /\ Len(Tail(q)) = Len(q) - 1 /\ Len(q) \in Nat \ {0}
           /\ \A n \in 1 .. Len(Tail(q)) : Tail(q)[n] = q[n + 1]
           /\ Head(q) \in S /\ Head(q) = q[1]
  BY HeadTailProperties

LEMMA Joined ==
    ASSUME NEW S, NEW p \in Seq(S), NEW q \in Seq(S)
    PROVE  /\ p \o q \in Seq(S) /\ Len(p \o q) = Len(p) + Len(q)
           /\ Len(p) \in Nat /\ Len(q) \in Nat
           /\ \A n \in 1 .. Len(p) : (p \o q)[n] = p[n]
           /\ \A n \in 1 .. Len(q) : (p \o q)[Len(p) + n] = q[n]
<1>1. /\ p \o q \in Seq(S) /\ Len(p \o q) = Len(p) + Len(q)
      /\ \A n \in 1 .. Len(p) + Len(q) : (p \o q)[n] = IF n <= Len(p) THEN p[n] ELSE q[n - Len(p)]
  BY ConcatProperties
<1>2. Len(p) \in Nat /\ Len(q) \in Nat
  OBVIOUS
<1>3. PICK r : r = p \o q
  OBVIOUS
<1>4. \A n \in 1 .. Len(p) : r[n] = p[n]
  BY <1>1, <1>2, <1>3
<1>5. \A n \in 1 .. Len(q) : r[Len(p) + n] = q[n]
  <2>1. ASSUME NEW n \in 1 .. Len(q)  PROVE r[Len(p) + n] = q[n]
    <3>1. Len(p) + n \in 1 .. Len(p) + Len(q) /\ ~(Len(p) + n <= Len(p)) /\ (Len(p) + n) - Len(p) = n
      BY <1>2
    <3>2. r[Len(p) + n] = q[(Len(p) + n) - Len(p)]
      BY <1>1, <1>3, <3>1
    <3> QED  BY <3>1, <3>2
  <2> QED  BY <2>1
<1> QED  BY <1>1, <1>2, <1>3, <1>4, <1>5

-----------------------------------------------------------------------------
(* A Close among messages *)

LEMMA AppendCloses ==
    ASSUME NEW q \in Seq(MessageType), NEW m \in MessageType
    PROVE  /\ Closes(Append(q, m)) <=> Closes(q) \/ m = Close
           /\ m # Close /\ ClosesOnce(q) => ClosesOnce(Append(q, m))
           /\ m # Close /\ GoesOn(Append(q, m)) => Closes(q)
           /\ ~Closes(q) => ClosesOnce(Append(q, Close)) /\ ~GoesOn(Append(q, Close))
           /\ Append(q, m) # <<>> /\ Append(q, m) \in Seq(MessageType)
<1> PICK a : a = Append(q, m)
  OBVIOUS
<1> PICK b : b = Append(q, Close)
  OBVIOUS
<1>1. /\ a \in Seq(MessageType) /\ Len(a) = Len(q) + 1 /\ a[Len(q) + 1] = m
      /\ \A n \in 1 .. Len(q) : a[n] = q[n]
  BY AppendProperties
<1>2. /\ b \in Seq(MessageType) /\ Len(b) = Len(q) + 1 /\ b[Len(q) + 1] = Close
      /\ \A n \in 1 .. Len(q) : b[n] = q[n]
  BY AppendProperties, PartTypes
<1>3. Len(q) \in Nat
  OBVIOUS
<1>4. Closes(a) <=> Closes(q) \/ m = Close
  BY <1>1, <1>3 DEF Closes
<1>5. m # Close /\ ClosesOnce(q) => ClosesOnce(a)
  BY <1>1, <1>3 DEF ClosesOnce
<1>6. m # Close /\ GoesOn(a) => Closes(q)
  BY <1>1, <1>3 DEF GoesOn, Closes
<1>7. ~Closes(q) => ClosesOnce(b) /\ ~GoesOn(b)
  BY <1>2, <1>3 DEF GoesOn, Closes, ClosesOnce
<1>8. a # <<>>
  BY <1>1, <1>3
<1> QED  BY <1>1, <1>4, <1>5, <1>6, <1>7, <1>8

LEMMA TailCloses ==
    ASSUME NEW q \in Seq(MessageType), q # <<>>
    PROVE  /\ Closes(q) <=> Head(q) = Close \/ Closes(Tail(q))
           /\ ClosesOnce(q) => ClosesOnce(Tail(q))
           /\ GoesOn(Tail(q)) => GoesOn(q)
           /\ Head(q) = Close /\ ClosesOnce(q) => ~Closes(Tail(q))
           /\ Head(q) = Close /\ Tail(q) # <<>> => GoesOn(q)
           /\ Head(q) \in MessageType /\ Tail(q) \in Seq(MessageType)
<1> PICK t : t = Tail(q)
  OBVIOUS
<1>1. /\ t \in Seq(MessageType) /\ Len(t) = Len(q) - 1 /\ Head(q) = q[1]
      /\ \A n \in 1 .. Len(t) : t[n] = q[n + 1]
  BY HeadTailProperties
<1>2. Len(q) \in Nat \ {0}
  OBVIOUS
<1>3. Closes(q) <=> Head(q) = Close \/ Closes(t)
  <2>1. ASSUME NEW n \in 1 .. Len(q), q[n] = Close  PROVE Head(q) = Close \/ Closes(t)
    <3>1. CASE n = 1
      BY <1>1, <2>1, <3>1
    <3>2. CASE n # 1
      <4>1. n - 1 \in 1 .. Len(t) /\ t[n - 1] = q[n]
        BY <1>1, <1>2, <3>2
      <4> QED  BY <2>1, <4>1 DEF Closes
    <3> QED  BY <3>1, <3>2
  <2>2. Closes(t) => Closes(q)
    BY <1>1, <1>2 DEF Closes
  <2>3. Head(q) = Close => Closes(q)
    BY <1>1, <1>2 DEF Closes
  <2> QED  BY <2>1, <2>2, <2>3 DEF Closes
<1>4. ClosesOnce(q) => ClosesOnce(t)
  BY <1>1, <1>2 DEF ClosesOnce
<1>5. GoesOn(t) => GoesOn(q)
  <2>1. ASSUME NEW m \in 1 .. Len(t), NEW n \in 1 .. Len(t), t[m] = Close, m < n
        PROVE  GoesOn(q)
    <3>1. /\ m + 1 \in 1 .. Len(q) /\ n + 1 \in 1 .. Len(q) /\ m + 1 < n + 1
          /\ q[m + 1] = Close
      BY <1>1, <1>2, <2>1
    <3> QED  BY <3>1 DEF GoesOn
  <2> QED  BY <2>1 DEF GoesOn
<1>6. Head(q) = Close /\ ClosesOnce(q) => ~Closes(t)
  BY <1>1, <1>2 DEF ClosesOnce, Closes
<1>7. Head(q) = Close /\ t # <<>> => GoesOn(q)
  <2>1. t # <<>> => 2 \in 1 .. Len(q)
    BY <1>1, <1>2
  <2> QED  BY <1>1, <1>2, <2>1 DEF GoesOn
<1>8. Head(q) \in MessageType
  BY <1>1, <1>2
<1> QED  BY <1>1, <1>3, <1>4, <1>5, <1>6, <1>7, <1>8

-----------------------------------------------------------------------------
(* Closing, as the channel of a call takes its steps *)

(* Who has closed stays closed. *)
Onward(c, d) ==
    /\ \A s \in Sides : HasClosed(c, s) => HasClosed(d, s)
    /\ Leaving(c) => Leaving(d)
    /\ Finished(c) => Finished(d)
    /\ Doubled(c) => Doubled(d)
    /\ Returns(c.ran) # 1 => Returns(d.ran) # 1

LEMMA SameOnward ==
    ASSUME NEW c, NEW d, ServerSame(c, d), d.stage = c.stage
    PROVE  Onward(c, d)
  BY DEF Onward, ServerSame, HasClosed, Leaving, Finished, Doubled, Returned

EmptyIn(c) == \A s \in Sides : c.gone[s] /\ ~Go(s) => c.in[s] = <<>>

LEMMA StillClosing ==
    ASSUME NEW c \in CallType, NEW d \in CallType, Impls, Closing(c),
           ChannelSame(c, d), Onward(c, d), EmptyIn(d)
    PROVE  Closing(d)
<1>1. \A s \in Sides : Closed(d, s)
  BY DEF Closing, Closed, ChannelSame
<1>2. \A s \in Sides : Heard(c, s) <=> Heard(d, s)
  BY DEF ChannelSame, Heard
<1>3. \A s \in Sides : Shut(d, s)
  BY <1>2 DEF Closing, Shut, ChannelSame, Onward, EmptyIn
<1>4. \A s \in Sides : Told(d, s)
  BY DEF Closing, Told, ChannelSame
<1>5. First(d)
  BY DEF Closing, First, ChannelSame, Onward
<1>6. Answering(d)
  BY DEF Closing, Answering, ChannelSame, Onward
<1> QED  BY <1>1, <1>3, <1>4, <1>5, <1>6 DEF Closing

LEMMA WroteClosing ==
    ASSUME NEW c \in CallType, NEW d \in CallType, Impls, Closing(c), NEW s \in Sides,
           NEW m \in MessageType, m # Close, Wrote(c, d, s, m), ~CannotWrite(c, s), Onward(c, d),
           s = "responder" => ~Finished(c)
    PROVE  Closing(d)
<1>0. PICK o \in Sides : o = Other(s) /\ o # s /\ Other(o) = s /\ \A x \in Sides : x = s \/ x = o
  BY TheSides DEF Sides
<1>1. /\ d.sentClose = c.sentClose /\ d.finishing = c.finishing /\ d.gone = c.gone
      /\ \A x \in Sides : c.gone[x] => d.in[x] = c.in[x]
  <2>1. \A x \in Sides : c.gone[x] => d.in[x] = c.in[x]
    BY <1>0, Fields DEF Wrote
  <2> QED  BY <2>1 DEF Wrote
<1>2. CASE Mock \/ Swallowed
  <2>1. d.out = c.out /\ d.late = c.late
    BY <1>2 DEF Wrote
  <2>2. EmptyIn(d)
    BY <1>1 DEF EmptyIn, Closing, Shut
  <2> QED  BY <1>1, <2>1, <2>2, StillClosing DEF ChannelSame
<1>3. CASE ~Mock /\ ~Swallowed
  <2>1. /\ d.out[s] = Append(c.out[s], m) /\ d.out[o] = c.out[o]
        /\ d.late[s] = (c.late[s] \/ c.sentClose[s]) /\ d.late[o] = c.late[o]
    BY <1>0, <1>3, Fields DEF Wrote
  <2>2. c.out[s] \in Seq(MessageType)
    BY Fields
  <2>3. /\ Closes(d.out[s]) <=> Closes(c.out[s])
        /\ ClosesOnce(c.out[s]) => ClosesOnce(d.out[s])
        /\ GoesOn(d.out[s]) => Closes(c.out[s])
        /\ d.out[s] # <<>>
    BY <2>1, <2>2, AppendCloses
  <2>4. /\ c.late[s] \in BOOLEAN /\ c.sentClose[s] \in BOOLEAN /\ d.late[s] \in BOOLEAN
        /\ ~Go(s) => ~c.sentClose[s]
    BY Fields DEF CannotWrite
  <2>5. Closed(d, s)
    <3>1. Closed(c, s)
      BY DEF Closing
    <3> QED  BY <1>1, <2>1, <2>3, <2>4, <3>1 DEF Closed
  <2>6. Closed(d, o)
    <3>1. Closed(c, o)
      BY DEF Closing
    <3> QED  BY <1>1, <2>1, <3>1 DEF Closed
  <2>7. (Heard(c, s) <=> Heard(d, s)) /\ (Heard(c, o) => Heard(d, o))
    BY <1>0, <1>1, <2>1, <2>3, <2>4 DEF Heard
  <2>8. Shut(d, s) /\ Shut(d, o)
    <3>1. Shut(c, s) /\ Shut(c, o)
      BY DEF Closing
    <3>2. HasClosed(c, s) => HasClosed(d, s)
      BY DEF Onward
    <3>3. HasClosed(c, o) => HasClosed(d, o)
      BY DEF Onward
    <3>4. Doubled(c) => Doubled(d)
      BY DEF Onward
    <3> QED  BY <1>1, <1>3, <2>7, <3>1, <3>2, <3>3, <3>4 DEF Shut
  <2>9. Told(d, s) /\ Told(d, o)
    <3>1. Told(c, s) /\ Told(c, o)
      BY DEF Closing
    <3>2. ~ended[s]
      BY <1>3 DEF Swallowed
    <3> QED  BY <1>0, <1>1, <2>1, <2>3, <2>4, <3>1, <3>2 DEF Told
  <2>10. First(d)
    BY <1>0, <1>1, <2>1, <2>3 DEF Closing, First, Onward
  <2>11. Answering(d)
    <3>1. Answering(c) /\ Closed(c, "responder") /\ (Finished(c) => Finished(d))
      BY TheSides DEF Closing, Onward
    <3>2. \A x \in Sides : ~ended[x]
      BY <1>3 DEF Swallowed
    <3>3. Closes(d.out["responder"]) <=> Closes(c.out["responder"])
      BY <1>0, <2>1, <2>3, TheSides
    <3>4. CASE s = "responder"
      <4>1. ~Finished(c)
        BY <3>4
      <4> QED  BY <1>1, <2>1, <2>4, <3>1, <3>2, <3>3, <3>4, <4>1, TheSides DEF Answering
    <3>5. CASE s # "responder"
      <4>1. d.late["responder"] = c.late["responder"]
        BY <1>0, <2>1, <3>5, TheSides
      <4> QED  BY <1>1, <3>1, <3>3, <4>1 DEF Answering
    <3> QED  BY <3>4, <3>5
  <2> QED  BY <1>0, <2>5, <2>6, <2>8, <2>9, <2>10, <2>11 DEF Closing
<1> QED  BY <1>2, <1>3

(* A side that closes its channel: who has not sent Close is past its reply, or has *)
(* written all.                                                                     *)
LEMMA CloseClosing ==
    ASSUME NEW c \in CallType, NEW d \in CallType, Impls, Closing(c), NEW s \in Sides,
           DidClose(c, d, s), Onward(c, d),
           ~c.sentClose[s] /\ ~Go(s) => HasClosed(d, s),
           ~c.sentClose[s] => Leaving(d) \/ Finished(d) \/ Returns(d.ran) # 1,
           c.sentClose[s] /\ ~Go(s) => ~HasClosed(c, s) \/ (s = "responder" /\ Doubled(d)),
           s = "responder" /\ Go(s) /\ ~c.sentClose[s] => Finished(d)
    PROVE  Closing(d)
<1>0. PICK o \in Sides : o = Other(s) /\ o # s /\ Other(o) = s /\ \A x \in Sides : x = s \/ x = o
  BY TheSides DEF Sides
<1>a. /\ Closed(c, s) /\ Closed(c, o) /\ Shut(c, s) /\ Shut(c, o) /\ Told(c, s) /\ Told(c, o)
      /\ First(c) /\ Answering(c)
  BY DEF Closing
<1>b. /\ HasClosed(c, s) => HasClosed(d, s)
      /\ HasClosed(c, o) => HasClosed(d, o)
      /\ Leaving(c) => Leaving(d)
      /\ Finished(c) => Finished(d)
      /\ Doubled(c) => Doubled(d)
      /\ Returns(c.ran) # 1 => Returns(d.ran) # 1
  BY DEF Onward
<1>c. /\ c.out[s] \in Seq(MessageType) /\ c.late \in [Sides -> BOOLEAN]
      /\ c.gone \in [Sides -> BOOLEAN] /\ c.finishing \in [Sides -> BOOLEAN]
      /\ c.sentClose \in [Sides -> BOOLEAN] /\ c.in \in [Sides -> Seq(PartType)]
      /\ c.out \in [Sides -> Seq(MessageType)]
  BY Fields
<1>1. CASE Mock
  <2>1. /\ d.out = c.out /\ d.late = c.late /\ d.sentClose = c.sentClose
        /\ d.finishing = c.finishing /\ d.gone = [c.gone EXCEPT ![s] = TRUE]
        /\ d.in = [c.in EXCEPT ![s] = <<>>]
    BY <1>1 DEF DidClose
  <2>2. d.gone[s] /\ (d.gone[o] <=> c.gone[o]) /\ d.in[s] = <<>> /\ d.in[o] = c.in[o]
    BY <1>0, <1>c, <2>1
  <2>3. Closed(d, s) /\ Closed(d, o)
    BY <1>a, <2>1 DEF Closed
  <2>4. ~Go(s) /\ ~Go(o)
    BY <1>0, <1>1, GoOrNot, TheSides
  <2>5. Shut(d, s) /\ Shut(d, o)
    BY <1>1, <1>a, <2>1, <2>2, <2>4 DEF Shut
  <2>6. Told(d, s) /\ Told(d, o)
    BY <1>0, <2>4 DEF Told
  <2>7. First(d)
    BY <1>a, <1>b, <2>1 DEF First
  <2>8. Answering(d)
    <3>1. ~d.sentClose["responder"] /\ ~d.late["responder"]
      BY <1>0, <1>1, <1>a, <2>1, TheSides DEF Shut, Closed
    <3> QED  BY <3>1 DEF Answering
  <2> QED  BY <1>0, <2>3, <2>5, <2>6, <2>7, <2>8 DEF Closing
<1>2. CASE ~Mock /\ ~c.sentClose[s]
  <2>1. /\ d.finishing = c.finishing /\ d.gone = c.gone /\ d.in = c.in /\ d.late = c.late
        /\ d.sentClose[s] /\ (d.sentClose[o] <=> c.sentClose[o]) /\ d.out[o] = c.out[o]
        /\ d.out[s] = IF Swallowed THEN c.out[s] ELSE Append(c.out[s], Close)
    BY <1>0, <1>2, <1>c DEF DidClose
  <2>2. ~Closes(c.out[s]) /\ ~c.late[s] /\ ~Heard(c, o)
    BY <1>0, <1>2, <1>a DEF Closed, Heard
  <2>3. /\ ClosesOnce(d.out[s]) /\ (GoesOn(d.out[s]) => c.late[s])
        /\ ~Swallowed => Closes(d.out[s])
    BY <1>a, <1>c, <2>1, <2>2, AppendCloses, PartTypes DEF Closed
  <2>4. Closed(d, s) /\ Closed(d, o)
    BY <1>a, <2>1, <2>2, <2>3 DEF Closed
  <2>5. Heard(c, s) => Heard(d, s)
    BY <1>0, <2>1 DEF Heard
  <2>6. Shut(d, s)
    BY <1>2, <1>a, <1>b, <2>1, <2>5 DEF Shut
  <2>7. Shut(d, o)
    BY <1>2, <1>a, <1>b, <2>1, <2>2 DEF Shut
  <2>8. Told(d, s)
    <3>1. Swallowed => ended[s] \/ c.gone[o]
      BY <1>0, <1>2, <1>a DEF Swallowed, Shut
    <3> QED  BY <1>0, <2>1, <2>2, <2>3, <3>1 DEF Told
  <2>9. Told(d, o)
    BY <1>0, <1>a, <2>1 DEF Told
  <2>10. First(d)
    BY <1>2, <1>b DEF First
  <2>11. Answering(d)
    <3>1. CASE s = "responder"
      <4>1. ~d.late["responder"]
        BY <2>1, <2>2, <3>1
      <4>2. Go("responder") => Finished(d)
        BY <1>2, <3>1
      <4> QED  BY <4>1, <4>2 DEF Answering
    <3>2. CASE s # "responder"
      <4>1. o = "responder" /\ s = "caller"
        BY <1>0, <3>2, TheSides
      <4> QED  BY <1>a, <1>b, <2>1, <4>1 DEF Answering
    <3> QED  BY <3>1, <3>2
  <2> QED  BY <1>0, <2>4, <2>6, <2>7, <2>8, <2>9, <2>10, <2>11 DEF Closing
<1>3. CASE ~Mock /\ c.sentClose[s] /\ Go(s)
  <2>1. d.in = c.in /\ ChannelSame(c, d)
    BY <1>3 DEF DidClose
  <2>2. EmptyIn(d)
    BY <2>1 DEF EmptyIn, ChannelSame, Closing, Shut
  <2> QED  BY <2>1, <2>2, StillClosing
<1>4. CASE ~Mock /\ c.sentClose[s] /\ ~Go(s)
  <2>1. /\ d.out = c.out /\ d.late = c.late /\ d.gone[s] /\ (d.gone[o] <=> c.gone[o])
        /\ ~d.finishing[s] /\ (d.finishing[o] <=> c.finishing[o])
        /\ d.sentClose[s] /\ (d.sentClose[o] <=> c.sentClose[o])
        /\ d.in[s] = <<>> /\ d.in[o] = c.in[o]
    BY <1>0, <1>4, <1>c DEF DidClose, WasShut
  <2>2. Closed(d, s) /\ Closed(d, o)
    BY <1>4, <1>a, <2>1 DEF Closed
  <2>3. (Heard(c, s) => Heard(d, s)) /\ (Heard(c, o) => Heard(d, o))
    BY <1>0, <1>4, <2>1 DEF Heard
  <2>4. Heard(c, s) \/ (s = "responder" /\ Doubled(d))
    BY <1>4, <1>a DEF Shut
  <2>5. Shut(d, s)
    BY <1>4, <1>a, <1>b, <2>1, <2>3, <2>4 DEF Shut
  <2>6. Shut(d, o)
    BY <1>4, <1>a, <1>b, <2>1, <2>3 DEF Shut
  <2>7. Told(d, s) /\ Told(d, o)
    BY <1>0, <1>4, <1>a, <2>1 DEF Told
  <2>8. First(d)
    BY <1>0, <1>4, <1>a, <1>b, <2>1 DEF First
  <2>9. Answering(d)
    <3>1. CASE s = "responder"
      <4>1. o = "caller"
        BY <1>0, <3>1, TheSides
      <4> QED  BY <1>4, <1>a, <1>b, <2>1, <3>1, <4>1 DEF Answering
    <3>2. CASE s # "responder"
      <4>1. o = "responder" /\ s = "caller"
        BY <1>0, <3>2, TheSides
      <4> QED  BY <1>4, <1>a, <1>b, <2>1, <4>1 DEF Answering
    <3> QED  BY <3>1, <3>2
  <2> QED  BY <1>0, <2>2, <2>5, <2>6, <2>7, <2>8, <2>9 DEF Closing
<1> QED  BY <1>1, <1>2, <1>3, <1>4

(* What a message that is taken off the wire changes. *)
Popped(c, d, s) ==
    LET o == Other(s) IN
    /\ d.out = [c.out EXCEPT ![o] = Tail(@)]
    /\ d.sentClose = c.sentClose /\ d.finishing = c.finishing
    /\ d.gone = c.gone /\ d.late = c.late

(* Data are taken in, or anything is dropped that comes for a channel that is gone. *)
LEMMA PopClosing ==
    ASSUME NEW c \in CallType, NEW d \in CallType, Impls, Closing(c), NEW s \in Sides,
           c.out[Other(s)] # <<>>, Popped(c, d, s), CallerSame(c, d), ServerSame(c, d),
           EmptyIn(d), Head(c.out[Other(s)]) # Close \/ c.gone[s]
    PROVE  Closing(d)
<1>0. PICK o \in Sides : o = Other(s) /\ o # s /\ Other(o) = s /\ \A x \in Sides : x = s \/ x = o
  BY TheSides DEF Sides
<1>a. /\ Closed(c, s) /\ Closed(c, o) /\ Shut(c, s) /\ Shut(c, o) /\ Told(c, s) /\ Told(c, o)
      /\ First(c) /\ Answering(c)
  BY DEF Closing
<1>b. /\ HasClosed(c, s) => HasClosed(d, s)
      /\ HasClosed(c, o) => HasClosed(d, o)
      /\ Leaving(c) => Leaving(d)
      /\ Finished(c) <=> Finished(d)
      /\ Doubled(c) => Doubled(d)
      /\ d.ran = c.ran
  BY DEF HasClosed, Leaving, Finished, Doubled, Returned, CallerSame, ServerSame
<1>c. c.out \in [Sides -> Seq(MessageType)] /\ c.out[o] \in Seq(MessageType)
  BY Fields
<1>1. /\ d.sentClose = c.sentClose /\ d.finishing = c.finishing /\ d.gone = c.gone
      /\ d.late = c.late /\ d.out[s] = c.out[s] /\ d.out[o] = Tail(c.out[o])
  BY <1>0, <1>c DEF Popped
<1>2. /\ Closes(d.out[o]) => Closes(c.out[o])
      /\ Closes(c.out[o]) => Closes(d.out[o]) \/ c.gone[s]
      /\ ClosesOnce(c.out[o]) => ClosesOnce(d.out[o])
      /\ GoesOn(d.out[o]) => GoesOn(c.out[o])
  BY <1>0, <1>1, <1>c, TailCloses
<1>3. Closed(d, s) /\ Closed(d, o)
  BY <1>a, <1>1, <1>2 DEF Closed
<1>4. (Heard(c, s) => Heard(d, s)) /\ (Heard(c, o) => Heard(d, o))
  <2>1. c.out[o] # <<>>
    BY <1>0
  <2> QED  BY <1>0, <1>1, <1>2, <2>1 DEF Heard
<1>5. d.gone[s] /\ ~Go(s) => d.in[s] = <<>>
  BY DEF EmptyIn
<1>6. d.gone[o] /\ ~Go(o) => d.in[o] = <<>>
  BY DEF EmptyIn
<1>7. Shut(d, s) /\ Shut(d, o)
  <2>1. ~Mock
    <3>1. c.out[o] # <<>>
      BY <1>0
    <3> QED  BY <1>a, <3>1 DEF Shut
  <2> QED  BY <1>a, <1>b, <1>1, <1>4, <1>5, <1>6, <2>1 DEF Shut
<1>8. Told(d, s)
  BY <1>0, <1>a, <1>1 DEF Told
<1>9. Told(d, o)
  BY <1>0, <1>a, <1>1, <1>2 DEF Told
<1>10. First(d)
  BY <1>0, <1>a, <1>b, <1>1, <1>2 DEF First
<1>11. Answering(d)
  <2>1. Closes(c.out["responder"]) => Closes(d.out["responder"]) \/ c.gone["caller"]
    BY <1>0, <1>1, <1>2, TheSides
  <2> QED  BY <1>a, <1>b, <1>1, <2>1 DEF Answering
<1> QED  BY <1>0, <1>3, <1>7, <1>8, <1>9, <1>10, <1>11 DEF Closing

(* A Close is taken in and answered; in Go Finish has still to shut the channel down. *)
ToldOf(c, d, s) ==
    LET o == Other(s) IN
    /\ d.out[o] = Tail(c.out[o])
    /\ d.late = c.late /\ d.sentClose[s] /\ d.sentClose[o] = c.sentClose[o]
    /\ d.gone[o] = c.gone[o] /\ d.finishing[o] = c.finishing[o] /\ d.in[o] = c.in[o]
    /\ d.finishing[s] = Go(s)
    /\ ~c.sentClose[s] \/ Go(s) => d.gone[s] = c.gone[s] /\ d.in[s] = c.in[s]
    /\ c.sentClose[s] /\ ~Go(s) => d.gone[s] /\ d.in[s] = <<>>
    /\ d.out[s] = IF c.sentClose[s] \/ Swallowed THEN c.out[s] ELSE Append(c.out[s], Close)

LEMMA ToldClosing ==
    ASSUME NEW c \in CallType, NEW d \in CallType, Impls, Closing(c), NEW s \in Sides,
           c.out[Other(s)] # <<>>, Head(c.out[Other(s)]) = Close, ~c.gone[s],
           ToldOf(c, d, s), CallerSame(c, d), ServerSame(c, d)
    PROVE  Closing(d)
<1>0. PICK o \in Sides : o = Other(s) /\ o # s /\ Other(o) = s /\ \A x \in Sides : x = s \/ x = o
  BY TheSides DEF Sides
<1>a. /\ Closed(c, s) /\ Closed(c, o) /\ Shut(c, s) /\ Shut(c, o) /\ Told(c, s) /\ Told(c, o)
      /\ First(c) /\ Answering(c)
  BY DEF Closing
<1>b. /\ HasClosed(c, s) => HasClosed(d, s)
      /\ HasClosed(c, o) => HasClosed(d, o)
      /\ Leaving(c) => Leaving(d)
      /\ Finished(c) <=> Finished(d)
      /\ Doubled(c) => Doubled(d)
      /\ d.ran = c.ran
  BY DEF HasClosed, Leaving, Finished, Doubled, Returned, CallerSame, ServerSame
<1>c. /\ c.out[s] \in Seq(MessageType) /\ c.out[o] \in Seq(MessageType)
      /\ \A x \in Sides : /\ Go(x) \in BOOLEAN /\ c.sentClose[x] \in BOOLEAN
                          /\ d.sentClose[x] \in BOOLEAN /\ c.gone[x] \in BOOLEAN
                          /\ d.gone[x] \in BOOLEAN /\ c.finishing[x] \in BOOLEAN
                          /\ d.finishing[x] \in BOOLEAN
  BY Fields DEF Go
<1>1. /\ d.out[o] = Tail(c.out[o])
      /\ d.late = c.late /\ d.sentClose[s] /\ (d.sentClose[o] <=> c.sentClose[o])
      /\ (d.gone[o] <=> c.gone[o]) /\ (d.finishing[o] <=> c.finishing[o]) /\ d.in[o] = c.in[o]
      /\ (d.finishing[s] <=> Go(s))
      /\ ~c.sentClose[s] \/ Go(s) => ~d.gone[s]
      /\ c.sentClose[s] /\ ~Go(s) => d.gone[s] /\ d.in[s] = <<>>
      /\ d.out[s] = IF c.sentClose[s] \/ Swallowed THEN c.out[s] ELSE Append(c.out[s], Close)
  BY <1>0, <1>c DEF ToldOf
<1>2. /\ Closes(c.out[o]) /\ ~Closes(d.out[o]) /\ ClosesOnce(d.out[o])
      /\ GoesOn(d.out[o]) => c.late[o]
      /\ d.out[o] # <<>> => c.late[o]
      /\ c.sentClose[o]
  BY <1>0, <1>a, <1>c, <1>1, TailCloses DEF Closed
<1>3. ~Mock
  BY <1>0, <1>a DEF Shut
<1>4. Heard(d, s)
  BY <1>0, <1>1, <1>2 DEF Heard
<1>5. /\ c.sentClose[s] => Closes(d.out[s]) = Closes(c.out[s]) /\ d.out[s] = c.out[s]
      /\ ~c.sentClose[s] => ~Closes(c.out[s]) /\ ~c.late[s]
      /\ ~c.sentClose[s] /\ ~Swallowed => Closes(d.out[s])
      /\ ClosesOnce(d.out[s]) /\ (GoesOn(d.out[s]) => c.late[s])
  BY <1>a, <1>c, <1>1, AppendCloses, PartTypes DEF Closed
<1>6. Heard(c, o) => Heard(d, o)
  BY <1>0, <1>1, <1>5 DEF Heard
<1>7. Closed(d, s) /\ Closed(d, o)
  BY <1>a, <1>1, <1>2, <1>5 DEF Closed
<1>8. Shut(d, s)
  <2>1. ended[s] => c.gone[s]
    BY <1>a, <1>3 DEF Shut
  <2> QED  BY <1>3, <1>1, <1>4, <2>1 DEF Shut
<1>9. Shut(d, o)
  BY <1>3, <1>a, <1>b, <1>1, <1>6 DEF Shut
<1>10. Told(d, s)
  <2>1. CASE c.sentClose[s]
    BY <1>0, <1>a, <1>1, <1>5, <2>1 DEF Told
  <2>2. CASE ~c.sentClose[s]
    <3>1. Swallowed => ended[s] \/ c.gone[o]
      BY <1>0, <1>3, <1>a DEF Swallowed, Shut
    <3> QED  BY <1>0, <1>1, <1>5, <2>2, <3>1 DEF Told
  <2> QED  BY <2>1, <2>2
<1>11. Told(d, o)
  BY <1>0, <1>1 DEF Told
<1>12. First(d)
  BY <1>0, <1>a, <1>b, <1>2 DEF First
<1>13. Answering(d)
  <2>1. CASE s = "responder"
    <3>1. o = "caller"
      BY <1>0, <2>1, TheSides
    <3>2. d.sentClose["caller"]
      BY <1>1, <1>2, <3>1
    <3>3. CASE c.sentClose[s]
      BY <1>a, <1>b, <1>1, <1>5, <2>1, <3>1, <3>2, <3>3 DEF Answering
    <3>4. CASE ~c.sentClose[s]
      <4>1. Swallowed => ended["caller"] \/ ended["responder"]
        BY TheSides DEF Swallowed
      <4> QED  BY <1>1, <1>5, <2>1, <3>2, <3>4, <4>1 DEF Answering
    <3> QED  BY <3>3, <3>4
  <2>2. CASE s # "responder"
    <3>1. o = "responder" /\ s = "caller"
      BY <1>0, <2>2, TheSides
    <3>2. c.sentClose["caller"] => d.gone["caller"] \/ d.finishing["caller"]
      BY <1>1, <3>1
    <3>3. d.sentClose["caller"]
      BY <1>1, <3>1
    <3> QED  BY <1>a, <1>b, <1>1, <3>1, <3>2, <3>3 DEF Answering
  <2> QED  BY <2>1, <2>2
<1> QED  BY <1>0, <1>7, <1>8, <1>9, <1>10, <1>11, <1>12, <1>13 DEF Closing

(* Go shuts the channel down, once it has answered. *)
LEMMA FinishClosing ==
    ASSUME NEW c \in CallType, NEW d \in CallType, Impls, Closing(c), NEW s \in Sides,
           c.finishing[s], WasShut(c, d, s), CallerSame(c, d), ServerSame(c, d)
    PROVE  Closing(d)
<1>0. PICK o \in Sides : o = Other(s) /\ o # s /\ Other(o) = s /\ \A x \in Sides : x = s \/ x = o
  BY TheSides DEF Sides
<1>a. /\ Closed(c, s) /\ Closed(c, o) /\ Shut(c, s) /\ Shut(c, o) /\ Told(c, s) /\ Told(c, o)
      /\ First(c) /\ Answering(c)
  BY DEF Closing
<1>b. /\ HasClosed(c, s) => HasClosed(d, s)
      /\ HasClosed(c, o) => HasClosed(d, o)
      /\ Leaving(c) => Leaving(d)
      /\ Finished(c) <=> Finished(d)
      /\ Doubled(c) => Doubled(d)
      /\ d.ran = c.ran
  BY DEF HasClosed, Leaving, Finished, Doubled, Returned, CallerSame, ServerSame
<1>c. /\ c.gone \in [Sides -> BOOLEAN] /\ c.finishing \in [Sides -> BOOLEAN]
      /\ c.sentClose \in [Sides -> BOOLEAN] /\ c.in \in [Sides -> Seq(PartType)]
  BY Fields
<1>1. Go(s) /\ c.sentClose[s] /\ Heard(c, s)
  BY <1>a DEF Shut
<1>2. /\ d.out = c.out /\ d.late = c.late
      /\ d.gone[s] /\ (d.gone[o] <=> c.gone[o])
      /\ ~d.finishing[s] /\ (d.finishing[o] <=> c.finishing[o])
      /\ d.sentClose[s] /\ (d.sentClose[o] <=> c.sentClose[o]) /\ d.in[o] = c.in[o]
  BY <1>0, <1>c, <1>1 DEF WasShut
<1>3. Closed(d, s) /\ Closed(d, o)
  BY <1>a, <1>1, <1>2 DEF Closed
<1>4. Heard(d, s) /\ (Heard(c, o) => Heard(d, o))
  BY <1>0, <1>1, <1>2 DEF Heard
<1>5. Shut(d, s) /\ Shut(d, o)
  BY <1>a, <1>b, <1>1, <1>2, <1>4 DEF Shut
<1>6. Told(d, s) /\ Told(d, o)
  BY <1>0, <1>a, <1>1, <1>2 DEF Told
<1>7. First(d)
  BY <1>0, <1>a, <1>b, <1>1, <1>2 DEF First
<1>8. Answering(d)
  <2>1. CASE s = "responder"
    <3>1. o = "caller"
      BY <1>0, <2>1, TheSides
    <3> QED  BY <1>a, <1>b, <1>1, <1>2, <2>1, <3>1 DEF Answering
  <2>2. CASE s # "responder"
    <3>1. o = "responder" /\ s = "caller"
      BY <1>0, <2>2, TheSides
    <3> QED  BY <1>a, <1>b, <1>1, <1>2, <3>1 DEF Answering
  <2> QED  BY <2>1, <2>2
<1> QED  BY <1>0, <1>3, <1>5, <1>6, <1>7, <1>8 DEF Closing

(* The session of a side ends. *)
LEMMA EndClosing ==
    ASSUME NEW c \in CallType, NEW d \in CallType, Impls, Closing(c), NEW s \in Sides,
           setting' = setting, ended \in [Sides -> BOOLEAN], ended' = [ended EXCEPT ![s] = TRUE],
           ~Mock, WasShut(c, d, s), CallerSame(c, d), ServerSame(c, d)
    PROVE  Closing(d)'
<1>0. PICK o \in Sides : o = Other(s) /\ o # s /\ Other(o) = s /\ \A x \in Sides : x = s \/ x = o
  BY TheSides DEF Sides
<1>a. /\ Closed(c, s) /\ Closed(c, o) /\ Shut(c, s) /\ Shut(c, o) /\ Told(c, s) /\ Told(c, o)
      /\ First(c) /\ Answering(c)
  BY DEF Closing
<1>b. /\ HasClosed(c, s) => HasClosed(d, s)
      /\ HasClosed(c, o) => HasClosed(d, o)
      /\ Leaving(c) => Leaving(d)
      /\ Finished(c) <=> Finished(d)
      /\ Doubled(c) => Doubled(d)
      /\ d.ran = c.ran
  BY DEF HasClosed, Leaving, Finished, Doubled, Returned, CallerSame, ServerSame
<1>c. /\ c.gone \in [Sides -> BOOLEAN] /\ c.finishing \in [Sides -> BOOLEAN]
      /\ c.sentClose \in [Sides -> BOOLEAN] /\ c.in \in [Sides -> Seq(PartType)]
      /\ Go(s) \in BOOLEAN
  BY Fields DEF Go
<1>d. /\ ended'[s] /\ (ended'[o] <=> ended[o]) /\ ~Mock' /\ (Go(s)' <=> Go(s))
      /\ (Go(o)' <=> Go(o)) /\ (Go("responder")' <=> Go("responder"))
  BY <1>0 DEF Mock, Go
<1>1. /\ d.out = c.out /\ d.late = c.late
      /\ d.gone[s] /\ (d.gone[o] <=> c.gone[o])
      /\ ~d.finishing[s] /\ (d.finishing[o] <=> c.finishing[o])
      /\ (d.sentClose[s] <=> c.sentClose[s] \/ Go(s))
      /\ (d.sentClose[o] <=> c.sentClose[o]) /\ d.in[o] = c.in[o]
      /\ ~Go(s) => d.in[s] = <<>>
  BY <1>0, <1>c DEF WasShut
<1>2. Closed(d, s)' /\ Closed(d, o)'
  BY <1>a, <1>d, <1>1 DEF Closed
<1>3. (Heard(c, s) => Heard(d, s)) /\ (Heard(c, o) => Heard(d, o))
  BY <1>0, <1>1 DEF Heard
<1>4. Shut(d, s)' /\ Shut(d, o)'
  <2>1. (Heard(d, s)' <=> Heard(d, s)) /\ (Heard(d, o)' <=> Heard(d, o))
    BY DEF Heard
  <2> QED  BY <1>a, <1>b, <1>d, <1>1, <1>3, <2>1 DEF Shut
<1>5. Told(d, s)' /\ Told(d, o)'
  BY <1>0, <1>a, <1>d, <1>1 DEF Told
<1>6. First(d)'
  BY <1>0, <1>a, <1>b, <1>d, <1>1 DEF First
<1>7. Answering(d)'
  <2>1. CASE s = "responder"
    <3>1. o = "caller"
      BY <1>0, <2>1, TheSides
    <3> QED  BY <1>a, <1>b, <1>d, <1>1, <2>1, <3>1 DEF Answering
  <2>2. CASE s # "responder"
    <3>1. o = "responder" /\ s = "caller"
      BY <1>0, <2>2, TheSides
    <3> QED  BY <1>a, <1>b, <1>d, <1>1, <3>1 DEF Answering
  <2> QED  BY <2>1, <2>2
<1> QED  BY <1>0, <1>2, <1>4, <1>5, <1>6, <1>7 DEF Closing

(* MockSession.close. *)
LEMMA MockEndClosing ==
    ASSUME NEW c \in CallType, NEW d \in CallType, Impls, Closing(c), Mock,
           setting' = setting, ended' \in [Sides -> BOOLEAN],
           d.out = c.out, d.late = c.late, d.sentClose = c.sentClose, d.finishing = c.finishing,
           EmptyIn(d), CallerSame(c, d), ServerSame(c, d)
    PROVE  Closing(d)'
<1>1. \A s \in Sides : ~Go(s) /\ ~Go(s)' /\ Mock'
  BY GoOrNot, TheSides DEF Go, Mock
<1>2. /\ \A s \in Sides : Closed(c, s) /\ Shut(c, s)
      /\ First(c)
  BY DEF Closing
<1>3. \A s \in Sides : c.out[s] = <<>> /\ ~c.sentClose[s] /\ ~c.finishing[s] /\ ~c.late[s]
  BY <1>1, <1>2 DEF Shut, Closed
<1>4. \A s \in Sides : Closed(d, s)'
  BY <1>1, <1>2 DEF Closed
<1>5. \A s \in Sides : Shut(d, s)'
  BY <1>1, <1>3 DEF Shut, EmptyIn
<1>6. \A s \in Sides : Told(d, s)'
  BY <1>1, TheSides DEF Told
<1>7. First(d)'
  BY <1>3 DEF First, Closes
<1>8. Answering(d)'
  BY <1>1, <1>3, TheSides DEF Answering
<1> QED  BY <1>4, <1>5, <1>6, <1>7, <1>8 DEF Closing

-----------------------------------------------------------------------------
(* What the actions do to a call *)

LEMMA PartsJoin ==
    ASSUME NEW p \in Seq(PartType), NEW q \in Seq(PartType)
    PROVE  /\ p \o q \in Seq(PartType)
           /\ p # <<>> => Tail(p) \in Seq(PartType) /\ Head(p) \in PartType
  BY ConcatProperties, HeadTailProperties

(* Deliver, of data. *)
TookIn(c, d, s) ==
    /\ Popped(c, d, s)
    /\ d.in = [c.in EXCEPT ![s] = @ \o Head(c.out[Other(s)])]

Less(c, s) == [c EXCEPT !.out[Other(s)] = Tail(@)]

TakenIn(c, s) == [Less(c, s) EXCEPT !.in[s] = @ \o Head(c.out[Other(s)])]

LEMMA TookInDoes ==
    ASSUME NEW c \in CallType, NEW s \in Sides, c.out[Other(s)] # <<>>
    PROVE  Others(c, TakenIn(c, s)) /\ TookIn(c, TakenIn(c, s), s)
<1>0. PICK o \in Sides : o = Other(s)
  BY TheSides
<1>1. c.out[o] \in Seq(MessageType) /\ c.in[s] \in Seq(PartType)
  BY Fields
<1>2. Tail(c.out[o]) \in Seq(MessageType) /\ Head(c.out[o]) \in Seq(PartType)
  BY <1>0, <1>1, HeadTailProperties DEF MessageType
<1>3. PICK t \in Seq(MessageType) : t = Tail(c.out[o])
  BY <1>2
<1>4. c.in[s] \o Head(c.out[o]) \in Seq(PartType)
  BY <1>1, <1>2, ConcatProperties
<1>5. PICK q \in Seq(PartType) : q = c.in[s] \o Head(c.out[o])
  BY <1>4
<1> DEFINE e == [[c EXCEPT !.out[o] = t] EXCEPT !.in[s] = q]
<1>6. e \in CallType
  BY DEF CallType
<1>7. CallerSame(c, e) /\ ServerSame(c, e) /\ CodecSame(c, e) /\ e.listed = c.listed
  BY DEF CallType, CallerSame, ServerSame, CodecSame
<1>8. /\ e.out = [c.out EXCEPT ![o] = t] /\ e.in = [c.in EXCEPT ![s] = q]
      /\ e.sentClose = c.sentClose /\ e.finishing = c.finishing
      /\ e.gone = c.gone /\ e.late = c.late
  BY DEF CallType
<1>9. e = TakenIn(c, s)
  <2>1. [c EXCEPT !.out[o] = t] = Less(c, s)
    BY <1>0, <1>3 DEF Less
  <2>2. [c EXCEPT !.out[o] = t].in = c.in
    BY DEF CallType
  <2> QED  BY <1>0, <1>5, <2>1, <2>2 DEF TakenIn
<1> HIDE DEF e
<1> QED  BY <1>0, <1>3, <1>5, <1>6, <1>7, <1>8, <1>9 DEF Others, TookIn, Popped

(* A message is taken off the wire. *)
LEMMA PopDoes ==
    ASSUME NEW c \in CallType, NEW s \in Sides, c.out[Other(s)] # <<>>
    PROVE  LET d == Less(c, s)
           IN  Others(c, d) /\ Popped(c, d, s) /\ d.in = c.in
<1>0. PICK o \in Sides : o = Other(s)
  BY TheSides
<1>1. c.out[o] \in Seq(MessageType)
  BY Fields
<1>2. PICK t \in Seq(MessageType) : t = Tail(c.out[o])
  BY <1>0, <1>1, HeadTailProperties
<1> DEFINE e == [c EXCEPT !.out[o] = t]
<1>3. e \in CallType
  BY DEF CallType
<1>4. CallerSame(c, e) /\ ServerSame(c, e) /\ CodecSame(c, e) /\ e.listed = c.listed
  BY DEF CallType, CallerSame, ServerSame, CodecSame
<1>5. /\ e.out = [c.out EXCEPT ![o] = t] /\ e.in = c.in
      /\ e.sentClose = c.sentClose /\ e.finishing = c.finishing
      /\ e.gone = c.gone /\ e.late = c.late
  BY DEF CallType
<1>6. e = Less(c, s)
  BY <1>0, <1>2 DEF Less
<1> HIDE DEF e
<1> QED  BY <1>0, <1>2, <1>3, <1>4, <1>5, <1>6 DEF Others, Popped

(* Deliver, of a Close. *)
Answered(c, s) == [CloseChannel(Less(c, s), s) EXCEPT !.finishing[s] = Go(s)]

LEMMA ToldDoes ==
    ASSUME NEW c \in CallType, NEW s \in Sides, c.out[Other(s)] # <<>>, Impls, ~Mock, ~c.gone[s]
    PROVE  Others(c, Answered(c, s)) /\ ToldOf(c, Answered(c, s), s)
<1>0. PICK o \in Sides : o = Other(s) /\ o # s
  BY TheSides
<1> DEFINE rest == Less(c, s)
<1>1. Others(c, rest) /\ Popped(c, rest, s) /\ rest.in = c.in
  BY PopDoes
<1>2. PICK r : r = rest
  OBVIOUS
<1> HIDE DEF rest
<1>3. r \in CallType
  BY <1>1, <1>2 DEF Others
<1> DEFINE f == CloseChannel(r, s)
<1>4. Others(r, f) /\ DidClose(r, f, s)
  BY <1>3, CloseDoes
<1>5. f \in CallType
  BY <1>4 DEF Others
<1> HIDE DEF f
<1>6. PICK g \in BOOLEAN : g = Go(s)
  BY GoOrNot
<1> DEFINE e == [f EXCEPT !.finishing[s] = g]
<1>7. e \in CallType
  BY <1>5 DEF CallType
<1>8. CallerSame(f, e) /\ ServerSame(f, e) /\ CodecSame(f, e) /\ e.listed = f.listed
  BY <1>5 DEF CallType, CallerSame, ServerSame, CodecSame
<1>9. /\ e.out = f.out /\ e.in = f.in /\ e.sentClose = f.sentClose /\ e.gone = f.gone
      /\ e.late = f.late /\ e.finishing = [f.finishing EXCEPT ![s] = g]
  BY <1>5 DEF CallType
<1> HIDE DEF e
<1>10. Others(c, e)
  BY <1>1, <1>2, <1>4, <1>7, <1>8 DEF Others, CallerSame, ServerSame, CodecSame
<1>11. /\ r.out[o] = Tail(c.out[o]) /\ r.out[s] = c.out[s] /\ r.late = c.late
       /\ r.sentClose = c.sentClose /\ r.gone = c.gone /\ r.finishing = c.finishing /\ r.in = c.in
  BY <1>0, <1>1, <1>2, Fields DEF Popped
<1>12. /\ r.sentClose \in [Sides -> BOOLEAN] /\ r.gone \in [Sides -> BOOLEAN]
       /\ f.finishing \in [Sides -> BOOLEAN] /\ r.out \in [Sides -> Seq(MessageType)]
       /\ r.in \in [Sides -> Seq(PartType)] /\ r.finishing \in [Sides -> BOOLEAN]
  BY <1>3, <1>5, Fields
<1>13. /\ f.out[o] = r.out[o] /\ f.late = r.late /\ f.sentClose[s] /\ f.sentClose[o] = r.sentClose[o]
       /\ f.gone[o] = r.gone[o] /\ f.finishing[o] = r.finishing[o] /\ f.in[o] = r.in[o]
       /\ ~r.sentClose[s] \/ Go(s) => f.gone[s] = r.gone[s] /\ f.in[s] = r.in[s]
       /\ r.sentClose[s] /\ ~Go(s) => f.gone[s] /\ f.in[s] = <<>>
       /\ f.out[s] = IF r.sentClose[s] \/ Swallowed THEN r.out[s] ELSE Append(r.out[s], Close)
  <2>1. CASE ~r.sentClose[s]
    BY <1>0, <1>4, <1>12, <2>1 DEF DidClose
  <2>2. CASE r.sentClose[s] /\ Go(s)
    BY <1>0, <1>4, <1>12, <2>2 DEF DidClose, ChannelSame
  <2>3. CASE r.sentClose[s] /\ ~Go(s)
    BY <1>0, <1>4, <1>12, <2>3 DEF DidClose, WasShut
  <2> QED  BY <2>1, <2>2, <2>3
<1>14. e.finishing[s] = Go(s) /\ e.finishing[o] = f.finishing[o]
  BY <1>0, <1>6, <1>9, <1>12
<1>15. ToldOf(c, e, s)
  BY <1>0, <1>9, <1>11, <1>13, <1>14 DEF ToldOf
<1>16. e = Answered(c, s)
  BY <1>2, <1>6 DEF e, f, Answered, rest
<1> QED  BY <1>10, <1>15, <1>16

(* ReadSize *)
SizeRead(c, d, s, n) ==
    /\ ChannelSame(c, d) /\ d.count = c.count /\ d.values = c.values
    /\ d.in = [c.in EXCEPT ![s] = Tail(@)]
    /\ d.size = [c.size EXCEPT ![s] = n] /\ d.phase = [c.phase EXCEPT ![s] = "body"]

WithSize(c, s, n) == [c EXCEPT !.in[s] = Tail(@), !.size[s] = n, !.phase[s] = "body"]

LEMMA SizeReadDoes ==
    ASSUME NEW c \in CallType, NEW s \in Sides, c.in[s] # <<>>, NEW n \in Nat
    PROVE  LET d == WithSize(c, s, n)
           IN  /\ d \in CallType /\ CallerSame(c, d) /\ ServerSame(c, d) /\ d.listed = c.listed
               /\ SizeRead(c, d, s, n)
<1>1. PICK q \in Seq(PartType) : q = Tail(c.in[s])
  <2>1. c.in[s] \in Seq(PartType)
    BY Fields
  <2> QED  BY <2>1, PartsJoin
<1> DEFINE e == [c EXCEPT !.in[s] = q, !.size[s] = n, !.phase[s] = "body"]
<1>2. e \in CallType
  BY DEF CallType
<1>3. /\ CallerSame(c, e) /\ ServerSame(c, e) /\ ChannelSame(c, e) /\ e.listed = c.listed
      /\ e.count = c.count /\ e.values = c.values
  BY DEF CallType, CallerSame, ServerSame, ChannelSame
<1>4. /\ e.in = [c.in EXCEPT ![s] = q] /\ e.size = [c.size EXCEPT ![s] = n]
      /\ e.phase = [c.phase EXCEPT ![s] = "body"]
  BY DEF CallType
<1>5. e = WithSize(c, s, n)
  BY <1>1 DEF WithSize
<1> HIDE DEF e
<1> QED  BY <1>1, <1>2, <1>3, <1>4, <1>5 DEF SizeRead

(* ReadBody: a value is added, or the readLoop throws. *)
BodyRead(c, d, s, n, values, phase) ==
    /\ ChannelSame(c, d) /\ d.size = c.size
    /\ d.in = [c.in EXCEPT ![s] = SubSeq(@, n + 1, Len(@))]
    /\ d.count = [c.count EXCEPT ![s] = @ + 1]
    /\ d.values = [c.values EXCEPT ![s] = values] /\ d.phase = [c.phase EXCEPT ![s] = phase]

WithBody(c, s, n) == [c EXCEPT !.in[s] = SubSeq(@, n + 1, Len(@)), !.count[s] = @ + 1]

Stopped(c, s, n) == [WithBody(c, s, n) EXCEPT !.phase[s] = "stopped"]

WithValue(c, s, n, v, phase) ==
    [WithBody(c, s, n) EXCEPT !.values[s] = Append(@, v), !.phase[s] = phase]

LEMMA BodyReadDoes ==
    ASSUME NEW c \in CallType, NEW s \in Sides, NEW n \in Nat, n <= Len(c.in[s]),
           NEW v \in ValueType, NEW phase \in {"size", "stopped"}
    PROVE  LET read == WithBody(c, s, n)
               d == Stopped(c, s, n)
               e == WithValue(c, s, n, v, phase)
           IN  /\ d \in CallType /\ CallerSame(c, d) /\ ServerSame(c, d) /\ d.listed = c.listed
               /\ BodyRead(c, d, s, n, c.values[s], "stopped")
               /\ e \in CallType /\ CallerSame(c, e) /\ ServerSame(c, e) /\ e.listed = c.listed
               /\ BodyRead(c, e, s, n, Append(c.values[s], v), phase)
               /\ read.count[s] = c.count[s] + 1
<1>1. PICK q \in Seq(PartType) : q = SubSeq(c.in[s], n + 1, Len(c.in[s]))
  <2>1. c.in[s] \in Seq(PartType)
    BY Fields
  <2>2. SubSeq(c.in[s], n + 1, Len(c.in[s])) \in Seq(PartType)
    BY <2>1, SubSeqProperties
  <2> QED  BY <2>2
<1>2. PICK k \in Nat : k = c.count[s] + 1
  <2>1. c.count[s] \in Nat
    BY Fields
  <2>2. c.count[s] + 1 \in Nat
    BY <2>1
  <2> QED  BY <2>2
<1>3. PICK vs \in Seq(ValueType) : vs = Append(c.values[s], v)
  <2>1. c.values[s] \in Seq(ValueType)
    BY Fields
  <2> QED  BY <2>1, AppendProperties
<1> DEFINE r == [c EXCEPT !.in[s] = q, !.count[s] = k]
           d == [r EXCEPT !.phase[s] = "stopped"]
           e == [r EXCEPT !.values[s] = vs, !.phase[s] = phase]
           read == WithBody(c, s, n)
<1>4. d \in CallType /\ e \in CallType
  BY DEF CallType
<1>5. /\ CallerSame(c, d) /\ ServerSame(c, d) /\ ChannelSame(c, d) /\ d.listed = c.listed
      /\ d.size = c.size
  BY DEF CallType, CallerSame, ServerSame, ChannelSame
<1>6. /\ d.in = [c.in EXCEPT ![s] = q] /\ d.count = [c.count EXCEPT ![s] = k]
      /\ d.values = c.values /\ d.phase = [c.phase EXCEPT ![s] = "stopped"]
  BY DEF CallType
<1>7. /\ CallerSame(c, e) /\ ServerSame(c, e) /\ ChannelSame(c, e) /\ e.listed = c.listed
      /\ e.size = c.size
  BY DEF CallType, CallerSame, ServerSame, ChannelSame
<1>8. /\ e.in = [c.in EXCEPT ![s] = q] /\ e.count = [c.count EXCEPT ![s] = k]
      /\ e.values = [c.values EXCEPT ![s] = vs] /\ e.phase = [c.phase EXCEPT ![s] = phase]
  BY DEF CallType
<1>9. r = read /\ r.count[s] = k
  BY <1>1, <1>2 DEF CallType, WithBody
<1>10. d = Stopped(c, s, n)
  BY <1>9 DEF Stopped
<1>11. e = WithValue(c, s, n, v, phase)
  <2>1. r.values[s] = c.values[s]
    BY DEF CallType
  <2> QED  BY <1>3, <1>9, <2>1 DEF WithValue
<1> HIDE DEF d, e, r, read
<1>12. c.values = [c.values EXCEPT ![s] = c.values[s]]
  BY Fields
<1>13. BodyRead(c, d, s, n, c.values[s], "stopped")
  BY <1>1, <1>2, <1>5, <1>6, <1>12 DEF BodyRead
<1>14. BodyRead(c, e, s, n, Append(c.values[s], v), phase)
  BY <1>1, <1>2, <1>3, <1>7, <1>8 DEF BodyRead
<1> QED  BY <1>2, <1>4, <1>5, <1>7, <1>9, <1>10, <1>11, <1>13, <1>14 DEF read

(* ReadEnd *)
EndRead(c, d, s, values, phase) ==
    /\ ChannelSame(c, d) /\ d.in = c.in /\ d.size = c.size /\ d.count = c.count
    /\ d.values = [c.values EXCEPT ![s] = values] /\ d.phase = [c.phase EXCEPT ![s] = phase]

AtEnd(c, s) == [c EXCEPT !.values[s] = <<Plain("EOF")>>, !.phase[s] = "size"]

LEMMA EndReadDoes ==
    ASSUME NEW c \in CallType, NEW s \in Sides
    PROVE  LET d == AtEnd(c, s)
               e == [c EXCEPT !.phase[s] = "stopped"]
           IN  /\ d \in CallType /\ CallerSame(c, d) /\ ServerSame(c, d) /\ d.listed = c.listed
               /\ EndRead(c, d, s, <<Plain("EOF")>>, "size")
               /\ e \in CallType /\ CallerSame(c, e) /\ ServerSame(c, e) /\ e.listed = c.listed
               /\ EndRead(c, e, s, c.values[s], "stopped")
<1>1. PICK vs \in Seq(ValueType) : vs = <<Plain("EOF")>>
  <2>1. <<Plain("EOF")>> \in Seq(ValueType)
    BY PartTypes DEF Kinds
  <2> QED  BY <2>1
<1> DEFINE d == [c EXCEPT !.values[s] = vs, !.phase[s] = "size"]
           e == [c EXCEPT !.phase[s] = "stopped"]
<1>2. d \in CallType /\ e \in CallType
  BY DEF CallType
<1>3. /\ CallerSame(c, d) /\ ServerSame(c, d) /\ ChannelSame(c, d) /\ d.listed = c.listed
      /\ d.in = c.in /\ d.size = c.size /\ d.count = c.count
  BY DEF CallType, CallerSame, ServerSame, ChannelSame
<1>4. d.values = [c.values EXCEPT ![s] = vs] /\ d.phase = [c.phase EXCEPT ![s] = "size"]
  BY DEF CallType
<1>5. /\ CallerSame(c, e) /\ ServerSame(c, e) /\ ChannelSame(c, e) /\ e.listed = c.listed
      /\ e.in = c.in /\ e.size = c.size /\ e.count = c.count /\ e.values = c.values
      /\ e.phase = [c.phase EXCEPT ![s] = "stopped"]
  BY DEF CallType, CallerSame, ServerSame, ChannelSame
<1>6. c.values = [c.values EXCEPT ![s] = c.values[s]]
  BY Fields
<1>7. d = AtEnd(c, s)
  BY <1>1 DEF AtEnd
<1> HIDE DEF d
<1>8. EndRead(c, d, s, <<Plain("EOF")>>, "size")
  BY <1>1, <1>3, <1>4 DEF EndRead
<1>9. EndRead(c, e, s, c.values[s], "stopped")
  <2> HIDE DEF e
  <2> QED  BY <1>5, <1>6 DEF EndRead
<1> QED  BY <1>2, <1>3, <1>5, <1>7, <1>8, <1>9

(* What the caller does: what of the call and of the channel stays. *)
ChannelKept(c, d) == ChannelSame(c, d) /\ d.in = c.in

LEMMA StageDoes ==
    ASSUME NEW c \in CallType, NEW stage \in Stages
    PROVE  LET d == [c EXCEPT !.stage = stage]
           IN  /\ d \in CallType /\ ServerSame(c, d) /\ CodecSame(c, d) /\ ChannelKept(c, d)
               /\ d.stage = stage /\ d.todo = c.todo /\ d.error = c.error /\ d.got = c.got
               /\ d.hijacked = c.hijacked /\ d.reply = c.reply /\ d.listed = c.listed
<1> DEFINE d == [c EXCEPT !.stage = stage]
<1>1. d \in CallType
  BY DEF CallType
<1>2. /\ ServerSame(c, d) /\ CodecSame(c, d) /\ ChannelKept(c, d)
      /\ d.stage = stage /\ d.todo = c.todo /\ d.error = c.error /\ d.got = c.got
      /\ d.hijacked = c.hijacked /\ d.reply = c.reply /\ d.listed = c.listed
  BY DEF CallType, ServerSame, CodecSame, ChannelKept, ChannelSame
<1> QED  BY <1>1, <1>2

LessTodo(c, stage) == [c EXCEPT !.todo = Tail(@), !.stage = stage]

LEMMA TodoDoes ==
    ASSUME NEW c \in CallType, NEW stage \in Stages, c.todo # <<>>
    PROVE  LET d == LessTodo(c, stage)
           IN  /\ d \in CallType /\ ServerSame(c, d) /\ CodecSame(c, d) /\ ChannelKept(c, d)
               /\ d.stage = stage /\ d.todo = Tail(c.todo) /\ d.error = c.error /\ d.got = c.got
               /\ d.hijacked = c.hijacked /\ d.reply = c.reply /\ d.listed = c.listed
<1>1. PICK t \in Seq(MessageType) : t = Tail(c.todo)
  BY Fields, HeadTailProperties
<1> DEFINE d == [c EXCEPT !.todo = t, !.stage = stage]
<1>2. d \in CallType
  BY DEF CallType
<1>3. /\ ServerSame(c, d) /\ CodecSame(c, d) /\ ChannelKept(c, d)
      /\ d.stage = stage /\ d.todo = t /\ d.error = c.error /\ d.got = c.got
      /\ d.hijacked = c.hijacked /\ d.reply = c.reply /\ d.listed = c.listed
  BY DEF CallType, ServerSame, CodecSame, ChannelKept, ChannelSame
<1>4. d = LessTodo(c, stage)
  BY <1>1 DEF LessTodo
<1> HIDE DEF d
<1> QED  BY <1>1, <1>2, <1>3, <1>4

(* decode, at a side. *)
OneDecoded(c, d, s) ==
    /\ d.phase = c.phase /\ d.size = c.size /\ d.count = c.count
    /\ d.values = [c.values EXCEPT ![s] = Tail(@)]

LEMMA DecodedDoes ==
    ASSUME NEW c \in CallType, NEW s \in Sides, c.values[s] # <<>>
    PROVE  LET d == Decoded(c, s)
           IN  /\ d \in CallType /\ CallerSame(c, d) /\ ServerSame(c, d) /\ ChannelKept(c, d)
               /\ OneDecoded(c, d, s) /\ d.listed = c.listed
               /\ Head(c.values[s]) \in ValueType
<1>1. c.values[s] \in Seq(ValueType)
  BY Fields
<1>2. PICK vs \in Seq(ValueType) : vs = Tail(c.values[s])
  BY <1>1, HeadTailProperties
<1> DEFINE d == [c EXCEPT !.values[s] = vs]
<1>3. d \in CallType
  BY DEF CallType
<1>4. /\ CallerSame(c, d) /\ ServerSame(c, d) /\ ChannelKept(c, d) /\ d.listed = c.listed
      /\ d.phase = c.phase /\ d.size = c.size /\ d.count = c.count
      /\ d.values = [c.values EXCEPT ![s] = vs]
  BY DEF CallType, CallerSame, ServerSame, ChannelKept, ChannelSame
<1>5. d = Decoded(c, s)
  BY <1>2 DEF Decoded
<1>6. Head(c.values[s]) \in ValueType
  BY <1>1, HeadTailProperties
<1> HIDE DEF d
<1> QED  BY <1>2, <1>3, <1>4, <1>5, <1>6 DEF OneDecoded

Noting(c, error, hijacked) == [c EXCEPT !.error = error, !.hijacked = hijacked]

LEMMA NotedDoes ==
    ASSUME NEW c \in CallType, NEW error \in BOOLEAN, NEW hijacked \in BOOLEAN,
           NEW d, d = Noting(c, error, hijacked)
    PROVE  /\ d \in CallType /\ ServerSame(c, d) /\ CodecSame(c, d) /\ ChannelKept(c, d)
           /\ d.stage = c.stage /\ d.todo = c.todo /\ d.error = error /\ d.got = c.got
           /\ d.hijacked = hijacked /\ d.reply = c.reply
<1> DEFINE e == [c EXCEPT !.error = error, !.hijacked = hijacked]
<1>1. e \in CallType
  BY DEF CallType
<1>2. /\ ServerSame(c, e) /\ CodecSame(c, e) /\ ChannelKept(c, e)
      /\ e.stage = c.stage /\ e.todo = c.todo /\ e.error = error /\ e.got = c.got
      /\ e.hijacked = hijacked /\ e.reply = c.reply
  BY DEF CallType, ServerSame, CodecSame, ChannelKept, ChannelSame
<1>3. d = e
  BY DEF Noting
<1> HIDE DEF e
<1> QED  BY <1>1, <1>2, <1>3

LEMMA ReplySetDoes ==
    ASSUME NEW c \in CallType, NEW reply \in Kinds, NEW d, d = [c EXCEPT !.reply = reply]
    PROVE  /\ d \in CallType /\ ServerSame(c, d) /\ CodecSame(c, d) /\ ChannelKept(c, d)
           /\ d.stage = c.stage /\ d.todo = c.todo /\ d.error = c.error /\ d.got = c.got
           /\ d.hijacked = c.hijacked /\ d.reply = reply
<1> DEFINE e == [c EXCEPT !.reply = reply]
<1>1. e \in CallType
  BY DEF CallType
<1>2. /\ ServerSame(c, e) /\ CodecSame(c, e) /\ ChannelKept(c, e)
      /\ e.stage = c.stage /\ e.todo = c.todo /\ e.error = c.error /\ e.got = c.got
      /\ e.hijacked = c.hijacked /\ e.reply = reply
  BY DEF CallType, ServerSame, CodecSame, ChannelKept, ChannelSame
<1>3. d = e
  OBVIOUS
<1> HIDE DEF e
<1> QED  BY <1>1, <1>2, <1>3

Taking(c) == [c EXCEPT !.in["caller"] = Tail(@), !.got = Append(@, Head(c.in["caller"]))]

LEMMA TakeRawDoes ==
    ASSUME NEW c \in CallType, c.in["caller"] # <<>>
    PROVE  LET d == Taking(c)
           IN  /\ d \in CallType /\ ServerSame(c, d) /\ CodecSame(c, d) /\ ChannelSame(c, d)
               /\ d.stage = c.stage /\ d.todo = c.todo /\ d.error = c.error
               /\ d.hijacked = c.hijacked /\ d.reply = c.reply /\ d.listed = c.listed
               /\ d.in = [c.in EXCEPT !["caller"] = Tail(@)]
               /\ d.got = Append(c.got, Head(c.in["caller"]))
<1>1. c.in["caller"] \in Seq(PartType) /\ c.got \in Seq(PartType)
  BY Fields, TheSides
<1>2. PICK q \in Seq(PartType) : q = Tail(c.in["caller"])
  BY <1>1, HeadTailProperties
<1>3. PICK g \in Seq(PartType) : g = Append(c.got, Head(c.in["caller"]))
  BY <1>1, HeadTailProperties, AppendProperties
<1> DEFINE d == [c EXCEPT !.in["caller"] = q, !.got = g]
<1>4. d \in CallType
  BY DEF CallType
<1>5. /\ ServerSame(c, d) /\ CodecSame(c, d) /\ ChannelSame(c, d)
      /\ d.stage = c.stage /\ d.todo = c.todo /\ d.error = c.error
      /\ d.hijacked = c.hijacked /\ d.reply = c.reply /\ d.listed = c.listed
      /\ d.in = [c.in EXCEPT !["caller"] = q] /\ d.got = g
  BY DEF CallType, ServerSame, CodecSame, ChannelSame
<1>6. d = Taking(c)
  BY <1>2, <1>3 DEF Taking
<1> HIDE DEF d
<1> QED  BY <1>2, <1>3, <1>4, <1>5, <1>6
-----------------------------------------------------------------------------
(* The frames of a request and of a reply *)

LEMMA SomeUnits ==
    ASSUME Impls, NEW s \in Sides, NEW v \in ValueType
    PROVE  /\ Units(s, v) \in 0 .. 2
           /\ v.kind # "undefined" => Units(s, v) \in 1 .. 2
           /\ v.kind # "value" => Units(s, v) \in 0 .. 1
           /\ ~Go(s) => Units(s, v) \in 0 .. 1
           /\ Units(s, v) = 2 => Go(s) /\ setting.big /\ v.kind = "value"
<1>1. CASE Go(s) /\ setting.big /\ v.kind = "value"
  <2>1. ~(setting.impl[s] = "rpc" /\ v.kind = "undefined")
    BY <1>1
  <2>2. Units(s, v) = 2
    BY <1>1, <2>1 DEF Units
  <2> QED  BY <1>1, <2>2
<1>2. CASE setting.impl[s] = "rpc" /\ v.kind = "undefined"
  <2>1. ~(Go(s) /\ setting.big /\ v.kind = "value")
    BY <1>2
  <2>2. Units(s, v) = 0
    BY <1>2, <2>1 DEF Units
  <2> QED  BY <1>2, <2>2
<1>3. CASE ~(Go(s) /\ setting.big /\ v.kind = "value") /\ ~(setting.impl[s] = "rpc" /\ v.kind = "undefined")
  <2>1. Units(s, v) = 1
    BY <1>3 DEF Units
  <2> QED  BY <2>1
<1> QED  BY <1>1, <1>2, <1>3

LEMMA OneAndOne ==
    ASSUME NEW a \in MessageType, NEW b \in MessageType, NEW h, h = <<a>> \o <<b>>
    PROVE  h \in Seq(MessageType) /\ Len(h) = 2 /\ h[1] = a /\ h[2] = b
<1>1. PICK f \in Seq(MessageType) : f = <<a>>
  <2>1. <<a>> \in Seq(MessageType)
    OBVIOUS
  <2> QED  BY <2>1
<1>2. PICK g \in Seq(MessageType) : g = <<b>>
  <2>1. <<b>> \in Seq(MessageType)
    OBVIOUS
  <2> QED  BY <2>1
<1>3. Len(f) = 1 /\ f[1] = a /\ Len(g) = 1 /\ g[1] = b
  BY <1>1, <1>2
<1>4. /\ f \o g \in Seq(MessageType) /\ Len(f \o g) = Len(f) + Len(g)
      /\ \A k \in 1 .. Len(f) + Len(g) : (f \o g)[k] = IF k <= Len(f) THEN f[k] ELSE g[k - Len(f)]
  BY ConcatProperties
<1>5. h = f \o g
  BY <1>1, <1>2
<1> QED  BY <1>3, <1>4, <1>5

(* A frame in Go is in one message and, if it is long, another; in JavaScript in two. *)
LEMMA FrameIs ==
    ASSUME Impls, NEW s \in Sides, NEW v \in ValueType
    PROVE  LET f == Frame(s, v)
               n == Units(s, v)
           IN
           /\ f \in Seq(MessageType)
           /\ Go(s) /\ n # 0 =>
                 /\ Len(f) = n /\ f[1] = <<SizePart(n), BodyPart(v)>>
                 /\ n = 2 => f[2] = <<MorePart>>
           /\ Go(s) => Len(f) >= 1 /\ f[1] = <<SizePart(n), BodyPart(v)>>
                       /\ \A k \in 1 .. Len(f) : k # 1 => f[k] = <<MorePart>>
           /\ ~Go(s) =>
                 /\ Len(f) = n + 1 /\ f[1] = <<SizePart(n)>>
                 /\ n = 1 => f[2] = <<BodyPart(v)>>
<1>f. PICK f : f = Frame(s, v)
  OBVIOUS
<1>n. PICK n : n = Units(s, v)
  OBVIOUS
<1>1. n \in 0 .. 2 /\ (~Go(s) => n \in 0 .. 1)
  BY <1>n, SomeUnits
<1>2. /\ <<SizePart(n), BodyPart(v)>> \in MessageType /\ <<MorePart>> \in MessageType
      /\ <<SizePart(n)>> \in MessageType /\ <<BodyPart(v)>> \in MessageType
  <2>1. n \in Nat
    BY <1>1
  <2> QED  BY <2>1, PartTypes DEF MessageType
<1>3. PICK a \in MessageType : a = <<SizePart(n), BodyPart(v)>>
  BY <1>2
<1>4. PICK b \in MessageType : b = <<MorePart>>
  BY <1>2
<1>5. PICK g \in MessageType : g = <<SizePart(n)>>
  BY <1>2
<1>6. PICK h \in MessageType : h = <<BodyPart(v)>>
  BY <1>2
<1>7. ASSUME Go(s)
      PROVE  /\ f \in Seq(MessageType)
             /\ n # 0 =>
                   /\ Len(f) = n /\ f[1] = <<SizePart(n), BodyPart(v)>>
                   /\ n = 2 => f[2] = <<MorePart>>
             /\ Len(f) >= 1 /\ f[1] = <<SizePart(n), BodyPart(v)>>
             /\ \A k \in 1 .. Len(f) : k # 1 => f[k] = <<MorePart>>
  <2>1. f = <<a>> \o (IF n = 1 THEN <<>> ELSE <<b>>)
    BY <1>f, <1>n, <1>3, <1>4, <1>7 DEF Frame, OneWrite
  <2>2. CASE n = 1
    <3>1. f = <<a>>
      BY <2>1, <2>2
    <3> QED  BY <1>3, <1>7, <2>2, <3>1
  <2>3. CASE n # 1
    <3>1. f = <<a>> \o <<b>>
      BY <2>1, <2>3
    <3>2. /\ f \in Seq(MessageType) /\ Len(f) = 2 /\ f[1] = a /\ f[2] = b
      BY <3>1, OneAndOne
    <3> QED  BY <1>1, <1>3, <1>4, <1>7, <2>3, <3>2
  <2> QED  BY <2>2, <2>3
<1>8. ASSUME ~Go(s)
      PROVE  /\ f \in Seq(MessageType)
             /\ Len(f) = n + 1 /\ f[1] = <<SizePart(n)>>
             /\ n = 1 => f[2] = <<BodyPart(v)>>
  <2>1. f = <<g>> \o (IF n = 0 THEN <<>> ELSE <<h>>)
    BY <1>f, <1>n, <1>5, <1>6, <1>8 DEF Frame, TwoWrites
  <2>2. CASE n = 0
    <3>1. f = <<g>>
      BY <2>1, <2>2
    <3> QED  BY <1>5, <1>8, <2>2, <3>1
  <2>3. CASE n = 1
    <3>1. f = <<g>> \o <<h>>
      BY <2>1, <2>3
    <3>2. f \in Seq(MessageType) /\ Len(f) = 2 /\ f[1] = g /\ f[2] = h
      BY <3>1, OneAndOne
    <3>3. Len(f) = n + 1
      BY <2>3, <3>2
    <3>4. f[1] = <<SizePart(n)>> /\ f[2] = <<BodyPart(v)>>
      BY <1>5, <1>6, <3>2
    <3> QED  BY <1>8, <3>2, <3>3, <3>4
  <2> QED  BY <1>1, <1>8, <2>2, <2>3
<1>9. /\ f \in Seq(MessageType)
      /\ Go(s) /\ n # 0 =>
            /\ Len(f) = n /\ f[1] = <<SizePart(n), BodyPart(v)>>
            /\ n = 2 => f[2] = <<MorePart>>
      /\ Go(s) => Len(f) >= 1 /\ f[1] = <<SizePart(n), BodyPart(v)>>
                  /\ \A k \in 1 .. Len(f) : k # 1 => f[k] = <<MorePart>>
      /\ ~Go(s) =>
            /\ Len(f) = n + 1 /\ f[1] = <<SizePart(n)>>
            /\ n = 1 => f[2] = <<BodyPart(v)>>
  BY <1>7, <1>8
<1> QED  BY <1>f, <1>n, <1>9

LEMMA FrameNotClose ==
    ASSUME Impls, NEW s \in Sides, NEW v \in ValueType
    PROVE  LET f == Frame(s, v) IN
           /\ f # <<>> /\ ~Closes(f)
           /\ ~v.hijacked => \A k \in 1 .. Len(f) : NoMark(f[k])
<1>1. PICK f : f = Frame(s, v)
  OBVIOUS
<1>2. PICK n : n = Units(s, v)
  OBVIOUS
<1>3. n \in 0 .. 2 /\ (~Go(s) => n \in 0 .. 1)
  BY <1>2, SomeUnits
<1>4. \A k \in 1 .. Len(f) :
        f[k] \in {<<SizePart(n), BodyPart(v)>>, <<MorePart>>, <<SizePart(n)>>, <<BodyPart(v)>>}
  <2>1. CASE Go(s)
    <3>1. /\ f[1] = <<SizePart(n), BodyPart(v)>>
          /\ \A k \in 1 .. Len(f) : k # 1 => f[k] = <<MorePart>>
      BY <1>1, <1>2, <2>1, FrameIs
    <3> QED  BY <3>1, Zenon
  <2>2. CASE ~Go(s)
    <3>1. /\ Len(f) = n + 1 /\ f[1] = <<SizePart(n)>>
          /\ n = 1 => f[2] = <<BodyPart(v)>>
      BY <1>1, <1>2, <2>2, FrameIs
    <3>2. \A k \in 1 .. Len(f) : k = 1 \/ (k = 2 /\ n = 1)
      <4>1. n \in 0 .. 1 /\ Len(f) = n + 1
        BY <1>3, <2>2, <3>1
      <4> QED  BY <4>1
    <3> QED  BY <3>1, <3>2, Zenon
  <2> QED  BY <2>1, <2>2
<1>5. f \in Seq(MessageType) /\ Len(f) >= 1
  <2>1. f \in Seq(MessageType) /\ (Go(s) => Len(f) >= 1) /\ (~Go(s) => Len(f) = n + 1)
    BY <1>1, <1>2, FrameIs
  <2> QED  BY <1>3, <2>1
<1>6. /\ SizePart(n).part = "size" /\ BodyPart(v).part = "body" /\ MorePart.part = "more"
      /\ ~SizePart(n).value.hijacked /\ ~MorePart.value.hijacked /\ BodyPart(v).value = v
      /\ Close[1].part = "close"
  BY DEF SizePart, BodyPart, MorePart, Part, Plain, Value, Close
<1>7. ~Closes(f)
  BY <1>4, <1>6 DEF Closes
<1>8. ~v.hijacked => \A k \in 1 .. Len(f) : NoMark(f[k])
  <2>1. ASSUME ~v.hijacked, NEW k \in 1 .. Len(f)  PROVE NoMark(f[k])
    <3>1. CASE f[k] = <<SizePart(n), BodyPart(v)>>
      BY <1>6, <2>1, <3>1 DEF NoMark
    <3>2. CASE f[k] = <<MorePart>>
      BY <1>6, <3>2 DEF NoMark
    <3>3. CASE f[k] = <<SizePart(n)>>
      BY <1>6, <3>3 DEF NoMark
    <3>4. CASE f[k] = <<BodyPart(v)>>
      BY <1>6, <2>1, <3>4 DEF NoMark
    <3> QED  BY <1>4, <3>1, <3>2, <3>3, <3>4
  <2> QED  BY <2>1
<1> QED  BY <1>1, <1>5, <1>7, <1>8

(* Two frames, one after the other. *)
LEMMA TwoFrames ==
    ASSUME NEW f \in Seq(MessageType), NEW g \in Seq(MessageType)
    PROVE  /\ f \o g \in Seq(MessageType) /\ Len(f \o g) = Len(f) + Len(g)
           /\ \A k \in 1 .. Len(f) : (f \o g)[k] = f[k]
           /\ \A k \in 1 .. Len(g) : (f \o g)[Len(f) + k] = g[k]
           /\ \A k \in 1 .. Len(f) + Len(g) : k > Len(f) => (f \o g)[k] = g[k - Len(f)]
           /\ f # <<>> => f \o g # <<>>
           /\ ~Closes(f) /\ ~Closes(g) => ~Closes(f \o g)
           /\ (\A k \in 1 .. Len(f) : NoMark(f[k])) /\ (\A k \in 1 .. Len(g) : NoMark(g[k])) =>
                 \A k \in 1 .. Len(f \o g) : NoMark((f \o g)[k])
<1>1. PICK h : h = f \o g
  OBVIOUS
<1>2. /\ h \in Seq(MessageType) /\ Len(h) = Len(f) + Len(g) /\ Len(f) \in Nat /\ Len(g) \in Nat
      /\ \A k \in 1 .. Len(f) + Len(g) : h[k] = IF k <= Len(f) THEN f[k] ELSE g[k - Len(f)]
  BY <1>1, ConcatProperties
<1>3. \A k \in 1 .. Len(f) : h[k] = f[k]
  BY <1>2
<1>4. \A k \in 1 .. Len(g) : h[Len(f) + k] = g[k]
  BY <1>2, SMTT(30)
<1>5. \A k \in 1 .. Len(h) : k <= Len(f) \/ k - Len(f) \in 1 .. Len(g)
  BY <1>2
<1>6. f # <<>> => h # <<>>
  BY <1>2
<1>7. ~Closes(f) /\ ~Closes(g) => ~Closes(h)
  BY <1>2, <1>5, SMTT(30) DEF Closes
<1>8. (\A k \in 1 .. Len(f) : NoMark(f[k])) /\ (\A k \in 1 .. Len(g) : NoMark(g[k])) =>
        \A k \in 1 .. Len(h) : NoMark(h[k])
  <2>1. ASSUME \A k \in 1 .. Len(f) : NoMark(f[k]), \A k \in 1 .. Len(g) : NoMark(g[k]),
               NEW k \in 1 .. Len(h)
        PROVE  NoMark(h[k])
    <3>1. CASE k <= Len(f)
      <4>1. k \in 1 .. Len(f) /\ h[k] = f[k]
        BY <1>2, <2>1, <3>1
      <4> QED  BY <2>1, <4>1
    <3>2. CASE ~(k <= Len(f))
      <4>1. k - Len(f) \in 1 .. Len(g) /\ h[k] = g[k - Len(f)]
        BY <1>2, <2>1, <3>2
      <4> QED  BY <2>1, <4>1
    <3> QED  BY <3>1, <3>2
  <2> QED  BY <2>1
<1> QED  BY <1>1, <1>2, <1>3, <1>4, <1>6, <1>7, <1>8

LEMMA RequestIs ==
    ASSUME Impls, NEW i, setting.given[i] \in BOOLEAN
    PROVE  /\ Request(i) \in Seq(MessageType) /\ Request(i) # <<>> /\ ~Closes(Request(i))
           /\ Len(Request(i)) >= AskedMessages
           /\ \A n \in 1 .. AskedMessages : Request(i)[n] = AskedIn(n)
<1>1. Plain("call") \in ValueType /\ Plain(Params(setting.given[i])) \in ValueType
  BY PartTypes DEF Kinds, Params
<1>2. PICK f : f = Frame("caller", Plain("call"))
  OBVIOUS
<1>3. PICK g : g = Frame("caller", Plain(Params(setting.given[i])))
  OBVIOUS
<1>4. Units("caller", Plain("call")) = 1
  <2>1. Plain("call").kind = "call"
    BY DEF Plain, Value
  <2>2. Units("caller", Plain("call")) \in 1 .. 2 /\ Units("caller", Plain("call")) \in 0 .. 1
    BY <1>1, <2>1, SomeUnits, TheSides
  <2> QED  BY <2>2
<1>5. /\ f \in Seq(MessageType) /\ f # <<>> /\ ~Closes(f)
      /\ g \in Seq(MessageType) /\ g # <<>> /\ ~Closes(g)
  BY <1>1, <1>2, <1>3, FrameIs, FrameNotClose, TheSides
<1>6. Request(i) = f \o g
  BY <1>2, <1>3 DEF Request
<1>7. /\ f \o g \in Seq(MessageType) /\ f \o g # <<>> /\ ~Closes(f \o g)
      /\ Len(f \o g) = Len(f) + Len(g)
      /\ \A k \in 1 .. Len(f) : (f \o g)[k] = f[k]
  BY <1>5, TwoFrames
<1>8. Len(f) = AskedMessages /\ \A n \in 1 .. Len(f) : f[n] = AskedIn(n)
  <2>1. CASE Go("caller")
    <3>0. LET m == Frame("caller", Plain("call"))
              n == Units("caller", Plain("call"))
          IN  Len(m) = n /\ m[1] = <<SizePart(n), BodyPart(Plain("call"))>>
      BY <1>1, <1>4, <2>1, FrameIs, TheSides
    <3>1. Len(f) = 1 /\ f[1] = <<SizePart(1), BodyPart(Plain("call"))>>
      BY <1>2, <1>4, <3>0
    <3> QED  BY <2>1, <3>1 DEF AskedMessages, AskedIn, Asked
  <2>2. CASE ~Go("caller")
    <3>0. LET m == Frame("caller", Plain("call"))
              n == Units("caller", Plain("call"))
          IN  Len(m) = n + 1 /\ m[1] = <<SizePart(n)>> /\ (n = 1 => m[2] = <<BodyPart(Plain("call"))>>)
      BY <1>1, <1>4, <2>2, FrameIs, TheSides
    <3>1. Len(f) = 2 /\ f[1] = <<SizePart(1)>> /\ f[2] = <<BodyPart(Plain("call"))>>
      <4>1. PICK k : k = Units("caller", Plain("call"))
        OBVIOUS
      <4>2. Len(f) = k + 1 /\ f[1] = <<SizePart(k)>> /\ (k = 1 => f[2] = <<BodyPart(Plain("call"))>>)
        BY <1>2, <3>0, <4>1
      <4>3. k = 1
        BY <1>4, <4>1
      <4> QED  BY <4>2, <4>3
    <3>2. \A n \in 1 .. 2 : f[n] = AskedIn(n)
      BY <2>2, <3>1 DEF AskedIn, Asked
    <3> QED  BY <2>2, <3>1, <3>2 DEF AskedMessages
  <2> QED  BY <2>1, <2>2
<1>9. Len(f) \in Nat /\ Len(g) \in Nat
  BY <1>5
<1> QED  BY <1>6, <1>7, <1>8, <1>9

(* The reply of an outcome is that of a call whose handler ran so. *)
LEMMA ReplyParts ==
    ASSUME Impls, NEW c, c.ran \in Outcomes \cup {"none"}
    PROVE  /\ HeaderOf(c) \in ValueType /\ AnswerOf(c) \in ValueType
           /\ HeaderOf(c).kind = "header" /\ AnswerOf(c).kind \in {"null", "undefined", "value"}
           /\ ~AnswerOf(c).hijacked /\ (AnswerOf(c).kind = "value" => ~IsError(c.ran))
           /\ (HeaderOf(c).hijacked <=> c.ran = "hijack") /\ (HeaderOf(c).error <=> IsError(c.ran))
           /\ ReplyLength(c) \in {3, 4, 5} /\ (ReplyLength(c) = 5 => Go("responder"))
           /\ ReplyLength(c) = 5 => setting.big /\ c.ran \in {"value", "hijack"}
           /\ ReplyLength(c) = 3 <=> Empty(c)
           /\ Empty(c) => ~Go("responder")
           /\ ReplyLength(c) = 3 + Units("responder", AnswerOf(c))
           /\ Units("responder", HeaderOf(c)) = 1 /\ Units("responder", AnswerOf(c)) \in 0 .. 2
           /\ ReplyMessages(c) = IF Go("responder") THEN ReplyLength(c) - 2 ELSE ReplyLength(c)
<1>1. IsError(c.ran) \in BOOLEAN
  BY DEF IsError
<1>2. HeaderOf(c) \in ValueType /\ HeaderOf(c).kind = "header"
      /\ (HeaderOf(c).hijacked <=> c.ran = "hijack") /\ (HeaderOf(c).error <=> IsError(c.ran))
  BY <1>1 DEF HeaderOf, Value, ValueType, Kinds
<1>3. /\ AnswerOf(c) \in ValueType /\ AnswerOf(c).kind \in {"null", "undefined", "value"}
      /\ ~AnswerOf(c).hijacked
      /\ AnswerOf(c).kind = "value" => ~IsError(c.ran)
      /\ AnswerOf(c).kind = "undefined" <=> ~IsError(c.ran) /\ setting.nothing
  <2>1. PICK k \in {"null", "undefined", "value"} :
          /\ AnswerOf(c) = Plain(k) /\ (k = "value" => ~IsError(c.ran))
          /\ k = "undefined" <=> ~IsError(c.ran) /\ setting.nothing
    <3>1. CASE IsError(c.ran)
      BY <3>1 DEF AnswerOf, Answer
    <3>2. CASE ~IsError(c.ran) /\ setting.nothing
      BY <3>2 DEF AnswerOf, Answer
    <3>3. CASE ~IsError(c.ran) /\ ~setting.nothing
      BY <3>3 DEF AnswerOf, Answer
    <3> QED  BY <3>1, <3>2, <3>3
  <2>2. Plain(k).kind = k /\ Plain(k) \in ValueType /\ ~Plain(k).hijacked
    BY DEF Plain, Value, ValueType, Kinds
  <2> QED  BY <2>1, <2>2
<1>4. /\ Units("responder", AnswerOf(c)) \in 0 .. 2
      /\ Units("responder", AnswerOf(c)) = 0 <=> Empty(c)
  <2>1. Units("responder", AnswerOf(c)) \in 0 .. 2
    BY <1>3, SomeUnits, TheSides
  <2>2. Empty(c) <=> setting.impl["responder"] = "rpc" /\ AnswerOf(c).kind = "undefined"
    BY <1>3 DEF Empty, IsError
  <2>3. CASE Empty(c)
    <3>1. ~Go("responder")
      BY <2>2, <2>3 DEF Go
    <3>2. Units("responder", AnswerOf(c)) = 0
      BY <2>2, <2>3, <3>1 DEF Units
    <3> QED  BY <2>1, <2>3, <3>2
  <2>4. CASE ~Empty(c)
    <3>1. Units("responder", AnswerOf(c)) \in {1, 2}
      BY <2>2, <2>4 DEF Units
    <3> QED  BY <2>1, <2>4, <3>1
  <2> QED  BY <2>3, <2>4
<1>5. Units("responder", AnswerOf(c)) = 2 => Go("responder") /\ setting.big /\ AnswerOf(c).kind = "value"
  BY <1>3, SomeUnits, TheSides
<1>6. Units("responder", HeaderOf(c)) \in 1 .. 2 /\ Units("responder", HeaderOf(c)) \in 0 .. 1
  BY <1>2, SomeUnits, TheSides
<1>7. ReplyLength(c) = 3 + Units("responder", AnswerOf(c))
  BY DEF ReplyLength
<1>8. Empty(c) => ~Go("responder")
  BY DEF Empty, Go
<1>9. ReplyMessages(c) = IF Go("responder") THEN ReplyLength(c) - 2 ELSE ReplyLength(c)
  BY DEF ReplyMessages
<1>10. PICK u \in 0 .. 2 : u = Units("responder", AnswerOf(c))
  BY <1>4
<1>11. /\ ReplyLength(c) \in {3, 4, 5}
       /\ ReplyLength(c) = 3 <=> u = 0
       /\ ReplyLength(c) = 5 <=> u = 2
  BY <1>7, <1>10
<1>12. Units("responder", HeaderOf(c)) = 1
  BY <1>6
<1>13. ReplyLength(c) = 5 => Go("responder") /\ setting.big /\ c.ran \in {"value", "hijack"}
  BY <1>3, <1>5, <1>10, <1>11 DEF IsError
<1> QED  BY <1>2, <1>3, <1>4, <1>7, <1>8, <1>9, <1>10, <1>11, <1>12, <1>13

LEMMA ReplyIs ==
    ASSUME Impls, NEW c, c.ran \in Outcomes
    PROVE  LET r == Reply(c.ran) IN
           /\ r \in Seq(MessageType) /\ Len(r) = ReplyMessages(c) /\ Len(r) \in 2 .. 4
           /\ \A k \in 1 .. Len(r) : r[k] = MessageAt(c, k)
           /\ ~Closes(r)
           /\ c.ran # "hijack" => \A k \in 1 .. Len(r) : NoMark(r[k])
<1>1. PICK f : f = Frame("responder", HeaderOf(c))
  OBVIOUS
<1>2. PICK g : g = Frame("responder", AnswerOf(c))
  OBVIOUS
<1>3. Reply(c.ran) = f \o g
  BY <1>1, <1>2 DEF Reply, HeaderOf, AnswerOf
<1>4. /\ HeaderOf(c) \in ValueType /\ AnswerOf(c) \in ValueType
      /\ ~AnswerOf(c).hijacked /\ (HeaderOf(c).hijacked <=> c.ran = "hijack")
      /\ ReplyLength(c) = 3 + Units("responder", AnswerOf(c))
      /\ ReplyLength(c) \in {3, 4, 5} /\ (ReplyLength(c) = 5 => Go("responder"))
      /\ ReplyLength(c) = 3 => ~Go("responder")
      /\ Units("responder", HeaderOf(c)) = 1 /\ Units("responder", AnswerOf(c)) \in 0 .. 2
      /\ ReplyMessages(c) = IF Go("responder") THEN ReplyLength(c) - 2 ELSE ReplyLength(c)
  BY ReplyParts
<1>5. /\ f \in Seq(MessageType) /\ g \in Seq(MessageType) /\ ~Closes(f) /\ ~Closes(g)
      /\ ~HeaderOf(c).hijacked => \A k \in 1 .. Len(f) : NoMark(f[k])
      /\ \A k \in 1 .. Len(g) : NoMark(g[k])
  BY <1>1, <1>2, <1>4, FrameIs, FrameNotClose, TheSides
<1>6. PICK r : r = f \o g
  OBVIOUS
<1>7. /\ r \in Seq(MessageType) /\ Len(r) = Len(f) + Len(g) /\ ~Closes(r)
      /\ \A k \in 1 .. Len(f) : r[k] = f[k]
      /\ \A k \in 1 .. Len(g) : r[Len(f) + k] = g[k]
      /\ c.ran # "hijack" => \A k \in 1 .. Len(r) : NoMark(r[k])
  BY <1>4, <1>5, <1>6, TwoFrames
<1>8. PICK u : u = Units("responder", AnswerOf(c))
  OBVIOUS
<1>9. PICK n : n = ReplyLength(c)
  OBVIOUS
<1>10. u \in 0 .. 2 /\ n = 3 + u
  BY <1>4, <1>8, <1>9
<1>11. CASE Go("responder")
  <2>u. u \in 1 .. 2
    BY <1>4, <1>9, <1>10, <1>11
  <2>0. LET m == Frame("responder", HeaderOf(c))
            k == Units("responder", HeaderOf(c))
        IN  Len(m) = k /\ m[1] = <<SizePart(k), BodyPart(HeaderOf(c))>>
    BY <1>4, <1>11, FrameIs, TheSides
  <2>1. Len(f) = 1 /\ f[1] = <<SizePart(1), BodyPart(HeaderOf(c))>>
    BY <1>1, <1>4, <2>0
  <2>2. /\ Len(g) = u /\ g[1] = <<SizePart(u), BodyPart(AnswerOf(c))>>
        /\ u = 2 => g[2] = <<MorePart>>
    BY <1>2, <1>4, <1>8, <2>u, <1>11, FrameIs, TheSides
  <2>3. MessageAt(c, 1) = <<PartAt(c, 1), PartAt(c, 2)>> /\ MessageAt(c, 2) = <<PartAt(c, 3), PartAt(c, 4)>>
    BY <1>11 DEF MessageAt
  <2>4. MessageAt(c, 3) = <<PartAt(c, 5)>>
    BY <1>11 DEF MessageAt, PartsOf
  <2>5. /\ PartAt(c, 1) = SizePart(1) /\ PartAt(c, 2) = BodyPart(HeaderOf(c))
        /\ PartAt(c, 3) = SizePart(u) /\ PartAt(c, 4) = BodyPart(AnswerOf(c))
        /\ n = 5 => PartAt(c, 5) = MorePart
    BY <1>9, <1>10, <2>u DEF PartAt
  <2>6. r[1] = f[1] /\ r[2] = g[1] /\ (u = 2 => r[3] = g[2])
    BY <1>7, <2>u, <2>1, <2>2
  <2>7. r[1] = MessageAt(c, 1) /\ r[2] = MessageAt(c, 2) /\ (u = 2 => r[3] = MessageAt(c, 3))
    BY <1>10, <2>u, <2>1, <2>2, <2>3, <2>4, <2>5, <2>6
  <2>8. \A k \in 1 .. Len(r) : r[k] = MessageAt(c, k)
    <3>1. Len(r) = 1 + u
      BY <1>7, <2>1, <2>2
    <3>2. \A k \in 1 .. Len(r) : k = 1 \/ k = 2 \/ (k = 3 /\ u = 2)
      BY <2>u, <3>1
    <3> QED  BY <2>7, <3>2
  <2> QED  BY <1>3, <1>4, <1>6, <1>7, <1>9, <1>10, <1>11, <2>u, <2>1, <2>2, <2>8
<1>12. CASE ~Go("responder")
  <2>0. u \in 0 .. 1
    BY <1>4, <1>9, <1>12, <1>10
  <2>a. LET m == Frame("responder", HeaderOf(c))
            k == Units("responder", HeaderOf(c))
        IN  Len(m) = k + 1 /\ m[1] = <<SizePart(k)>> /\ (k = 1 => m[2] = <<BodyPart(HeaderOf(c))>>)
    BY <1>4, <1>12, FrameIs, TheSides
  <2>1. Len(f) = 2 /\ f[1] = <<SizePart(1)>> /\ f[2] = <<BodyPart(HeaderOf(c))>>
    <3>1. PICK k : k = Units("responder", HeaderOf(c))
      OBVIOUS
    <3>2. Len(f) = k + 1 /\ f[1] = <<SizePart(k)>> /\ (k = 1 => f[2] = <<BodyPart(HeaderOf(c))>>)
      BY <1>1, <2>a, <3>1
    <3>3. k = 1
      BY <1>4, <3>1
    <3> QED  BY <3>2, <3>3
  <2>b. LET m == Frame("responder", AnswerOf(c))
            k == Units("responder", AnswerOf(c))
        IN  Len(m) = k + 1 /\ m[1] = <<SizePart(k)>> /\ (k = 1 => m[2] = <<BodyPart(AnswerOf(c))>>)
    BY <1>4, <1>12, FrameIs, TheSides
  <2>2. Len(g) = u + 1 /\ g[1] = <<SizePart(u)>> /\ (u = 1 => g[2] = <<BodyPart(AnswerOf(c))>>)
    BY <1>2, <1>8, <2>b
  <2>3. /\ PartAt(c, 1) = SizePart(1) /\ PartAt(c, 2) = BodyPart(HeaderOf(c))
        /\ PartAt(c, 3) = SizePart(u) /\ (u = 1 => PartAt(c, 4) = BodyPart(AnswerOf(c)))
    BY <1>9, <1>10, <2>0 DEF PartAt
  <2>4. \A k \in 1 .. 4 : MessageAt(c, k) = <<PartAt(c, k)>>
    BY <1>12 DEF MessageAt, PartsOf
  <2>5. r[1] = f[1] /\ r[2] = f[2] /\ r[3] = g[1] /\ (u = 1 => r[4] = g[2])
    BY <1>7, <2>0, <2>1, <2>2
  <2>6. r[1] = MessageAt(c, 1) /\ r[2] = MessageAt(c, 2) /\ r[3] = MessageAt(c, 3)
        /\ (u = 1 => r[4] = MessageAt(c, 4))
    BY <2>1, <2>2, <2>3, <2>4, <2>5
  <2>7. Len(r) = 3 + u
    BY <1>7, <2>0, <2>1, <2>2
  <2>8. \A k \in 1 .. Len(r) : r[k] = MessageAt(c, k)
    <3>1. \A k \in 1 .. Len(r) : k = 1 \/ k = 2 \/ k = 3 \/ (k = 4 /\ u = 1)
      BY <2>0, <2>7
    <3> QED  BY <2>6, <3>1
  <2> QED  BY <1>3, <1>4, <1>6, <1>7, <1>9, <1>10, <1>12, <2>0, <2>7, <2>8
<1> QED  BY <1>11, <1>12
-----------------------------------------------------------------------------
(* What the server does to a call *)

(* All that belongs to the caller, to the codecs and to the channel stays. *)
ServerOnly(c, d) ==
    d \in CallType /\ CallerSame(c, d) /\ CodecSame(c, d) /\ d.listed = c.listed

LEMMA RanDoes ==
    ASSUME NEW c \in CallType, NEW ran \in Outcomes, NEW d, d = [c EXCEPT !.ran = ran]
    PROVE  /\ ServerOnly(c, d) /\ ChannelKept(c, d)
           /\ d.ran = ran /\ d.responder = c.responder /\ d.replies = c.replies /\ d.raw = c.raw
<1>1. d \in CallType
  BY DEF CallType
<1>2. /\ CallerSame(c, d) /\ CodecSame(c, d) /\ ChannelKept(c, d) /\ d.listed = c.listed
      /\ d.ran = ran /\ d.responder = c.responder /\ d.replies = c.replies /\ d.raw = c.raw
  BY DEF CallType, CallerSame, CodecSame, ChannelKept, ChannelSame
<1> QED  BY <1>1, <1>2 DEF ServerOnly

ResponderStages == {"none", "incoming", "frame", "args", "done", "hijacking", "hijacked"}

LEMMA ResponderDoes ==
    ASSUME NEW c \in CallType, NEW r \in ResponderStages
    PROVE  LET d == [c EXCEPT !.responder = r]
           IN  /\ ServerOnly(c, d) /\ ChannelKept(c, d)
               /\ d.ran = c.ran /\ d.responder = r /\ d.replies = c.replies /\ d.raw = c.raw
<1> DEFINE d == [c EXCEPT !.responder = r]
<1>1. d \in CallType
  BY DEF CallType, ResponderStages
<1>2. /\ CallerSame(c, d) /\ CodecSame(c, d) /\ ChannelKept(c, d) /\ d.listed = c.listed
      /\ d.ran = c.ran /\ d.responder = r /\ d.replies = c.replies /\ d.raw = c.raw
  BY DEF CallType, CallerSame, CodecSame, ChannelKept, ChannelSame
<1> QED  BY <1>1, <1>2 DEF ServerOnly

LEMMA RepliesDoes ==
    ASSUME NEW c \in CallType, NEW replies \in Seq(TaskType)
    PROVE  LET d == [c EXCEPT !.replies = replies]
           IN  /\ ServerOnly(c, d) /\ ChannelKept(c, d)
               /\ d.ran = c.ran /\ d.responder = c.responder /\ d.replies = replies /\ d.raw = c.raw
<1> DEFINE d == [c EXCEPT !.replies = replies]
<1>1. d \in CallType
  BY DEF CallType
<1>2. /\ CallerSame(c, d) /\ CodecSame(c, d) /\ ChannelKept(c, d) /\ d.listed = c.listed
      /\ d.ran = c.ran /\ d.responder = c.responder /\ d.replies = replies /\ d.raw = c.raw
  BY DEF CallType, CallerSame, CodecSame, ChannelKept, ChannelSame
<1> QED  BY <1>1, <1>2 DEF ServerOnly

Replied(c, d, replies, r) ==
    /\ ServerOnly(c, d) /\ ChannelKept(c, d)
    /\ d.ran = c.ran /\ d.responder = r /\ d.replies = replies /\ d.raw = c.raw

WithReplies(c, replies, r) == [c EXCEPT !.replies = replies, !.responder = r]

LEMMA ReplyingDoes ==
    ASSUME NEW c \in CallType, NEW replies \in Seq(TaskType), NEW r \in ResponderStages
    PROVE  Replied(c, WithReplies(c, replies, r), replies, r)
<1> DEFINE d == [c EXCEPT !.replies = replies, !.responder = r]
<1>1. d \in CallType
  BY DEF CallType, ResponderStages
<1>2. /\ CallerSame(c, d) /\ CodecSame(c, d) /\ ChannelKept(c, d) /\ d.listed = c.listed
      /\ d.ran = c.ran /\ d.responder = r /\ d.replies = replies /\ d.raw = c.raw
  BY DEF CallType, CallerSame, CodecSame, ChannelKept, ChannelSame
<1> HIDE DEF d
<1>3. Replied(c, d, replies, r)
  BY <1>1, <1>2 DEF ServerOnly, Replied
<1> QED  BY <1>3 DEF d, WithReplies

LEMMA RawDoes ==
    ASSUME NEW c \in CallType, NEW n \in 0 .. MaxRaw
    PROVE  LET d == [c EXCEPT !.raw = n]
           IN  /\ ServerOnly(c, d) /\ ChannelKept(c, d)
               /\ d.ran = c.ran /\ d.responder = c.responder /\ d.replies = c.replies /\ d.raw = n
<1> DEFINE d == [c EXCEPT !.raw = n]
<1>1. d \in CallType
  BY DEF CallType
<1>2. /\ CallerSame(c, d) /\ CodecSame(c, d) /\ ChannelKept(c, d) /\ d.listed = c.listed
      /\ d.ran = c.ran /\ d.responder = c.responder /\ d.replies = c.replies /\ d.raw = n
  BY DEF CallType, CallerSame, CodecSame, ChannelKept, ChannelSame
<1> QED  BY <1>1, <1>2 DEF ServerOnly

(* The calls of return write the first message of each reply, unless in Go. *)
FirstWritten(c, d, n, m) ==
    /\ d.sentClose = c.sentClose /\ d.finishing = c.finishing /\ d.gone = c.gone
    /\ d.late = c.late
    /\ IF Mock
       THEN /\ d.out = c.out
            /\ d.in = IF c.gone["caller"] THEN c.in
                      ELSE [c.in EXCEPT !["caller"] = @ \o [k \in 1 .. n |-> Head(m)]]
       ELSE /\ d.in = c.in
            /\ d.out = IF Swallowed THEN c.out
                       ELSE [c.out EXCEPT !["responder"] = @ \o [k \in 1 .. n |-> m]]

Task(outcome, todo) == [hijack |-> outcome = "hijack", todo |-> todo]

StageOf(outcome) == IF outcome = "hijack" THEN "hijacking" ELSE "done"

DidReturn(c, d, outcome) ==
    LET n == Returns(outcome) IN
    /\ ServerOnly(c, d) /\ d.ran = c.ran /\ d.raw = c.raw
    /\ Go("responder") =>
        /\ d.replies = <<Task(outcome, Reply(outcome))>> /\ d.responder = StageOf(outcome)
        /\ ChannelKept(c, d)
    /\ ~Go("responder") /\ c.sentClose["responder"] =>
        d.responder = "done" /\ d.replies = c.replies /\ ChannelKept(c, d)
    /\ ~Go("responder") /\ ~c.sentClose["responder"] =>
        /\ d.replies = [k \in 1 .. n |-> Task(outcome, Tail(Reply(outcome)))]
        /\ d.responder = StageOf(outcome)
        /\ FirstWritten(c, d, n, Head(Reply(outcome)))

LEMMA ReturnsMost ==
    ASSUME NEW outcome
    PROVE  /\ Returns(outcome) \in {0, 1, 2, 4}
           /\ outcome \notin Thrown => Returns(outcome) = 1
<1>1. CASE outcome = "string"
  BY <1>1 DEF Returns, Thrown
<1>2. CASE outcome = "object"
  BY <1>2 DEF Returns, Thrown
<1>3. CASE outcome = "null"
  BY <1>3 DEF Returns, Thrown
<1>4. CASE outcome \notin {"string", "object", "null"}
  BY <1>4 DEF Returns, Thrown
<1> QED  BY <1>1, <1>2, <1>3, <1>4

LEMMA Repeated ==
    ASSUME NEW S, NEW x \in S, NEW n \in Nat
    PROVE  /\ [k \in 1 .. n |-> x] \in Seq(S) /\ Len([k \in 1 .. n |-> x]) = n
           /\ \A k \in 1 .. n : [j \in 1 .. n |-> x][k] = x
  OBVIOUS

LEMMA ReturnDoes ==
    ASSUME NEW c \in CallType, Impls, NEW outcome \in Outcomes
    PROVE  DidReturn(c, Return(c, outcome), outcome)
<1>1. PICK r \in Seq(MessageType) : r = Reply(outcome) /\ r # <<>> /\ Head(r) \in Seq(PartType)
                                    /\ (~Go("responder") => \E p \in PartType : Head(r) = <<p>>)
  <2> DEFINE b == [c EXCEPT !.ran = outcome]
  <2>1. b.ran = outcome
    BY RanDoes
  <2> HIDE DEF b
  <2>2. LET q == Reply(b.ran) IN
           /\ q \in Seq(MessageType) /\ Len(q) \in 2 .. 4 /\ \A k \in 1 .. Len(q) : q[k] = MessageAt(b, k)
    BY <2>1, ReplyIs
  <2>3. PICK q : q = Reply(outcome)
    OBVIOUS
  <2>4. q \in Seq(MessageType) /\ Len(q) \in 2 .. 4 /\ \A k \in 1 .. Len(q) : q[k] = MessageAt(b, k)
    BY <2>1, <2>2, <2>3
  <2>5. q # <<>> /\ Head(q) = q[1] /\ q[1] \in MessageType
    BY <2>4
  <2>6. ~Go("responder") => q[1] = <<PartAt(b, 1)>> /\ PartAt(b, 1) = SizePart(1)
    <3>1. ~Go("responder") => q[1] = <<PartAt(b, 1)>>
      BY <2>4 DEF MessageAt, PartsOf
    <3>2. PartAt(b, 1) = SizePart(1)
      BY DEF PartAt
    <3> QED  BY <3>1, <3>2
  <2>7. SizePart(1) \in PartType
    BY PartTypes
  <2> QED  BY <2>3, <2>4, <2>5, <2>6, <2>7 DEF MessageType
<1>2. PICK n \in Nat : n = Returns(outcome)
  BY ReturnsMost
<1>3. /\ Task(outcome, Reply(outcome)) \in TaskType /\ Task(outcome, Tail(Reply(outcome))) \in TaskType
  <2>1. PICK t \in Seq(MessageType) : t = Tail(r)
    BY <1>1, HeadTailProperties
  <2>2. PICK h \in BOOLEAN : h = (outcome = "hijack")
    OBVIOUS
  <2>3. [hijack |-> h, todo |-> r] \in TaskType /\ [hijack |-> h, todo |-> t] \in TaskType
    BY DEF TaskType
  <2> QED  BY <1>1, <2>1, <2>2, <2>3 DEF Task
<1>4. PICK stage \in ResponderStages : stage = StageOf(outcome)
  <2>1. StageOf(outcome) \in ResponderStages
    BY DEF StageOf, ResponderStages
  <2> QED  BY <2>1
<1>5. CASE Go("responder")
  <2>1. PICK replies \in Seq(TaskType) : replies = <<Task(outcome, Reply(outcome))>>
    <3>1. <<Task(outcome, Reply(outcome))>> \in Seq(TaskType)
      BY <1>3
    <3> QED  BY <3>1
  <2>2. Return(c, outcome) = WithReplies(c, replies, stage)
    BY <1>4, <1>5, <2>1 DEF Return, Task, StageOf, WithReplies
  <2>3. PICK d : d = WithReplies(c, replies, stage)
    OBVIOUS
  <2>4. /\ ServerOnly(c, d) /\ ChannelKept(c, d)
        /\ d.ran = c.ran /\ d.responder = stage /\ d.replies = replies /\ d.raw = c.raw
    BY <2>3, ReplyingDoes DEF Replied
  <2> QED  BY <1>4, <1>5, <2>1, <2>2, <2>3, <2>4 DEF DidReturn
<1>6. CASE ~Go("responder") /\ c.sentClose["responder"]
  <2>1. Return(c, outcome) = [c EXCEPT !.responder = "done"]
    BY <1>6 DEF Return, CannotWrite
  <2>2. PICK d : d = [c EXCEPT !.responder = "done"]
    OBVIOUS
  <2>3. /\ ServerOnly(c, d) /\ ChannelKept(c, d)
        /\ d.ran = c.ran /\ d.responder = "done" /\ d.replies = c.replies /\ d.raw = c.raw
    BY <2>2, ResponderDoes DEF ResponderStages
  <2> QED  BY <1>6, <2>1, <2>2, <2>3 DEF DidReturn
<1>7. CASE ~Go("responder") /\ ~c.sentClose["responder"]
  <2>1. PICK first \in Seq(MessageType) : first = [k \in 1 .. n |-> Head(Reply(outcome))]
    <3>1. Head(r) \in MessageType
      BY <1>1, HeadTailProperties
    <3> QED  BY <1>1, <3>1, Repeated
  <2>2. PICK replies \in Seq(TaskType) :
            replies = [k \in 1 .. n |-> Task(outcome, Tail(Reply(outcome)))]
    BY <1>3, Repeated
  <2>3. PICK parts \in Seq(PartType) : parts = [k \in 1 .. n |-> Head(Head(Reply(outcome)))]
    <3>1. Head(Head(r)) \in PartType
      <4>1. PICK p \in PartType : Head(r) = <<p>>
        BY <1>1, <1>7
      <4> QED  BY <4>1
    <3> QED  BY <1>1, <3>1, Repeated
  <2>4. parts = [k \in 1 .. n |-> Head(first[k])]
    <3>1. \A k \in 1 .. n : first[k] = Head(Reply(outcome))
      BY <2>1
    <3> QED  BY <2>3, <3>1
  <2> DEFINE w == IF Mock THEN MockWritten(c, "responder", parts)
                  ELSE IF Swallowed THEN c
                  ELSE [c EXCEPT !.out["responder"] = @ \o first]
  <2>5. Return(c, outcome) = WithReplies(w, replies, stage)
    <3>1. Swallowed <=> ~Mock /\ (ended["caller"] \/ ended["responder"])
      BY TheSides DEF Swallowed
    <3>2. CASE Mock
      BY <1>2, <1>4, <1>7, <2>1, <2>2, <2>4, <3>1, <3>2 DEF Return, CannotWrite, Task, StageOf, WithReplies
    <3>3. CASE ~Mock /\ Swallowed
      BY <1>2, <1>4, <1>7, <2>1, <2>2, <3>1, <3>3 DEF Return, CannotWrite, Task, StageOf, WithReplies
    <3>4. CASE ~Mock /\ ~Swallowed
      BY <1>2, <1>4, <1>7, <2>1, <2>2, <3>1, <3>4 DEF Return, CannotWrite, Task, StageOf, WithReplies
    <3> QED  BY <3>2, <3>3, <3>4
  <2>6. /\ ServerOnly(c, w) /\ w.ran = c.ran /\ w.raw = c.raw
        /\ FirstWritten(c, w, n, Head(Reply(outcome)))
    <3>1. CASE Mock /\ ~c.gone["caller"]
      <4>1. PICK q \in Seq(PartType) : q = c.in["caller"] \o parts
        <5>1. c.in["caller"] \in Seq(PartType)
          BY Fields, TheSides
        <5>2. c.in["caller"] \o parts \in Seq(PartType)
          BY <5>1, ConcatProperties
        <5> QED  BY <5>2
      <4> DEFINE e == [c EXCEPT !.in["caller"] = q]
      <4>2. w = e
        BY <3>1, <4>1, TheSides DEF MockWritten
      <4> HIDE DEF w
      <4>3. e \in CallType
        BY DEF CallType
      <4>4. /\ CallerSame(c, e) /\ CodecSame(c, e) /\ ChannelSame(c, e) /\ e.listed = c.listed
            /\ e.ran = c.ran /\ e.raw = c.raw /\ e.in = [c.in EXCEPT !["caller"] = q]
        BY DEF CallType, CallerSame, CodecSame, ChannelSame
      <4> HIDE DEF e
      <4>5. parts = [k \in 1 .. n |-> Head(Head(Reply(outcome)))]
        BY <2>3
      <4>6. e.in = [c.in EXCEPT !["caller"] = @ \o [k \in 1 .. n |-> Head(Head(Reply(outcome)))]]
        BY <4>1, <4>4, <4>5
      <4> QED  BY <3>1, <4>2, <4>3, <4>4, <4>6 DEF ServerOnly, FirstWritten, ChannelSame
    <3>2. CASE (Mock /\ c.gone["caller"]) \/ (~Mock /\ Swallowed)
      <4>1. w = c
        BY <3>2, TheSides DEF MockWritten
      <4> HIDE DEF w
      <4> QED  BY <3>2, <4>1 DEF ServerOnly, FirstWritten, CallerSame, CodecSame
    <3>3. CASE ~Mock /\ ~Swallowed
      <4>1. PICK q \in Seq(MessageType) : q = c.out["responder"] \o first
        <5>1. c.out["responder"] \in Seq(MessageType)
          BY Fields, TheSides
        <5>2. c.out["responder"] \o first \in Seq(MessageType)
          BY <5>1, ConcatProperties
        <5> QED  BY <5>2
      <4> DEFINE e == [c EXCEPT !.out["responder"] = q]
      <4>2. w = e
        BY <3>3, <4>1
      <4> HIDE DEF w
      <4>3. e \in CallType
        BY DEF CallType
      <4>4. /\ CallerSame(c, e) /\ CodecSame(c, e) /\ e.listed = c.listed /\ e.in = c.in
            /\ e.late = c.late /\ e.sentClose = c.sentClose /\ e.gone = c.gone
            /\ e.finishing = c.finishing /\ e.ran = c.ran /\ e.raw = c.raw
            /\ e.out = [c.out EXCEPT !["responder"] = q]
        BY DEF CallType, CallerSame, CodecSame
      <4> HIDE DEF e
      <4>5. e.out = [c.out EXCEPT !["responder"] = @ \o [k \in 1 .. n |-> Head(Reply(outcome))]]
        BY <2>1, <4>1, <4>4
      <4> QED  BY <3>3, <4>2, <4>3, <4>4, <4>5 DEF ServerOnly, FirstWritten
    <3> QED  BY <3>1, <3>2, <3>3 DEF Swallowed
  <2> HIDE DEF w
  <2>7. w \in CallType
    BY <2>6 DEF ServerOnly
  <2>8. PICK d : d = WithReplies(w, replies, stage)
    OBVIOUS
  <2>9. /\ ServerOnly(w, d) /\ ChannelKept(w, d)
        /\ d.ran = w.ran /\ d.responder = stage /\ d.replies = replies /\ d.raw = w.raw
    BY <2>7, <2>8, ReplyingDoes DEF Replied
  <2>10. ServerOnly(c, d)
    BY <2>6, <2>9 DEF ServerOnly, CallerSame, CodecSame
  <2>11. FirstWritten(c, d, n, Head(Reply(outcome)))
    BY <2>6, <2>9 DEF FirstWritten, ChannelKept, ChannelSame
  <2>12. DidReturn(c, d, outcome)
    BY <1>2, <1>4, <1>7, <2>2, <2>6, <2>9, <2>10, <2>11 DEF DidReturn
  <2> QED  BY <2>5, <2>8, <2>12
<1> QED  BY <1>5, <1>6, <1>7

(* Accept, and the opening of a channel. *)
AsAccepted(c) == [Reading(c, "responder") EXCEPT !.responder = "frame"]

LEMMA AcceptDoes ==
    ASSUME NEW c \in CallType
    PROVE  LET d == AsAccepted(c)
           IN  /\ d \in CallType /\ CallerSame(c, d) /\ ChannelKept(c, d) /\ d.listed = c.listed
               /\ d.responder = "frame" /\ d.ran = c.ran /\ d.replies = c.replies /\ d.raw = c.raw
               /\ d.phase = [c.phase EXCEPT !["responder"] = "size"]
               /\ d.size = c.size /\ d.count = c.count /\ d.values = c.values
<1> DEFINE d == [[c EXCEPT !.phase["responder"] = "size"] EXCEPT !.responder = "frame"]
<1>1. d \in CallType
  BY TheSides DEF CallType
<1>2. /\ CallerSame(c, d) /\ ChannelKept(c, d) /\ d.listed = c.listed
      /\ d.responder = "frame" /\ d.ran = c.ran /\ d.replies = c.replies /\ d.raw = c.raw
      /\ d.phase = [c.phase EXCEPT !["responder"] = "size"]
      /\ d.size = c.size /\ d.count = c.count /\ d.values = c.values
  BY DEF CallType, CallerSame, ChannelKept, ChannelSame
<1> QED  BY <1>1, <1>2 DEF Reading, AsAccepted

Begun(c, d, todo) ==
    /\ d.stage = "writing" /\ d.todo = todo /\ d.error = c.error /\ d.hijacked = c.hijacked
    /\ d.reply = c.reply /\ d.got = c.got
    /\ d.ran = c.ran /\ d.replies = c.replies /\ d.raw = c.raw
    /\ d.size = c.size /\ d.count = c.count /\ d.values = c.values
    /\ ChannelKept(c, d)

AsOpened(c, todo) ==
    [Reading(c, "caller") EXCEPT !.stage = "writing", !.responder = "incoming", !.todo = todo]

AsMet(c, todo, second) ==
    [Reading(Reading(c, "caller"), "responder") EXCEPT
        !.stage = "writing", !.responder = "frame", !.listed = {second}, !.todo = todo]

(* The codecs that start: the caller's, and with MockSessions the responder's too. *)
Starts(c, d) ==
    \/ /\ d.responder = "incoming" /\ d.phase["caller"] = "size"
       /\ d.phase["responder"] = c.phase["responder"]
    \/ Mock /\ d.responder = "frame" /\ \A s \in Sides : d.phase[s] = "size"

LEMMA PhaseTyped ==
    ASSUME NEW c \in CallType, NEW phase \in [Sides -> {"none", "size", "body", "stopped"}]
    PROVE  [c EXCEPT !.phase = phase] \in CallType
  BY DEF CallType

LEMMA MeetTyped ==
    ASSUME NEW c \in CallType, NEW listed \in SUBSET Sides, NEW todo \in Seq(MessageType)
    PROVE  [c EXCEPT !.stage = "writing", !.responder = "frame", !.listed = listed,
                     !.todo = todo] \in CallType
  BY DEF CallType, Stages

LEMMA ChannelTyped ==
    ASSUME NEW c \in CallType, NEW gone \in [Sides -> BOOLEAN], NEW in \in [Sides -> Seq(PartType)],
           NEW d, d = [c EXCEPT !.gone = gone, !.in = in]
    PROVE  d \in CallType /\ d.gone = gone /\ d.in = in
  BY DEF CallType

LEMMA OpenedDoes ==
    ASSUME NEW c \in CallType, NEW todo \in Seq(MessageType), NEW second \in Sides,
           NEW opened, opened = AsOpened(c, todo), NEW met, met = AsMet(c, todo, second)
    PROVE  /\ opened \in CallType /\ Begun(c, opened, todo) /\ Starts(c, opened)
           /\ opened.responder = "incoming"
           /\ met \in CallType /\ Begun(c, met, todo) /\ (Mock => Starts(c, met))
<1> DEFINE d == [[c EXCEPT !.phase["caller"] = "size"] EXCEPT
                    !.stage = "writing", !.responder = "incoming", !.todo = todo]
           e == [[[c EXCEPT !.phase["caller"] = "size"] EXCEPT !.phase["responder"] = "size"] EXCEPT
                    !.stage = "writing", !.responder = "frame", !.listed = {second},
                    !.todo = todo]
<1>1. d \in CallType
  BY TheSides DEF CallType, Stages
<1>2. /\ Begun(c, d, todo) /\ d.responder = "incoming"
      /\ d.phase = [c.phase EXCEPT !["caller"] = "size"]
  BY DEF CallType, Begun, ChannelKept, ChannelSame
<1>3. e \in CallType
  <2>1. PICK phase \in [Sides -> {"none", "size", "body", "stopped"}] :
          phase = [[c.phase EXCEPT !["caller"] = "size"] EXCEPT !["responder"] = "size"]
    BY TheSides DEF CallType
  <2>2. "writing" \in Stages /\ {second} \in SUBSET Sides
    BY DEF Stages
  <2> HIDE DEF e
  <2>3. [c EXCEPT !.phase = phase] \in CallType
    BY <2>1, PhaseTyped
  <2>4. [[c EXCEPT !.phase = phase] EXCEPT !.stage = "writing", !.responder = "frame",
                      !.listed = {second}, !.todo = todo] \in CallType
    BY <2>2, <2>3, MeetTyped
  <2>5. e = [[c EXCEPT !.phase = phase] EXCEPT !.stage = "writing", !.responder = "frame",
                      !.listed = {second}, !.todo = todo]
    BY <2>1 DEF e
  <2> QED  BY <2>4, <2>5
<1>4. /\ Begun(c, e, todo) /\ e.responder = "frame"
      /\ e.phase = [[c.phase EXCEPT !["caller"] = "size"] EXCEPT !["responder"] = "size"]
  BY DEF CallType, Begun, ChannelKept, ChannelSame
<1>5. c.phase \in [Sides -> {"none", "size", "body", "stopped"}]
  BY Fields
<1> HIDE DEF d, e
<1>6. d.phase["caller"] = "size" /\ d.phase["responder"] = c.phase["responder"]
  BY <1>2, <1>5, TheSides
<1>7. \A s \in Sides : e.phase[s] = "size"
  BY <1>4, <1>5, TheSides
<1>8. d = opened /\ e = met
  BY DEF d, e, Reading, AsOpened, AsMet
<1>9. Starts(c, d) /\ (Mock => Starts(c, e))
  BY <1>2, <1>4, <1>6, <1>7 DEF Starts
<1> QED  BY <1>1, <1>2, <1>3, <1>4, <1>8, <1>9
-----------------------------------------------------------------------------
(* What stays true of a call when little of it changes *)

FlagsUp(c, d) ==
    \A s \in Sides : (c.sentClose[s] => d.sentClose[s]) /\ (c.gone[s] => d.gone[s])

LEMMA CallerStays ==
    ASSUME NEW c, NEW d, CallerSame(c, d), Asking(c)
    PROVE  Asking(d)
  BY DEF CallerSame, Asking

LEMMA ServerStays ==
    ASSUME NEW c, NEW d, ServerSame(c, d), FlagsUp(c, d), Serving(c), ToWrite(c)
    PROVE  Serving(d) /\ ToWrite(d)
<1>1. Serving(d)
  BY TheSides DEF ServerSame, Serving, Returned, FlagsUp
<1>2. HeaderOf(d) = HeaderOf(c) /\ AnswerOf(d) = AnswerOf(c)
  BY DEF ServerSame, HeaderOf, AnswerOf
<1>3. ReplyMessages(d) = ReplyMessages(c) /\ \A k : MessageAt(d, k) = MessageAt(c, k)
  BY <1>2 DEF ReplyMessages, ReplyLength, MessageAt, PartAt
<1>4. ToWrite(d)
  BY <1>3 DEF ToWrite, ServerSame
<1> QED  BY <1>1, <1>4

(* What the caller notes depends on the handler that ran. *)
LEMMA NotesStay ==
    ASSUME NEW c, NEW d, CallerSame(c, d), d.ran = c.ran, FlagsUp(c, d), Noted(c), FailsBecause(c),
           TookEmpty(c) => TookEmpty(d)
    PROVE  Noted(d) /\ FailsBecause(d)
<1>1. AnswerOf(d) = AnswerOf(c)
  BY DEF AnswerOf
<1>2. (CutOff(d) <=> CutOff(c)) /\ (Empty(d) <=> Empty(c))
  BY DEF CutOff, Empty
<1>3. Noted(d)
  BY <1>1, <1>2, TheSides DEF Noted, CallerSame, FlagsUp
<1>4. FailsBecause(d)
  BY <1>2, TheSides DEF FailsBecause, CallerSame, FlagsUp
<1> QED  BY <1>3, <1>4

(* The way of the request to the responder. *)
LEMMA RequestStays ==
    ASSUME NEW c, NEW d, RequestRead(c), FlagsUp(c, d),
           d.responder = c.responder, d.stage = "writing" => c.stage = "writing",
           d.todo = c.todo, d.out["caller"] = c.out["caller"], d.late["caller"] = c.late["caller"],
           d.in["responder"] = c.in["responder"], d.phase["responder"] = c.phase["responder"],
           d.size["responder"] = c.size["responder"], d.values["responder"] = c.values["responder"]
    PROVE  RequestRead(d)
<1>1. AskedTaken(d) = AskedTaken(c)
  BY DEF AskedTaken
<1>2. ASSUME NEW n \in 0 .. AskedMessages, AskedSoFar(c, n)
      PROVE  AskedSoFar(d, n)
  BY <1>1, <1>2, TheSides, SMTT(30) DEF AskedSoFar, FlagsUp
<1> QED  BY <1>2, TheSides DEF RequestRead, FlagsUp

LEMMA RequestOver ==
    ASSUME NEW d, ~Go("responder") \/ d.responder \notin {"none", "incoming", "frame"}
    PROVE  RequestRead(d)
  BY DEF RequestRead

(* The way of the reply to the caller's codec. *)
ReplySame(c, d) ==
    /\ d.ran = c.ran /\ d.replies = c.replies /\ d.raw = c.raw
    /\ (Unanswered(c) <=> Unanswered(d)) /\ (Returned(c) => Returned(d))
    /\ d.hijacked = c.hijacked /\ d.reply = c.reply /\ d.got = c.got
    /\ d.in["caller"] = c.in["caller"] /\ d.out["responder"] = c.out["responder"]
    /\ d.late["responder"] = c.late["responder"]
    /\ d.phase["caller"] = c.phase["caller"] /\ d.size["caller"] = c.size["caller"]
    /\ d.count["caller"] = c.count["caller"] /\ d.values["caller"] = c.values["caller"]

LEMMA SameReplyParts ==
    ASSUME NEW c, NEW d, d.ran = c.ran
    PROVE  /\ HeaderOf(d) = HeaderOf(c) /\ AnswerOf(d) = AnswerOf(c)
           /\ ReplyLength(d) = ReplyLength(c) /\ ReplyMessages(d) = ReplyMessages(c)
           /\ \A k : PartAt(d, k) = PartAt(c, k) /\ MessageAt(d, k) = MessageAt(c, k)
           /\ (CutOff(d) <=> CutOff(c)) /\ (Empty(d) <=> Empty(c))
           /\ d.count["caller"] = c.count["caller"] => (TookEmpty(d) <=> TookEmpty(c))
<1>1. HeaderOf(d) = HeaderOf(c) /\ AnswerOf(d) = AnswerOf(c)
  BY DEF HeaderOf, AnswerOf
<1>2. ReplyLength(d) = ReplyLength(c) /\ ReplyMessages(d) = ReplyMessages(c)
  BY <1>1 DEF ReplyLength, ReplyMessages
<1>3. \A k : PartAt(d, k) = PartAt(c, k)
  BY <1>1, <1>2 DEF PartAt
<1>4. \A k : MessageAt(d, k) = MessageAt(c, k)
  BY <1>3 DEF MessageAt
<1>5. (CutOff(d) <=> CutOff(c)) /\ (Empty(d) <=> Empty(c))
  BY DEF CutOff, Empty
<1>6. d.count["caller"] = c.count["caller"] => (TookEmpty(d) <=> TookEmpty(c))
  BY <1>5 DEF TookEmpty
<1> QED  BY <1>1, <1>2, <1>3, <1>4, <1>5, <1>6

(* The parts of Carried that are about the reply. *)
ReplyCarried(c) ==
    Replying(c) /\ Silent(c) /\ Counted(c) /\ Decoding(c) /\ AtLast(c) /\ Unmarked(c)

LEMMA ReplyStays ==
    ASSUME NEW c, NEW d, ReplyCarried(c), ReplySame(c, d), FlagsUp(c, d),
           d.stage = c.stage \/ (c.stage = "writing" /\ d.stage = "header"),
           Go("caller") /\ ~ended["caller"] /\ ~Leaving(d) /\ (d.gone["caller"] \/ d.finishing["caller"]) =>
                c.gone["caller"] \/ c.finishing["caller"]
    PROVE  ReplyCarried(d)
<1>1. /\ HeaderOf(d) = HeaderOf(c) /\ AnswerOf(d) = AnswerOf(c)
      /\ ReplyLength(d) = ReplyLength(c) /\ ReplyMessages(d) = ReplyMessages(c)
      /\ \A k : PartAt(d, k) = PartAt(c, k) /\ MessageAt(d, k) = MessageAt(c, k)
      /\ (CutOff(d) <=> CutOff(c)) /\ (TookEmpty(d) <=> TookEmpty(c))
  BY SameReplyParts DEF ReplySame
<1>2. Read(d) = Read(c)
  BY <1>1 DEF Read, ReplySame
<1>3. Sent(d) = Sent(c)
  BY <1>1 DEF Sent, ReplySame
<1>4. (Lost(c) => Lost(d)) /\ (Leaving(c) => Leaving(d))
  BY <1>1, TheSides DEF Lost, Leaving, ReplySame, FlagsUp
<1>5. ASSUME NEW n \in Nat, ReplySoFar(c, n)  PROVE ReplySoFar(d, n)
  <2>1. PICK a : a = c.in["caller"]
    OBVIOUS
  <2>2. PICK b : b = c.out["responder"]
    OBVIOUS
  <2> QED  BY <1>1, <1>2, <1>3, <1>4, <1>5, <2>1, <2>2, TheSides DEF ReplySoFar, ReplySame, FlagsUp
<1>6. Replying(d)
  BY <1>4, <1>5 DEF Replying, ReplyCarried
<1>7. Silent(d)
  BY DEF Silent, ReplyCarried, ReplySame
<1>8. Counted(d)
  BY DEF Counted, ReplyCarried, ReplySame
<1>9. Decoding(d)
  <2>1. c.gone["caller"] => d.gone["caller"]
    BY TheSides DEF FlagsUp
  <2> QED  BY <1>1, <1>4, <2>1 DEF Decoding, ReplyCarried, ReplySame
<1>10. Unmarked(d)
  BY DEF Unmarked, ReplyCarried, ReplySame
<1>11. AtLast(d)
  BY <1>1, TheSides DEF AtLast, ReplyCarried, ReplySame, FlagsUp
<1> QED  BY <1>6, <1>7, <1>8, <1>9, <1>10, <1>11 DEF ReplyCarried

(* A call that has failed has lost its reply. *)
LEMMA ReplyFails ==
    ASSUME NEW c, NEW d, ReplyCarried(c), d.stage = "failed", FlagsUp(c, d),
           d.ran = c.ran, d.replies = c.replies, Returned(c) => Returned(d),
           Unanswered(d) => Unanswered(c),
           d.hijacked => c.hijacked, d.in["caller"] = c.in["caller"],
           d.out["responder"] = c.out["responder"] \/ d.out["responder"] = <<>>,
           d.phase["caller"] = c.phase["caller"], Go("caller") => d.phase["caller"] # "body",
           d.size["caller"] = c.size["caller"], d.count["caller"] = c.count["caller"],
           d.values["caller"] = c.values["caller"] \/ d.values["caller"] = <<>>,
           Go("caller") => d.values["caller"] = <<>>,
           d.reply # c.reply => c.stage = "reply",
           d.reply = "EOF" => c.reply = "EOF" \/ c.values["caller"] = <<Plain("EOF")>>
    PROVE  ReplyCarried(d)
<1>1. Replying(d)
  BY DEF Replying, Lost
<1>2. Silent(d)
  BY DEF Silent, ReplyCarried
<1>3. Counted(d)
  BY DEF Counted, ReplyCarried
<1>4. Decoding(d)
  <2>1. c.gone["caller"] => d.gone["caller"]
    BY TheSides DEF FlagsUp
  <2> QED  BY <2>1 DEF Decoding, ReplyCarried, Lost
<1>5. Unmarked(d)
  BY DEF Unmarked, ReplyCarried
<1>6. AtLast(d)
  <2>1. TookEmpty(d) <=> TookEmpty(c)
    BY SameReplyParts
  <2>2. d.reply = "EOF" => c.reply = "EOF" \/ c.values["caller"] = <<Plain("EOF")>>
    OBVIOUS
  <2> QED  BY <2>1, <2>2, TheSides DEF AtLast, ReplyCarried, FlagsUp
<1> QED  BY <1>1, <1>2, <1>3, <1>4, <1>5, <1>6 DEF ReplyCarried

(* The end of a session takes nothing back of what is known of a call. *)
LEMMA EndedUp ==
    ASSUME NEW c, RequestRead(c), ReplyCarried(c), Noted(c), FailsBecause(c), ToWrite(c),
           Asking(c), Serving(c), Impls,
           setting' = setting, \A s \in Sides : ended[s] => ended'[s]
    PROVE  /\ RequestRead(c)' /\ ReplyCarried(c)' /\ Noted(c)' /\ FailsBecause(c)' /\ ToWrite(c)'
           /\ Asking(c)' /\ Serving(c)'
<1>1. /\ (Go("caller")' <=> Go("caller")) /\ (Go("responder")' <=> Go("responder"))
      /\ (Mock' <=> Mock) /\ (Qrpc' <=> Qrpc)
  BY DEF Go, Mock, Qrpc
<1>2. \A s, v : Units(s, v)' = Units(s, v)
  BY DEF Units, Go
<1>3. HeaderOf(c)' = HeaderOf(c) /\ AnswerOf(c)' = AnswerOf(c)
  BY DEF HeaderOf, AnswerOf, Answer
<1>4. ReplyLength(c)' = ReplyLength(c)
  BY <1>2, <1>3 DEF ReplyLength
<1>5. ReplyMessages(c)' = ReplyMessages(c) /\ \A k : PartAt(c, k)' = PartAt(c, k)
  BY <1>1, <1>3, <1>4 DEF ReplyMessages, PartAt
<1>6. \A k : PartsOf(k)' = PartsOf(k)
  BY <1>1 DEF PartsOf
<1>7. \A k : MessageAt(c, k)' = MessageAt(c, k)
  BY <1>1, <1>5, <1>6 DEF MessageAt
<1>8. (CutOff(c)' <=> CutOff(c)) /\ (Empty(c)' <=> Empty(c)) /\ (TookEmpty(c)' <=> TookEmpty(c))
  BY <1>1 DEF CutOff, Empty, TookEmpty
<1>9. Read(c)' = Read(c) /\ Sent(c)' = Sent(c)
  BY <1>4, <1>5 DEF Read, Sent
<1>10. Lost(c)' <=> Lost(c)
  BY <1>1, <1>8 DEF Lost
<1>11. RequestRead(c)'
  <2>1. AskedMessages' = AskedMessages /\ \A k : AskedIn(k)' = AskedIn(k)
    BY <1>1 DEF AskedMessages, AskedIn
  <2>2. ASSUME NEW n \in 0 .. AskedMessages, AskedSoFar(c, n)
        PROVE  AskedSoFar(c, n)'
    <3>1. PICK a : a = AskedTaken(c)
      OBVIOUS
    <3>2. a = AskedTaken(c)'
      BY <3>1 DEF AskedTaken
    <3> QED  BY <2>1, <2>2, <3>1, <3>2 DEF AskedSoFar
  <2> QED  BY <1>1, <2>1, <2>2 DEF RequestRead
<1>12. Replying(c)'
  <2>1. ASSUME NEW n \in Nat, ReplySoFar(c, n)  PROVE ReplySoFar(c, n)'
    BY <1>1, <1>5, <1>6, <1>7, <1>9, <2>1, TheSides DEF ReplySoFar
  <2> QED  BY <1>10, <2>1 DEF Replying, ReplyCarried
<1>13. Silent(c)'
  BY <1>1 DEF Silent, ReplyCarried
<1>14. Counted(c)'
  BY <1>1 DEF Counted, ReplyCarried
<1>15. Decoding(c)'
  BY <1>1, <1>3, <1>5, <1>8, <1>10, TheSides DEF Decoding, ReplyCarried
<1>16. Unmarked(c)'
  BY DEF Unmarked, ReplyCarried
<1>17. Noted(c)'
  BY <1>1, <1>3, <1>8, TheSides DEF Noted
<1>18. FailsBecause(c)'
  BY <1>1, <1>8, TheSides DEF FailsBecause
<1>19. ToWrite(c)'
  BY <1>5, <1>7 DEF ToWrite
<1>20. Serving(c)'
  BY <1>1 DEF Serving
<1>21. AtLast(c)'
  BY <1>1, <1>8 DEF AtLast, ReplyCarried
<1> QED
  BY <1>11, <1>12, <1>13, <1>14, <1>15, <1>16, <1>17, <1>18, <1>19, <1>20, <1>21 DEF ReplyCarried, Asking
-----------------------------------------------------------------------------
(* The request comes to the responder *)

LEMMA TwoParts ==
    ASSUME NEW x, NEW y
    PROVE  Len(<<x, y>>) = 2 /\ <<x, y>>[1] = x /\ <<x, y>>[2] = y
  OBVIOUS

LEMMA AskedMost == AskedMessages \in 1 .. 2 /\ (AskedMessages = 1 <=> Go("caller"))
  BY DEF AskedMessages

LEMMA AskedParts ==
    /\ Go("caller") => AskedIn(1) = <<Asked(1), Asked(2)>>
    /\ ~Go("caller") => \A k : AskedIn(k) = <<Asked(k)>>
    /\ Asked(1) = SizePart(1) /\ Asked(2) = BodyPart(Plain("call"))
  BY DEF AskedIn, Asked

(* At most what is on the wire changes: the caller closes its channel. *)
LEMMA RequestCloses ==
    ASSUME NEW c \in CallType, NEW d \in CallType, RequestRead(c), FlagsUp(c, d),
           Closed(c, "caller"),
           d.responder = c.responder, d.late["caller"] = c.late["caller"],
           d.stage = "writing" => d.sentClose["caller"],
           \/ d.out["caller"] = c.out["caller"]
           \/ ~c.sentClose["caller"] /\ d.out["caller"] = Append(c.out["caller"], Close),
           d.in["responder"] = c.in["responder"], d.phase["responder"] = c.phase["responder"],
           d.size["responder"] = c.size["responder"], d.values["responder"] = c.values["responder"]
    PROVE  RequestRead(d)
<1>1. AskedTaken(d) = AskedTaken(c)
  BY DEF AskedTaken
<1>2. PICK a \in Seq(MessageType) : a = c.out["caller"]
  BY Fields, TheSides
<1>3. PICK b \in Seq(MessageType) : b = d.out["caller"]
  BY Fields, TheSides
<1>4. ASSUME NEW k \in 0 .. AskedMessages, AskedSoFar(c, k)
      PROVE  AskedSoFar(d, k)
  <2>1. ASSUME Closes(b) \/ ~d.late["caller"], NEW n \in 1 .. Len(b), Before(b, n),
               k + n <= AskedMessages
        PROVE  b[n] = AskedIn(k + n)
    <3>1. CASE b = a
      BY <1>2, <1>3, <1>4, <2>1, <3>1 DEF AskedSoFar
    <3>2. CASE ~c.sentClose["caller"] /\ b = Append(a, Close)
      <4>1. /\ Len(b) = Len(a) + 1 /\ b[Len(a) + 1] = Close
            /\ \A j \in 1 .. Len(a) : b[j] = a[j]
        BY <3>2, AppendProperties, PartTypes
      <4>2. n # Len(b)
        BY <2>1, <4>1 DEF Before
      <4>3. n \in 1 .. Len(a)
        BY <4>1, <4>2
      <4>4. Before(a, n)
        BY <2>1, <4>1, <4>3 DEF Before
      <4>5. ~c.late["caller"]
        BY <3>2 DEF Closed
      <4>6. a[n] = AskedIn(k + n)
        BY <1>2, <1>4, <2>1, <4>3, <4>4, <4>5 DEF AskedSoFar
      <4> QED  BY <4>1, <4>3, <4>6
    <3> QED  BY <1>2, <1>3, <3>1, <3>2
  <2> QED  BY <1>1, <1>3, <1>4, <2>1, TheSides DEF AskedSoFar
<1> QED  BY <1>4, TheSides DEF RequestRead, FlagsUp

(* The caller writes the next message. *)
LEMMA RequestWrites ==
    ASSUME NEW c \in CallType, NEW d \in CallType, Impls, RequestRead(c), Closed(c, "caller"),
           c.stage = "writing", c.todo # <<>>, ~Closes(c.todo), Wrote(c, d, "caller", Head(c.todo)),
           d.responder = c.responder, d.todo = Tail(c.todo),
           d.phase = c.phase, d.size = c.size, d.values = c.values
    PROVE  RequestRead(d)
<1>1. SUFFICES ASSUME Go("responder")  PROVE RequestRead(d)
  BY RequestOver
<1>2. ~Mock
  BY <1>1, GoOrNot
<1>3. AskedTaken(d) = AskedTaken(c)
  BY DEF AskedTaken
<1>4. PICK a \in Seq(MessageType) : a = c.out["caller"]
  BY Fields, TheSides
<1>5. PICK t \in Seq(MessageType) : t = c.todo /\ t # <<>>
  BY Fields
<1>6. PICK m \in MessageType : m = Head(t) /\ m # Close /\ m = t[1]
  <2>1. Head(t) \in MessageType /\ Head(t) = t[1] /\ 1 \in 1 .. Len(t)
    BY <1>5
  <2> QED  BY <1>5, <2>1 DEF Closes
<1>7. /\ Len(Tail(t)) = Len(t) - 1 /\ \A n \in 1 .. Len(t) - 1 : Tail(t)[n] = t[n + 1]
  BY <1>5, HeadTailProperties
<1>8. /\ d.gone = c.gone /\ d.sentClose = c.sentClose /\ d.in = c.in
      /\ Swallowed => d.out["caller"] = a /\ d.late["caller"] = c.late["caller"]
      /\ ~Swallowed => /\ d.out["caller"] = Append(a, m)
                       /\ d.late["caller"] = (c.late["caller"] \/ c.sentClose["caller"])
  BY <1>2, <1>4, <1>5, <1>6, Fields, TheSides, SMTT(30) DEF Wrote
<1>9. ASSUME NEW k \in 0 .. AskedMessages, AskedSoFar(c, k)
      PROVE  AskedSoFar(d, k)
  <2>1. CASE Swallowed
    <3>1. ~(\A s \in Sides : ~ended[s])
      BY <2>1 DEF Swallowed
    <3>2. d.out["caller"] = c.out["caller"] /\ d.late["caller"] = c.late["caller"] /\ d.in = c.in
      BY <1>4, <1>8, <2>1
    <3> QED  BY <1>3, <1>9, <3>1, <3>2 DEF AskedSoFar
  <2>2. CASE ~Swallowed
    <3>1. PICK b \in Seq(MessageType) : b = Append(a, m)
      BY <1>4, <1>6, AppendProperties
    <3>2. /\ Len(b) = Len(a) + 1 /\ b[Len(a) + 1] = m /\ \A j \in 1 .. Len(a) : b[j] = a[j]
      <4>1. /\ Len(Append(a, m)) = Len(a) + 1 /\ Append(a, m)[Len(a) + 1] = m
            /\ \A j \in 1 .. Len(a) : Append(a, m)[j] = a[j]
        BY <1>4, <1>6, OneMore
      <4> QED  BY <3>1, <4>1, Zenon
    <3>3. \A s \in Sides : ~ended[s]
      BY <1>2, <2>2 DEF Swallowed
    <3>4. Closes(b) <=> Closes(a)
      BY <1>4, <1>6, <3>1, AppendCloses
    <3>5. /\ AskedMessages \in 1 .. 2 /\ Len(a) \in Nat /\ Len(t) \in Nat
      BY <1>4, <1>5, AskedMost
    <3>6. c.late["caller"] \in BOOLEAN /\ c.sentClose["caller"] \in BOOLEAN
      BY Fields, TheSides
    <3>7. ASSUME Closes(b) \/ ~d.late["caller"], NEW n \in 1 .. Len(b), Before(b, n),
                 k + n <= AskedMessages
          PROVE  b[n] = AskedIn(k + n)
      <4>1. Closes(a) \/ ~c.late["caller"]
        BY <1>8, <2>2, <3>4, <3>7
      <4>2. CASE n \in 1 .. Len(a)
        <5>1. Before(a, n)
          BY <3>2, <3>7, <4>2 DEF Before
        <5>2. a[n] = AskedIn(k + n)
          BY <1>4, <1>9, <3>7, <4>1, <4>2, <5>1 DEF AskedSoFar
        <5> QED  BY <3>2, <4>2, <5>2
      <4>3. CASE n = Len(a) + 1
        <5>1. ~Closes(a)
          <6>1. ASSUME NEW j \in 1 .. Len(a), a[j] = Close  PROVE FALSE
            <7>1. j \in 1 .. n /\ b[j] = Close
              BY <3>2, <3>5, <4>3, <6>1
            <7> QED  BY <3>7, <7>1 DEF Before
          <6> QED  BY <6>1 DEF Closes
        <5>2. ~d.late["caller"]
          BY <3>4, <3>7, <5>1
        <5>3. ~c.sentClose["caller"]
          BY <1>8, <2>2, <3>6, <5>2
        <5>4. t[1] = AskedIn(k + Len(a) + 1)
          <6>1. 1 \in 1 .. Len(t) /\ k + Len(a) + 1 <= AskedMessages
            BY <1>5, <3>5, <3>7, <4>3
          <6> QED  BY <1>4, <1>5, <1>9, <3>3, <5>3, <6>1 DEF AskedSoFar
        <5>5. k + n = k + Len(a) + 1
          BY <3>5, <4>3
        <5> QED  BY <1>6, <3>2, <4>3, <5>4, <5>5
      <4> QED  BY <3>2, <3>5, <4>2, <4>3
    <3>8. ASSUME ~c.sentClose["caller"], NEW n \in 1 .. Len(t) - 1, k + Len(b) + n <= AskedMessages
          PROVE  Tail(t)[n] = AskedIn(k + Len(b) + n)
      <4>1. n + 1 \in 1 .. Len(t) /\ k + Len(a) + (n + 1) <= AskedMessages
            /\ k + Len(a) + (n + 1) = k + Len(b) + n
        BY <3>2, <3>5, <3>8
      <4>2. t[n + 1] = AskedIn(k + Len(a) + (n + 1))
        BY <1>4, <1>5, <1>9, <3>3, <3>8, <4>1 DEF AskedSoFar
      <4> QED  BY <1>7, <3>8, <4>1, <4>2
    <3>9. d.out["caller"] = b /\ d.in = c.in /\ d.todo = Tail(t) /\ d.sentClose = c.sentClose
      BY <1>5, <1>8, <2>2, <3>1
    <3> QED  BY <1>3, <1>7, <1>9, <3>7, <3>8, <3>9 DEF AskedSoFar
  <2> QED  BY <2>1, <2>2
<1> QED  BY <1>8, <1>9 DEF RequestRead

LEMMA TookInParts ==
    ASSUME NEW c \in CallType, NEW d \in CallType, NEW s \in Sides, TookIn(c, d, s)
    PROVE  LET o == Other(s) IN
           /\ d.out[o] = Tail(c.out[o]) /\ d.out[s] = c.out[s]
           /\ d.in[s] = c.in[s] \o Head(c.out[o]) /\ d.in[o] = c.in[o]
           /\ d.late = c.late /\ d.sentClose = c.sentClose /\ d.gone = c.gone
           /\ d.finishing = c.finishing
<1>1. PICK o \in Sides : o = Other(s) /\ o # s
  BY TheSides
<1>2. c.out \in [Sides -> Seq(MessageType)] /\ c.in \in [Sides -> Seq(PartType)]
  BY Fields
<1>3. PICK t : t = Tail(c.out[o])
  OBVIOUS
<1>4. PICK q : q = c.in[s] \o Head(c.out[o])
  OBVIOUS
<1>5. d.out = [c.out EXCEPT ![o] = t] /\ d.in = [c.in EXCEPT ![s] = q]
  BY <1>1, <1>3, <1>4 DEF TookIn, Popped
<1>6. /\ d.late = c.late /\ d.sentClose = c.sentClose /\ d.gone = c.gone
      /\ d.finishing = c.finishing
  BY DEF TookIn, Popped
<1> QED  BY <1>1, <1>2, <1>3, <1>4, <1>5, <1>6

(* A message comes in. *)
LEMMA RequestComes ==
    ASSUME NEW c \in CallType, NEW d \in CallType, Impls, RequestRead(c), Told(c, "caller"),
           c.out["caller"] # <<>>, Head(c.out["caller"]) # Close,
           ~c.gone["responder"], ~c.finishing["responder"],
           TookIn(c, d, "responder"), CallerSame(c, d), ServerSame(c, d), CodecSame(c, d)
    PROVE  RequestRead(d)
<1>1. SUFFICES ASSUME Go("responder")  PROVE RequestRead(d)
  BY RequestOver
<1>2. AskedTaken(d) = AskedTaken(c)
  BY DEF AskedTaken, CodecSame
<1>3. PICK a \in Seq(MessageType) : a = c.out["caller"] /\ a # <<>>
  BY Fields, TheSides
<1>4. PICK p \in Seq(PartType) : p = c.in["responder"]
  BY Fields, TheSides
<1>5. PICK m \in Seq(PartType) : m = Head(a) /\ m # Close /\ m = a[1]
  <2>1. Head(a) \in MessageType /\ Head(a) = a[1]
    BY <1>3
  <2> QED  BY <1>3, <2>1 DEF MessageType
<1>6. PICK b \in Seq(MessageType) : /\ b = Tail(a) /\ Len(b) = Len(a) - 1
                                    /\ \A n \in 1 .. Len(b) : b[n] = a[n + 1]
  <2>1. /\ Tail(a) \in Seq(MessageType) /\ Len(Tail(a)) = Len(a) - 1
        /\ \A n \in 1 .. Len(Tail(a)) : Tail(a)[n] = a[n + 1]
    BY <1>3, OneLess
  <2> QED  BY <2>1
<1>7. PICK q \in Seq(PartType) : /\ q = p \o m /\ Len(q) = Len(p) + Len(m)
                                 /\ \A n \in 1 .. Len(p) : q[n] = p[n]
                                 /\ \A n \in 1 .. Len(m) : q[Len(p) + n] = m[n]
  <2>1. /\ p \o m \in Seq(PartType) /\ Len(p \o m) = Len(p) + Len(m)
        /\ \A n \in 1 .. Len(p) : (p \o m)[n] = p[n]
        /\ \A n \in 1 .. Len(m) : (p \o m)[Len(p) + n] = m[n]
    BY Joined
  <2> QED  BY <2>1
<1>8. /\ d.out["caller"] = b /\ d.in["responder"] = q /\ d.late = c.late
      /\ d.sentClose = c.sentClose /\ d.gone = c.gone
  <2>1. /\ d.out["caller"] = Tail(c.out["caller"]) /\ d.late = c.late
        /\ d.sentClose = c.sentClose /\ d.gone = c.gone
        /\ d.in["responder"] = c.in["responder"] \o Head(c.out["caller"])
    <3>1. PICK s \in Sides : s = "responder" /\ Other(s) = "caller"
      BY TheSides
    <3>2. TookIn(c, d, s)
      BY <3>1
    <3>3. /\ d.out[Other(s)] = Tail(c.out[Other(s)]) /\ d.late = c.late
          /\ d.sentClose = c.sentClose /\ d.gone = c.gone
          /\ d.in[s] = c.in[s] \o Head(c.out[Other(s)])
      BY <3>2, TookInParts
    <3> QED  BY <3>1, <3>3
  <2> QED  BY <1>3, <1>4, <1>5, <1>6, <1>7, <2>1
<1>9. Closes(a) \/ ~c.late["caller"]
  BY <1>1, <1>3, TheSides DEF Told
<1>10. /\ Len(a) \in Nat \ {0} /\ Len(p) \in Nat /\ Len(m) \in Nat /\ AskedMessages \in 1 .. 2
       /\ (AskedMessages = 1 <=> Go("caller")) /\ AskedTaken(c) \in 0 .. 1
  BY <1>3, AskedMost DEF AskedTaken
<1>11. \A n \in 1 .. Len(b) : Before(b, n) => Before(a, n + 1)
  <2>1. ASSUME NEW n \in 1 .. Len(b), Before(b, n), NEW j \in 1 .. n + 1, a[j] = Close
        PROVE  FALSE
    <3>1. j # 1
      BY <1>5, <2>1
    <3>2. j - 1 \in 1 .. n /\ b[j - 1] = a[j]
      BY <1>6, <1>10, <2>1, <3>1
    <3> QED  BY <2>1, <3>2 DEF Before
  <2> QED  BY <2>1 DEF Before
<1>12. Before(a, 1)
  BY <1>5 DEF Before
<1>13. PICK taken : taken = AskedTaken(c)
  OBVIOUS
<1>14. ASSUME NEW k \in 0 .. AskedMessages, AskedSoFar(c, k)
       PROVE  \E e \in 0 .. AskedMessages : AskedSoFar(d, e)
  <2>1. /\ IF k < AskedMessages THEN taken + Len(p) = k ELSE taken + Len(p) >= 2
        /\ \A n \in 1 .. Len(p) : taken + n <= 2 => p[n] = Asked(taken + n)
        /\ \A n \in 1 .. Len(a) : Before(a, n) /\ k + n <= AskedMessages => a[n] = AskedIn(k + n)
        /\ c.stage = "writing" /\ ~c.sentClose["caller"] /\ (\A s \in Sides : ~ended[s]) =>
             \A n \in 1 .. Len(c.todo) :
                k + Len(a) + n <= AskedMessages => c.todo[n] = AskedIn(k + Len(a) + n)
    BY <1>3, <1>4, <1>9, <1>14, <1>13 DEF AskedSoFar
  <2>2. CASE k = AskedMessages
    <3>1. taken + Len(q) >= 2
      BY <1>7, <1>10, <1>13, <2>1, <2>2
    <3>2. \A n \in 1 .. Len(q) : taken + n <= 2 => q[n] = Asked(taken + n)
      <4>1. \A n \in 1 .. Len(q) : taken + n <= 2 => n \in 1 .. Len(p)
        BY <1>7, <1>10, <1>13, <2>1, <2>2
      <4> QED  BY <1>7, <2>1, <4>1
    <3>3. /\ \A n \in 1 .. Len(b) : ~(k + n <= AskedMessages)
          /\ \A n \in 1 .. Len(c.todo) : ~(k + Len(b) + n <= AskedMessages)
      BY <1>6, <1>10, <2>2
    <3>4. d.todo = c.todo
      BY DEF CallerSame
    <3>5. AskedSoFar(d, k)
      BY <1>2, <1>8, <1>13, <2>2, <3>1, <3>2, <3>3, <3>4 DEF AskedSoFar
    <3> QED  BY <3>5
  <2>3. CASE k < AskedMessages
    <3>1. a[1] = AskedIn(k + 1)
      BY <1>10, <1>12, <2>1, <2>3
    <3>2. taken + Len(p) = k
      BY <2>1, <2>3
    <3>3. /\ IF k + 1 < AskedMessages THEN taken + Len(q) = k + 1 ELSE taken + Len(q) >= 2
          /\ \A n \in 1 .. Len(q) : taken + n <= 2 => q[n] = Asked(taken + n)
      <4>1. CASE Go("caller")
        <5>1. k = 0 /\ taken = 0 /\ Len(p) = 0
          BY <1>10, <1>13, <2>3, <3>2, <4>1
        <5>2. m = <<Asked(1), Asked(2)>>
          BY <1>5, <3>1, <4>1, <5>1, AskedParts
        <5>3. Len(m) = 2 /\ m[1] = Asked(1) /\ m[2] = Asked(2)
          BY <5>2, TwoParts, Zenon
        <5>4. q[1] = Asked(1) /\ q[2] = Asked(2) /\ Len(q) = 2
          <6>1. Len(q) = 2 /\ 0 + 1 = 1 /\ 0 + 2 = 2 /\ 1 \in 1 .. 2 /\ 2 \in 1 .. 2
            BY <1>7, <5>1, <5>3
          <6>2. q[0 + 1] = m[1] /\ q[0 + 2] = m[2]
            BY <1>7, <5>1, <5>3, <6>1
          <6> QED  BY <5>3, <6>1, <6>2
        <5> QED  BY <1>10, <4>1, <5>1, <5>4
      <4>2. CASE ~Go("caller")
        <5>1. m = <<Asked(k + 1)>>
          BY <1>5, <3>1, <4>2, AskedParts
        <5>2. Len(m) = 1 /\ m[1] = Asked(k + 1)
          BY <5>1
        <5>3. Len(q) = Len(p) + 1 /\ q[Len(p) + 1] = Asked(k + 1)
          BY <1>7, <5>2
        <5>4. \A n \in 1 .. Len(q) : n \in 1 .. Len(p) \/ (n = Len(p) + 1 /\ taken + n = k + 1)
          BY <1>10, <1>13, <3>2, <5>3
        <5>5. \A n \in 1 .. Len(q) : taken + n <= 2 => q[n] = Asked(taken + n)
          BY <1>7, <2>1, <5>3, <5>4
        <5>6. IF k + 1 < AskedMessages THEN taken + Len(q) = k + 1 ELSE taken + Len(q) >= 2
          BY <1>10, <1>13, <2>3, <3>2, <4>2, <5>3
        <5> QED  BY <5>5, <5>6
      <4> QED  BY <4>1, <4>2
    <3>4. \A n \in 1 .. Len(b) : Before(b, n) /\ (k + 1) + n <= AskedMessages => b[n] = AskedIn((k + 1) + n)
      <4>1. ASSUME NEW n \in 1 .. Len(b), Before(b, n), (k + 1) + n <= AskedMessages
            PROVE  b[n] = AskedIn((k + 1) + n)
        <5>1. n + 1 \in 1 .. Len(a) /\ k + (n + 1) <= AskedMessages /\ k + (n + 1) = (k + 1) + n
          BY <1>6, <1>10, <4>1
        <5>2. a[n + 1] = AskedIn(k + (n + 1))
          BY <1>11, <2>1, <4>1, <5>1
        <5> QED  BY <1>6, <5>1, <5>2
      <4> QED  BY <4>1
    <3>5. c.stage = "writing" /\ ~c.sentClose["caller"] /\ (\A s \in Sides : ~ended[s]) =>
             \A n \in 1 .. Len(c.todo) :
                (k + 1) + Len(b) + n <= AskedMessages => c.todo[n] = AskedIn((k + 1) + Len(b) + n)
      <4>1. Len(b) = Len(a) - 1
        BY <1>6
      <4>2. \A n \in 1 .. Len(c.todo) : (k + 1) + Len(b) + n = k + Len(a) + n
        BY <1>10, <4>1
      <4> QED  BY <2>1, <4>2
    <3>6. d.todo = c.todo /\ d.stage = c.stage
      BY DEF CallerSame
    <3>7. AskedSoFar(d, k + 1)
      BY <1>2, <1>8, <1>13, <3>3, <3>4, <3>5, <3>6 DEF AskedSoFar
    <3>8. k + 1 \in 0 .. AskedMessages
      BY <1>10, <2>3
    <3> QED  BY <3>7, <3>8
  <2> QED  BY <1>10, <1>14, <2>2, <2>3
<1> QED  BY <1>8, <1>14 DEF RequestRead, ServerSame, CodecSame
LEMMA OneIsSome ==
    ASSUME NEW S, NEW r \in Seq(S), Len(r) = 1
    PROVE  r # <<>>
  OBVIOUS

LEMMA FirstOne ==
    ASSUME NEW S, NEW p \in Seq(S), p # <<>>
    PROVE  /\ Len(SubSeq(p, 1, 1)) = 1 /\ SubSeq(p, 1, 1)[1] = p[1]
           /\ SubSeq(p, 1, 1) # <<>>
<1>1. Len(p) \in Nat \ {0}
  OBVIOUS
<1>2. PICK r : r = SubSeq(p, 1, 1)
  OBVIOUS
<1>3. r \in Seq(S) /\ Len(r) = 1 /\ r[1] = p[1]
  BY <1>1, <1>2, SubSeqProperties
<1>4. r # <<>>
  BY <1>3, OneIsSome, Zenon
<1> QED  BY <1>2, <1>3, <1>4

LEMMA ToldParts ==
    ASSUME NEW c \in CallType, NEW d \in CallType, NEW s \in Sides, ToldOf(c, d, s)
    PROVE  LET o == Other(s) IN
           /\ d.out[o] = Tail(c.out[o]) /\ d.late = c.late
           /\ d.sentClose[s] /\ (d.sentClose[o] <=> c.sentClose[o])
           /\ Go(s) => d.gone = c.gone /\ d.in = c.in
           /\ \A t \in Sides : c.gone[t] => d.gone[t]
           /\ \A t \in Sides : c.sentClose[t] => d.sentClose[t]
<1>1. PICK o \in Sides : o = Other(s) /\ o # s /\ \A t \in Sides : t = s \/ t = o
  BY TheSides DEF Sides
<1>2. /\ c.gone \in [Sides -> BOOLEAN] /\ d.gone \in [Sides -> BOOLEAN]
      /\ c.in \in [Sides -> Seq(PartType)] /\ d.in \in [Sides -> Seq(PartType)]
      /\ c.sentClose \in [Sides -> BOOLEAN] /\ d.sentClose \in [Sides -> BOOLEAN]
  BY Fields
<1>3. /\ d.out[o] = Tail(c.out[o]) /\ d.late = c.late
      /\ d.sentClose[s] /\ d.sentClose[o] = c.sentClose[o]
      /\ d.gone[o] = c.gone[o] /\ d.in[o] = c.in[o]
      /\ ~c.sentClose[s] \/ Go(s) => d.gone[s] = c.gone[s] /\ d.in[s] = c.in[s]
      /\ c.sentClose[s] /\ ~Go(s) => d.gone[s]
  BY <1>1 DEF ToldOf
<1>4. Go(s) => d.gone = c.gone /\ d.in = c.in
  <2>1. Go(s) => \A t \in Sides : d.gone[t] = c.gone[t] /\ d.in[t] = c.in[t]
    BY <1>1, <1>3
  <2> QED  BY <1>2, <2>1
<1> QED  BY <1>1, <1>2, <1>3, <1>4

(* All that the caller has sent in order has come. *)
LEMMA RequestHeard ==
    ASSUME NEW c, NEW d, RequestRead(c), FlagsUp(c, d),
           d.responder = c.responder,
           d.in["responder"] = c.in["responder"], d.phase["responder"] = c.phase["responder"],
           d.size["responder"] = c.size["responder"], d.values["responder"] = c.values["responder"],
           d.sentClose["caller"], ~Closes(d.out["caller"]),
           d.out["caller"] # <<>> => d.late["caller"],
           d.out["caller"] \in Seq(MessageType)
    PROVE  RequestRead(d)
<1>1. AskedTaken(d) = AskedTaken(c)
  BY DEF AskedTaken
<1>2. PICK b \in Seq(MessageType) : b = d.out["caller"]
  OBVIOUS
<1>3. ASSUME Closes(b) \/ ~d.late["caller"], NEW n \in 1 .. Len(b)
      PROVE  FALSE
  BY <1>2, <1>3
<1>4. ASSUME NEW k \in 0 .. AskedMessages, AskedSoFar(c, k)
      PROVE  AskedSoFar(d, k)
  BY <1>1, <1>2, <1>3, <1>4 DEF AskedSoFar
<1> QED  BY <1>4, TheSides DEF RequestRead, FlagsUp

(* The responder's codec reads the size, *)
LEMMA RequestSized ==
    ASSUME NEW c \in CallType, NEW d \in CallType, RequestRead(c),
           c.phase["responder"] = "size", c.in["responder"] # <<>>,
           Decodes(c, "responder"),
           NEW n \in Nat, Head(c.in["responder"]).part = "size" => n = Head(c.in["responder"]).size,
           SizeRead(c, d, "responder", n), CallerSame(c, d), ServerSame(c, d)
    PROVE  RequestRead(d)
<1>1. SUFFICES ASSUME Go("responder"), c.responder \in {"none", "incoming", "frame"}
               PROVE RequestRead(d)
  BY RequestOver DEF ServerSame
<1>2. c.responder = "frame" /\ c.values["responder"] = <<>>
  BY <1>1 DEF RequestRead, Decodes
<1>3. PICK p \in Seq(PartType) : p = c.in["responder"] /\ p # <<>>
  BY Fields, TheSides
<1>4. PICK q \in Seq(PartType) : /\ q = Tail(p) /\ Len(q) = Len(p) - 1 /\ Len(p) \in Nat \ {0}
                                 /\ \A k \in 1 .. Len(q) : q[k] = p[k + 1]
  <2>1. /\ Tail(p) \in Seq(PartType) /\ Len(Tail(p)) = Len(p) - 1 /\ Len(p) \in Nat \ {0}
        /\ \A k \in 1 .. Len(Tail(p)) : Tail(p)[k] = p[k + 1]
    BY <1>3, OneLess
  <2> QED  BY <2>1
<1>5. AskedTaken(c) = 0
  BY DEF AskedTaken
<1>6. /\ d.out = c.out /\ d.late = c.late /\ d.sentClose = c.sentClose /\ d.values = c.values
      /\ d.in["responder"] = q /\ d.size["responder"] = n /\ d.phase["responder"] = "body"
  <2>1. /\ c.in \in [Sides -> Seq(PartType)] /\ c.size \in [Sides -> Nat]
        /\ c.phase \in [Sides -> {"none", "size", "body", "stopped"}]
    BY Fields
  <2> QED  BY <1>3, <1>4, <2>1, TheSides DEF SizeRead, ChannelSame
<1>7. AskedTaken(d) = 1
  BY <1>6 DEF AskedTaken
<1>8. PICK k \in 0 .. AskedMessages : AskedSoFar(c, k)
  BY <1>1, <1>2 DEF RequestRead
<1>9. p[1] = SizePart(1)
  <2>1. \A j \in 1 .. Len(p) : 0 + j <= 2 => p[j] = Asked(0 + j)
    BY <1>3, <1>5, <1>8 DEF AskedSoFar
  <2>2. 1 \in 1 .. Len(p) /\ 0 + 1 <= 2 /\ 0 + 1 = 1
    BY <1>4
  <2> QED  BY <2>1, <2>2, AskedParts
<1>10. n = 1
  <2>1. Head(p) = p[1]
    BY <1>3, OneLess
  <2> QED  BY <1>3, <1>9, <2>1 DEF SizePart, Part
<1>11. AskedSoFar(d, k)
  <2>1. /\ IF k < AskedMessages THEN 0 + Len(p) = k ELSE 0 + Len(p) >= 2
        /\ \A j \in 1 .. Len(p) : 0 + j <= 2 => p[j] = Asked(0 + j)
    BY <1>3, <1>5, <1>8 DEF AskedSoFar
  <2>2. IF k < AskedMessages THEN 1 + Len(q) = k ELSE 1 + Len(q) >= 2
    <3>1. 1 + Len(q) = 0 + Len(p)
      BY <1>4
    <3> QED  BY <2>1, <3>1
  <2>3. \A j \in 1 .. Len(q) : 1 + j <= 2 => q[j] = Asked(1 + j)
    <3>1. ASSUME NEW j \in 1 .. Len(q), 1 + j <= 2  PROVE q[j] = Asked(1 + j)
      <4>1. j + 1 \in 1 .. Len(p) /\ 0 + (j + 1) <= 2 /\ 0 + (j + 1) = 1 + j
        BY <1>4, <3>1
      <4>2. p[j + 1] = Asked(0 + (j + 1))
        BY <2>1, <4>1
      <4> QED  BY <1>4, <3>1, <4>1, <4>2
    <3> QED  BY <3>1
  <2>4. d.stage = c.stage /\ d.todo = c.todo
    BY DEF CallerSame
  <2> QED  BY <1>6, <1>7, <1>8, <2>2, <2>3, <2>4 DEF AskedSoFar
<1> QED  BY <1>2, <1>6, <1>10, <1>11 DEF RequestRead, ServerSame

(* and then the call. *)
LEMMA RequestBody ==
    ASSUME NEW c \in CallType, NEW d \in CallType, RequestRead(c),
           c.phase["responder"] = "body", BodyHere(c, "responder"),
           NEW v, v \in Decodings("responder",
                          SubSeq(c.in["responder"], 1, Taken(c, "responder")), c.size["responder"]),
           NEW phase \in {"size", "stopped"},
           BodyRead(c, d, "responder", Taken(c, "responder"), Append(c.values["responder"], v), phase),
           ServerSame(c, d)
    PROVE  RequestRead(d)
<1>1. SUFFICES ASSUME Go("responder"), c.responder \in {"none", "incoming", "frame"}
               PROVE RequestRead(d)
  BY RequestOver DEF ServerSame
<1>2. c.responder = "frame" /\ c.values["responder"] = <<>> /\ c.size["responder"] = 1
  BY <1>1 DEF RequestRead
<1>3. PICK p \in Seq(PartType) : p = c.in["responder"] /\ p # <<>>
  BY <1>1, <1>2, Fields, TheSides DEF BodyHere
<1>4. Len(p) \in Nat \ {0} /\ 1 \in 1 .. Len(p)
  BY <1>3
<1>5. Taken(c, "responder") = 1
  <2>1. setting.impl["responder"] # "rpc"
    BY <1>1 DEF Go
  <2> QED  BY <1>2, <1>3, <1>4, <2>1 DEF Taken
<1>6. PICK k \in 0 .. AskedMessages : AskedSoFar(c, k)
  BY <1>1, <1>2 DEF RequestRead
<1>7. p[1] = BodyPart(Plain("call"))
  <2>1. AskedTaken(c) = 1
    BY DEF AskedTaken
  <2>2. \A j \in 1 .. Len(p) : 1 + j <= 2 => p[j] = Asked(1 + j)
    BY <1>3, <1>6, <2>1 DEF AskedSoFar
  <2>3. 1 \in 1 .. Len(p) /\ 1 + 1 <= 2 /\ 1 + 1 = 2
    BY <1>4
  <2> QED  BY <2>2, <2>3, AskedParts
<1>8. PICK r : r = SubSeq(p, 1, 1)
  OBVIOUS
<1>9. r = SubSeq(p, 1, 1) /\ Len(r) = 1 /\ r[1] = p[1] /\ r # <<>>
  BY <1>3, <1>8, FirstOne, Zenon
<1>10. Whole(r, 1) /\ r[1].value = Plain("call")
  <2>1. r[1].part = "body" /\ r[1].value = Plain("call")
    BY <1>7, <1>9 DEF BodyPart, Part
  <2> QED  BY <1>9, <2>1 DEF Whole
<1>11. v = Plain("call")
  <2>1. v \in Decodings("responder", r, 1)
    BY <1>2, <1>3, <1>5, <1>9
  <2> QED  BY <1>9, <1>10, <2>1 DEF Decodings
<1>12. ~Failed(v)
  BY <1>11 DEF Failed, Plain, Value
<1>13. v \in ValueType
  BY <1>11, PartTypes DEF Kinds
<1>14. d.values["responder"] = <<v>> /\ d.phase["responder"] = phase
  <2>1. c.values \in [Sides -> Seq(ValueType)] /\ c.phase \in [Sides -> {"none", "size", "body", "stopped"}]
    BY Fields
  <2>2. d.values["responder"] = Append(c.values["responder"], v) /\ d.phase["responder"] = phase
    BY <2>1, TheSides DEF BodyRead
  <2> QED  BY <1>2, <2>2
<1>15. d.values["responder"] # <<>> /\ Head(d.values["responder"]) = v
  BY <1>14
<1>16. phase # "body" /\ phase # "none"
  OBVIOUS
<1> QED  BY <1>2, <1>12, <1>14, <1>15, <1>16 DEF RequestRead, ServerSame

(* It meets the end. *)
LEMMA RequestEnded ==
    ASSUME NEW c \in CallType, NEW d \in CallType, RequestRead(c),
           c.gone["responder"], c.phase["responder"] \in {"size", "body"}, NEW v,
           EndRead(c, d, "responder", <<v>>, "size"), ServerSame(c, d)
    PROVE  RequestRead(d)
<1>1. SUFFICES ASSUME Go("responder"), c.responder \in {"none", "incoming", "frame"}
               PROVE RequestRead(d)
  BY RequestOver DEF ServerSame
<1>2. c.responder = "frame"
  BY <1>1 DEF RequestRead
<1>3. c.values \in [Sides -> Seq(ValueType)] /\ c.phase \in [Sides -> {"none", "size", "body", "stopped"}]
  BY Fields
<1>4. d.values["responder"] # <<>> /\ d.phase["responder"] = "size" /\ d.gone["responder"]
  BY <1>3, TheSides DEF EndRead, ChannelSame
<1> QED  BY <1>2, <1>4 DEF RequestRead, ServerSame

(* The server accepts the channel. *)
LEMMA RequestAccepted ==
    ASSUME NEW c \in CallType, NEW d \in CallType, RequestRead(c), c.responder = "incoming",
           CallerSame(c, d), ChannelKept(c, d), d.responder = "frame",
           d.phase["responder"] = "size", d.values = c.values
    PROVE  RequestRead(d)
<1>1. SUFFICES ASSUME Go("responder")  PROVE RequestRead(d)
  BY RequestOver
<1>2. c.phase["responder"] = "none" /\ c.values["responder"] = <<>>
  BY <1>1 DEF RequestRead
<1>3. AskedTaken(c) = AskedTaken(d)
  BY <1>2 DEF AskedTaken
<1>4. ASSUME NEW k \in 0 .. AskedMessages, AskedSoFar(c, k)
      PROVE  AskedSoFar(d, k)
  BY <1>3, <1>4 DEF AskedSoFar, CallerSame, ChannelKept, ChannelSame
<1> QED  BY <1>1, <1>2, <1>4 DEF RequestRead

(* The channel is open, and nothing has been written. *)
LEMMA RequestBegun ==
    ASSUME NEW c \in CallType, NEW d \in CallType, Impls, Fresh(c), c.stage = "opening",
           NEW i, setting.given[i] \in BOOLEAN, Begun(c, d, Request(i)),
           Go("responder") => d.phase["responder"] = c.phase["responder"]
    PROVE  RequestRead(d)
<1>1. SUFFICES ASSUME Go("responder")  PROVE RequestRead(d)
  BY RequestOver
<1>2. /\ c.out["caller"] = <<>> /\ c.in["responder"] = <<>> /\ c.values["responder"] = <<>>
      /\ c.phase["responder"] = "none"
  BY TheSides DEF Fresh
<1>3. /\ d.out["caller"] = <<>> /\ d.in["responder"] = <<>> /\ d.values["responder"] = <<>>
      /\ d.phase["responder"] = "none" /\ d.todo = Request(i)
  BY <1>1, <1>2 DEF Begun, ChannelKept, ChannelSame
<1>4. AskedTaken(d) = 0
  BY <1>3 DEF AskedTaken
<1>5. PICK t : t = Request(i)
  OBVIOUS
<1>6. /\ t \in Seq(MessageType) /\ \A n \in 1 .. AskedMessages : t[n] = AskedIn(n)
  BY <1>5, RequestIs
<1>7. AskedMessages \in 1 .. 2
  BY AskedMost
<1>8. AskedSoFar(d, 0)
  <2>1. \A n \in 1 .. Len(t) : 0 + 0 + n <= AskedMessages => t[n] = AskedIn(0 + 0 + n)
    BY <1>6, <1>7
  <2>2. PICK e : e = <<>> /\ Len(e) = 0
    OBVIOUS
  <2>3. d.out["caller"] = e /\ d.in["responder"] = e
    BY <1>3, <2>2
  <2> QED  BY <1>3, <1>4, <1>5, <1>7, <2>1, <2>2, <2>3 DEF AskedSoFar
<1>9. 0 \in 0 .. AskedMessages
  BY <1>7
<1> QED  BY <1>3, <1>8, <1>9 DEF RequestRead

-----------------------------------------------------------------------------
(* The reply comes to the caller *)

(* The parts that a message of the reply brings. *)
LEMMA MessageParts ==
    ASSUME NEW c, NEW e \in Nat
    PROVE  /\ PartsOf(e) \in Nat /\ PartsOf(e + 1) \in Nat
           /\ Len(MessageAt(c, e + 1)) = PartsOf(e + 1) - PartsOf(e)
           /\ PartsOf(e + 1) - PartsOf(e) \in 1 .. 2
           /\ \A n \in 1 .. (PartsOf(e + 1) - PartsOf(e)) :
                 MessageAt(c, e + 1)[n] = PartAt(c, PartsOf(e) + n)
<1>u. PICK u : u = PartsOf(e)
  OBVIOUS
<1>w. PICK w : w = PartsOf(e + 1)
  OBVIOUS
<1>m. PICK m : m = MessageAt(c, e + 1)
  OBVIOUS
<1> SUFFICES /\ u \in Nat /\ w \in Nat /\ Len(m) = w - u /\ w - u \in 1 .. 2
             /\ \A n \in 1 .. (w - u) : m[n] = PartAt(c, u + n)
  BY <1>u, <1>w, <1>m, Zenon
<1>1. CASE Go("responder") /\ e + 1 <= 2
  <2>1. PICK x : x = PartAt(c, 2 * (e + 1) - 1)
    OBVIOUS
  <2>2. PICK y : y = PartAt(c, 2 * (e + 1))
    OBVIOUS
  <2>3. MessageAt(c, e + 1) = <<x, y>>
    BY <1>1, <2>1, <2>2 DEF MessageAt
  <2>4. PartsOf(e) = 2 * e /\ PartsOf(e + 1) = 2 * e + 2
    BY <1>1 DEF PartsOf
  <2>5. 2 * (e + 1) - 1 = 2 * e + 1 /\ 2 * (e + 1) = 2 * e + 2
    OBVIOUS
  <2>6. x = PartAt(c, 2 * e + 1) /\ y = PartAt(c, 2 * e + 2)
    BY <2>1, <2>2, <2>5
  <2>7. u = 2 * e /\ w = 2 * e + 2 /\ w - u = 2 /\ u \in Nat /\ w \in Nat
    BY <1>u, <1>w, <2>4
  <2>8. Len(<<x, y>>) = 2 /\ <<x, y>>[1] = x /\ <<x, y>>[2] = y
    OBVIOUS
  <2>9. Len(m) = 2 /\ m[1] = x /\ m[2] = y
    BY <2>3, <2>8, <1>m, Zenon
  <2>10. \A n \in 1 .. 2 : m[n] = PartAt(c, 2 * e + n)
    <3>1. \A n \in 1 .. 2 : n = 1 \/ n = 2
      OBVIOUS
    <3> QED  BY <2>6, <2>9, <3>1
  <2> QED  BY <2>7, <2>9, <2>10
<1>2. CASE ~(Go("responder") /\ e + 1 <= 2)
  <2>1. PICK x : x = PartAt(c, PartsOf(e + 1))
    OBVIOUS
  <2>2. MessageAt(c, e + 1) = <<x>>
    BY <1>2, <2>1 DEF MessageAt
  <2>3. PartsOf(e) \in Nat /\ PartsOf(e + 1) = PartsOf(e) + 1
    BY <1>2 DEF PartsOf
  <2>4. u \in Nat /\ w = u + 1 /\ w \in Nat /\ w - u = 1
    BY <1>u, <1>w, <2>3
  <2>5. Len(<<x>>) = 1 /\ <<x>>[1] = x
    OBVIOUS
  <2>6. Len(m) = 1 /\ m[1] = x
    BY <1>m, <2>2, <2>5, Zenon
  <2>7. x = PartAt(c, u + 1)
    BY <1>w, <2>1, <2>4
  <2>8. \A n \in 1 .. 1 : m[n] = PartAt(c, u + n)
    <3>1. \A n \in 1 .. 1 : n = 1
      OBVIOUS
    <3> QED  BY <2>6, <2>7, <3>1
  <2> QED  BY <2>4, <2>6, <2>8
<1> QED  BY <1>1, <1>2

(* The parts of a call that the caller's codec works with. *)
ReplyKept(c, d) ==
    /\ d.ran = c.ran /\ d.replies = c.replies /\ d.raw = c.raw /\ d.responder = c.responder
    /\ d.stage = c.stage /\ d.hijacked = c.hijacked /\ d.reply = c.reply /\ d.got = c.got
    /\ d.phase["caller"] = c.phase["caller"] /\ d.size["caller"] = c.size["caller"]
    /\ d.count["caller"] = c.count["caller"] /\ d.values["caller"] = c.values["caller"]

LEMMA SameKept ==
    ASSUME NEW c, NEW d, CallerSame(c, d), ServerSame(c, d), CodecSame(c, d)
    PROVE  ReplyKept(c, d)
  BY DEF CallerSame, ServerSame, CodecSame, ReplyKept

(* Nothing is on the wire that was not. *)
NoneNew(a, b) == \A n \in 1 .. Len(b) : \E m \in 1 .. Len(a) : b[n] = a[m]

LEMMA CodecStays ==
    ASSUME NEW c, NEW d, ReplyCarried(c), ReplyKept(c, d), FlagsUp(c, d)
    PROVE  Counted(d) /\ Decoding(d)
<1>1. /\ HeaderOf(d) = HeaderOf(c) /\ AnswerOf(d) = AnswerOf(c)
      /\ ReplyLength(d) = ReplyLength(c) /\ ReplyMessages(d) = ReplyMessages(c)
      /\ \A k : PartAt(d, k) = PartAt(c, k) /\ MessageAt(d, k) = MessageAt(c, k)
      /\ (CutOff(d) <=> CutOff(c)) /\ (TookEmpty(d) <=> TookEmpty(c))
  BY SameReplyParts DEF ReplyKept
<1>2. Lost(c) => Lost(d)
  BY <1>1, TheSides DEF Lost, ReplyKept, FlagsUp
<1>3. Counted(d)
  BY DEF Counted, ReplyCarried, ReplyKept
<1>4. Decoding(d)
  <2>1. c.gone["caller"] => d.gone["caller"]
    BY TheSides DEF FlagsUp
  <2> QED  BY <1>1, <1>2, <2>1 DEF Decoding, ReplyCarried, ReplyKept
<1> QED  BY <1>3, <1>4

LEMMA RestStays ==
    ASSUME NEW c, NEW d, ReplyCarried(c), ReplyKept(c, d), FlagsUp(c, d),
           NoneNew(c.out["responder"], d.out["responder"]),
           d.in["caller"] = c.in["caller"] \/ d.in["caller"] = <<>>
    PROVE  Silent(d) /\ Counted(d) /\ Decoding(d) /\ AtLast(d) /\ Unmarked(d)
<1>1. Silent(d)
  BY DEF Silent, Unanswered, ReplyCarried, ReplyKept, NoneNew
<1>2. Unmarked(d)
  <2>1. c.hijacked => c.ran = "hijack" /\ Returned(c)
    BY DEF ReplyCarried, Unmarked
  <2>2. d.hijacked => d.ran = "hijack" /\ Returned(d)
    BY <2>1 DEF ReplyKept, Returned
  <2>3. NoMark(c.in["caller"]) => NoMark(d.in["caller"])
    BY DEF NoMark
  <2>4. (\A n \in 1 .. Len(c.out["responder"]) : NoMark(c.out["responder"][n])) =>
            \A n \in 1 .. Len(d.out["responder"]) : NoMark(d.out["responder"][n])
    BY DEF NoneNew
  <2> QED  BY <2>2, <2>3, <2>4 DEF Unmarked, ReplyCarried, ReplyKept
<1>3. AtLast(d)
  <2>1. TookEmpty(d) <=> TookEmpty(c)
    BY SameReplyParts DEF ReplyKept
  <2> QED  BY <2>1, TheSides DEF AtLast, ReplyCarried, ReplyKept, FlagsUp
<1> QED  BY <1>1, <1>2, <1>3, CodecStays

(* In JavaScript what has come is gone with the channel. *)
LEMMA ReplyGone ==
    ASSUME NEW c, NEW d, ReplyCarried(c), ReplyKept(c, d), FlagsUp(c, d),
           NoneNew(c.out["responder"], d.out["responder"]),
           d.in["caller"] = c.in["caller"] \/ d.in["caller"] = <<>>,
           ~Go("caller"), d.gone["caller"]
    PROVE  ReplyCarried(d)
<1>1. Replying(d)
  BY DEF Replying, Lost
<1> QED  BY <1>1, RestStays DEF ReplyCarried

(* The Close of the responder has come. *)
LEMMA ReplyHeard ==
    ASSUME NEW c, NEW d, ReplyCarried(c), ReplyKept(c, d), FlagsUp(c, d),
           NoneNew(c.out["responder"], d.out["responder"]),
           d.out["responder"] \in Seq(MessageType),
           ~Closes(d.out["responder"]), d.out["responder"] # <<>> => d.late["responder"],
           d.sentClose["responder"], d.in["caller"] = c.in["caller"],
           Go("caller") /\ ~ended["caller"] /\ ~Leaving(d)
                /\ (d.gone["caller"] \/ d.finishing["caller"]) =>
                \A e \in Nat : ReplySoFar(c, e) => e >= ReplyMessages(c)
    PROVE  ReplyCarried(d)
<1>1. /\ ReplyLength(d) = ReplyLength(c) /\ ReplyMessages(d) = ReplyMessages(c)
      /\ \A k : PartAt(d, k) = PartAt(c, k) /\ MessageAt(d, k) = MessageAt(c, k)
      /\ (TookEmpty(d) <=> TookEmpty(c))
  BY SameReplyParts DEF ReplyKept
<1>2. Lost(c) => Lost(d)
  BY <1>1, TheSides DEF Lost, ReplyKept, FlagsUp
<1>3. Read(d) = Read(c)
  BY <1>1 DEF Read, ReplyKept
<1>4. PICK b \in Seq(MessageType) : b = d.out["responder"]
  OBVIOUS
<1>5. /\ \A n \in 1 .. Len(b) : ~(Closes(b) \/ ~d.late["responder"])
      /\ \A n \in 1 .. Len(b) : b[n] # Close
  BY <1>4 DEF Closes
<1>6. ASSUME NEW e \in Nat, ReplySoFar(c, e)  PROVE ReplySoFar(d, e)
  <2>1. /\ PartsOf(e) = Read(d) + Len(d.in["caller"])
        /\ \A n \in 1 .. Len(d.in["caller"]) : d.in["caller"][n] = PartAt(d, Read(d) + n)
    BY <1>1, <1>3, <1>6 DEF ReplySoFar
  <2>2. Go("caller") /\ ~ended["caller"] /\ ~Leaving(d) =>
            (d.gone["caller"] \/ d.finishing["caller"] => e >= ReplyMessages(d))
    BY <1>1, <1>6
  <2> QED  BY <1>4, <1>5, <2>1, <2>2 DEF ReplySoFar
<1>7. Replying(d)
  BY <1>2, <1>6 DEF Replying, ReplyCarried
<1> QED  BY <1>7, RestStays DEF ReplyCarried

LEMMA ReadType ==
    ASSUME NEW c \in CallType, Impls
    PROVE  Read(c) \in Nat
<1>1. PICK n \in Nat : n = c.count["caller"]
  BY Fields, TheSides
<1>2. PICK l \in Nat : l = ReplyLength(c)
  <2>1. ReplyLength(c) \in {3, 4, 5}
    BY Fields, ReplyParts
  <2> QED  BY <2>1
<1>3. PICK g \in Nat : g = Len(c.got)
  <2>1. Len(c.got) \in Nat
    BY Fields
  <2> QED  BY <2>1
<1> QED  BY <1>1, <1>2, <1>3 DEF Read

(* A message of the reply comes in. *)
LEMMA ReplyComes ==
    ASSUME NEW c \in CallType, NEW d \in CallType, Impls, ReplyCarried(c), Answering(c),
           c.out["responder"] # <<>>, Head(c.out["responder"]) # Close,
           ~c.gone["caller"], ~c.finishing["caller"],
           TookIn(c, d, "caller"), CallerSame(c, d), ServerSame(c, d), CodecSame(c, d)
    PROVE  ReplyCarried(d)
<1>1. ReplyKept(c, d)
  BY SameKept
<1>2. PICK a \in Seq(MessageType) : a = c.out["responder"] /\ a # <<>>
  BY Fields, TheSides
<1>3. PICK p \in Seq(PartType) : p = c.in["caller"]
  BY Fields, TheSides
<1>4. PICK m \in Seq(PartType) : m = Head(a) /\ m # Close /\ m = a[1]
  <2>1. Head(a) \in MessageType /\ Head(a) = a[1]
    BY <1>2
  <2> QED  BY <1>2, <2>1 DEF MessageType
<1>5. PICK b \in Seq(MessageType) : /\ b = Tail(a) /\ Len(b) = Len(a) - 1
                                    /\ \A n \in 1 .. Len(b) : b[n] = a[n + 1]
  <2>1. /\ Tail(a) \in Seq(MessageType) /\ Len(Tail(a)) = Len(a) - 1
        /\ \A n \in 1 .. Len(Tail(a)) : Tail(a)[n] = a[n + 1]
    BY <1>2, OneLess
  <2> QED  BY <2>1
<1>6. PICK q \in Seq(PartType) : /\ q = p \o m /\ Len(q) = Len(p) + Len(m)
                                 /\ \A n \in 1 .. Len(p) : q[n] = p[n]
                                 /\ \A n \in 1 .. Len(m) : q[Len(p) + n] = m[n]
  <2>1. /\ p \o m \in Seq(PartType) /\ Len(p \o m) = Len(p) + Len(m)
        /\ \A n \in 1 .. Len(p) : (p \o m)[n] = p[n]
        /\ \A n \in 1 .. Len(m) : (p \o m)[Len(p) + n] = m[n]
    BY Joined
  <2> QED  BY <2>1
<1>7. /\ d.out["responder"] = b /\ d.in["caller"] = q /\ d.late = c.late
      /\ d.sentClose = c.sentClose /\ d.gone = c.gone /\ d.finishing = c.finishing
  <2>1. PICK s \in Sides : s = "caller" /\ Other(s) = "responder"
    BY TheSides
  <2>2. TookIn(c, d, s)
    BY <2>1
  <2>3. /\ d.out[Other(s)] = Tail(c.out[Other(s)]) /\ d.late = c.late
        /\ d.sentClose = c.sentClose /\ d.gone = c.gone /\ d.finishing = c.finishing
        /\ d.in[s] = c.in[s] \o Head(c.out[Other(s)])
    BY <2>2, TookInParts
  <2> QED  BY <1>2, <1>3, <1>4, <1>5, <1>6, <2>1, <2>3
<1>8. Closes(a) \/ ~c.late["responder"]
  BY <1>2 DEF Answering
<1>9. Len(a) \in Nat \ {0} /\ Len(p) \in Nat /\ Len(m) \in Nat
  BY <1>2
<1>10. /\ \A n \in 1 .. Len(b) : Before(b, n) => Before(a, n + 1)
       /\ Before(a, 1)
  <2>1. ASSUME NEW n \in 1 .. Len(b), Before(b, n), NEW j \in 1 .. n + 1, a[j] = Close
        PROVE  FALSE
    <3>1. j # 1
      BY <1>4, <2>1
    <3>2. j - 1 \in 1 .. n /\ b[j - 1] = a[j]
      BY <1>5, <1>9, <2>1, <3>1
    <3> QED  BY <2>1, <3>2 DEF Before
  <2>2. Before(a, 1)
    BY <1>4 DEF Before
  <2>3. ASSUME NEW n \in 1 .. Len(b), Before(b, n)  PROVE Before(a, n + 1)
    BY <2>1, <2>3 DEF Before
  <2> QED  BY <2>2, <2>3
<1>11. ~Unanswered(c) /\ c.ran # "none"
  <2>1. 1 \in 1 .. Len(a) /\ a[1] # Close
    BY <1>4, <1>9
  <2> QED  BY <1>2, <2>1 DEF ReplyCarried, Silent
<1>12. /\ ReplyLength(d) = ReplyLength(c) /\ ReplyMessages(d) = ReplyMessages(c)
       /\ \A k : PartAt(d, k) = PartAt(c, k) /\ MessageAt(d, k) = MessageAt(c, k)
       /\ (TookEmpty(d) <=> TookEmpty(c))
  BY <1>1, SameReplyParts DEF ReplyKept
<1>13. /\ Lost(d) <=> Lost(c)
       /\ Read(d) = Read(c) /\ Sent(d) = Sent(c) /\ (Leaving(d) <=> Leaving(c))
  <2>1. Lost(d) <=> Lost(c)
    BY <1>1, <1>7, <1>12 DEF Lost, ReplyKept
  <2>2. Read(d) = Read(c)
    BY <1>1, <1>12 DEF Read, ReplyKept
  <2>3. Sent(d) = Sent(c)
    BY <1>1, <1>12 DEF Sent, ReplyKept, Unanswered
  <2>4. Leaving(d) <=> Leaving(c)
    BY <1>1 DEF Leaving, ReplyKept
  <2> QED  BY <2>1, <2>2, <2>3, <2>4
<1>14. PICK r : r = Read(c)
  OBVIOUS
<1>15. ASSUME NEW e \in Nat, ReplySoFar(c, e)  PROVE ReplySoFar(d, e + 1)
  <2>0. PICK u \in Nat : u = PartsOf(e)
    BY MessageParts
  <2>1. /\ u = r + Len(p)
        /\ \A n \in 1 .. Len(p) : p[n] = PartAt(c, r + n)
        /\ \A n \in 1 .. Len(a) : Before(a, n) => a[n] = MessageAt(c, e + n)
        /\ ~c.sentClose["responder"] /\ (Mock \/ \A s \in Sides : ~ended[s]) =>
               e + Len(a) = Sent(c)
        /\ Go("caller") /\ ~ended["caller"] /\ ~Leaving(c) =>
               \A n \in 1 .. Len(a) : a[n] = Close => e + n > ReplyMessages(c)
    BY <1>2, <1>3, <1>8, <1>14, <1>15, <2>0 DEF ReplySoFar
  <2>2. m = MessageAt(c, e + 1)
    <3>1. 1 \in 1 .. Len(a)
      BY <1>9
    <3> QED  BY <1>4, <1>10, <2>1, <3>1
  <2>3. PICK w \in Nat : w = PartsOf(e + 1)
    BY MessageParts
  <2>4. Len(m) = w - u /\ w - u \in 1 .. 2 /\ \A n \in 1 .. (w - u) : m[n] = PartAt(c, u + n)
    <3>1. /\ Len(MessageAt(c, e + 1)) = PartsOf(e + 1) - PartsOf(e)
          /\ PartsOf(e + 1) - PartsOf(e) \in 1 .. 2
          /\ \A n \in 1 .. (PartsOf(e + 1) - PartsOf(e)) :
                 MessageAt(c, e + 1)[n] = PartAt(c, PartsOf(e) + n)
      BY MessageParts
    <3> QED  BY <2>0, <2>2, <2>3, <3>1, Zenon
  <2>5. r \in Int /\ w = r + Len(q)
    <3>1. r = u - Len(p)
      <4>1. r \in Nat
        BY <1>14, ReadType
      <4> QED  BY <1>9, <2>1, <4>1
    <3> QED  BY <1>6, <1>9, <2>1, <2>4, <3>1
  <2>6. \A n \in 1 .. Len(q) : q[n] = PartAt(c, r + n)
    <3>1. ASSUME NEW n \in 1 .. Len(q)  PROVE q[n] = PartAt(c, r + n)
      <4>1. CASE n <= Len(p)
        <5>1. n \in 1 .. Len(p)
          BY <1>9, <3>1, <4>1
        <5> QED  BY <1>6, <2>1, <5>1
      <4>2. CASE ~(n <= Len(p))
        <5>1. n - Len(p) \in 1 .. Len(m) /\ Len(p) + (n - Len(p)) = n /\ u + (n - Len(p)) = r + n
          BY <1>6, <1>9, <2>1, <2>5, <3>1, <4>2
        <5>2. q[Len(p) + (n - Len(p))] = m[n - Len(p)]
          BY <1>6, <5>1
        <5>3. m[n - Len(p)] = PartAt(c, u + (n - Len(p)))
          BY <2>4, <5>1
        <5> QED  BY <5>1, <5>2, <5>3
      <4> QED  BY <4>1, <4>2
    <3> QED  BY <3>1
  <2>7. \A n \in 1 .. Len(b) : Before(b, n) => b[n] = MessageAt(c, (e + 1) + n)
    <3>1. ASSUME NEW n \in 1 .. Len(b), Before(b, n)  PROVE b[n] = MessageAt(c, (e + 1) + n)
      <4>1. n + 1 \in 1 .. Len(a) /\ e + (n + 1) = (e + 1) + n
        BY <1>5, <1>9, <3>1
      <4>2. a[n + 1] = MessageAt(c, e + (n + 1))
        BY <1>10, <2>1, <3>1, <4>1
      <4> QED  BY <1>5, <3>1, <4>1, <4>2
    <3> QED  BY <3>1
  <2>8. (e + 1) + Len(b) = e + Len(a)
    BY <1>5, <1>9
  <2>9. (\A n \in 1 .. Len(a) : a[n] = Close => e + n > ReplyMessages(c)) =>
            \A n \in 1 .. Len(b) : b[n] = Close => (e + 1) + n > ReplyMessages(c)
    <3>1. ASSUME \A n \in 1 .. Len(a) : a[n] = Close => e + n > ReplyMessages(c),
                 NEW n \in 1 .. Len(b), b[n] = Close
          PROVE  (e + 1) + n > ReplyMessages(c)
      <4>1. n + 1 \in 1 .. Len(a) /\ e + (n + 1) = (e + 1) + n /\ a[n + 1] = Close
        BY <1>5, <1>9, <3>1
      <4> QED  BY <3>1, <4>1
    <3> QED  BY <3>1
  <2>10. w = Read(d) + Len(q) /\ \A n \in 1 .. Len(q) : q[n] = PartAt(d, Read(d) + n)
    BY <1>12, <1>13, <1>14, <2>5, <2>6
  <2>11. /\ \A n \in 1 .. Len(b) : Before(b, n) => b[n] = MessageAt(d, (e + 1) + n)
         /\ ~d.sentClose["responder"] /\ (Mock \/ \A s \in Sides : ~ended[s]) =>
               (e + 1) + Len(b) = Sent(d)
         /\ Go("caller") /\ ~ended["caller"] /\ ~Leaving(d) =>
               \A n \in 1 .. Len(b) : b[n] = Close => (e + 1) + n > ReplyMessages(d)
    BY <1>7, <1>12, <1>13, <2>1, <2>7, <2>8, <2>9
  <2> QED  BY <1>7, <2>3, <2>10, <2>11 DEF ReplySoFar
<1>16. Replying(d)
  <2>1. \A e \in Nat : e + 1 \in Nat
    OBVIOUS
  <2> QED  BY <1>13, <1>15, <2>1 DEF Replying, ReplyCarried
<1>17. Silent(d)
  BY <1>1, <1>11 DEF Silent, ReplyKept, Unanswered
<1>18. Counted(d) /\ Decoding(d)
  <2>1. FlagsUp(c, d)
    BY <1>7 DEF FlagsUp
  <2> QED  BY <1>1, <2>1, CodecStays
<1>19. Unmarked(d)
  <2>1. d.hijacked => d.ran = "hijack" /\ Returned(d)
    BY <1>1 DEF ReplyCarried, Unmarked, ReplyKept, Returned
  <2>2. ASSUME c.ran # "hijack"
        PROVE  NoMark(q) /\ \A n \in 1 .. Len(b) : NoMark(b[n])
    <3>1. NoMark(p) /\ \A n \in 1 .. Len(a) : NoMark(a[n])
      BY <1>2, <1>3, <2>2 DEF ReplyCarried, Unmarked
    <3>2. NoMark(m)
      BY <1>4, <1>9, <3>1
    <3>3. \A n \in 1 .. Len(b) : n + 1 \in 1 .. Len(a)
      BY <1>5, <1>9
    <3>4. \A n \in 1 .. Len(b) : NoMark(b[n])
      BY <1>5, <3>1, <3>3
    <3>5. \A n \in 1 .. Len(q) : n \in 1 .. Len(p) \/ n - Len(p) \in 1 .. Len(m)
      BY <1>6, <1>9
    <3>6. ASSUME NEW n \in 1 .. Len(q)  PROVE ~q[n].value.hijacked
      <4>1. CASE n \in 1 .. Len(p)
        BY <1>6, <3>1, <4>1 DEF NoMark
      <4>2. CASE n - Len(p) \in 1 .. Len(m)
        <5>1. Len(p) + (n - Len(p)) = n
          BY <1>9, <3>6
        <5>2. q[n] = m[n - Len(p)]
          BY <1>6, <4>2, <5>1
        <5> QED  BY <3>2, <4>2, <5>2 DEF NoMark
      <4> QED  BY <3>5, <4>1, <4>2
    <3> QED  BY <3>4, <3>6 DEF NoMark
  <2> QED  BY <1>1, <1>7, <2>1, <2>2 DEF Unmarked, ReplyCarried, ReplyKept
<1>20. AtLast(d)
  BY <1>1, <1>7, <1>11, <1>12 DEF AtLast, ReplyCarried, ReplyKept
<1> QED  BY <1>16, <1>17, <1>18, <1>19, <1>20 DEF ReplyCarried

(* Taking the first of what is on the wire leaves nothing that was not. *)
LEMMA TailNew ==
    ASSUME NEW a \in Seq(MessageType)
    PROVE  NoneNew(a, a) /\ (a # <<>> => NoneNew(a, Tail(a)))
<1>1. NoneNew(a, a)
  BY DEF NoneNew
<1>2. ASSUME a # <<>>  PROVE NoneNew(a, Tail(a))
  <2>1. PICK b \in Seq(MessageType) : /\ b = Tail(a) /\ Len(b) = Len(a) - 1
                                      /\ \A n \in 1 .. Len(b) : b[n] = a[n + 1]
    BY <1>2, OneLess
  <2>2. \A n \in 1 .. Len(b) : n + 1 \in 1 .. Len(a)
    BY <2>1
  <2> QED  BY <2>1, <2>2 DEF NoneNew
<1> QED  BY <1>1, <1>2

(* The Close of the responder comes in. *)
LEMMA ReplyTold ==
    ASSUME NEW c \in CallType, NEW d \in CallType, Impls, ReplyCarried(c), Closed(c, "responder"),
           c.out["responder"] # <<>>, Head(c.out["responder"]) = Close,
           ToldOf(c, d, "caller"), CallerSame(c, d), ServerSame(c, d), CodecSame(c, d)
    PROVE  ReplyCarried(d)
<1>1. ReplyKept(c, d)
  BY SameKept
<1>2. PICK a \in Seq(MessageType) : a = c.out["responder"] /\ a # <<>>
  BY Fields, TheSides
<1>3. /\ d.out["responder"] = Tail(a) /\ d.late = c.late
      /\ (d.sentClose["responder"] <=> c.sentClose["responder"])
      /\ FlagsUp(c, d)
      /\ Go("caller") => d.in = c.in
      /\ ~Go("caller") =>
             d.in["caller"] = c.in["caller"] \/ (d.gone["caller"] /\ d.in["caller"] = <<>>)
  <2>1. PICK s \in Sides : s = "caller" /\ Other(s) = "responder"
    BY TheSides
  <2>2. ToldOf(c, d, s)
    BY <2>1
  <2>3. /\ d.out[Other(s)] = Tail(c.out[Other(s)]) /\ d.late = c.late
        /\ (d.sentClose[Other(s)] <=> c.sentClose[Other(s)])
        /\ Go(s) => d.in = c.in
        /\ \A t \in Sides : (c.gone[t] => d.gone[t]) /\ (c.sentClose[t] => d.sentClose[t])
    BY <2>2, ToldParts
  <2>4. ~Go(s) => d.in[s] = c.in[s] \/ (d.gone[s] /\ d.in[s] = <<>>)
    BY <2>2 DEF ToldOf
  <2> QED  BY <1>2, <2>1, <2>3, <2>4 DEF FlagsUp
<1>4. NoneNew(a, Tail(a))
  BY <1>2, TailNew
<1>5. CASE ~Go("caller") /\ d.gone["caller"]
  BY <1>1, <1>2, <1>3, <1>4, <1>5, ReplyGone
<1>6. CASE Go("caller") \/ ~d.gone["caller"]
  <2>1. Closes(a) /\ ClosesOnce(a) /\ (GoesOn(a) => c.late["responder"]) /\ c.sentClose["responder"]
    <3>1. Closes(a)
      BY <1>2, TailCloses
    <3> QED  BY <1>2, <3>1 DEF Closed
  <2>2. /\ ~Closes(Tail(a)) /\ (Tail(a) # <<>> => c.late["responder"])
        /\ Tail(a) \in Seq(MessageType)
    BY <1>2, <2>1, TailCloses
  <2>3. d.in["caller"] = c.in["caller"]
    BY <1>3, <1>6
  <2>4. ASSUME Go("caller"), ~ended["caller"], ~Leaving(d), NEW e \in Nat, ReplySoFar(c, e)
        PROVE  e >= ReplyMessages(c)
    <3>1. \A n \in 1 .. Len(a) : a[n] = Close => e + n > ReplyMessages(c)
      <4>1. ~Leaving(c)
        BY <1>1, <2>4 DEF Leaving, ReplyKept
      <4> QED  BY <1>2, <2>4, <4>1 DEF ReplySoFar
    <3>2. 1 \in 1 .. Len(a) /\ a[1] = Close
      BY <1>2
    <3>3. PICK l \in Nat : l = ReplyMessages(c)
      <4>1. ReplyLength(c) \in {3, 4, 5} /\ ReplyMessages(c) = IF Go("responder") THEN ReplyLength(c) - 2 ELSE ReplyLength(c)
        BY Fields, ReplyParts
      <4> QED  BY <4>1
    <3>4. e + 1 > l
      BY <3>1, <3>2, <3>3
    <3>5. e >= l
      BY <3>4
    <3> QED  BY <3>3, <3>5
  <2>5. Go("caller") /\ ~ended["caller"] /\ ~Leaving(d)
            /\ (d.gone["caller"] \/ d.finishing["caller"]) =>
                \A e \in Nat : ReplySoFar(c, e) => e >= ReplyMessages(c)
    BY <2>4
  <2> QED  BY <1>1, <1>2, <1>3, <1>4, <2>1, <2>2, <2>3, <2>5, ReplyHeard
<1> QED  BY <1>5, <1>6

(* What comes for a channel that is gone is dropped. *)
LEMMA ReplyDropped ==
    ASSUME NEW c \in CallType, NEW d \in CallType, Impls, ReplyCarried(c), Shut(c, "caller"),
           c.out["responder"] # <<>>, c.gone["caller"], ~ended["caller"],
           Popped(c, d, "caller"), d.in = c.in,
           CallerSame(c, d), ServerSame(c, d), CodecSame(c, d)
    PROVE  ReplyCarried(d)
<1>1. ReplyKept(c, d)
  BY SameKept
<1>2. PICK a \in Seq(MessageType) : a = c.out["responder"] /\ a # <<>>
  BY Fields, TheSides
<1>3. /\ d.out["responder"] = Tail(a) /\ d.sentClose = c.sentClose
      /\ d.gone = c.gone /\ d.late = c.late /\ d.finishing = c.finishing
  <2>1. PICK s \in Sides : s = "caller" /\ Other(s) = "responder"
    BY TheSides
  <2>2. Popped(c, d, s)
    BY <2>1
  <2>3. /\ d.out = [c.out EXCEPT ![Other(s)] = Tail(@)] /\ d.sentClose = c.sentClose
        /\ d.gone = c.gone /\ d.late = c.late /\ d.finishing = c.finishing
    BY <2>2 DEF Popped
  <2>4. c.out \in [Sides -> Seq(MessageType)] /\ Other(s) \in Sides
    BY Fields, TheSides
  <2>5. d.out[Other(s)] = Tail(c.out[Other(s)])
    BY <2>3, <2>4
  <2> QED  BY <1>2, <2>1, <2>3, <2>5
<1>4. FlagsUp(c, d)
  BY <1>3 DEF FlagsUp
<1>5. NoneNew(a, Tail(a))
  BY <1>2, TailNew
<1>6. CASE ~Go("caller")
  BY <1>1, <1>2, <1>3, <1>4, <1>5, <1>6, ReplyGone
<1>7. CASE Go("caller")
  <2>1. c.sentClose["responder"] /\ ~Closes(a) /\ c.late["responder"]
    <3>1. ~Mock
      BY <1>7, GoOrNot
    <3>2. Heard(c, "caller") /\ Other("caller") = "responder"
      BY <3>1, TheSides DEF Shut
    <3> QED  BY <1>2, <3>2 DEF Heard
  <2>2. ~Closes(Tail(a)) /\ Tail(a) \in Seq(MessageType)
    BY <1>2, <2>1, TailCloses
  <2>3. Go("caller") /\ ~ended["caller"] /\ ~Leaving(d)
            /\ (d.gone["caller"] \/ d.finishing["caller"]) =>
                \A e \in Nat : ReplySoFar(c, e) => e >= ReplyMessages(c)
    <3>1. Leaving(c) <=> Leaving(d)
      BY <1>1 DEF Leaving, ReplyKept
    <3> QED  BY <1>3, <3>1 DEF ReplySoFar
  <2> QED  BY <1>1, <1>2, <1>3, <1>4, <1>5, <2>1, <2>2, <2>3, ReplyHeard
<1> QED  BY <1>6, <1>7

(* The caller's channel is shut down. *)
LEMMA ReplyShut ==
    ASSUME NEW c \in CallType, NEW d \in CallType, Impls, ReplyCarried(c),
           WasShut(c, d, "caller"), c.finishing["caller"] \/ c.gone["caller"] \/ ended["caller"],
           CallerSame(c, d), ServerSame(c, d), CodecSame(c, d)
    PROVE  ReplyCarried(d)
<1>1. /\ d.out = c.out /\ d.late = c.late /\ d.gone["caller"]
      /\ d.in["caller"] = IF Go("caller") THEN c.in["caller"] ELSE <<>>
      /\ FlagsUp(c, d)
  <2>1. /\ c.gone \in [Sides -> BOOLEAN] /\ c.sentClose \in [Sides -> BOOLEAN]
        /\ c.in \in [Sides -> Seq(PartType)]
    BY Fields
  <2> QED  BY <2>1, TheSides DEF WasShut, FlagsUp
<1>2. CASE Go("caller")
  <2>1. ReplySame(c, d)
    BY <1>1, <1>2 DEF ReplySame, CallerSame, ServerSame, CodecSame, Unanswered, Returned
  <2>2. d.stage = c.stage
    BY DEF CallerSame
  <2> QED  BY <1>1, <2>1, <2>2, ReplyStays
<1>3. CASE ~Go("caller")
  <2>1. ReplyKept(c, d)
    BY SameKept
  <2>2. NoneNew(c.out["responder"], d.out["responder"])
    BY <1>1, Fields, TheSides, TailNew
  <2> QED  BY <1>1, <1>3, <2>1, <2>2, ReplyGone
<1> QED  BY <1>2, <1>3

-----------------------------------------------------------------------------
(* The server makes the reply *)

(* Nothing has been done yet. *)
LEMMA ReplyFresh ==
    ASSUME NEW d, Unanswered(d), d.replies = <<>>,
           d.in["caller"] = <<>>, d.out["responder"] = <<>>, d.values["caller"] = <<>>,
           d.count["caller"] = 0, d.phase["caller"] \notin {"body", "stopped"},
           ~d.hijacked, d.reply = "none",
           d.stage \in {"idle", "opening", "hanging", "writing", "header", "failed"},
           d.gone["caller"] \/ d.finishing["caller"] => ended["caller"]
    PROVE  ReplyCarried(d)
<1>1. Read(d) = 0
  BY DEF Read
<1>2. Sent(d) = 0
  BY DEF Sent
<1>3. PartsOf(0) = 0
  BY DEF PartsOf
<1>4. Len(d.in["caller"]) = 0 /\ Len(d.out["responder"]) = 0
  OBVIOUS
<1>5. ReplySoFar(d, 0)
  BY <1>1, <1>2, <1>3, <1>4 DEF ReplySoFar
<1>6. Replying(d)
  BY <1>5 DEF Replying
<1>7. Silent(d)
  BY <1>4 DEF Silent
<1>8. Counted(d) /\ AtLast(d)
  BY DEF Counted, AtLast
<1>9. Decoding(d)
  BY DEF Decoding
<1>10. Unmarked(d)
  BY <1>4 DEF Unmarked, NoMark
<1> QED  BY <1>6, <1>7, <1>8, <1>9, <1>10 DEF ReplyCarried

(* All that the caller and its channel know of stays. *)
CallerKept(c, d) ==
    /\ CallerSame(c, d)
    /\ d.in["caller"] = c.in["caller"] /\ d.out["responder"] = c.out["responder"]
    /\ d.late["responder"] = c.late["responder"]
    /\ d.sentClose["responder"] = c.sentClose["responder"]
    /\ d.phase["caller"] = c.phase["caller"] /\ d.size["caller"] = c.size["caller"]
    /\ d.count["caller"] = c.count["caller"] /\ d.values["caller"] = c.values["caller"]
    /\ d.gone["caller"] = c.gone["caller"] /\ d.finishing["caller"] = c.finishing["caller"]

LEMMA CloseNoMark == NoMark(Close)
<1>1. Len(Close) = 1 /\ Close[1] = Part("close", 0, Plain("none"))
  BY DEF Close
<1>2. ~Part("close", 0, Plain("none")).value.hijacked
  BY DEF Part, Plain, Value
<1>3. \A n \in 1 .. 1 : n = 1
  OBVIOUS
<1> QED  BY <1>1, <1>2, <1>3 DEF NoMark

(* Before a handler has returned, it does not matter which it is. *)
LEMMA ReplyQuiet ==
    ASSUME NEW c \in CallType, NEW d \in CallType, Impls, ReplyCarried(c), Closed(c, "responder"),
           Unanswered(c), c.replies = <<>>, Returns(c.ran) = 1 \/ Returns(d.ran) # 1,
           CallerKept(c, d), d.replies = <<>>,
           \/ Unanswered(d)
           \/ Returned(d) /\ d.ran # "none" /\ c.sentClose["responder"]
    PROVE  ReplyCarried(d)
<1>1. /\ c.in["caller"] = <<>> /\ c.count["caller"] = 0 /\ c.phase["caller"] # "body"
      /\ \A n \in 1 .. Len(c.out["responder"]) : c.out["responder"][n] = Close
      /\ c.values["caller"] # <<>> => Go("caller") /\ c.values["caller"] = <<Plain("EOF")>>
      /\ c.stage \in {"idle", "opening", "hanging", "writing", "header", "failed"} /\ c.reply = "none"
  BY DEF ReplyCarried, Silent
<1>2. Read(c) = 0 /\ Read(d) = 0
  BY <1>1 DEF Read, CallerKept
<1>3. Sent(c) = 0
  BY DEF Sent
<1>4. Unanswered(d) => Sent(d) = 0
  BY DEF Sent
<1>5. ~TookEmpty(c) /\ ~TookEmpty(d) /\ (Lost(c) => Lost(d))
  <2>1. ~TookEmpty(c) /\ ~TookEmpty(d)
    BY <1>1 DEF TookEmpty, CallerKept
  <2> QED  BY <2>1 DEF Lost, CallerKept, CallerSame
<1>6. ASSUME NEW c1, c1 = c \/ c1 = d  PROVE ReplyMessages(c1) \in Nat \ {0, 1}
  <2>1. c1.ran \in Outcomes \cup {"none"}
    BY <1>6, Fields
  <2> QED  BY <2>1, ReplyParts
<1>7. PICK a \in Seq(MessageType) : a = c.out["responder"]
  BY Fields, TheSides
<1>8. ASSUME NEW e \in Nat, ReplySoFar(c, e)  PROVE ReplySoFar(d, e)
  <2>1. Len(c.in["caller"]) = 0
    BY <1>1
  <2>2. PartsOf(e) = 0
    BY <1>2, <1>8, <2>1 DEF ReplySoFar
  <2>3. e = 0
    BY <2>2 DEF PartsOf
  <2>4. \A n \in 1 .. Len(a) : ~Before(a, n)
    BY <1>1, <1>7 DEF Before
  <2>5. ~d.sentClose["responder"] /\ (Mock \/ \A s \in Sides : ~ended[s]) =>
            e + Len(a) = Sent(d)
    BY <1>3, <1>4, <1>7, <1>8 DEF ReplySoFar, CallerKept
  <2>6. Go("caller") /\ ~ended["caller"] /\ ~Leaving(d) =>
            /\ \A n \in 1 .. Len(a) : a[n] = Close => e + n > ReplyMessages(d)
            /\ d.gone["caller"] \/ d.finishing["caller"] => e >= ReplyMessages(d)
    <3>1. SUFFICES ASSUME Go("caller"), ~ended["caller"], ~Leaving(d)
                   PROVE  Len(a) = 0 /\ ~d.gone["caller"] /\ ~d.finishing["caller"]
      OBVIOUS
    <3>2. ~Leaving(c)
      BY <3>1 DEF Leaving, CallerKept, CallerSame
    <3>3. /\ \A n \in 1 .. Len(a) : a[n] = Close => e + n > ReplyMessages(c)
          /\ c.gone["caller"] \/ c.finishing["caller"] => e >= ReplyMessages(c)
      BY <1>7, <1>8, <3>1, <3>2 DEF ReplySoFar
    <3>4. PICK l \in Nat : l = ReplyMessages(c) /\ l >= 2
      BY <1>6
    <3>5. ~d.gone["caller"] /\ ~d.finishing["caller"]
      BY <2>3, <3>3, <3>4 DEF CallerKept
    <3>6. Len(a) \in Nat
      OBVIOUS
    <3>7. ASSUME Len(a) # 0  PROVE FALSE
      <4>1. 1 \in 1 .. Len(a)
        BY <3>6, <3>7
      <4>2. a[1] = Close
        BY <1>1, <1>7, <4>1
      <4>3. e + 1 > l
        BY <3>3, <3>4, <4>1, <4>2
      <4> QED  BY <2>3, <3>4, <4>3
    <3> QED  BY <3>5, <3>7
  <2> QED  BY <1>1, <1>2, <1>7, <2>1, <2>2, <2>4, <2>5, <2>6 DEF ReplySoFar, CallerKept
<1>9. Replying(d)
  BY <1>5, <1>8 DEF Replying, ReplyCarried
<1>10. Silent(d)
  BY <1>1 DEF Silent, CallerKept, CallerSame
<1>11. Counted(d)
  BY DEF Counted, ReplyCarried, CallerKept, CallerSame
<1>12. AtLast(d)
  BY <1>1, <1>5 DEF AtLast, ReplyCarried, CallerKept, CallerSame
<1>13. Decoding(d)
  <2>1. d.stage \in {"writing", "header"} /\ Returns(d.ran) = 1 =>
            c.values["caller"] = <<>> \/ (c.values["caller"] = <<Plain("EOF")>> /\ ended["caller"])
    BY <1>1 DEF Decoding, ReplyCarried, CallerKept, CallerSame
  <2> QED  BY <1>1, <2>1 DEF Decoding, CallerKept, CallerSame
<1>14. Unmarked(d)
  <2>1. ~d.hijacked
    BY DEF Unmarked, Unanswered, Returned, ReplyCarried, CallerKept, CallerSame
  <2>2. NoMark(<<>>)
    BY DEF NoMark
  <2>3. \A n \in 1 .. Len(d.values["caller"]) : ~d.values["caller"][n].hijacked
    <3>1. ~Plain("EOF").hijacked
      BY DEF Plain, Value
    <3>2. Len(<<>>) = 0 /\ Len(<<Plain("EOF")>>) = 1 /\ <<Plain("EOF")>>[1] = Plain("EOF")
      OBVIOUS
    <3> QED  BY <1>1, <3>1, <3>2 DEF CallerKept
  <2>4. d.replies = <<>> /\ Len(<<>>) = 0
    OBVIOUS
  <2> QED  BY <1>1, <2>1, <2>2, <2>3, <2>4, CloseNoMark DEF Unmarked, CallerKept
<1> QED  BY <1>9, <1>10, <1>11, <1>12, <1>13, <1>14 DEF ReplyCarried

(* What has been written for the caller is still to come. *)
RepliesKept(c, d) ==
    c.ran # "hijack" =>
        \A m \in 1 .. Len(d.replies) : \A n \in 1 .. Len(d.replies[m].todo) :
            NoMark(d.replies[m].todo[n])

(* All that the caller knows of stays, but what comes on the wire. *)
CodecKept(c, d) ==
    /\ CallerSame(c, d) /\ d.ran = c.ran
    /\ d.phase["caller"] = c.phase["caller"] /\ d.size["caller"] = c.size["caller"]
    /\ d.count["caller"] = c.count["caller"] /\ d.values["caller"] = c.values["caller"]
    /\ d.gone["caller"] = c.gone["caller"] /\ d.finishing["caller"] = c.finishing["caller"]

LEMMA CodecKeeps ==
    ASSUME NEW c, NEW d, ReplyCarried(c), CodecKept(c, d),
           d.in["caller"] = c.in["caller"] \/ ~Go("caller")
    PROVE  /\ Counted(d) /\ Decoding(d) /\ AtLast(d)
           /\ (Lost(c) <=> Lost(d)) /\ Read(d) = Read(c) /\ (Leaving(d) <=> Leaving(c))
           /\ ReplyLength(d) = ReplyLength(c) /\ ReplyMessages(d) = ReplyMessages(c)
           /\ \A k : PartAt(d, k) = PartAt(c, k) /\ MessageAt(d, k) = MessageAt(c, k)
<1>1. /\ HeaderOf(d) = HeaderOf(c) /\ AnswerOf(d) = AnswerOf(c)
      /\ ReplyLength(d) = ReplyLength(c) /\ ReplyMessages(d) = ReplyMessages(c)
      /\ \A k : PartAt(d, k) = PartAt(c, k) /\ MessageAt(d, k) = MessageAt(c, k)
      /\ (CutOff(d) <=> CutOff(c)) /\ (TookEmpty(d) <=> TookEmpty(c))
  BY SameReplyParts DEF CodecKept
<1>2. Lost(c) <=> Lost(d)
  BY <1>1 DEF Lost, CodecKept, CallerSame
<1>3. Read(d) = Read(c)
  BY <1>1 DEF Read, CodecKept, CallerSame
<1>4. Counted(d)
  BY DEF Counted, ReplyCarried, CodecKept, CallerSame
<1>5. Decoding(d)
  BY <1>1, <1>2 DEF Decoding, ReplyCarried, CodecKept, CallerSame
<1>6. AtLast(d)
  BY <1>1 DEF AtLast, ReplyCarried, CodecKept, CallerSame
<1>7. Leaving(d) <=> Leaving(c)
  BY DEF Leaving, CodecKept, CallerSame
<1> QED  BY <1>1, <1>2, <1>3, <1>4, <1>5, <1>6, <1>7

(* The responder closes its channel, or has closed it. *)
LEMMA ReplyClosed ==
    ASSUME NEW c \in CallType, NEW d \in CallType, Impls, ReplyCarried(c), CodecKept(c, d),
           RepliesKept(c, d), d.in["caller"] = c.in["caller"],
           d.late["responder"] = c.late["responder"], Closed(c, "responder"),
           ~c.hijacked \/ Returned(d),
           Unanswered(d) \/ d.ran = "none" => Unanswered(c) \/ c.ran = "none",
           Lost(c) \/ Sent(d) = Sent(c) \/ d.sentClose["responder"],
           c.sentClose["responder"] => d.sentClose["responder"],
           \/ d.out["responder"] = c.out["responder"]
           \/ /\ ~c.sentClose["responder"] /\ d.sentClose["responder"] /\ ~Swallowed /\ ~Mock
              /\ d.out["responder"] = Append(c.out["responder"], Close)
              /\ Lost(c) \/ Leaving(c) \/ Sent(c) >= ReplyMessages(c)
    PROVE  ReplyCarried(d)
<1>1. /\ Counted(d) /\ Decoding(d) /\ AtLast(d)
      /\ (Lost(c) <=> Lost(d)) /\ Read(d) = Read(c) /\ (Leaving(d) <=> Leaving(c))
      /\ ReplyLength(d) = ReplyLength(c) /\ ReplyMessages(d) = ReplyMessages(c)
      /\ \A k : PartAt(d, k) = PartAt(c, k) /\ MessageAt(d, k) = MessageAt(c, k)
  BY CodecKeeps
<1>2. PICK a \in Seq(MessageType) : a = c.out["responder"]
  BY Fields, TheSides
<1>3. PICK b \in Seq(MessageType) : b = d.out["responder"]
  BY Fields, TheSides
<1>4. /\ Len(b) \in Nat /\ Len(a) \in Nat
      /\ \A n \in 1 .. Len(b) : b[n] = Close \/ (n \in 1 .. Len(a) /\ b[n] = a[n])
      /\ \A n \in 1 .. Len(a) : n \in 1 .. Len(b) /\ b[n] = a[n]
      /\ \A n \in 1 .. Len(b) : n \in 1 .. Len(a) \/ (n = Len(a) + 1 /\ b # a)
  <2>1. CASE b = a
    BY <2>1
  <2>2. CASE b # a
    <3>1. b = Append(a, Close) /\ Close \in MessageType
      BY <1>2, <1>3, <2>2, PartTypes
    <3>2. /\ Len(b) = Len(a) + 1 /\ b[Len(a) + 1] = Close /\ Len(a) \in Nat
          /\ \A n \in 1 .. Len(a) : b[n] = a[n]
      BY <3>1, OneMore
    <3> QED  BY <2>2, <3>2
  <2> QED  BY <2>1, <2>2
<1>5. ASSUME NEW e \in Nat, ReplySoFar(c, e), ~Lost(c)  PROVE ReplySoFar(d, e)
  <2>1. /\ PartsOf(e) = Read(d) + Len(d.in["caller"])
        /\ \A n \in 1 .. Len(d.in["caller"]) : d.in["caller"][n] = PartAt(d, Read(d) + n)
    BY <1>1, <1>5 DEF ReplySoFar
  <2>2. Closes(a) \/ ~c.late["responder"] =>
            \A n \in 1 .. Len(a) : Before(a, n) => a[n] = MessageAt(d, e + n)
    BY <1>1, <1>2, <1>5 DEF ReplySoFar
  <2>3. b # a => ~c.late["responder"] \/ Closes(a) \/ Lost(c)
    <3>1. b # a => ~c.sentClose["responder"]
      BY <1>2, <1>3
    <3> QED  BY <3>1 DEF Closed
  <2>4. Closes(b) \/ ~d.late["responder"] =>
            \A n \in 1 .. Len(b) : Before(b, n) => b[n] = MessageAt(d, e + n)
    <3>1. SUFFICES ASSUME Closes(b) \/ ~d.late["responder"], NEW n \in 1 .. Len(b), Before(b, n)
                   PROVE  b[n] = MessageAt(d, e + n)
      OBVIOUS
    <3>2. b[n] # Close
      BY <1>4, <3>1 DEF Before
    <3>3. n \in 1 .. Len(a) /\ b[n] = a[n]
      BY <1>4, <3>2
    <3>4. Before(a, n)
      BY <1>4, <3>1, <3>3 DEF Before
    <3>5. Closes(a) \/ ~c.late["responder"]
      BY <1>5, <2>3, <3>1
    <3> QED  BY <2>2, <3>3, <3>4, <3>5
  <2>5. ~d.sentClose["responder"] /\ (Mock \/ \A s \in Sides : ~ended[s]) =>
            e + Len(b) = Sent(d)
    BY <1>2, <1>3, <1>5 DEF ReplySoFar
  <2>6. Go("caller") /\ ~ended["caller"] /\ ~Leaving(d) =>
            /\ \A n \in 1 .. Len(b) : b[n] = Close => e + n > ReplyMessages(d)
            /\ d.gone["caller"] \/ d.finishing["caller"] => e >= ReplyMessages(d)
    <3>1. SUFFICES ASSUME Go("caller"), ~ended["caller"], ~Leaving(d)
                   PROVE  /\ \A n \in 1 .. Len(b) : b[n] = Close => e + n > ReplyMessages(d)
                          /\ d.gone["caller"] \/ d.finishing["caller"] => e >= ReplyMessages(d)
      OBVIOUS
    <3>2. /\ \A n \in 1 .. Len(a) : a[n] = Close => e + n > ReplyMessages(d)
          /\ c.gone["caller"] \/ c.finishing["caller"] => e >= ReplyMessages(d)
      BY <1>1, <1>2, <1>5, <3>1 DEF ReplySoFar
    <3>3. ASSUME b # a  PROVE e + (Len(a) + 1) > ReplyMessages(d)
      <4>1. Sent(c) >= ReplyMessages(d) /\ ~Swallowed /\ ~c.sentClose["responder"] /\ ~Mock
        BY <1>1, <1>2, <1>3, <1>5, <3>1, <3>3
      <4>2. e + Len(a) = Sent(c)
        BY <1>2, <1>5, <4>1 DEF ReplySoFar, Swallowed
      <4>3. PICK l \in Nat : l = ReplyMessages(d)
        <5>1. /\ ReplyLength(c) \in {3, 4, 5}
              /\ ReplyMessages(c) = IF Go("responder") THEN ReplyLength(c) - 2 ELSE ReplyLength(c)
          BY Fields, ReplyParts
        <5> QED  BY <1>1, <5>1
      <4>4. e + Len(a) >= l
        BY <4>1, <4>2, <4>3
      <4> QED  BY <1>4, <4>3, <4>4
    <3> QED  BY <1>4, <3>2, <3>3 DEF CodecKept
  <2> QED  BY <1>3, <2>1, <2>4, <2>5, <2>6 DEF ReplySoFar
<1>6. Replying(d)
  BY <1>1, <1>5 DEF Replying, ReplyCarried
<1>7. Silent(d)
  BY <1>2, <1>3, <1>4 DEF Silent, ReplyCarried, CodecKept, CallerSame
<1>8. Unmarked(d)
  <2>1. c.hijacked => d.ran = "hijack"
    BY DEF Unmarked, ReplyCarried, CodecKept
  <2>2. (\A n \in 1 .. Len(a) : NoMark(a[n])) => \A n \in 1 .. Len(b) : NoMark(b[n])
    BY <1>4, CloseNoMark
  <2> QED  BY <1>2, <1>3, <2>1, <2>2 DEF Unmarked, ReplyCarried, CodecKept, CallerSame, RepliesKept
<1> QED  BY <1>1, <1>6, <1>7, <1>8 DEF ReplyCarried

LEMMA NoMarkJoins ==
    ASSUME NEW p \in Seq(PartType), NEW m \in Seq(PartType), NoMark(p), NoMark(m)
    PROVE  NoMark(p \o m)
<1>1. PICK q \in Seq(PartType) : /\ q = p \o m /\ Len(q) = Len(p) + Len(m)
                                 /\ Len(p) \in Nat /\ Len(m) \in Nat
                                 /\ \A n \in 1 .. Len(p) : q[n] = p[n]
                                 /\ \A n \in 1 .. Len(m) : q[Len(p) + n] = m[n]
  <2>1. /\ p \o m \in Seq(PartType) /\ Len(p \o m) = Len(p) + Len(m)
        /\ Len(p) \in Nat /\ Len(m) \in Nat
        /\ \A n \in 1 .. Len(p) : (p \o m)[n] = p[n]
        /\ \A n \in 1 .. Len(m) : (p \o m)[Len(p) + n] = m[n]
    BY Joined
  <2> QED  BY <2>1
<1>2. ASSUME NEW n \in 1 .. Len(q)  PROVE ~q[n].value.hijacked
  <2>1. n \in 1 .. Len(p) \/ n - Len(p) \in 1 .. Len(m)
    BY <1>1
  <2>2. CASE n \in 1 .. Len(p)
    BY <1>1, <2>2 DEF NoMark
  <2>3. CASE n - Len(p) \in 1 .. Len(m)
    <3>1. Len(p) + (n - Len(p)) = n
      BY <1>1, <1>2
    <3>2. q[n] = m[n - Len(p)]
      BY <1>1, <2>3, <3>1
    <3> QED  BY <2>3, <3>2 DEF NoMark
  <2> QED  BY <2>1, <2>2, <2>3
<1> QED  BY <1>1, <1>2 DEF NoMark

(* What Written does at the responder. *)
LEMMA WroteParts ==
    ASSUME NEW c \in CallType, NEW d \in CallType, NEW m \in MessageType,
           Wrote(c, d, "responder", m), Impls
    PROVE  /\ d.sentClose = c.sentClose /\ d.gone = c.gone /\ d.finishing = c.finishing
           /\ d.in["caller"] = IF Mock /\ ~c.gone["caller"] THEN c.in["caller"] \o m
                               ELSE c.in["caller"]
           /\ Mock \/ Swallowed => d.out = c.out /\ d.late = c.late
           /\ ~(Mock \/ Swallowed) =>
                 /\ d.out["responder"] = Append(c.out["responder"], m)
                 /\ d.late["responder"] = (c.late["responder"] \/ c.sentClose["responder"])
<1>1. PICK s \in Sides : s = "responder" /\ Other(s) = "caller"
  BY TheSides
<1>2. Wrote(c, d, s, m)
  BY <1>1
<1>3. PICK o \in Sides : o = Other(s)
  BY <1>1, TheSides
<1>4. /\ d.sentClose = c.sentClose /\ d.gone = c.gone /\ d.finishing = c.finishing
      /\ d.in = IF Mock /\ ~c.gone[o] THEN [c.in EXCEPT ![o] = @ \o m] ELSE c.in
      /\ IF Mock \/ Swallowed THEN d.out = c.out /\ d.late = c.late
         ELSE /\ d.out = [c.out EXCEPT ![s] = Append(@, m)]
              /\ d.late = [c.late EXCEPT ![s] = @ \/ c.sentClose[s]]
  BY <1>2, <1>3 DEF Wrote
<1>5. /\ c.in \in [Sides -> Seq(PartType)] /\ c.out \in [Sides -> Seq(MessageType)]
      /\ c.late \in [Sides -> BOOLEAN]
  BY Fields
<1>6. d.in[o] = IF Mock /\ ~c.gone[o] THEN c.in[o] \o m ELSE c.in[o]
  BY <1>4, <1>5
<1>7. ~(Mock \/ Swallowed) =>
          /\ d.out[s] = Append(c.out[s], m) /\ d.late[s] = (c.late[s] \/ c.sentClose[s])
  BY <1>4, <1>5
<1> QED  BY <1>1, <1>3, <1>4, <1>6, <1>7

(* The responder writes the next message of the reply, or what its handler sends. *)
LEMMA ReplyWritten ==
    ASSUME NEW c \in CallType, NEW d \in CallType, Impls, ReplyCarried(c), CodecKept(c, d),
           RepliesKept(c, d), Closed(c, "responder"), Shut(c, "responder"),
           NEW m \in MessageType, m # Close, Wrote(c, d, "responder", m),
           Returned(d), d.ran # "none", c.ran # "hijack" => NoMark(m),
           ~Lost(c) => Sent(c) \in Nat /\ m = MessageAt(c, Sent(c) + 1) /\ Sent(d) = Sent(c) + 1
    PROVE  ReplyCarried(d)
<1>1. /\ d.sentClose = c.sentClose /\ d.gone = c.gone /\ d.finishing = c.finishing
      /\ d.in["caller"] = IF Mock /\ ~c.gone["caller"] THEN c.in["caller"] \o m
                          ELSE c.in["caller"]
      /\ Mock \/ Swallowed => d.out = c.out /\ d.late = c.late
      /\ ~(Mock \/ Swallowed) =>
            /\ d.out["responder"] = Append(c.out["responder"], m)
            /\ d.late["responder"] = (c.late["responder"] \/ c.sentClose["responder"])
  BY WroteParts
<1>2. /\ Counted(d) /\ Decoding(d) /\ AtLast(d)
      /\ (Lost(c) <=> Lost(d)) /\ Read(d) = Read(c) /\ (Leaving(d) <=> Leaving(c))
      /\ ReplyLength(d) = ReplyLength(c) /\ ReplyMessages(d) = ReplyMessages(c)
      /\ \A k : PartAt(d, k) = PartAt(c, k) /\ MessageAt(d, k) = MessageAt(c, k)
  <2>1. d.in["caller"] = c.in["caller"] \/ ~Go("caller")
    BY <1>1, GoOrNot
  <2> QED  BY <2>1, CodecKeeps
<1>3. PICK a \in Seq(MessageType) : a = c.out["responder"]
  BY Fields, TheSides
<1>4. PICK p \in Seq(PartType) : p = c.in["caller"]
  BY Fields, TheSides
<1>5. PICK r \in Nat : r = Read(c)
  BY ReadType
<1>6. PICK t : t = Sent(c) /\ (~Lost(c) => t \in Nat)
  OBVIOUS
<1>7. Mock => a = <<>> /\ ~c.sentClose["responder"]
  BY <1>3, TheSides DEF Shut
<1>8. ~Lost(c) /\ Mock => ~c.gone["caller"]
  BY GoOrNot DEF Lost
<1>9. ASSUME NEW e \in Nat, ReplySoFar(c, e), ~Lost(c), Mock  PROVE ReplySoFar(d, e + 1)
  <2>1. d.in["caller"] = p \o m /\ d.out["responder"] = a /\ a = <<>>
    BY <1>1, <1>3, <1>4, <1>7, <1>8, <1>9
  <2>2. PICK u \in Nat : u = PartsOf(e) /\ u = r + Len(p)
    <3>1. PartsOf(e) \in Nat
      BY MessageParts
    <3> QED  BY <1>4, <1>5, <1>9, <3>1 DEF ReplySoFar
  <2>3. e = t /\ m = MessageAt(c, e + 1)
    <3>1. ~c.sentClose["responder"] /\ Len(a) = 0
      BY <1>7, <1>9
    <3>2. e + Len(a) = Sent(c)
      BY <1>3, <1>9, <3>1 DEF ReplySoFar
    <3> QED  BY <1>6, <1>9, <3>1, <3>2
  <2>4. PICK w \in Nat : w = PartsOf(e + 1)
    BY MessageParts
  <2>5. Len(m) = w - u /\ w - u \in 1 .. 2 /\ \A n \in 1 .. (w - u) : m[n] = PartAt(c, u + n)
    <3>1. /\ Len(MessageAt(c, e + 1)) = PartsOf(e + 1) - PartsOf(e)
          /\ PartsOf(e + 1) - PartsOf(e) \in 1 .. 2
          /\ \A n \in 1 .. (PartsOf(e + 1) - PartsOf(e)) :
                 MessageAt(c, e + 1)[n] = PartAt(c, PartsOf(e) + n)
      BY MessageParts
    <3> QED  BY <2>2, <2>3, <2>4, <3>1, Zenon
  <2>6. PICK q \in Seq(PartType) : /\ q = p \o m /\ Len(q) = Len(p) + Len(m)
                                   /\ Len(p) \in Nat /\ Len(m) \in Nat
                                   /\ \A n \in 1 .. Len(p) : q[n] = p[n]
                                   /\ \A n \in 1 .. Len(m) : q[Len(p) + n] = m[n]
    <3>1. m \in Seq(PartType)
      BY DEF MessageType
    <3>2. /\ p \o m \in Seq(PartType) /\ Len(p \o m) = Len(p) + Len(m)
          /\ Len(p) \in Nat /\ Len(m) \in Nat
          /\ \A n \in 1 .. Len(p) : (p \o m)[n] = p[n]
          /\ \A n \in 1 .. Len(m) : (p \o m)[Len(p) + n] = m[n]
      BY <3>1, Joined
    <3> QED  BY <3>2
  <2>7. w = r + Len(q)
    BY <2>2, <2>5, <2>6
  <2>8. ASSUME NEW n \in 1 .. Len(q)  PROVE q[n] = PartAt(c, r + n)
    <3>1. CASE n \in 1 .. Len(p)
      BY <1>4, <1>5, <1>9, <2>6, <3>1 DEF ReplySoFar
    <3>2. CASE ~(n \in 1 .. Len(p))
      <4>1. n - Len(p) \in 1 .. Len(m) /\ Len(p) + (n - Len(p)) = n /\ u + (n - Len(p)) = r + n
        BY <2>2, <2>6, <2>8, <3>2
      <4>2. q[Len(p) + (n - Len(p))] = m[n - Len(p)]
        BY <2>6, <4>1
      <4>3. m[n - Len(p)] = PartAt(c, u + (n - Len(p)))
        BY <2>5, <4>1
      <4> QED  BY <4>1, <4>2, <4>3
    <3> QED  BY <3>1, <3>2
  <2>9. /\ PartsOf(e + 1) = Read(d) + Len(q)
        /\ \A n \in 1 .. Len(q) : q[n] = PartAt(d, Read(d) + n)
    BY <1>2, <1>5, <2>4, <2>7, <2>8
  <2>10. (e + 1) + Len(a) = Sent(d) /\ ~Go("caller") /\ Len(a) = 0
    <3>1. ~Go("caller")
      BY <1>9, GoOrNot
    <3>2. Sent(d) = Sent(c) + 1
      BY <1>9
    <3>3. Len(a) = 0 /\ e \in Nat
      BY <2>1
    <3>4. Sent(d) = e + 1
      BY <1>6, <2>3, <3>2
    <3>5. (e + 1) + Len(a) = e + 1
      BY <3>3
    <3> QED  BY <3>1, <3>3, <3>4, <3>5
  <2>11. /\ PartsOf(e + 1) = Read(d) + Len(d.in["caller"])
         /\ \A n \in 1 .. Len(d.in["caller"]) : d.in["caller"][n] = PartAt(d, Read(d) + n)
    BY <2>1, <2>6, <2>9, Zenon
  <2>12. \A n \in 1 .. Len(d.out["responder"]) : FALSE
    BY <2>1
  <2>13. (e + 1) + Len(d.out["responder"]) = Sent(d)
    BY <2>1, <2>10, Zenon
  <2> QED  BY <2>10, <2>11, <2>12, <2>13 DEF ReplySoFar
<1>10. ASSUME NEW e \in Nat, ReplySoFar(c, e), ~Lost(c), ~Mock  PROVE ReplySoFar(d, e)
  <2>1. d.in["caller"] = p
    BY <1>1, <1>4, <1>10
  <2>2. PartsOf(e) = Read(d) + Len(p) /\ \A n \in 1 .. Len(p) : p[n] = PartAt(d, Read(d) + n)
    BY <1>2, <1>4, <1>10 DEF ReplySoFar
  <2>3. CASE Swallowed
    <3>1. d.out["responder"] = a /\ d.late = c.late /\ ~(Mock \/ \A s \in Sides : ~ended[s])
      BY <1>1, <1>3, <1>10, <2>3 DEF Swallowed
    <3> QED  BY <1>1, <1>2, <1>3, <1>10, <2>1, <2>2, <3>1 DEF ReplySoFar
  <2>4. CASE ~Swallowed
    <3>1. PICK b \in Seq(MessageType) :
              /\ b = Append(a, m) /\ Len(b) = Len(a) + 1 /\ b[Len(a) + 1] = m
              /\ \A n \in 1 .. Len(a) : b[n] = a[n]
              /\ Len(a) \in Nat
      BY OneMore
    <3>2. /\ d.out["responder"] = b
          /\ d.late["responder"] = (c.late["responder"] \/ c.sentClose["responder"])
      BY <1>1, <1>3, <1>10, <2>4, <3>1
    <3>3. ~c.sentClose["responder"] => e + Len(a) = t /\ ~Closes(a) /\ ~c.late["responder"]
      <4>1. \A s \in Sides : ~ended[s]
        BY <1>10, <2>4 DEF Swallowed
      <4> QED  BY <1>3, <1>6, <1>10, <4>1 DEF ReplySoFar, Closed
    <3>4. \A n \in 1 .. Len(b) : n \in 1 .. Len(a) \/ n = Len(a) + 1
      BY <3>1
    <3>5. Closes(b) <=> Closes(a)
      BY <3>1, AppendCloses
    <3>6. ASSUME Closes(b) \/ ~d.late["responder"], NEW n \in 1 .. Len(b), Before(b, n)
          PROVE  b[n] = MessageAt(d, e + n)
      <4>1. Closes(a) \/ ~c.late["responder"]
        BY <3>2, <3>5, <3>6
      <4>2. CASE n \in 1 .. Len(a)
        <5>1. \A j \in 1 .. n : j \in 1 .. Len(a)
          BY <3>1, <4>2
        <5>2. Before(a, n)
          BY <3>1, <3>6, <5>1 DEF Before
        <5> QED  BY <1>2, <1>3, <1>10, <3>1, <4>1, <4>2, <5>2 DEF ReplySoFar
      <4>3. CASE n = Len(a) + 1
        <5>1. \A j \in 1 .. Len(a) : j \in 1 .. n
          BY <3>1, <4>3
        <5>2. ~Closes(a)
          BY <3>1, <3>6, <5>1 DEF Before, Closes
        <5>3. ~c.sentClose["responder"]
          BY <3>2, <3>5, <3>6, <5>2
        <5>4. t + 1 = e + n
          BY <3>1, <3>3, <4>3, <5>3
        <5>5. m = MessageAt(c, t + 1)
          BY <1>6, <1>10
        <5> QED  BY <1>2, <3>1, <4>3, <5>4, <5>5
      <4> QED  BY <3>4, <3>6, <4>2, <4>3
    <3>7. ~d.sentClose["responder"] => e + Len(b) = Sent(d)
      <4>1. Sent(d) = t + 1
        BY <1>6, <1>10
      <4> QED  BY <1>1, <3>1, <3>3, <4>1
    <3>8. Go("caller") /\ ~ended["caller"] /\ ~Leaving(d) =>
            /\ \A n \in 1 .. Len(b) : b[n] = Close => e + n > ReplyMessages(d)
            /\ d.gone["caller"] \/ d.finishing["caller"] => e >= ReplyMessages(d)
      BY <1>1, <1>2, <1>3, <1>10, <3>1, <3>4 DEF ReplySoFar
    <3> QED  BY <2>1, <2>2, <3>2, <3>6, <3>7, <3>8 DEF ReplySoFar
  <2> QED  BY <2>3, <2>4
<1>11. Replying(d)
  <2>1. \A e \in Nat : e + 1 \in Nat
    OBVIOUS
  <2> QED  BY <1>2, <1>9, <1>10, <2>1 DEF Replying, ReplyCarried
<1>12. Silent(d)
  BY DEF Silent, Unanswered, Returned
<1>13. Unmarked(d)
  <2>1. d.hijacked => d.ran = "hijack"
    BY DEF Unmarked, ReplyCarried, CodecKept, CallerSame
  <2>2. c.ran # "hijack" => NoMark(d.in["caller"])
    <3>1. m \in Seq(PartType)
      BY DEF MessageType
    <3>2. c.ran # "hijack" => NoMark(p) /\ NoMark(m)
      BY <1>4 DEF Unmarked, ReplyCarried
    <3>3. c.ran # "hijack" => NoMark(p \o m)
      BY <3>1, <3>2, NoMarkJoins
    <3> QED  BY <1>1, <1>4, <3>2, <3>3
  <2>3. c.ran # "hijack" => \A n \in 1 .. Len(d.out["responder"]) : NoMark(d.out["responder"][n])
    <3>1. c.ran # "hijack" => NoMark(m) /\ \A n \in 1 .. Len(a) : NoMark(a[n])
      BY <1>3 DEF Unmarked, ReplyCarried
    <3>2. CASE Mock \/ Swallowed
      BY <1>1, <1>3, <3>1, <3>2
    <3>3. CASE ~(Mock \/ Swallowed)
      <4>1. PICK b \in Seq(MessageType) :
              /\ b = Append(a, m) /\ Len(b) = Len(a) + 1 /\ b[Len(a) + 1] = m
              /\ \A n \in 1 .. Len(a) : b[n] = a[n]
              /\ Len(a) \in Nat
        BY OneMore
      <4>2. \A n \in 1 .. Len(b) : n \in 1 .. Len(a) \/ n = Len(a) + 1
        BY <4>1
      <4>3. d.out["responder"] = b
        BY <1>1, <1>3, <3>3, <4>1
      <4> QED  BY <3>1, <4>1, <4>2, <4>3
    <3> QED  BY <3>2, <3>3
  <2> QED  BY <2>1, <2>2, <2>3 DEF Unmarked, ReplyCarried, CodecKept, CallerSame, RepliesKept
<1> QED  BY <1>2, <1>11, <1>12, <1>13 DEF ReplyCarried

-----------------------------------------------------------------------------
(* The caller's codec decodes the reply *)

LEMMA SplitAt ==
    ASSUME NEW S, NEW q \in Seq(S), NEW n \in 0 .. Len(q)
    PROVE  /\ SubSeq(q, 1, n) \in Seq(S) /\ Len(SubSeq(q, 1, n)) = n
           /\ \A k \in 1 .. n : SubSeq(q, 1, n)[k] = q[k]
           /\ SubSeq(q, n + 1, Len(q)) \in Seq(S) /\ Len(SubSeq(q, n + 1, Len(q))) = Len(q) - n
           /\ \A k \in 1 .. (Len(q) - n) : SubSeq(q, n + 1, Len(q))[k] = q[n + k]
           /\ Len(q) \in Nat
<1>1. Len(q) \in Nat
  OBVIOUS
<1>2. /\ SubSeq(q, 1, n) \in Seq(S) /\ Len(SubSeq(q, 1, n)) = IF 1 <= n THEN n - 1 + 1 ELSE 0
      /\ \A k \in 1 .. n - 1 + 1 : SubSeq(q, 1, n)[k] = q[1 + k - 1]
  BY <1>1, SubSeqProperties
<1>3. /\ SubSeq(q, n + 1, Len(q)) \in Seq(S)
      /\ Len(SubSeq(q, n + 1, Len(q))) = IF n + 1 <= Len(q) THEN Len(q) - (n + 1) + 1 ELSE 0
      /\ \A k \in 1 .. Len(q) - (n + 1) + 1 : SubSeq(q, n + 1, Len(q))[k] = q[(n + 1) + k - 1]
  BY <1>1, SubSeqProperties
<1>4. Len(SubSeq(q, 1, n)) = n /\ \A k \in 1 .. n : SubSeq(q, 1, n)[k] = q[k]
  <2>1. \A k \in 1 .. n : k \in 1 .. n - 1 + 1 /\ 1 + k - 1 = k
    OBVIOUS
  <2> QED  BY <1>2, <2>1
<1>5. /\ Len(SubSeq(q, n + 1, Len(q))) = Len(q) - n
      /\ \A k \in 1 .. (Len(q) - n) : SubSeq(q, n + 1, Len(q))[k] = q[n + k]
  <2>1. \A k \in 1 .. (Len(q) - n) : k \in 1 .. Len(q) - (n + 1) + 1 /\ (n + 1) + k - 1 = n + k
    BY <1>1
  <2> QED  BY <1>1, <1>3, <2>1
<1> QED  BY <1>1, <1>2, <1>3, <1>4, <1>5

(* The codec has not yet read two frames. *)
LEMMA MoreToRead ==
    ASSUME NEW c \in CallType, Counted(c),
           \/ c.phase["caller"] = "body"
           \/ c.phase["caller"] = "size" /\ Decodes(c, "caller")
    PROVE  /\ c.count["caller"] \in {0, 1}
           /\ Go("caller") => c.values["caller"] = <<>> /\ c.stage \in {"header", "reply"}
           /\ Go("caller") /\ c.stage = "header" => c.count["caller"] = 0
<1>1. PICK n \in Nat : n = c.count["caller"]
  BY Fields, TheSides
<1>2. CASE Go("caller")
  <2>1. c.values["caller"] = <<>> /\ c.stage \in {"header", "reply"}
    BY <1>2 DEF Counted, Decodes
  <2>2. Len(<<>>) = 0
    OBVIOUS
  <2>3. n <= 1 /\ (c.stage = "header" => n <= 0)
    BY <1>1, <1>2, <2>1, <2>2 DEF Counted
  <2> QED  BY <1>1, <1>2, <2>1, <2>3
<1>3. CASE ~Go("caller")
  <2>1. n <= 2 /\ n # 2
    BY <1>1, <1>3 DEF Counted
  <2> QED  BY <1>1, <1>3, <2>1
<1> QED  BY <1>2, <1>3

(* What a step of its codec leaves to the caller. *)
CodecMoves(c, d) ==
    /\ CallerSame(c, d) /\ ServerSame(c, d) /\ ChannelSame(c, d)

LEMMA MovesKeep ==
    ASSUME NEW c, NEW d, CodecMoves(c, d)
    PROVE  /\ Sent(d) = Sent(c) /\ (Leaving(d) <=> Leaving(c))
           /\ ReplyLength(d) = ReplyLength(c) /\ ReplyMessages(d) = ReplyMessages(c)
           /\ \A k : PartAt(d, k) = PartAt(c, k) /\ MessageAt(d, k) = MessageAt(c, k)
           /\ HeaderOf(d) = HeaderOf(c) /\ AnswerOf(d) = AnswerOf(c) /\ (CutOff(d) <=> CutOff(c))
           /\ (Empty(d) <=> Empty(c))
           /\ d.count["caller"] = c.count["caller"] => (TookEmpty(d) <=> TookEmpty(c))
           /\ (Unanswered(d) <=> Unanswered(c)) /\ (Returned(d) <=> Returned(c))
<1>1. /\ HeaderOf(d) = HeaderOf(c) /\ AnswerOf(d) = AnswerOf(c)
      /\ ReplyLength(d) = ReplyLength(c) /\ ReplyMessages(d) = ReplyMessages(c)
      /\ \A k : PartAt(d, k) = PartAt(c, k) /\ MessageAt(d, k) = MessageAt(c, k)
      /\ (CutOff(d) <=> CutOff(c)) /\ (Empty(d) <=> Empty(c))
      /\ d.count["caller"] = c.count["caller"] => (TookEmpty(d) <=> TookEmpty(c))
  BY SameReplyParts DEF CodecMoves, ServerSame
<1>2. Sent(d) = Sent(c)
  BY <1>1 DEF Sent, Unanswered, CodecMoves, ServerSame
<1> QED  BY <1>1, <1>2 DEF Leaving, Unanswered, Returned, CodecMoves, CallerSame, ServerSame

(* What has been read is the next of the reply, if what is left comes after it. *)
LEMMA ReadOn ==
    ASSUME NEW c, NEW d, CodecMoves(c, d), NEW e \in Nat, ReplySoFar(c, e),
           PartsOf(e) = Read(d) + Len(d.in["caller"]),
           \A n \in 1 .. Len(d.in["caller"]) : d.in["caller"][n] = PartAt(c, Read(d) + n)
    PROVE  ReplySoFar(d, e)
<1>1. /\ Sent(d) = Sent(c) /\ (Leaving(d) <=> Leaving(c))
      /\ ReplyLength(d) = ReplyLength(c) /\ ReplyMessages(d) = ReplyMessages(c)
      /\ \A k : PartAt(d, k) = PartAt(c, k) /\ MessageAt(d, k) = MessageAt(c, k)
  BY MovesKeep
<1>2. PICK a : a = c.out["responder"]
  OBVIOUS
<1> QED  BY <1>1, <1>2 DEF ReplySoFar, CodecMoves, ChannelSame

(* It reads a size, *)
LEMMA ReplySized ==
    ASSUME NEW c \in CallType, NEW d \in CallType, Impls, ReplyCarried(c),
           c.phase["caller"] = "size", c.in["caller"] # <<>>, Decodes(c, "caller"),
           NEW z \in Nat, Head(c.in["caller"]).part = "size" => z = Head(c.in["caller"]).size,
           SizeRead(c, d, "caller", z), CallerSame(c, d), ServerSame(c, d)
    PROVE  ReplyCarried(d)
<1>1. CodecMoves(c, d)
  BY DEF CodecMoves, SizeRead
<1>2. PICK p \in Seq(PartType) : p = c.in["caller"] /\ p # <<>>
  BY Fields, TheSides
<1>3. PICK q \in Seq(PartType) : /\ q = Tail(p) /\ Len(q) = Len(p) - 1 /\ Len(p) \in Nat \ {0}
                                 /\ \A n \in 1 .. Len(q) : q[n] = p[n + 1]
                                 /\ Head(p) = p[1]
  <2>1. /\ Tail(p) \in Seq(PartType) /\ Len(Tail(p)) = Len(p) - 1 /\ Len(p) \in Nat \ {0}
        /\ \A n \in 1 .. Len(Tail(p)) : Tail(p)[n] = p[n + 1]
        /\ Head(p) = p[1]
    BY <1>2, OneLess
  <2> QED  BY <2>1
<1>4. /\ d.in["caller"] = q /\ d.count = c.count /\ d.values = c.values
      /\ d.size["caller"] = z /\ d.phase["caller"] = "body"
  BY <1>2, <1>3, Fields, TheSides DEF SizeRead
<1>5. PICK n \in {0, 1} : n = c.count["caller"]
  BY MoreToRead DEF ReplyCarried
<1>6. /\ Go("caller") => c.values["caller"] = <<>> /\ c.stage \in {"header", "reply"}
      /\ Go("caller") /\ c.stage = "header" => c.count["caller"] = 0
  BY MoreToRead DEF ReplyCarried
<1>7. Read(c) = 2 * n /\ Read(d) = 2 * n + 1
  <2>1. Read(c) = 2 * n
    BY <1>5 DEF Read
  <2>2. Read(d) = 2 * n + 1
    BY <1>4, <1>5 DEF Read
  <2> QED  BY <2>1, <2>2
<1>8. /\ Sent(d) = Sent(c) /\ (Leaving(d) <=> Leaving(c))
      /\ ReplyLength(d) = ReplyLength(c) /\ ReplyMessages(d) = ReplyMessages(c)
      /\ \A k : PartAt(d, k) = PartAt(c, k) /\ MessageAt(d, k) = MessageAt(c, k)
      /\ HeaderOf(d) = HeaderOf(c) /\ AnswerOf(d) = AnswerOf(c) /\ (CutOff(d) <=> CutOff(c))
      /\ (Unanswered(d) <=> Unanswered(c)) /\ (Returned(d) <=> Returned(c))
  BY <1>1, MovesKeep
<1>9. ~TookEmpty(c) /\ ~TookEmpty(d) /\ (Lost(d) <=> Lost(c))
  <2>1. ~TookEmpty(c) /\ ~TookEmpty(d)
    BY <1>4, <1>5 DEF TookEmpty
  <2> QED  BY <1>1, <1>4, <2>1 DEF Lost, CodecMoves, CallerSame, ServerSame, ChannelSame
<1>10. ASSUME NEW e \in Nat, ReplySoFar(c, e)
       PROVE  ReplySoFar(d, e) /\ p[1] = PartAt(c, 2 * n + 1)
  <2>1. PartsOf(e) = 2 * n + Len(p) /\ \A k \in 1 .. Len(p) : p[k] = PartAt(c, 2 * n + k)
    BY <1>2, <1>7, <1>10 DEF ReplySoFar
  <2>2. p[1] = PartAt(c, 2 * n + 1)
    <3>1. 1 \in 1 .. Len(p)
      BY <1>3
    <3> QED  BY <2>1, <3>1
  <2>3. PartsOf(e) = (2 * n + 1) + Len(q)
    BY <1>3, <2>1
  <2>4. \A k \in 1 .. Len(q) : q[k] = PartAt(c, (2 * n + 1) + k)
    <3>1. ASSUME NEW k \in 1 .. Len(q)  PROVE q[k] = PartAt(c, (2 * n + 1) + k)
      <4>1. k + 1 \in 1 .. Len(p) /\ 2 * n + (k + 1) = (2 * n + 1) + k
        BY <1>3, <3>1
      <4>2. p[k + 1] = PartAt(c, 2 * n + (k + 1))
        BY <2>1, <4>1
      <4> QED  BY <1>3, <3>1, <4>1, <4>2
    <3> QED  BY <3>1
  <2>5. PartsOf(e) = Read(d) + Len(d.in["caller"])
    BY <1>4, <1>7, <2>3
  <2>6. \A k \in 1 .. Len(d.in["caller"]) : d.in["caller"][k] = PartAt(c, Read(d) + k)
    BY <1>4, <1>7, <2>4
  <2>7. ReplySoFar(d, e)
    BY <1>1, <1>10, <2>5, <2>6, ReadOn
  <2> QED  BY <2>2, <2>7
<1>11. Replying(d)
  BY <1>9, <1>10 DEF Replying, ReplyCarried
<1>12. ~Lost(c) => z = PartAt(c, 2 * n + 1).size
  <2>1. SUFFICES ASSUME ~Lost(c)  PROVE z = PartAt(c, 2 * n + 1).size
    OBVIOUS
  <2>2. p[1] = PartAt(c, 2 * n + 1)
    BY <1>10, <2>1 DEF Replying, ReplyCarried
  <2>3. PartAt(c, 2 * n + 1).part = "size"
    <3>1. 2 * n + 1 = 1 \/ 2 * n + 1 = 3
      OBVIOUS
    <3> QED  BY <3>1 DEF PartAt, SizePart, Part
  <2> QED  BY <1>2, <1>3, <2>2, <2>3
<1>13. Silent(d)
  BY DEF Silent, ReplyCarried, ServerSame, Unanswered
<1>14. Counted(d)
  BY <1>1, <1>4, <1>5, <1>6 DEF Counted, ReplyCarried, CodecMoves, CallerSame
<1>15. Decoding(d)
  <2>1. n < 2
    OBVIOUS
  <2>2. Returns(d.ran) = Returns(c.ran)
    BY <1>1 DEF CodecMoves, ServerSame
  <2>3. d.phase["caller"] = "body" /\ ~Lost(d) /\ Returns(d.ran) = 1 =>
            n < 2 /\ d.size["caller"] = PartAt(d, 2 * n + 1).size
    BY <1>4, <1>8, <1>9, <1>12, <2>1
  <2> QED  BY <1>1, <1>4, <1>5, <1>8, <1>9, <2>2, <2>3 DEF Decoding, ReplyCarried, CodecMoves, CallerSame
<1>16. AtLast(d)
  BY <1>1, <1>4, <1>9 DEF AtLast, ReplyCarried, CodecMoves, CallerSame, ServerSame, ChannelSame
<1>17. Unmarked(d)
  <2>1. NoMark(p) => NoMark(q)
    <3>1. \A k \in 1 .. Len(q) : k + 1 \in 1 .. Len(p)
      BY <1>3
    <3> QED  BY <1>3, <3>1 DEF NoMark
  <2> QED  BY <1>1, <1>2, <1>4, <1>8, <2>1
           DEF Unmarked, ReplyCarried, CodecMoves, CallerSame, ServerSame, ChannelSame
<1> QED  BY <1>11, <1>13, <1>14, <1>15, <1>16, <1>17 DEF ReplyCarried

(* or meets the end. *)
LEMMA ReplyEnded ==
    ASSUME NEW c \in CallType, NEW d \in CallType, Impls, ReplyCarried(c), Asking(c),
           c.gone["caller"], c.phase["caller"] \in {"size", "body"},
           Go("caller") => Decodes(c, "caller") /\ c.in["caller"] = <<>>,
           Go("caller") => ~(c.phase["caller"] = "body" /\ c.size["caller"] = 0),
           CallerSame(c, d), ServerSame(c, d),
           EndRead(c, d, "caller", IF Go("caller") THEN <<Plain("EOF")>> ELSE c.values["caller"],
                   IF Go("caller") THEN "size" ELSE "stopped")
    PROVE  ReplyCarried(d)
<1>1. CodecMoves(c, d)
  BY DEF CodecMoves, EndRead
<1>2. /\ d.in = c.in /\ d.count = c.count /\ d.size = c.size
      /\ Go("caller") => d.values["caller"] = <<Plain("EOF")>> /\ d.phase["caller"] = "size"
      /\ ~Go("caller") => d.values["caller"] = c.values["caller"] /\ d.phase["caller"] = "stopped"
  BY Fields, TheSides DEF EndRead
<1>3. d.gone["caller"]
  BY DEF EndRead, ChannelSame
<1>4. <<Plain("EOF")>> # <<>> /\ Failed(Head(<<Plain("EOF")>>)) /\ Len(<<Plain("EOF")>>) = 1
      /\ ~Plain("EOF").hijacked
  BY DEF Plain, Value, Failed
<1>5. /\ c.count["caller"] # 2 /\ ~TookEmpty(c) /\ ~TookEmpty(d)
      /\ Lost(d)
  <2>1. c.count["caller"] # 2
    <3>1. CASE Go("caller")
      BY <3>1, MoreToRead DEF ReplyCarried
    <3>2. CASE ~Go("caller")
      BY <3>2 DEF ReplyCarried, Counted
    <3> QED  BY <3>1, <3>2
  <2>2. ~TookEmpty(c) /\ ~TookEmpty(d)
    BY <1>2, <2>1 DEF TookEmpty
  <2> QED  BY <1>2, <1>3, <1>4, <2>1, <2>2 DEF Lost
<1>6. Replying(d)
  BY <1>5 DEF Replying
<1>7. /\ HeaderOf(d) = HeaderOf(c) /\ AnswerOf(d) = AnswerOf(c) /\ (CutOff(d) <=> CutOff(c))
      /\ (Unanswered(d) <=> Unanswered(c)) /\ (Returned(d) <=> Returned(c))
  BY <1>1, MovesKeep
<1>8. Silent(d)
  BY <1>1, <1>2, <1>7 DEF Silent, ReplyCarried, CodecMoves, CallerSame, ServerSame, ChannelSame
<1>9. Go("caller") => /\ c.count["caller"] \in {0, 1} /\ c.stage \in {"header", "reply"}
                      /\ c.values["caller"] = <<>>
                      /\ c.stage = "header" => c.count["caller"] = 0
  BY MoreToRead DEF ReplyCarried
<1>10. Counted(d)
  <2>1. CASE Go("caller")
    <3>1. PICK n \in {0, 1} : n = d.count["caller"] /\ (d.stage = "header" => n = 0)
      BY <1>1, <1>2, <1>9, <2>1 DEF CodecMoves, CallerSame
    <3>2. d.stage \in {"header", "reply"} /\ Len(d.values["caller"]) = 1 /\ d.phase["caller"] = "size"
      BY <1>1, <1>2, <1>4, <1>9, <2>1 DEF CodecMoves, CallerSame
    <3> QED  BY <2>1, <3>1, <3>2 DEF Counted
  <2>2. CASE ~Go("caller")
    BY <1>2, <2>2 DEF Counted, ReplyCarried
  <2> QED  BY <2>1, <2>2
<1>11. Go("caller") /\ Returns(c.ran) = 1 => ended["caller"]
  <2>1. SUFFICES ASSUME Go("caller"), Returns(c.ran) = 1, ~ended["caller"]  PROVE FALSE
    OBVIOUS
  <2>2. ~Lost(c) /\ ~Leaving(c)
    BY <1>5, <1>9, <2>1 DEF Lost, Asking, Leaving
  <2>3. PICK e \in Nat : ReplySoFar(c, e)
    BY <2>2 DEF ReplyCarried, Replying
  <2>4. PICK l \in 2 .. 4 : l = ReplyMessages(c) /\ (~Go("responder") => l \in 3 .. 4)
                            /\ (Go("responder") => l \in 2 .. 3)
    <3>1. /\ ReplyLength(c) \in {3, 4, 5} /\ (ReplyLength(c) = 5 => Go("responder"))
          /\ (ReplyLength(c) = 3 => ~Go("responder"))
          /\ ReplyMessages(c) = IF Go("responder") THEN ReplyLength(c) - 2 ELSE ReplyLength(c)
      BY Fields, ReplyParts
    <3> QED  BY <3>1
  <2>5. e >= l
    BY <2>1, <2>2, <2>3, <2>4 DEF ReplySoFar
  <2>6. PartsOf(e) >= l /\ PartsOf(e) >= 3 /\ PartsOf(e) \in Nat
        /\ (Go("responder") => PartsOf(e) >= 4)
    BY <2>4, <2>5 DEF PartsOf
  <2>7. Read(c) <= 3 /\ Read(c) \in Nat
        /\ (Read(c) = 3 => c.phase["caller"] = "body" /\ c.count["caller"] = 1)
    BY <1>9, <2>1 DEF Read
  <2>8. PartsOf(e) = Read(c) + 0
    BY <2>1, <2>3 DEF ReplySoFar
  <2>9. Read(c) = 3 /\ l = 3 /\ ~Go("responder")
    BY <2>4, <2>6, <2>7, <2>8
  <2>10. c.size["caller"] = PartAt(c, 3).size
    <3>1. /\ c.phase["caller"] = "body" /\ c.count["caller"] = 1
          /\ c.size["caller"] = PartAt(c, 2 * c.count["caller"] + 1).size
      BY <2>1, <2>2, <2>7, <2>9 DEF ReplyCarried, Decoding
    <3>2. 2 * 1 + 1 = 3
      OBVIOUS
    <3> QED  BY <3>1, <3>2
  <2>11. PartAt(c, 3).size = 0
    <3>1. ReplyMessages(c) = ReplyLength(c)
      BY <2>9, Fields, ReplyParts
    <3>2. ReplyMessages(c) = 3
      BY <2>4, <2>9, Zenon
    <3>3. ReplyLength(c) = 3
      BY <3>1, <3>2, Zenon
    <3>4. ReplyLength(c) - 3 = 0
      BY <3>3
    <3> QED  BY <3>4 DEF PartAt, SizePart, Part
  <2> QED  BY <2>1, <2>7, <2>9, <2>10, <2>11
<1>12. Decoding(d)
  <2>1. CASE Go("caller")
    <3>1. d.phase["caller"] # "body" /\ d.stage \in {"header", "reply"}
      BY <1>1, <1>2, <1>9, <2>1 DEF CodecMoves, CallerSame
    <3>2. Returns(d.ran) = 1 => ended["caller"]
      BY <1>1, <1>11, <2>1 DEF CodecMoves, ServerSame
    <3>3. d.count["caller"] < 2
      BY <1>2, <1>9, <2>1
    <3>4. d.values["caller"] = <<Plain("EOF")>>
      BY <1>2, <2>1
    <3> QED  BY <2>1, <3>1, <3>2, <3>3, <3>4 DEF Decoding
  <2>2. CASE ~Go("caller")
    BY <1>1, <1>2, <1>5, <1>7, <2>2 DEF Decoding, ReplyCarried, CodecMoves, CallerSame, ServerSame
  <2> QED  BY <2>1, <2>2
<1>13. AtLast(d)
  BY <1>2, <1>3 DEF AtLast
<1>14. Unmarked(d)
  <2>1. \A n \in 1 .. 1 : n = 1
    OBVIOUS
  <2>2. Go("caller") => \A n \in 1 .. Len(d.values["caller"]) : ~d.values["caller"][n].hijacked
    <3>1. <<Plain("EOF")>>[1] = Plain("EOF")
      OBVIOUS
    <3> QED  BY <1>2, <1>4, <2>1, <3>1
  <2> QED  BY <1>1, <1>2, <1>7, <2>2
           DEF Unmarked, ReplyCarried, CodecMoves, CallerSame, ServerSame, ChannelSame
<1> QED  BY <1>6, <1>8, <1>10, <1>12, <1>13, <1>14 DEF ReplyCarried

(* A value that the caller's codec decodes, and what becomes of it. *)
BodyIn(c, v) ==
    /\ c.phase["caller"] = "body" /\ BodyHere(c, "caller")
    /\ Taken(c, "caller") \in 0 .. Len(c.in["caller"])
    /\ v \in Decodings("caller", SubSeq(c.in["caller"], 1, Taken(c, "caller")), c.size["caller"])

AfterBody(c, v, values, phase) ==
    IF v.kind = "throws" /\ ~Go("caller")
    THEN values = c.values["caller"] /\ phase = "stopped"
    ELSE /\ values = Append(c.values["caller"], v)
         /\ phase = IF ~Go("caller") /\ c.count["caller"] + 1 = 2 THEN "stopped" ELSE "size"

(* A whole body, in Go the first part of one that spans data messages, or none *)
(* in a frame that is empty.                                                    *)
NextOf(c, v) ==
    LET n == c.count["caller"] IN
    \/ /\ Taken(c, "caller") = IF n = 0 THEN 1 ELSE ReplyLength(c) - 3
       /\ v = IF n = 0 THEN HeaderOf(c) ELSE AnswerOf(c)
    \/ Go("caller") /\ n = 1 /\ v = Plain("throws") /\ CutOff(c)
    \/ /\ Empty(c) /\ n = 1
       /\ IF Go("caller") THEN Taken(c, "caller") = 0 /\ v = Plain("EOF")
          ELSE v \in {Plain("throws"), Plain("junk")}

LEMMA NextBody ==
    ASSUME NEW c \in CallType, Impls, ReplyCarried(c), ~Lost(c), NEW v, BodyIn(c, v)
    PROVE  NextOf(c, v)
<1>1. PICK p : p = c.in["caller"]
  OBVIOUS
<1>2. PICK t : t = Taken(c, "caller")
  OBVIOUS
<1>3. PICK n \in {0, 1} : n = c.count["caller"]
  <2>1. c.count["caller"] \in {0, 1}
    BY MoreToRead DEF ReplyCarried, BodyIn
  <2> QED  BY <2>1
<1>4. /\ c.phase["caller"] = "body" /\ BodyHere(c, "caller")
       /\ v \in Decodings("caller", SubSeq(p, 1, t), c.size["caller"])
  BY <1>1, <1>2 DEF BodyIn
<1>5. p \in Seq(PartType) /\ Len(p) \in Nat
  BY <1>1, Fields, TheSides
<1>6. PICK l \in {3, 4, 5} : /\ l = ReplyLength(c) /\ (l = 3 <=> Empty(c))
                             /\ l = 5 => Go("responder") /\ setting.big /\ c.ran \in {"value", "hijack"}
  <2>1. /\ ReplyLength(c) \in {3, 4, 5} /\ (ReplyLength(c) = 5 => Go("responder"))
        /\ ReplyLength(c) = 5 => setting.big /\ c.ran \in {"value", "hijack"}
        /\ ReplyLength(c) = 3 <=> Empty(c)
    BY Fields, ReplyParts
  <2> QED  BY <2>1
<1>7. PICK z \in Nat : z = IF n = 0 THEN 1 ELSE l - 3
  <2>1. l - 3 \in Nat
    OBVIOUS
  <2> QED  BY <2>1
<1>8. /\ c.size["caller"] = z /\ z \in {0, 1, 2} /\ (z = 2 => n = 1 /\ l = 5)
      /\ z = 0 => n = 1 /\ l = 3
  <2>1. c.size["caller"] = PartAt(c, 2 * n + 1).size
    BY <1>3, <1>4 DEF ReplyCarried, Decoding, Lost
  <2>2. CASE n = 0
    <3>1. PartAt(c, 1) = SizePart(1)
      BY DEF PartAt
    <3>2. PartAt(c, 1).size = 1
      BY <3>1 DEF SizePart, Part
    <3>3. 2 * n + 1 = 1
      BY <2>2
    <3> QED  BY <1>7, <2>1, <2>2, <3>2, <3>3
  <2>3. CASE n = 1
    <3>1. PartAt(c, 3) = SizePart(ReplyLength(c) - 3)
      BY DEF PartAt
    <3>2. PartAt(c, 3).size = ReplyLength(c) - 3
      BY <3>1 DEF SizePart, Part
    <3>3. 2 * n + 1 = 3
      BY <2>3
    <3> QED  BY <1>6, <1>7, <2>1, <2>3, <3>2, <3>3
  <2> QED  BY <2>2, <2>3
<1>9. PICK e \in Nat : ReplySoFar(c, e)
  BY DEF ReplyCarried, Replying
<1>10. \A k \in 1 .. Len(p) : p[k] = PartAt(c, (2 * n + 1) + k)
  <2>1. Read(c) = 2 * n + 1
    BY <1>3, <1>4 DEF Read
  <2> QED  BY <1>9, <1>1, <2>1 DEF ReplySoFar
<1>11. CASE Go("caller") /\ z > Len(p)
  <2>1. p # <<>>
    <3>1. z # 0
      BY <1>5, <1>8, <1>11
    <3> QED  BY <1>8, <1>11, <1>1, <1>4, <3>1 DEF BodyHere
  <2>2. Len(p) = 1 /\ z = 2 /\ n = 1 /\ l = 5
    <3>1. Len(p) # 0
      BY <1>5, <2>1
    <3>2. PICK k \in Nat : k = Len(p) /\ k # 0 /\ k < z
      <4>1. Len(p) \in Nat /\ Len(p) < z
        BY <1>5, <1>7, <1>11
      <4> QED  BY <3>1, <4>1
    <3>3. z = 2 /\ k = 1
      BY <1>8, <3>2
    <3> QED  BY <1>8, <3>2, <3>3
  <2>3. t = 1
    <3>1. setting.impl["caller"] # "rpc"
      BY <1>11 DEF Go
    <3> QED  BY <1>8, <1>11, <1>1, <1>2, <2>2, <3>1 DEF Taken
  <2>4. PICK q : q = SubSeq(p, 1, t)
    OBVIOUS
  <2>5. Len(q) = 1
    <3>1. Len(SubSeq(p, 1, 1)) = 1
      BY <1>5, <2>1, FirstOne
    <3> QED  BY <2>3, <2>4, <3>1
  <2>6. ~Whole(q, 2)
    BY <2>5 DEF Whole
  <2>7. v = Plain("throws")
    <3>1. v \in Decodings("caller", q, 2)
      BY <1>8, <1>4, <2>2, <2>4
    <3> QED  BY <1>11, <2>6, <3>1 DEF Decodings
  <2>8. CutOff(c)
    BY <1>6, <1>11, <2>2 DEF CutOff
  <2> QED  BY <1>11, <1>3, <2>2, <2>7, <2>8 DEF NextOf
<1>12. CASE z # 0 /\ ~(Go("caller") /\ z > Len(p))
  <2>1. t = z
    BY <1>5, <1>8, <1>12, <1>1, <1>2 DEF Taken
  <2>2. z <= Len(p)
    BY <1>5, <1>8, <1>12, <1>1, <1>2, <1>4, <2>1 DEF BodyHere
  <2>3. PICK q \in Seq(PartType) : /\ q = SubSeq(p, 1, t) /\ Len(q) = z
                                   /\ \A k \in 1 .. z : q[k] = p[k]
    <3>1. z \in 0 .. Len(p)
      BY <1>5, <1>8, <2>2
    <3>2. /\ SubSeq(p, 1, z) \in Seq(PartType) /\ Len(SubSeq(p, 1, z)) = z
          /\ \A k \in 1 .. z : SubSeq(p, 1, z)[k] = p[k]
      BY <1>5, <3>1, SplitAt
    <3> QED  BY <2>1, <3>2
  <2>4. PICK x \in ValueType : x = IF n = 0 THEN HeaderOf(c) ELSE AnswerOf(c)
    <3>1. HeaderOf(c) \in ValueType /\ AnswerOf(c) \in ValueType
      BY Fields, ReplyParts
    <3> QED  BY <3>1
  <2>5. q[1] = BodyPart(x)
    <3>1. 1 \in 1 .. z /\ 1 \in 1 .. Len(p)
      BY <1>5, <1>8, <1>12, <2>2
    <3>2. q[1] = PartAt(c, (2 * n + 1) + 1)
      BY <1>10, <2>3, <3>1
    <3>3. CASE n = 0
      <4>1. (2 * n + 1) + 1 = 2
        BY <3>3
      <4>2. PartAt(c, 2) = BodyPart(HeaderOf(c))
        BY DEF PartAt
      <4> QED  BY <2>4, <3>2, <3>3, <4>1, <4>2
    <3>4. CASE n = 1
      <4>1. (2 * n + 1) + 1 = 4
        BY <3>4
      <4>2. PartAt(c, 4) = BodyPart(AnswerOf(c))
        <5>1. l > 3
          BY <1>7, <1>12, <3>4
        <5> QED  BY <1>6, <5>1 DEF PartAt
      <4> QED  BY <2>4, <3>2, <3>4, <4>1, <4>2
    <3> QED  BY <3>3, <3>4
  <2>6. z = 2 => q[2] = MorePart
    <3>1. SUFFICES ASSUME z = 2  PROVE q[2] = MorePart
      OBVIOUS
    <3>2. 2 \in 1 .. z /\ 2 \in 1 .. Len(p) /\ n = 1 /\ l = 5
      BY <1>5, <1>8, <2>2, <3>1
    <3>3. (2 * n + 1) + 2 = 5
      BY <3>2
    <3>4. q[2] = PartAt(c, 5)
      BY <1>10, <2>3, <3>2, <3>3
    <3>5. PartAt(c, 5) = MorePart
      BY <1>6, <3>2 DEF PartAt
    <3> QED  BY <3>4, <3>5
  <2>7. q # <<>>
    <3>1. Len(<<>>) = 0 /\ Len(q) # 0
      BY <1>8, <1>12, <2>3
    <3> QED  BY <3>1
  <2>8. Whole(q, z)
    <3>1. q # <<>>
      BY <2>7
    <3>2. q[1].part = "body"
      BY <2>5 DEF BodyPart, Part
    <3>3. MorePart.part = "more"
      BY DEF MorePart, Part
    <3>4. \A k \in 2 .. Len(q) : q[k].part = "more"
      <4>1. \A k \in 2 .. Len(q) : k = 2 /\ z = 2
        BY <1>8, <2>3
      <4> QED  BY <2>6, <3>3, <4>1
    <3> QED  BY <2>3, <3>1, <3>2, <3>4 DEF Whole
  <2>9. v = x
    <3>1. v \in Decodings("caller", q, z)
      BY <1>8, <1>4, <2>3
    <3>2. q[1].value = x
      BY <2>5 DEF BodyPart, Part
    <3> QED  BY <2>8, <2>7, <3>1, <3>2 DEF Decodings
  <2> QED  BY <1>6, <1>7, <1>2, <1>3, <2>1, <2>4, <2>9 DEF NextOf
<1>13. CASE z = 0
  <2>1. Empty(c) /\ n = 1
    BY <1>6, <1>8, <1>13
  <2>2. CASE Go("caller")
    <3>1. setting.impl["caller"] # "rpc" /\ ~(0 > Len(p))
      BY <1>5, <2>2 DEF Go
    <3>2. t = 0
      BY <1>1, <1>2, <1>8, <1>13, <2>2, <3>1 DEF Taken
    <3>3. SubSeq(p, 1, t) = <<>>
      <4>1. SubSeq(p, 1, 0) \in Seq(PartType) /\ Len(SubSeq(p, 1, 0)) = 0
        BY <1>5, SplitAt
      <4>2. SubSeq(p, 1, 0) = <<>>
        BY <4>1
      <4> QED  BY <3>2, <4>2
    <3>4. v = Plain("EOF")
      <4>1. PICK q : q = SubSeq(p, 1, t) /\ v \in Decodings("caller", q, 0)
        BY <1>4, <1>8, <1>13
      <4>2. ~Whole(q, 0)
        BY <3>3, <4>1 DEF Whole
      <4>3. v \in {Plain(IF 0 = 0 THEN "EOF" ELSE "throws")}
        BY <2>2, <3>1, <4>1, <4>2 DEF Decodings
      <4> QED  BY <4>3
    <3> QED  BY <1>2, <1>3, <2>1, <2>2, <3>2, <3>4 DEF NextOf
  <2>3. CASE ~Go("caller")
    <3>1. PICK q : q = SubSeq(p, 1, t)
      OBVIOUS
    <3>2. v \in Decodings("caller", q, 0)
      BY <1>4, <1>8, <1>13, <3>1
    <3>3. ~Whole(q, 0)
      <4>1. SUFFICES ASSUME q # <<>>, Len(q) = 0  PROVE FALSE
        BY DEF Whole
      <4>2. t \in 0 .. Len(p)
        BY <1>1, <1>2 DEF BodyIn
      <4>3. q \in Seq(PartType)
        BY <1>5, <3>1, <4>2, SplitAt
      <4> QED  BY <4>1, <4>3
    <3>4. v \in {Plain("throws"), Plain("junk")}
      BY <2>3, <3>2, <3>3 DEF Decodings
    <3> QED  BY <1>3, <2>1, <2>3, <3>4 DEF NextOf
  <2> QED  BY <2>2, <2>3
<1> QED  BY <1>11, <1>12, <1>13

(* It reads a body: a value is added, or in JavaScript what it throws ends the readLoop. *)
LEMMA OneThenOne ==
    ASSUME NEW S, NEW x \in S, NEW y \in S
    PROVE  Append(<<x>>, y) = <<x, y>>
<1>1. <<x>> \in Seq(S) /\ Len(<<x>>) = 1 /\ <<x>>[1] = x
  OBVIOUS
<1>2. PICK p \in Seq(S) : p = <<x>>
  BY <1>1
<1>3. PICK q : q = Append(p, y)
  OBVIOUS
<1>4. p \in Seq(S) /\ Len(p) = 1 /\ p[1] = x
  BY <1>1, <1>2
<1>5. q \in Seq(S) /\ Len(q) = 2 /\ q[1] = x /\ q[2] = y
  <2>1. /\ Append(p, y) \in Seq(S) /\ Len(Append(p, y)) = Len(p) + 1
        /\ Append(p, y)[Len(p) + 1] = y
        /\ \A n \in 1 .. Len(p) : Append(p, y)[n] = p[n]
    BY OneMore
  <2> QED  BY <1>3, <1>4, <2>1
<1>6. <<x, y>> \in Seq(S) /\ Len(<<x, y>>) = 2 /\ <<x, y>>[1] = x /\ <<x, y>>[2] = y
  OBVIOUS
<1>7. \A k \in 1 .. 2 : q[k] = <<x, y>>[k]
  BY <1>5, <1>6
<1>8. q = <<x, y>>
  BY <1>5, <1>6, <1>7, SeqEqual
<1> QED  BY <1>2, <1>3, <1>8

LEMMA ReplyBody ==
    ASSUME NEW c \in CallType, NEW d \in CallType, Impls, ReplyCarried(c), Asking(c), Noted(c),
           NEW v \in ValueType, BodyIn(c, v), NEW values, NEW phase, AfterBody(c, v, values, phase),
           BodyRead(c, d, "caller", Taken(c, "caller"), values, phase),
           CallerSame(c, d), ServerSame(c, d)
    PROVE  ReplyCarried(d)
<1>1. /\ c.phase["caller"] = "body" /\ BodyHere(c, "caller")
       /\ Taken(c, "caller") \in 0 .. Len(c.in["caller"])
       /\ v \in Decodings("caller", SubSeq(c.in["caller"], 1, Taken(c, "caller")), c.size["caller"])
  BY DEF BodyIn
<1>2. CodecMoves(c, d)
  BY DEF CodecMoves, BodyRead
<1>3. PICK p \in Seq(PartType) : p = c.in["caller"] /\ Len(p) \in Nat
  BY Fields, TheSides
<1>4. PICK t \in 0 .. Len(p) : t = Taken(c, "caller")
  BY <1>3, <1>1
<1>5. PICK q \in Seq(PartType) : /\ q = SubSeq(p, t + 1, Len(p)) /\ Len(q) = Len(p) - t
                                 /\ \A k \in 1 .. (Len(p) - t) : q[k] = p[t + k]
  <2>1. /\ SubSeq(p, t + 1, Len(p)) \in Seq(PartType)
        /\ Len(SubSeq(p, t + 1, Len(p))) = Len(p) - t
        /\ \A k \in 1 .. (Len(p) - t) : SubSeq(p, t + 1, Len(p))[k] = p[t + k]
    BY <1>3, SplitAt
  <2> QED  BY <2>1
<1>6. PICK n \in {0, 1} : n = c.count["caller"]
  <2>1. c.count["caller"] \in {0, 1}
    BY <1>1, MoreToRead DEF ReplyCarried
  <2> QED  BY <2>1
<1>7. /\ d.in["caller"] = q /\ d.count["caller"] = n + 1 /\ d.values["caller"] = values
      /\ d.size = c.size /\ d.phase["caller"] = phase
  <2>1. d.in["caller"] = SubSeq(c.in["caller"], Taken(c, "caller") + 1, Len(c.in["caller"]))
    <3>1. c.in \in [Sides -> Seq(PartType)] /\ "caller" \in Sides
      BY Fields, TheSides
    <3>2. d.in = [c.in EXCEPT !["caller"] =
                    SubSeq(c.in["caller"], Taken(c, "caller") + 1, Len(c.in["caller"]))]
      BY DEF BodyRead
    <3> QED  BY <3>1, <3>2
  <2>2. d.count["caller"] = c.count["caller"] + 1
    BY Fields, TheSides DEF BodyRead
  <2>3. d.values["caller"] = values /\ d.phase["caller"] = phase /\ d.size = c.size
    BY Fields, TheSides DEF BodyRead
  <2>4. d.in["caller"] = q
    BY <1>3, <1>4, <1>5, <2>1
  <2>5. d.count["caller"] = n + 1
    BY <1>6, <2>2
  <2> QED  BY <2>3, <2>4, <2>5
<1>8. /\ Go("caller") => c.values["caller"] = <<>> /\ c.stage \in {"header", "reply"}
      /\ Go("caller") /\ c.stage = "header" => n = 0
  BY <1>6, <1>1, MoreToRead DEF ReplyCarried
<1>9. phase \in {"size", "stopped"} /\ (Go("caller") => phase = "size")
      /\ (~Go("caller") /\ n = 1 => phase = "stopped")
  <2>1. n + 1 = 2 <=> n = 1
    OBVIOUS
  <2> QED  BY <1>6, <2>1 DEF AfterBody
<1>10. /\ Sent(d) = Sent(c) /\ (Leaving(d) <=> Leaving(c))
      /\ ReplyLength(d) = ReplyLength(c) /\ ReplyMessages(d) = ReplyMessages(c)
      /\ \A k : PartAt(d, k) = PartAt(c, k) /\ MessageAt(d, k) = MessageAt(c, k)
      /\ HeaderOf(d) = HeaderOf(c) /\ AnswerOf(d) = AnswerOf(c) /\ (CutOff(d) <=> CutOff(c))
      /\ (Unanswered(d) <=> Unanswered(c)) /\ (Returned(d) <=> Returned(c))
  BY <1>2, MovesKeep
<1>11. PICK old \in Seq(ValueType) : old = c.values["caller"]
  BY Fields, TheSides
<1>12. \/ values = Append(old, v) /\ (v.kind # "throws" \/ Go("caller"))
       \/ values = old /\ v.kind = "throws" /\ ~Go("caller")
  BY <1>11 DEF AfterBody
<1>13. /\ values \in Seq(ValueType)
       /\ old # <<>> => values # <<>> /\ Head(values) = Head(old)
       /\ \A k \in 1 .. Len(values) : (k \in 1 .. Len(old) /\ values[k] = old[k]) \/ values[k] = v
       /\ old = <<>> /\ values # old => values = <<v>>
  <2>1. CASE values = old
    BY <2>1
  <2>2. CASE values # old
    <3>1. values = Append(old, v)
      BY <1>12, <2>2
    <3>2. /\ Append(old, v) \in Seq(ValueType) /\ Len(Append(old, v)) = Len(old) + 1
          /\ Append(old, v)[Len(old) + 1] = v
          /\ \A k \in 1 .. Len(old) : Append(old, v)[k] = old[k]
          /\ Len(old) \in Nat
      BY OneMore
    <3>3. old # <<>> => values # <<>> /\ Head(values) = Head(old)
      <4>1. SUFFICES ASSUME old # <<>>  PROVE values # <<>> /\ Head(values) = Head(old)
        OBVIOUS
      <4>2. Len(old) # 0 /\ 1 \in 1 .. Len(old) /\ Head(old) = old[1]
        BY <4>1
      <4>3. Len(values) # 0 /\ values[1] = old[1] /\ values \in Seq(ValueType)
        BY <3>1, <3>2, <4>2
      <4>4. values # <<>> /\ Head(values) = values[1]
        BY <4>3
      <4> QED  BY <4>2, <4>3, <4>4
    <3>4. \A k \in 1 .. Len(values) : (k \in 1 .. Len(old) /\ values[k] = old[k]) \/ values[k] = v
      <4>1. \A k \in 1 .. Len(values) : k \in 1 .. Len(old) \/ k = Len(old) + 1
        BY <3>1, <3>2
      <4> QED  BY <3>1, <3>2, <4>1
    <3>5. old = <<>> => values = <<v>>
      BY <3>1
    <3> QED  BY <3>1, <3>2, <3>3, <3>4, <3>5
  <2> QED  BY <2>1, <2>2
<1>14. /\ ~TookEmpty(c) /\ (TookEmpty(d) <=> Empty(c) /\ n = 1)
       /\ ReplyLength(c) = 3 <=> Empty(c)
       /\ CutOff(c) => ~Empty(c)
  <2>1. Empty(d) <=> Empty(c)
    BY <1>2, MovesKeep
  <2>2. n # 2 /\ (n + 1 = 2 <=> n = 1)
    OBVIOUS
  <2>3. /\ ReplyLength(c) = 3 <=> Empty(c)
        /\ Empty(c) => ~Go("responder")
    BY Fields, ReplyParts
  <2> QED  BY <1>6, <1>7, <2>1, <2>2, <2>3 DEF TookEmpty, CutOff
<1>15. Lost(c) => Lost(d)
  <2>1. SUFFICES ASSUME Lost(c), ~Lost(d)  PROVE FALSE
    OBVIOUS
  <2>2. CASE ~TookEmpty(d)
    BY <1>2, <1>7, <1>11, <1>13, <1>14, <2>1, <2>2
       DEF Lost, CodecMoves, CallerSame, ServerSame, ChannelSame
  <2>3. CASE TookEmpty(d)
    <3>1. Go("caller")
      BY <2>1, <2>3 DEF Lost
    <3>2. c.values["caller"] = <<>> /\ c.reply = "none"
      BY <1>8, <3>1 DEF Asking
    <3>3. Returns(c.ran) # 1 \/ c.stage = "failed"
      BY <2>1, <3>1, <3>2 DEF Lost
    <3> QED  BY <1>2, <2>1, <3>3 DEF Lost, CodecMoves, CallerSame, ServerSame
  <2> QED  BY <2>2, <2>3
<1>16. \/ Lost(c)
       \/ /\ t = IF n = 0 THEN 1 ELSE ReplyLength(c) - 3
          /\ v = IF n = 0 THEN HeaderOf(c) ELSE AnswerOf(c)
       \/ Go("caller") /\ n = 1 /\ v = Plain("throws") /\ CutOff(c)
       \/ Empty(c) /\ n = 1 /\ Go("caller") /\ t = 0 /\ v = Plain("EOF")
       \/ Empty(c) /\ n = 1 /\ ~Go("caller") /\ v \in {Plain("throws"), Plain("junk")}
  <2>1. Lost(c) \/ NextOf(c, v)
    BY NextBody
  <2> QED  BY <1>4, <1>6, <2>1 DEF NextOf
<1>17. Lost(d) \/ (~Lost(c) /\ t = IF n = 0 THEN 1 ELSE ReplyLength(c) - 3)
  <2>1. SUFFICES ASSUME ~Lost(d)
                 PROVE  ~Lost(c) /\ t = IF n = 0 THEN 1 ELSE ReplyLength(c) - 3
    OBVIOUS
  <2>2. ~Lost(c)
    BY <1>15, <2>1
  <2>3. ~(Go("caller") /\ n = 1 /\ v = Plain("throws") /\ CutOff(c))
    <3>1. SUFFICES ASSUME Go("caller"), v = Plain("throws"), CutOff(c)  PROVE FALSE
      OBVIOUS
    <3>2. values = Append(old, v) /\ old = <<>>
      BY <1>8, <1>11, <1>12, <3>1
    <3>3. values = <<v>>
      BY <3>2
    <3>4. values # <<>> /\ Head(values) = v
      BY <3>3
    <3>5. Failed(v)
      BY <3>1 DEF Failed, Plain, Value
    <3> QED  BY <1>7, <1>14, <2>1, <3>1, <3>4, <3>5 DEF Lost
  <2>4. ~(Empty(c) /\ n = 1 /\ ~Go("caller"))
    BY <1>14, <2>1 DEF Lost
  <2>5. Empty(c) /\ n = 1 /\ t = 0 => t = IF n = 0 THEN 1 ELSE ReplyLength(c) - 3
    <3>1. SUFFICES ASSUME Empty(c), n = 1, t = 0  PROVE t = ReplyLength(c) - 3
      OBVIOUS
    <3>2. ReplyLength(c) = 3
      BY <1>14, <3>1
    <3> QED  BY <3>1, <3>2
  <2> QED  BY <1>16, <2>2, <2>3, <2>4, <2>5
<1>18. Read(c) = 2 * n + 1
  BY <1>6, <1>1 DEF Read
<1>19. ~Lost(d) => c.got = <<>>
  <2>1. SUFFICES ASSUME ~Lost(d), c.got # <<>>  PROVE FALSE
    OBVIOUS
  <2>2. c.stage = "returned" /\ Returns(c.ran) = 1 /\ c.reply # "EOF"
    <3>1. c.stage = "returned"
      BY <2>1 DEF Asking
    <3>2. ~Go("caller")
      BY <1>8, <3>1
    <3> QED  BY <1>2, <2>1, <3>1, <3>2 DEF Lost, CodecMoves, CallerSame, ServerSame
  <2>3. c.count["caller"] = 2
    BY <2>2 DEF ReplyCarried, Decoding
  <2> QED  BY <1>6, <2>3
<1>20. ~Lost(d) => Read(d) = (2 * n + 1) + t
  <2>1. SUFFICES ASSUME ~Lost(d)  PROVE Read(d) = (2 * n + 1) + t
    OBVIOUS
  <2>2. Len(d.got) = 0
    BY <1>2, <1>19, <2>1 DEF CodecMoves, CallerSame
  <2>3. PICK l \in {3, 4, 5} : l = ReplyLength(c)
    <3>1. ReplyLength(c) \in {3, 4, 5}
      BY Fields, ReplyParts
    <3> QED  BY <3>1
  <2>4. CASE n = 0
    <3>1. Read(d) = 2 * 1
      BY <1>7, <1>9, <2>4 DEF Read
    <3> QED  BY <1>17, <2>1, <2>4, <3>1
  <2>5. CASE n = 1
    <3>1. d.phase["caller"] # "body" /\ d.count["caller"] = 2
      BY <1>7, <1>9, <2>5
    <3>2. Read(d) = l + 0
      BY <1>10, <2>2, <2>3, <3>1 DEF Read
    <3>3. t = l - 3
      BY <1>17, <2>1, <2>3, <2>5
    <3> QED  BY <2>5, <3>2, <3>3
  <2> QED  BY <2>4, <2>5
<1>21. ASSUME NEW e \in Nat, ReplySoFar(c, e), ~Lost(d)  PROVE ReplySoFar(d, e)
  <2>1. PartsOf(e) = (2 * n + 1) + Len(p) /\ \A k \in 1 .. Len(p) : p[k] = PartAt(c, (2 * n + 1) + k)
    BY <1>3, <1>18, <1>21 DEF ReplySoFar
  <2>2. PICK r \in Nat : r = (2 * n + 1) + t /\ r = Read(d)
    <3>1. (2 * n + 1) + t \in Nat
      <4>1. t \in Nat /\ 2 * n + 1 \in Nat
        BY <1>3, <1>4
      <4> QED  BY <4>1
    <3> QED  BY <1>20, <1>21, <3>1
  <2>3. PartsOf(e) = r + Len(q)
    <3>1. Len(p) \in Nat /\ Len(p) = t + Len(q) /\ t \in Nat /\ Len(q) \in Nat
      <4>1. Len(p) \in Nat /\ t \in 0 .. Len(p)
        BY <1>3, <1>4
      <4>2. Len(q) = Len(p) - t
        BY <1>5
      <4> QED  BY <4>1, <4>2
    <3>2. PICK z \in Nat : z = Len(p) /\ z = t + Len(q) /\ t \in Nat /\ Len(q) \in Nat
      BY <3>1
    <3>3. PICK w \in Nat : w = 2 * n + 1
      <4>1. 2 * n + 1 \in Nat
        OBVIOUS
      <4> QED  BY <4>1
    <3>4. PartsOf(e) = w + z /\ r = w + t
      BY <2>1, <2>2, <3>2, <3>3
    <3>5. w + z = (w + t) + Len(q)
      BY <3>2
    <3> QED  BY <3>4, <3>5
  <2>4. ASSUME NEW k \in 1 .. Len(q)  PROVE q[k] = PartAt(c, r + k)
    <3>1. t + k \in 1 .. Len(p) /\ (2 * n + 1) + (t + k) = r + k /\ k \in 1 .. (Len(p) - t)
      <4>1. k \in Nat /\ t \in Nat /\ k \in 1 .. (Len(p) - t) /\ t + k \in 1 .. Len(p)
        BY <1>3, <1>4, <1>5, <2>4, SMTT(30)
      <4>2. PICK w \in Nat : w = 2 * n + 1
        <5>1. 2 * n + 1 \in Nat
          OBVIOUS
        <5> QED  BY <5>1
      <4>3. w + (t + k) = (w + t) + k
        BY <4>1
      <4> QED  BY <2>2, <4>1, <4>2, <4>3
    <3>2. p[t + k] = PartAt(c, (2 * n + 1) + (t + k))
      BY <2>1, <3>1
    <3> QED  BY <1>5, <3>1, <3>2
  <2>5. PartsOf(e) = Read(d) + Len(d.in["caller"])
    BY <1>7, <2>2, <2>3
  <2>6. \A k \in 1 .. Len(d.in["caller"]) : d.in["caller"][k] = PartAt(c, Read(d) + k)
    BY <1>7, <2>2, <2>4
  <2> QED  BY <1>2, <1>21, <2>5, <2>6, ReadOn
<1>22. Replying(d)
  <2>1. SUFFICES ASSUME ~Lost(d)  PROVE \E e \in Nat : ReplySoFar(d, e)
    BY DEF Replying
  <2>2. PICK e \in Nat : ReplySoFar(c, e)
    BY <1>15, <2>1 DEF Replying, ReplyCarried
  <2> QED  BY <1>21, <2>1, <2>2
<1>23. Silent(d)
  <2>1. SUFFICES ASSUME Unanswered(d) \/ d.ran = "none"  PROVE FALSE
    BY DEF Silent
  <2>2. Unanswered(c) \/ c.ran = "none"
    BY <1>10, <2>1 DEF ServerSame
  <2> QED  BY <1>1, <2>2 DEF Silent, ReplyCarried
<1>24. Counted(d)
  <2>1. CASE Go("caller")
    <3>1. values = <<v>>
      <4>1. values = Append(old, v) /\ old = <<>>
        BY <1>8, <1>11, <1>12, <2>1
      <4> QED  BY <4>1
    <3>2. Len(values) = 1
      BY <3>1
    <3>3. d.stage \in {"header", "reply"} /\ (d.stage = "header" => n = 0)
      BY <1>2, <1>8, <2>1 DEF CodecMoves, CallerSame
    <3> QED  BY <1>7, <1>9, <2>1, <3>2, <3>3 DEF Counted
  <2>2. CASE ~Go("caller")
    <3>1. n + 1 <= 2 /\ (n + 1 = 2 => phase = "stopped")
      BY <1>9, <2>2
    <3> QED  BY <1>7, <2>2, <3>1 DEF Counted
  <2> QED  BY <2>1, <2>2
<1>25. Returns(c.ran) = 1 /\ c.stage \in {"writing", "header", "reply", "closing", "returned"} => ~Lost(c)
  <2>1. SUFFICES ASSUME Returns(c.ran) = 1, Lost(c),
                        c.stage \in {"writing", "header", "reply", "closing", "returned"}
                 PROVE  FALSE
    OBVIOUS
  <2>2. CASE Go("caller")
    <3>1. c.reply = "none" /\ c.values["caller"] = <<>>
      BY <1>8, <2>2 DEF Asking
    <3> QED  BY <2>1, <2>2, <3>1 DEF Lost
  <2>3. CASE ~Go("caller")
    <3>1. ~c.gone["caller"]
      BY <1>1, <2>3 DEF BodyHere
    <3>2. c.reply # "EOF"
      <4>1. AnswerOf(c).kind # "EOF"
        BY Fields, ReplyParts
      <4> QED  BY <2>1, <2>3, <4>1 DEF Noted, Asking
    <3>3. c.values["caller"] # <<>> /\ Failed(Head(c.values["caller"]))
      BY <1>14, <2>1, <2>3, <3>1, <3>2 DEF Lost
    <3>4. HeaderOf(c).kind = "header" /\ AnswerOf(c).kind \in {"null", "undefined", "value"}
      BY Fields, ReplyParts
    <3>5. PICK h : h = HeaderOf(c)
      OBVIOUS
    <3>6. PICK a : a = AnswerOf(c)
      OBVIOUS
    <3>7. \/ c.values["caller"] = <<>> \/ c.values["caller"] = <<h>>
          \/ c.values["caller"] = <<h, a>> \/ c.values["caller"] = <<a>>
      BY <1>6, <1>14, <2>1, <2>3, <3>5, <3>6 DEF ReplyCarried, Decoding, CutOff
    <3>8. Head(<<h>>) = h /\ Head(<<h, a>>) = h /\ Head(<<a>>) = a
      OBVIOUS
    <3>9. ~Failed(h) /\ ~Failed(a)
      BY <3>4, <3>5, <3>6 DEF Failed
    <3> QED  BY <3>3, <3>7, <3>8, <3>9
  <2> QED  BY <2>2, <2>3
<1>26. Decoding(d)
  <2>1. d.phase["caller"] # "body" /\ d.stage = c.stage /\ d.ran = c.ran /\ d.reply = c.reply
    BY <1>2, <1>7, <1>9 DEF CodecMoves, CallerSame, ServerSame
  <2>2. ASSUME Returns(c.ran) = 1, ~Lost(c),
               c.stage \in {"writing", "header", "reply", "closing", "returned"}
        PROVE  /\ c.stage \in {"writing", "header"} =>
                     \/ n = 0 /\ values = <<HeaderOf(c)>>
                     \/ n = 1 /\ values = <<HeaderOf(c), AnswerOf(c)>>
                     \/ /\ TookEmpty(d) /\ ~Go("caller")
                        /\ values \in {<<HeaderOf(c)>>, <<HeaderOf(c), Plain("junk")>>}
               /\ c.stage = "reply" =>
                     \/ n = 1 /\ values = <<AnswerOf(c)>>
                     \/ TookEmpty(d) /\ ~Go("caller") /\ values \in {<<>>, <<Plain("junk")>>}
                     \/ TookEmpty(d) /\ Go("caller") /\ values = <<Plain("EOF")>>
                     \/ CutOff(c) /\ values = <<Plain("throws")>>
               /\ c.stage \notin {"closing", "returned"}
    <3>1. \/ v = IF n = 0 THEN HeaderOf(c) ELSE AnswerOf(c)
          \/ Go("caller") /\ n = 1 /\ v = Plain("throws") /\ CutOff(c)
          \/ TookEmpty(d) /\ n = 1 /\ Go("caller") /\ v = Plain("EOF")
          \/ TookEmpty(d) /\ n = 1 /\ ~Go("caller") /\ v \in {Plain("throws"), Plain("junk")}
      BY <1>16, <1>14, <2>2
    <3>2. HeaderOf(c).kind = "header" /\ AnswerOf(c).kind \in {"null", "undefined", "value"}
      BY Fields, ReplyParts
    <3>3. values = Append(old, v) \/ (TookEmpty(d) /\ n = 1 /\ ~Go("caller") /\ values = old)
      BY <1>12, <3>1, <3>2
    <3>4. PICK h : h = HeaderOf(c)
      OBVIOUS
    <3>5. PICK a : a = AnswerOf(c)
      OBVIOUS
    <3>6. Plain("EOF").kind = "EOF" /\ Plain("throws").kind = "throws"
      BY DEF Plain, Value
    <3>7. ~(old # <<>> /\ Failed(Head(old)))
      BY <1>11, <1>14, <2>2 DEF Lost
    <3>8. old # <<Plain("EOF")>> /\ old # <<Plain("throws")>>
      BY <3>6, <3>7 DEF Failed
    <3>9. CASE c.stage \in {"writing", "header"}
      <4>1. (n = 0 /\ old = <<>>) \/ (n = 1 /\ old = <<h>>)
        BY <1>6, <1>11, <1>14, <2>2, <3>4, <3>8, <3>9 DEF ReplyCarried, Decoding
      <4>2. n = 0 \/ ~Go("caller")
        BY <1>8, <3>9
      <4>3. CASE n = 0
        <5>1. v = h /\ values = Append(old, v)
          BY <3>1, <3>3, <3>4, <4>3
        <5>2. values = <<h>>
          BY <4>1, <4>3, <5>1
        <5> QED  BY <3>4, <3>9, <4>3, <5>2
      <4>4. CASE n = 1
        <5>1. old = <<h>> /\ ~Go("caller")
          BY <4>1, <4>2, <4>4
        <5>2. CASE values = old
          <6>1. values = <<h>>
            BY <5>1, <5>2
          <6>2. values # Append(old, v)
            <7>1. Len(old) = 1 /\ Len(Append(old, v)) = Len(old) + 1
              BY <5>1
            <7> QED  BY <5>2, <7>1
          <6> QED  BY <3>3, <3>4, <3>9, <5>1, <6>1, <6>2
        <5>3. CASE values # old
          <6>1. values = Append(<<h>>, v)
            BY <3>3, <5>1, <5>3
          <6>2. PICK j \in ValueType : j = Plain("junk")
            <7>1. Plain("junk") \in ValueType
              BY DEF Plain, Value, ValueType, Kinds
            <7> QED  BY <7>1
          <6>3. v # Plain("throws")
            BY <1>12, <3>6, <5>1, <5>3, <6>1
          <6>4. v = a \/ (v = j /\ TookEmpty(d))
            BY <3>1, <3>5, <4>4, <5>1, <6>2, <6>3
          <6>5. h \in ValueType /\ a \in ValueType
            BY <3>4, <3>5, Fields, ReplyParts
          <6>6. values = <<h, a>> \/ (values = <<h, j>> /\ TookEmpty(d))
            BY <6>1, <6>2, <6>4, <6>5, OneThenOne
          <6> QED  BY <3>4, <3>5, <3>9, <4>4, <5>1, <6>2, <6>6
        <5> QED  BY <5>2, <5>3
      <4> QED  BY <4>3, <4>4
    <3>10. CASE c.stage = "reply"
      <4>1. n = 1 /\ old = <<>>
        BY <1>6, <1>11, <1>14, <2>2, <3>8, <3>10 DEF ReplyCarried, Decoding
      <4>2. values = <<v>> \/ (TookEmpty(d) /\ ~Go("caller") /\ values = <<>>)
        BY <3>3, <4>1
      <4>3. \/ values = <<>> /\ TookEmpty(d) /\ ~Go("caller")
            \/ values = <<v>> /\ v.kind # "throws"
            \/ values = <<v>> /\ Go("caller")
        <5>1. CASE TookEmpty(d) /\ ~Go("caller") /\ values = old
          BY <4>1, <5>1
        <5>2. CASE values = Append(old, v)
          <6>1. values = <<v>>
            BY <4>1, <5>2
          <6>2. values # old
            BY <4>1, <6>1
          <6>3. v.kind # "throws" \/ Go("caller")
            BY <1>12, <6>2, Zenon
          <6> QED  BY <6>1, <6>3
        <5> QED  BY <3>3, <5>1, <5>2
      <4>4. CASE values = <<>> /\ TookEmpty(d) /\ ~Go("caller")
        BY <3>10, <4>4
      <4>5. CASE values = <<v>> /\ (v.kind # "throws" \/ Go("caller"))
        <5>1. \/ v = AnswerOf(c)
              \/ v = Plain("throws") /\ CutOff(c)
              \/ v = Plain("EOF") /\ TookEmpty(d) /\ Go("caller")
              \/ v = Plain("junk") /\ TookEmpty(d) /\ ~Go("caller")
          BY <3>1, <3>6, <4>1, <4>5
        <5>2. PICK x : x = v
          OBVIOUS
        <5>3. values = <<x>>
          BY <4>5, <5>2
        <5> QED  BY <3>10, <4>1, <5>1, <5>2, <5>3, Zenon
      <4> QED  BY <4>3, <4>4, <4>5
    <3>11. CASE c.stage \in {"closing", "returned"}
      <4>1. c.count["caller"] = 2
        BY <1>14, <2>2, <3>11 DEF ReplyCarried, Decoding, Lost
      <4> QED  BY <1>6, <4>1
    <3> QED  BY <2>2, <3>9, <3>10, <3>11
  <2>3. /\ d.values["caller"] = values /\ d.count["caller"] = n + 1 /\ HeaderOf(d) = HeaderOf(c)
        /\ AnswerOf(d) = AnswerOf(c) /\ (CutOff(d) <=> CutOff(c)) /\ (n = 1 => n + 1 = 2)
        /\ n = 0 => n + 1 = 1
    BY <1>7, <1>10
  <2> QED  BY <1>25, <2>1, <2>2, <2>3 DEF Decoding
<1>27. AtLast(d)
  <2>1. SUFFICES ASSUME Returns(d.ran) = 1, Go("caller"), ~TookEmpty(d),
                        d.reply = "EOF" \/ d.values["caller"] = <<Plain("EOF")>>
                 PROVE  FALSE
    BY DEF AtLast
  <2>2. c.reply = "none" /\ d.reply = "none" /\ Returns(c.ran) = 1
    BY <1>2, <1>8, <2>1 DEF Asking, CodecMoves, CallerSame, ServerSame
  <2>3. ~Lost(c)
    BY <1>8, <1>25, <2>1, <2>2
  <2>4. \/ v = IF n = 0 THEN HeaderOf(c) ELSE AnswerOf(c)
        \/ v = Plain("throws")
    BY <1>16, <1>14, <2>1, <2>3
  <2>5. v.kind # "EOF"
    <3>1. HeaderOf(c).kind = "header" /\ AnswerOf(c).kind \in {"null", "undefined", "value"}
      BY Fields, ReplyParts
    <3>2. Plain("throws").kind = "throws"
      BY DEF Plain, Value
    <3> QED  BY <2>4, <3>1, <3>2
  <2>6. <<v>> = <<Plain("EOF")>>
    <3>1. values = Append(old, v) /\ old = <<>>
      BY <1>8, <1>11, <1>12, <2>1
    <3>2. values = <<v>>
      BY <3>1
    <3> QED  BY <1>7, <2>1, <2>2, <3>2
  <2>7. v = Plain("EOF") /\ Plain("EOF").kind = "EOF"
    BY <2>6 DEF Plain, Value
  <2> QED  BY <2>5, <2>7
<1>28. Unmarked(d)
  <2>1. NoMark(p) => NoMark(q)
    <3>1. \A k \in 1 .. Len(q) : t + k \in 1 .. Len(p) /\ k \in 1 .. (Len(p) - t)
      BY <1>3, <1>4, <1>5
    <3> QED  BY <1>5, <3>1 DEF NoMark
  <2>2. c.ran # "hijack" => ~v.hijacked
    <3>1. SUFFICES ASSUME c.ran # "hijack"  PROVE ~v.hijacked
      OBVIOUS
    <3>2. PICK r : r = SubSeq(p, 1, t)
      OBVIOUS
    <3>3. Len(r) = t /\ \A k \in 1 .. t : r[k] = p[k]
      BY <1>3, <3>2, SplitAt
    <3>4. v \in Decodings("caller", r, c.size["caller"])
      BY <1>3, <1>4, <1>1, <3>2
    <3>5. r # <<>> => ~r[1].value.hijacked
      <4>1. SUFFICES ASSUME r # <<>>  PROVE ~r[1].value.hijacked
        OBVIOUS
      <4>2. t # 0
        <5>1. r \in Seq(PartType)
          BY <1>3, <3>2, SplitAt
        <5> QED  BY <3>3, <4>1, <5>1
      <4>3. 1 \in 1 .. t /\ 1 \in 1 .. Len(p)
        BY <1>3, <1>4, <4>2
      <4>4. NoMark(p)
        BY <1>3, <3>1 DEF ReplyCarried, Unmarked
      <4> QED  BY <3>3, <4>3, <4>4 DEF NoMark
    <3>6. \A k : ~Plain(k).hijacked
      BY DEF Plain, Value
    <3> QED  BY <3>4, <3>5, <3>6 DEF Decodings, Whole
  <2>3. c.ran # "hijack" => \A k \in 1 .. Len(values) : ~values[k].hijacked
    BY <1>11, <1>13, <2>2 DEF ReplyCarried, Unmarked
  <2>4. c.ran # "hijack" => NoMark(q)
    BY <1>3, <2>1 DEF ReplyCarried, Unmarked
  <2> QED  BY <1>2, <1>7, <1>10, <2>3, <2>4
           DEF Unmarked, ReplyCarried, CodecMoves, CallerSame, ServerSame, ChannelSame
<1> QED  BY <1>22, <1>23, <1>24, <1>26, <1>27, <1>28 DEF ReplyCarried

-----------------------------------------------------------------------------
(* The caller goes on *)

(* What the other end and the codecs know stays, but that the channel may be closed. *)
CallerDid(c, d) ==
    /\ ServerSame(c, d)
    /\ d.phase = c.phase /\ d.size = c.size /\ d.count = c.count
    /\ d.values["responder"] = c.values["responder"]
    /\ FlagsUp(c, d) /\ d.late = c.late
    /\ d.out["responder"] = c.out["responder"] /\ d.in["responder"] = c.in["responder"]
    /\ d.sentClose["responder"] = c.sentClose["responder"]
    /\ d.gone["responder"] = c.gone["responder"]
    /\ d.finishing["responder"] = c.finishing["responder"]
    /\ \/ d.out["caller"] = c.out["caller"]
       \/ ~c.sentClose["caller"] /\ d.out["caller"] = Append(c.out["caller"], Close)
    /\ \/ d.in["caller"] = c.in["caller"]
       \/ d.in["caller"] = <<>> /\ ~Go("caller") /\ d.gone["caller"]
    /\ Go("caller") => /\ d.gone["caller"] = c.gone["caller"]
                       /\ d.finishing["caller"] = c.finishing["caller"]

LEMMA KeptDid ==
    ASSUME NEW c \in CallType, NEW d \in CallType, ServerSame(c, d),
           d.phase = c.phase, d.size = c.size, d.count = c.count,
           d.values["responder"] = c.values["responder"], ChannelKept(c, d)
    PROVE  CallerDid(c, d)
BY DEF CallerDid, ChannelKept, ChannelSame, FlagsUp

LEMMA ClosedDid ==
    ASSUME NEW c \in CallType, NEW d \in CallType, Impls, ServerSame(c, d),
           d.phase = c.phase, d.size = c.size, d.count = c.count,
           d.values["responder"] = c.values["responder"], DidClose(c, d, "caller")
    PROVE  CallerDid(c, d)
<1>1. /\ c.out \in [Sides -> Seq(MessageType)] /\ c.in \in [Sides -> Seq(PartType)]
      /\ c.sentClose \in [Sides -> BOOLEAN] /\ c.finishing \in [Sides -> BOOLEAN]
      /\ c.gone \in [Sides -> BOOLEAN]
  BY Fields
<1>2. Sides = {"caller", "responder"}
  BY DEF Sides
<1>3. CASE Mock
  <2>1. /\ d.out = c.out /\ d.late = c.late /\ d.sentClose = c.sentClose
        /\ d.finishing = c.finishing
        /\ d.gone = [c.gone EXCEPT !["caller"] = TRUE] /\ d.in = [c.in EXCEPT !["caller"] = <<>>]
    BY <1>3 DEF DidClose
  <2>2. ~Go("caller")
    BY <1>3, GoOrNot
  <2> QED  BY <1>1, <1>2, <2>1, <2>2 DEF CallerDid, FlagsUp
<1>4. CASE ~Mock /\ ~c.sentClose["caller"]
  <2>1. /\ d.finishing = c.finishing /\ d.gone = c.gone /\ d.in = c.in /\ d.late = c.late
        /\ d.sentClose = [c.sentClose EXCEPT !["caller"] = TRUE]
        /\ d.out = c.out \/ d.out = [c.out EXCEPT !["caller"] = Append(@, Close)]
    BY <1>4 DEF DidClose
  <2> QED  BY <1>1, <1>2, <1>4, <2>1 DEF CallerDid, FlagsUp
<1>5. CASE ~Mock /\ c.sentClose["caller"] /\ Go("caller")
  <2>1. ChannelKept(c, d)
    BY <1>5 DEF DidClose, ChannelKept
  <2> QED  BY <2>1, KeptDid
<1>6. CASE ~Mock /\ c.sentClose["caller"] /\ ~Go("caller")
  <2>1. /\ d.out = c.out /\ d.late = c.late
        /\ d.gone = [c.gone EXCEPT !["caller"] = TRUE]
        /\ d.finishing = [c.finishing EXCEPT !["caller"] = FALSE]
        /\ d.sentClose = [c.sentClose EXCEPT !["caller"] = @ \/ Go("caller")]
        /\ d.in = [c.in EXCEPT !["caller"] = <<>>]
    BY <1>6 DEF DidClose, WasShut
  <2>2. d.sentClose["caller"] /\ d.sentClose["responder"] = c.sentClose["responder"]
    BY <1>1, <1>2, <1>6, <2>1
  <2> QED  BY <1>1, <1>2, <1>6, <2>1, <2>2 DEF CallerDid, FlagsUp
<1> QED  BY <1>3, <1>4, <1>5, <1>6

(* What it does to the channel of a call that it also notes something of. *)
LEMMA CloseThrough ==
    ASSUME NEW c, NEW e, NEW f, NEW d, NEW s,
           ChannelKept(c, e), DidClose(e, f, s), ChannelKept(f, d)
    PROVE  DidClose(c, d, s)
BY DEF ChannelKept, ChannelSame, DidClose, WasShut

(* A request is past its writing, or its channel is closed. *)
LEMMA RequestDid ==
    ASSUME NEW c \in CallType, NEW d \in CallType, RequestRead(c), Closed(c, "caller"),
           CallerDid(c, d), d.stage # "writing"
    PROVE  RequestRead(d)
<1>1. /\ d.late["caller"] = c.late["caller"] /\ d.responder = c.responder
      /\ d.phase["responder"] = c.phase["responder"] /\ d.size["responder"] = c.size["responder"]
  BY DEF CallerDid, ServerSame
<1> QED  BY <1>1, RequestCloses DEF CallerDid

(* The reply is where it was. *)
LEMMA ReplyingDid ==
    ASSUME NEW c, NEW d, Replying(c), CallerDid(c, d), d.got = c.got,
           Leaving(c) => Leaving(d), ~Lost(d) => ~Lost(c)
    PROVE  Replying(d)
<1>1. SUFFICES ASSUME ~Lost(d)  PROVE \E e \in Nat : ReplySoFar(d, e)
  BY DEF Replying
<1>2. PICK e \in Nat : ReplySoFar(c, e)
  BY <1>1 DEF Replying
<1>3. /\ d.ran = c.ran /\ d.replies = c.replies /\ d.raw = c.raw /\ d.responder = c.responder
      /\ d.phase = c.phase /\ d.count = c.count
  BY DEF CallerDid, ServerSame
<1>4. /\ ReplyLength(d) = ReplyLength(c) /\ ReplyMessages(d) = ReplyMessages(c)
      /\ \A k : PartAt(d, k) = PartAt(c, k) /\ MessageAt(d, k) = MessageAt(c, k)
  BY <1>3, SameReplyParts
<1>5. Read(d) = Read(c)
  BY <1>3, <1>4 DEF Read
<1>6. Sent(d) = Sent(c)
  BY <1>3, <1>4 DEF Sent, Unanswered
<1>7. /\ d.in["caller"] = c.in["caller"] /\ d.out["responder"] = c.out["responder"]
      /\ d.late["responder"] = c.late["responder"]
      /\ d.sentClose["responder"] = c.sentClose["responder"]
      /\ Go("caller") => /\ d.gone["caller"] = c.gone["caller"]
                         /\ d.finishing["caller"] = c.finishing["caller"]
  BY <1>1 DEF CallerDid, Lost
<1>8. ReplySoFar(d, e)
  BY <1>2, <1>4, <1>5, <1>6, <1>7 DEF ReplySoFar
<1> QED  BY <1>8
(* The values of a reply, and what has gone wrong with one. *)
LEMMA ReplyValues ==
    ASSUME NEW c \in CallType, Impls
    PROVE  /\ HeaderOf(c) \in ValueType /\ AnswerOf(c) \in ValueType
           /\ ~Failed(HeaderOf(c)) /\ ~Failed(AnswerOf(c))
           /\ Failed(Plain("EOF")) /\ Failed(Plain("throws"))
           /\ AnswerOf(c) # Plain("EOF") /\ AnswerOf(c).kind \notin {"EOF", "throws"}
           /\ (HeaderOf(c).error <=> IsError(c.ran)) /\ (HeaderOf(c).hijacked <=> c.ran = "hijack")
           /\ AnswerOf(c).kind = "value" => ~IsError(c.ran)
           /\ Plain("EOF").kind = "EOF" /\ Plain("throws").kind = "throws"
<1>1. /\ HeaderOf(c) \in ValueType /\ AnswerOf(c) \in ValueType
      /\ HeaderOf(c).kind = "header" /\ AnswerOf(c).kind \in {"null", "undefined", "value"}
      /\ (HeaderOf(c).hijacked <=> c.ran = "hijack") /\ (HeaderOf(c).error <=> IsError(c.ran))
      /\ AnswerOf(c).kind = "value" => ~IsError(c.ran)
  BY Fields, ReplyParts
<1>2. Plain("EOF").kind = "EOF" /\ Plain("throws").kind = "throws"
  BY DEF Plain, Value
<1>3. ~Failed(HeaderOf(c)) /\ ~Failed(AnswerOf(c)) /\ Failed(Plain("EOF")) /\ Failed(Plain("throws"))
  BY <1>1, <1>2 DEF Failed
<1>4. AnswerOf(c) # Plain("EOF") /\ AnswerOf(c).kind \notin {"EOF", "throws"}
  BY <1>1, <1>2
<1> QED  BY <1>1, <1>2, <1>3, <1>4

(* What decode gives the caller, of what the codec has. *)
FirstValue(c, h) ==
    c.values["caller"] # <<>> /\ h = Head(c.values["caller"])

LEMMA HeaderCases ==
    ASSUME NEW c \in CallType, Impls, ReplyCarried(c), c.stage = "header",
           NEW h, FirstValue(c, h), Returns(c.ran) = 1
    PROVE  \/ /\ h = HeaderOf(c) /\ c.count["caller"] = 1 /\ Tail(c.values["caller"]) = <<>>
              /\ ~Failed(h)
           \/ /\ h = HeaderOf(c) /\ c.count["caller"] = 2
              /\ Tail(c.values["caller"]) = <<AnswerOf(c)>> /\ ~Failed(h)
           \/ /\ h = HeaderOf(c) /\ TookEmpty(c) /\ ~Go("caller") /\ ~Failed(h)
              /\ Tail(c.values["caller"]) \in {<<>>, <<Plain("junk")>>}
           \/ Go("caller") /\ Failed(h) /\ ended["caller"] /\ c.values["caller"] = <<Plain("EOF")>>
<1>1. PICK v : v = c.values["caller"]
  OBVIOUS
<1>2. PICK x : x = HeaderOf(c)
  OBVIOUS
<1>3. PICK y : y = AnswerOf(c)
  OBVIOUS
<1>4. PICK z : z = Plain("EOF")
  OBVIOUS
<1>5. PICK j : j = Plain("junk")
  OBVIOUS
<1>6. \/ c.count["caller"] = 1 /\ v = <<x>>
      \/ c.count["caller"] = 2 /\ v = <<x, y>>
      \/ TookEmpty(c) /\ ~Go("caller") /\ v \in {<<x>>, <<x, j>>}
      \/ Go("caller") /\ v = <<z>> /\ ended["caller"]
  BY <1>1, <1>2, <1>3, <1>4, <1>5 DEF FirstValue, ReplyCarried, Decoding
<1>7. h = Head(v)
  BY <1>1 DEF FirstValue
<1>8. ~Failed(x) /\ Failed(z)
  BY <1>2, <1>4, ReplyValues
<1>9. /\ Head(<<x>>) = x /\ Tail(<<x>>) = <<>>
      /\ Head(<<x, y>>) = x /\ Tail(<<x, y>>) = <<y>>
      /\ Head(<<z>>) = z /\ Head(<<x, j>>) = x /\ Tail(<<x, j>>) = <<j>>
  OBVIOUS
<1> QED  BY <1>1, <1>2, <1>3, <1>4, <1>6, <1>7, <1>8, <1>9, <1>5

(* The header is noted. *)
LEMMA HeaderNoted ==
    ASSUME NEW c \in CallType, NEW d \in CallType, Impls, ReplyCarried(c), Asking(c),
           CallerDid(c, d), c.stage = "header", NEW h, FirstValue(c, h),
           d.values["caller"] = Tail(c.values["caller"]),
           d.error = h.error, d.hijacked = h.hijacked, d.reply = c.reply, d.got = c.got,
           ~(Go("caller") /\ Failed(h)), d.stage \in {"reply", "rejecting", "rejected"},
           d.stage # "reply" => h.error /\ (Qrpc \/ Go("caller"))
    PROVE  ReplyCarried(d) /\ Noted(d)
<1>1. /\ d.ran = c.ran /\ d.replies = c.replies /\ d.responder = c.responder
      /\ d.phase = c.phase /\ d.count = c.count /\ d.size = c.size
  BY DEF CallerDid, ServerSame
<1>2. c.reply = "none" /\ c.got = <<>>
  BY DEF Asking
<1>3. PICK old \in Seq(ValueType) : old = c.values["caller"] /\ old # <<>>
  <2>1. c.values["caller"] \in Seq(ValueType)
    BY Fields, TheSides
  <2> QED  BY <2>1 DEF FirstValue
<1>4. /\ h = Head(old) /\ h = old[1] /\ h \in ValueType
      /\ Len(old) # 0 /\ 1 \in 1 .. Len(old) /\ Len(Tail(old)) = Len(old) - 1 /\ Len(old) \in Nat
  <2>1. h = Head(old)
    BY <1>3 DEF FirstValue
  <2>2. /\ Len(Tail(old)) = Len(old) - 1 /\ Len(old) \in Nat \ {0}
        /\ Head(old) \in ValueType /\ Head(old) = old[1]
    BY <1>3, OneLess
  <2> QED  BY <2>1, <2>2
<1>5. ~Unanswered(c) /\ c.ran # "none"
  <2>1. SUFFICES ASSUME Unanswered(c) \/ c.ran = "none"  PROVE FALSE
    OBVIOUS
  <2>2. Go("caller") /\ old = <<Plain("EOF")>>
    BY <1>3, <2>1 DEF Silent, ReplyCarried
  <2>3. h = Plain("EOF")
    BY <1>4, <2>2
  <2> QED  BY <2>2, <2>3, ReplyValues
<1>6. Returned(c)
  BY <1>5, Fields DEF Unanswered, Returned
<1>7. PICK n \in 0 .. 2 : n = c.count["caller"]
  <2>1. c.count["caller"] \in Nat /\ c.count["caller"] <= 2
    BY Fields, TheSides DEF Counted, ReplyCarried
  <2> QED  BY <2>1
<1>8. Returns(c.ran) = 1 =>
        \/ h = HeaderOf(c) /\ n = 1 /\ Tail(old) = <<>> /\ ~Failed(h)
        \/ h = HeaderOf(c) /\ n = 2 /\ Tail(old) = <<AnswerOf(c)>> /\ ~Failed(h)
        \/ /\ h = HeaderOf(c) /\ TookEmpty(c) /\ ~Go("caller") /\ ~Failed(h)
           /\ Tail(old) \in {<<>>, <<Plain("junk")>>}
  BY <1>3, <1>7, HeaderCases
<1>9. TookEmpty(d) <=> TookEmpty(c)
  BY <1>1, SameReplyParts
<1>10. ~Lost(d) => ~Lost(c)
  <2>1. SUFFICES ASSUME ~Lost(d)  PROVE ~Lost(c)
    OBVIOUS
  <2>2. Returns(c.ran) = 1
    BY <1>1, <2>1 DEF Lost
  <2>3. ~Failed(Head(c.values["caller"]))
    BY <1>3, <1>4, <1>8, <2>2
  <2>4. ~(~Go("caller") /\ (c.gone["caller"] \/ TookEmpty(c)))
    <3>1. c.gone["caller"] => d.gone["caller"]
      BY TheSides DEF CallerDid, FlagsUp
    <3> QED  BY <1>9, <2>1, <3>1 DEF Lost
  <2> QED  BY <1>2, <2>2, <2>3, <2>4 DEF Lost
<1>11. Replying(d)
  <2>1. ~Leaving(c)
    BY DEF Leaving
  <2> QED  BY <1>10, <2>1, ReplyingDid DEF ReplyCarried
<1>12. Silent(d)
  BY <1>1, <1>5 DEF Silent, Unanswered
<1>13. Counted(d)
  <2>1. n <= 2 /\ (~Go("caller") /\ n = 2 => d.phase["caller"] = "stopped")
    BY <1>1, <1>7 DEF Counted, ReplyCarried
  <2>2. Go("caller") => /\ c.phase["caller"] \notin {"body", "stopped"}
                        /\ n <= Len(old) /\ Len(old) <= 1
    BY <1>3, <1>7 DEF Counted, ReplyCarried
  <2>3. Go("caller") => n <= 1 + Len(Tail(old)) /\ Len(Tail(old)) <= 1
    BY <1>4, <1>7, <2>2
  <2> QED  BY <1>1, <1>3, <1>7, <2>1, <2>2, <2>3 DEF Counted
<1>14. /\ HeaderOf(d) = HeaderOf(c) /\ AnswerOf(d) = AnswerOf(c)
       /\ \A k : PartAt(d, k) = PartAt(c, k)
       /\ (CutOff(d) <=> CutOff(c))
  BY <1>1, SameReplyParts
<1>15. Decoding(d)
  <2>1. SUFFICES ASSUME Returns(c.ran) = 1
                 PROVE  /\ d.phase["caller"] = "body" /\ ~Lost(d) =>
                              n < 2 /\ d.size["caller"] = PartAt(d, 2 * n + 1).size
                        /\ d.stage = "reply" =>
                              \/ n = 1 /\ d.values["caller"] = <<>>
                              \/ n = 2 /\ d.values["caller"] = <<AnswerOf(c)>>
                              \/ /\ TookEmpty(d) /\ ~Go("caller")
                                 /\ d.values["caller"] \in {<<>>, <<Plain("junk")>>}
    BY <1>1, <1>7, <1>14 DEF Decoding
  <2>2. d.phase["caller"] = "body" /\ ~Lost(d) =>
            n < 2 /\ d.size["caller"] = PartAt(d, 2 * n + 1).size
    BY <1>1, <1>7, <1>10, <1>14, <2>1 DEF Decoding, ReplyCarried
  <2> QED  BY <1>3, <1>8, <1>9, <2>1, <2>2
<1>16. AtLast(d)
  <2>1. SUFFICES ASSUME Returns(c.ran) = 1, Go("caller"), d.values["caller"] = <<Plain("EOF")>>  PROVE FALSE
    BY <1>1, <1>2 DEF AtLast
  <2>2. Tail(old) = <<AnswerOf(c)>> \/ Tail(old) = <<>>
    BY <1>8, <2>1
  <2>3. <<Plain("EOF")>> # <<>> /\ (<<Plain("EOF")>> = <<AnswerOf(c)>> => Plain("EOF") = AnswerOf(c))
    OBVIOUS
  <2> QED  BY <1>3, <2>1, <2>2, <2>3, ReplyValues
<1>17. Unmarked(d)
  <2>1. c.ran # "hijack" => /\ ~h.hijacked
                            /\ \A k \in 1 .. Len(Tail(old)) : ~Tail(old)[k].hijacked
    <3>1. SUFFICES ASSUME c.ran # "hijack"
                   PROVE  ~h.hijacked /\ \A k \in 1 .. Len(Tail(old)) : ~Tail(old)[k].hijacked
      OBVIOUS
    <3>2. \A k \in 1 .. Len(old) : ~old[k].hijacked
      BY <1>3, <3>1 DEF Unmarked, ReplyCarried
    <3>3. \A k \in 1 .. Len(Tail(old)) : Tail(old)[k] = old[k + 1] /\ k + 1 \in 1 .. Len(old)
      <4>1. \A k \in 1 .. Len(Tail(old)) : Tail(old)[k] = old[k + 1]
        BY <1>3, OneLess
      <4>2. \A k \in 1 .. Len(Tail(old)) : k + 1 \in 1 .. Len(old)
        BY <1>4
      <4> QED  BY <4>1, <4>2
    <3> QED  BY <1>4, <3>2, <3>3
  <2>2. c.ran # "hijack" => NoMark(d.in["caller"])
    <3>1. NoMark(<<>>)
      BY DEF NoMark
    <3> QED  BY <3>1 DEF CallerDid, Unmarked, ReplyCarried
  <2>3. d.hijacked => c.ran = "hijack" /\ Returned(d)
    BY <1>1, <1>6, <2>1 DEF Returned
  <2> QED  BY <1>1, <1>3, <2>1, <2>2, <2>3 DEF Unmarked, ReplyCarried, CallerDid
<1>18. Noted(d)
  <2>1. Len(d.got) = 0
    BY <1>2
  <2>2. Returns(c.ran) = 1 => /\ d.error = IsError(c.ran) /\ d.hijacked = (c.ran = "hijack")
                              /\ (d.error => ~d.hijacked)
    <3>1. SUFFICES ASSUME Returns(c.ran) = 1
                   PROVE  /\ d.error = IsError(c.ran) /\ d.hijacked = (c.ran = "hijack")
                          /\ (d.error => ~d.hijacked)
      OBVIOUS
    <3>2. /\ d.error \in BOOLEAN /\ d.hijacked \in BOOLEAN
          /\ (d.error <=> IsError(c.ran)) /\ (d.hijacked <=> c.ran = "hijack")
      BY <1>8, <3>1, Fields, ReplyValues
    <3>3. IsError(c.ran) \in BOOLEAN /\ (IsError(c.ran) => c.ran # "hijack")
      BY DEF IsError
    <3> QED  BY <3>2, <3>3
  <2>3. d.stage # "reply" => d.error
    OBVIOUS
  <2> QED  BY <1>1, <1>2, <1>5, <2>1, <2>2, <2>3 DEF Noted
<1> QED  BY <1>11, <1>12, <1>13, <1>15, <1>16, <1>17, <1>18 DEF ReplyCarried
LEMMA AnswerCases ==
    ASSUME NEW c \in CallType, Impls, ReplyCarried(c), c.stage = "reply",
           NEW h, FirstValue(c, h), Returns(c.ran) = 1
    PROVE  \/ /\ h = AnswerOf(c) /\ c.count["caller"] = 2 /\ c.values["caller"] = <<h>>
              /\ ~Failed(h) /\ h.kind \notin {"EOF", "throws"}
           \/ /\ Go("caller") /\ Failed(h) /\ h.kind = "EOF" /\ ended["caller"]
              /\ c.values["caller"] = <<Plain("EOF")>> /\ c.values["caller"] = <<h>>
           \/ /\ TookEmpty(c) /\ Go("caller") /\ Failed(h) /\ h.kind = "EOF"
              /\ c.values["caller"] = <<Plain("EOF")>> /\ c.values["caller"] = <<h>>
           \/ /\ TookEmpty(c) /\ ~Go("caller") /\ ~Failed(h) /\ h.kind = "junk"
              /\ c.values["caller"] = <<h>>
           \/ /\ CutOff(c) /\ Failed(h) /\ h.kind = "throws" /\ c.values["caller"] = <<h>>
<1>1. PICK v : v = c.values["caller"]
  OBVIOUS
<1>2. PICK y : y = AnswerOf(c)
  OBVIOUS
<1>3. PICK z : z = Plain("EOF")
  OBVIOUS
<1>4. PICK w : w = Plain("throws")
  OBVIOUS
<1>5. PICK j : j = Plain("junk")
  OBVIOUS
<1>6. \/ c.count["caller"] = 2 /\ v = <<y>>
      \/ Go("caller") /\ v = <<z>> /\ ended["caller"]
      \/ TookEmpty(c) /\ Go("caller") /\ v = <<z>>
      \/ TookEmpty(c) /\ ~Go("caller") /\ v = <<j>>
      \/ CutOff(c) /\ v = <<w>>
  BY <1>1, <1>4, <1>2, <1>3, <1>5 DEF FirstValue, ReplyCarried, Decoding
<1>7. h = Head(v)
  BY <1>1 DEF FirstValue
<1>8. ~Failed(y) /\ Failed(z) /\ y.kind \notin {"EOF", "throws"}
  BY <1>2, <1>3, ReplyValues
<1>9. z.kind = "EOF" /\ w.kind = "throws" /\ Failed(w)
  BY <1>4, <1>3, ReplyValues
<1>10. j.kind = "junk" /\ ~Failed(j)
  BY <1>5 DEF Plain, Value, Failed
<1>11. Head(<<j>>) = j /\ Head(<<y>>) = y /\ Head(<<w>>) = w /\ Head(<<z>>) = z
  OBVIOUS
<1> QED  BY <1>1, <1>2, <1>3, <1>6, <1>7, <1>8, <1>9, <1>11, <1>10

(* What the reply gives is noted. *)
LEMMA AnswerNoted ==
    ASSUME NEW c \in CallType, NEW d \in CallType, Impls, ReplyCarried(c), Asking(c),
           Noted(c), CallerDid(c, d), c.stage = "reply", NEW h, FirstValue(c, h),
           d.values["caller"] = Tail(c.values["caller"]),
           d.error = c.error, d.hijacked = c.hijacked, d.reply = h.kind, d.got = c.got,
           ~(Go("caller") /\ h.kind = "throws"), d.stage \in {"closing", "returned"},
           Go("caller") => d.stage = "returned" /\ (h.kind = "EOF" => ~setting.wanted)
    PROVE  ReplyCarried(d) /\ Noted(d)
<1>1. /\ d.ran = c.ran /\ d.replies = c.replies /\ d.responder = c.responder
      /\ d.phase = c.phase /\ d.count = c.count /\ d.size = c.size
  BY DEF CallerDid, ServerSame
<1>2. c.reply = "none" /\ c.got = <<>>
  BY DEF Asking
<1>3. PICK old \in Seq(ValueType) : old = c.values["caller"] /\ old # <<>>
  <2>1. c.values["caller"] \in Seq(ValueType)
    BY Fields, TheSides
  <2> QED  BY <2>1 DEF FirstValue
<1>4. /\ h = Head(old) /\ h = old[1] /\ h \in ValueType
      /\ Len(old) # 0 /\ 1 \in 1 .. Len(old) /\ Len(Tail(old)) = Len(old) - 1 /\ Len(old) \in Nat
  <2>1. h = Head(old)
    BY <1>3 DEF FirstValue
  <2>2. /\ Len(Tail(old)) = Len(old) - 1 /\ Len(old) \in Nat \ {0}
        /\ Head(old) \in ValueType /\ Head(old) = old[1]
    BY <1>3, OneLess
  <2> QED  BY <2>1, <2>2
<1>5. ~Unanswered(c) /\ c.ran # "none"
  BY DEF Silent, ReplyCarried
<1>6. PICK n \in 0 .. 2 : n = c.count["caller"]
  <2>1. c.count["caller"] \in Nat /\ c.count["caller"] <= 2
    BY Fields, TheSides DEF Counted, ReplyCarried
  <2> QED  BY <2>1
<1>7. Returns(c.ran) = 1 =>
        \/ /\ h = AnswerOf(c) /\ n = 2 /\ old = <<h>> /\ ~Failed(h)
           /\ h.kind \notin {"EOF", "throws"}
        \/ /\ Go("caller") /\ h.kind = "EOF" /\ ended["caller"]
           /\ old = <<Plain("EOF")>> /\ old = <<h>>
        \/ /\ TookEmpty(c) /\ Go("caller") /\ h.kind = "EOF" /\ n = 2
           /\ old = <<Plain("EOF")>> /\ old = <<h>>
        \/ /\ TookEmpty(c) /\ ~Go("caller") /\ h.kind = "junk" /\ ~Failed(h) /\ n = 2
           /\ old = <<h>>
  <2>1. CutOff(c) => Go("caller")
    BY DEF CutOff
  <2>2. TookEmpty(c) => n = 2
    BY <1>6 DEF TookEmpty
  <2> QED  BY <1>3, <1>6, <2>1, <2>2, AnswerCases
<1>8. TookEmpty(d) <=> TookEmpty(c)
  BY <1>1, SameReplyParts
<1>9. Returns(c.ran) = 1 => Tail(old) = <<>>
  <2>1. Tail(<<h>>) = <<>>
    OBVIOUS
  <2> QED  BY <1>7, <2>1
<1>10. ~Lost(d) => ~Lost(c)
  <2>1. SUFFICES ASSUME ~Lost(d)  PROVE ~Lost(c)
    OBVIOUS
  <2>2. Returns(c.ran) = 1 /\ (h.kind # "EOF" \/ TookEmpty(c))
    BY <1>1, <1>8, <2>1 DEF Lost
  <2>3. TookEmpty(c) \/ ~Failed(Head(c.values["caller"]))
    BY <1>3, <1>4, <1>7, <2>2
  <2>4. ~(~Go("caller") /\ (c.gone["caller"] \/ TookEmpty(c)))
    <3>1. c.gone["caller"] => d.gone["caller"]
      BY TheSides DEF CallerDid, FlagsUp
    <3> QED  BY <1>8, <2>1, <3>1 DEF Lost
  <2> QED  BY <1>2, <2>2, <2>3, <2>4 DEF Lost
<1>11. Replying(d)
  <2>1. ~Leaving(c)
    BY DEF Leaving
  <2> QED  BY <1>10, <2>1, ReplyingDid DEF ReplyCarried
<1>12. Silent(d)
  BY <1>1, <1>5 DEF Silent, Unanswered
<1>13. Go("caller") => c.phase["caller"] \notin {"body", "stopped"}
  BY <1>3 DEF Counted, ReplyCarried
<1>14. Counted(d)
  <2>1. n <= 2 /\ (~Go("caller") /\ n = 2 => d.phase["caller"] = "stopped")
    BY <1>1, <1>6 DEF Counted, ReplyCarried
  <2> QED  BY <1>1, <1>6, <1>13, <2>1 DEF Counted
<1>15. /\ HeaderOf(d) = HeaderOf(c) /\ AnswerOf(d) = AnswerOf(c)
       /\ \A k : PartAt(d, k) = PartAt(c, k)
       /\ (CutOff(d) <=> CutOff(c))
  BY <1>1, SameReplyParts
<1>16. Decoding(d)
  <2>1. SUFFICES ASSUME Returns(c.ran) = 1
                 PROVE  /\ d.phase["caller"] = "body" => Lost(d)
                        /\ d.values["caller"] = <<>> /\ (n = 2 \/ d.reply = "EOF")
    BY <1>1, <1>6, <1>15 DEF Decoding
  <2>2. d.phase["caller"] # "body"
    <3>1. SUFFICES ASSUME c.phase["caller"] = "body"  PROVE FALSE
      BY <1>1
    <3>2. n = 2 /\ ~Go("caller")
      BY <1>7, <1>13, <2>1, <3>1
    <3> QED  BY <1>6, <3>1, <3>2 DEF Counted, ReplyCarried
  <2> QED  BY <1>3, <1>7, <1>9, <2>1, <2>2
<1>17. AtLast(d)
  <2>1. SUFFICES ASSUME Returns(c.ran) = 1, Go("caller"), ~TookEmpty(c),
                        h.kind = "EOF" \/ d.values["caller"] = <<Plain("EOF")>>
                 PROVE  d.gone["caller"] /\ d.in["caller"] = <<>>
    BY <1>1, <1>8 DEF AtLast
  <2>2. <<Plain("EOF")>> # <<>>
    OBVIOUS
  <2>3. h.kind = "EOF"
    BY <1>3, <1>9, <2>1, <2>2
  <2>4. c.values["caller"] = <<Plain("EOF")>>
    BY <1>3, <1>7, <2>1, <2>3
  <2>5. c.gone["caller"] /\ c.in["caller"] = <<>>
    BY <2>1, <2>4 DEF AtLast, ReplyCarried
  <2> QED  BY <2>1, <2>5 DEF CallerDid
<1>18. Unmarked(d)
  <2>1. c.ran # "hijack" => \A k \in 1 .. Len(Tail(old)) : ~Tail(old)[k].hijacked
    <3>1. SUFFICES ASSUME c.ran # "hijack"
                   PROVE  \A k \in 1 .. Len(Tail(old)) : ~Tail(old)[k].hijacked
      OBVIOUS
    <3>2. \A k \in 1 .. Len(old) : ~old[k].hijacked
      BY <1>3, <3>1 DEF Unmarked, ReplyCarried
    <3>3. \A k \in 1 .. Len(Tail(old)) : Tail(old)[k] = old[k + 1] /\ k + 1 \in 1 .. Len(old)
      <4>1. \A k \in 1 .. Len(Tail(old)) : Tail(old)[k] = old[k + 1]
        BY <1>3, OneLess
      <4>2. \A k \in 1 .. Len(Tail(old)) : k + 1 \in 1 .. Len(old)
        BY <1>4
      <4> QED  BY <4>1, <4>2
    <3> QED  BY <1>4, <3>2, <3>3
  <2>2. c.ran # "hijack" => NoMark(d.in["caller"])
    <3>1. NoMark(<<>>)
      BY DEF NoMark
    <3> QED  BY <3>1 DEF CallerDid, Unmarked, ReplyCarried
  <2>3. d.hijacked => c.ran = "hijack" /\ Returned(d)
    BY <1>1 DEF Returned, Unmarked, ReplyCarried
  <2> QED  BY <1>1, <1>3, <2>1, <2>2, <2>3 DEF Unmarked, ReplyCarried, CallerDid
<1>19. Noted(d)
  <2>1. Len(d.got) = 0
    BY <1>2
  <2>2. Returns(c.ran) = 1 =>
           \/ d.reply = AnswerOf(d).kind
           \/ /\ d.reply = "EOF" /\ Go("caller") /\ ~setting.wanted
              /\ TookEmpty(d) \/ (ended["caller"] /\ d.gone["caller"])
           \/ d.reply = "junk" /\ ~Go("caller") /\ TookEmpty(d)
    <3>1. SUFFICES ASSUME Returns(c.ran) = 1, Go("caller"), h.kind = "EOF", ended["caller"],
                          ~TookEmpty(d)
                   PROVE  d.gone["caller"]
      BY <1>7, <1>15, <1>8
    <3> QED  BY <1>1, <1>17, <3>1 DEF AtLast
  <2>3. Returns(c.ran) = 1 => /\ d.error = IsError(c.ran) /\ d.hijacked = (c.ran = "hijack")
    BY DEF Noted
  <2> QED  BY <1>1, <1>2, <1>5, <2>1, <2>2, <2>3 DEF Noted
<1> QED  BY <1>11, <1>12, <1>14, <1>16, <1>17, <1>18, <1>19 DEF ReplyCarried

(* The channel is shut down: the call is over. *)
LEMMA CallOver ==
    ASSUME NEW c \in CallType, NEW d \in CallType, Impls, ReplyCarried(c), Asking(c), Noted(c),
           CallerDid(c, d), c.stage \in {"closing", "rejecting"},
           d.values = c.values, d.in = c.in, d.gone = c.gone, d.error = c.error,
           d.hijacked = c.hijacked,
           d.reply = c.reply, d.got = c.got,
           d.stage = IF c.stage = "closing" THEN "returned" ELSE "rejected"
    PROVE  ReplyCarried(d) /\ Noted(d)
<1>1. /\ d.ran = c.ran /\ d.replies = c.replies /\ d.responder = c.responder
      /\ d.phase = c.phase /\ d.count = c.count /\ d.size = c.size
  BY DEF CallerDid, ServerSame
<1>2. c.got = <<>>
  BY DEF Asking
<1>3. TookEmpty(d) <=> TookEmpty(c)
  BY <1>1, SameReplyParts
<1>4. Lost(d) <=> Lost(c)
  BY <1>1, <1>3 DEF Lost
<1>5. Replying(d)
  <2>1. Leaving(d)
    BY DEF Leaving
  <2> QED  BY <1>4, <2>1, ReplyingDid DEF ReplyCarried
<1>6. Silent(d)
  BY <1>1 DEF Silent, ReplyCarried, Unanswered
<1>7. Counted(d)
  BY <1>1 DEF Counted, ReplyCarried
<1>8. /\ HeaderOf(d) = HeaderOf(c) /\ AnswerOf(d) = AnswerOf(c)
      /\ \A k : PartAt(d, k) = PartAt(c, k)
      /\ (CutOff(d) <=> CutOff(c))
  BY <1>1, SameReplyParts
<1>9. Decoding(d)
  BY <1>1, <1>4, <1>8, <1>3 DEF Decoding, ReplyCarried
<1>10. AtLast(d)
  BY <1>1, <1>3 DEF AtLast, ReplyCarried
<1>11. Unmarked(d)
  BY <1>1 DEF Unmarked, ReplyCarried, CallerDid, Returned
<1>12. Noted(d)
  BY <1>1, <1>2, <1>8, <1>3 DEF Noted
<1> QED  BY <1>5, <1>6, <1>7, <1>9, <1>10, <1>11, <1>12 DEF ReplyCarried
(* A call fails: it cannot be written, or Go meets the end or a frame that is cut. *)
LEMMA WriteFails ==
    ASSUME NEW c \in CallType, NEW d \in CallType, Impls, ReplyCarried(c), Asking(c), Noted(c),
           Closing(c), CannotWrite(c, "caller"),
           CallerDid(c, d), c.stage = "writing", d.stage = "failed", d.values = c.values,
           d.in = c.in, d.todo = c.todo, d.error = c.error, d.hijacked = c.hijacked,
           d.reply = c.reply, d.got = c.got
    PROVE  ReplyCarried(d) /\ Noted(d) /\ FailsBecause(d)
<1>1. /\ d.ran = c.ran /\ d.replies = c.replies /\ d.responder = c.responder
      /\ d.phase = c.phase /\ d.count = c.count /\ d.size = c.size /\ FlagsUp(c, d)
      /\ d.out["responder"] = c.out["responder"] /\ d.sentClose["responder"] = c.sentClose["responder"]
  BY DEF CallerDid, ServerSame
<1>2. c.got = <<>> /\ c.reply = "none" /\ ~c.hijacked /\ c.todo # <<>>
  BY DEF Asking
<1>3. Go("caller") => c.values["caller"] = <<>> /\ c.phase["caller"] # "body"
  BY DEF Counted, ReplyCarried
<1>4. ReplyCarried(d)
  <2>1. d.in["caller"] = c.in["caller"] /\ d.values["caller"] = c.values["caller"]
    OBVIOUS
  <2>2. (Returned(c) => Returned(d)) /\ (Unanswered(d) => Unanswered(c))
    BY <1>1 DEF Returned, Unanswered
  <2>3. Go("caller") => d.values["caller"] = <<>> /\ d.phase["caller"] # "body"
    BY <1>1, <1>3
  <2>4. d.reply # "EOF" /\ ~(d.reply # c.reply)
    BY <1>2
  <2> QED  BY <1>1, <1>2, <2>1, <2>2, <2>3, <2>4, ReplyFails
<1>5. Noted(d)
  <2>1. Len(d.got) = 0
    BY <1>2
  <2> QED  BY <1>2, <2>1 DEF Noted
<1>6. ended["caller"] \/ c.sentClose["responder"]
  <2>1. Shut(c, "caller") /\ ~HasClosed(c, "caller") /\ Other("caller") = "responder"
    BY TheSides DEF Closing, HasClosed
  <2>2. Mock => ~Go("caller")
    BY GoOrNot
  <2> QED  BY <2>1, <2>2 DEF CannotWrite, Shut, Heard
<1> QED  BY <1>1, <1>2, <1>4, <1>5, <1>6 DEF FailsBecause

LEMMA DecodeFails ==
    ASSUME NEW c \in CallType, NEW d \in CallType, Impls, ReplyCarried(c), Asking(c), Noted(c),
           Serving(c), CallerDid(c, d), Go("caller"), NEW h, FirstValue(c, h), d.stage = "failed",
           d.values["caller"] = Tail(c.values["caller"]), d.got = c.got,
           \/ /\ c.stage = "header" /\ Failed(h)
              /\ d.hijacked = h.hijacked /\ d.reply = c.reply
           \/ /\ c.stage = "reply"
              /\ \/ h.kind = "throws"
                 \/ h.kind = "EOF" /\ setting.wanted
                 \/ h.kind = "value" /\ ~setting.wanted
              /\ d.hijacked = c.hijacked /\ d.reply = h.kind
    PROVE  ReplyCarried(d) /\ Noted(d) /\ FailsBecause(d)
<1>1. /\ d.ran = c.ran /\ d.replies = c.replies /\ d.responder = c.responder
      /\ d.phase = c.phase /\ d.count = c.count /\ d.size = c.size /\ FlagsUp(c, d)
      /\ d.out["responder"] = c.out["responder"] /\ d.in["caller"] = c.in["caller"]
  BY DEF CallerDid, ServerSame
<1>2. c.got = <<>> /\ c.reply = "none"
  BY DEF Asking
<1>3. PICK old \in Seq(ValueType) : old = c.values["caller"] /\ old # <<>>
  <2>1. c.values["caller"] \in Seq(ValueType)
    BY Fields, TheSides
  <2> QED  BY <2>1 DEF FirstValue
<1>4. Tail(old) = <<>> /\ c.phase["caller"] # "body"
  <2>1. Len(old) <= 1 /\ c.phase["caller"] # "body"
    BY <1>3 DEF Counted, ReplyCarried
  <2>2. Len(Tail(old)) = Len(old) - 1 /\ Len(old) \in Nat \ {0} /\ Tail(old) \in Seq(ValueType)
    BY <1>3, OneLess
  <2>3. Len(Tail(old)) = 0
    BY <2>1, <2>2
  <2> QED  BY <2>1, <2>2, <2>3
<1>5. Returns(c.ran) = 1
  BY GoOrNot DEF Serving
<1>6. /\ d.reply # c.reply => c.stage = "reply"
      /\ d.reply = "EOF" => c.reply = "EOF" \/ c.values["caller"] = <<Plain("EOF")>>
      /\ d.hijacked => c.hijacked
      /\ \/ ended["caller"] \/ (CutOff(c) /\ d.reply = "throws")
         \/ Empty(c) /\ setting.wanted /\ d.reply = "EOF"
         \/ ~IsError(c.ran) /\ ~setting.wanted /\ d.reply = "value"
  <2>1. CASE c.stage = "header"
    <3>1. ended["caller"] /\ old = <<Plain("EOF")>>
      BY <1>3, <1>5, <2>1, HeaderCases
    <3>2. ~h.hijacked
      <4>1. h = Head(<<Plain("EOF")>>)
        BY <1>3, <3>1 DEF FirstValue
      <4>2. h = Plain("EOF")
        BY <4>1
      <4> QED  BY <4>2 DEF Plain, Value
    <3> QED  BY <1>2, <2>1, <3>1, <3>2
  <2>2. CASE c.stage = "reply"
    <3>1. /\ h.kind = "EOF" => old = <<Plain("EOF")>> /\ (ended["caller"] \/ Empty(c))
          /\ h.kind = "throws" => CutOff(c)
          /\ h.kind = "value" => ~IsError(c.ran)
      BY <1>3, <1>5, <2>2, AnswerCases, ReplyValues DEF TookEmpty
    <3> QED  BY <1>3, <2>2, <3>1
  <2> QED  BY <2>1, <2>2
<1>7. ReplyCarried(d)
  <2>1. d.values["caller"] = <<>>
    BY <1>3, <1>4
  <2>2. (Returned(c) => Returned(d)) /\ (Unanswered(d) => Unanswered(c))
    BY <1>1 DEF Returned, Unanswered
  <2> QED  BY <1>1, <1>4, <1>6, <2>1, <2>2, ReplyFails
<1>8. Noted(d)
  <2>1. Len(d.got) = 0
    BY <1>2
  <2> QED  BY <1>2, <2>1 DEF Noted
<1>9. (CutOff(c) <=> CutOff(d)) /\ (Empty(c) <=> Empty(d)) /\ d.ran = c.ran
  BY <1>1, SameReplyParts
<1> QED  BY <1>6, <1>7, <1>8, <1>9 DEF FailsBecause

(* The application takes what has come on a channel that was hijacked. *)
LEMMA RawTaken ==
    ASSUME NEW c \in CallType, NEW d \in CallType, Impls, ReplyCarried(c), Asking(c), Noted(c),
           Closing(c), ServerSame(c, d), CodecSame(c, d), ChannelSame(c, d),
           c.stage = "returned", c.hijacked, c.in["caller"] # <<>>,
           Go("caller") \/ c.phase["caller"] = "stopped",
           d.stage = c.stage, d.error = c.error, d.hijacked = c.hijacked, d.reply = c.reply,
           d.in["caller"] = Tail(c.in["caller"]), d.got = Append(c.got, Head(c.in["caller"]))
    PROVE  ReplyCarried(d) /\ Noted(d)
<1>1. /\ d.ran = c.ran /\ d.replies = c.replies /\ d.responder = c.responder /\ d.raw = c.raw
      /\ d.phase = c.phase /\ d.count = c.count /\ d.size = c.size /\ d.values = c.values
      /\ d.out = c.out /\ d.late = c.late /\ d.sentClose = c.sentClose /\ d.gone = c.gone
      /\ d.finishing = c.finishing
  BY DEF ServerSame, CodecSame, ChannelSame
<1>2. c.ran = "hijack" /\ Returns(c.ran) = 1 /\ c.ran # "none"
  <2>1. c.ran = "hijack"
    BY DEF ReplyCarried, Unmarked
  <2> QED  BY <2>1 DEF Returns
<1>3. ~(c.reply = "EOF" /\ ~TookEmpty(c))
  <2>1. SUFFICES ASSUME c.reply = "EOF", ~TookEmpty(c)  PROVE FALSE
    OBVIOUS
  <2>2. Go("caller")
    <3>1. AnswerOf(c).kind # "EOF"
      BY ReplyValues
    <3> QED  BY <1>2, <2>1, <3>1 DEF Noted
  <2> QED  BY <1>2, <2>1, <2>2 DEF AtLast, ReplyCarried
<1>4. c.count["caller"] = 2 /\ c.values["caller"] = <<>>
  BY <1>2, <1>3 DEF Decoding, ReplyCarried, TookEmpty
<1>5. ~Lost(c) \/ (~Go("caller") /\ TookEmpty(c))
  <2>1. ~(~Go("caller") /\ c.gone["caller"])
    BY TheSides DEF Closing, Shut
  <2> QED  BY <1>2, <1>3, <1>4, <2>1 DEF Lost
<1>6. c.phase["caller"] # "body"
  <2>1. Go("caller") /\ c.phase["caller"] = "body" => c.count["caller"] < 2
    BY <1>2, <1>5 DEF Decoding, ReplyCarried
  <2> QED  BY <1>4, <2>1
<1>7. PICK p \in Seq(PartType) : p = c.in["caller"] /\ p # <<>>
  BY Fields, TheSides
<1>8. PICK g \in Seq(PartType) : g = c.got
  BY Fields
<1>9. /\ Tail(p) \in Seq(PartType) /\ Len(Tail(p)) = Len(p) - 1 /\ Len(p) \in Nat \ {0}
      /\ \A n \in 1 .. Len(Tail(p)) : Tail(p)[n] = p[n + 1]
      /\ Head(p) \in PartType /\ Head(p) = p[1]
  BY <1>7, OneLess
<1>10. /\ Append(g, Head(p)) \in Seq(PartType) /\ Len(Append(g, Head(p))) = Len(g) + 1
       /\ Append(g, Head(p))[Len(g) + 1] = Head(p)
       /\ \A n \in 1 .. Len(g) : Append(g, Head(p))[n] = g[n]
       /\ Len(g) \in Nat
  BY <1>9, OneMore
<1>11. PICK l \in {3, 4, 5} : l = ReplyLength(c)
  <2>1. ReplyLength(c) \in {3, 4, 5}
    BY Fields, ReplyParts
  <2> QED  BY <2>1
<1>12. /\ ReplyLength(d) = l /\ ReplyMessages(d) = ReplyMessages(c)
       /\ \A k : PartAt(d, k) = PartAt(c, k) /\ MessageAt(d, k) = MessageAt(c, k)
       /\ HeaderOf(d) = HeaderOf(c) /\ AnswerOf(d) = AnswerOf(c) /\ (CutOff(d) <=> CutOff(c))
       /\ (Empty(d) <=> Empty(c)) /\ (TookEmpty(d) <=> TookEmpty(c))
  <2>1. d.ran = c.ran /\ d.count["caller"] = c.count["caller"]
    BY <1>1
  <2>2. /\ ReplyLength(d) = ReplyLength(c) /\ ReplyMessages(d) = ReplyMessages(c)
        /\ \A k : PartAt(d, k) = PartAt(c, k) /\ MessageAt(d, k) = MessageAt(c, k)
        /\ HeaderOf(d) = HeaderOf(c) /\ AnswerOf(d) = AnswerOf(c) /\ (CutOff(d) <=> CutOff(c))
        /\ (Empty(d) <=> Empty(c))
        /\ d.count["caller"] = c.count["caller"] => (TookEmpty(d) <=> TookEmpty(c))
    BY <2>1, SameReplyParts
  <2> QED  BY <1>11, <2>1, <2>2
<1>13. PICK r \in Nat : r = l + Len(g)
  <2>1. l + Len(g) \in Nat
    BY <1>10
  <2> QED  BY <2>1
<1>14. Read(c) = r /\ Read(d) = r + 1
  <2>1. Read(c) = r
    BY <1>4, <1>6, <1>8, <1>11, <1>13 DEF Read
  <2>2. Read(d) = l + Len(d.got)
    BY <1>1, <1>4, <1>6, <1>12 DEF Read
  <2>3. Len(d.got) = Len(g) + 1
    BY <1>7, <1>8, <1>10
  <2>4. l + (Len(g) + 1) = r + 1
    BY <1>10, <1>13
  <2> QED  BY <2>1, <2>2, <2>3, <2>4
<1>15. ASSUME ~Lost(c), NEW e \in Nat, ReplySoFar(c, e)
       PROVE  Head(p) = RawPart(Len(g) + 1) /\ ReplySoFar(d, e)
  <2>1. PartsOf(e) = r + Len(p) /\ \A n \in 1 .. Len(p) : p[n] = PartAt(c, r + n)
    BY <1>7, <1>14, <1>15 DEF ReplySoFar
  <2>2. Head(p) = RawPart(Len(g) + 1)
    <3>1. 1 \in 1 .. Len(p)
      BY <1>9
    <3>2. p[1] = PartAt(c, r + 1)
      BY <2>1, <3>1
    <3>3. r + 1 > l /\ r + 1 - l = Len(g) + 1
      BY <1>10, <1>13
    <3>4. PICK k \in Nat : k = r + 1 /\ k > l /\ k - l = Len(g) + 1
      <4>1. r + 1 \in Nat
        OBVIOUS
      <4> QED  BY <3>3, <4>1
    <3>5. PartAt(c, k) = RawPart(k - l)
      <4>1. k > 3 /\ ~(k = 4 /\ l > 3) /\ ~(k <= l)
        BY <3>4
      <4> QED  BY <1>11, <3>4, <4>1 DEF PartAt
    <3> QED  BY <1>9, <3>2, <3>4, <3>5
  <2>3. PartsOf(e) = Read(d) + Len(d.in["caller"])
    <3>1. r + Len(p) = (r + 1) + (Len(p) - 1)
      BY <1>9
    <3> QED  BY <1>7, <1>9, <1>14, <2>1, <3>1
  <2>4. \A n \in 1 .. Len(d.in["caller"]) : d.in["caller"][n] = PartAt(c, Read(d) + n)
    <3>1. ASSUME NEW n \in 1 .. Len(Tail(p))  PROVE Tail(p)[n] = PartAt(c, (r + 1) + n)
      <4>1. n + 1 \in 1 .. Len(p) /\ r + (n + 1) = (r + 1) + n
        BY <1>9, <3>1
      <4>2. p[n + 1] = PartAt(c, r + (n + 1))
        BY <2>1, <4>1
      <4>3. Tail(p)[n] = p[n + 1]
        BY <1>9, <3>1
      <4> QED  BY <4>1, <4>2, <4>3
    <3> QED  BY <1>7, <1>14, <3>1
  <2>5. Sent(d) = Sent(c) /\ (Leaving(d) <=> Leaving(c))
    BY <1>1, <1>12 DEF Sent, Unanswered, Leaving
  <2>6. ReplyLength(d) = ReplyLength(c)
    BY <1>11, <1>12
  <2> QED  BY <1>1, <1>12, <1>15, <2>2, <2>3, <2>4, <2>5, <2>6 DEF ReplySoFar
<1>16. ~Lost(c) => \E e \in Nat : ReplySoFar(c, e)
  BY DEF Replying, ReplyCarried
<1>17. ~Lost(c) => Head(p) = RawPart(Len(g) + 1)
  BY <1>15, <1>16
<1>18. Lost(c) => Lost(d)
  BY <1>1, <1>5, <1>12 DEF Lost
<1>19. Replying(d)
  BY <1>15, <1>16, <1>18 DEF Replying
<1>20. Silent(d)
  BY <1>1 DEF Silent, ReplyCarried, Unanswered
<1>21. Counted(d)
  BY <1>1 DEF Counted, ReplyCarried
<1>22. Decoding(d)
  BY <1>1, <1>4, <1>6 DEF Decoding
<1>23. AtLast(d)
  <2>1. <<>> # <<Plain("EOF")>>
    OBVIOUS
  <2> QED  BY <1>1, <1>3, <1>4, <1>12, <2>1 DEF AtLast
<1>24. Unmarked(d)
  BY <1>1, <1>2 DEF Unmarked, ReplyCarried, Returned
<1>25. Go("caller") \/ ~Empty(c) => \A n \in 1 .. Len(d.got) : d.got[n] = RawPart(n)
  <2>1. SUFFICES ASSUME Go("caller") \/ ~Empty(c)
                 PROVE  \A n \in 1 .. Len(d.got) : d.got[n] = RawPart(n)
    OBVIOUS
  <2>2. Head(p) = RawPart(Len(g) + 1)
    BY <1>5, <1>17, <2>1 DEF TookEmpty
  <2>3. \A n \in 1 .. Len(g) : g[n] = RawPart(n)
    BY <1>8, <2>1 DEF Noted
  <2>4. \A n \in 1 .. Len(Append(g, Head(p))) : n \in 1 .. Len(g) \/ n = Len(g) + 1
    BY <1>10
  <2> QED  BY <1>7, <1>8, <1>10, <2>3, <2>4, <2>2
<1>26. Noted(d)
  BY <1>1, <1>12, <1>25 DEF Noted
<1> QED  BY <1>19, <1>20, <1>21, <1>22, <1>23, <1>24, <1>26 DEF ReplyCarried

=============================================================================
