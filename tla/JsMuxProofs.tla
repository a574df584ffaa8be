---------------------------- MODULE JsMuxProofs -----------------------------
(***************************************************************************)
(* Theorems about JsMux: the invariant of JsMuxInvariant, and what follows *)
(* from it for any windows, any number of channels and any amount of data. *)
(***************************************************************************)
EXTENDS JsMuxInvariant, SequenceTheorems, TLAPS

-----------------------------------------------------------------------------
(* Sequences *)

LEMMA AppendOne ==
    ASSUME NEW S, NEW s \in Seq(S), NEW x \in S
    PROVE  /\ Append(s, x) \in Seq(S)
           /\ Len(s) \in Nat
           /\ Len(Append(s, x)) = Len(s) + 1
           /\ \A i \in 1 .. Len(s) : Append(s, x)[i] = s[i]
           /\ Append(s, x)[Len(s) + 1] = x
           /\ DOMAIN s = 1 .. Len(s)
  BY AppendProperties

LEMMA TailOne ==
    ASSUME NEW S, NEW s \in Seq(S), s # <<>>
    PROVE  /\ Tail(s) \in Seq(S)
           /\ Head(s) = s[1] /\ s[1] \in S
           /\ Len(s) \in Nat \ {0}
           /\ Len(Tail(s)) = Len(s) - 1
           /\ \A i \in 1 .. Len(s) - 1 : Tail(s)[i] = s[i + 1]
  BY HeadTailProperties, EmptySeq

LEMMA Elements ==
    ASSUME NEW S, NEW s \in Seq(S)
    PROVE  /\ Len(s) \in Nat /\ DOMAIN s = 1 .. Len(s)
           /\ \A i \in 1 .. Len(s) : s[i] \in S
  BY ElementOfSeq

LEMMA Listing ==
    ASSUME NEW S, NEW n \in Nat, NEW s \in [1 .. n -> S]
    PROVE  s \in Seq(S) /\ Len(s) = n
<1>1. s \in Seq(S)
  BY SeqDef
<1>2. DOMAIN s = 1 .. n
  OBVIOUS
<1> QED  BY <1>1, <1>2, LenProperties

LEMMA ChannelFields ==
    ASSUME NEW c \in ChannelType
    PROVE  /\ c.mine \in BOOLEAN /\ c.stage \in {"opening", "incoming", "held", "failed"}
           /\ c.remote \in Nat /\ c.sent \in Nat /\ c.closes \in Nat
           /\ c.myWindow \in Int /\ 0 <= c.myWindow /\ c.myWindow <= Window /\ Window \in Nat
           /\ c.gone \in BOOLEAN /\ c.readyClosed \in BOOLEAN /\ c.over \in BOOLEAN
           /\ c.got \in Seq(Nat) /\ Len(c.got) \in Nat
           /\ c.readBuf \in Seq(Nat) /\ Len(c.readBuf) \in Nat
           /\ c.readers \in Seq(Nat)
           /\ c.ready \in Seq(BOOLEAN) /\ Len(c.ready) \in Nat
           /\ c.waiters \in Seq({"open", "close"}) /\ Len(c.waiters) \in Nat
  BY WindowAssumption DEF ChannelType

LEMMA TotalFacts ==
    ASSUME NEW s \in Seq(Nat), NEW t \in Seq(Nat)
    PROVE  /\ Total(s, t) = Len(s) + Len(t) /\ Total(s, t) \in Nat
           /\ Total(s, <<>>) \in Nat /\ Total(s, <<>>) <= Total(s, t)
  BY DEF Total

(* The first n bytes that wait are read: all are still in a row. *)
LEMMA InRowMoved ==
    ASSUME NEW s \in Seq(Nat), NEW t \in Seq(Nat), NEW n \in 0 .. Len(t), InRow(s, t),
           NEW u \in Seq(Nat), Len(u) = Len(s) + n,
           \A i \in 1 .. Len(s) : u[i] = s[i], \A i \in 1 .. n : u[Len(s) + i] = t[i],
           NEW v \in Seq(Nat), Len(v) = Len(t) - n, \A i \in 1 .. Len(t) - n : v[i] = t[n + i]
    PROVE  InRow(u, v)
<1>1. Len(s) \in Nat /\ Len(t) \in Nat
  OBVIOUS
<1>2. ASSUME NEW i \in 1 .. Len(u) PROVE u[i] = i
  <2>1. CASE i \in 1 .. Len(s)
    BY <2>1 DEF InRow
  <2>2. CASE i \notin 1 .. Len(s)
    <3>1. PICK j \in 1 .. n : i = Len(s) + j
      <4>1. i - Len(s) \in 1 .. n /\ i = Len(s) + (i - Len(s))
        BY <1>1, <2>2
      <4> QED  BY <4>1
    <3>2. j \in 1 .. Len(t)
      BY <1>1
    <3>3. u[i] = t[j] /\ t[j] = Len(s) + j
      BY <3>1, <3>2 DEF InRow
    <3> QED  BY <3>1, <3>3
  <2> QED  BY <2>1, <2>2
<1>3. ASSUME NEW i \in 1 .. Len(v) PROVE v[i] = Len(u) + i
  <2>1. n + i \in 1 .. Len(t) /\ v[i] = t[n + i]
    BY <1>1
  <2>2. t[n + i] = Len(s) + (n + i)
    BY <2>1 DEF InRow
  <2> QED  BY <1>1, <2>1, <2>2
<1> QED  BY <1>2, <1>3 DEF InRow

(* What comes in is the continuation of what has come. *)
LEMMA InRowAdded ==
    ASSUME NEW s \in Seq(Nat), NEW t \in Seq(Nat), NEW data \in Seq(Nat), InRow(s, t),
           \A n \in 1 .. Len(data) : data[n] = Total(s, t) + n,
           NEW v \in Seq(Nat), Len(v) = Len(t) + Len(data),
           \A i \in 1 .. Len(t) : v[i] = t[i], \A i \in 1 .. Len(data) : v[Len(t) + i] = data[i]
    PROVE  InRow(s, v)
<1>1. Len(s) \in Nat /\ Len(t) \in Nat /\ Len(data) \in Nat
  OBVIOUS
<1>2. ASSUME NEW i \in 1 .. Len(v) PROVE v[i] = Len(s) + i
  <2>1. CASE i \in 1 .. Len(t)
    BY <2>1 DEF InRow
  <2>2. CASE i \notin 1 .. Len(t)
    <3>1. PICK j \in 1 .. Len(data) : i = Len(t) + j
      <4>1. i - Len(t) \in 1 .. Len(data) /\ i = Len(t) + (i - Len(t))
        BY <1>1, <2>2
      <4> QED  BY <4>1
    <3>2. v[i] = Total(s, t) + j
      BY <3>1
    <3>3. Total(s, t) = Len(s) + Len(t)
      BY DEF Total
    <3> QED  BY <1>1, <3>1, <3>2, <3>3
  <2> QED  BY <2>1, <2>2
<1>3. \A i \in 1 .. Len(s) : s[i] = i
  BY DEF InRow
<1> QED  BY <1>2, <1>3 DEF InRow

LEMMA MessageFields ==
    ASSUME NEW m \in MessageType
    PROVE  /\ m.op \in Ops /\ m.ok \in BOOLEAN /\ m.src \in Nat /\ m.to \in Nat
           /\ m.data \in Seq(Nat) /\ Len(m.data) \in Nat
  BY DEF MessageType

-----------------------------------------------------------------------------
(* What the operations on a channel change and what they keep *)

SameNumbers(c, d) == d.mine = c.mine /\ d.remote = c.remote

SameCloses(c, d) == d.sentClose = c.sentClose /\ d.gotClose = c.gotClose /\ d.closes = c.closes

SameSent(c, d) == d.sent = c.sent /\ d.over = c.over /\ d.sentEOF = c.sentEOF

SameTaken(c, d) == d.myWindow = c.myWindow /\ d.gotEOF = c.gotEOF

SameQueue(c, d) ==
    d.stage = c.stage /\ d.ready = c.ready /\ d.readyClosed = c.readyClosed /\ d.waiters = c.waiters

SameBuffer(c, d) ==
    /\ d.readBuf = c.readBuf /\ d.gone = c.gone /\ d.readers = c.readers
    /\ d.got = c.got /\ d.told = c.told

(* d is c after open or close has gone on with value. *)
GoneOn(c, d, who, value) ==
    /\ SameNumbers(c, d) /\ SameCloses(c, d) /\ SameSent(c, d) /\ SameTaken(c, d)
    /\ SameBuffer(c, d) /\ d.ready = c.ready /\ d.readyClosed = c.readyClosed
    /\ who = "open" => d.waiters = c.waiters
    /\ who = "open" /\ value = TRUE => d.stage = "held"
    /\ who = "open" /\ value = FALSE => d.stage = "failed"
    /\ who = "close" => d.waiters = Append(c.waiters, "close") /\ d.stage = c.stage

LEMMA ResumedFacts ==
    ASSUME NEW c \in ChannelType, NEW who \in {"open", "close"}, NEW value \in BOOLEAN,
           NEW d, d = Resumed(c, who, value)
    PROVE  d \in ChannelType /\ GoneOn(c, d, who, value)
<1>1. who = "close" => Append(c.waiters, "close") \in Seq({"open", "close"})
  BY AppendOne DEF ChannelType
<1>2. CASE who = "open"
  BY <1>2 DEF Resumed, GoneOn, ChannelType, SameNumbers, SameCloses, SameSent, SameTaken,
              SameBuffer
<1>3. CASE who = "close"
  BY <1>1, <1>3 DEF Resumed, GoneOn, ChannelType, SameNumbers, SameCloses, SameSent, SameTaken,
                    SameBuffer
<1> QED  BY <1>2, <1>3

(* d is c after ready has got value. *)
Pushed(c, d, value) ==
    /\ SameNumbers(c, d) /\ SameCloses(c, d) /\ SameSent(c, d) /\ SameTaken(c, d)
    /\ SameBuffer(c, d) /\ d.readyClosed = c.readyClosed
    /\ c.waiters = <<>> => d.waiters = <<>>
    /\ \A i \in 1 .. Len(d.waiters) :
         \E j \in 1 .. Len(c.waiters) : d.waiters[i] = c.waiters[j]
    /\ \A i \in 1 .. Len(d.ready) :
         d.ready[i] = value \/ \E j \in 1 .. Len(c.ready) : d.ready[i] = c.ready[j]
    /\ d.stage \in {c.stage, "failed"} \/ (value = TRUE /\ d.stage = "held")
    /\ \/ c.waiters # <<>> /\ c.waiters[1] = "close"
       \/ d.stage = "failed" \/ value = TRUE
       \/ \E i \in 1 .. Len(d.ready) : ~d.ready[i]

LEMMA PushFacts ==
    ASSUME NEW c \in ChannelType, NEW value \in BOOLEAN, NEW d, d = Push(c, value)
    PROVE  d \in ChannelType /\ Pushed(c, d, value)
<1>1. CASE c.waiters # <<>>
  <2> DEFINE b == [c EXCEPT !.waiters = Tail(c.waiters)]
             who == Head(c.waiters)
  <2>1. /\ Tail(c.waiters) \in Seq({"open", "close"}) /\ who \in {"open", "close"}
        /\ who = c.waiters[1]
        /\ Len(Tail(c.waiters)) = Len(c.waiters) - 1 /\ Len(c.waiters) \in Nat \ {0}
        /\ \A i \in 1 .. Len(c.waiters) - 1 : Tail(c.waiters)[i] = c.waiters[i + 1]
    BY <1>1, TailOne DEF ChannelType
  <2>2. /\ b \in ChannelType
        /\ SameNumbers(c, b) /\ SameCloses(c, b) /\ SameSent(c, b) /\ SameTaken(c, b)
        /\ SameBuffer(c, b) /\ b.readyClosed = c.readyClosed /\ b.ready = c.ready
        /\ b.stage = c.stage /\ b.waiters = Tail(c.waiters)
    BY <2>1 DEF ChannelType, SameNumbers, SameCloses, SameSent, SameTaken, SameBuffer
  <2>3. d = Resumed(b, who, value)
    BY <1>1 DEF Push
  <2> HIDE DEF b, who
  <2>4. d \in ChannelType /\ GoneOn(b, d, who, value)
    BY <2>1, <2>2, <2>3, ResumedFacts
  <2>5. /\ SameNumbers(c, d) /\ SameCloses(c, d) /\ SameSent(c, d) /\ SameTaken(c, d)
        /\ SameBuffer(c, d) /\ d.readyClosed = c.readyClosed
    BY <2>2, <2>4 DEF GoneOn, SameNumbers, SameCloses, SameSent, SameTaken, SameBuffer
  <2>6. \A i \in 1 .. Len(Tail(c.waiters)) :
          \E j \in 1 .. Len(c.waiters) : Tail(c.waiters)[i] = c.waiters[j]
    <3> TAKE i \in 1 .. Len(Tail(c.waiters))
    <3>1. i + 1 \in 1 .. Len(c.waiters) /\ Tail(c.waiters)[i] = c.waiters[i + 1]
      BY <2>1
    <3> QED  BY <3>1
  <2>7. \A i \in 1 .. Len(d.waiters) : \E j \in 1 .. Len(c.waiters) : d.waiters[i] = c.waiters[j]
    <3>1. CASE who = "open"
      <4>1. d.waiters = Tail(c.waiters)
        BY <2>2, <2>4, <3>1 DEF GoneOn
      <4> QED  BY <2>6, <4>1
    <3>2. CASE who = "close"
      <4> TAKE i \in 1 .. Len(d.waiters)
      <4>1. /\ d.waiters = Append(Tail(c.waiters), "close")
            /\ Len(d.waiters) = Len(Tail(c.waiters)) + 1
            /\ Len(Tail(c.waiters)) \in Nat
            /\ \A j \in 1 .. Len(Tail(c.waiters)) : d.waiters[j] = Tail(c.waiters)[j]
            /\ d.waiters[Len(Tail(c.waiters)) + 1] = "close"
        BY <2>1, <2>2, <2>4, <3>2, AppendOne DEF GoneOn
      <4>2. CASE i \in 1 .. Len(Tail(c.waiters))
        BY <2>6, <4>1, <4>2
      <4>3. CASE i = Len(Tail(c.waiters)) + 1
        <5>1. 1 \in 1 .. Len(c.waiters) /\ c.waiters[1] = "close"
          BY <2>1, <3>2
        <5> QED  BY <4>1, <4>3, <5>1
      <4> QED  BY <4>1, <4>2, <4>3
    <3> QED  BY <2>1, <3>1, <3>2
  <2>8. d.stage \in {c.stage, "failed"} \/ (value = TRUE /\ d.stage = "held")
    BY <2>1, <2>2, <2>4 DEF GoneOn
  <2>9. (who = "open" => d.stage = "failed" \/ value = TRUE)
    BY <2>4 DEF GoneOn
  <2>10. d.ready = c.ready
    BY <2>2, <2>4 DEF GoneOn
  <2> QED  BY <1>1, <2>1, <2>3, <2>4, <2>5, <2>7, <2>8, <2>9, <2>10 DEF Pushed
<1>2. CASE c.waiters = <<>>
  <2>1. d = [c EXCEPT !.ready = Append(c.ready, value)]
    BY <1>2 DEF Push
  <2>2. /\ Append(c.ready, value) \in Seq(BOOLEAN) /\ Len(c.ready) \in Nat
        /\ Len(Append(c.ready, value)) = Len(c.ready) + 1
        /\ \A i \in 1 .. Len(c.ready) : Append(c.ready, value)[i] = c.ready[i]
        /\ Append(c.ready, value)[Len(c.ready) + 1] = value
    BY AppendOne DEF ChannelType
  <2>3. /\ d \in ChannelType
        /\ SameNumbers(c, d) /\ SameCloses(c, d) /\ SameSent(c, d) /\ SameTaken(c, d)
        /\ SameBuffer(c, d) /\ d.readyClosed = c.readyClosed
        /\ d.waiters = c.waiters /\ d.stage = c.stage
        /\ d.ready = Append(c.ready, value)
    <3>1. d \in ChannelType
      BY <2>1, <2>2 DEF ChannelType
    <3>2. /\ SameNumbers(c, d) /\ SameCloses(c, d) /\ SameSent(c, d)
          /\ d.waiters = c.waiters /\ d.stage = c.stage
      BY <2>1 DEF ChannelType, SameNumbers, SameCloses, SameSent
    <3>3. /\ SameTaken(c, d) /\ SameBuffer(c, d) /\ d.readyClosed = c.readyClosed
          /\ d.ready = Append(c.ready, value)
      BY <2>1 DEF ChannelType, SameTaken, SameBuffer
    <3> QED  BY <3>1, <3>2, <3>3
  <2>4. \A i \in 1 .. Len(d.ready) :
          d.ready[i] = value \/ \E j \in 1 .. Len(c.ready) : d.ready[i] = c.ready[j]
    BY <2>2, <2>3
  <2>5. value = TRUE \/ \E i \in 1 .. Len(d.ready) : ~d.ready[i]
    <3>1. Len(c.ready) + 1 \in 1 .. Len(d.ready)
      BY <2>2, <2>3
    <3> QED  BY <3>1, <2>2, <2>3
  <2>6. \A i \in 1 .. Len(d.waiters) : \E j \in 1 .. Len(c.waiters) : d.waiters[i] = c.waiters[j]
    BY <2>3
  <2> QED  BY <1>2, <2>1, <2>3, <2>4, <2>5, <2>6 DEF Pushed
<1> QED  BY <1>1, <1>2

(* shift by open or by close of a channel. *)
LEMMA ShiftFacts ==
    ASSUME NEW c \in ChannelType, NEW who \in {"open", "close"}, NEW d, d = Shift(c, who)
    PROVE  /\ d \in ChannelType
           /\ SameNumbers(c, d) /\ SameCloses(c, d) /\ SameSent(c, d) /\ SameTaken(c, d)
           /\ SameBuffer(c, d) /\ d.readyClosed = c.readyClosed
           /\ c.readyClosed => d.waiters = c.waiters
           /\ \A i \in 1 .. Len(d.waiters) :
                d.waiters[i] = who \/ \E j \in 1 .. Len(c.waiters) : d.waiters[i] = c.waiters[j]
           /\ \A i \in 1 .. Len(d.ready) : \E j \in 1 .. Len(c.ready) : d.ready[i] = c.ready[j]
           /\ \/ d.stage \in {c.stage, "failed"}
              \/ d.stage = "held" /\ \E i \in 1 .. Len(c.ready) : c.ready[i]
           /\ who = "open" /\ (\E i \in 1 .. Len(c.ready) : ~c.ready[i])
                 /\ (\A i \in 1 .. Len(c.ready) : ~c.ready[i]) => d.stage = "failed"
           /\ d.stage # "failed" => c.stage # "failed" \/ \E i \in 1 .. Len(c.ready) : c.ready[i]
<1>1. CASE c.readyClosed
  <2>1. d = IF who = "open" THEN [c EXCEPT !.stage = "failed"] ELSE c
    BY <1>1 DEF Shift
  <2>2. /\ d \in ChannelType
        /\ SameNumbers(c, d) /\ SameCloses(c, d) /\ SameSent(c, d) /\ SameTaken(c, d)
        /\ SameBuffer(c, d) /\ d.readyClosed = c.readyClosed /\ d.ready = c.ready
        /\ d.waiters = c.waiters /\ d.stage \in {c.stage, "failed"}
        /\ who = "open" => d.stage = "failed"
    <3>1. CASE who = "open"
      <4>1. d = [c EXCEPT !.stage = "failed"]
        BY <2>1, <3>1
      <4> QED  BY <3>1, <4>1
         DEF ChannelType, SameNumbers, SameCloses, SameSent, SameTaken, SameBuffer
    <3>2. CASE who # "open"
      BY <2>1, <3>2 DEF SameNumbers, SameCloses, SameSent, SameTaken, SameBuffer
    <3> QED  BY <3>1, <3>2
  <2> QED  BY <1>1, <2>2
<1>2. CASE ~c.readyClosed /\ c.ready # <<>> /\ who = "open"
  <2> DEFINE b == [c EXCEPT !.ready = Tail(c.ready)]
             v == Head(c.ready)
  <2>1. d = Resumed(b, who, v)
    BY <1>2 DEF Shift
  <2>2. /\ Tail(c.ready) \in Seq(BOOLEAN) /\ v \in BOOLEAN /\ v = c.ready[1]
        /\ Len(Tail(c.ready)) = Len(c.ready) - 1 /\ Len(c.ready) \in Nat \ {0}
        /\ \A i \in 1 .. Len(c.ready) - 1 : Tail(c.ready)[i] = c.ready[i + 1]
    BY <1>2, TailOne DEF ChannelType
  <2>3. /\ b \in ChannelType
        /\ SameNumbers(c, b) /\ SameCloses(c, b) /\ SameSent(c, b) /\ SameTaken(c, b)
        /\ SameBuffer(c, b) /\ b.readyClosed = c.readyClosed /\ b.ready = Tail(c.ready)
        /\ b.stage = c.stage /\ b.waiters = c.waiters
    BY <2>2 DEF ChannelType, SameNumbers, SameCloses, SameSent, SameTaken, SameBuffer
  <2> HIDE DEF b, v
  <2>4. d \in ChannelType /\ GoneOn(b, d, who, v)
    BY <1>2, <2>1, <2>2, <2>3, ResumedFacts
  <2>5. /\ SameNumbers(c, d) /\ SameCloses(c, d) /\ SameSent(c, d) /\ SameTaken(c, d)
        /\ SameBuffer(c, d) /\ d.readyClosed = c.readyClosed
    BY <2>3, <2>4 DEF GoneOn, SameNumbers, SameCloses, SameSent, SameTaken, SameBuffer
  <2>6. \A i \in 1 .. Len(d.ready) : \E j \in 1 .. Len(c.ready) : d.ready[i] = c.ready[j]
    <3> TAKE i \in 1 .. Len(d.ready)
    <3>1. i + 1 \in 1 .. Len(c.ready) /\ d.ready[i] = c.ready[i + 1]
      BY <2>2, <2>3, <2>4 DEF GoneOn
    <3> QED  BY <3>1
  <2>7. 1 \in 1 .. Len(c.ready)
    BY <2>2
  <2>8. d.waiters = c.waiters
    BY <1>2, <2>3, <2>4 DEF GoneOn
  <2>9. (d.stage = "held" /\ c.ready[1]) \/ (d.stage = "failed" /\ ~c.ready[1])
    BY <1>2, <2>2, <2>4 DEF GoneOn
  <2> QED  BY <1>2, <2>1, <2>4, <2>5, <2>6, <2>7, <2>8, <2>9
<1>3. CASE ~c.readyClosed /\ ~(c.ready # <<>> /\ who = "open")
  <2>1. d = [c EXCEPT !.ready = IF who = "close" THEN <<>> ELSE @,
                      !.waiters = Append(@, who)]
    BY <1>3 DEF Shift
  <2>2. /\ Append(c.waiters, who) \in Seq({"open", "close"}) /\ Len(c.waiters) \in Nat
        /\ Len(Append(c.waiters, who)) = Len(c.waiters) + 1
        /\ \A i \in 1 .. Len(c.waiters) : Append(c.waiters, who)[i] = c.waiters[i]
        /\ Append(c.waiters, who)[Len(c.waiters) + 1] = who
    BY AppendOne DEF ChannelType
  <2>3. <<>> \in Seq(BOOLEAN) /\ Len(<<>>) = 0
    OBVIOUS
  <2>4. /\ d \in ChannelType
        /\ SameNumbers(c, d) /\ SameCloses(c, d) /\ SameSent(c, d) /\ SameTaken(c, d)
        /\ SameBuffer(c, d) /\ d.readyClosed = c.readyClosed
        /\ d.ready = (IF who = "close" THEN <<>> ELSE c.ready)
        /\ d.waiters = Append(c.waiters, who) /\ d.stage = c.stage
    <3>1. PICK ready \in Seq(BOOLEAN) : ready = IF who = "close" THEN <<>> ELSE c.ready
      BY <2>3 DEF ChannelType
    <3>2. d = [c EXCEPT !.ready = ready, !.waiters = Append(c.waiters, who)]
      BY <2>1, <3>1
    <3>3. d \in ChannelType
      BY <2>2, <3>2 DEF ChannelType
    <3>4. SameNumbers(c, d) /\ SameCloses(c, d) /\ SameSent(c, d) /\ d.stage = c.stage
      BY <3>2 DEF ChannelType, SameNumbers, SameCloses, SameSent
    <3>5. SameTaken(c, d) /\ SameBuffer(c, d) /\ d.readyClosed = c.readyClosed
      BY <3>2 DEF ChannelType, SameTaken, SameBuffer
    <3>6. d.ready = ready /\ d.waiters = Append(c.waiters, who)
      BY <3>2 DEF ChannelType
    <3> QED  BY <3>1, <3>3, <3>4, <3>5, <3>6
  <2>5. \A i \in 1 .. Len(d.waiters) :
          d.waiters[i] = who \/ \E j \in 1 .. Len(c.waiters) : d.waiters[i] = c.waiters[j]
    BY <2>2, <2>4
  <2>6. \A i \in 1 .. Len(d.ready) : \E j \in 1 .. Len(c.ready) : d.ready[i] = c.ready[j]
    BY <2>3, <2>4
  <2>7. who = "open" => Len(c.ready) = 0
    BY <1>3
  <2> QED  BY <1>3, <2>1, <2>4, <2>5, <2>6, <2>7
<1> QED  BY <1>1, <1>2, <1>3

-----------------------------------------------------------------------------
(* Reading *)

(* d is c after a read has taken from readBuf, or has been told of the end, or *)
(* waits.                                                                      *)
ReadOn(c, d) ==
    /\ SameNumbers(c, d) /\ SameCloses(c, d) /\ SameSent(c, d) /\ SameTaken(c, d)
    /\ SameQueue(c, d)
    /\ Total(d.got, d.readBuf) = Total(c.got, c.readBuf)
    /\ InRow(c.got, c.readBuf) => InRow(d.got, d.readBuf)
    /\ c.gone => d.gone /\ d.got = c.got /\ d.readBuf = c.readBuf
    /\ c.gone /\ c.readers = <<>> => d.readers = <<>>
    /\ d.gone /\ ~c.gone => c.gotEOF /\ d.readBuf = <<>>
    /\ d.told => c.told \/ c.gone

LEMMA TakenFacts ==
    ASSUME NEW c \in ChannelType, NEW n \in 0 .. Len(c.readBuf), ~c.gone, NEW d, d = Taken(c, n)
    PROVE  d \in ChannelType /\ ReadOn(c, d) /\ ~d.gone
<1> DEFINE taken == SubSeq(c.readBuf, 1, n)
           left == SubSeq(c.readBuf, n + 1, Len(c.readBuf))
<1>1. c.readBuf \in Seq(Nat) /\ Len(c.readBuf) \in Nat /\ c.got \in Seq(Nat) /\ Len(c.got) \in Nat
  BY DEF ChannelType
<1>2. /\ taken \in Seq(Nat) /\ Len(taken) = n
      /\ \A i \in 1 .. n : taken[i] = c.readBuf[i]
  BY <1>1, SubSeqProperties
<1>3. /\ left \in Seq(Nat) /\ Len(left) = Len(c.readBuf) - n
      /\ \A i \in 1 .. Len(c.readBuf) - n : left[i] = c.readBuf[n + i]
  BY <1>1, SubSeqProperties
<1>4. d = [c EXCEPT !.got = c.got \o taken, !.readBuf = left]
  BY DEF Taken
<1> HIDE DEF taken, left
<1>5. /\ c.got \o taken \in Seq(Nat)
      /\ Len(c.got \o taken) = Len(c.got) + n
      /\ \A i \in 1 .. Len(c.got) + n :
            (c.got \o taken)[i] = IF i <= Len(c.got) THEN c.got[i] ELSE taken[i - Len(c.got)]
  BY <1>1, <1>2, ConcatProperties
<1> DEFINE g == c.got \o taken
<1> HIDE DEF g
<1>6. /\ d \in ChannelType /\ d.got = g /\ d.readBuf = left
      /\ SameNumbers(c, d) /\ SameCloses(c, d) /\ SameSent(c, d) /\ SameTaken(c, d)
      /\ SameQueue(c, d) /\ d.gone = c.gone /\ d.told = c.told
  <2>1. d = [c EXCEPT !.got = g, !.readBuf = left] /\ g \in Seq(Nat)
    BY <1>4, <1>5 DEF g
  <2>2. d \in ChannelType
    BY <1>3, <2>1 DEF ChannelType
  <2>3. d.got = g /\ d.readBuf = left /\ d.gone = c.gone /\ d.told = c.told
    BY <2>1 DEF ChannelType
  <2>4. SameNumbers(c, d) /\ SameCloses(c, d) /\ SameSent(c, d)
    BY <2>1 DEF ChannelType, SameNumbers, SameCloses, SameSent
  <2>5. SameTaken(c, d) /\ SameQueue(c, d)
    BY <2>1 DEF ChannelType, SameTaken, SameQueue
  <2> QED  BY <2>2, <2>3, <2>4, <2>5
<1>7. Total(d.got, d.readBuf) = Total(c.got, c.readBuf)
  <2>1. g \in Seq(Nat) /\ Len(g) = Len(c.got) + n /\ n \in Nat
    BY <1>1, <1>5 DEF g
  <2>2. Total(g, left) = Total(c.got, c.readBuf)
    <3>1. PICK s, t : s = c.got /\ t = c.readBuf
      OBVIOUS
    <3>2. s \in Seq(Nat) /\ t \in Seq(Nat) /\ Len(g) = Len(s) + n /\ Len(left) = Len(t) - n
      BY <1>1, <1>3, <2>1, <3>1
    <3>3. Total(g, left) = Len(g) + Len(left) /\ Total(s, t) = Len(s) + Len(t)
      BY DEF Total
    <3>4. Len(s) \in Nat /\ Len(t) \in Nat /\ n \in Nat
      BY <2>1, <3>2
    <3>5. Total(g, left) = Total(s, t)
      BY <3>2, <3>3, <3>4
    <3> QED  BY <3>1, <3>5
  <2> QED  BY <1>6, <2>2
<1>8. ASSUME InRow(c.got, c.readBuf) PROVE InRow(d.got, d.readBuf)
  <2>1. \A i \in 1 .. Len(c.got) : g[i] = c.got[i]
    BY <1>1, <1>5 DEF g
  <2>3. ASSUME NEW i \in 1 .. n PROVE g[Len(c.got) + i] = c.readBuf[i]
    <3>1. Len(c.got) + i \in 1 .. Len(c.got) + n /\ ~(Len(c.got) + i <= Len(c.got))
          /\ (Len(c.got) + i) - Len(c.got) = i
      BY <1>1
    <3> QED  BY <1>2, <1>5, <3>1 DEF g
  <2>2. InRow(g, left)
    BY <1>1, <1>3, <1>5, <1>8, <2>1, <2>3, InRowMoved DEF g
  <2> QED  BY <1>6, <2>2
<1> QED  BY <1>6, <1>7, <1>8 DEF ReadOn

LEMMA EndIfEmptyFacts ==
    ASSUME NEW c \in ChannelType, NEW d, d = EndIfEmpty(c)
    PROVE  /\ d \in ChannelType
           /\ SameNumbers(c, d) /\ SameCloses(c, d) /\ SameSent(c, d) /\ SameTaken(c, d)
           /\ SameQueue(c, d) /\ d.got = c.got /\ d.readBuf = c.readBuf /\ d.told = c.told
           /\ d.gone = (c.gone \/ (c.readBuf = <<>> /\ c.gotEOF))
<1>1. PICK gone \in BOOLEAN : gone = (c.gone \/ (c.readBuf = <<>> /\ c.gotEOF))
  OBVIOUS
<1>2. d = [c EXCEPT !.gone = gone]
  <2>1. c.gone \in BOOLEAN
    BY DEF ChannelType
  <2> QED  BY <1>1, <2>1 DEF EndIfEmpty
<1>3. d \in ChannelType
  BY <1>2 DEF ChannelType
<1>4. SameNumbers(c, d) /\ SameCloses(c, d) /\ SameSent(c, d)
  BY <1>2 DEF ChannelType, SameNumbers, SameCloses, SameSent
<1>5. /\ SameTaken(c, d) /\ SameQueue(c, d)
      /\ d.got = c.got /\ d.readBuf = c.readBuf /\ d.told = c.told
  BY <1>2 DEF ChannelType, SameTaken, SameQueue
<1>6. d.gone = gone
  BY <1>2 DEF ChannelType
<1> QED  BY <1>1, <1>3, <1>4, <1>5, <1>6

LEMMA TakenEnd ==
    ASSUME NEW c \in ChannelType, NEW n \in 0 .. Len(c.readBuf), ~c.gone,
           NEW d, d = EndIfEmpty(Taken(c, n))
    PROVE  d \in ChannelType /\ ReadOn(c, d)
<1> DEFINE b == Taken(c, n)
<1>1. b \in ChannelType /\ ReadOn(c, b) /\ ~b.gone
  BY TakenFacts
<1>2. d = EndIfEmpty(b)
  OBVIOUS
<1> HIDE DEF b
<1>3. /\ d \in ChannelType
      /\ SameNumbers(b, d) /\ SameCloses(b, d) /\ SameSent(b, d) /\ SameTaken(b, d)
      /\ SameQueue(b, d) /\ d.got = b.got /\ d.readBuf = b.readBuf /\ d.told = b.told
      /\ d.gone = (b.gone \/ (b.readBuf = <<>> /\ b.gotEOF))
  BY <1>1, <1>2, EndIfEmptyFacts
<1>4. InRow(b.got, b.readBuf) => InRow(d.got, d.readBuf)
  BY <1>3 DEF InRow
<1>5. SameNumbers(c, d) /\ SameCloses(c, d) /\ SameSent(c, d) /\ SameTaken(c, d) /\ SameQueue(c, d)
  BY <1>1, <1>3 DEF ReadOn, SameNumbers, SameCloses, SameSent, SameTaken, SameQueue
<1>6. d.gone => c.gotEOF /\ d.readBuf = <<>>
  BY <1>1, <1>3 DEF ReadOn, SameTaken
<1> QED  BY <1>1, <1>3, <1>4, <1>5, <1>6 DEF ReadOn

LEMMA ToldFacts ==
    ASSUME NEW c \in ChannelType, c.gone, NEW d, d = [c EXCEPT !.told = TRUE]
    PROVE  d \in ChannelType /\ ReadOn(c, d)
<1>1. /\ d \in ChannelType
      /\ SameNumbers(c, d) /\ SameCloses(c, d) /\ SameSent(c, d) /\ SameTaken(c, d)
      /\ SameQueue(c, d)
      /\ d.got = c.got /\ d.readBuf = c.readBuf /\ d.gone = c.gone /\ d.readers = c.readers
  BY DEF ChannelType, SameNumbers, SameCloses, SameSent, SameTaken, SameQueue
<1>2. InRow(c.got, c.readBuf) => InRow(d.got, d.readBuf)
  BY <1>1
<1> QED  BY <1>1, <1>2 DEF ReadOn

LEMMA WaitsFacts ==
    ASSUME NEW c \in ChannelType, ~c.gone, NEW len \in Nat,
           NEW d, d = [c EXCEPT !.readers = Append(@, len)]
    PROVE  d \in ChannelType /\ ReadOn(c, d)
<1>1. Append(c.readers, len) \in Seq(Nat)
  BY DEF ChannelType
<1>2. /\ d \in ChannelType
      /\ SameNumbers(c, d) /\ SameCloses(c, d) /\ SameSent(c, d) /\ SameTaken(c, d)
      /\ SameQueue(c, d) /\ d.told = c.told
      /\ d.got = c.got /\ d.readBuf = c.readBuf /\ d.gone = c.gone
  BY <1>1 DEF ChannelType, SameNumbers, SameCloses, SameSent, SameTaken, SameQueue
<1>3. InRow(c.got, c.readBuf) => InRow(d.got, d.readBuf)
  BY <1>2 DEF InRow
<1> QED  BY <1>2, <1>3 DEF ReadOn

LEMMA TryReadFacts ==
    ASSUME NEW e, NEW c \in ChannelType, NEW len \in Nat, NEW d, d = TryRead(e, c, len)
    PROVE  d \in ChannelType /\ ReadOn(c, d)
<1>1. c.gone \in BOOLEAN /\ Len(c.readBuf) \in Nat
  BY DEF ChannelType
<1>2. CASE c.gone
  <2>1. d = [c EXCEPT !.told = TRUE]
    BY <1>2 DEF TryRead, TryReadMux, TryReadQmux
  <2> QED  BY <1>2, <2>1, ToldFacts
<1>3. CASE ~c.gone
  <2>1. \/ d = Taken(c, Len(c.readBuf))
        \/ d = EndIfEmpty(Taken(c, len)) /\ len <= Len(c.readBuf)
        \/ d = [c EXCEPT !.readers = Append(@, len)]
    BY <1>3 DEF TryRead, TryReadMux, TryReadQmux
  <2>2. len <= Len(c.readBuf) => len \in 0 .. Len(c.readBuf)
    BY <1>1
  <2> QED  BY <1>1, <1>3, <2>1, <2>2, TakenFacts, TakenEnd, WaitsFacts
<1> QED  BY <1>1, <1>2, <1>3

LEMMA WakeReaderFacts ==
    ASSUME NEW e, NEW c \in ChannelType, NEW d, d = WakeReader(e, c)
    PROVE  d \in ChannelType /\ ReadOn(c, d)
<1>1. CASE c.readers = <<>>
  <2>1. d = c
    BY <1>1 DEF WakeReader
  <2> QED  BY <2>1 DEF ReadOn, SameNumbers, SameCloses, SameSent, SameTaken, SameQueue
<1>2. CASE c.readers # <<>>
  <2> DEFINE b == [c EXCEPT !.readers = Tail(@)]
             len == Head(c.readers)
  <2>1. Tail(c.readers) \in Seq(Nat) /\ len \in Nat
    BY <1>2, TailOne DEF ChannelType
  <2>2. /\ b \in ChannelType
        /\ SameNumbers(c, b) /\ SameCloses(c, b) /\ SameSent(c, b) /\ SameTaken(c, b)
        /\ SameQueue(c, b) /\ b.told = c.told
        /\ b.got = c.got /\ b.readBuf = c.readBuf /\ b.gone = c.gone
    BY <2>1 DEF ChannelType, SameNumbers, SameCloses, SameSent, SameTaken, SameQueue
  <2>3. d = TryRead(e, b, len)
    BY <1>2 DEF WakeReader
  <2> HIDE DEF b, len
  <2>4. d \in ChannelType /\ ReadOn(b, d)
    BY <2>1, <2>2, <2>3, TryReadFacts
  <2>5. InRow(c.got, c.readBuf) => InRow(b.got, b.readBuf)
    BY <2>2 DEF InRow
  <2>6. SameNumbers(c, d) /\ SameCloses(c, d) /\ SameSent(c, d) /\ SameTaken(c, d) /\ SameQueue(c, d)
    BY <2>2, <2>4 DEF ReadOn, SameNumbers, SameCloses, SameSent, SameTaken, SameQueue
  <2> QED  BY <1>2, <2>2, <2>4, <2>5, <2>6 DEF ReadOn, SameTaken
<1> QED  BY <1>1, <1>2

(* What handleData has done: nothing, because it threw or dropped the data; or *)
(* it has taken them in.                                                       *)
TookIn(c, d, data) ==
    /\ SameNumbers(c, d) /\ SameCloses(c, d) /\ SameSent(c, d) /\ SameQueue(c, d)
    /\ d.gotEOF = c.gotEOF
    /\ Len(data) <= c.myWindow /\ d.myWindow = c.myWindow - Len(data)
    /\ c.gone => d.gone /\ d.got = c.got
    /\ c.gone /\ c.readBuf = <<>> => d.readBuf = <<>>
    /\ c.gone /\ c.readers = <<>> => d.readers = <<>>
    /\ ~c.gone => Total(d.got, d.readBuf) = Total(c.got, c.readBuf) + Len(data)
    /\ d.gone /\ ~c.gone => c.gotEOF /\ d.readBuf = <<>>
    /\ d.told => c.told \/ c.gone
    /\ InRow(c.got, c.readBuf) /\ (c.gone \/ \A n \in 1 .. Len(data) : data[n] = Total(c.got, c.readBuf) + n)
          => InRow(d.got, d.readBuf)

(* The i-th place after m. *)
LEMMA Shifted ==
    ASSUME NEW m \in Nat, NEW n \in Nat, NEW i \in 1 .. n
    PROVE  m + i \in 1 .. m + n /\ ~(m + i <= m) /\ (m + i) - m = i
  OBVIOUS

LEMMA TookInOn ==
    ASSUME NEW e, NEW c \in ChannelType, NEW data \in Seq(Nat), Len(data) <= c.myWindow,
           NEW b, b = [c EXCEPT !.myWindow = @ - Len(data),
                                !.readBuf = IF c.gone THEN @ ELSE @ \o data],
           NEW d, d = WakeReader(e, b)
    PROVE  d \in ChannelType /\ TookIn(c, d, data)
<1> DEFINE buf == c.readBuf \o data
<1>1. /\ c.readBuf \in Seq(Nat) /\ Len(c.readBuf) \in Nat /\ Len(data) \in Nat
      /\ c.got \in Seq(Nat) /\ Len(c.got) \in Nat /\ c.gone \in BOOLEAN
      /\ c.myWindow \in 0 .. Window /\ Window \in Nat
  BY ChannelFields
<1>2. /\ buf \in Seq(Nat) /\ Len(buf) = Len(c.readBuf) + Len(data)
      /\ \A i \in 1 .. Len(c.readBuf) : buf[i] = c.readBuf[i]
      /\ \A i \in 1 .. Len(data) : buf[Len(c.readBuf) + i] = data[i]
  <2>1. /\ buf \in Seq(Nat) /\ Len(buf) = Len(c.readBuf) + Len(data)
        /\ \A i \in 1 .. Len(c.readBuf) + Len(data) :
              buf[i] = IF i <= Len(c.readBuf) THEN c.readBuf[i] ELSE data[i - Len(c.readBuf)]
    BY <1>1, ConcatProperties
  <2>2. ASSUME NEW i \in 1 .. Len(data) PROVE buf[Len(c.readBuf) + i] = data[i]
    <3>1. /\ Len(c.readBuf) + i \in 1 .. Len(c.readBuf) + Len(data)
          /\ ~(Len(c.readBuf) + i <= Len(c.readBuf))
          /\ (Len(c.readBuf) + i) - Len(c.readBuf) = i
      BY <1>1, Shifted
    <3> QED  BY <2>1, <3>1
  <2>3. \A i \in 1 .. Len(c.readBuf) : i \in 1 .. Len(c.readBuf) + Len(data) /\ i <= Len(c.readBuf)
    BY <1>1
  <2> QED  BY <2>1, <2>2, <2>3
<1> HIDE DEF buf
<1>3. b = [c EXCEPT !.myWindow = c.myWindow - Len(data),
                    !.readBuf = IF c.gone THEN c.readBuf ELSE buf]
  BY DEF buf
<1>4. c.myWindow - Len(data) \in 0 .. Window
  BY <1>1
<1>5. /\ b \in ChannelType
      /\ SameNumbers(c, b) /\ SameCloses(c, b) /\ SameSent(c, b) /\ SameQueue(c, b)
      /\ b.gotEOF = c.gotEOF /\ b.myWindow = c.myWindow - Len(data)
      /\ b.gone = c.gone /\ b.got = c.got /\ b.told = c.told /\ b.readers = c.readers
      /\ c.gone => b.readBuf = c.readBuf
      /\ ~c.gone => b.readBuf = buf
  <2>1. PICK w \in 0 .. Window, r \in Seq(Nat) :
          /\ w = c.myWindow - Len(data)
          /\ r = IF c.gone THEN c.readBuf ELSE buf
    BY <1>1, <1>2, <1>4
  <2>2. b = [c EXCEPT !.myWindow = w, !.readBuf = r]
    BY <1>3, <2>1
  <2>3. b \in ChannelType
    BY <2>2 DEF ChannelType
  <2>4. SameNumbers(c, b) /\ SameCloses(c, b) /\ SameSent(c, b) /\ SameQueue(c, b)
    BY <2>2 DEF ChannelType, SameNumbers, SameCloses, SameSent, SameQueue
  <2>5. /\ b.gotEOF = c.gotEOF /\ b.myWindow = w /\ b.readBuf = r
        /\ b.gone = c.gone /\ b.got = c.got /\ b.told = c.told /\ b.readers = c.readers
    BY <2>2 DEF ChannelType
  <2> QED  BY <2>1, <2>3, <2>4, <2>5
<1>6. d \in ChannelType /\ ReadOn(b, d)
  BY <1>5, WakeReaderFacts
<1>7. SameNumbers(c, d) /\ SameCloses(c, d) /\ SameSent(c, d) /\ SameQueue(c, d)
      /\ d.gotEOF = c.gotEOF /\ d.myWindow = c.myWindow - Len(data)
  BY <1>5, <1>6 DEF ReadOn, SameNumbers, SameCloses, SameSent, SameQueue, SameTaken
<1>8. ASSUME InRow(c.got, c.readBuf),
             c.gone \/ \A n \in 1 .. Len(data) : data[n] = Total(c.got, c.readBuf) + n
      PROVE  InRow(b.got, b.readBuf)
  <2>1. CASE c.gone
    BY <1>5, <1>8, <2>1
  <2>2. CASE ~c.gone
    <3>1. InRow(c.got, buf)
      BY <1>1, <1>2, <1>8, <2>2, InRowAdded
    <3> QED  BY <1>5, <2>2, <3>1
  <2> QED  BY <1>1, <2>1, <2>2
<1>9. ~c.gone => Total(d.got, d.readBuf) = Total(c.got, c.readBuf) + Len(data)
  <2>1. Total(c.got, buf) = Total(c.got, c.readBuf) + Len(data)
    <3>1. PICK s, t : s = c.got /\ t = c.readBuf
      OBVIOUS
    <3>2. s \in Seq(Nat) /\ t \in Seq(Nat) /\ Len(buf) = Len(t) + Len(data)
      BY <1>1, <1>2, <3>1
    <3>3. Total(s, buf) = Total(s, t) + Len(data)
      BY <1>1, <3>2 DEF Total
    <3> QED  BY <3>1, <3>3
  <2>2. Total(d.got, d.readBuf) = Total(b.got, b.readBuf)
    BY <1>6 DEF ReadOn
  <2> QED  BY <1>5, <2>1, <2>2
<1>10. InRow(b.got, b.readBuf) => InRow(d.got, d.readBuf)
  BY <1>6 DEF ReadOn
<1>11. /\ c.gone => d.gone /\ d.got = c.got
       /\ c.gone /\ c.readBuf = <<>> => d.readBuf = <<>>
       /\ c.gone /\ c.readers = <<>> => d.readers = <<>>
       /\ d.gone /\ ~c.gone => c.gotEOF /\ d.readBuf = <<>>
       /\ d.told => c.told \/ c.gone
  BY <1>5, <1>6 DEF ReadOn
<1> QED  BY <1>6, <1>7, <1>8, <1>9, <1>10, <1>11 DEF TookIn

(* d is c after handleData of data, which threw or did not. *)
Handled(e, c, d, data, threw) ==
    /\ d = c \/ (Len(data) <= c.myWindow /\ TookIn(c, d, data))
    /\ \/ threw = TRUE /\ setting.impl[e] = "mux"
             /\ (Len(data) > MaxPayload \/ Len(data) > c.myWindow)
       \/ threw = FALSE /\ TookIn(c, d, data)
       \/ threw = FALSE /\ d = c /\ setting.impl[e] # "mux"
             /\ (data = <<>> \/ Len(data) > MaxPayload \/ Len(data) > c.myWindow)

LEMMA HandleDataFacts ==
    ASSUME NEW e, NEW c \in ChannelType, NEW data \in Seq(Nat),
           NEW h, h = HandleData(e, c, data), NEW d, d = h.channel
    PROVE  d \in ChannelType /\ Handled(e, c, d, data, h.threw)
<1>1. /\ Len(data) \in Nat /\ MaxPayload \in Nat /\ c.myWindow \in 0 .. Window /\ Window \in Nat
      /\ c.gone \in BOOLEAN
  BY WindowAssumption DEF ChannelType
<1> DEFINE b == [c EXCEPT !.myWindow = @ - Len(data),
                          !.readBuf = IF c.gone THEN @ ELSE @ \o data]
<1>2. ASSUME Len(data) <= c.myWindow, d = WakeReader(e, b)
      PROVE  d \in ChannelType /\ TookIn(c, d, data)
  BY <1>2, TookInOn
<1> HIDE DEF b
<1>3. CASE setting.impl[e] = "mux"
  <2>1. CASE Len(data) > MaxPayload \/ Len(data) > c.myWindow
    <3>1. h = [threw |-> TRUE, channel |-> c]
      BY <1>3, <2>1 DEF HandleData, HandleDataMux
    <3> QED  BY <1>3, <2>1, <3>1 DEF Handled
  <2>2. CASE ~(Len(data) > MaxPayload \/ Len(data) > c.myWindow)
    <3>1. h = [threw |-> FALSE, channel |-> WakeReader(e, b)]
      BY <1>3, <2>2 DEF HandleData, HandleDataMux, b
    <3>2. h.threw = FALSE /\ d = WakeReader(e, b) /\ Len(data) <= c.myWindow
      BY <1>1, <2>2, <3>1
    <3> QED  BY <1>2, <3>2 DEF Handled
  <2> QED  BY <2>1, <2>2
<1>4. CASE setting.impl[e] # "mux"
  <2>1. h = HandleDataQmux(e, c, data) /\ h.threw = FALSE
    BY <1>4 DEF HandleData, HandleDataQmux
  <2>2. CASE data = <<>> \/ Len(data) > MaxPayload \/ Len(data) > c.myWindow
    <3>1. h.channel = c
      BY <1>1, <2>1, <2>2 DEF HandleDataQmux
    <3> QED  BY <1>4, <2>1, <2>2, <3>1 DEF Handled
  <2>3. CASE ~(data = <<>> \/ Len(data) > MaxPayload \/ Len(data) > c.myWindow) /\ c.gone
    <3>1. d = [c EXCEPT !.myWindow = @ - Len(data)]
      BY <1>1, <2>1, <2>3 DEF HandleDataQmux
    <3>2. /\ d \in ChannelType
          /\ SameNumbers(c, d) /\ SameCloses(c, d) /\ SameSent(c, d) /\ SameQueue(c, d)
          /\ d.gotEOF = c.gotEOF /\ d.myWindow = c.myWindow - Len(data)
          /\ d.gone = c.gone /\ d.got = c.got /\ d.readBuf = c.readBuf /\ d.told = c.told
          /\ d.readers = c.readers
      <4>1. c.myWindow - Len(data) \in 0 .. Window
        BY <1>1, <2>3
      <4>2. PICK w \in 0 .. Window : w = c.myWindow - Len(data)
        BY <4>1
      <4>3. d = [c EXCEPT !.myWindow = w]
        BY <3>1, <4>2
      <4>4. d \in ChannelType
        BY <4>3 DEF ChannelType
      <4>5. SameNumbers(c, d) /\ SameCloses(c, d) /\ SameSent(c, d) /\ SameQueue(c, d)
        BY <4>3 DEF ChannelType, SameNumbers, SameCloses, SameSent, SameQueue
      <4>6. /\ d.gotEOF = c.gotEOF /\ d.myWindow = w
            /\ d.gone = c.gone /\ d.got = c.got /\ d.readBuf = c.readBuf /\ d.told = c.told
            /\ d.readers = c.readers
        BY <4>3 DEF ChannelType
      <4> QED  BY <4>2, <4>4, <4>5, <4>6
    <3>3. InRow(c.got, c.readBuf) => InRow(d.got, d.readBuf)
      BY <3>2 DEF InRow
    <3>4. Len(data) <= c.myWindow
      BY <1>1, <2>3
    <3>5. TookIn(c, d, data)
      BY <2>3, <3>2, <3>3, <3>4 DEF TookIn
    <3> QED  BY <2>1, <3>2, <3>4, <3>5 DEF Handled
  <2>4. CASE ~(data = <<>> \/ Len(data) > MaxPayload \/ Len(data) > c.myWindow) /\ ~c.gone
    <3>1. d = WakeReader(e, [c EXCEPT !.myWindow = @ - Len(data), !.readBuf = @ \o data])
      BY <1>1, <2>1, <2>4 DEF HandleDataQmux
    <3>2. d = WakeReader(e, b)
      BY <2>4, <3>1 DEF b
    <3>3. Len(data) <= c.myWindow
      BY <1>1, <2>4
    <3> QED  BY <1>2, <2>1, <3>2, <3>3 DEF Handled
  <2> QED  BY <1>1, <2>2, <2>3, <2>4
<1> QED  BY <1>3, <1>4

LEMMA ShutDownFacts ==
    ASSUME NEW c \in ChannelType, NEW d, d = ShutDown(c)
    PROVE  /\ d \in ChannelType
           /\ SameNumbers(c, d) /\ SameCloses(c, d) /\ SameSent(c, d) /\ SameTaken(c, d)
           /\ d.readyClosed = TRUE /\ d.gone = TRUE /\ d.got = c.got
           /\ d.readBuf = <<>> /\ d.readers = <<>> /\ d.ready = <<>> /\ d.waiters = <<>>
           /\ d.stage \in {c.stage, "failed"}
<1> DEFINE b == [c EXCEPT !.gone = TRUE, !.readBuf = <<>>,
                          !.told = @ \/ c.readers # <<>>, !.readers = <<>>]
<1>1. <<>> \in Seq(Nat) /\ <<>> \in Seq(BOOLEAN) /\ <<>> \in Seq({"open", "close"})
  OBVIOUS
<1>2. /\ b \in ChannelType
      /\ SameNumbers(c, b) /\ SameCloses(c, b) /\ SameSent(c, b) /\ SameTaken(c, b)
      /\ b.gone = TRUE /\ b.got = c.got /\ b.readBuf = <<>> /\ b.readers = <<>>
      /\ b.stage = c.stage
  BY <1>1 DEF ChannelType, SameNumbers, SameCloses, SameSent, SameTaken
<1>3. d = CloseQueue(b)
  BY DEF ShutDown
<1> HIDE DEF b
<1>4. \E st \in {c.stage, "failed"} :
        d = [b EXCEPT !.readyClosed = TRUE, !.ready = <<>>, !.waiters = <<>>, !.stage = st]
  <2>1. CASE \E i \in DOMAIN b.waiters : b.waiters[i] = "open"
    <3>1. d = [b EXCEPT !.readyClosed = TRUE, !.ready = <<>>, !.waiters = <<>>, !.stage = "failed"]
      BY <1>3, <2>1 DEF CloseQueue
    <3> QED  BY <3>1
  <2>2. CASE ~\E i \in DOMAIN b.waiters : b.waiters[i] = "open"
    <3>1. d = [b EXCEPT !.readyClosed = TRUE, !.ready = <<>>, !.waiters = <<>>, !.stage = b.stage]
      BY <1>3, <2>2 DEF CloseQueue
    <3> QED  BY <1>2, <3>1
  <2> QED  BY <2>1, <2>2
<1>5. PICK st \in {c.stage, "failed"} :
        d = [b EXCEPT !.readyClosed = TRUE, !.ready = <<>>, !.waiters = <<>>, !.stage = st]
  BY <1>4
<1>6. c.stage \in {"opening", "incoming", "held", "failed"}
  BY DEF ChannelType
<1>7. d \in ChannelType
  <2>1. st \in {"opening", "incoming", "held", "failed"} /\ b \in ChannelType
    BY <1>2, <1>5, <1>6
  <2>2. <<>> \in Seq(BOOLEAN) /\ <<>> \in Seq({"open", "close"})
    OBVIOUS
  <2>3. ASSUME NEW x \in ChannelType
        PROVE  [x EXCEPT !.readyClosed = TRUE, !.ready = <<>>, !.waiters = <<>>, !.stage = st]
                  \in ChannelType
    BY <2>1, <2>2 DEF ChannelType
  <2> QED  BY <1>5, <2>1, <2>3
<1>8. /\ d.mine = b.mine /\ d.remote = b.remote
      /\ d.sentClose = b.sentClose /\ d.gotClose = b.gotClose /\ d.closes = b.closes
      /\ d.sent = b.sent /\ d.over = b.over /\ d.sentEOF = b.sentEOF
      /\ d.myWindow = b.myWindow /\ d.gotEOF = b.gotEOF
      /\ d.gone = b.gone /\ d.got = b.got /\ d.readBuf = b.readBuf /\ d.readers = b.readers
      /\ d.readyClosed = TRUE /\ d.ready = <<>> /\ d.waiters = <<>> /\ d.stage = st
  BY <1>2, <1>5 DEF ChannelType
<1>9. SameNumbers(c, d) /\ SameCloses(c, d) /\ SameSent(c, d) /\ SameTaken(c, d)
  BY <1>2, <1>8 DEF SameNumbers, SameCloses, SameSent, SameTaken
<1> QED  BY <1>2, <1>5, <1>7, <1>8, <1>9

-----------------------------------------------------------------------------
(* What a channel knows of itself stays true *)

(* d is what an action leaves of the channel c. *)
Follows(c, d) ==
    /\ d \in ChannelType /\ Local(d)
    /\ d.mine = c.mine
    /\ c.sentClose => d.sentClose

LEMMA LocalWhenNew ==
    ASSUME NEW mine \in BOOLEAN, NEW remote \in Nat, ~mine => remote # 0, mine => remote = 0,
           NEW d, d = NewChannel(mine, remote)
    PROVE  d \in ChannelType /\ Local(d) /\ d.mine = mine /\ d.remote = remote
<1>1. /\ <<>> \in Seq(Nat) /\ <<>> \in Seq(BOOLEAN) /\ <<>> \in Seq({"open", "close"})
      /\ Len(<<>>) = 0 /\ Window \in 0 .. Window
  BY WindowAssumption
<1>2. d \in ChannelType /\ d.mine = mine /\ d.remote = remote
  <2>1. (IF mine THEN "opening" ELSE "incoming") \in {"opening", "incoming", "held", "failed"}
    OBVIOUS
  <2> QED  BY <1>1, <2>1 DEF NewChannel, ChannelType
<1>3. /\ d.remote = remote /\ d.stage = (IF mine THEN "opening" ELSE "incoming") /\ d.mine = mine
      /\ d.sentEOF = FALSE /\ d.gotEOF = FALSE /\ d.sentClose = FALSE /\ d.gone = FALSE
      /\ d.got = <<>> /\ d.readBuf = <<>> /\ d.ready = <<>> /\ d.waiters = <<>>
      /\ d.readyClosed = FALSE /\ d.told = FALSE /\ d.sent = 0 /\ d.over = FALSE /\ d.closes = 0
      /\ d.myWindow = Window
  BY DEF NewChannel
<1>4. Total(d.got, d.readBuf) = 0 /\ Window - d.myWindow = 0 /\ Window \in Nat
  BY <1>1, <1>3, WindowAssumption DEF Total
<1>5. /\ \A i \in 1 .. Len(d.ready) : ~d.ready[i]
      /\ \A i \in 1 .. Len(d.waiters) : d.waiters[i] = "close" => d.sentClose
  BY <1>1, <1>3
<1>6. 0 <= Window
  BY <1>4
<1>7. Local(d)
  BY <1>3, <1>4, <1>5, <1>6 DEF Local
<1> QED  BY <1>2, <1>7

LEMMA LocalAfterRead ==
    ASSUME NEW c \in ChannelType, Local(c), NEW d \in ChannelType, ReadOn(c, d)
    PROVE  Follows(c, d)
<1>1. /\ d.remote = c.remote /\ d.mine = c.mine /\ d.stage = c.stage /\ d.ready = c.ready
      /\ d.readyClosed = c.readyClosed /\ d.waiters = c.waiters
      /\ d.sentEOF = c.sentEOF /\ d.sent = c.sent /\ d.over = c.over /\ d.closes = c.closes
      /\ d.sentClose = c.sentClose /\ d.gotClose = c.gotClose
      /\ d.myWindow = c.myWindow /\ d.gotEOF = c.gotEOF
      /\ Total(d.got, d.readBuf) = Total(c.got, c.readBuf)
  BY DEF ReadOn, SameNumbers, SameCloses, SameSent, SameTaken, SameQueue
<1>2. Local(d)
  BY <1>1 DEF ReadOn, Local
<1> QED  BY <1>1, <1>2 DEF Follows

LEMMA LocalAfterData ==
    ASSUME NEW c \in ChannelType, Local(c), NEW data \in Seq(Nat),
           NEW d \in ChannelType, TookIn(c, d, data)
    PROVE  Follows(c, d)
<1>1. /\ c.got \in Seq(Nat) /\ c.readBuf \in Seq(Nat) /\ Len(data) \in Nat
      /\ c.myWindow \in Int /\ Window \in Int /\ c.gone \in BOOLEAN /\ d.gone \in BOOLEAN
  BY ChannelFields
<1>2. /\ d.remote = c.remote /\ d.mine = c.mine /\ d.stage = c.stage /\ d.ready = c.ready
      /\ d.readyClosed = c.readyClosed /\ d.waiters = c.waiters
      /\ d.sentEOF = c.sentEOF /\ d.sent = c.sent /\ d.over = c.over /\ d.closes = c.closes
      /\ d.sentClose = c.sentClose /\ d.gotClose = c.gotClose
      /\ d.myWindow = c.myWindow - Len(data) /\ d.gotEOF = c.gotEOF
  BY DEF TookIn, SameNumbers, SameCloses, SameSent, SameQueue
<1>3. Total(c.got, c.readBuf) \in Nat
  BY <1>1, TotalFacts
<1>4. Total(c.got, c.readBuf) <= Window - c.myWindow
  BY DEF Local
<1>5. CASE c.gone
  <2>1. c.readBuf = <<>> /\ d.readBuf = <<>> /\ d.gone /\ d.got = c.got
    BY <1>5 DEF TookIn, Local
  <2>2. Total(d.got, d.readBuf) = Total(c.got, c.readBuf)
    BY <2>1
  <2>3. Total(d.got, d.readBuf) <= Window - d.myWindow
    BY <1>1, <1>2, <1>3, <1>4, <2>2
  <2>4. Local(d)
    BY <1>2, <1>5, <2>1, <2>3 DEF TookIn, Local
  <2> QED  BY <1>2, <2>4 DEF Follows
<1>6. CASE ~c.gone
  <2>1. Total(d.got, d.readBuf) = Total(c.got, c.readBuf) + Len(data)
    BY <1>6 DEF TookIn
  <2>2. Total(c.got, c.readBuf) = Window - c.myWindow
    BY <1>6 DEF Local
  <2>3. /\ Total(d.got, d.readBuf) = Window - d.myWindow
        /\ Total(d.got, d.readBuf) <= Window - d.myWindow
    BY <1>1, <1>2, <1>3, <2>1, <2>2
  <2>4. d.gone => d.readBuf = <<>> /\ c.gotEOF
    BY <1>6 DEF TookIn
  <2>5. ~c.readyClosed /\ ~d.readyClosed
    BY <1>2, <1>6 DEF Local
  <2>6. d.told => d.gone \/ c.readyClosed
    BY <1>6 DEF TookIn, Local
  <2>7. Local(d)
    BY <1>2, <2>3, <2>4, <2>5, <2>6 DEF Local
  <2> QED  BY <1>2, <2>7 DEF Follows
<1> QED  BY <1>1, <1>5, <1>6

LEMMA LocalWhenShut ==
    ASSUME NEW c \in ChannelType, Local(c), NEW d, d = ShutDown(c)
    PROVE  Follows(c, d)
<1>1. /\ d \in ChannelType
      /\ SameNumbers(c, d) /\ SameCloses(c, d) /\ SameSent(c, d) /\ SameTaken(c, d)
      /\ d.readyClosed = TRUE /\ d.gone = TRUE /\ d.got = c.got
      /\ d.readBuf = <<>> /\ d.readers = <<>> /\ d.ready = <<>> /\ d.waiters = <<>>
      /\ d.stage \in {c.stage, "failed"}
  BY ShutDownFacts
<1>2. Total(d.got, d.readBuf) <= Window - d.myWindow
  <2>1. /\ c.readBuf \in Seq(Nat) /\ c.got \in Seq(Nat) /\ Len(c.got) \in Nat
        /\ Len(c.readBuf) \in Nat /\ c.myWindow \in Int /\ Window \in Nat
    BY ChannelFields
  <2>2. Total(c.got, c.readBuf) <= Window - c.myWindow
    BY DEF Local
  <2>3. d.myWindow = c.myWindow /\ d.got = c.got /\ d.readBuf = <<>> /\ <<>> \in Seq(Nat)
    BY <1>1 DEF SameTaken
  <2>4. /\ Total(d.got, d.readBuf) \in Nat /\ Total(c.got, c.readBuf) \in Nat
        /\ Total(d.got, d.readBuf) <= Total(c.got, c.readBuf)
    BY <2>1, <2>3, TotalFacts
  <2> QED  BY <2>1, <2>2, <2>3, <2>4
<1>3. /\ d.remote = c.remote /\ d.mine = c.mine
      /\ d.sentEOF = c.sentEOF /\ d.sent = c.sent /\ d.over = c.over /\ d.closes = c.closes
      /\ d.sentClose = c.sentClose /\ d.gotClose = c.gotClose
  BY <1>1 DEF SameNumbers, SameCloses, SameSent
<1>4. Len(d.ready) = 0 /\ Len(d.waiters) = 0
  BY <1>1
<1>5. Local(d)
  BY <1>1, <1>2, <1>3, <1>4 DEF Local
<1> QED  BY <1>1, <1>3, <1>5 DEF Follows

(* Confirm or Failure has been decoded; to is the number that the channel has *)
(* then at the other end.                                                     *)
LEMMA LocalAfterPush ==
    ASSUME NEW c \in ChannelType, Local(c), NEW value \in BOOLEAN, NEW to \in Nat,
           value = TRUE => to # 0, value = FALSE => to = c.remote,
           NEW d, d = Push([c EXCEPT !.remote = to], value)
    PROVE  Follows(c, d) /\ d.remote = to
<1> DEFINE b == [c EXCEPT !.remote = to]
<1>1. /\ b \in ChannelType /\ b.remote = to /\ b.mine = c.mine
      /\ SameCloses(c, b) /\ SameSent(c, b) /\ SameTaken(c, b) /\ SameBuffer(c, b) /\ SameQueue(c, b)
  BY DEF ChannelType, SameCloses, SameSent, SameTaken, SameBuffer, SameQueue
<1>2. d = Push(b, value)
  OBVIOUS
<1> HIDE DEF b
<1>3. /\ d \in ChannelType
      /\ SameNumbers(b, d) /\ SameCloses(b, d) /\ SameSent(b, d) /\ SameTaken(b, d)
      /\ SameBuffer(b, d) /\ d.readyClosed = b.readyClosed
      /\ b.waiters = <<>> => d.waiters = <<>>
      /\ \A i \in 1 .. Len(d.waiters) :
           \E j \in 1 .. Len(b.waiters) : d.waiters[i] = b.waiters[j]
      /\ \A i \in 1 .. Len(d.ready) :
           d.ready[i] = value \/ \E j \in 1 .. Len(b.ready) : d.ready[i] = b.ready[j]
      /\ d.stage \in {b.stage, "failed"} \/ (value = TRUE /\ d.stage = "held")
  <2>1. b \in ChannelType
    BY <1>1
  <2>2. d \in ChannelType /\ Pushed(b, d, value)
    BY <1>2, <2>1, PushFacts
  <2> QED  BY <2>2 DEF Pushed
<1>4. /\ d.remote = to /\ d.mine = c.mine
      /\ d.sentEOF = c.sentEOF /\ d.sent = c.sent /\ d.over = c.over /\ d.closes = c.closes
      /\ d.sentClose = c.sentClose /\ d.gotClose = c.gotClose
      /\ d.myWindow = c.myWindow /\ d.gotEOF = c.gotEOF
      /\ d.readBuf = c.readBuf /\ d.gone = c.gone /\ d.readers = c.readers
      /\ d.got = c.got /\ d.told = c.told
  BY <1>1, <1>3 DEF SameNumbers, SameCloses, SameSent, SameTaken, SameBuffer
<1>5. d.readyClosed = c.readyClosed /\ b.waiters = c.waiters /\ b.ready = c.ready /\ b.stage = c.stage
  BY <1>1, <1>3 DEF SameQueue
<1>6. \A i \in 1 .. Len(d.waiters) : d.waiters[i] = "close" => d.sentClose
  <2>1. \A j \in 1 .. Len(c.waiters) : c.waiters[j] = "close" => c.sentClose
    BY DEF Local
  <2> QED  BY <1>3, <1>4, <1>5, <2>1
<1>7. d.remote = 0 => d.stage \notin {"incoming", "held"} /\ \A i \in 1 .. Len(d.ready) : ~d.ready[i]
  <2> SUFFICES ASSUME d.remote = 0
               PROVE  d.stage \notin {"incoming", "held"} /\ \A i \in 1 .. Len(d.ready) : ~d.ready[i]
    OBVIOUS
  <2>1. value = FALSE /\ c.remote = 0
    BY <1>4
  <2>2. c.stage \notin {"incoming", "held"} /\ \A i \in 1 .. Len(c.ready) : ~c.ready[i]
    BY <2>1 DEF Local
  <2> QED  BY <1>3, <1>5, <2>1, <2>2
<1>8. d.readyClosed => d.waiters = <<>>
  BY <1>3, <1>5 DEF Local
<1>9. d.remote = 0 => c.remote = 0
  BY <1>4
<1>10. Local(d)
  BY <1>4, <1>5, <1>6, <1>7, <1>8, <1>9 DEF Local
<1> QED  BY <1>3, <1>4, <1>10 DEF Follows

LEMMA LocalWhenConfirmed ==
    ASSUME NEW c \in ChannelType, Local(c), NEW to \in Nat, to # 0,
           NEW d, d = Push([c EXCEPT !.remote = to], TRUE)
    PROVE  Follows(c, d) /\ d.remote = to
<1>1. PICK value \in BOOLEAN : value = TRUE
  OBVIOUS
<1>2. (value = TRUE => to # 0) /\ (value = FALSE => to = c.remote)
  BY <1>1
<1>3. d = Push([c EXCEPT !.remote = to], value)
  BY <1>1
<1> QED  BY <1>2, <1>3, LocalAfterPush

LEMMA LocalWhenRefused ==
    ASSUME NEW c \in ChannelType, Local(c), NEW d, d = Push(c, FALSE)
    PROVE  Follows(c, d) /\ d.remote = c.remote
<1>1. FALSE \in BOOLEAN /\ (FALSE = TRUE => c.remote # 0) /\ (FALSE = FALSE => c.remote = c.remote)
  OBVIOUS
<1>2. c.remote \in Nat
  BY ChannelFields
<1>3. d = Push([c EXCEPT !.remote = c.remote], FALSE)
  <2>1. [c EXCEPT !.remote = c.remote] = c
    BY DEF ChannelType
  <2> QED  BY <2>1
<1> QED  BY <1>1, <1>2, <1>3, LocalAfterPush, Zenon

LEMMA LocalAfterShift ==
    ASSUME NEW c \in ChannelType, Local(c), NEW who \in {"open", "close"},
           who = "close" => c.sentClose, NEW d, d = Shift(c, who)
    PROVE  Follows(c, d) /\ d.remote = c.remote
<1>1. /\ d \in ChannelType
      /\ SameNumbers(c, d) /\ SameCloses(c, d) /\ SameSent(c, d) /\ SameTaken(c, d)
      /\ SameBuffer(c, d) /\ d.readyClosed = c.readyClosed
      /\ c.readyClosed => d.waiters = c.waiters
      /\ \A i \in 1 .. Len(d.waiters) :
           d.waiters[i] = who \/ \E j \in 1 .. Len(c.waiters) : d.waiters[i] = c.waiters[j]
      /\ \A i \in 1 .. Len(d.ready) : \E j \in 1 .. Len(c.ready) : d.ready[i] = c.ready[j]
      /\ \/ d.stage \in {c.stage, "failed"}
         \/ d.stage = "held" /\ \E i \in 1 .. Len(c.ready) : c.ready[i]
  BY ShiftFacts
<1>2. /\ d.remote = c.remote /\ d.mine = c.mine
      /\ d.sentEOF = c.sentEOF /\ d.sent = c.sent /\ d.over = c.over /\ d.closes = c.closes
      /\ d.sentClose = c.sentClose /\ d.gotClose = c.gotClose
      /\ d.myWindow = c.myWindow /\ d.gotEOF = c.gotEOF
      /\ d.readBuf = c.readBuf /\ d.gone = c.gone /\ d.readers = c.readers
      /\ d.got = c.got /\ d.told = c.told
  BY <1>1 DEF SameNumbers, SameCloses, SameSent, SameTaken, SameBuffer
<1>3. \A i \in 1 .. Len(d.waiters) : d.waiters[i] = "close" => d.sentClose
  BY <1>1, <1>2 DEF Local
<1>4. d.remote = 0 => d.stage \notin {"incoming", "held"} /\ \A i \in 1 .. Len(d.ready) : ~d.ready[i]
  BY <1>1, <1>2 DEF Local
<1>5. d.readyClosed => d.waiters = <<>>
  BY <1>1 DEF Local
<1>6. Local(d)
  BY <1>1, <1>2, <1>3, <1>4, <1>5 DEF Local
<1> QED  BY <1>1, <1>2, <1>6 DEF Follows

LEMMA LocalWhenHeld ==
    ASSUME NEW c \in ChannelType, Local(c), ~c.mine, NEW d, d = [c EXCEPT !.stage = "held"]
    PROVE  Follows(c, d) /\ d.remote = c.remote
<1>1. /\ d.remote = c.remote /\ d.mine = c.mine /\ d.ready = c.ready
      /\ d.readyClosed = c.readyClosed /\ d.waiters = c.waiters
      /\ d.closes = c.closes /\ d.sentClose = c.sentClose /\ d.gotClose = c.gotClose
      /\ d.myWindow = c.myWindow /\ d.gotEOF = c.gotEOF
      /\ d.readBuf = c.readBuf /\ d.gone = c.gone /\ d.readers = c.readers
      /\ d.got = c.got /\ d.told = c.told
      /\ d.sent = c.sent /\ d.over = c.over /\ d.sentEOF = c.sentEOF
      /\ d \in ChannelType
  BY DEF ChannelType
<1>2. c.remote # 0
  BY DEF Local
<1>3. Local(d)
  BY <1>1, <1>2 DEF Local
<1> QED  BY <1>1, <1>3 DEF Follows

LEMMA LocalAfterWrite ==
    ASSUME NEW c \in ChannelType, Local(c), c.stage = "held", NEW n \in Nat,
           NEW d, d = [c EXCEPT !.sent = @ + n,
                                !.over = @ \/ n > MaxPayload \/ c.sent + n > Window]
    PROVE  Follows(c, d) /\ d.remote = c.remote
<1>1. /\ d.remote = c.remote /\ d.mine = c.mine /\ d.ready = c.ready
      /\ d.readyClosed = c.readyClosed /\ d.waiters = c.waiters
      /\ d.closes = c.closes /\ d.sentClose = c.sentClose /\ d.gotClose = c.gotClose
      /\ d.myWindow = c.myWindow /\ d.gotEOF = c.gotEOF
      /\ d.readBuf = c.readBuf /\ d.gone = c.gone /\ d.readers = c.readers
      /\ d.got = c.got /\ d.told = c.told
      /\ d.stage = c.stage
      /\ d.sent = c.sent + n /\ d.over = (c.over \/ n > MaxPayload \/ c.sent + n > Window)
  BY DEF ChannelType
<1>2. d \in ChannelType
  <2>1. c.sent + n \in Nat /\ (c.over \/ n > MaxPayload \/ c.sent + n > Window) \in BOOLEAN
    BY ChannelFields
  <2> QED  BY <2>1 DEF ChannelType
<1>3. c.remote # 0
  BY DEF Local
<1>4. ~d.over => d.sent <= Window
  <2>1. c.sent \in Nat /\ Window \in Nat
    BY ChannelFields
  <2>2. CASE c.sent + n > Window
    BY <1>1, <2>2
  <2>3. CASE ~(c.sent + n > Window)
    BY <1>1, <2>1, <2>3
  <2> QED  BY <2>2, <2>3
<1>5. Local(d)
  BY <1>1, <1>3, <1>4 DEF Local
<1> QED  BY <1>1, <1>2, <1>5 DEF Follows

LEMMA LocalAfterEOF ==
    ASSUME NEW c \in ChannelType, Local(c), c.stage = "held", NEW d, d = [c EXCEPT !.sentEOF = TRUE]
    PROVE  Follows(c, d) /\ d.remote = c.remote
<1>1. d \in ChannelType /\ d.mine = c.mine /\ d.sentClose = c.sentClose /\ d.remote = c.remote
  BY DEF ChannelType
<1>2. c.remote # 0
  BY DEF Local
<1>3. Local(d)
  BY <1>2 DEF Local, ChannelType
<1> QED  BY <1>1, <1>3 DEF Follows

LEMMA LocalWhenEnded ==
    ASSUME NEW c \in ChannelType, Local(c), NEW d, d = [c EXCEPT !.gotEOF = TRUE]
    PROVE  Follows(c, d) /\ d.remote = c.remote
<1>1. d \in ChannelType /\ d.mine = c.mine /\ d.sentClose = c.sentClose /\ d.remote = c.remote
  BY DEF ChannelType
<1>2. Local(d)
  BY DEF Local, ChannelType
<1> QED  BY <1>1, <1>2 DEF Follows

LEMMA LocalWhenCounted ==
    ASSUME NEW c \in ChannelType, Local(c), c.stage = "held", NEW d, d = [c EXCEPT !.closes = @ + 1]
    PROVE  Follows(c, d) /\ d.remote = c.remote /\ d.closes = c.closes + 1
<1>1. /\ d \in ChannelType /\ d.mine = c.mine /\ d.sentClose = c.sentClose /\ d.remote = c.remote
      /\ d.closes = c.closes + 1 /\ c.closes \in Nat
  <2>1. c.closes \in Nat /\ c.closes + 1 \in Nat
    BY ChannelFields
  <2> QED  BY <2>1 DEF ChannelType
<1>2. c.remote # 0
  BY DEF Local
<1>3. Local(d)
  <2>1. PICK n \in Nat : n = c.closes + 1 /\ n > 0
    BY <1>1
  <2>2. d = [c EXCEPT !.closes = n]
    BY <2>1
  <2>3. d = [c EXCEPT !.closes = n] /\ n > 0 => Local(d)
    BY <1>2 DEF Local, ChannelType
  <2> QED  BY <2>1, <2>2, <2>3
<1> QED  BY <1>1, <1>3 DEF Follows

LEMMA LocalWhenNoted ==
    ASSUME NEW c \in ChannelType, Local(c), NEW d, d = [c EXCEPT !.gotClose = TRUE]
    PROVE  Follows(c, d) /\ d.remote = c.remote /\ d.gotClose
<1>1. /\ d \in ChannelType /\ d.mine = c.mine /\ d.sentClose = c.sentClose /\ d.remote = c.remote
      /\ d.gotClose = TRUE
  BY DEF ChannelType
<1>2. Local(d)
  BY DEF Local, ChannelType
<1> QED  BY <1>1, <1>2 DEF Follows

LEMMA LocalAfterClose ==
    ASSUME NEW c \in ChannelType, Local(c), c.closes > 0 \/ c.gotClose,
           NEW d, d = [c EXCEPT !.sentClose = TRUE]
    PROVE  Follows(c, d) /\ d.remote = c.remote
<1>1. d \in ChannelType /\ d.mine = c.mine /\ d.sentClose = TRUE /\ d.remote = c.remote
  BY DEF ChannelType
<1>2. Local(d)
  BY DEF Local, ChannelType
<1> QED  BY <1>1, <1>2 DEF Follows

-----------------------------------------------------------------------------
(* What an action does to the channels and to the wires *)

LEMMA OtherEnd ==
    ASSUME NEW e \in Ends
    PROVE  /\ Other(e) \in Ends /\ Other(e) # e /\ Other(Other(e)) = e
           /\ \A x \in Ends : x = e \/ x = Other(e)
  BY DEF Ends, Other

LEMMA ChanFacts ==
    ASSUME Shape, NEW e \in Ends
    PROVE  /\ chan[e] \in Seq(ChannelType) /\ Len(chan[e]) \in Nat
           /\ DOMAIN chan[e] = 1 .. Len(chan[e])
           /\ \A k \in 1 .. Len(chan[e]) : chan[e][k] \in ChannelType
<1>1. chan[e] \in Seq(ChannelType)
  BY DEF Shape
<1> QED  BY <1>1, Elements

LEMMA WireFacts ==
    ASSUME Shape, NEW e \in Ends
    PROVE  /\ wire[e] \in Seq(MessageType) /\ Len(wire[e]) \in Nat
           /\ DOMAIN wire[e] = 1 .. Len(wire[e])
           /\ \A i \in 1 .. Len(wire[e]) : wire[e][i] \in MessageType
<1>1. wire[e] \in Seq(MessageType)
  BY DEF Shape
<1> QED  BY <1>1, Elements

LEMMA PutFacts ==
    ASSUME Shape, NEW e \in Ends, NEW k \in 1 .. Len(chan[e]), NEW d \in ChannelType, Put(e, k, d)
    PROVE  /\ chan' \in [Ends -> Seq(ChannelType)]
           /\ \A x \in Ends : Len(chan'[x]) = Len(chan[x])
           /\ chan'[e][k] = d
           /\ \A x \in Ends : \A j \in 1 .. Len(chan[x]) :
                x # e \/ j # k => chan'[x][j] = chan[x][j]
<1>1. /\ chan \in [Ends -> Seq(ChannelType)] /\ chan[e] \in Seq(ChannelType)
      /\ DOMAIN chan[e] = 1 .. Len(chan[e])
  BY ChanFacts DEF Shape
<1>2. chan' = [chan EXCEPT ![e] = [chan[e] EXCEPT ![k] = d]]
  BY DEF Put
<1>3. /\ [chan[e] EXCEPT ![k] = d] \in Seq(ChannelType)
      /\ Len([chan[e] EXCEPT ![k] = d]) = Len(chan[e])
  BY <1>1, ExceptSeq
<1>4. chan'[e] = [chan[e] EXCEPT ![k] = d] /\ \A x \in Ends : x # e => chan'[x] = chan[x]
  BY <1>1, <1>2
<1> QED  BY <1>1, <1>2, <1>3, <1>4

LEMMA AddFacts ==
    ASSUME Shape, NEW e \in Ends, NEW d \in ChannelType,
           chan' = [chan EXCEPT ![e] = Append(@, d)]
    PROVE  /\ chan' \in [Ends -> Seq(ChannelType)]
           /\ Len(chan'[e]) = Len(chan[e]) + 1
           /\ chan'[e][Len(chan[e]) + 1] = d
           /\ \A x \in Ends : x # e => chan'[x] = chan[x]
           /\ \A x \in Ends : \A j \in 1 .. Len(chan[x]) : chan'[x][j] = chan[x][j]
<1>1. chan \in [Ends -> Seq(ChannelType)] /\ chan[e] \in Seq(ChannelType)
  BY ChanFacts DEF Shape
<1>2. /\ Append(chan[e], d) \in Seq(ChannelType)
      /\ Len(Append(chan[e], d)) = Len(chan[e]) + 1
      /\ \A j \in 1 .. Len(chan[e]) : Append(chan[e], d)[j] = chan[e][j]
      /\ Append(chan[e], d)[Len(chan[e]) + 1] = d
  BY <1>1, AppendOne
<1>3. chan'[e] = Append(chan[e], d) /\ \A x \in Ends : x # e => chan'[x] = chan[x]
  BY <1>1
<1> QED  BY <1>1, <1>2, <1>3

(* Every channel is still there, as it was made; a Close that was sent stays sent. *)
Grown ==
    \A x \in Ends :
        /\ Len(chan[x]) <= Len(chan'[x])
        /\ \A k \in 1 .. Len(chan[x]) :
            chan'[x][k].mine = chan[x][k].mine /\ (chan[x][k].sentClose => chan'[x][k].sentClose)

(* The first s messages on the wire from x have been decoded. *)
Shorter(x, s) ==
    /\ s \in {0, 1} /\ s <= Len(wire[x])
    /\ Len(wire'[x]) = Len(wire[x]) - s
    /\ \A i \in 1 .. Len(wire'[x]) : wire'[x][i] = wire[x][i + s]

(* x has sent m. *)
Longer(x, m) ==
    /\ Len(wire'[x]) = Len(wire[x]) + 1
    /\ \A i \in 1 .. Len(wire[x]) : wire'[x][i] = wire[x][i]
    /\ wire'[x][Len(wire[x]) + 1] = m
    /\ ~closed[x] /\ ~closed[Other(x)]

LEMMA WireStays ==
    ASSUME Shape, UNCHANGED wire
    PROVE  wire' \in [Ends -> Seq(MessageType)] /\ \A x \in Ends : Shorter(x, 0)
<1>1. wire \in [Ends -> Seq(MessageType)]
  BY DEF Shape
<1>2. ASSUME NEW x \in Ends PROVE Shorter(x, 0)
  BY <1>2, WireFacts DEF Shorter
<1> QED  BY <1>1, <1>2

(* What e does to the wires: it sends m, or nobody hears it; first, when s is 1, *)
(* it has decoded a message.                                                     *)
Speaks(e, m, s) ==
    /\ wire' \in [Ends -> Seq(MessageType)]
    /\ Shorter(e, 0) \/ Longer(e, m)
    /\ Shorter(e, 0) => closed[e] \/ closed[Other(e)]
    /\ Shorter(Other(e), s)

LEMMA SendFacts ==
    ASSUME Shape, NEW e \in Ends, NEW m \in MessageType, wire' = Sent(wire, e, m)
    PROVE  Speaks(e, m, 0)
<1>1. wire \in [Ends -> Seq(MessageType)] /\ closed \in [Ends -> BOOLEAN]
  BY DEF Shape
<1>2. CASE closed[e] \/ closed[Other(e)]
  <2>1. wire' = wire
    BY <1>2 DEF Sent
  <2> QED  BY <1>2, <2>1, WireStays, OtherEnd DEF Speaks
<1>3. CASE ~(closed[e] \/ closed[Other(e)])
  <2>1. wire' = [wire EXCEPT ![e] = Append(wire[e], m)]
    BY <1>3 DEF Sent
  <2>2. /\ Append(wire[e], m) \in Seq(MessageType)
        /\ Len(Append(wire[e], m)) = Len(wire[e]) + 1
        /\ \A i \in 1 .. Len(wire[e]) : Append(wire[e], m)[i] = wire[e][i]
        /\ Append(wire[e], m)[Len(wire[e]) + 1] = m
        /\ Len(wire[e]) \in Nat
    BY <1>1, AppendOne
  <2>3. wire'[e] = Append(wire[e], m) /\ wire'[Other(e)] = wire[Other(e)]
    BY <1>1, <2>1, OtherEnd
  <2>4. wire' \in [Ends -> Seq(MessageType)]
    BY <1>1, <2>1, <2>2
  <2>5. Longer(e, m)
    BY <1>3, <2>2, <2>3 DEF Longer
  <2>6. Shorter(Other(e), 0)
    BY <2>3, WireFacts, OtherEnd DEF Shorter
  <2>7. ~Shorter(e, 0)
    BY <2>2, <2>3 DEF Shorter
  <2> QED  BY <2>4, <2>5, <2>6, <2>7 DEF Speaks
<1> QED  BY <1>2, <1>3

(* e decodes a message m from the other end. *)
Hears(e, m) ==
    /\ loop[e] = "reading" /\ ~closed[e]
    /\ Len(wire[Other(e)]) > 0 /\ m = wire[Other(e)][1] /\ m \in MessageType

LEMMA IncomingFacts ==
    ASSUME Shape, NEW e \in Ends, NEW m \in Incoming(e)
    PROVE  /\ Hears(e, m)
           /\ Decoded(e) \in [Ends -> Seq(MessageType)]
           /\ Decoded(e)[e] = wire[e]
           /\ Len(Decoded(e)[Other(e)]) = Len(wire[Other(e)]) - 1
           /\ \A i \in 1 .. Len(wire[Other(e)]) - 1 :
                Decoded(e)[Other(e)][i] = wire[Other(e)][i + 1]
<1>1. wire \in [Ends -> Seq(MessageType)] /\ Other(e) \in Ends /\ Other(e) # e
  BY OtherEnd DEF Shape
<1>2. loop[e] = "reading" /\ ~closed[e] /\ wire[Other(e)] # <<>> /\ m = Head(wire[Other(e)])
  BY DEF Incoming
<1>3. /\ Tail(wire[Other(e)]) \in Seq(MessageType) /\ m = wire[Other(e)][1] /\ m \in MessageType
      /\ Len(wire[Other(e)]) \in Nat \ {0}
      /\ Len(Tail(wire[Other(e)])) = Len(wire[Other(e)]) - 1
      /\ \A i \in 1 .. Len(wire[Other(e)]) - 1 : Tail(wire[Other(e)])[i] = wire[Other(e)][i + 1]
  BY <1>1, <1>2, TailOne
<1>4. /\ Decoded(e) \in [Ends -> Seq(MessageType)]
      /\ Decoded(e)[e] = wire[e] /\ Decoded(e)[Other(e)] = Tail(wire[Other(e)])
  BY <1>1, <1>3 DEF Decoded
<1> QED  BY <1>2, <1>3, <1>4 DEF Hears

LEMMA DecodeFacts ==
    ASSUME Shape, NEW e \in Ends, NEW m \in Incoming(e), wire' = Decoded(e)
    PROVE  /\ Hears(e, m) /\ wire' \in [Ends -> Seq(MessageType)]
           /\ Shorter(e, 0) /\ Shorter(Other(e), 1)
<1>1. Len(wire[e]) \in Nat /\ Len(wire[Other(e)]) \in Nat
  BY WireFacts, OtherEnd
<1>2. /\ Hears(e, m) /\ wire' \in [Ends -> Seq(MessageType)]
      /\ wire'[e] = wire[e]
      /\ Len(wire'[Other(e)]) = Len(wire[Other(e)]) - 1
      /\ \A i \in 1 .. Len(wire[Other(e)]) - 1 : wire'[Other(e)][i] = wire[Other(e)][i + 1]
  BY IncomingFacts
<1>3. Len(wire[Other(e)]) > 0
  BY <1>2 DEF Hears
<1> QED  BY <1>1, <1>2, <1>3 DEF Shorter

LEMMA AnswerFacts ==
    ASSUME Shape, NEW e \in Ends, NEW m \in Incoming(e), NEW answer \in MessageType,
           wire' = Sent(Decoded(e), e, answer)
    PROVE  Hears(e, m) /\ Speaks(e, answer, 1)
<1>1. /\ Len(wire[e]) \in Nat /\ Len(wire[Other(e)]) \in Nat /\ Other(e) # e /\ Other(e) \in Ends
      /\ wire[e] \in Seq(MessageType)
  BY WireFacts, OtherEnd
<1> DEFINE w == Decoded(e)
<1>2. /\ Hears(e, m) /\ w \in [Ends -> Seq(MessageType)]
      /\ w[e] = wire[e]
      /\ Len(w[Other(e)]) = Len(wire[Other(e)]) - 1
      /\ \A i \in 1 .. Len(wire[Other(e)]) - 1 : w[Other(e)][i] = wire[Other(e)][i + 1]
  BY IncomingFacts
<1>3. wire' = Sent(w, e, answer)
  OBVIOUS
<1> HIDE DEF w
<1>4. Len(wire[Other(e)]) > 0
  BY <1>2 DEF Hears
<1>5. CASE closed[e] \/ closed[Other(e)]
  <2>1. wire' = w
    BY <1>3, <1>5 DEF Sent
  <2>2. Shorter(e, 0) /\ Shorter(Other(e), 1)
    BY <1>1, <1>2, <1>4, <2>1 DEF Shorter
  <2> QED  BY <1>2, <1>5, <2>1, <2>2 DEF Speaks
<1>6. CASE ~(closed[e] \/ closed[Other(e)])
  <2>1. wire' = [w EXCEPT ![e] = Append(w[e], answer)]
    BY <1>3, <1>6 DEF Sent
  <2>2. /\ Append(wire[e], answer) \in Seq(MessageType)
        /\ Len(Append(wire[e], answer)) = Len(wire[e]) + 1
        /\ \A i \in 1 .. Len(wire[e]) : Append(wire[e], answer)[i] = wire[e][i]
        /\ Append(wire[e], answer)[Len(wire[e]) + 1] = answer
    BY <1>1, AppendOne
  <2>3. wire'[e] = Append(wire[e], answer) /\ wire'[Other(e)] = w[Other(e)]
    BY <1>1, <1>2, <2>1
  <2>4. wire' \in [Ends -> Seq(MessageType)]
    BY <1>2, <2>1, <2>2
  <2>5. Longer(e, answer)
    BY <1>6, <2>2, <2>3 DEF Longer
  <2>6. Shorter(Other(e), 1)
    BY <1>1, <1>2, <1>4, <2>3 DEF Shorter
  <2>7. ~Shorter(e, 0)
    BY <1>1, <2>2, <2>3 DEF Shorter
  <2> QED  BY <1>2, <2>4, <2>5, <2>6, <2>7 DEF Speaks
<1> QED  BY <1>5, <1>6

LEMMA QuietShorter ==
    ASSUME Shape, NEW x \in Ends, Quiet(x), Grown, UNCHANGED setting, NEW s, Shorter(x, s)
    PROVE  Quiet(x)'
<1>1. /\ Len(wire[x]) \in Nat /\ Len(chan[x]) \in Nat /\ s \in {0, 1}
      /\ Len(wire'[x]) = Len(wire[x]) - s
  BY WireFacts, ChanFacts DEF Shorter
<1>2. ASSUME NEW i \in 1 .. Len(wire'[x])
      PROVE  i + s \in 1 .. Len(wire[x]) /\ wire'[x][i] = wire[x][i + s]
  BY <1>1 DEF Shorter
<1>3. ASSUME NEW i \in 1 .. Len(wire'[x])
      PROVE  /\ wire'[x][i].ok = (x \in setting'.acceptable)
             /\ wire'[x][i].src \in 0 .. Len(chan'[x])
             /\ (wire'[x][i].src = 0 <=> wire'[x][i].op = "Failure")
             /\ wire'[x][i].op = "Close" => chan'[x][wire'[x][i].src].sentClose
  <2> DEFINE m == wire[x][i + s]
  <2>1. /\ m.ok = (x \in setting.acceptable)
        /\ m.src \in 0 .. Len(chan[x]) /\ (m.src = 0 <=> m.op = "Failure")
        /\ m.op = "Close" => chan[x][m.src].sentClose
    BY <1>2 DEF Quiet
  <2>2. wire'[x][i] = m
    BY <1>2
  <2> HIDE DEF m
  <2>3. m.op = "Close" => m.src \in 1 .. Len(chan[x])
    BY <1>1, <2>1
  <2>4. Len(chan[x]) <= Len(chan'[x])
    BY DEF Grown
  <2>5. m.src \in 0 .. Len(chan'[x])
    <3>1. Len(chan'[x]) \in Nat \/ m.src \in 0 .. Len(chan'[x])
      BY <1>1, <2>1, <2>4
    <3> QED  BY <1>1, <2>1, <2>4, <3>1
  <2>6. m.op = "Close" => chan'[x][m.src].sentClose
    BY <2>1, <2>3 DEF Grown
  <2> QED  BY <2>1, <2>2, <2>5, <2>6
<1>4. ASSUME NEW i \in 1 .. Len(wire'[x]), NEW j \in 1 .. Len(wire'[x]), j < i
      PROVE  /\ wire'[x][i].op \in {"Open", "Confirm"} => wire'[x][j].src # wire'[x][i].src
             /\ wire'[x][j].op = "Close" => wire'[x][j].src # wire'[x][i].src
  <2>1. /\ i + s \in 1 .. Len(wire[x]) /\ wire'[x][i] = wire[x][i + s]
        /\ j + s \in 1 .. Len(wire[x]) /\ wire'[x][j] = wire[x][j + s]
    BY <1>2
  <2>2. j + s < i + s
    BY <1>1, <1>4
  <2>3. \A q, r \in 1 .. Len(wire[x]) :
          r < q => /\ wire[x][q].op \in {"Open", "Confirm"} => wire[x][r].src # wire[x][q].src
                   /\ wire[x][r].op = "Close" => wire[x][r].src # wire[x][q].src
    BY DEF Quiet
  <2> QED  BY <2>1, <2>2, <2>3
<1> QED  BY <1>3, <1>4 DEF Quiet

(* A message that x may send: the first of a channel that it has just made, or *)
(* one of a channel that has not sent Close before.                            *)
MaySend(x, m) ==
    /\ m.ok = (x \in setting.acceptable)
    /\ m.src \in 0 .. Len(chan'[x]) /\ (m.src = 0 <=> m.op = "Failure")
    /\ m.op = "Close" => chan'[x][m.src].sentClose
    /\ m.op \in {"Open", "Confirm"} => m.src > Len(chan[x])
    /\ m.src > Len(chan[x]) \/ m.src = 0 \/ ~chan[x][m.src].sentClose

LEMMA QuietLonger ==
    ASSUME Shape, NEW x \in Ends, Quiet(x), Grown, UNCHANGED setting,
           NEW m \in MessageType, Longer(x, m), MaySend(x, m), Len(chan'[x]) \in Nat
    PROVE  Quiet(x)'
<1> DEFINE N == Len(wire[x])
<1>1. /\ N \in Nat /\ Len(chan[x]) \in Nat
      /\ Len(wire'[x]) = N + 1
      /\ \A i \in 1 .. N : wire'[x][i] = wire[x][i]
      /\ wire'[x][N + 1] = m
  BY WireFacts, ChanFacts DEF Longer
<1>2. \A i \in 1 .. N : /\ wire[x][i].ok = (x \in setting.acceptable)
                        /\ wire[x][i].src \in 0 .. Len(chan[x])
                        /\ (wire[x][i].src = 0 <=> wire[x][i].op = "Failure")
                        /\ wire[x][i].op = "Close" => chan[x][wire[x][i].src].sentClose
  BY DEF Quiet
<1>3. \A i, j \in 1 .. N : j < i =>
        /\ wire[x][i].op \in {"Open", "Confirm"} => wire[x][j].src # wire[x][i].src
        /\ wire[x][j].op = "Close" => wire[x][j].src # wire[x][i].src
  BY DEF Quiet
<1>4. m.src \in Nat
  BY DEF MessageType
<1> HIDE DEF N
<1>5. ASSUME NEW i \in 1 .. N + 1
      PROVE  /\ wire'[x][i].ok = (x \in setting'.acceptable)
             /\ wire'[x][i].src \in 0 .. Len(chan'[x])
             /\ (wire'[x][i].src = 0 <=> wire'[x][i].op = "Failure")
             /\ wire'[x][i].op = "Close" => chan'[x][wire'[x][i].src].sentClose
  <2>1. CASE i = N + 1
    BY <1>1, <2>1 DEF MaySend
  <2>2. CASE i \in 1 .. N
    <3> DEFINE n == wire[x][i]
    <3>1. wire'[x][i] = n
      BY <1>1, <2>2
    <3>2. /\ n.ok = (x \in setting.acceptable)
          /\ n.src \in 0 .. Len(chan[x]) /\ (n.src = 0 <=> n.op = "Failure")
          /\ n.op = "Close" => chan[x][n.src].sentClose
      BY <1>2, <2>2
    <3> HIDE DEF n
    <3>3. Len(chan[x]) <= Len(chan'[x])
      BY DEF Grown
    <3>4. n.op = "Close" => n.src \in 1 .. Len(chan[x])
      BY <1>1, <3>2
    <3>5. n.op = "Close" => chan'[x][n.src].sentClose
      BY <3>2, <3>4 DEF Grown
    <3>6. n.src \in 0 .. Len(chan'[x])
      BY <1>1, <3>2, <3>3
    <3> QED  BY <3>1, <3>2, <3>5, <3>6
  <2> QED  BY <1>1, <2>1, <2>2
<1>6. ASSUME NEW i \in 1 .. N + 1, NEW j \in 1 .. N + 1, j < i
      PROVE  /\ wire'[x][i].op \in {"Open", "Confirm"} => wire'[x][j].src # wire'[x][i].src
             /\ wire'[x][j].op = "Close" => wire'[x][j].src # wire'[x][i].src
  <2>1. j \in 1 .. N /\ wire'[x][j] = wire[x][j]
    BY <1>1, <1>6
  <2>2. CASE i \in 1 .. N
    <3>1. wire'[x][i] = wire[x][i]
      BY <1>1, <2>2
    <3> QED  BY <1>3, <1>6, <2>1, <2>2, <3>1
  <2>3. CASE i = N + 1
    <3>1. wire'[x][i] = m
      BY <1>1, <2>3
    <3> DEFINE n == wire[x][j]
    <3>2. /\ n.src \in 0 .. Len(chan[x]) /\ (n.src = 0 <=> n.op = "Failure")
          /\ n.op = "Close" => chan[x][n.src].sentClose
      BY <1>2, <2>1
    <3> HIDE DEF n
    <3>3. m.op \in {"Open", "Confirm"} => n.src # m.src
      BY <1>1, <1>4, <3>2 DEF MaySend
    <3>4. n.op = "Close" => n.src # m.src
      BY <1>1, <1>4, <3>2 DEF MaySend
    <3>5. wire'[x][j] = n
      BY <2>1 DEF n
    <3> QED  BY <3>1, <3>3, <3>4, <3>5
  <2> QED  BY <1>1, <2>2, <2>3
<1> QED  BY <1>1, <1>5, <1>6 DEF Quiet

(* After e has spoken, what is on both wires is as it should be. *)
LEMMA QuietSpeaks ==
    ASSUME Shape, AllQuiet, NEW e \in Ends, Grown, UNCHANGED setting, Len(chan'[e]) \in Nat,
           NEW m \in MessageType, NEW s, Speaks(e, m, s), MaySend(e, m)
    PROVE  AllQuiet'
<1>1. Quiet(e)'
  BY QuietShorter, QuietLonger DEF Speaks, AllQuiet
<1>2. Quiet(Other(e))'
  BY QuietShorter, OtherEnd DEF Speaks, AllQuiet
<1> QED  BY <1>1, <1>2, OtherEnd DEF AllQuiet

LEMMA QuietOn ==
    ASSUME Shape, AllQuiet, Grown, UNCHANGED setting,
           \A x \in Ends : Shorter(x, 0) \/ Shorter(x, 1)
    PROVE  AllQuiet'
  BY QuietShorter DEF AllQuiet

-----------------------------------------------------------------------------
(* Whatever refers to a channel *)

LEMMA PendingFacts ==
    ASSUME Shape, NEW e \in Ends
    PROVE  /\ pending[e] \in Seq({"open", "close", "loop"} \X Nat)
           /\ Len(pending[e]) \in Nat
           /\ \A i \in 1 .. Len(pending[e]) :
                pending[e][i][1] \in {"open", "close", "loop"} /\ pending[e][i][2] \in Nat
<1>1. pending[e] \in Seq({"open", "close", "loop"} \X Nat)
  BY DEF Shape
<1>2. Len(pending[e]) \in Nat
      /\ \A i \in 1 .. Len(pending[e]) : pending[e][i] \in {"open", "close", "loop"} \X Nat
  BY <1>1, Elements
<1> QED  BY <1>1, <1>2

(* The channel that a pending call is about is still there. *)
LEMMA StillAwaited ==
    ASSUME Shape, NEW e \in Ends, PendingRefers(e), Grown, NEW i \in 1 .. Len(pending[e]),
           pending[e][i][1] # "loop", Len(chan'[e]) \in Nat
    PROVE  /\ pending[e][i][2] \in 1 .. Len(chan'[e])
           /\ pending[e][i][1] = "close" => chan'[e][pending[e][i][2]].sentClose
<1>1. /\ pending[e][i][2] \in 1 .. Len(chan[e])
      /\ pending[e][i][1] = "close" => chan[e][pending[e][i][2]].sentClose
  BY DEF PendingRefers
<1>2. Len(chan[e]) \in Nat
  BY ChanFacts
<1>3. /\ Len(chan[e]) <= Len(chan'[e])
      /\ \A k \in 1 .. Len(chan[e]) : chan[e][k].sentClose => chan'[e][k].sentClose
  BY DEF Grown
<1> QED  BY <1>1, <1>2, <1>3

LEMMA PendingStays ==
    ASSUME Shape, Refer, NEW x \in Ends, Grown, pending'[x] = pending[x],
           loop'[x] = loop[x] \/ loop[x] # "writing", Len(chan'[x]) \in Nat
    PROVE  PendingRefers(x)' /\ LoopWrites(x)'
<1>1. PendingRefers(x) /\ LoopWrites(x)
  BY DEF Refer, Refers
<1>2. PendingRefers(x)'
  BY <1>1, StillAwaited DEF PendingRefers
<1>3. LoopWrites(x)'
  BY <1>1 DEF LoopWrites
<1> QED  BY <1>2, <1>3

LEMMA PendingAwaits ==
    ASSUME Shape, Refer, NEW e \in Ends, Grown, Len(chan'[e]) \in Nat,
           NEW who \in {"open", "close", "loop"}, NEW k \in Nat, Await(e, who, k),
           who # "loop" => k \in 1 .. Len(chan'[e]) /\ loop'[e] = loop[e],
           who = "close" => chan'[e][k].sentClose,
           who = "loop" => loop[e] # "writing" /\ loop'[e] = "writing"
    PROVE  /\ pending' \in [Ends -> Seq({"open", "close", "loop"} \X Nat)]
           /\ PendingRefers(e)' /\ LoopWrites(e)'
           /\ \A x \in Ends : x # e => pending'[x] = pending[x]
<1> DEFINE N == Len(pending[e])
<1>1. /\ pending \in [Ends -> Seq({"open", "close", "loop"} \X Nat)] /\ N \in Nat
      /\ PendingRefers(e) /\ LoopWrites(e)
      /\ pending[e] \in Seq({"open", "close", "loop"} \X Nat)
  BY PendingFacts DEF Shape, Refer, Refers
<1>2. <<who, k>> \in {"open", "close", "loop"} \X Nat
  OBVIOUS
<1>3. /\ Append(pending[e], <<who, k>>) \in Seq({"open", "close", "loop"} \X Nat)
      /\ Len(Append(pending[e], <<who, k>>)) = N + 1
      /\ \A i \in 1 .. N : Append(pending[e], <<who, k>>)[i] = pending[e][i]
      /\ Append(pending[e], <<who, k>>)[N + 1] = <<who, k>>
  BY <1>1, <1>2, AppendOne
<1>4. /\ pending'[e] = Append(pending[e], <<who, k>>)
      /\ \A x \in Ends : x # e => pending'[x] = pending[x]
      /\ pending' \in [Ends -> Seq({"open", "close", "loop"} \X Nat)]
  BY <1>1, <1>3 DEF Await
<1>5. /\ Len(pending'[e]) = N + 1 /\ pending'[e][N + 1] = <<who, k>>
      /\ \A i \in 1 .. N : pending'[e][i] = pending[e][i]
  BY <1>3, <1>4
<1>6. PendingRefers(e)'
  <2> SUFFICES ASSUME NEW i \in 1 .. N + 1, pending'[e][i][1] # "loop"
               PROVE  /\ pending'[e][i][2] \in 1 .. Len(chan'[e])
                      /\ pending'[e][i][1] = "close" => chan'[e][pending'[e][i][2]].sentClose
    BY <1>5 DEF PendingRefers
  <2>1. CASE i = N + 1
    <3>1. pending'[e][i] = <<who, k>>
      BY <1>5, <2>1
    <3>2. pending'[e][i][1] = who /\ pending'[e][i][2] = k
      BY ONLY <3>1
    <3> QED  BY <3>2
  <2>2. CASE i \in 1 .. N
    <3>1. pending'[e][i] = pending[e][i] /\ pending[e][i][1] # "loop"
      BY <1>5, <2>2
    <3>2. /\ pending[e][i][2] \in 1 .. Len(chan'[e])
          /\ pending[e][i][1] = "close" => chan'[e][pending[e][i][2]].sentClose
      BY <1>1, <2>2, <3>1, StillAwaited
    <3> QED  BY <3>1, <3>2
  <2>3. i = N + 1 \/ i \in 1 .. N
    <3>1. N \in Nat /\ i \in 1 .. N + 1
      BY <1>1
    <3> HIDE DEF N
    <3> QED  BY <3>1
  <2> QED  BY <2>1, <2>2, <2>3
<1>7. LoopWrites(e)'
  <2>1. CASE who = "loop"
    <3>1. \A i \in 1 .. N : pending[e][i][1] # "loop"
      BY <1>1, <2>1 DEF LoopWrites
    <3>2. \A i \in 1 .. N + 1 : pending'[e][i][1] = "loop" => i = N + 1
      BY <1>1, <1>5, <3>1
    <3> QED  BY <1>1, <1>5, <2>1, <3>2 DEF LoopWrites
  <2>2. CASE who # "loop"
    <3>1. \A i \in 1 .. N + 1 : pending'[e][i][1] = "loop" =>
            i \in 1 .. N /\ pending[e][i][1] = "loop"
      BY <1>1, <1>5, <2>2
    <3> QED  BY <1>1, <1>5, <2>2, <3>1 DEF LoopWrites
  <2> QED  BY <2>1, <2>2
<1> QED  BY <1>4, <1>6, <1>7

LEMMA PendingTail ==
    ASSUME Shape, Refer, NEW e \in Ends, Grown, Len(chan'[e]) \in Nat, pending[e] # <<>>,
           pending' = [pending EXCEPT ![e] = Tail(@)],
           IF Head(pending[e])[1] = "loop" THEN loop'[e] = "reading" ELSE loop'[e] = loop[e]
    PROVE  /\ pending' \in [Ends -> Seq({"open", "close", "loop"} \X Nat)]
           /\ PendingRefers(e)' /\ LoopWrites(e)'
           /\ \A x \in Ends : x # e => pending'[x] = pending[x]
<1> DEFINE N == Len(pending[e])
<1>1. /\ pending \in [Ends -> Seq({"open", "close", "loop"} \X Nat)]
      /\ PendingRefers(e) /\ LoopWrites(e)
      /\ pending[e] \in Seq({"open", "close", "loop"} \X Nat)
  BY PendingFacts DEF Shape, Refer, Refers
<1>2. /\ Tail(pending[e]) \in Seq({"open", "close", "loop"} \X Nat)
      /\ Head(pending[e]) = pending[e][1] /\ N \in Nat \ {0}
      /\ Len(Tail(pending[e])) = N - 1
      /\ \A i \in 1 .. N - 1 : Tail(pending[e])[i] = pending[e][i + 1]
  BY <1>1, TailOne
<1>3. /\ pending'[e] = Tail(pending[e])
      /\ \A x \in Ends : x # e => pending'[x] = pending[x]
      /\ pending' \in [Ends -> Seq({"open", "close", "loop"} \X Nat)]
  BY <1>1, <1>2
<1>4. /\ Len(pending'[e]) = N - 1
      /\ \A i \in 1 .. N - 1 : i + 1 \in 1 .. N /\ pending'[e][i] = pending[e][i + 1]
  BY <1>2, <1>3
<1>5. PendingRefers(e)'
  <2> SUFFICES ASSUME NEW i \in 1 .. N - 1, pending'[e][i][1] # "loop"
               PROVE  /\ pending'[e][i][2] \in 1 .. Len(chan'[e])
                      /\ pending'[e][i][1] = "close" => chan'[e][pending'[e][i][2]].sentClose
    BY <1>4 DEF PendingRefers
  <2>1. i + 1 \in 1 .. N /\ pending'[e][i] = pending[e][i + 1]
    BY <1>4
  <2> QED  BY <1>1, <2>1, StillAwaited
<1>6. LoopWrites(e)'
  <2> SUFFICES ASSUME NEW i \in 1 .. N - 1, pending'[e][i][1] = "loop"
               PROVE  /\ loop'[e] = "writing"
                      /\ \A j \in 1 .. N - 1 : pending'[e][j][1] = "loop" => i = j
    BY <1>4 DEF LoopWrites
  <2>1. i + 1 \in 1 .. N /\ pending[e][i + 1][1] = "loop"
    BY <1>4
  <2>2. /\ loop[e] = "writing"
        /\ \A j \in 1 .. N : pending[e][j][1] = "loop" => i + 1 = j
    BY <1>1, <2>1 DEF LoopWrites
  <2>3. pending[e][1][1] # "loop"
    <3>1. 1 \in 1 .. N /\ i + 1 # 1
      BY <1>2
    <3> QED  BY <2>2, <3>1
  <2>4. \A j \in 1 .. N - 1 : pending'[e][j][1] = "loop" => i + 1 = j + 1
    <3> SUFFICES ASSUME NEW j \in 1 .. N - 1, pending'[e][j][1] = "loop" PROVE i + 1 = j + 1
      OBVIOUS
    <3>1. j + 1 \in 1 .. N /\ pending'[e][j] = pending[e][j + 1]
      BY <1>4
    <3> QED  BY <2>2, <3>1
  <2> QED  BY <1>2, <2>2, <2>3, <2>4
<1> QED  BY <1>3, <1>5, <1>6

LEMMA ListFacts ==
    ASSUME Shape, NEW e \in Ends
    PROVE  /\ channels[e] \in Seq(Int) /\ Len(channels[e]) \in Nat
           /\ DOMAIN channels[e] = 1 .. Len(channels[e])
           /\ \A i \in 1 .. Len(channels[e]) : channels[e][i] \in Int
<1>1. channels[e] \in Seq(Int)
  BY DEF Shape
<1> QED  BY <1>1, Elements

(* new is the array after addCh of k. *)
Added(list, k, new) ==
    /\ new \in Seq(Int) /\ Len(new) = Len(list) + 1
    /\ \A i \in 1 .. Len(list) : new[i] = IF list[i] = Undefined THEN k ELSE list[i]
    /\ new[Len(list) + 1] = k

LEMMA AddChFacts ==
    ASSUME NEW list \in Seq(Int), NEW k \in Nat, NEW new, new = AddCh(list, k)
    PROVE  Added(list, k, new)
<1> DEFINE filled == FillUndefined(list, k)
<1>1. Len(list) \in Nat /\ DOMAIN list = 1 .. Len(list) /\ \A i \in 1 .. Len(list) : list[i] \in Int
  BY Elements
<1>2. filled = [i \in 1 .. Len(list) |-> IF list[i] = Undefined THEN k ELSE list[i]]
  BY <1>1 DEF FillUndefined
<1>3. /\ filled \in Seq(Int) /\ Len(filled) = Len(list)
      /\ \A i \in 1 .. Len(list) : filled[i] = IF list[i] = Undefined THEN k ELSE list[i]
  <2>1. \A i \in 1 .. Len(list) : (IF list[i] = Undefined THEN k ELSE list[i]) \in Int
    BY <1>1
  <2>2. filled \in [1 .. Len(list) -> Int]
    BY <1>2, <2>1
  <2>3. filled \in Seq(Int) /\ Len(filled) = Len(list)
    BY <1>1, <2>2, Listing
  <2> QED  BY <1>2, <2>3
<1>4. new = Append(filled, k) /\ k \in Int
  BY DEF AddCh
<1> HIDE DEF filled
<1>5. /\ Append(filled, k) \in Seq(Int)
      /\ Len(Append(filled, k)) = Len(filled) + 1
      /\ \A i \in 1 .. Len(filled) : Append(filled, k)[i] = filled[i]
      /\ Append(filled, k)[Len(filled) + 1] = k
  BY <1>3, <1>4, AppendOne
<1> QED  BY <1>3, <1>4, <1>5 DEF Added

LEMMA RmChFacts ==
    ASSUME NEW e, NEW list \in Seq(Int), NEW id \in 1 .. Len(list), NEW new, new = RmCh(e, list, id)
    PROVE  /\ new \in Seq(Int) /\ Len(new) = Len(list)
           /\ new[id] \in {Hole, Undefined}
           /\ \A i \in 1 .. Len(list) : i # id => new[i] = list[i]
<1>1. Hole \in Int /\ Undefined \in Int
  BY DEF Hole, Undefined
<1>2. \E v \in {Hole, Undefined} : new = [list EXCEPT ![id] = v]
  BY DEF RmCh, RmChMux, RmChQmux
<1>3. PICK v \in {Hole, Undefined} : new = [list EXCEPT ![id] = v]
  BY <1>2
<1>4. /\ new \in Seq(Int) /\ Len(new) = Len(list)
      /\ \A j \in 1 .. Len(list) : new[j] = IF j = id THEN v ELSE list[j]
  BY <1>1, <1>3, ExceptSeq
<1> QED  BY <1>4

LEMMA GetChFacts ==
    ASSUME Shape, Refer, NEW e \in Ends, NEW id, NEW k, k = GetCh(channels[e], id), k # Hole
    PROVE  k \in 1 .. Len(chan[e]) /\ id \in 1 .. Len(chan[e]) /\ channels[e][id] = k
<1>1. /\ DOMAIN channels[e] = 1 .. Len(channels[e])
      /\ Len(channels[e]) = Len(chan[e])
      /\ \A i \in 1 .. Len(channels[e]) : channels[e][i] \in {Hole, Undefined} \cup 1 .. Len(chan[e])
  BY ListFacts DEF Refer, Refers, ListRefers
<1>2. id \in DOMAIN channels[e] /\ k = channels[e][id] /\ channels[e][id] > 0
  BY DEF GetCh
<1> QED  BY <1>1, <1>2 DEF Hole, Undefined

LEMMA ListStays ==
    ASSUME Shape, Refer, NEW x \in Ends, channels'[x] = channels[x], Len(chan'[x]) = Len(chan[x])
    PROVE  ListRefers(x)'
  BY DEF Refer, Refers, ListRefers

LEMMA ListRemoved ==
    ASSUME Shape, Refer, NEW e \in Ends, NEW id \in 1 .. Len(chan[e]),
           channels' = [channels EXCEPT ![e] = RmCh(e, @, id)],
           \A x \in Ends : Len(chan'[x]) = Len(chan[x])
    PROVE  channels' \in [Ends -> Seq(Int)] /\ \A x \in Ends : ListRefers(x)'
<1>1. /\ channels \in [Ends -> Seq(Int)] /\ channels[e] \in Seq(Int)
      /\ Len(channels[e]) = Len(chan[e])
      /\ \A i \in 1 .. Len(channels[e]) : channels[e][i] \in {Hole, Undefined} \cup 1 .. Len(chan[e])
  BY DEF Shape, Refer, Refers, ListRefers
<1> DEFINE new == RmCh(e, channels[e], id)
<1>2. /\ new \in Seq(Int) /\ Len(new) = Len(channels[e])
      /\ new[id] \in {Hole, Undefined}
      /\ \A i \in 1 .. Len(channels[e]) : i # id => new[i] = channels[e][i]
  BY <1>1, RmChFacts
<1>3. channels'[e] = new /\ \A x \in Ends : x # e => channels'[x] = channels[x]
  BY <1>1
<1>4. channels' \in [Ends -> Seq(Int)]
  BY <1>1, <1>2
<1> HIDE DEF new
<1>5. ListRefers(e)'
  BY <1>1, <1>2, <1>3 DEF ListRefers
<1>6. \A x \in Ends : x # e => ListRefers(x)'
  BY <1>3, ListStays
<1> QED  BY <1>4, <1>5, <1>6

LEMMA ListAdded ==
    ASSUME Shape, Refer, NEW e \in Ends,
           channels' = [channels EXCEPT ![e] = AddCh(@, Len(chan[e]) + 1)],
           Len(chan'[e]) = Len(chan[e]) + 1,
           \A x \in Ends : x # e => Len(chan'[x]) = Len(chan[x])
    PROVE  channels' \in [Ends -> Seq(Int)] /\ \A x \in Ends : ListRefers(x)'
<1>1. /\ channels \in [Ends -> Seq(Int)] /\ channels[e] \in Seq(Int)
      /\ Len(channels[e]) = Len(chan[e]) /\ Len(chan[e]) \in Nat
      /\ \A i \in 1 .. Len(channels[e]) : channels[e][i] \in {Hole, Undefined} \cup 1 .. Len(chan[e])
  BY ChanFacts DEF Shape, Refer, Refers, ListRefers
<1> DEFINE new == AddCh(channels[e], Len(chan[e]) + 1)
<1>2. /\ new \in Seq(Int) /\ Len(new) = Len(channels[e]) + 1
      /\ \A i \in 1 .. Len(channels[e]) :
            new[i] = IF channels[e][i] = Undefined THEN Len(chan[e]) + 1 ELSE channels[e][i]
      /\ new[Len(channels[e]) + 1] = Len(chan[e]) + 1
  <2>1. Len(chan[e]) + 1 \in Nat
    BY <1>1
  <2>2. Added(channels[e], Len(chan[e]) + 1, new)
    BY <1>1, <2>1, AddChFacts
  <2> QED  BY <2>2 DEF Added
<1>3. channels'[e] = new /\ \A x \in Ends : x # e => channels'[x] = channels[x]
  BY <1>1
<1>4. channels' \in [Ends -> Seq(Int)]
  BY <1>1, <1>2
<1> HIDE DEF new
<1>5. \A i \in 1 .. Len(new) : new[i] \in {Hole, Undefined} \cup 1 .. Len(chan[e]) + 1
  <2>1. PICK n \in Nat, s \in Seq(Int) :
          n = Len(chan[e]) /\ s = channels[e] /\ Len(s) = n
    BY <1>1
  <2>2. /\ Len(new) = n + 1 /\ new[n + 1] = n + 1
        /\ \A i \in 1 .. n : new[i] = IF s[i] = Undefined THEN n + 1 ELSE s[i]
        /\ \A i \in 1 .. n : s[i] \in {Hole, Undefined} \cup 1 .. n
    BY <1>1, <1>2, <2>1
  <2>3. ASSUME NEW i \in 1 .. n + 1 PROVE new[i] \in {Hole, Undefined} \cup 1 .. n + 1
    <3>1. CASE i = n + 1
      BY <2>2, <3>1
    <3>2. CASE i \in 1 .. n
      <4>1. new[i] \in {Hole, Undefined, n + 1} \cup 1 .. n
        BY <2>2, <3>2
      <4> QED  BY <4>1
    <3> QED  BY <3>1, <3>2
  <2> QED  BY <2>1, <2>2, <2>3
<1>6. ListRefers(e)'
  BY <1>1, <1>2, <1>3, <1>5 DEF ListRefers
<1>7. \A x \in Ends : x # e => ListRefers(x)'
  BY <1>3, ListStays
<1> QED  BY <1>4, <1>6, <1>7

LEMMA IncomingListFacts ==
    ASSUME Shape, NEW e \in Ends
    PROVE  /\ incoming[e] \in Seq(Nat) /\ Len(incoming[e]) \in Nat
           /\ \A i \in 1 .. Len(incoming[e]) : incoming[e][i] \in Nat
<1>1. incoming[e] \in Seq(Nat)
  BY DEF Shape
<1> QED  BY <1>1, Elements

(* Whatever waits for accept has waited before, or is a channel just taken in. *)
LEMMA IncomingStays ==
    ASSUME Shape, Refer, NEW x \in Ends, Grown, Len(chan'[x]) \in Nat,
           \A i \in 1 .. Len(incoming'[x]) :
              \/ \E j \in 1 .. Len(incoming[x]) : incoming'[x][i] = incoming[x][j]
              \/ incoming'[x][i] \in 1 .. Len(chan'[x]) /\ ~chan'[x][incoming'[x][i]].mine
    PROVE  IncomingRefers(x)'
<1> SUFFICES ASSUME NEW i \in 1 .. Len(incoming'[x])
             PROVE  incoming'[x][i] \in 1 .. Len(chan'[x]) /\ ~chan'[x][incoming'[x][i]].mine
  BY DEF IncomingRefers
<1>1. CASE \E j \in 1 .. Len(incoming[x]) : incoming'[x][i] = incoming[x][j]
  <2>1. PICK j \in 1 .. Len(incoming[x]) : incoming'[x][i] = incoming[x][j]
    BY <1>1
  <2>2. incoming[x][j] \in 1 .. Len(chan[x]) /\ ~chan[x][incoming[x][j]].mine
    BY DEF Refer, Refers, IncomingRefers
  <2>3. Len(chan[x]) \in Nat /\ Len(chan[x]) <= Len(chan'[x])
    BY ChanFacts DEF Grown
  <2>4. ~chan'[x][incoming[x][j]].mine
    BY <2>2 DEF Grown
  <2> QED  BY <2>1, <2>2, <2>3, <2>4
<1> QED  BY <1>1

LEMMA RemoteStays ==
    ASSUME Shape, Refer, Grown, \A x \in Ends : Len(chan'[x]) \in Nat,
           NEW x \in Ends,
           \A k \in 1 .. Len(chan'[x]) :
              \/ k \in 1 .. Len(chan[x]) /\ chan'[x][k].remote = chan[x][k].remote
              \/ chan'[x][k].remote \in 0 .. Len(chan[Other(x)])
    PROVE  RemoteRefers(x)'
<1>1. /\ Len(chan[Other(x)]) <= Len(chan'[Other(x)]) /\ Len(chan[Other(x)]) \in Nat
      /\ Len(chan'[Other(x)]) \in Nat
  BY ChanFacts, OtherEnd DEF Grown
<1>2. ASSUME NEW k \in 1 .. Len(chan'[x]) PROVE chan'[x][k].remote \in 0 .. Len(chan'[Other(x)])
  <2>1. chan'[x][k].remote \in 0 .. Len(chan[Other(x)])
    BY <1>2 DEF Refer, Refers, RemoteRefers
  <2> QED  BY <1>1, <2>1
<1>3. RemoteRefers(x)' = (\A k \in 1 .. Len(chan'[x]) : chan'[x][k].remote \in 0 .. Len(chan'[Other(x)]))
  BY DEF RemoteRefers, Other
<1> QED  BY <1>2, <1>3

-----------------------------------------------------------------------------
(* Changing one channel, or adding one *)

LEMMA PutFollows ==
    ASSUME Shape, Refer, Locals, NEW e \in Ends, NEW k \in 1 .. Len(chan[e]), NEW d,
           Follows(chan[e][k], d), Put(e, k, d), d.remote \in 0 .. Len(chan[Other(e)])
    PROVE  /\ chan' \in [Ends -> Seq(ChannelType)]
           /\ \A x \in Ends : Len(chan'[x]) = Len(chan[x]) /\ Len(chan'[x]) \in Nat
           /\ chan'[e][k] = d
           /\ \A x \in Ends : \A j \in 1 .. Len(chan[x]) :
                x # e \/ j # k => chan'[x][j] = chan[x][j]
           /\ Grown /\ Locals' /\ \A x \in Ends : RemoteRefers(x)'
<1>1. d \in ChannelType /\ Local(d) /\ d.mine = chan[e][k].mine
      /\ (chan[e][k].sentClose => d.sentClose)
  BY DEF Follows
<1>2. /\ chan' \in [Ends -> Seq(ChannelType)]
      /\ \A x \in Ends : Len(chan'[x]) = Len(chan[x])
      /\ chan'[e][k] = d
      /\ \A x \in Ends : \A j \in 1 .. Len(chan[x]) :
           x # e \/ j # k => chan'[x][j] = chan[x][j]
  BY <1>1, PutFacts
<1>3. \A x \in Ends : Len(chan[x]) \in Nat
  BY ChanFacts
<1>4. ASSUME NEW x \in Ends, NEW j \in 1 .. Len(chan[x])
      PROVE  /\ Local(chan'[x][j]) /\ chan'[x][j].mine = chan[x][j].mine
             /\ chan[x][j].sentClose => chan'[x][j].sentClose
             /\ \/ chan'[x][j].remote = chan[x][j].remote
                \/ chan'[x][j].remote \in 0 .. Len(chan[Other(x)])
  <2>1. CASE x = e /\ j = k
    BY <1>1, <1>2, <2>1
  <2>2. CASE x # e \/ j # k
    BY <1>2, <2>2 DEF Locals
  <2> QED  BY <2>1, <2>2
<1>5. Grown
  BY <1>2, <1>3, <1>4 DEF Grown
<1>6. Locals'
  BY <1>2, <1>4 DEF Locals
<1>7. \A x \in Ends : RemoteRefers(x)'
  BY <1>2, <1>3, <1>4, <1>5, RemoteStays
<1> QED  BY <1>2, <1>3, <1>5, <1>6, <1>7

LEMMA AddFollows ==
    ASSUME Shape, Refer, Locals, NEW e \in Ends, NEW mine \in BOOLEAN,
           NEW remote \in 0 .. Len(chan[Other(e)]), ~mine => remote # 0, mine => remote = 0,
           AddChannel(e, mine, remote)
    PROVE  /\ chan' \in [Ends -> Seq(ChannelType)]
           /\ \A x \in Ends : Len(chan'[x]) \in Nat
           /\ Len(chan'[e]) = Len(chan[e]) + 1
           /\ chan'[e][Len(chan[e]) + 1] = NewChannel(mine, remote)
           /\ NewChannel(mine, remote).mine = mine
           /\ \A x \in Ends : x # e => chan'[x] = chan[x]
           /\ \A x \in Ends : \A j \in 1 .. Len(chan[x]) : chan'[x][j] = chan[x][j]
           /\ Grown /\ Locals' /\ \A x \in Ends : RemoteRefers(x)'
           /\ channels' \in [Ends -> Seq(Int)] /\ \A x \in Ends : ListRefers(x)'
<1> DEFINE d == NewChannel(mine, remote)
<1>1. \A x \in Ends : Len(chan[x]) \in Nat
  BY ChanFacts
<1>2. d \in ChannelType /\ Local(d) /\ d.mine = mine /\ d.remote = remote
  BY LocalWhenNew, <1>1, OtherEnd
<1>3. chan' = [chan EXCEPT ![e] = Append(@, d)]
  BY DEF AddChannel
<1> HIDE DEF d
<1>4. /\ chan' \in [Ends -> Seq(ChannelType)]
      /\ Len(chan'[e]) = Len(chan[e]) + 1
      /\ chan'[e][Len(chan[e]) + 1] = d
      /\ \A x \in Ends : x # e => chan'[x] = chan[x]
      /\ \A x \in Ends : \A j \in 1 .. Len(chan[x]) : chan'[x][j] = chan[x][j]
  BY <1>2, <1>3, AddFacts
<1>5. Grown
  <2>1. ASSUME NEW x \in Ends PROVE Len(chan[x]) <= Len(chan'[x])
    <3>1. PICK n \in Nat : n = Len(chan[x])
      BY <1>1
    <3>2. Len(chan'[x]) \in {n, n + 1}
      BY <1>4, <3>1
    <3> QED  BY <3>1, <3>2
  <2> QED  BY <1>4, <2>1 DEF Grown
<1>6. \A x \in Ends : Len(chan'[x]) \in Nat
  <2>1. ASSUME NEW x \in Ends PROVE Len(chan'[x]) \in Nat
    <3>1. chan'[x] \in Seq(ChannelType)
      BY <1>4
    <3> QED  BY <3>1
  <2> QED  BY <2>1
<1>7. ASSUME NEW x \in Ends, NEW j \in 1 .. Len(chan'[x])
      PROVE  /\ Local(chan'[x][j])
             /\ \/ j \in 1 .. Len(chan[x]) /\ chan'[x][j].remote = chan[x][j].remote
                \/ chan'[x][j].remote \in 0 .. Len(chan[Other(x)])
  <2>1. CASE j \in 1 .. Len(chan[x])
    BY <1>4, <2>1 DEF Locals
  <2>2. CASE j \notin 1 .. Len(chan[x])
    <3>1. x = e /\ j = Len(chan[e]) + 1
      BY <1>1, <1>4, <2>2
    <3> QED  BY <1>2, <1>4, <3>1
  <2> QED  BY <2>1, <2>2
<1>8. Locals'
  BY <1>7 DEF Locals
<1>9. \A x \in Ends : RemoteRefers(x)'
  BY <1>5, <1>6, <1>7, RemoteStays
<1>10. channels' \in [Ends -> Seq(Int)] /\ \A x \in Ends : ListRefers(x)'
  BY <1>4, ListAdded DEF AddChannel
<1> QED  BY <1>2, <1>4, <1>5, <1>6, <1>8, <1>9, <1>10 DEF d

-----------------------------------------------------------------------------
(* Every action keeps what each end knows for itself *)

IsMessage(m, op, e, src, to, data) ==
    /\ m \in MessageType /\ m.op = op /\ m.ok = (e \in setting.acceptable)
    /\ m.src = src /\ m.to = to /\ m.data = data

LEMMA MessageFacts ==
    ASSUME NEW e, NEW op \in Ops, NEW src \in Nat, NEW to \in Nat, NEW data \in Seq(Nat),
           NEW m, m = Message(op, e, src, to, data)
    PROVE  IsMessage(m, op, e, src, to, data)
  BY DEF Message, MessageType, IsMessage

LEMMA FromChannelFacts ==
    ASSUME Shape, NEW e \in Ends, NEW k \in 1 .. Len(chan[e]), NEW op \in Ops,
           NEW data \in Seq(Nat), NEW m, m = FromChannel(op, e, k, data)
    PROVE  IsMessage(m, op, e, k, chan[e][k].remote, data)
<1>1. chan[e][k].remote \in Nat
  BY ChanFacts, ChannelFields
<1>2. k \in Nat /\ m = Message(op, e, k, chan[e][k].remote, data)
  BY ChanFacts DEF FromChannel
<1> QED  BY <1>1, <1>2, MessageFacts

LEMMA HeldFacts ==
    ASSUME Shape, Refer, Locals, NEW e \in Ends, NEW k \in Held(e)
    PROVE  /\ k \in 1 .. Len(chan[e]) /\ chan[e][k].stage = "held"
           /\ chan[e][k] \in ChannelType /\ Local(chan[e][k])
           /\ chan[e][k].remote \in 1 .. Len(chan[Other(e)])
<1>1. k \in 1 .. Len(chan[e]) /\ chan[e][k].stage = "held" /\ chan[e][k] \in ChannelType
  BY ChanFacts DEF Held
<1>2. Local(chan[e][k]) /\ chan[e][k].remote \in 0 .. Len(chan[Other(e)])
  BY <1>1 DEF Locals, Refer, Refers, RemoteRefers
<1>3. chan[e][k].remote # 0
  BY <1>1, <1>2 DEF Local
<1>4. Len(chan[Other(e)]) \in Nat
  BY ChanFacts, OtherEnd
<1> QED  BY <1>1, <1>2, <1>3, <1>4

(* A step that changes channel k, and nothing that refers to a channel. *)
LEMMA SoundPut ==
    ASSUME Sound, NEW e \in Ends, NEW k \in 1 .. Len(chan[e]), NEW d,
           Follows(chan[e][k], d), Put(e, k, d), d.remote \in 0 .. Len(chan[Other(e)]),
           UNCHANGED <<setting, channels, incoming, pending, closed, broken>>,
           loop' \in [Ends -> {"reading", "writing", "ended", "dead"}],
           \A x \in Ends : loop'[x] = loop[x] \/ loop[x] # "writing",
           wire' \in [Ends -> Seq(MessageType)], AllQuiet'
    PROVE  Sound'
<1>1. Shape /\ Refer /\ Locals
  BY DEF Sound
<1>2. /\ chan' \in [Ends -> Seq(ChannelType)]
      /\ \A x \in Ends : Len(chan'[x]) = Len(chan[x]) /\ Len(chan'[x]) \in Nat
      /\ Grown /\ Locals' /\ \A x \in Ends : RemoteRefers(x)'
  BY <1>1, PutFollows
<1>3. Shape'
  BY <1>1, <1>2 DEF Shape
<1>4. ASSUME NEW x \in Ends PROVE Refers(x)'
  <2>1. ListRefers(x)'
    BY <1>1, <1>2, ListStays
  <2>2. IncomingRefers(x)'
    BY <1>1, <1>2, IncomingStays
  <2>3. PendingRefers(x)' /\ LoopWrites(x)'
    BY <1>1, <1>2, PendingStays
  <2> QED  BY <1>2, <2>1, <2>2, <2>3 DEF Refers
<1> QED  BY <1>2, <1>3, <1>4 DEF Sound, Refer

LEMMA SoundStays ==
    ASSUME Sound, UNCHANGED <<setting, channels, chan, incoming, pending, closed>>,
           broken' \in BOOLEAN,
           loop' \in [Ends -> {"reading", "writing", "ended", "dead"}],
           \A x \in Ends : loop'[x] = loop[x] \/ loop[x] # "writing",
           wire' \in [Ends -> Seq(MessageType)],
           \A x \in Ends : Shorter(x, 0) \/ Shorter(x, 1)
    PROVE  Sound'
<1>1. Shape /\ Refer /\ Locals /\ AllQuiet
  BY DEF Sound
<1>2. Shape'
  BY <1>1 DEF Shape
<1>3. Grown /\ \A x \in Ends : Len(chan'[x]) = Len(chan[x]) /\ Len(chan'[x]) \in Nat
  BY <1>1, ChanFacts DEF Grown
<1>4. ASSUME NEW x \in Ends PROVE Refers(x)'
  <2>1. ListRefers(x)'
    BY <1>1, <1>3, ListStays
  <2>2. IncomingRefers(x)'
    BY <1>1, <1>3, IncomingStays
  <2>3. PendingRefers(x)' /\ LoopWrites(x)'
    BY <1>1, <1>3, PendingStays
  <2>4. RemoteRefers(x)'
    BY <1>1, <1>3, RemoteStays
  <2> QED  BY <2>1, <2>2, <2>3, <2>4 DEF Refers
<1>5. Locals'
  BY <1>1 DEF Locals
<1>6. AllQuiet'
  BY <1>1, <1>3, QuietOn
<1> QED  BY <1>2, <1>4, <1>5, <1>6 DEF Sound, Refer

LEMMA SoundAccept ==
    ASSUME Sound, NEW e \in Ends, Accept(e)
    PROVE  Sound'
<1>1. Shape /\ Refer /\ Locals /\ AllQuiet
  BY DEF Sound
<1> DEFINE k == Head(incoming[e])
           d == [chan[e][k] EXCEPT !.stage = "held"]
<1>2. /\ Tail(incoming[e]) \in Seq(Nat)
      /\ k = incoming[e][1] /\ Len(incoming[e]) \in Nat \ {0}
      /\ Len(Tail(incoming[e])) = Len(incoming[e]) - 1
      /\ \A i \in 1 .. Len(incoming[e]) - 1 : Tail(incoming[e])[i] = incoming[e][i + 1]
  BY <1>1, TailOne, IncomingListFacts DEF Accept
<1>3. k \in 1 .. Len(chan[e]) /\ ~chan[e][k].mine
  <2>1. 1 \in 1 .. Len(incoming[e])
    BY <1>2
  <2> QED  BY <1>1, <1>2, <2>1 DEF Refer, Refers, IncomingRefers
<1>4. chan[e][k] \in ChannelType /\ Local(chan[e][k])
      /\ chan[e][k].remote \in 0 .. Len(chan[Other(e)])
  BY <1>1, <1>3, ChanFacts DEF Locals, Refer, Refers, RemoteRefers
<1>5. Follows(chan[e][k], d) /\ d.remote = chan[e][k].remote
  BY <1>3, <1>4, LocalWhenHeld
<1>6. Put(e, k, d)
  BY DEF Accept, Put
<1> HIDE DEF k, d
<1>7. /\ chan' \in [Ends -> Seq(ChannelType)]
      /\ \A x \in Ends : Len(chan'[x]) = Len(chan[x]) /\ Len(chan'[x]) \in Nat
      /\ Grown /\ Locals' /\ \A x \in Ends : RemoteRefers(x)'
  BY <1>1, <1>3, <1>4, <1>5, <1>6, PutFollows
<1>8. /\ incoming' \in [Ends -> Seq(Nat)]
      /\ incoming'[e] = Tail(incoming[e]) /\ \A x \in Ends : x # e => incoming'[x] = incoming[x]
  BY <1>1, <1>2 DEF Accept, Shape
<1>9. Shape'
  BY <1>1, <1>7, <1>8 DEF Shape, Accept
<1>10. ASSUME NEW x \in Ends, NEW i \in 1 .. Len(incoming'[x])
       PROVE  \E j \in 1 .. Len(incoming[x]) : incoming'[x][i] = incoming[x][j]
  <2>1. CASE x = e
    <3>1. i \in 1 .. Len(incoming[e]) - 1
      BY <1>2, <1>8, <2>1
    <3>2. i + 1 \in 1 .. Len(incoming[e])
      BY <1>2, <3>1
    <3>3. incoming'[e][i] = incoming[e][i + 1]
      BY <1>2, <1>8, <3>1
    <3> QED  BY <2>1, <3>2, <3>3
  <2>2. CASE x # e
    BY <1>8, <2>2
  <2> QED  BY <2>1, <2>2
<1>11. ASSUME NEW x \in Ends PROVE Refers(x)'
  <2>1. ListRefers(x)'
    BY <1>1, <1>7, ListStays DEF Accept
  <2>2. IncomingRefers(x)'
    BY <1>1, <1>7, <1>10, IncomingStays
  <2>3. PendingRefers(x)' /\ LoopWrites(x)'
    BY <1>1, <1>7, PendingStays DEF Accept
  <2> QED  BY <1>7, <2>1, <2>2, <2>3 DEF Refers
<1>12. AllQuiet'
  BY <1>1, <1>7, QuietOn, WireStays DEF Accept
<1> QED  BY <1>7, <1>9, <1>11, <1>12 DEF Sound, Refer

LEMMA SoundRead ==
    ASSUME Sound, NEW e \in Ends, NEW k, NEW len \in Nat, Read(e, k, len)
    PROVE  Sound'
<1>1. Shape /\ Refer /\ Locals /\ AllQuiet
  BY DEF Sound
<1>2. k \in Held(e)
  BY DEF Read
<1>3. /\ k \in 1 .. Len(chan[e]) /\ chan[e][k] \in ChannelType /\ Local(chan[e][k])
      /\ chan[e][k].remote \in 1 .. Len(chan[Other(e)])
  BY <1>1, <1>2, HeldFacts
<1> DEFINE d == TryRead(e, chan[e][k], len)
<1>4. d \in ChannelType /\ ReadOn(chan[e][k], d)
  BY <1>3, TryReadFacts
<1>5. Put(e, k, d)
  BY DEF Read
<1> HIDE DEF d
<1>6. Follows(chan[e][k], d) /\ d.remote = chan[e][k].remote
  BY <1>3, <1>4, LocalAfterRead DEF ReadOn, SameNumbers
<1>7. d.remote \in 0 .. Len(chan[Other(e)])
  BY <1>3, <1>6
<1>8. Grown
  BY <1>1, <1>3, <1>5, <1>6, <1>7, PutFollows
<1>9. wire' \in [Ends -> Seq(MessageType)] /\ AllQuiet'
  BY <1>1, <1>8, WireStays, QuietOn DEF Read
<1>10. loop' \in [Ends -> {"reading", "writing", "ended", "dead"}] /\ loop' = loop
  BY <1>1 DEF Shape, Read
<1> QED  BY <1>3, <1>5, <1>6, <1>7, <1>9, <1>10, SoundPut DEF Read

LEMMA SoundSend ==
    ASSUME Sound, NEW e \in Ends, NEW k \in Held(e), ~chan[e][k].sentClose,
           NEW op \in {"Data", "EOF"}, NEW data \in Seq(Nat),
           Send(e, FromChannel(op, e, k, data)),
           NEW d, Follows(chan[e][k], d), d.remote = chan[e][k].remote, Put(e, k, d),
           UNCHANGED <<setting, channels, incoming, pending, loop, closed, broken>>
    PROVE  Sound'
<1>1. Shape /\ Refer /\ Locals /\ AllQuiet
  BY DEF Sound
<1>2. /\ k \in 1 .. Len(chan[e])
      /\ chan[e][k].remote \in 1 .. Len(chan[Other(e)])
  BY <1>1, HeldFacts
<1> DEFINE m == FromChannel(op, e, k, data)
<1>3. /\ m \in MessageType /\ m.op = op /\ m.ok = (e \in setting.acceptable) /\ m.src = k
  <2>1. op \in Ops
    BY DEF Ops
  <2>2. IsMessage(m, op, e, k, chan[e][k].remote, data)
    BY <1>1, <1>2, <2>1, FromChannelFacts
  <2> QED  BY <2>2 DEF IsMessage
<1>4. wire' = Sent(wire, e, m)
  BY DEF Send
<1> HIDE DEF m
<1>5. Speaks(e, m, 0)
  BY <1>1, <1>3, <1>4, SendFacts
<1>6. d.remote \in 0 .. Len(chan[Other(e)])
  BY <1>2
<1>7. Grown /\ \A x \in Ends : Len(chan'[x]) = Len(chan[x]) /\ Len(chan'[x]) \in Nat
  BY <1>1, <1>2, <1>6, PutFollows
<1>8. MaySend(e, m)
  BY <1>2, <1>3, <1>7 DEF MaySend
<1>9. AllQuiet' /\ wire' \in [Ends -> Seq(MessageType)]
  BY <1>1, <1>3, <1>5, <1>7, <1>8, QuietSpeaks DEF Speaks
<1>10. loop' \in [Ends -> {"reading", "writing", "ended", "dead"}] /\ loop' = loop
  BY <1>1 DEF Shape
<1> QED  BY <1>2, <1>6, <1>9, <1>10, SoundPut

LEMMA DataFacts ==
    ASSUME NEW from \in Nat, NEW n \in Nat, NEW data, data = [i \in 1 .. n |-> from + i]
    PROVE  data \in Seq(Nat) /\ Len(data) = n /\ \A i \in 1 .. n : data[i] = from + i
<1>1. data \in [1 .. n -> Nat]
  OBVIOUS
<1>2. data \in Seq(Nat) /\ Len(data) = n
  BY <1>1, Listing
<1> QED  BY <1>2

LEMMA SoundWrite ==
    ASSUME Sound, NEW e \in Ends, NEW k, NEW n \in Nat, Write(e, k, n)
    PROVE  Sound'
<1>1. Shape /\ Refer /\ Locals /\ AllQuiet
  BY DEF Sound
<1>2. k \in Held(e) /\ ~chan[e][k].sentClose
  BY DEF Write
<1>3. /\ k \in 1 .. Len(chan[e]) /\ chan[e][k] \in ChannelType /\ Local(chan[e][k])
      /\ chan[e][k].stage = "held"
  BY <1>1, <1>2, HeldFacts
<1> DEFINE c == chan[e][k]
           d == [c EXCEPT !.sent = @ + n, !.over = @ \/ n > MaxPayload \/ c.sent + n > Window]
           data == [i \in 1 .. n |-> c.sent + i]
<1>4. Follows(c, d) /\ d.remote = c.remote
  <2>1. c \in ChannelType /\ Local(c) /\ c.stage = "held"
    BY <1>3
  <2> HIDE DEF c
  <2> QED  BY <2>1, LocalAfterWrite
<1>5. data \in Seq(Nat)
  BY <1>3, DataFacts DEF ChannelType
<1>6. Put(e, k, d) /\ Send(e, FromChannel("Data", e, k, data))
  BY DEF Write, DataMessage
<1> HIDE DEF d, data
<1> QED  BY <1>2, <1>4, <1>5, <1>6, SoundSend DEF Write

LEMMA SoundCloseWrite ==
    ASSUME Sound, NEW e \in Ends, NEW k, CloseWrite(e, k)
    PROVE  Sound'
<1>1. Shape /\ Refer /\ Locals /\ AllQuiet
  BY DEF Sound
<1>2. k \in Held(e) /\ ~chan[e][k].sentClose
  BY DEF CloseWrite
<1>3. /\ k \in 1 .. Len(chan[e]) /\ chan[e][k] \in ChannelType /\ Local(chan[e][k])
      /\ chan[e][k].stage = "held"
  BY <1>1, <1>2, HeldFacts
<1> DEFINE d == [chan[e][k] EXCEPT !.sentEOF = TRUE]
<1>4. Follows(chan[e][k], d) /\ d.remote = chan[e][k].remote
  BY <1>3, LocalAfterEOF
<1>5. <<>> \in Seq(Nat)
  OBVIOUS
<1>6. Put(e, k, d) /\ Send(e, FromChannel("EOF", e, k, <<>>))
  BY DEF CloseWrite
<1> HIDE DEF d
<1> QED  BY <1>2, <1>4, <1>5, <1>6, SoundSend DEF CloseWrite

LEMMA SoundCloseChannel ==
    ASSUME Sound, NEW e \in Ends, NEW k \in 1 .. Len(chan[e]),
           NEW c, Follows(chan[e][k], c), c.remote = chan[e][k].remote,
           c.sentClose = chan[e][k].sentClose, c.closes > 0 \/ c.gotClose,
           NEW w, w = wire \/ (\E m \in Incoming(e) : w = Decoded(e)),
           CloseChannel(e, k, c, w),
           UNCHANGED <<setting, incoming, loop, closed, broken>>
    PROVE  Sound'
<1>1. Shape /\ Refer /\ Locals /\ AllQuiet /\ k \in Nat
  BY DEF Sound
<1>2. chan[e][k].remote \in 0 .. Len(chan[Other(e)]) /\ c \in ChannelType /\ Local(c)
  BY <1>1 DEF Refer, Refers, RemoteRefers, Follows
<1>3. loop' \in [Ends -> {"reading", "writing", "ended", "dead"}] /\ loop' = loop
  BY <1>1 DEF Shape
<1>4. CASE /\ ~c.sentClose
           /\ wire' = Sent(w, e, FromChannel("Close", e, k, <<>>))
           /\ Await(e, "close", k)
           /\ Put(e, k, [c EXCEPT !.sentClose = TRUE])
           /\ UNCHANGED channels
  <2> DEFINE d == [c EXCEPT !.sentClose = TRUE]
             m == FromChannel("Close", e, k, <<>>)
  <2>1. Follows(c, d) /\ d.remote = c.remote /\ d.sentClose
    BY <1>2, LocalAfterClose DEF ChannelType
  <2>2. /\ m \in MessageType /\ m.op = "Close" /\ m.ok = (e \in setting.acceptable) /\ m.src = k
    <3>1. "Close" \in Ops /\ <<>> \in Seq(Nat)
      BY DEF Ops
    <3>2. IsMessage(m, "Close", e, k, chan[e][k].remote, <<>>)
      BY <1>1, <3>1, FromChannelFacts
    <3> QED  BY <3>2 DEF IsMessage
  <2>3. Put(e, k, d) /\ wire' = Sent(w, e, m)
    BY <1>4
  <2> HIDE DEF d, m
  <2>4. Follows(chan[e][k], d) /\ d.remote \in 0 .. Len(chan[Other(e)])
    BY <1>2, <2>1 DEF Follows
  <2>5. /\ chan' \in [Ends -> Seq(ChannelType)]
        /\ \A x \in Ends : Len(chan'[x]) = Len(chan[x]) /\ Len(chan'[x]) \in Nat
        /\ chan'[e][k] = d
        /\ Grown /\ Locals' /\ \A x \in Ends : RemoteRefers(x)'
    BY <1>1, <2>3, <2>4, PutFollows
  <2>6. Speaks(e, m, 0) \/ Speaks(e, m, 1)
    BY <1>1, <2>2, <2>3, SendFacts, AnswerFacts
  <2>7. MaySend(e, m)
    <3>1. ~chan[e][k].sentClose /\ chan'[e][k].sentClose
      BY <1>4, <2>1, <2>5
    <3> QED  BY <2>2, <2>5, <3>1 DEF MaySend
  <2>8. AllQuiet' /\ wire' \in [Ends -> Seq(MessageType)]
    BY <1>1, <2>2, <2>5, <2>6, <2>7, QuietSpeaks DEF Speaks
  <2>9. /\ pending' \in [Ends -> Seq({"open", "close", "loop"} \X Nat)]
        /\ PendingRefers(e)' /\ LoopWrites(e)'
        /\ \A x \in Ends : x # e => pending'[x] = pending[x]
    BY <1>1, <1>3, <1>4, <2>1, <2>5, PendingAwaits
  <2>10. Shape'
    BY <1>1, <1>4, <2>5, <2>8, <2>9 DEF Shape
  <2>11. ASSUME NEW x \in Ends PROVE Refers(x)'
    <3>1. ListRefers(x)'
      BY <1>1, <1>4, <2>5, ListStays
    <3>2. IncomingRefers(x)'
      BY <1>1, <2>5, IncomingStays
    <3>3. PendingRefers(x)' /\ LoopWrites(x)'
      BY <1>1, <1>3, <2>5, <2>9, PendingStays
    <3> QED  BY <2>5, <3>1, <3>2, <3>3 DEF Refers
  <2> QED  BY <2>5, <2>8, <2>10, <2>11 DEF Sound, Refer
<1>5. CASE c.sentClose /\ Shut(e, k, c) /\ wire' = w /\ UNCHANGED pending
  <2> DEFINE d == ShutDown(c)
  <2>1. Follows(c, d) /\ d.remote = c.remote
    BY <1>2, LocalWhenShut, ShutDownFacts DEF SameNumbers
  <2>2. Put(e, k, d) /\ channels' = [channels EXCEPT ![e] = RmCh(e, @, k)]
    BY <1>5 DEF Shut
  <2> HIDE DEF d
  <2>3. Follows(chan[e][k], d) /\ d.remote \in 0 .. Len(chan[Other(e)])
    BY <1>2, <2>1 DEF Follows
  <2>4. /\ chan' \in [Ends -> Seq(ChannelType)]
        /\ \A x \in Ends : Len(chan'[x]) = Len(chan[x]) /\ Len(chan'[x]) \in Nat
        /\ Grown /\ Locals' /\ \A x \in Ends : RemoteRefers(x)'
    BY <1>1, <2>2, <2>3, PutFollows
  <2>5. /\ wire' \in [Ends -> Seq(MessageType)]
        /\ \A x \in Ends : Shorter(x, 0) \/ Shorter(x, 1)
    BY <1>1, <1>5, WireStays, DecodeFacts, OtherEnd
  <2>6. AllQuiet'
    BY <1>1, <2>4, <2>5, QuietOn
  <2>7. channels' \in [Ends -> Seq(Int)] /\ \A x \in Ends : ListRefers(x)'
    BY <1>1, <2>2, <2>4, ListRemoved
  <2>8. Shape'
    BY <1>1, <1>5, <2>4, <2>5, <2>7 DEF Shape
  <2>9. ASSUME NEW x \in Ends PROVE Refers(x)'
    <3>1. IncomingRefers(x)'
      BY <1>1, <2>4, IncomingStays
    <3>2. PendingRefers(x)' /\ LoopWrites(x)'
      BY <1>1, <1>3, <1>5, <2>4, PendingStays
    <3> QED  BY <2>4, <2>7, <3>1, <3>2 DEF Refers
  <2> QED  BY <2>4, <2>6, <2>8, <2>9 DEF Sound, Refer
<1> QED  BY <1>4, <1>5 DEF CloseChannel

LEMMA SoundClose ==
    ASSUME Sound, NEW e \in Ends, NEW k, Close(e, k)
    PROVE  Sound'
<1>1. Shape /\ Refer /\ Locals
  BY DEF Sound
<1>2. k \in Held(e)
  BY DEF Close
<1>3. /\ k \in 1 .. Len(chan[e]) /\ chan[e][k] \in ChannelType /\ Local(chan[e][k])
      /\ chan[e][k].stage = "held"
  BY <1>1, <1>2, HeldFacts
<1> DEFINE c == [chan[e][k] EXCEPT !.closes = @ + 1]
<1>4. /\ Follows(chan[e][k], c) /\ c.remote = chan[e][k].remote /\ c.closes = chan[e][k].closes + 1
      /\ c.sentClose = chan[e][k].sentClose
  BY <1>3, LocalWhenCounted DEF ChannelType
<1>5. CloseChannel(e, k, c, wire)
  BY DEF Close
<1>6. c.closes > 0
  <2>1. chan[e][k].closes \in Nat
    BY <1>3, ChannelFields
  <2> QED  BY <1>4, <2>1
<1> HIDE DEF c
<1> QED  BY <1>3, <1>4, <1>5, <1>6, SoundCloseChannel DEF Close

LEMMA SoundHandleClose ==
    ASSUME Sound, NEW e \in Ends, HandleClose(e)
    PROVE  Sound'
<1>1. Shape /\ Refer /\ Locals
  BY DEF Sound
<1>2. PICK m \in Incoming(e) :
        /\ m.op = "Close" /\ GetCh(channels[e], m.to) # Hole
        /\ CloseChannel(e, GetCh(channels[e], m.to),
                        [chan[e][GetCh(channels[e], m.to)] EXCEPT !.gotClose = TRUE], Decoded(e))
  BY DEF HandleClose
<1> DEFINE k == GetCh(channels[e], m.to)
           c == [chan[e][k] EXCEPT !.gotClose = TRUE]
<1>3. k \in 1 .. Len(chan[e]) /\ chan[e][k] \in ChannelType /\ Local(chan[e][k])
  BY <1>1, <1>2, GetChFacts, ChanFacts DEF Locals
<1>4. /\ Follows(chan[e][k], c) /\ c.remote = chan[e][k].remote /\ c.gotClose
      /\ c.sentClose = chan[e][k].sentClose
  BY <1>3, LocalWhenNoted DEF ChannelType
<1>5. CloseChannel(e, k, c, Decoded(e))
  BY <1>2
<1> HIDE DEF c, k
<1> QED  BY <1>3, <1>4, <1>5, SoundCloseChannel DEF HandleClose

(* Session.close: each channel is as it was, or has been shut down. *)
LEMMA CloseSessionFacts ==
    ASSUME Shape, NEW e \in Ends, CloseSession(e)
    PROVE  /\ closed' = [closed EXCEPT ![e] = TRUE]
           /\ chan' \in [Ends -> Seq(ChannelType)]
           /\ \A x \in Ends : Len(chan'[x]) = Len(chan[x])
           /\ \A x \in Ends : x # e => chan'[x] = chan[x] /\ channels'[x] = channels[x]
           /\ \A k \in 1 .. Len(chan[e]) :
                /\ chan'[e][k] \in {chan[e][k], ShutDown(chan[e][k])}
                /\ k \in {channels[e][i] : i \in 1 .. Len(channels[e])} =>
                     chan'[e][k] = ShutDown(chan[e][k])
           /\ channels' \in [Ends -> Seq(Int)]
           /\ Len(channels'[e]) = Len(channels[e])
           /\ \A i \in 1 .. Len(channels[e]) :
                channels'[e][i] \in {channels[e][i], Hole, Undefined}
<1> DEFINE listed == {channels[e][i] : i \in DOMAIN channels[e]}
           after == [k \in DOMAIN chan[e] |->
                       IF k \in listed THEN ShutDown(chan[e][k]) ELSE chan[e][k]]
           left == [i \in DOMAIN channels[e] |->
                       IF i \in listed THEN RmCh(e, channels[e], i)[i] ELSE channels[e][i]]
<1>1. /\ chan \in [Ends -> Seq(ChannelType)] /\ channels \in [Ends -> Seq(Int)]
      /\ Len(chan[e]) \in Nat /\ DOMAIN chan[e] = 1 .. Len(chan[e])
      /\ \A k \in 1 .. Len(chan[e]) : chan[e][k] \in ChannelType
      /\ Len(channels[e]) \in Nat /\ DOMAIN channels[e] = 1 .. Len(channels[e])
      /\ \A i \in 1 .. Len(channels[e]) : channels[e][i] \in Int
      /\ channels[e] \in Seq(Int)
  BY ChanFacts, ListFacts DEF Shape
<1>2. ASSUME NEW k \in 1 .. Len(chan[e])
      PROVE  /\ after[k] \in {chan[e][k], ShutDown(chan[e][k])}
             /\ after[k] \in ChannelType
             /\ k \in {channels[e][i] : i \in 1 .. Len(channels[e])} => after[k] = ShutDown(chan[e][k])
  <2>1. ShutDown(chan[e][k]) \in ChannelType /\ chan[e][k] \in ChannelType
    BY <1>1, ShutDownFacts
  <2>2. after[k] = IF k \in listed THEN ShutDown(chan[e][k]) ELSE chan[e][k]
    BY <1>1
  <2>3. listed = {channels[e][i] : i \in 1 .. Len(channels[e])}
    BY <1>1
  <2> HIDE DEF after, listed
  <2> QED  BY <2>1, <2>2, <2>3
<1>3. after \in Seq(ChannelType) /\ Len(after) = Len(chan[e])
  <2>1. after \in [1 .. Len(chan[e]) -> ChannelType]
    <3>1. after = [k \in 1 .. Len(chan[e]) |-> after[k]]
      BY <1>1
    <3> HIDE DEF after
    <3> QED  BY <1>2, <3>1
  <2> HIDE DEF after
  <2> QED  BY <1>1, <2>1, Listing
<1>4. ASSUME NEW i \in 1 .. Len(channels[e])
      PROVE  left[i] \in {channels[e][i], Hole, Undefined} /\ left[i] \in Int
  <2>1. RmCh(e, channels[e], i)[i] \in {Hole, Undefined}
    BY <1>1, RmChFacts
  <2>2. left[i] = IF i \in listed THEN RmCh(e, channels[e], i)[i] ELSE channels[e][i]
    BY <1>1
  <2> HIDE DEF left, listed
  <2> QED  BY <1>1, <2>1, <2>2 DEF Hole, Undefined
<1>5. left \in Seq(Int) /\ Len(left) = Len(channels[e])
  <2>1. left \in [1 .. Len(channels[e]) -> Int]
    <3>1. left = [i \in 1 .. Len(channels[e]) |-> left[i]]
      BY <1>1
    <3> HIDE DEF left
    <3> QED  BY <1>4, <3>1
  <2> HIDE DEF left
  <2> QED  BY <1>1, <2>1, Listing
<1>6. /\ closed' = [closed EXCEPT ![e] = TRUE]
      /\ chan' = [chan EXCEPT ![e] = after]
      /\ channels' = [channels EXCEPT ![e] = left]
  BY DEF CloseSession
<1> HIDE DEF after, left, listed
<1> QED  BY <1>1, <1>2, <1>3, <1>4, <1>5, <1>6

LEMMA SoundCloseSession ==
    ASSUME Sound, NEW e \in Ends, CloseSession(e),
           UNCHANGED <<setting, incoming, pending, wire, broken>>,
           loop' \in [Ends -> {"reading", "writing", "ended", "dead"}],
           \A x \in Ends : loop'[x] = loop[x] \/ loop[x] # "writing"
    PROVE  Sound'
<1>1. Shape /\ Refer /\ Locals /\ AllQuiet
  BY DEF Sound
<1>2. /\ closed' = [closed EXCEPT ![e] = TRUE]
      /\ chan' \in [Ends -> Seq(ChannelType)]
      /\ \A x \in Ends : Len(chan'[x]) = Len(chan[x])
      /\ \A x \in Ends : x # e => chan'[x] = chan[x] /\ channels'[x] = channels[x]
      /\ \A k \in 1 .. Len(chan[e]) : chan'[e][k] \in {chan[e][k], ShutDown(chan[e][k])}
      /\ channels' \in [Ends -> Seq(Int)]
      /\ Len(channels'[e]) = Len(channels[e])
      /\ \A i \in 1 .. Len(channels[e]) :
           channels'[e][i] \in {channels[e][i], Hole, Undefined}
  BY <1>1, CloseSessionFacts
<1>3. \A x \in Ends : Len(chan'[x]) \in Nat
  BY <1>1, <1>2, ChanFacts
<1>4. ASSUME NEW x \in Ends, NEW k \in 1 .. Len(chan[x])
      PROVE  Follows(chan[x][k], chan'[x][k]) /\ chan'[x][k].remote = chan[x][k].remote
  <2>1. chan[x][k] \in ChannelType /\ Local(chan[x][k])
    BY <1>1, ChanFacts DEF Locals
  <2>2. CASE chan'[x][k] = chan[x][k]
    BY <2>1, <2>2 DEF Follows
  <2>3. CASE chan'[x][k] = ShutDown(chan[x][k])
    <3>1. PICK c \in ChannelType : c = chan[x][k]
      BY <2>1
    <3>2. PICK d : d = ShutDown(c)
      OBVIOUS
    <3>3. c = chan[x][k] /\ d = ShutDown(c)
      BY <3>1, <3>2
    <3>4. Follows(c, d)
      BY <2>1, <3>3, LocalWhenShut
    <3>5. SameNumbers(c, d)
      BY <3>3, ShutDownFacts
    <3> QED  BY <2>3, <3>3, <3>4, <3>5 DEF SameNumbers
  <2> QED  BY <1>2, <2>2, <2>3
<1>5. Grown
  <2>1. \A x \in Ends : Len(chan[x]) <= Len(chan'[x])
    BY <1>1, <1>2, ChanFacts
  <2>2. \A x \in Ends : \A k \in 1 .. Len(chan[x]) :
          /\ chan'[x][k].mine = chan[x][k].mine
          /\ chan[x][k].sentClose => chan'[x][k].sentClose
    BY <1>4 DEF Follows
  <2> QED  BY <2>1, <2>2 DEF Grown
<1>6. Locals'
  BY <1>2, <1>4 DEF Locals, Follows
<1>7. ASSUME NEW x \in Ends PROVE Refers(x)'
  <2>1. ListRefers(x)'
    <3>1. CASE x # e
      BY <1>1, <1>2, <3>1, ListStays
    <3>2. CASE x = e
      <4>1. ListRefers(e)
        BY <1>1 DEF Refer, Refers
      <4> QED  BY <1>2, <3>2, <4>1 DEF ListRefers
    <3> QED  BY <3>1, <3>2
  <2>2. IncomingRefers(x)'
    BY <1>1, <1>3, <1>5, IncomingStays
  <2>3. PendingRefers(x)' /\ LoopWrites(x)'
    BY <1>1, <1>3, <1>5, PendingStays
  <2>4. RemoteRefers(x)'
    BY <1>1, <1>2, <1>3, <1>4, <1>5, RemoteStays
  <2> QED  BY <2>1, <2>2, <2>3, <2>4 DEF Refers
<1>8. Shape'
  BY <1>1, <1>2 DEF Shape
<1>9. AllQuiet'
  BY <1>1, <1>5, QuietOn, WireStays
<1> QED  BY <1>6, <1>7, <1>8, <1>9 DEF Sound, Refer

LEMMA SoundWrote ==
    ASSUME Sound, NEW e \in Ends, Wrote(e)
    PROVE  Sound'
<1>1. Shape /\ Refer /\ Locals /\ AllQuiet
  BY DEF Sound
<1> DEFINE who == Head(pending[e])[1]
           k == Head(pending[e])[2]
<1>2. /\ pending[e] # <<>> /\ pending' = [pending EXCEPT ![e] = Tail(@)]
      /\ UNCHANGED <<setting, channels, incoming, closed, wire, broken>>
      /\ who = "loop" => loop' = [loop EXCEPT ![e] = "reading"] /\ UNCHANGED chan
      /\ who # "loop" => Put(e, k, Shift(chan[e][k], who)) /\ UNCHANGED loop
  BY DEF Wrote
<1>3. /\ Head(pending[e]) = pending[e][1] /\ 1 \in 1 .. Len(pending[e])
      /\ who \in {"open", "close", "loop"} /\ k \in Nat
  <2>1. Head(pending[e]) = pending[e][1] /\ Len(pending[e]) \in Nat \ {0}
    BY <1>1, <1>2, PendingFacts, TailOne
  <2>2. 1 \in 1 .. Len(pending[e])
    BY <2>1
  <2> QED  BY <1>1, <2>1, <2>2, PendingFacts
<1>4. PendingRefers(e)
  BY <1>1 DEF Refer, Refers
<1>5. who # "loop" => k \in 1 .. Len(chan[e]) /\ (who = "close" => chan[e][k].sentClose)
  BY <1>3, <1>4 DEF PendingRefers
<1> HIDE DEF who, k
<1>6. /\ chan' \in [Ends -> Seq(ChannelType)]
      /\ \A x \in Ends : Len(chan'[x]) = Len(chan[x]) /\ Len(chan'[x]) \in Nat
      /\ Grown /\ Locals' /\ \A x \in Ends : RemoteRefers(x)'
  <2>1. CASE who = "loop"
    <3>1. chan' = chan
      BY <1>2, <2>1
    <3>2. \A x \in Ends : Len(chan[x]) \in Nat
      BY <1>1, ChanFacts
    <3>3. Grown
      BY <3>1, <3>2 DEF Grown
    <3>4. \A x \in Ends : RemoteRefers(x)'
      BY <1>1, <3>1, <3>2, <3>3, RemoteStays
    <3> QED  BY <1>1, <3>1, <3>2, <3>3, <3>4 DEF Shape, Locals
  <2>2. CASE who # "loop"
    <3>1. k \in 1 .. Len(chan[e]) /\ who \in {"open", "close"} /\ (who = "close" => chan[e][k].sentClose)
      BY <1>3, <1>5, <2>2
    <3>2. chan[e][k] \in ChannelType /\ Local(chan[e][k])
          /\ chan[e][k].remote \in 0 .. Len(chan[Other(e)])
      BY <1>1, <3>1, ChanFacts DEF Locals, Refer, Refers, RemoteRefers
    <3> DEFINE d == Shift(chan[e][k], who)
    <3>3. Follows(chan[e][k], d) /\ d.remote = chan[e][k].remote
      BY <3>1, <3>2, LocalAfterShift
    <3>4. Put(e, k, d)
      BY <1>2, <2>2
    <3> HIDE DEF d
    <3> QED  BY <1>1, <3>1, <3>2, <3>3, <3>4, PutFollows
  <2> QED  BY <2>1, <2>2
<1>7. /\ loop' \in [Ends -> {"reading", "writing", "ended", "dead"}]
      /\ \A x \in Ends : x # e => loop'[x] = loop[x]
      /\ IF Head(pending[e])[1] = "loop" THEN loop'[e] = "reading" ELSE loop'[e] = loop[e]
  <2>1. CASE who = "loop"
    BY <1>1, <1>2, <2>1 DEF Shape, who
  <2>2. CASE who # "loop"
    BY <1>1, <1>2, <2>2 DEF Shape, who
  <2> QED  BY <2>1, <2>2
<1>8. /\ pending' \in [Ends -> Seq({"open", "close", "loop"} \X Nat)]
      /\ PendingRefers(e)' /\ LoopWrites(e)'
      /\ \A x \in Ends : x # e => pending'[x] = pending[x]
  BY <1>1, <1>2, <1>6, <1>7, PendingTail
<1>9. Shape'
  BY <1>1, <1>2, <1>6, <1>7, <1>8 DEF Shape
<1>10. ASSUME NEW x \in Ends PROVE Refers(x)'
  <2>1. ListRefers(x)'
    BY <1>1, <1>2, <1>6, ListStays
  <2>2. IncomingRefers(x)'
    BY <1>1, <1>2, <1>6, IncomingStays
  <2>3. PendingRefers(x)' /\ LoopWrites(x)'
    BY <1>1, <1>6, <1>7, <1>8, PendingStays
  <2> QED  BY <1>6, <2>1, <2>2, <2>3 DEF Refers
<1>11. AllQuiet'
  BY <1>1, <1>2, <1>6, QuietOn, WireStays
<1> QED  BY <1>6, <1>9, <1>10, <1>11 DEF Sound, Refer

LEMMA SoundOpen ==
    ASSUME Sound, NEW e \in Ends, Open(e)
    PROVE  Sound'
<1>1. Shape /\ Refer /\ Locals /\ AllQuiet
  BY DEF Sound
<1> DEFINE k == Len(chan[e]) + 1
           m == Message("Open", e, k, 0, <<>>)
<1>2. Len(chan[e]) \in Nat /\ Len(chan[Other(e)]) \in Nat /\ k \in Nat
  BY <1>1, ChanFacts, OtherEnd
<1>3. 0 \in 0 .. Len(chan[Other(e)]) /\ AddChannel(e, TRUE, 0)
  <2>1. 0 \in 0 .. Len(chan[Other(e)])
    BY <1>2
  <2> QED  BY <2>1 DEF Open
<1>4. /\ chan' \in [Ends -> Seq(ChannelType)]
      /\ \A x \in Ends : Len(chan'[x]) \in Nat
      /\ Len(chan'[e]) = Len(chan[e]) + 1
      /\ \A x \in Ends : x # e => chan'[x] = chan[x]
      /\ Grown /\ Locals' /\ \A x \in Ends : RemoteRefers(x)'
      /\ channels' \in [Ends -> Seq(Int)] /\ \A x \in Ends : ListRefers(x)'
  BY <1>1, <1>3, AddFollows
<1>5. m \in MessageType /\ m.op = "Open" /\ m.ok = (e \in setting.acceptable) /\ m.src = k
  <2>1. <<>> \in Seq(Nat) /\ "Open" \in Ops /\ 0 \in Nat
    BY DEF Ops
  <2>2. IsMessage(m, "Open", e, k, 0, <<>>)
    BY <1>2, <2>1, MessageFacts
  <2> QED  BY <2>2 DEF IsMessage
<1>6. wire' = Sent(wire, e, m) /\ Await(e, "open", k)
      /\ UNCHANGED <<setting, incoming, loop, closed, broken>>
  BY DEF Open, Send
<1>7. k \in 1 .. Len(chan'[e]) /\ k > Len(chan[e])
  BY <1>2, <1>4
<1> HIDE DEF m, k
<1>8. Speaks(e, m, 0)
  BY <1>1, <1>5, <1>6, SendFacts
<1>9. MaySend(e, m)
  BY <1>2, <1>5, <1>7 DEF MaySend
<1>10. AllQuiet' /\ wire' \in [Ends -> Seq(MessageType)]
  BY <1>1, <1>4, <1>5, <1>6, <1>8, <1>9, QuietSpeaks DEF Speaks
<1>11. /\ pending' \in [Ends -> Seq({"open", "close", "loop"} \X Nat)]
       /\ PendingRefers(e)' /\ LoopWrites(e)'
       /\ \A x \in Ends : x # e => pending'[x] = pending[x]
  BY <1>1, <1>2, <1>4, <1>6, <1>7, PendingAwaits
<1>12. Shape'
  BY <1>1, <1>4, <1>6, <1>10, <1>11 DEF Shape
<1>13. ASSUME NEW x \in Ends PROVE Refers(x)'
  <2>1. IncomingRefers(x)'
    BY <1>1, <1>4, <1>6, IncomingStays
  <2>2. PendingRefers(x)' /\ LoopWrites(x)'
    BY <1>1, <1>4, <1>6, <1>11, PendingStays
  <2> QED  BY <1>4, <2>1, <2>2 DEF Refers
<1> QED  BY <1>4, <1>10, <1>12, <1>13 DEF Sound, Refer

(* handleOpen: what is left to show once the wires are known. *)
LEMMA LoopAwaits ==
    ASSUME Sound, NEW e \in Ends, Await(e, "loop", 0), loop[e] = "reading",
           loop' = [loop EXCEPT ![e] = "writing"], UNCHANGED <<setting, closed, broken>>,
           chan' \in [Ends -> Seq(ChannelType)], Grown, \A x \in Ends : Len(chan'[x]) \in Nat,
           Locals', \A x \in Ends : RemoteRefers(x)' /\ ListRefers(x)' /\ IncomingRefers(x)',
           channels' \in [Ends -> Seq(Int)], incoming' \in [Ends -> Seq(Nat)],
           wire' \in [Ends -> Seq(MessageType)], AllQuiet'
    PROVE  Sound'
<1>1. Shape /\ Refer /\ Locals /\ AllQuiet
  BY DEF Sound
<1>2. /\ loop' \in [Ends -> {"reading", "writing", "ended", "dead"}]
      /\ loop'[e] = "writing" /\ \A x \in Ends : x # e => loop'[x] = loop[x]
  BY <1>1 DEF Shape
<1>3. /\ pending' \in [Ends -> Seq({"open", "close", "loop"} \X Nat)]
      /\ PendingRefers(e)' /\ LoopWrites(e)'
      /\ \A x \in Ends : x # e => pending'[x] = pending[x]
  BY <1>1, <1>2, PendingAwaits
<1>4. Shape'
  BY <1>1, <1>2, <1>3 DEF Shape
<1>5. ASSUME NEW x \in Ends PROVE PendingRefers(x)' /\ LoopWrites(x)'
  BY <1>1, <1>2, <1>3, PendingStays
<1>6. Refer'
  BY <1>5 DEF Refer, Refers
<1> QED  BY <1>4, <1>6 DEF Sound

LEMMA SoundRefuse ==
    ASSUME Sound, NEW e \in Ends, Refuse(e), Await(e, "loop", 0),
           loop' = [loop EXCEPT ![e] = "writing"], UNCHANGED <<setting, closed, broken>>
    PROVE  Sound'
<1>1. Shape /\ Refer /\ Locals /\ AllQuiet
  BY DEF Sound
<1>2. PICK m \in Incoming(e) :
        /\ m.op = "Open" /\ ~m.ok
        /\ wire' = Sent(Decoded(e), e, Message("Failure", e, 0, m.src, <<>>))
        /\ UNCHANGED <<channels, chan, incoming>>
  BY DEF Refuse
<1> DEFINE answer == Message("Failure", e, 0, m.src, <<>>)
<1>3. m \in MessageType /\ loop[e] = "reading"
  BY <1>1, IncomingFacts DEF Hears
<1>4. answer \in MessageType /\ answer.op = "Failure" /\ answer.ok = (e \in setting.acceptable)
      /\ answer.src = 0
  <2>1. <<>> \in Seq(Nat) /\ m.src \in Nat /\ "Failure" \in Ops /\ 0 \in Nat
    BY <1>3, MessageFields DEF Ops
  <2>2. IsMessage(answer, "Failure", e, 0, m.src, <<>>)
    BY <2>1, MessageFacts
  <2> QED  BY <2>2 DEF IsMessage
<1>5. wire' = Sent(Decoded(e), e, answer)
  BY <1>2
<1> HIDE DEF answer
<1>6. Speaks(e, answer, 1)
  BY <1>1, <1>4, <1>5, AnswerFacts
<1>7. /\ \A x \in Ends : Len(chan'[x]) = Len(chan[x]) /\ Len(chan'[x]) \in Nat
      /\ Grown /\ Locals'
  <2>1. \A x \in Ends : Len(chan[x]) \in Nat
    BY <1>1, ChanFacts
  <2> QED  BY <1>1, <1>2, <2>1 DEF Grown, Locals
<1>8. MaySend(e, answer)
  BY <1>4, <1>7 DEF MaySend
<1>9. AllQuiet' /\ wire' \in [Ends -> Seq(MessageType)]
  BY <1>1, <1>4, <1>6, <1>7, <1>8, QuietSpeaks DEF Speaks
<1>10. ASSUME NEW x \in Ends PROVE RemoteRefers(x)' /\ ListRefers(x)' /\ IncomingRefers(x)'
  <2>1. RemoteRefers(x)'
    BY <1>1, <1>2, <1>7, RemoteStays
  <2>2. ListRefers(x)'
    BY <1>1, <1>2, <1>7, ListStays
  <2>3. IncomingRefers(x)'
    BY <1>1, <1>2, <1>7, IncomingStays
  <2> QED  BY <2>1, <2>2, <2>3
<1>11. /\ chan' \in [Ends -> Seq(ChannelType)] /\ channels' \in [Ends -> Seq(Int)]
       /\ incoming' \in [Ends -> Seq(Nat)]
  BY <1>1, <1>2 DEF Shape
<1> QED  BY <1>3, <1>7, <1>9, <1>10, <1>11, LoopAwaits

LEMMA SoundTakeIn ==
    ASSUME Sound, NEW e \in Ends, TakeIn(e), Await(e, "loop", 0),
           loop' = [loop EXCEPT ![e] = "writing"], UNCHANGED <<setting, closed, broken>>
    PROVE  Sound'
<1>1. Shape /\ Refer /\ Locals /\ AllQuiet
  BY DEF Sound
<1> DEFINE k == Len(chan[e]) + 1
<1>2. PICK m \in Incoming(e) :
        /\ m.op = "Open" /\ m.ok
        /\ AddChannel(e, FALSE, m.src)
        /\ incoming' = [incoming EXCEPT ![e] = Append(@, k)]
        /\ wire' = Sent(Decoded(e), e, Message("Confirm", e, k, m.src, <<>>))
  BY DEF TakeIn
<1> DEFINE answer == Message("Confirm", e, k, m.src, <<>>)
<1>3. m \in MessageType /\ loop[e] = "reading"
      /\ Len(wire[Other(e)]) > 0 /\ m = wire[Other(e)][1]
  BY <1>1, IncomingFacts DEF Hears
<1>4. /\ Len(chan[e]) \in Nat /\ Len(chan[Other(e)]) \in Nat /\ Len(wire[Other(e)]) \in Nat
      /\ k \in Nat /\ Other(e) \in Ends
  BY <1>1, ChanFacts, WireFacts, OtherEnd
<1>5. m.src \in 0 .. Len(chan[Other(e)]) /\ m.src # 0
  <2>1. 1 \in 1 .. Len(wire[Other(e)]) /\ Quiet(Other(e))
    BY <1>1, <1>3, <1>4 DEF AllQuiet
  <2> QED  BY <1>2, <1>3, <2>1 DEF Quiet
<1>6. answer \in MessageType /\ answer.op = "Confirm" /\ answer.ok = (e \in setting.acceptable)
      /\ answer.src = k
  <2>1. <<>> \in Seq(Nat) /\ m.src \in Nat /\ "Confirm" \in Ops /\ 0 \in Nat
    BY <1>3, MessageFields DEF Ops
  <2>2. IsMessage(answer, "Confirm", e, k, m.src, <<>>)
    BY <1>4, <2>1, MessageFacts
  <2> QED  BY <2>2 DEF IsMessage
<1>7. wire' = Sent(Decoded(e), e, answer)
  BY <1>2
<1> HIDE DEF answer
<1>8. Speaks(e, answer, 1)
  BY <1>1, <1>6, <1>7, AnswerFacts
<1>9. /\ chan' \in [Ends -> Seq(ChannelType)]
      /\ \A x \in Ends : Len(chan'[x]) \in Nat
      /\ Len(chan'[e]) = Len(chan[e]) + 1
      /\ chan'[e][Len(chan[e]) + 1] = NewChannel(FALSE, m.src)
      /\ NewChannel(FALSE, m.src).mine = FALSE
      /\ \A x \in Ends : x # e => chan'[x] = chan[x]
      /\ Grown /\ Locals' /\ \A x \in Ends : RemoteRefers(x)'
      /\ channels' \in [Ends -> Seq(Int)] /\ \A x \in Ends : ListRefers(x)'
  BY <1>1, <1>2, <1>5, AddFollows
<1>10. MaySend(e, answer)
  BY <1>4, <1>6, <1>9 DEF MaySend
<1>11. AllQuiet' /\ wire' \in [Ends -> Seq(MessageType)]
  BY <1>1, <1>6, <1>8, <1>9, <1>10, QuietSpeaks DEF Speaks
<1>12. /\ incoming' \in [Ends -> Seq(Nat)]
       /\ \A x \in Ends : x # e => incoming'[x] = incoming[x]
       /\ Len(incoming'[e]) = Len(incoming[e]) + 1 /\ Len(incoming[e]) \in Nat
       /\ \A i \in 1 .. Len(incoming[e]) : incoming'[e][i] = incoming[e][i]
       /\ incoming'[e][Len(incoming[e]) + 1] = k
  <2>1. incoming \in [Ends -> Seq(Nat)] /\ incoming[e] \in Seq(Nat)
    BY <1>1 DEF Shape
  <2>2. /\ Append(incoming[e], k) \in Seq(Nat) /\ Len(incoming[e]) \in Nat
        /\ Len(Append(incoming[e], k)) = Len(incoming[e]) + 1
        /\ \A i \in 1 .. Len(incoming[e]) : Append(incoming[e], k)[i] = incoming[e][i]
        /\ Append(incoming[e], k)[Len(incoming[e]) + 1] = k
    BY <1>4, <2>1, AppendOne
  <2>3. incoming'[e] = Append(incoming[e], k) /\ \A x \in Ends : x # e => incoming'[x] = incoming[x]
    BY <1>2, <2>1
  <2>4. incoming' \in [Ends -> Seq(Nat)]
    BY <1>2, <2>1, <2>2
  <2> QED  BY <2>2, <2>3, <2>4
<1>13. ASSUME NEW x \in Ends PROVE IncomingRefers(x)'
  <2>1. CASE x # e
    <3>1. \A i \in 1 .. Len(incoming'[x]) : \E j \in 1 .. Len(incoming[x]) : incoming'[x][i] = incoming[x][j]
      BY <1>12, <2>1
    <3> QED  BY <1>1, <1>9, <3>1, IncomingStays
  <2>2. CASE x = e
    <3>1. k \in 1 .. Len(chan'[e]) /\ ~chan'[e][k].mine
      <4>1. k \in 1 .. Len(chan'[e])
        BY <1>4, <1>9
      <4>2. chan'[e][k] = NewChannel(FALSE, m.src) /\ NewChannel(FALSE, m.src).mine = FALSE
        BY <1>9
      <4> QED  BY <4>1, <4>2
    <3> HIDE DEF k
    <3>2. ASSUME NEW i \in 1 .. Len(incoming'[e])
          PROVE  \/ \E j \in 1 .. Len(incoming[e]) : incoming'[e][i] = incoming[e][j]
                 \/ incoming'[e][i] \in 1 .. Len(chan'[e]) /\ ~chan'[e][incoming'[e][i]].mine
      <4>1. i \in 1 .. Len(incoming[e]) \/ i = Len(incoming[e]) + 1
        BY <1>12
      <4> QED  BY <1>12, <3>1, <4>1
    <3>3. IncomingRefers(e)'
      BY <1>1, <1>9, <3>2, IncomingStays
    <3> QED  BY <2>2, <3>3
  <2> QED  BY <2>1, <2>2
<1> QED  BY <1>3, <1>9, <1>11, <1>12, <1>13, LoopAwaits

LEMMA SoundHandleOpen ==
    ASSUME Sound, NEW e \in Ends, HandleOpen(e)
    PROVE  Sound'
  BY SoundRefuse, SoundTakeIn DEF HandleOpen

(* The loop dies of a message: nothing else has changed. *)
LEMMA SoundDies ==
    ASSUME Sound, NEW e \in Ends, NEW m \in Incoming(e), Dies(e),
           UNCHANGED <<setting, channels, chan, incoming, pending, closed, broken>>
    PROVE  Sound'
<1>1. Shape
  BY DEF Sound
<1>2. /\ Hears(e, m) /\ wire' \in [Ends -> Seq(MessageType)]
      /\ Shorter(e, 0) /\ Shorter(Other(e), 1)
  BY <1>1, DecodeFacts DEF Dies
<1>3. /\ loop' \in [Ends -> {"reading", "writing", "ended", "dead"}]
      /\ \A x \in Ends : loop'[x] = loop[x] \/ loop[x] # "writing"
  BY <1>1, <1>2 DEF Shape, Dies, Hears
<1>4. broken' \in BOOLEAN
  BY <1>1 DEF Shape
<1>5. \A x \in Ends : Shorter(x, 0) \/ Shorter(x, 1)
  BY <1>2, OtherEnd
<1> QED  BY <1>2, <1>3, <1>4, <1>5, SoundStays

LEMMA SoundLoopBroken ==
    ASSUME Sound, NEW e \in Ends, LoopBroken(e)
    PROVE  Sound'
<1>1. Shape
  BY DEF Sound
<1>2. wire' \in [Ends -> Seq(MessageType)] /\ \A x \in Ends : Shorter(x, 0)
  BY <1>1, WireStays DEF LoopBroken
<1>3. /\ loop' \in [Ends -> {"reading", "writing", "ended", "dead"}]
      /\ \A x \in Ends : loop'[x] = loop[x] \/ loop[x] # "writing"
  BY <1>1 DEF Shape, LoopBroken
<1> QED  BY <1>2, <1>3, SoundStays DEF LoopBroken

(* A message to channel k has been handled. *)
LEMMA SoundHandled ==
    ASSUME Sound, NEW e \in Ends, NEW m \in Incoming(e), NEW k \in 1 .. Len(chan[e]), NEW d,
           Follows(chan[e][k], d), d.remote \in 0 .. Len(chan[Other(e)]), Put(e, k, d),
           wire' = Decoded(e),
           UNCHANGED <<setting, channels, incoming, pending, loop, closed, broken>>
    PROVE  Sound'
<1>1. Shape /\ Refer /\ Locals /\ AllQuiet
  BY DEF Sound
<1>2. /\ wire' \in [Ends -> Seq(MessageType)] /\ Shorter(e, 0) /\ Shorter(Other(e), 1)
  BY <1>1, DecodeFacts
<1>3. Grown
  BY <1>1, PutFollows
<1>4. AllQuiet'
  BY <1>1, <1>2, <1>3, QuietOn, OtherEnd
<1>5. loop' \in [Ends -> {"reading", "writing", "ended", "dead"}] /\ loop' = loop
  BY <1>1 DEF Shape
<1> QED  BY <1>2, <1>4, <1>5, SoundPut

LEMMA SoundHandleConfirm ==
    ASSUME Sound, NEW e \in Ends, HandleConfirm(e)
    PROVE  Sound'
<1>1. Shape /\ Refer /\ Locals /\ AllQuiet
  BY DEF Sound
<1>2. PICK m \in Incoming(e) :
        LET k == GetCh(channels[e], m.to) IN
        /\ m.op = "Confirm" /\ k # Hole
        /\ \/ /\ ~m.ok
              /\ Dies(e) /\ UNCHANGED chan
           \/ /\ m.ok
              /\ Put(e, k, Push([chan[e][k] EXCEPT !.remote = m.src], TRUE))
              /\ wire' = Decoded(e) /\ UNCHANGED loop
  BY DEF HandleConfirm
<1>3. CASE Dies(e) /\ UNCHANGED chan
  BY <1>3, SoundDies DEF HandleConfirm
<1>4. CASE ~(Dies(e) /\ UNCHANGED chan)
  <2> DEFINE k == GetCh(channels[e], m.to)
             d == Push([chan[e][k] EXCEPT !.remote = m.src], TRUE)
  <2>1. k \in 1 .. Len(chan[e]) /\ chan[e][k] \in ChannelType /\ Local(chan[e][k])
    BY <1>1, <1>2, GetChFacts, ChanFacts DEF Locals
  <2>2. m.src \in 0 .. Len(chan[Other(e)]) /\ m.src # 0 /\ m.src \in Nat
    <3>1. m = wire[Other(e)][1] /\ 1 \in 1 .. Len(wire[Other(e)]) /\ m \in MessageType
      BY <1>1, IncomingFacts, WireFacts, OtherEnd DEF Hears
    <3>2. Quiet(Other(e))
      BY <1>1, OtherEnd DEF AllQuiet
    <3> QED  BY <1>2, <3>1, <3>2 DEF Quiet, MessageType
  <2>3. Follows(chan[e][k], d) /\ d.remote = m.src
    <3>1. ASSUME NEW c, c = chan[e][k] PROVE Follows(c, d) /\ d.remote = m.src
      <4>1. c \in ChannelType /\ Local(c) /\ d = Push([c EXCEPT !.remote = m.src], TRUE)
        BY <2>1, <3>1
      <4> HIDE DEF k, d
      <4> QED  BY <2>2, <4>1, LocalWhenConfirmed
    <3> QED  BY <3>1
  <2>4. Put(e, k, d) /\ wire' = Decoded(e) /\ UNCHANGED loop
    BY <1>2, <1>4
  <2> HIDE DEF k, d
  <2> QED  BY <2>1, <2>2, <2>3, <2>4, SoundHandled DEF HandleConfirm
<1> QED  BY <1>3, <1>4

LEMMA SoundHandleFailure ==
    ASSUME Sound, NEW e \in Ends, HandleFailure(e)
    PROVE  Sound'
<1>1. Shape /\ Refer /\ Locals /\ AllQuiet
  BY DEF Sound
<1>2. PICK m \in Incoming(e) :
        LET k == GetCh(channels[e], m.to) IN
        /\ m.op = "Failure" /\ k # Hole
        /\ channels' = [channels EXCEPT ![e] = RmCh(e, @, m.to)]
        /\ Put(e, k, Push(chan[e][k], FALSE))
        /\ wire' = Decoded(e)
  BY DEF HandleFailure
<1> DEFINE k == GetCh(channels[e], m.to)
           d == Push(chan[e][k], FALSE)
<1>3. /\ k \in 1 .. Len(chan[e]) /\ m.to \in 1 .. Len(chan[e])
      /\ chan[e][k] \in ChannelType /\ Local(chan[e][k])
      /\ chan[e][k].remote \in 0 .. Len(chan[Other(e)])
  BY <1>1, <1>2, GetChFacts, ChanFacts DEF Locals, Refer, Refers, RemoteRefers
<1>4. Follows(chan[e][k], d) /\ d.remote = chan[e][k].remote
  BY <1>3, LocalWhenRefused
<1>5. Put(e, k, d) /\ wire' = Decoded(e)
  BY <1>2
<1> HIDE DEF k, d
<1>6. /\ chan' \in [Ends -> Seq(ChannelType)]
      /\ \A x \in Ends : Len(chan'[x]) = Len(chan[x]) /\ Len(chan'[x]) \in Nat
      /\ Grown /\ Locals' /\ \A x \in Ends : RemoteRefers(x)'
  BY <1>1, <1>3, <1>4, <1>5, PutFollows
<1>7. channels' \in [Ends -> Seq(Int)] /\ \A x \in Ends : ListRefers(x)'
  BY <1>1, <1>2, <1>3, <1>6, ListRemoved
<1>8. /\ wire' \in [Ends -> Seq(MessageType)] /\ Shorter(e, 0) /\ Shorter(Other(e), 1)
  BY <1>1, <1>5, DecodeFacts
<1>9. AllQuiet'
  BY <1>1, <1>6, <1>8, QuietOn, OtherEnd DEF HandleFailure
<1>10. Shape'
  BY <1>1, <1>6, <1>7, <1>8 DEF Shape, HandleFailure
<1>11. ASSUME NEW x \in Ends PROVE Refers(x)'
  <2>1. IncomingRefers(x)'
    BY <1>1, <1>6, IncomingStays DEF HandleFailure
  <2>2. PendingRefers(x)' /\ LoopWrites(x)'
    BY <1>1, <1>6, PendingStays DEF HandleFailure
  <2> QED  BY <1>6, <1>7, <2>1, <2>2 DEF Refers
<1> QED  BY <1>6, <1>9, <1>10, <1>11 DEF Sound, Refer

LEMMA SoundReceiveData ==
    ASSUME Sound, NEW e \in Ends, ReceiveData(e)
    PROVE  Sound'
<1>1. Shape /\ Refer /\ Locals
  BY DEF Sound
<1>2. PICK m \in Incoming(e) :
        LET k == GetCh(channels[e], m.to)
            handled == HandleData(e, chan[e][k], m.data)
        IN  /\ m.op = "Data" /\ k # Hole
            /\ \/ /\ handled.threw
                  /\ Dies(e) /\ UNCHANGED chan
               \/ /\ ~handled.threw
                  /\ Put(e, k, handled.channel)
                  /\ wire' = Decoded(e) /\ UNCHANGED loop
  BY DEF ReceiveData
<1>3. CASE Dies(e) /\ UNCHANGED chan
  BY <1>3, SoundDies DEF ReceiveData
<1>4. CASE ~(Dies(e) /\ UNCHANGED chan)
  <2> DEFINE k == GetCh(channels[e], m.to)
             h == HandleData(e, chan[e][k], m.data)
             d == h.channel
  <2>1. /\ k \in 1 .. Len(chan[e]) /\ chan[e][k] \in ChannelType /\ Local(chan[e][k])
        /\ chan[e][k].remote \in 0 .. Len(chan[Other(e)])
    <3>1. k \in 1 .. Len(chan[e])
      BY <1>1, <1>2, GetChFacts
    <3> HIDE DEF k
    <3> QED  BY <1>1, <3>1, ChanFacts DEF Locals, Refer, Refers, RemoteRefers
  <2>2. m.data \in Seq(Nat)
    BY <1>1, IncomingFacts DEF Hears, MessageType
  <2>3. d \in ChannelType /\ (d = chan[e][k] \/ TookIn(chan[e][k], d, m.data))
    <3> HIDE DEF k
    <3>1. d \in ChannelType /\ Handled(e, chan[e][k], d, m.data, h.threw)
      BY <2>1, <2>2, HandleDataFacts
    <3> QED  BY <3>1 DEF Handled
  <2>4. Put(e, k, d) /\ wire' = Decoded(e) /\ UNCHANGED loop
    BY <1>2, <1>4
  <2> HIDE DEF k, h, d
  <2>5. Follows(chan[e][k], d) /\ d.remote = chan[e][k].remote
    <3>1. CASE d = chan[e][k]
      BY <2>1, <3>1 DEF Follows
    <3>2. CASE TookIn(chan[e][k], d, m.data)
      BY <2>1, <2>2, <2>3, <3>2, LocalAfterData DEF TookIn, SameNumbers
    <3> QED  BY <2>3, <3>1, <3>2
  <2> QED  BY <2>1, <2>4, <2>5, SoundHandled DEF ReceiveData
<1> QED  BY <1>3, <1>4

LEMMA SoundHandleEOF ==
    ASSUME Sound, NEW e \in Ends, HandleEOF(e)
    PROVE  Sound'
<1>1. Shape /\ Refer /\ Locals
  BY DEF Sound
<1>2. PICK m \in Incoming(e) :
        LET k == GetCh(channels[e], m.to) IN
        /\ m.op = "EOF" /\ k # Hole
        /\ Put(e, k, [chan[e][k] EXCEPT !.gotEOF = TRUE])
        /\ wire' = Decoded(e)
  BY DEF HandleEOF
<1> DEFINE k == GetCh(channels[e], m.to)
           d == [chan[e][k] EXCEPT !.gotEOF = TRUE]
<1>3. /\ k \in 1 .. Len(chan[e]) /\ chan[e][k] \in ChannelType /\ Local(chan[e][k])
      /\ chan[e][k].remote \in 0 .. Len(chan[Other(e)])
  BY <1>1, <1>2, GetChFacts, ChanFacts DEF Locals, Refer, Refers, RemoteRefers
<1>4. Follows(chan[e][k], d) /\ d.remote = chan[e][k].remote
  BY <1>3, LocalWhenEnded
<1>5. Put(e, k, d) /\ wire' = Decoded(e)
  BY <1>2
<1> HIDE DEF k, d
<1> QED  BY <1>3, <1>4, <1>5, SoundHandled DEF HandleEOF

LEMMA SoundInit ==
    ASSUME Init
    PROVE  Sound
<1>1. /\ <<>> \in Seq(ChannelType) /\ <<>> \in Seq(Int) /\ <<>> \in Seq(Nat)
      /\ <<>> \in Seq({"open", "close", "loop"} \X Nat) /\ <<>> \in Seq(MessageType)
      /\ Len(<<>>) = 0
  OBVIOUS
<1>2. Shape
  BY <1>1 DEF Shape, Init
<1>3. \A e \in Ends : /\ Len(chan[e]) = 0 /\ Len(channels[e]) = 0 /\ Len(incoming[e]) = 0
                      /\ Len(pending[e]) = 0 /\ Len(wire[e]) = 0
  BY <1>1 DEF Init
<1>4. Refer
  BY <1>3 DEF Refer, Refers, ListRefers, IncomingRefers, PendingRefers, LoopWrites, RemoteRefers
<1>5. Locals
  BY <1>3 DEF Locals
<1>6. AllQuiet
  BY <1>3 DEF AllQuiet, Quiet
<1> QED  BY <1>2, <1>4, <1>5, <1>6 DEF Sound

LEMMA SettingFacts ==
    ASSUME Shape, NEW e \in Ends
    PROVE  setting.lengths \subseteq Nat /\ setting.bytes[e] \in Nat
  BY SettingsAssumption DEF Shape, AnySetting

LEMMA SoundApplication ==
    ASSUME Sound, NEW e \in Ends, Application(e)
    PROVE  Sound'
<1>1. setting.lengths \subseteq Nat /\ setting.bytes[e] \in Nat /\ Shape
  BY SettingFacts DEF Sound
<1>2. CASE Open(e)
  BY <1>2, SoundOpen
<1>3. CASE Accept(e)
  BY <1>3, SoundAccept
<1>4. CASE Terminate(e)
  <2>1. loop' \in [Ends -> {"reading", "writing", "ended", "dead"}] /\ loop' = loop
    BY <1>1, <1>4 DEF Terminate, Shape
  <2> QED  BY <1>4, <2>1, SoundCloseSession DEF Terminate
<1>5. ASSUME NEW k \in Held(e), NEW len \in setting.lengths, Read(e, k, len) PROVE Sound'
  BY <1>1, <1>5, SoundRead
<1>6. ASSUME NEW k \in Held(e), NEW n \in 1 .. setting.bytes[e], Write(e, k, n) PROVE Sound'
  <2>1. n \in Nat
    BY <1>1
  <2> QED  BY <1>6, <2>1, SoundWrite
<1>7. ASSUME NEW k \in Held(e), CloseWrite(e, k) PROVE Sound'
  BY <1>7, SoundCloseWrite
<1>8. ASSUME NEW k \in Held(e), Close(e, k) PROVE Sound'
  BY <1>8, SoundClose
<1> QED  BY <1>2, <1>3, <1>4, <1>5, <1>6, <1>7, <1>8 DEF Application

LEMMA SoundStep ==
    ASSUME Sound, [Next]_vars
    PROVE  Sound'
<1>1. CASE UNCHANGED vars
  <2>1. Shape'
    BY <1>1 DEF Sound, Shape, vars
  <2>2. Refer' /\ Locals'
    BY <1>1 DEF Sound, vars, Refer, Refers, ListRefers, IncomingRefers, PendingRefers, LoopWrites,
                RemoteRefers, Locals
  <2>3. AllQuiet'
    BY <1>1 DEF Sound, vars, AllQuiet, Quiet
  <2> QED  BY <2>1, <2>2, <2>3 DEF Sound
<1>2. ASSUME NEW e \in Ends, Application(e) PROVE Sound'
  BY <1>2, SoundApplication
<1>3. ASSUME NEW e \in Ends, Wrote(e) PROVE Sound'
  BY <1>3, SoundWrote
<1>4. ASSUME NEW e \in Ends, LoopEnds(e) PROVE Sound'
  <2>1. /\ loop' \in [Ends -> {"reading", "writing", "ended", "dead"}]
        /\ \A x \in Ends : loop'[x] = loop[x] \/ loop[x] # "writing"
    BY <1>4 DEF Sound, Shape, LoopEnds
  <2> QED  BY <1>4, <2>1, SoundCloseSession DEF LoopEnds
<1>5. ASSUME NEW e \in Ends, LoopBroken(e) PROVE Sound'
  BY <1>5, SoundLoopBroken
<1>6. ASSUME NEW e \in Ends, Receive(e) PROVE Sound'
  <2>1. CASE HandleOpen(e)
    BY <2>1, SoundHandleOpen
  <2>2. CASE InvalidChannel(e)
    BY <2>2, SoundDies DEF InvalidChannel
  <2>3. CASE Handle(e)
    BY <2>3, SoundHandleConfirm, SoundHandleFailure, SoundReceiveData, SoundHandleEOF,
       SoundHandleClose DEF Handle
  <2> QED  BY <1>6, <2>1, <2>2, <2>3 DEF Receive
<1>7. CASE Next
  BY <1>2, <1>3, <1>4, <1>5, <1>6, <1>7 DEF Next
<1> QED  BY <1>1, <1>7

-----------------------------------------------------------------------------
(* Theorems *)

(* Types hold, every reference refers to something, and what a channel keeps  *)
(* for itself stays consistent, whatever applications and connections do.     *)
THEOREM SoundInvariance == Spec => []Sound
<1>1. Init => Sound
  BY SoundInit
<1>2. Sound /\ [Next]_vars => Sound'
  BY SoundStep
<1> QED  BY <1>1, <1>2, PTL DEF Spec

(* After its Close a channel sends nothing more: handleClose and the *)
(* application may answer each other at any await, and close may be   *)
(* called as often as one likes.                                      *)
THEOREM CloseIsLast == Spec => []NothingAfterClose
<1>1. Sound => NothingAfterClose
  <2> SUFFICES ASSUME Sound, NEW e \in Ends, NEW i \in DOMAIN wire[e], NEW j \in DOMAIN wire[e],
                      i < j, wire[e][i].op = "Close"
               PROVE  wire[e][j].src # wire[e][i].src
    BY DEF NothingAfterClose
  <2>1. DOMAIN wire[e] = 1 .. Len(wire[e]) /\ Quiet(e)
    BY WireFacts DEF Sound, AllQuiet
  <2> QED  BY <2>1 DEF Quiet
<1> QED  BY <1>1, SoundInvariance, PTL

=============================================================================
