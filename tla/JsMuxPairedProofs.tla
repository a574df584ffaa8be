------------------------- MODULE JsMuxPairedProofs --------------------------
(***************************************************************************)
(* Theorems about JsMux while nobody closes a channel twice: messages find *)
(* their channels, bytes arrive in order and complete, loops survive.  The *)
(* argument is the invariant of JsMuxPaired, on top of Sound.              *)
(* Lemmas speak of values: cs, w and v are the channels of the end that    *)
(* takes a step, what it has on the wire and what the other end has on the *)
(* wire, ps the channels of the other end; cs2, w2 and v2 come after the   *)
(* step.                                                                   *)
(***************************************************************************)
EXTENDS JsMuxPaired, JsMuxProofs

-----------------------------------------------------------------------------
(* Messages on the wire *)

(* The first s messages are gone. *)
Dropped(w, w2, s) ==
    /\ s \in {0, 1} /\ s <= Len(w) /\ Len(w) \in Nat /\ Len(w2) = Len(w) - s
    /\ \A i \in 1 .. Len(w2) : w2[i] = w[i + s]

(* m has been added. *)
Extended(w, w2, m) ==
    /\ Len(w) \in Nat /\ Len(w2) = Len(w) + 1
    /\ \A i \in 1 .. Len(w) : w2[i] = w[i]
    /\ w2[Len(w) + 1] = m

(* Open and Confirm are a channel's first messages, Close is its last. *)
Ordered(w) ==
    \A i, j \in 1 .. Len(w) :
        j < i => /\ w[i].op \in {"Open", "Confirm"} => w[j].src # w[i].src
                 /\ w[j].op = "Close" => w[j].src # w[i].src

LEMMA DroppedMessages ==
    ASSUME NEW w, NEW w2, NEW s, Dropped(w, w2, s)
    PROVE  /\ Messages(w2) \subseteq Messages(w)
           /\ s = 0 => Messages(w2) = Messages(w)
           /\ s = 1 => w[1] \in Messages(w) /\ Messages(w) = Messages(w2) \cup {w[1]}
<1>1. PICK n \in Nat : n = Len(w) /\ Len(w2) = n - s /\ s \in {0, 1} /\ s <= n
  BY DEF Dropped
<1>2. ASSUME NEW i \in 1 .. Len(w2) PROVE i + s \in 1 .. Len(w) /\ w2[i] = w[i + s]
  BY <1>1, <1>2 DEF Dropped
<1>3. Messages(w2) \subseteq Messages(w)
  BY <1>2 DEF Messages
<1>4. ASSUME NEW i \in 1 .. Len(w), i > s PROVE w[i] \in Messages(w2)
  <2>1. i - s \in 1 .. Len(w2) /\ (i - s) + s = i
    BY <1>1, <1>4
  <2>2. w2[i - s] = w[i]
    BY <1>2, <2>1
  <2> QED  BY <2>1, <2>2 DEF Messages
<1>5. ASSUME s = 0 PROVE Messages(w2) = Messages(w)
  <2>1. \A i \in 1 .. Len(w) : w[i] \in Messages(w2)
    BY <1>1, <1>4, <1>5
  <2> QED  BY <1>3, <2>1 DEF Messages
<1>6. ASSUME s = 1 PROVE w[1] \in Messages(w) /\ Messages(w) = Messages(w2) \cup {w[1]}
  <2>1. 1 \in 1 .. Len(w)
    BY <1>1, <1>6
  <2>2. \A i \in 1 .. Len(w) : i = 1 \/ i > s
    BY <1>1, <1>6
  <2>3. \A i \in 1 .. Len(w) : w[i] \in Messages(w2) \cup {w[1]}
    BY <1>4, <2>2
  <2>4. w[1] \in Messages(w)
    BY <2>1 DEF Messages
  <2> QED  BY <1>3, <2>3, <2>4 DEF Messages
<1> QED  BY <1>3, <1>5, <1>6

LEMMA ExtendedMessages ==
    ASSUME NEW w, NEW w2, NEW m, Extended(w, w2, m)
    PROVE  Messages(w2) = Messages(w) \cup {m}
<1>1. PICK n \in Nat : n = Len(w) /\ Len(w2) = n + 1
  BY DEF Extended
<1>2. \A i \in 1 .. n + 1 : i \in 1 .. n \/ i = n + 1
  OBVIOUS
<1>3. n + 1 \in 1 .. n + 1 /\ \A i \in 1 .. n : i \in 1 .. n + 1
  OBVIOUS
<1>4. \A i \in 1 .. Len(w2) : w2[i] \in Messages(w) \cup {m}
  BY <1>1, <1>2 DEF Messages, Extended
<1>5. m \in Messages(w2)
  BY <1>1, <1>3 DEF Messages, Extended
<1>6. \A i \in 1 .. Len(w) : w[i] \in Messages(w2)
  BY <1>1, <1>3 DEF Messages, Extended
<1> QED  BY <1>4, <1>5, <1>6 DEF Messages

(* Behind the first message from a channel there is no Open or Confirm from it, *)
(* and behind its Close nothing.                                                *)
LEMMA BehindFirst ==
    ASSUME NEW v, NEW v2, Ordered(v), Dropped(v, v2, 1), NEW m \in Messages(v2)
    PROVE  /\ m.op \in {"Open", "Confirm"} => m.src # v[1].src
           /\ v[1].op = "Close" => m.src # v[1].src
<1>1. PICK i \in 1 .. Len(v2) : m = v2[i]
  BY DEF Messages
<1>2. /\ i + 1 \in 1 .. Len(v) /\ v2[i] = v[i + 1]
      /\ 1 \in 1 .. Len(v) /\ 1 < i + 1
  BY DEF Dropped
<1> QED  BY <1>1, <1>2 DEF Ordered

LEMMA CarriesOn ==
    ASSUME NEW w, NEW w2, NEW op, NEW k, Messages(w) \subseteq Messages(w2)
    PROVE  /\ Carries(w, op, k) => Carries(w2, op, k)
           /\ Refuses(w, k) => Refuses(w2, k)
  BY DEF Carries, Refuses

LEMMA CarriesStill ==
    ASSUME NEW w, NEW w2, NEW s, Dropped(w, w2, s), NEW op, NEW k,
           s = 0 \/ w[1].op # op \/ w[1].src # k, Carries(w, op, k)
    PROVE  Carries(w2, op, k)
<1>1. /\ Messages(w) = Messages(w2) \/ Messages(w) = Messages(w2) \cup {w[1]}
      /\ s = 0 => Messages(w) = Messages(w2)
  BY DroppedMessages DEF Dropped
<1> QED  BY <1>1 DEF Carries

LEMMA CarriesMore ==
    ASSUME NEW w, NEW w2, NEW m, Extended(w, w2, m), NEW op, NEW k
    PROVE  Carries(w2, op, k) <=> Carries(w, op, k) \/ (m.op = op /\ m.src = k)
  BY ExtendedMessages DEF Carries

LEMMA RefusedOnceOn ==
    ASSUME NEW w, NEW w2, NEW s, Dropped(w, w2, s), RefusedOnce(w)
    PROVE  RefusedOnce(w2)
<1> SUFFICES ASSUME NEW i \in 1 .. Len(w2), NEW j \in 1 .. Len(w2),
                    w2[i].op = "Failure", w2[j].op = "Failure", w2[i].to = w2[j].to
             PROVE  i = j
  BY DEF RefusedOnce
<1>1. /\ i + s \in 1 .. Len(w) /\ w2[i] = w[i + s]
      /\ j + s \in 1 .. Len(w) /\ w2[j] = w[j + s]
      /\ s \in Int
  BY DEF Dropped
<1>2. i + s = j + s
  BY <1>1 DEF RefusedOnce
<1> QED  BY <1>1, <1>2

LEMMA RefusedOnceMore ==
    ASSUME NEW w, NEW w2, NEW m, Extended(w, w2, m), RefusedOnce(w),
           m.op = "Failure" => ~Refuses(w, m.to)
    PROVE  RefusedOnce(w2)
<1> SUFFICES ASSUME NEW i \in 1 .. Len(w2), NEW j \in 1 .. Len(w2),
                    w2[i].op = "Failure", w2[j].op = "Failure", w2[i].to = w2[j].to
             PROVE  i = j
  BY DEF RefusedOnce
<1>1. PICK n \in Nat : n = Len(w) /\ Len(w2) = n + 1
  BY DEF Extended
<1>2. (i \in 1 .. n \/ i = n + 1) /\ (j \in 1 .. n \/ j = n + 1)
  BY <1>1
<1>3. CASE i \in 1 .. n /\ j \in 1 .. n
  BY <1>1, <1>3 DEF Extended, RefusedOnce
<1>4. ASSUME NEW h \in 1 .. n PROVE ~(w2[h].op = "Failure" /\ m.op = "Failure" /\ w2[h].to = m.to)
  BY <1>1, <1>4 DEF Extended, Refuses, Messages
<1>5. w2[n + 1] = m
  BY <1>1 DEF Extended
<1>6. CASE i = n + 1 /\ j \in 1 .. n
  BY <1>4, <1>5, <1>6
<1>7. CASE j = n + 1 /\ i \in 1 .. n
  BY <1>4, <1>5, <1>7
<1> QED  BY <1>2, <1>3, <1>6, <1>7

-----------------------------------------------------------------------------
(* Numbers *)

(* Channels of one end that are consistent and know channels of the other. *)
Fit(cs, ps) ==
    /\ cs \in Seq(ChannelType) /\ Len(cs) \in Nat /\ Len(ps) \in Nat
    /\ \A k \in 1 .. Len(cs) :
        cs[k] \in ChannelType /\ Local(cs[k]) /\ cs[k].remote \in 0 .. Len(ps)

(* What is on the wire from cs. *)
Spoken(cs, w) ==
    /\ Ordered(w)
    /\ \A m \in Messages(w) :
        /\ m \in MessageType
        /\ m.src \in 0 .. Len(cs) /\ (m.src = 0 <=> m.op = "Failure")
        /\ m.op = "Close" => cs[m.src].sentClose

Both(cs, ps, w, v, live, alive) ==
    Numbered(cs, ps, w, v, alive) /\ Numbered(ps, cs, v, w, live)

Keeps(c, d) ==
    /\ SameNumbers(c, d)
    /\ c.remote = 0 =>
        d.sentClose = c.sentClose /\ d.gotClose = c.gotClose /\ SameTaken(c, d)

LEMMA JoinedOn ==
    ASSUME NEW cs, NEW ps, NEW w, NEW alive, NEW k, Joined(cs, ps, w, alive, k),
           NEW cs2, NEW ps2, NEW w2, NEW alive2, Keeps(cs[k], cs2[k]),
           cs[k].remote # 0 => SameNumbers(ps[cs[k].remote], ps2[cs[k].remote]),
           cs2[k].myWindow = cs[k].myWindow \/ ps[cs[k].remote].remote # 0,
           alive2 => alive,
           alive2 /\ Carries(w, "Confirm", k) => Carries(w2, "Confirm", k)
    PROVE  Joined(cs2, ps2, w2, alive2, k)
  BY DEF Joined, Keeps, SameNumbers, SameTaken

LEMMA AddressedOn ==
    ASSUME NEW cs, NEW ps, NEW v, NEW m, Addressed(cs, ps, v, m),
           NEW cs2, NEW ps2, NEW v2,
           m.op # "Failure" => SameNumbers(cs[m.src], cs2[m.src]),
           m.op \in {"Confirm", "Failure"} => SameNumbers(ps[m.to], ps2[m.to]),
           \A k \in 1 .. Len(ps) : k \in 1 .. Len(ps2),
           m.op = "Open" /\ NobodyFor(ps, m.src) => NobodyFor(ps2, m.src),
           m.op = "Failure" /\ NobodyFor(cs, m.to) => NobodyFor(cs2, m.to),
           m.op = "Failure" /\ Carries(v2, "Open", m.to) => Carries(v, "Open", m.to)
    PROVE  Addressed(cs2, ps2, v2, m)
  BY DEF Addressed, SameNumbers

(* The same channels, with the same numbers. *)
Alike(cs, cs2) ==
    Len(cs2) = Len(cs) /\ \A k \in 1 .. Len(cs) : SameNumbers(cs[k], cs2[k])

LEMMA AlikeFacts ==
    ASSUME NEW cs, NEW cs2, Alike(cs, cs2)
    PROVE  /\ \A k : NobodyFor(cs, k) <=> NobodyFor(cs2, k)
           /\ Single(cs) => Single(cs2)
  BY DEF Alike, SameNumbers, NobodyFor, Single

LEMMA AlikeItself ==
    ASSUME NEW cs
    PROVE  Alike(cs, cs)
  BY DEF Alike, SameNumbers

(* Whom a message that is not a Failure is from, and whom it is to. *)
LEMMA Ends2 ==
    ASSUME NEW cs, NEW ps, NEW w, NEW v, NEW alive, Fit(cs, ps), Spoken(cs, w),
           Numbered(cs, ps, w, v, alive), NEW m \in Messages(w)
    PROVE  /\ Addressed(cs, ps, v, m) /\ m \in MessageType
           /\ m.op # "Failure" => m.src \in 1 .. Len(cs)
           /\ m.op # "Open" => m.to \in 1 .. Len(ps)
           /\ m.op \in {"Confirm", "Failure"} => m.to \in 1 .. Len(ps)
<1>1. m.op \in Ops /\ m.src \in 0 .. Len(cs) /\ (m.src = 0 <=> m.op = "Failure")
  BY MessageFacts DEF Spoken, MessageType
<1>2. Addressed(cs, ps, v, m)
  BY DEF Numbered
<1>3. m.op # "Failure" => m.src \in 1 .. Len(cs) /\ cs[m.src].remote \in 0 .. Len(ps)
  BY <1>1 DEF Fit
<1>4. Len(ps) \in Nat
  BY DEF Fit
<1>5. m.op \notin {"Open", "Failure"} => m.to \in 1 .. Len(ps)
  BY <1>1, <1>2, <1>3, <1>4 DEF Addressed, Ops
<1>6. m.op = "Failure" => m.to \in 1 .. Len(ps)
  BY <1>2 DEF Addressed
<1> QED  BY <1>1, <1>2, <1>3, <1>5, <1>6 DEF Spoken

(* A message that a channel that knows its peer sends to it. *)
Talk(cs, m) ==
    /\ m.op \in {"Data", "EOF", "Close"} /\ m.src \in 1 .. Len(cs)
    /\ m.to # 0 /\ cs[m.src].remote = m.to

(* What a step that gives out no number does to the wire of its end. *)
Talked(cs, w, w2, m) == Dropped(w, w2, 0) \/ (Extended(w, w2, m) /\ Talk(cs, m))

LEMMA TalkedFacts ==
    ASSUME NEW cs, NEW w, NEW w2, NEW m, Talked(cs, w, w2, m)
    PROVE  /\ Messages(w) \subseteq Messages(w2)
           /\ \A h \in Messages(w2) : h \in Messages(w) \/ (h = m /\ Talk(cs, m))
           /\ \A k : Carries(w2, "Open", k) => Carries(w, "Open", k)
           /\ \A k : Refuses(w2, k) => Refuses(w, k)
           /\ RefusedOnce(w) => RefusedOnce(w2)
<1>1. CASE Dropped(w, w2, 0)
  BY <1>1, DroppedMessages, RefusedOnceOn DEF Carries, Refuses
<1>2. CASE Extended(w, w2, m) /\ Talk(cs, m)
  <2>1. Messages(w2) = Messages(w) \cup {m}
    BY <1>2, ExtendedMessages
  <2>2. m.op \notin {"Open", "Failure"}
    BY <1>2 DEF Talk
  <2>3. RefusedOnce(w) => RefusedOnce(w2)
    BY <1>2, <2>2, RefusedOnceMore
  <2> QED  BY <1>2, <2>1, <2>2, <2>3 DEF Carries, Refuses
<1> QED  BY <1>1, <1>2 DEF Talked

(* A step that gives out no number. *)
LEMMA NumberedOn ==
    ASSUME NEW cs, NEW ps, NEW w, NEW v, NEW live, NEW alive,
           Fit(cs, ps), Fit(ps, cs), Spoken(cs, w), Spoken(ps, v),
           Both(cs, ps, w, v, live, alive),
           NEW cs2, NEW w2, NEW v2, NEW m, NEW s, NEW live2,
           Len(cs2) = Len(cs),
           \A k \in 1 .. Len(cs) :
              /\ Keeps(cs[k], cs2[k])
              /\ cs2[k].myWindow = cs[k].myWindow \/ ps[cs[k].remote].remote # 0,
           Talked(cs, w, w2, m), Dropped(v, v2, s), live2 => live,
           s = 1 /\ v[1].op = "Confirm" => ~live2
    PROVE  Both(cs2, ps, w2, v2, live2, alive)
<1>1. Alike(cs, cs2) /\ Alike(ps, ps)
  BY AlikeItself DEF Alike, Keeps
<1>2. /\ \A k : NobodyFor(cs, k) <=> NobodyFor(cs2, k)
      /\ Single(cs2) /\ Single(ps)
  BY <1>1, AlikeFacts DEF Both, Numbered
<1>3. /\ Messages(w) \subseteq Messages(w2)
      /\ \A h \in Messages(w2) : h \in Messages(w) \/ (h = m /\ Talk(cs, m))
      /\ \A k : Carries(w2, "Open", k) => Carries(w, "Open", k)
      /\ RefusedOnce(w2)
  BY TalkedFacts DEF Both, Numbered
<1>4. Messages(v2) \subseteq Messages(v) /\ RefusedOnce(v2)
  BY DroppedMessages, RefusedOnceOn DEF Both, Numbered
<1>5. \A k : Carries(v2, "Open", k) => Carries(v, "Open", k)
  BY <1>4, CarriesOn
<1>6. ASSUME NEW k \in 1 .. Len(cs2) PROVE Joined(cs2, ps, w2, alive, k)
  <2>1. Joined(cs, ps, w, alive, k) /\ k \in 1 .. Len(cs)
    BY <1>6 DEF Both, Numbered
  <2>2. Carries(w, "Confirm", k) => Carries(w2, "Confirm", k)
    BY <1>3, CarriesOn
  <2>3. SameNumbers(ps[cs[k].remote], ps[cs[k].remote])
    BY DEF SameNumbers
  <2> QED  BY <2>1, <2>2, <2>3, JoinedOn
<1>7. ASSUME NEW k \in 1 .. Len(ps) PROVE Joined(ps, cs2, v2, live2, k)
  <2>1. Joined(ps, cs, v, live, k) /\ ps[k].remote \in 0 .. Len(cs) /\ Len(cs) \in Nat
    BY DEF Both, Numbered, Fit
  <2>2. live2 /\ Carries(v, "Confirm", k) => Carries(v2, "Confirm", k)
    BY CarriesStill DEF Dropped
  <2>3. ps[k].remote # 0 => SameNumbers(cs[ps[k].remote], cs2[ps[k].remote])
    BY <1>1, <2>1 DEF Alike
  <2>4. Keeps(ps[k], ps[k])
    BY DEF Keeps, SameNumbers, SameTaken
  <2> QED  BY <2>1, <2>2, <2>3, <2>4, JoinedOn
<1>8. ASSUME NEW h \in Messages(w2) PROVE Addressed(cs2, ps, v2, h)
  <2>1. CASE h \in Messages(w)
    <3>1. /\ Addressed(cs, ps, v, h) /\ (h.op # "Failure" => h.src \in 1 .. Len(cs))
      BY <2>1, Ends2 DEF Both
    <3>2. h.op # "Failure" => SameNumbers(cs[h.src], cs2[h.src])
      BY <1>1, <3>1 DEF Alike
    <3>3. SameNumbers(ps[h.to], ps[h.to])
      BY DEF SameNumbers
    <3> QED  BY <1>2, <1>5, <3>1, <3>2, <3>3, AddressedOn
  <2>2. CASE h = m /\ Talk(cs, m)
    <3>1. cs2[m.src].remote = cs[m.src].remote
      BY <1>1, <2>2 DEF Talk, Alike, SameNumbers
    <3> QED  BY <2>2, <3>1 DEF Talk, Addressed
  <2> QED  BY <1>3, <2>1, <2>2
<1>9. ASSUME NEW h \in Messages(v2) PROVE Addressed(ps, cs2, w2, h)
  <2>1. /\ Addressed(ps, cs, w, h)
        /\ h.op \in {"Confirm", "Failure"} => h.to \in 1 .. Len(cs)
    BY <1>4, <1>9, Ends2 DEF Both
  <2>2. h.op \in {"Confirm", "Failure"} => SameNumbers(cs[h.to], cs2[h.to])
    BY <1>1, <2>1 DEF Alike
  <2>3. SameNumbers(ps[h.src], ps[h.src]) /\ \A k \in 1 .. Len(cs) : k \in 1 .. Len(cs2)
    BY DEF SameNumbers
  <2> QED  BY <1>2, <1>3, <2>1, <2>2, <2>3, AddressedOn
<1> QED  BY <1>2, <1>3, <1>4, <1>6, <1>7, <1>8, <1>9 DEF Both, Numbered

(* What is in a list and in the list with one more channel. *)
Grows(cs, cs2, c) ==
    /\ Len(cs) \in Nat /\ Len(cs2) = Len(cs) + 1
    /\ \A k \in 1 .. Len(cs) : cs2[k] = cs[k]
    /\ cs2[Len(cs) + 1] = c

LEMMA GrowsFacts ==
    ASSUME NEW cs, NEW cs2, NEW c, Grows(cs, cs2, c)
    PROVE  /\ \A k \in 1 .. Len(cs2) : k \in 1 .. Len(cs) \/ k = Len(cs) + 1
           /\ \A k \in 1 .. Len(cs) : k \in 1 .. Len(cs2) /\ k # Len(cs) + 1
           /\ Len(cs) + 1 \in 1 .. Len(cs2) /\ Len(cs) + 1 # 0
  BY DEF Grows

LEMMA GrowsNobody ==
    ASSUME NEW cs, NEW cs2, NEW c, Grows(cs, cs2, c), NEW k,
           NobodyFor(cs, k), c.mine \/ c.remote # k
    PROVE  NobodyFor(cs2, k)
<1> SUFFICES ASSUME NEW r \in 1 .. Len(cs2), ~cs2[r].mine PROVE cs2[r].remote # k
  BY DEF NobodyFor
<1>1. CASE r \in 1 .. Len(cs)
  BY <1>1 DEF NobodyFor, Grows
<1>2. CASE r = Len(cs) + 1
  BY <1>2 DEF Grows
<1> QED  BY <1>1, <1>2, GrowsFacts

LEMMA GrowsSingle ==
    ASSUME NEW cs, NEW cs2, NEW c, Grows(cs, cs2, c), Single(cs),
           c.mine \/ NobodyFor(cs, c.remote)
    PROVE  Single(cs2)
<1> SUFFICES ASSUME NEW i \in 1 .. Len(cs2), NEW j \in 1 .. Len(cs2),
                    ~cs2[i].mine, ~cs2[j].mine, cs2[i].remote = cs2[j].remote
             PROVE  i = j
  BY DEF Single
<1>1. (i \in 1 .. Len(cs) \/ i = Len(cs) + 1) /\ (j \in 1 .. Len(cs) \/ j = Len(cs) + 1)
  BY GrowsFacts
<1>2. CASE i \in 1 .. Len(cs) /\ j \in 1 .. Len(cs)
  BY <1>2 DEF Single, Grows
<1>3. CASE i \in 1 .. Len(cs) /\ j = Len(cs) + 1
  BY <1>3 DEF NobodyFor, Grows
<1>4. CASE j \in 1 .. Len(cs) /\ i = Len(cs) + 1
  BY <1>4 DEF NobodyFor, Grows
<1> QED  BY <1>1, <1>2, <1>3, <1>4

(* A channel that has been made, and not used. *)
Unused(c) ==
    /\ ~c.sentClose /\ ~c.gotClose /\ ~c.gotEOF /\ c.myWindow = Window
    /\ ~c.sentEOF /\ c.sent = 0 /\ ~c.over /\ ~c.gone /\ ~c.readyClosed

(* A step that makes a channel c, and sends m about it or nothing. *)
LEMMA NumberedNew ==
    ASSUME NEW cs, NEW ps, NEW w, NEW v, NEW live, NEW alive,
           Fit(cs, ps), Fit(ps, cs), Spoken(cs, w), Spoken(ps, v),
           Both(cs, ps, w, v, live, alive),
           NEW cs2, NEW w2, NEW v2, NEW c, NEW m, NEW s,
           Grows(cs, cs2, c), Unused(c),
           Dropped(w, w2, 0) \/ Extended(w, w2, m), m.op \in {"Open", "Confirm"},
           Addressed(cs2, ps, v2, m),
           Joined(cs2, ps, w2, alive, Len(cs) + 1),
           Dropped(v, v2, s), s = 1 => v[1].op # "Confirm",
           m.op = "Open" => m.src = Len(cs) + 1,
           c.mine \/ (s = 1 /\ v[1].op = "Open" /\ v[1].src = c.remote)
    PROVE  Both(cs2, ps, w2, v2, live, alive)
<1>1. /\ Messages(w) \subseteq Messages(w2) /\ RefusedOnce(w2)
      /\ \A h \in Messages(w2) : h \in Messages(w) \/ h = m
  <2>1. RefusedOnce(w)
    BY DEF Both, Numbered
  <2>2. CASE Dropped(w, w2, 0)
    BY <2>1, <2>2, DroppedMessages, RefusedOnceOn
  <2>3. CASE Extended(w, w2, m)
    BY <2>1, <2>3, ExtendedMessages, RefusedOnceMore
  <2> QED  BY <2>2, <2>3
<1>2. Messages(v2) \subseteq Messages(v) /\ RefusedOnce(v2)
  BY DroppedMessages, RefusedOnceOn DEF Both, Numbered
<1>3. \A k : Carries(v2, "Open", k) => Carries(v, "Open", k)
  BY <1>2, CarriesOn
<1>4. c.mine \/ (v[1] \in Messages(v) /\ v[1].op = "Open" /\ v[1].src = c.remote)
  BY DroppedMessages
<1>5. \A k \in 1 .. Len(cs) : cs2[k] = cs[k] /\ k \in 1 .. Len(cs2)
  BY GrowsFacts DEF Grows
<1>6. ASSUME NEW k, NobodyFor(cs, k), ~Carries(v, "Open", k) PROVE NobodyFor(cs2, k)
  BY <1>4, <1>6, GrowsNobody DEF Carries
<1>7. Single(cs2) /\ Single(ps)
  <2>1. Single(cs) /\ Single(ps)
    BY DEF Both, Numbered
  <2>2. v[1] \in Messages(v) /\ v[1].op = "Open" /\ v[1].src = c.remote => NobodyFor(cs, c.remote)
    BY DEF Both, Numbered, Addressed
  <2> QED  BY <1>4, <2>1, <2>2, GrowsSingle
<1>8. ASSUME NEW k \in 1 .. Len(cs2) PROVE Joined(cs2, ps, w2, alive, k)
  <2>1. CASE k \in 1 .. Len(cs)
    <3>1. Joined(cs, ps, w, alive, k) /\ cs2[k] = cs[k]
      BY <1>5, <2>1 DEF Both, Numbered
    <3>2. Carries(w, "Confirm", k) => Carries(w2, "Confirm", k)
      BY <1>1, CarriesOn
    <3> QED  BY <3>1, <3>2 DEF Joined
  <2> QED  BY <2>1, GrowsFacts
<1>9. ASSUME NEW k \in 1 .. Len(ps) PROVE Joined(ps, cs2, v2, live, k)
  <2>1. Joined(ps, cs, v, live, k) /\ ps[k].remote \in 0 .. Len(cs) /\ Len(cs) \in Nat
    BY DEF Both, Numbered, Fit
  <2>2. Carries(v, "Confirm", k) => Carries(v2, "Confirm", k)
    BY CarriesStill DEF Dropped
  <2>3. ps[k].remote # 0 => cs2[ps[k].remote] = cs[ps[k].remote]
    BY <1>5, <2>1
  <2> QED  BY <2>1, <2>2, <2>3 DEF Joined
<1>10. ASSUME NEW h \in Messages(w2) PROVE Addressed(cs2, ps, v2, h)
  <2>1. CASE h \in Messages(w)
    <3>1. Addressed(cs, ps, v, h) /\ (h.op # "Failure" => h.src \in 1 .. Len(cs))
      BY <2>1, Ends2 DEF Both
    <3>2. h.op # "Failure" => cs2[h.src] = cs[h.src]
      BY <1>5, <3>1
    <3>3. h.op = "Failure" => NobodyFor(cs2, h.to)
      BY <1>6, <3>1 DEF Addressed
    <3> QED  BY <1>3, <3>1, <3>2, <3>3 DEF Addressed
  <2> QED  BY <1>1, <2>1
<1>11. ASSUME NEW h \in Messages(v2) PROVE Addressed(ps, cs2, w2, h)
  <2>1. /\ Addressed(ps, cs, w, h) /\ h \in Messages(v)
        /\ h.op \in {"Confirm", "Failure"} => h.to \in 1 .. Len(cs)
    BY <1>2, <1>11, Ends2 DEF Both
  <2>2. h.op \in {"Confirm", "Failure"} => cs2[h.to] = cs[h.to] /\ h.to \in 1 .. Len(cs2)
    BY <1>5, <2>1
  <2>3. h.op = "Open" => NobodyFor(cs2, h.src)
    <3>1. SUFFICES ASSUME h.op = "Open" PROVE NobodyFor(cs2, h.src)
      OBVIOUS
    <3>2. NobodyFor(cs, h.src)
      BY <2>1, <3>1 DEF Addressed
    <3>3. c.mine \/ h.src # c.remote
      BY <3>1, BehindFirst DEF Spoken
    <3> QED  BY <3>2, <3>3, GrowsNobody
  <2>4. ASSUME h.op = "Failure" PROVE ~Carries(w2, "Open", h.to)
    <3>1. ~Carries(w, "Open", h.to) /\ h.to \in 1 .. Len(cs)
      BY <2>1, <2>4 DEF Addressed
    <3>2. ASSUME m.op = "Open" PROVE m.src # h.to
      BY <3>1, <3>2, GrowsFacts
    <3> QED  BY <1>1, <3>1, <3>2 DEF Carries
  <2> QED  BY <2>1, <2>2, <2>3, <2>4 DEF Addressed
<1> QED  BY <1>1, <1>2, <1>7, <1>8, <1>9, <1>10, <1>11 DEF Both, Numbered

LEMMA NumberedOpen ==
    ASSUME NEW cs, NEW ps, NEW w, NEW v, NEW live, NEW alive,
           Fit(cs, ps), Fit(ps, cs), Spoken(cs, w), Spoken(ps, v),
           Both(cs, ps, w, v, live, alive),
           NEW cs2, NEW w2, NEW v2, NEW c, NEW m,
           Grows(cs, cs2, c), Unused(c), c.mine, c.remote = 0,
           Dropped(w, w2, 0) \/ Extended(w, w2, m),
           m.op = "Open", m.src = Len(cs) + 1, m.to = 0, Dropped(v, v2, 0)
    PROVE  Both(cs2, ps, w2, v2, live, alive)
<1>1. cs2[Len(cs) + 1] = c
  BY DEF Grows
<1>2. Joined(cs2, ps, w2, alive, Len(cs) + 1)
  BY <1>1 DEF Joined, Unused
<1>3. NobodyFor(ps, m.src)
  <2>1. ASSUME NEW r \in 1 .. Len(ps) PROVE ps[r].remote # Len(cs) + 1
    BY DEF Fit
  <2> QED  BY <2>1 DEF NobodyFor
<1>4. Addressed(cs2, ps, v2, m)
  BY <1>1, <1>3 DEF Addressed
<1> QED  BY <1>2, <1>4, NumberedNew

LEMMA NumberedTakeIn ==
    ASSUME NEW cs, NEW ps, NEW w, NEW v, NEW live, NEW alive,
           Fit(cs, ps), Fit(ps, cs), Spoken(cs, w), Spoken(ps, v),
           Both(cs, ps, w, v, live, alive),
           NEW cs2, NEW w2, NEW v2, NEW c, NEW m,
           Grows(cs, cs2, c), Unused(c), ~c.mine, c.remote = v[1].src,
           (Dropped(w, w2, 0) /\ ~alive) \/ Extended(w, w2, m),
           m.op = "Confirm", m.src = Len(cs) + 1, m.to = v[1].src,
           Dropped(v, v2, 1), v[1].op = "Open"
    PROVE  Both(cs2, ps, w2, v2, live, alive)
<1>1. cs2[Len(cs) + 1] = c
  BY DEF Grows
<1>2. v[1] \in Messages(v)
  BY DroppedMessages
<1>3. /\ ps[v[1].src].mine /\ ps[v[1].src].remote = 0 /\ v[1].src # 0
  BY <1>2 DEF Both, Numbered, Addressed, Spoken
<1>4. alive => Carries(w2, "Confirm", Len(cs) + 1)
  BY CarriesMore
<1>5. Joined(cs2, ps, w2, alive, Len(cs) + 1)
  BY <1>1, <1>3, <1>4 DEF Joined, Unused
<1>6. Addressed(cs2, ps, v2, m)
  BY <1>1, <1>3 DEF Addressed
<1> QED  BY <1>5, <1>6, NumberedNew

LEMMA NumberedRefuse ==
    ASSUME NEW cs, NEW ps, NEW w, NEW v, NEW live, NEW alive,
           Fit(cs, ps), Fit(ps, cs), Spoken(cs, w), Spoken(ps, v),
           Both(cs, ps, w, v, live, alive),
           NEW w2, NEW v2, NEW m,
           Dropped(w, w2, 0) \/ Extended(w, w2, m),
           m.op = "Failure", m.to = v[1].src, Dropped(v, v2, 1), v[1].op = "Open"
    PROVE  Both(cs, ps, w2, v2, live, alive)
<1>1. v[1] \in Messages(v) /\ Messages(v2) \subseteq Messages(v)
  BY DroppedMessages
<1>2. /\ ps[m.to].mine /\ ps[m.to].remote = 0 /\ NobodyFor(cs, m.to)
      /\ m.to \in 1 .. Len(ps)
  <2>1. Addressed(ps, cs, w, v[1]) /\ v[1].src \in 1 .. Len(ps)
    BY <1>1, Ends2 DEF Both
  <2> QED  BY <2>1 DEF Addressed
<1>3. ~Carries(v2, "Open", m.to)
  BY BehindFirst DEF Carries, Spoken
<1>4. Addressed(cs, ps, v2, m)
  BY <1>2, <1>3 DEF Addressed
<1>5. ~Refuses(w, m.to)
  BY <1>1 DEF Refuses, Both, Numbered, Addressed, Carries
<1>6. /\ Messages(w) \subseteq Messages(w2) /\ RefusedOnce(w2)
      /\ \A h \in Messages(w2) : h \in Messages(w) \/ h = m
  <2>1. RefusedOnce(w)
    BY DEF Both, Numbered
  <2>2. CASE Dropped(w, w2, 0)
    BY <2>1, <2>2, DroppedMessages, RefusedOnceOn
  <2>3. CASE Extended(w, w2, m)
    BY <1>5, <2>1, <2>3, ExtendedMessages, RefusedOnceMore
  <2> QED  BY <2>2, <2>3
<1>7. RefusedOnce(v2) /\ \A k : Carries(v2, "Open", k) => Carries(v, "Open", k)
  BY <1>1, CarriesOn, RefusedOnceOn DEF Both, Numbered
<1>8. ASSUME NEW k \in 1 .. Len(cs) PROVE Joined(cs, ps, w2, alive, k)
  BY <1>6, CarriesOn DEF Both, Numbered, Joined
<1>9. ASSUME NEW k \in 1 .. Len(ps) PROVE Joined(ps, cs, v2, live, k)
  BY CarriesStill DEF Both, Numbered, Joined
<1>10. ASSUME NEW h \in Messages(w2) PROVE Addressed(cs, ps, v2, h)
  BY <1>4, <1>6, <1>7 DEF Both, Numbered, Addressed
<1>11. ASSUME NEW h \in Messages(v2) PROVE Addressed(ps, cs, w2, h)
  <2>1. Addressed(ps, cs, w, h)
    BY <1>1 DEF Both, Numbered
  <2>2. \A k : Carries(w2, "Open", k) => Carries(w, "Open", k)
    BY <1>6 DEF Carries
  <2> QED  BY <2>1, <2>2 DEF Addressed
<1> QED  BY <1>6, <1>7, <1>8, <1>9, <1>10, <1>11 DEF Both, Numbered

(* The channel that was taken in for k is the only one, and k has been silent. *)
LEMMA ConfirmFacts ==
    ASSUME NEW cs, NEW ps, NEW w, NEW v, NEW live, NEW alive,
           Fit(cs, ps), Fit(ps, cs), Spoken(cs, w), Spoken(ps, v),
           Both(cs, ps, w, v, live, alive), Len(v) \in Nat \ {0}, v[1].op = "Confirm"
    PROVE  /\ v[1].to \in 1 .. Len(cs) /\ v[1].src \in 1 .. Len(ps)
           /\ cs[v[1].to].mine /\ cs[v[1].to].remote = 0
           /\ ~ps[v[1].src].mine /\ ps[v[1].src].remote = v[1].to
           /\ ps[v[1].src].myWindow = Window
           /\ ~NobodyFor(ps, v[1].to)
           /\ \A j \in 1 .. Len(ps) : ps[j].remote = v[1].to => j = v[1].src
           /\ \A h \in Messages(w) : h.src # v[1].to /\ (h.op = "Failure" => h.to # 0)
<1>1. v[1] \in Messages(v)
  BY DEF Messages
<1>2. /\ Addressed(ps, cs, w, v[1])
      /\ v[1].to \in 1 .. Len(cs) /\ v[1].src \in 1 .. Len(ps)
  BY <1>1, Ends2 DEF Both
<1>3. /\ ~ps[v[1].src].mine /\ ps[v[1].src].remote = v[1].to /\ v[1].to # 0
      /\ cs[v[1].to].remote = 0
  BY <1>2 DEF Addressed
<1>4. cs[v[1].to].mine /\ ps[v[1].src].myWindow = Window
  <2>1. Joined(ps, cs, v, live, v[1].src) /\ Local(cs[v[1].to])
    BY <1>2 DEF Both, Numbered, Fit
  <2> QED  BY <1>3, <2>1 DEF Joined, Local
<1>5. ~NobodyFor(ps, v[1].to)
  BY <1>2, <1>3 DEF NobodyFor
<1>6. ASSUME NEW j \in 1 .. Len(ps), ps[j].remote = v[1].to PROVE j = v[1].src
  <2>1. ps[j].mine # cs[v[1].to].mine \/ ~ps[j].mine
    BY <1>3, <1>6 DEF Both, Numbered, Joined
  <2>2. ~ps[j].mine
    BY <1>4, <2>1
  <2> QED  BY <1>2, <1>3, <1>6, <2>2 DEF Both, Numbered, Single
<1>7. ASSUME NEW h \in Messages(w) PROVE h.src # v[1].to /\ (h.op = "Failure" => h.to # 0)
  <2>1. /\ Addressed(cs, ps, v, h) /\ h \in MessageType
        /\ (h.src = 0 <=> h.op = "Failure")
        /\ h.op = "Failure" => h.to \in 1 .. Len(ps)
    BY Ends2 DEF Both, Spoken
  <2>2. h.op \in Ops
    BY <2>1 DEF MessageType
  <2> QED  BY <1>2, <1>3, <1>4, <1>5, <2>1, <2>2 DEF Addressed, Ops
<1> QED  BY <1>2, <1>3, <1>4, <1>5, <1>6, <1>7

(* The number that Confirm brings is noted. *)
LEMMA NumberedConfirm ==
    ASSUME NEW cs, NEW ps, NEW w, NEW v, NEW live, NEW alive,
           Fit(cs, ps), Fit(ps, cs), Spoken(cs, w), Spoken(ps, v),
           Both(cs, ps, w, v, live, alive), Len(v) \in Nat \ {0}, v[1].op = "Confirm",
           NEW cs2, NEW w2, NEW v2, Dropped(w, w2, 0), Dropped(v, v2, 1),
           Len(cs2) = Len(cs),
           \A j \in 1 .. Len(cs) : j # v[1].to => cs2[j] = cs[j],
           cs2[v[1].to].mine = cs[v[1].to].mine, cs2[v[1].to].remote = v[1].src
    PROVE  Both(cs2, ps, w2, v2, live, alive)
<1> DEFINE k == v[1].to
           r == v[1].src
<1>1. /\ k \in 1 .. Len(cs) /\ r \in 1 .. Len(ps)
      /\ cs[k].mine /\ cs[k].remote = 0
      /\ ~ps[r].mine /\ ps[r].remote = k
      /\ ~NobodyFor(ps, k)
      /\ \A j \in 1 .. Len(ps) : ps[j].remote = k => j = r
      /\ \A h \in Messages(w) : h.src # k
  BY ConfirmFacts
<1>2. \A j \in 1 .. Len(cs) : j # k => cs2[j] = cs[j]
  OBVIOUS
<1>3. cs2[k].mine /\ cs2[k].remote = r
  BY <1>1
<1>4. /\ \A h \in Messages(v2) : h.op \in {"Open", "Confirm"} => h.src # r
      /\ \A j : j # r /\ Carries(v, "Confirm", j) => Carries(v2, "Confirm", j)
  BY BehindFirst, CarriesStill DEF Spoken
<1> HIDE DEF k, r
<1>5. /\ Messages(w2) = Messages(w) /\ RefusedOnce(w2)
      /\ Messages(v2) \subseteq Messages(v) /\ RefusedOnce(v2)
  BY DroppedMessages, RefusedOnceOn DEF Both, Numbered
<1>6. /\ \A op, j : Carries(w, op, j) <=> Carries(w2, op, j)
      /\ \A j : Carries(v2, "Open", j) => Carries(v, "Open", j)
  BY <1>5, CarriesOn
<1>7. Single(cs2) /\ Single(ps) /\ \A j : NobodyFor(cs, j) => NobodyFor(cs2, j)
  <2>1. \A j \in 1 .. Len(cs2) : ~cs2[j].mine => j \in 1 .. Len(cs) /\ cs2[j] = cs[j]
    BY <1>2, <1>3
  <2>2. Single(cs) /\ Single(ps)
    BY DEF Both, Numbered
  <2> QED  BY <2>1, <2>2 DEF Single, NobodyFor
<1>8. ASSUME NEW j \in 1 .. Len(cs2) PROVE Joined(cs2, ps, w2, alive, j)
  <2>1. CASE j = k
    <3>1. r # 0
      BY <1>1
    <3>2. ps[r].mine # cs2[k].mine
      BY <1>1, <1>3, Zenon
    <3>3. ps[r].remote = k /\ k # 0
      BY <1>1
    <3> QED  BY <1>3, <2>1, <3>1, <3>2, <3>3 DEF Joined
  <2>2. CASE j # k
    <3>1. Joined(cs, ps, w, alive, j) /\ cs2[j] = cs[j]
      BY <1>2, <2>2 DEF Both, Numbered
    <3> QED  BY <1>6, <3>1 DEF Joined
  <2> QED  BY <2>1, <2>2
<1>9. ASSUME NEW j \in 1 .. Len(ps) PROVE Joined(ps, cs2, v2, live, j)
  <2>1. Joined(ps, cs, v, live, j) /\ ps[j].remote \in 0 .. Len(cs) /\ Len(cs) \in Nat
    BY DEF Both, Numbered, Fit
  <2>2. CASE j = r
    <3>1. r # 0 /\ k # 0
      BY <1>1
    <3> QED  BY <1>1, <1>3, <2>2, <3>1 DEF Joined
  <2>3. CASE j # r
    <3>1. ps[j].remote # 0 => cs2[ps[j].remote] = cs[ps[j].remote]
      BY <1>1, <1>2, <2>1, <2>3
    <3> QED  BY <1>4, <2>1, <2>3, <3>1 DEF Joined
  <2> QED  BY <2>2, <2>3
<1>10. ASSUME NEW h \in Messages(w2) PROVE Addressed(cs2, ps, v2, h)
  <2>1. /\ Addressed(cs, ps, v, h) /\ h.src # k
        /\ h.op # "Failure" => h.src \in 1 .. Len(cs)
    BY <1>1, <1>5, Ends2 DEF Both
  <2>2. h.op # "Failure" => cs2[h.src] = cs[h.src]
    BY <1>2, <2>1
  <2> QED  BY <1>6, <1>7, <2>1, <2>2 DEF Addressed
<1>11. ASSUME NEW h \in Messages(v2) PROVE Addressed(ps, cs2, w2, h)
  <2>1. /\ Addressed(ps, cs, w, h) /\ h \in Messages(v)
        /\ h.op \in {"Confirm", "Failure"} => h.to \in 1 .. Len(cs)
        /\ h.op # "Failure" => h.src \in 1 .. Len(ps)
    BY <1>5, Ends2 DEF Both
  <2>2. h.op = "Confirm" => h.to # k
    BY <1>1, <1>4, <2>1 DEF Addressed
  <2>3. h.op = "Failure" => h.to # k
    BY <1>1, <2>1 DEF Addressed
  <2>4. h.op \in {"Confirm", "Failure"} => cs2[h.to] = cs[h.to]
    BY <1>2, <2>1, <2>2, <2>3
  <2> QED  BY <1>6, <1>7, <2>1, <2>4 DEF Addressed
<1> QED  BY <1>5, <1>7, <1>8, <1>9, <1>10, <1>11 DEF Both, Numbered

-----------------------------------------------------------------------------
(* Whom messages reach *)

Talks == {"Data", "EOF", "Close"}

(* m is from the peer of the channel that it is to, or from who is to be its peer. *)
Fitting(cs, ps, v, live, m) ==
    /\ m.to \in 1 .. Len(cs) /\ m.src \in 1 .. Len(ps) /\ m \in MessageType
    /\ ps[m.src].remote = m.to
    /\ cs[m.to].remote \in {0, m.src}
    /\ cs[m.to].remote = 0 => ~NobodyFor(ps, m.to)
    /\ cs[m.to].remote = 0 /\ live => Carries(v, "Confirm", m.src)

LEMMA TalkFacts ==
    ASSUME NEW cs, NEW ps, NEW w, NEW v, NEW live, NEW alive,
           Fit(cs, ps), Fit(ps, cs), Spoken(ps, v), Both(cs, ps, w, v, live, alive),
           NEW m \in Messages(v), m.op \in Talks
    PROVE  Fitting(cs, ps, v, live, m)
<1>1. /\ m.to \in 1 .. Len(cs) /\ m.src \in 1 .. Len(ps) /\ m \in MessageType
      /\ Addressed(ps, cs, w, m)
  BY Ends2 DEF Both, Talks
<1>2. ps[m.src].remote = m.to /\ m.to # 0
  BY <1>1 DEF Addressed, Talks
<1>3. Joined(ps, cs, v, live, m.src) /\ Local(cs[m.to])
  BY <1>1 DEF Both, Numbered, Fit
<1>4. /\ cs[m.to].remote \in {0, m.src}
      /\ cs[m.to].remote = 0 => cs[m.to].mine
      /\ cs[m.to].mine # ps[m.src].mine
      /\ cs[m.to].remote = 0 /\ live => Carries(v, "Confirm", m.src)
  BY <1>2, <1>3 DEF Joined, Local
<1>5. cs[m.to].mine \in BOOLEAN /\ ps[m.src].mine \in BOOLEAN
  <2>1. cs[m.to] \in ChannelType /\ ps[m.src] \in ChannelType
    BY <1>1 DEF Fit
  <2> QED  BY <2>1, ChannelFields
<1>6. cs[m.to].mine => ~NobodyFor(ps, m.to)
  BY <1>1, <1>2, <1>4, <1>5 DEF NobodyFor
<1> QED  BY <1>1, <1>2, <1>4, <1>6 DEF Fitting

(* What is decoded is from the peer: its Confirm would have come before. *)
Reached(cs, ps, live, m) ==
    /\ m.to \in 1 .. Len(cs) /\ m.src \in 1 .. Len(ps) /\ ps[m.src].remote = m.to
    /\ live => cs[m.to].remote = m.src

LEMMA Fits ==
    ASSUME NEW cs, NEW ps, NEW w, NEW v, NEW live, NEW alive,
           Fit(cs, ps), Fit(ps, cs), Spoken(ps, v), Both(cs, ps, w, v, live, alive),
           Len(v) \in Nat \ {0}, NEW m, m = v[1], m.op \in Talks
    PROVE  Reached(cs, ps, live, m)
<1>1. m \in Messages(v)
  BY DEF Messages
<1>2. Fitting(cs, ps, v, live, m)
  BY <1>1, TalkFacts
<1>3. ~Carries(v, "Confirm", m.src)
  <2>1. ASSUME NEW i \in 1 .. Len(v), v[i].op = "Confirm" PROVE v[i].src # m.src
    <3>1. i # 1
      BY <2>1 DEF Talks
    <3>2. 1 \in 1 .. Len(v) /\ 1 < i
      BY <3>1
    <3> QED  BY <2>1, <3>2 DEF Spoken, Ordered
  <2> QED  BY <2>1 DEF Carries, Messages
<1> QED  BY <1>2, <1>3 DEF Fitting, Reached

(* While the session is open a message finds its channel in the array. *)
InPlace(list, cs, k) == k \in 1 .. Len(cs) /\ list[k] = k

LEMMA Reaches ==
    ASSUME NEW cs, NEW ps, NEW w, NEW v, NEW live, NEW alive, NEW list, NEW isClosed,
           Fit(cs, ps), Fit(ps, cs), Spoken(ps, v), Both(cs, ps, w, v, live, alive),
           Closing(list, cs, ps, w, v, isClosed), isClosed = FALSE,
           NEW m \in Messages(v), m.op # "Open"
    PROVE  InPlace(list, cs, m.to)
<1>1. m.to \in 1 .. Len(cs) /\ m \in MessageType /\ Addressed(ps, cs, w, m)
  BY Ends2 DEF Both
<1>2. ~cs[m.to].readyClosed
  <2>1. Over(cs[m.to], ps, v, m.to) /\ Listed(list, cs[m.to], ps, w, v, isClosed, m.to)
    BY <1>1 DEF Closing
  <2>2. ~cs[m.to].gotClose
    BY <2>1 DEF Over
  <2> QED  BY <2>1, <2>2 DEF Listed
<1>3. ~Refused(cs[m.to], ps, w, v, m.to)
  <2>1. m.op \in Ops
    BY <1>1, MessageFields
  <2>2. CASE m.op \in Talks
    BY <2>2, TalkFacts DEF Refused, Fitting
  <2>3. CASE m.op = "Failure"
    BY <2>3 DEF Refused, Refuses
  <2>4. CASE m.op = "Confirm"
    <3>1. ~ps[m.src].mine /\ ps[m.src].remote = m.to /\ m.src \in 1 .. Len(ps)
      BY <2>4, <1>1, Ends2 DEF Addressed, Both
    <3> QED  BY <3>1 DEF Refused, NobodyFor
  <2> QED  BY <2>1, <2>2, <2>3, <2>4 DEF Ops, Talks
<1> QED  BY <1>1, <1>2, <1>3 DEF Closing, Listed, InPlace

-----------------------------------------------------------------------------
(* Closing *)

LEMMA OverOn ==
    ASSUME NEW c, NEW d, NEW ps, NEW v, NEW v2, NEW k, Over(c, ps, v, k),
           d.gotClose => c.gotClose, c.remote # 0 => d.remote = c.remote,
           Messages(v2) \subseteq Messages(v)
    PROVE  Over(d, ps, v2, k)
  BY DEF Over

(* The peer has closed: it has sent no more after that. *)
LEMMA OverNow ==
    ASSUME NEW cs, NEW ps, NEW w, NEW v, NEW live, NEW alive,
           Fit(cs, ps), Fit(ps, cs), Spoken(ps, v), Both(cs, ps, w, v, live, alive),
           live, Len(v) \in Nat \ {0}, NEW m, m = v[1], m.op \in Talks,
           NEW v2, Dropped(v, v2, 1), NEW d, d.remote = cs[m.to].remote
    PROVE  m.op = "Close" => Over(d, ps, v2, m.to)
<1> DEFINE k == m.to
           r == m.src
<1>1. k \in 1 .. Len(cs) /\ r \in 1 .. Len(ps) /\ cs[k].remote = r
  <2>1. Reached(cs, ps, live, m)
    BY Fits
  <2> QED  BY <2>1 DEF Reached
<1> SUFFICES ASSUME m.op = "Close" PROVE Over(d, ps, v2, k)
  OBVIOUS
<1>2. /\ Messages(v2) \subseteq Messages(v) /\ m \in Messages(v)
      /\ \A h \in Messages(v2) : h.src # r
  BY DroppedMessages, BehindFirst DEF Spoken
<1>3. ps[r].sentClose
  BY <1>2 DEF Spoken
<1>4. d.remote = r /\ r # 0
  BY <1>1
<1> HIDE DEF k, r
<1>5. ASSUME NEW h \in Messages(v2) PROVE h.to # k
  <2>1. /\ h \in Messages(v) /\ h.src # r
        /\ Addressed(ps, cs, w, h) /\ h \in MessageType
    BY <1>2, Ends2 DEF Both
  <2>2. CASE h.op \in Talks
    <3>1. cs[h.to].remote \in {0, h.src}
      BY <2>1, <2>2, TalkFacts DEF Fitting
    <3> QED  BY <1>1, <1>4, <2>1, <3>1
  <2>3. CASE h.op \notin Talks
    <3>1. h.op \in {"Open", "Confirm", "Failure"}
      BY <2>1, <2>3, MessageFields DEF Ops, Talks
    <3> QED  BY <1>1, <2>1, <3>1 DEF Addressed
  <2> QED  BY <2>2, <2>3
<1> QED  BY <1>3, <1>4, <1>5 DEF Over

(* Whoever has sent Close sends nothing more to the channel that has got it. *)
LEMMA OverHeard ==
    ASSUME NEW cs, NEW ps, NEW w, NEW k \in 1 .. Len(ps), Over(ps[k], cs, w, k),
           ps[k].remote \in 0 .. Len(cs), Len(cs) \in Nat,
           NEW cs2, NEW w2, NEW v2, NEW live, NEW alive,
           Fit(cs2, ps), Fit(ps, cs2), Spoken(cs2, w2), Both(cs2, ps, w2, v2, live, alive),
           \A j \in 1 .. Len(cs) : cs[j].sentClose => cs2[j].sentClose,
           NEW m, Messages(w2) \subseteq Messages(w) \cup {m},
           m.op \in Talks => m.src \in 1 .. Len(cs) /\ ~cs[m.src].sentClose
    PROVE  Over(ps[k], cs2, w2, k)
<1> SUFFICES ASSUME ps[k].gotClose
             PROVE  /\ ps[k].remote # 0 /\ cs2[ps[k].remote].sentClose
                    /\ \A h \in Messages(w2) : h.to # k
  BY DEF Over
<1>1. /\ ps[k].remote # 0 /\ cs[ps[k].remote].sentClose
      /\ \A h \in Messages(w) : h.to # k
  BY DEF Over
<1>2. ASSUME m \in Messages(w2) PROVE m.to # k
  <2>1. Addressed(cs2, ps, v2, m) /\ m \in MessageType
    BY <1>2, Ends2 DEF Both
  <2>2. CASE m.op \in Talks
    <3>1. ps[m.to].remote \in {0, m.src}
      <4>1. Both(ps, cs2, v2, w2, alive, live)
        BY DEF Both
      <4> QED  BY <1>2, <2>2, <4>1, TalkFacts DEF Fitting
    <3> QED  BY <1>1, <2>2, <3>1
  <2>3. CASE m.op \notin Talks
    <3>1. m.op \in {"Open", "Confirm", "Failure"}
      BY <2>1, <2>3, MessageFields DEF Ops, Talks
    <3> QED  BY <1>1, <2>1, <3>1 DEF Addressed
  <2> QED  BY <2>2, <2>3
<1> QED  BY <1>1, <1>2

LEMMA RefusedOn ==
    ASSUME NEW c, NEW ps, NEW w, NEW v, NEW k, Refused(c, ps, w, v, k),
           NEW d, NEW w2, NEW v2, d.remote = c.remote, OpenFails(d),
           Carries(w2, "Open", k) => Carries(w, "Open", k),
           Messages(v2) \subseteq Messages(v)
    PROVE  Refused(d, ps, w2, v2, k)
  BY DEF Refused, Refuses

LEMMA RefusedHeard ==
    ASSUME NEW c, NEW cs, NEW w, NEW v, NEW k, Refused(c, cs, v, w, k),
           NEW cs2, NEW w2, NEW v2,
           Messages(v2) \subseteq Messages(v),
           NobodyFor(cs, k) /\ ~Carries(v, "Open", k) => NobodyFor(cs2, k),
           NEW m, Messages(w2) \subseteq Messages(w) \cup {m},
           m.op = "Failure" => Carries(v, "Open", m.to)
    PROVE  Refused(c, cs2, v2, w2, k)
  BY DEF Refused, Refuses, Carries

-----------------------------------------------------------------------------
(* Bytes *)

Typed(w) == \A i \in 1 .. Len(w) : w[i] \in MessageType

LEMMA RegularFacts ==
    ASSUME NEW m \in MessageType, Regular(m)
    PROVE  /\ Len(m.data) \in Nat \ {0} /\ Len(m.data) <= MaxPayload
           /\ From(m) \in Int /\ UpTo(m) \in Int
           /\ UpTo(m) = From(m) + Len(m.data) /\ From(m) < UpTo(m)
<1>1. PICK n \in Nat \ {0} : n = Len(m.data) /\ n <= MaxPayload
  BY WindowAssumption DEF Regular
<1>2. m.data \in Seq(Nat) /\ 1 \in 1 .. n /\ n \in 1 .. n
  BY <1>1, MessageFields
<1>3. m.data[1] \in Nat /\ m.data[n] = From(m) + n
  BY <1>1, <1>2, Elements DEF Regular
<1>4. From(m) \in Int
  BY <1>3 DEF From
<1> QED  BY <1>1, <1>3, <1>4 DEF UpTo

(* No data of channel k are sent. *)
LEMMA FlowsKeep ==
    ASSUME NEW w, NEW w2, NEW m, NEW k, NEW sent, NEW received, NEW o, NEW o2,
           Flows(sent, received, w, o, k),
           Dropped(w, w2, 0) \/ Extended(w, w2, m),
           Extended(w, w2, m) => ~IsData(m, k) /\ (m.op = "EOF" /\ m.src = k => o),
           o2 => o
    PROVE  Flows(sent, received, w2, o2, k)
<1>1. PICK n \in Nat : n = Len(w)
  BY DEF Dropped, Extended
<1>2. \A i \in 1 .. Len(w) : i \in 1 .. Len(w2) /\ w2[i] = w[i]
  BY DEF Dropped, Extended
<1>3. ASSUME NEW i \in 1 .. Len(w2), IsData(w2[i], k) PROVE i \in 1 .. Len(w)
  BY <1>1, <1>3 DEF Dropped, Extended
<1>4. ASSUME NEW i \in 1 .. Len(w), Linked(received, w, k, i) PROVE Linked(received, w2, k, i)
  <2>1. \A j \in 1 .. i - 1 : j \in 1 .. Len(w)
    BY <1>1
  <2> QED  BY <1>2, <1>4, <2>1 DEF Linked
<1>5. AllUnderWay(sent, received, w, k) => AllUnderWay(sent, received, w2, k)
  BY <1>2 DEF AllUnderWay
<1>6. Carries(w2, "EOF", k) => Carries(w, "EOF", k) \/ o
  <2>1. CASE Dropped(w, w2, 0)
    BY <2>1, DroppedMessages DEF Carries
  <2>2. CASE Extended(w, w2, m)
    BY <2>2, CarriesMore
  <2> QED  BY <2>1, <2>2
<1>7. \A i \in 1 .. Len(w2) : IsData(w2[i], k) =>
        Regular(w2[i]) /\ received <= From(w2[i]) /\ UpTo(w2[i]) <= sent /\ Linked(received, w2, k, i)
  BY <1>2, <1>3, <1>4 DEF Flows
<1>8. \A i, j \in 1 .. Len(w2) :
        IsData(w2[i], k) /\ IsData(w2[j], k) /\ j < i => UpTo(w2[j]) <= From(w2[i])
  BY <1>2, <1>3 DEF Flows
<1>9. o2 \/ Carries(w2, "EOF", k) => AllUnderWay(sent, received, w2, k)
  BY <1>5, <1>6 DEF Flows
<1> QED  BY <1>7, <1>8, <1>9 DEF Flows

(* n bytes are sent, as long as the connection lives. *)
LEMMA FlowsMore ==
    ASSUME NEW w, NEW w2, NEW m \in MessageType, NEW k, NEW sent \in Nat, NEW received \in Nat,
           NEW o, NEW o2, NEW n \in Nat, Typed(w),
           Flows(sent, received, w, o, k),
           Extended(w, w2, m) \/ (Dropped(w, w2, 0) /\ ~o2), Extended(w, w2, m) => o,
           IsData(m, k), Len(m.data) = n, n \in 1 .. MaxPayload,
           \A i \in 1 .. n : m.data[i] = sent + i, ~Carries(w, "EOF", k)
    PROVE  Flows(sent + n, received, w2, o2, k)
<1>1. PICK l \in Nat : l = Len(w)
  BY DEF Dropped, Extended
<1>2. \A i \in 1 .. Len(w) : i \in 1 .. Len(w2) /\ w2[i] = w[i]
  BY DEF Dropped, Extended
<1>3. /\ Regular(m) /\ From(m) = sent /\ UpTo(m) = sent + n
  <2>1. 1 \in 1 .. n /\ n \in 1 .. n
    OBVIOUS
  <2>2. From(m) = sent /\ UpTo(m) = sent + n
    BY <2>1 DEF From, UpTo
  <2> QED  BY <2>2 DEF Regular
<1>4. ASSUME NEW i \in 1 .. Len(w), IsData(w[i], k)
      PROVE  /\ Regular(w2[i]) /\ received <= From(w2[i]) /\ UpTo(w2[i]) <= sent
             /\ UpTo(w2[i]) <= sent + n /\ Linked(received, w2, k, i)
  <2>1. /\ w2[i] = w[i] /\ Regular(w[i]) /\ received <= From(w[i]) /\ UpTo(w[i]) <= sent
        /\ Linked(received, w, k, i) /\ w[i] \in MessageType
    BY <1>2, <1>4 DEF Flows, Typed
  <2>2. \A j \in 1 .. i - 1 : j \in 1 .. Len(w) /\ w2[j] = w[j]
    BY <1>1, <1>2
  <2>3. Linked(received, w2, k, i)
    BY <2>1, <2>2 DEF Linked
  <2>4. UpTo(w[i]) \in Int
    BY <2>1, RegularFacts
  <2> QED  BY <2>1, <2>3, <2>4
<1>5. CASE Dropped(w, w2, 0) /\ ~o2
  <2>1. Len(w2) = Len(w) /\ ~Carries(w2, "EOF", k)
    BY <1>1, <1>5, DroppedMessages DEF Dropped, Carries
  <2>2. received <= sent + n
    BY DEF Flows
  <2>3. \A i, j \in 1 .. Len(w2) :
          IsData(w2[i], k) /\ IsData(w2[j], k) /\ j < i => UpTo(w2[j]) <= From(w2[i])
    BY <1>2, <2>1 DEF Flows
  <2> QED  BY <1>2, <1>4, <1>5, <2>1, <2>2, <2>3 DEF Flows
<1>6. CASE Extended(w, w2, m)
  <2>1. /\ Len(w2) = l + 1 /\ w2[l + 1] = m /\ l + 1 \in 1 .. Len(w2)
        /\ \A i \in 1 .. Len(w2) : i \in 1 .. Len(w) \/ i = l + 1
    BY <1>1, <1>6 DEF Extended
  <2>2. AllUnderWay(sent, received, w, k) /\ received <= sent
    BY <1>6 DEF Flows
  <2>3. Linked(received, w2, k, l + 1)
    <3>1. ASSUME NEW j \in 1 .. Len(w) PROVE j \in 1 .. (l + 1) - 1
      BY <1>1
    <3> QED  BY <1>2, <1>3, <2>1, <2>2, <3>1 DEF Linked, AllUnderWay
  <2>4. AllUnderWay(sent + n, received, w2, k)
    BY <1>3, <2>1 DEF AllUnderWay
  <2>5. \A i \in 1 .. Len(w2) : IsData(w2[i], k) =>
          /\ Regular(w2[i]) /\ received <= From(w2[i]) /\ UpTo(w2[i]) <= sent + n
          /\ Linked(received, w2, k, i)
    BY <1>2, <1>3, <1>4, <2>1, <2>2, <2>3
  <2>6. ASSUME NEW i \in 1 .. Len(w2), NEW j \in 1 .. Len(w2),
               IsData(w2[i], k), IsData(w2[j], k), j < i
        PROVE  UpTo(w2[j]) <= From(w2[i])
    <3>1. j \in 1 .. Len(w) /\ w2[j] = w[j]
      BY <1>1, <1>2, <2>1, <2>6
    <3>2. CASE i \in 1 .. Len(w)
      BY <1>2, <2>6, <3>1, <3>2 DEF Flows
    <3>3. CASE i = l + 1
      BY <1>3, <1>4, <2>1, <2>6, <3>1, <3>3
    <3> QED  BY <2>1, <3>2, <3>3
  <2>7. received <= sent + n
    BY <2>2
  <2> QED  BY <2>4, <2>5, <2>6, <2>7 DEF Flows
<1> QED  BY <1>5, <1>6

(* A message has been decoded: data of channel k have all been taken in. *)
LEMMA FlowsLess ==
    ASSUME NEW v, NEW v2, NEW k, NEW sent \in Nat, NEW received \in Nat, NEW received2 \in Nat,
           NEW o, NEW o2, NEW s, Typed(v), Flows(sent, received, v, o, k), Dropped(v, v2, s),
           received2 = (IF s = 1 /\ IsData(v[1], k) THEN UpTo(v[1]) ELSE received),
           o2 => o
    PROVE  Flows(sent, received2, v2, o2, k)
<1>1. PICK l \in Nat : l = Len(v) /\ Len(v2) = l - s /\ s \in {0, 1} /\ s <= l
  BY DEF Dropped
<1>2. \A i \in 1 .. Len(v2) : i + s \in 1 .. Len(v) /\ v2[i] = v[i + s]
  BY <1>1 DEF Dropped
<1>3. \A i \in 1 .. Len(v), j \in 1 .. Len(v) :
        IsData(v[i], k) /\ IsData(v[j], k) /\ j < i => UpTo(v[j]) <= From(v[i])
  BY DEF Flows
<1>4. ASSUME NEW i \in 1 .. Len(v), IsData(v[i], k)
      PROVE  /\ Regular(v[i]) /\ received <= From(v[i]) /\ UpTo(v[i]) <= sent
             /\ Linked(received, v, k, i) /\ From(v[i]) \in Int /\ UpTo(v[i]) \in Int
             /\ From(v[i]) < UpTo(v[i])
  <2>1. /\ Regular(v[i]) /\ received <= From(v[i]) /\ UpTo(v[i]) <= sent
        /\ Linked(received, v, k, i) /\ v[i] \in MessageType
    BY <1>4 DEF Flows, Typed
  <2> QED  BY <2>1, RegularFacts
<1> DEFINE head == s = 1 /\ IsData(v[1], k)
<1>5. head => 1 \in 1 .. Len(v) /\ received2 = UpTo(v[1])
  BY <1>1
<1>6. ~head => received2 = received
  OBVIOUS
<1>7. head => received <= From(v[1]) /\ From(v[1]) < received2 /\ received2 <= sent
  BY <1>4, <1>5
<1>8. head <=> s = 1 /\ IsData(v[1], k)
  OBVIOUS
<1> HIDE DEF head
<1>9. received2 <= sent /\ received <= received2
  <2>1. received <= sent
    BY DEF Flows
  <2>2. CASE head
    BY <1>4, <1>5, <1>7, <1>8, <2>2
  <2> QED  BY <1>6, <2>1, <2>2
<1>10. ASSUME NEW i \in 1 .. Len(v2), IsData(v2[i], k)
       PROVE  received2 <= From(v2[i]) /\ Linked(received2, v2, k, i)
  <2>1. i + s \in 1 .. Len(v) /\ v2[i] = v[i + s] /\ IsData(v[i + s], k)
    BY <1>2, <1>10
  <2>2. received <= From(v[i + s]) /\ Linked(received, v, k, i + s)
    BY <1>4, <2>1
  <2>3. received2 <= From(v[i + s])
    <3>1. CASE head
      <4>1. 1 \in 1 .. Len(v) /\ IsData(v[1], k) /\ 1 < i + s
        BY <1>1, <1>5, <1>8, <3>1
      <4>2. UpTo(v[1]) <= From(v[i + s])
        BY <1>3, <2>1, <4>1
      <4> QED  BY <1>5, <3>1, <4>2
    <3> QED  BY <1>6, <2>2, <3>1
  <2>4. CASE From(v[i + s]) = received
    <3>1. ~head
      BY <1>4, <1>5, <1>7, <1>8, <2>3, <2>4
    <3> QED  BY <1>6, <2>1, <2>3, <2>4, <3>1 DEF Linked
  <2>5. CASE \E j \in 1 .. (i + s) - 1 : IsData(v[j], k) /\ UpTo(v[j]) = From(v[i + s])
    <3>1. PICK j \in 1 .. (i + s) - 1 : IsData(v[j], k) /\ UpTo(v[j]) = From(v[i + s])
      BY <2>5
    <3>2. CASE s = 0
      <4>1. j \in 1 .. i - 1 /\ j \in 1 .. Len(v2) /\ j + s = j
        BY <1>1, <3>1, <3>2
      <4> QED  BY <1>2, <2>1, <2>3, <3>1, <4>1 DEF Linked
    <3>3. CASE s = 1 /\ j = 1
      <4>1. head
        BY <3>1, <3>3 DEF head
      <4> QED  BY <1>5, <2>1, <2>3, <3>1, <3>3, <4>1 DEF Linked
    <3>4. CASE s = 1 /\ j # 1
      <4>1. j - 1 \in 1 .. i - 1 /\ j - 1 \in 1 .. Len(v2) /\ (j - 1) + s = j
        BY <1>1, <3>1, <3>4
      <4>2. v2[j - 1] = v[j]
        BY <1>2, <4>1
      <4> QED  BY <2>1, <2>3, <3>1, <4>1, <4>2 DEF Linked
    <3> QED  BY <1>1, <3>2, <3>3, <3>4
  <2> QED  BY <2>2, <2>4, <2>5 DEF Linked
<1>11. ASSUME NEW i \in 1 .. Len(v2), NEW j \in 1 .. Len(v2),
              IsData(v2[i], k), IsData(v2[j], k), j < i
       PROVE  UpTo(v2[j]) <= From(v2[i])
  <2>1. j + s < i + s
    BY <1>1, <1>11
  <2> QED  BY <1>2, <1>3, <1>11, <2>1
<1>12. AllUnderWay(sent, received, v, k) => AllUnderWay(sent, received2, v2, k)
  <2>1. CASE received = sent
    <3>1. ~head
      BY <1>4, <1>5, <1>7, <1>8, <2>1
    <3> QED  BY <1>6, <2>1, <3>1 DEF AllUnderWay
  <2>2. ASSUME NEW j \in 1 .. Len(v), IsData(v[j], k), UpTo(v[j]) = sent
        PROVE  AllUnderWay(sent, received2, v2, k)
    <3>1. CASE s = 1 /\ j = 1
      BY <1>5, <2>2, <3>1 DEF AllUnderWay, head
    <3>2. CASE s = 0
      <4>1. j \in 1 .. Len(v2) /\ j + s = j
        BY <1>1, <3>2
      <4> QED  BY <1>2, <2>2, <4>1 DEF AllUnderWay
    <3>3. CASE s = 1 /\ j # 1
      <4>1. j - 1 \in 1 .. Len(v2) /\ (j - 1) + s = j
        BY <1>1, <3>3
      <4>2. v2[j - 1] = v[j]
        BY <1>2, <4>1
      <4> QED  BY <2>2, <4>1, <4>2 DEF AllUnderWay
    <3> QED  BY <1>1, <3>1, <3>2, <3>3
  <2> QED  BY <2>1, <2>2 DEF AllUnderWay
<1>13. Carries(v2, "EOF", k) => Carries(v, "EOF", k)
  BY DroppedMessages, CarriesOn
<1>14. \A i \in 1 .. Len(v2) : IsData(v2[i], k) => Regular(v2[i]) /\ UpTo(v2[i]) <= sent
  BY <1>2, <1>4
<1>15. o2 \/ Carries(v2, "EOF", k) => AllUnderWay(sent, received2, v2, k)
  BY <1>12, <1>13 DEF Flows
<1> QED  BY <1>9, <1>10, <1>11, <1>14, <1>15 DEF Flows

LEMMA DataFirstOn ==
    ASSUME NEW c, NEW d, NEW w, NEW w2, NEW s, NEW k, DataFirst(c, w, k), Dropped(w, w2, s),
           c.sentEOF => d.sentEOF
    PROVE  DataFirst(d, w2, k)
<1>1. Carries(w2, "EOF", k) => d.sentEOF
  BY DroppedMessages, CarriesOn DEF DataFirst
<1>2. ASSUME NEW i \in 1 .. Len(w2), NEW j \in 1 .. Len(w2),
             w2[j].op = "EOF", w2[j].src = k, j < i
      PROVE  ~IsData(w2[i], k)
  <2>1. /\ i + s \in 1 .. Len(w) /\ w2[i] = w[i + s]
        /\ j + s \in 1 .. Len(w) /\ w2[j] = w[j + s] /\ j + s < i + s
    BY <1>2 DEF Dropped
  <2> QED  BY <1>2, <2>1 DEF DataFirst
<1> QED  BY <1>1, <1>2 DEF DataFirst

LEMMA DataFirstMore ==
    ASSUME NEW c, NEW d, NEW w, NEW w2, NEW m, NEW k, DataFirst(c, w, k), Extended(w, w2, m),
           c.sentEOF => d.sentEOF, m.op = "EOF" /\ m.src = k => d.sentEOF,
           IsData(m, k) => ~Carries(w, "EOF", k)
    PROVE  DataFirst(d, w2, k)
<1>1. Carries(w2, "EOF", k) => d.sentEOF
  BY CarriesMore DEF DataFirst
<1>2. PICK n \in Nat : n = Len(w) /\ Len(w2) = n + 1
  BY DEF Extended
<1>3. ASSUME NEW i \in 1 .. Len(w2), NEW j \in 1 .. Len(w2),
             w2[j].op = "EOF", w2[j].src = k, j < i
      PROVE  ~IsData(w2[i], k)
  <2>1. j \in 1 .. Len(w) /\ (i \in 1 .. Len(w) \/ i = n + 1)
    BY <1>2, <1>3
  <2>2. w2[j] = w[j]
    BY <2>1 DEF Extended
  <2>3. CASE i \in 1 .. Len(w)
    BY <1>3, <2>1, <2>2, <2>3 DEF DataFirst, Extended
  <2>4. CASE i = n + 1
    <3>1. Carries(w, "EOF", k)
      BY <1>3, <2>1, <2>2 DEF Carries, Messages
    <3> QED  BY <1>2, <2>4, <3>1 DEF Extended
  <2> QED  BY <2>1, <2>3, <2>4
<1> QED  BY <1>1, <1>3 DEF DataFirst

(* What channel k has sent before and after a step that sends m, or would if *)
(* the connection were there.                                                *)
Sends(c, d, w, w2, m, k) ==
    \/ SameSent(c, d) /\ (Extended(w, w2, m) => ~(m.src = k /\ m.op \in {"Data", "EOF"}))
    \/ d.sent = c.sent /\ d.over = c.over /\ d.sentEOF /\ ~IsData(m, k)
    \/ /\ ~c.sentEOF /\ d.sentEOF = c.sentEOF /\ IsData(m, k)
       /\ d.sent = c.sent + Len(m.data)
       /\ ~d.over => /\ ~c.over /\ Len(m.data) \in 1 .. MaxPayload
                     /\ \A n \in 1 .. Len(m.data) : m.data[n] = c.sent + n

(* A channel that has just got to know its peer, or does not know it. *)
Fresh(c, ps, w2, k) ==
    /\ c.sent = 0 /\ ~c.gotEOF /\ InRow(c.got, c.readBuf)
    /\ c.remote # 0 => Received(c, ps) = 0
    /\ ~Carries(w2, "Data", k) /\ ~Carries(w2, "EOF", k)

(* What has been taken in of what is decoded. *)
TakenAs(cs, cs2, ps, v, s) ==
    \A r \in 1 .. Len(ps) : ps[r].remote # 0 /\ ~ps[r].over =>
        Received(ps[r], cs2) =
            IF s = 1 /\ IsData(v[1], r) THEN UpTo(v[1]) ELSE Received(ps[r], cs)

HeldAll(cs2, ps, v2, k) ==
    HasAll(cs2[k], ps[cs2[k].remote], v2) /\ Buffered(cs2[k], ps[cs2[k].remote])

LEMMA ReceivedNat ==
    ASSUME NEW c, NEW ps, ps[c.remote] \in ChannelType
    PROVE  Received(c, ps) \in Nat
  BY ChannelFields DEF Received

LEMMA FlowOn ==
    ASSUME NEW c \in ChannelType, NEW d, NEW w, NEW w2, NEW m \in MessageType, NEW k,
           NEW ps, c.remote # 0 => ps[c.remote] \in ChannelType,
           NEW o, NEW o2, Typed(w), Flow(c, Received(c, ps), w, o, k), DataFirst(c, w, k),
           Dropped(w, w2, 0) \/ Extended(w, w2, m), Extended(w, w2, m) => o,
           o2 => o, o2 => Extended(w, w2, m) \/ SameSent(c, d),
           Sends(c, d, w, w2, m, k), d.remote = c.remote
    PROVE  Flow(d, Received(d, ps), w2, o2, k) /\ DataFirst(d, w2, k)
<1> DEFINE received == Received(c, ps)
<1>1. Received(d, ps) = received
  BY DEF Received
<1>2. c.remote # 0 => received \in Nat
  BY ReceivedNat
<1>3. c.sent \in Nat
  BY ChannelFields
<1> HIDE DEF received
<1>4. CASE SameSent(c, d) /\ (Extended(w, w2, m) => ~(m.src = k /\ m.op \in {"Data", "EOF"}))
  <2>1. Extended(w, w2, m) => ~IsData(m, k) /\ ~(m.op = "EOF" /\ m.src = k)
    BY <1>4 DEF IsData
  <2>2. DataFirst(d, w2, k)
    BY <1>4, <2>1, DataFirstOn, DataFirstMore DEF SameSent
  <2>3. Flows(c.sent, received, w, o, k) => Flows(c.sent, received, w2, o2, k)
    BY <2>1, FlowsKeep
  <2> QED  BY <1>1, <1>4, <2>2, <2>3 DEF Flow, SameSent, received
<1>5. CASE d.sent = c.sent /\ d.over = c.over /\ d.sentEOF /\ ~IsData(m, k)
  <2>1. DataFirst(d, w2, k)
    BY <1>5, DataFirstOn, DataFirstMore
  <2>2. Flows(c.sent, received, w, o, k) => Flows(c.sent, received, w2, o2, k)
    BY <1>5, FlowsKeep
  <2> QED  BY <1>1, <1>5, <2>1, <2>2 DEF Flow, received
<1>6. CASE /\ ~c.sentEOF /\ d.sentEOF = c.sentEOF /\ IsData(m, k)
           /\ d.sent = c.sent + Len(m.data)
           /\ ~d.over => /\ ~c.over /\ Len(m.data) \in 1 .. MaxPayload
                         /\ \A n \in 1 .. Len(m.data) : m.data[n] = c.sent + n
  <2>1. ~Carries(w, "EOF", k)
    BY <1>6 DEF DataFirst
  <2>2. ~(m.op = "EOF" /\ m.src = k)
    BY <1>6 DEF IsData
  <2>3. DataFirst(d, w2, k)
    BY <1>6, <2>1, <2>2, DataFirstOn, DataFirstMore
  <2>4. ASSUME d.remote # 0, ~d.over PROVE Flows(d.sent, received, w2, o2, k)
    <3>1. PICK n \in Nat : n = Len(m.data)
      BY MessageFields
    <3>2. n \in 1 .. MaxPayload /\ \A i \in 1 .. n : m.data[i] = c.sent + i
      BY <1>6, <2>4, <3>1
    <3>3. Flows(c.sent, received, w, o, k) /\ received \in Nat
      BY <1>2, <1>6, <2>4 DEF Flow, received
    <3>4. ~SameSent(c, d)
      BY <1>3, <1>6, <3>1, <3>2 DEF SameSent
    <3>5. Extended(w, w2, m) \/ (Dropped(w, w2, 0) /\ ~o2)
      BY <3>4
    <3>6. IsData(m, k)
      BY <1>6
    <3>7. Flows(c.sent + n, received, w2, o2, k)
      BY <1>3, <2>1, <3>1, <3>2, <3>3, <3>5, <3>6, FlowsMore
    <3> QED  BY <1>6, <3>1, <3>7
  <2> QED  BY <1>1, <2>3, <2>4 DEF Flow
<1> QED  BY <1>4, <1>5, <1>6 DEF Sends

LEMMA FlowFresh ==
    ASSUME NEW c, NEW ps, NEW w2, NEW k, NEW o2, Fresh(c, ps, w2, k)
    PROVE  /\ Flow(c, Received(c, ps), w2, o2, k) /\ DataFirst(c, w2, k)
           /\ \A peer, v2 : HasAll(c, peer, v2) /\ Buffered(c, peer)
<1>1. \A i \in 1 .. Len(w2) : ~IsData(w2[i], k) /\ ~(w2[i].op = "EOF" /\ w2[i].src = k)
  BY DEF Fresh, Carries, Messages, IsData
<1>2. c.remote # 0 => Flows(c.sent, Received(c, ps), w2, o2, k)
  BY <1>1 DEF Fresh, Flows, AllUnderWay
<1>3. DataFirst(c, w2, k)
  BY <1>1 DEF Fresh, DataFirst
<1>4. \A peer, v2 : HasAll(c, peer, v2) /\ Buffered(c, peer)
  BY DEF Fresh, HasAll, Buffered
<1> QED  BY <1>2, <1>3, <1>4 DEF Flow

(* The peer of channel c, which d is after a step, sends something. *)
LEMMA HeldAllHeard ==
    ASSUME NEW p, NEW c, NEW d, NEW w, NEW w2, NEW m, HasAll(p, c, w), Buffered(p, c),
           Dropped(w, w2, 0) \/ Extended(w, w2, m),
           p.remote # 0 => Sends(c, d, w, w2, m, p.remote)
    PROVE  HasAll(p, d, w2) /\ Buffered(p, d)
<1>1. p.remote # 0 /\ ~d.over => ~c.over
  BY DEF Sends, SameSent
<1>2. Buffered(p, d)
  BY <1>1 DEF Buffered
<1>3. ASSUME p.gotEOF PROVE HasAll(p, d, w2)
  <2>1. p.remote # 0 /\ c.sentEOF /\ ~Carries(w, "Data", p.remote)
    BY <1>3 DEF HasAll
  <2>2. d.sentEOF /\ d.sent = c.sent /\ d.over = c.over /\ (Extended(w, w2, m) => ~IsData(m, p.remote))
    BY <2>1 DEF Sends, SameSent, IsData
  <2>3. ~Carries(w2, "Data", p.remote)
    <3>1. CASE Dropped(w, w2, 0)
      BY <2>1, <3>1, DroppedMessages, CarriesOn
    <3>2. CASE Extended(w, w2, m)
      BY <2>1, <2>2, <3>2, CarriesMore DEF IsData
    <3> QED  BY <3>1, <3>2
  <2> QED  BY <1>3, <2>2, <2>3 DEF HasAll
<1> QED  BY <1>2, <1>3 DEF HasAll

LEMMA CarriedOn ==
    ASSUME NEW cs, NEW ps, NEW w, NEW v, NEW o,
           Fit(cs, ps), Fit(ps, cs), Typed(w), Typed(v),
           Carried(cs, ps, w, v, o), Carried(ps, cs, v, w, o),
           NEW cs2, NEW w2, NEW v2, NEW m \in MessageType, NEW s, NEW o2,
           Dropped(w, w2, 0) \/ Extended(w, w2, m), Extended(w, w2, m) => o,
           Dropped(v, v2, s), o2 => o,
           \A k \in 1 .. Len(cs) :
              /\ Sends(cs[k], cs2[k], w, w2, m, k) /\ cs2[k] \in ChannelType
              /\ o2 => Extended(w, w2, m) \/ SameSent(cs[k], cs2[k]),
           TakenAs(cs, cs2, ps, v, s),
           \A k \in 1 .. Len(cs2) :
              \/ Fresh(cs2[k], ps, w2, k)
              \/ k \in 1 .. Len(cs) /\ cs2[k].remote = cs[k].remote /\ HeldAll(cs2, ps, v2, k)
    PROVE  Carried(cs2, ps, w2, v2, o2) /\ Carried(ps, cs2, v2, w2, o2)
<1>1. ASSUME NEW k \in 1 .. Len(cs2)
      PROVE  /\ Flow(cs2[k], Received(cs2[k], ps), w2, o2, k) /\ DataFirst(cs2[k], w2, k)
             /\ HasAll(cs2[k], ps[cs2[k].remote], v2) /\ Buffered(cs2[k], ps[cs2[k].remote])
  <2>1. CASE Fresh(cs2[k], ps, w2, k)
    BY <2>1, FlowFresh
  <2>2. CASE k \in 1 .. Len(cs) /\ cs2[k].remote = cs[k].remote /\ HeldAll(cs2, ps, v2, k)
    <3> DEFINE c == cs[k]
               d == cs2[k]
    <3>1. /\ Flow(c, Received(c, ps), w, o, k) /\ DataFirst(c, w, k)
          /\ c \in ChannelType /\ c.remote \in 0 .. Len(ps) /\ Len(ps) \in Nat
      BY <2>2 DEF Carried, Fit
    <3>2. c.remote # 0 => ps[c.remote] \in ChannelType
      BY <3>1 DEF Fit
    <3>3. /\ Sends(c, d, w, w2, m, k) /\ d.remote = c.remote
          /\ o2 => Extended(w, w2, m) \/ SameSent(c, d)
      BY <2>2
    <3> HIDE DEF c, d
    <3>4. Flow(d, Received(d, ps), w2, o2, k) /\ DataFirst(d, w2, k)
      BY <3>1, <3>2, <3>3, FlowOn
    <3> QED  BY <2>2, <3>4 DEF HeldAll, d
  <2> QED  BY <2>1, <2>2
<1>2. ASSUME NEW k \in 1 .. Len(ps)
      PROVE  /\ Flow(ps[k], Received(ps[k], cs2), v2, o2, k) /\ DataFirst(ps[k], v2, k)
             /\ HasAll(ps[k], cs2[ps[k].remote], w2) /\ Buffered(ps[k], cs2[ps[k].remote])
  <2> DEFINE p == ps[k]
             c == cs[ps[k].remote]
             d == cs2[ps[k].remote]
  <2>1. /\ Flow(p, Received(p, cs), v, o, k) /\ DataFirst(p, v, k)
        /\ HasAll(p, c, w) /\ Buffered(p, c)
        /\ p \in ChannelType /\ p.remote \in 0 .. Len(cs) /\ Len(cs) \in Nat
    BY DEF Carried, Fit
  <2>2. p.remote # 0 => c \in ChannelType /\ d \in ChannelType /\ Sends(c, d, w, w2, m, p.remote)
    BY <2>1 DEF Fit
  <2>3. HasAll(p, d, w2) /\ Buffered(p, d)
    BY <2>1, <2>2, HeldAllHeard
  <2>4. DataFirst(p, v2, k)
    BY <2>1, DataFirstOn
  <2>5. ASSUME p.remote # 0, ~p.over
        PROVE  Flows(p.sent, Received(p, cs2), v2, o2, k)
    <3>1. /\ Flows(p.sent, Received(p, cs), v, o, k)
          /\ Received(p, cs) \in Nat /\ Received(p, cs2) \in Nat
      BY <2>1, <2>2, <2>5, ReceivedNat DEF Flow
    <3>2. Received(p, cs2) = IF s = 1 /\ IsData(v[1], k) THEN UpTo(v[1]) ELSE Received(p, cs)
      BY <2>5 DEF TakenAs
    <3>3. p.sent \in Nat
      BY <2>1, ChannelFields
    <3> HIDE DEF p
    <3> QED  BY <3>1, <3>2, <3>3, FlowsLess
  <2> QED  BY <2>3, <2>4, <2>5 DEF Flow
<1> QED  BY <1>1, <1>2 DEF Carried

(* A channel takes no data in, or loses what it holds when it is shut down. *)
Kept(c, d) ==
    /\ SameNumbers(c, d) /\ SameTaken(c, d)
    /\ Settled(c) => Settled(d)
    /\ InRow(c.got, c.readBuf) => InRow(d.got, d.readBuf)

LEMMA KeptWhenSame ==
    ASSUME NEW c, NEW d, SameNumbers(c, d), SameTaken(c, d), SameBuffer(c, d),
           d.readyClosed = c.readyClosed
    PROVE  Kept(c, d)
  BY DEF Kept, SameTaken, SameBuffer, Settled

LEMMA KeptWhenShut ==
    ASSUME NEW c \in ChannelType, NEW d, d = ShutDown(c)
    PROVE  Kept(c, d)
<1>1. /\ SameNumbers(c, d) /\ SameTaken(c, d) /\ d.readyClosed = TRUE
      /\ d.got = c.got /\ d.readBuf = <<>>
  BY ShutDownFacts
<1>2. Settled(d)
  BY <1>1 DEF Settled
<1>3. InRow(c.got, c.readBuf) => InRow(d.got, d.readBuf)
  <2>1. Len(<<>>) = 0
    OBVIOUS
  <2> QED  BY <1>1, <2>1 DEF InRow
<1> QED  BY <1>1, <1>2, <1>3 DEF Kept

LEMMA KeptWhenRead ==
    ASSUME NEW c \in ChannelType, Local(c), NEW d \in ChannelType, ReadOn(c, d)
    PROVE  Kept(c, d)
<1>1. /\ SameNumbers(c, d) /\ SameTaken(c, d) /\ SameQueue(c, d)
      /\ Total(d.got, d.readBuf) = Total(c.got, c.readBuf)
      /\ InRow(c.got, c.readBuf) => InRow(d.got, d.readBuf)
      /\ c.gone => d.gone /\ d.got = c.got
      /\ d.gone /\ ~c.gone => d.readBuf = <<>>
  BY DEF ReadOn
<1>2. ASSUME Settled(c), d.gone, ~d.readyClosed PROVE Len(d.got) = Window - d.myWindow
  <2>1. d.myWindow = c.myWindow /\ d.readyClosed = c.readyClosed
    BY <1>1 DEF SameTaken, SameQueue
  <2>2. CASE c.gone
    BY <1>1, <1>2, <2>1, <2>2 DEF Settled
  <2>3. CASE ~c.gone
    <3>1. Total(c.got, c.readBuf) = Window - c.myWindow /\ d.readBuf = <<>>
      BY <1>1, <1>2, <2>3 DEF Local
    <3>2. d.got \in Seq(Nat) /\ Len(d.got) \in Nat /\ Len(<<>>) = 0
      BY ChannelFields
    <3>3. Total(d.got, <<>>) = Len(d.got)
      BY <3>2 DEF Total
    <3> QED  BY <1>1, <2>1, <3>1, <3>3
  <2> QED  BY <2>2, <2>3
<1> QED  BY <1>1, <1>2 DEF Kept, Settled

LEMMA HeldAllOn ==
    ASSUME NEW c, NEW d, NEW peer, NEW v, NEW v2, HasAll(c, peer, v), Buffered(c, peer),
           Kept(c, d), Messages(v2) \subseteq Messages(v)
    PROVE  HasAll(d, peer, v2) /\ Buffered(d, peer)
<1>1. ~Carries(v, "Data", c.remote) => ~Carries(v2, "Data", d.remote)
  BY CarriesOn DEF Kept, SameNumbers
<1> QED  BY <1>1 DEF HasAll, Buffered, Kept, SameNumbers, SameTaken

LEMMA TakenNothing ==
    ASSUME NEW cs, NEW ps, NEW cs2, NEW v, NEW s, Fit(ps, cs),
           \A k \in 1 .. Len(cs) : cs2[k].myWindow = cs[k].myWindow,
           s = 1 /\ v[1].op = "Data" => ps[v[1].src].over
    PROVE  TakenAs(cs, cs2, ps, v, s)
<1> SUFFICES ASSUME NEW r \in 1 .. Len(ps), ps[r].remote # 0, ~ps[r].over
             PROVE  Received(ps[r], cs2) =
                      IF s = 1 /\ IsData(v[1], r) THEN UpTo(v[1]) ELSE Received(ps[r], cs)
  BY DEF TakenAs
<1>1. ~(s = 1 /\ IsData(v[1], r))
  BY DEF IsData
<1>2. ps[r].remote \in 1 .. Len(cs)
  BY DEF Fit
<1>3. Received(ps[r], cs2) = Received(ps[r], cs)
  BY <1>2 DEF Received
<1> QED  BY <1>1, <1>3

(* The data that come next continue what channel c has taken in, and there is *)
(* room for them.                                                             *)
Continues(c, p, m) ==
    /\ Regular(m) /\ Len(m.data) <= c.myWindow /\ From(m) = Window - c.myWindow

LEMMA NextData ==
    ASSUME NEW cs, NEW ps, NEW v, NEW w, NEW o, NEW m, Typed(v), Fit(cs, ps), Fit(ps, cs),
           Carried(ps, cs, v, w, o), Len(v) \in Nat \ {0}, m = v[1], m.op = "Data",
           m.to \in 1 .. Len(cs), m.src \in 1 .. Len(ps), ps[m.src].remote = m.to,
           ~ps[m.src].over
    PROVE  Continues(cs[m.to], ps[m.src], m)
<1> DEFINE p == ps[m.src]
           c == cs[m.to]
<1>1. p \in ChannelType /\ c \in ChannelType /\ Local(p) /\ p.remote = m.to /\ ~p.over /\ m.to # 0
  BY DEF Fit
<1>2. Flows(p.sent, Received(p, cs), v, o, m.src)
  BY <1>1 DEF Carried, Flow
<1>3. /\ 1 \in 1 .. Len(v) /\ m \in MessageType /\ IsData(v[1], m.src)
      /\ Received(p, cs) = Window - c.myWindow
  BY <1>1 DEF Typed, IsData, Received
<1>4. /\ Regular(m) /\ Received(p, cs) <= From(m) /\ UpTo(m) <= p.sent
      /\ Linked(Received(p, cs), v, m.src, 1)
  BY <1>2, <1>3 DEF Flows
<1>5. From(m) = Received(p, cs)
  <2>1. ~ \E j \in 1 .. 1 - 1 : TRUE
    OBVIOUS
  <2> QED  BY <1>4, <2>1 DEF Linked
<1>6. p.sent <= Window /\ p.sent \in Nat /\ Window \in Nat /\ c.myWindow \in Int
  BY <1>1, ChannelFields DEF Local
<1>7. UpTo(m) = From(m) + Len(m.data) /\ Len(m.data) \in Nat /\ From(m) \in Int
  BY <1>3, <1>4, RegularFacts
<1>8. Len(m.data) <= c.myWindow
  <2>1. PICK l \in Nat, f \in Int, free \in Int, sent \in Nat :
          l = Len(m.data) /\ f = From(m) /\ free = c.myWindow /\ sent = p.sent
    BY <1>6, <1>7
  <2>2. f + l <= sent /\ sent <= Window /\ f = Window - free
    BY <1>3, <1>4, <1>5, <1>6, <1>7, <2>1
  <2>3. l <= free
    BY <1>6, <2>2
  <2> QED  BY <2>1, <2>3
<1> QED  BY <1>3, <1>4, <1>5, <1>8 DEF Continues

(* A channel has handled data that were sent within the window. *)
LEMMA HeldData ==
    ASSUME NEW e, NEW c \in ChannelType, NEW p, NEW m \in MessageType, Local(c),
           Continues(c, p, m), NEW d \in ChannelType, NEW threw,
           Handled(e, c, d, m.data, threw)
    PROVE  /\ TookIn(c, d, m.data) /\ threw = FALSE
           /\ InRow(c.got, c.readBuf) => InRow(d.got, d.readBuf)
           /\ Window - d.myWindow = UpTo(m)
<1>1. /\ Len(m.data) \in Nat \ {0} /\ Len(m.data) <= MaxPayload /\ Len(m.data) <= c.myWindow
      /\ From(m) = Window - c.myWindow /\ UpTo(m) = From(m) + Len(m.data) /\ From(m) \in Int
      /\ \A n \in 1 .. Len(m.data) : m.data[n] = From(m) + n
  BY RegularFacts DEF Continues, Regular
<1>2. MaxPayload \in Nat /\ Window \in Nat /\ c.myWindow \in Int
  BY WindowAssumption, ChannelFields
<1>3. m.data # <<>>
  <2>1. Len(<<>>) = 0
    OBVIOUS
  <2> QED  BY <1>1, <2>1
<1>4. TookIn(c, d, m.data) /\ threw = FALSE
  BY <1>1, <1>2, <1>3 DEF Handled
<1>5. d.myWindow = c.myWindow - Len(m.data)
  BY <1>4 DEF TookIn
<1>6. Window - d.myWindow = UpTo(m)
  BY <1>1, <1>2, <1>5
<1>7. InRow(c.got, c.readBuf) => InRow(d.got, d.readBuf)
  <2>1. ~c.gone => Total(c.got, c.readBuf) = From(m)
    BY <1>1 DEF Local
  <2>2. ~c.gone => \A n \in 1 .. Len(m.data) : m.data[n] = Total(c.got, c.readBuf) + n
    BY <1>1, <2>1
  <2> QED  BY <1>4, <2>2 DEF TookIn
<1> QED  BY <1>4, <1>6, <1>7

(* EOF is the next: all that the peer has sent has come. *)
LEMMA HeldEOF ==
    ASSUME NEW cs, NEW ps, NEW v, NEW w, NEW o, NEW m, Typed(v), Fit(cs, ps), Fit(ps, cs),
           Carried(cs, ps, w, v, o), Carried(ps, cs, v, w, o),
           Len(v) \in Nat \ {0}, m = v[1], m.op = "EOF",
           m.to \in 1 .. Len(cs), m.src \in 1 .. Len(ps),
           ps[m.src].remote = m.to, cs[m.to].remote = m.src,
           NEW v2, Dropped(v, v2, 1), NEW d, SameNumbers(cs[m.to], d),
           d.myWindow = cs[m.to].myWindow, d.gotEOF = TRUE, SameBuffer(cs[m.to], d),
           d.readyClosed = cs[m.to].readyClosed
    PROVE  HasAll(d, ps[d.remote], v2) /\ Buffered(d, ps[d.remote])
<1> DEFINE p == ps[m.src]
           c == cs[m.to]
<1>1. /\ p \in ChannelType /\ c \in ChannelType /\ Local(c) /\ p.remote = m.to /\ m.to # 0
      /\ c.remote = m.src /\ d.remote = m.src /\ m.src # 0
  BY DEF Fit, SameNumbers
<1>2. /\ DataFirst(p, v, m.src) /\ Flow(p, Received(p, cs), v, o, m.src)
      /\ HasAll(c, p, v) /\ Buffered(c, p)
  BY <1>1 DEF Carried
<1>3. 1 \in 1 .. Len(v) /\ v[1].op = "EOF" /\ v[1].src = m.src
  OBVIOUS
<1>4. Carries(v, "EOF", m.src)
  BY <1>3 DEF Carries, Messages
<1>5. \A i \in 1 .. Len(v) : ~IsData(v[i], m.src)
  <2>1. \A i \in 1 .. Len(v) : i = 1 \/ 1 < i
    OBVIOUS
  <2>2. ~IsData(v[1], m.src)
    BY <1>3 DEF IsData
  <2> QED  BY <1>2, <1>3, <2>1, <2>2 DEF DataFirst
<1>6. p.sentEOF /\ ~Carries(v2, "Data", d.remote)
  <2>1. ~Carries(v, "Data", m.src)
    BY <1>5 DEF Carries, Messages, IsData
  <2> QED  BY <1>1, <1>2, <1>4, <2>1, DroppedMessages, CarriesOn DEF DataFirst
<1>7. ~p.over => p.sent = Window - d.myWindow
  BY <1>1, <1>2, <1>4, <1>5 DEF Flow, Flows, AllUnderWay, Received
<1>8. Settled(d)
  <2>1. c.gone /\ ~c.readyClosed => c.gotEOF
    BY <1>1 DEF Local
  <2>2. c.gotEOF => Settled(c)
    BY <1>2 DEF HasAll
  <2> QED  BY <2>1, <2>2 DEF Settled, SameBuffer
<1>9. Buffered(d, p)
  BY <1>1, <1>2 DEF Buffered, SameBuffer
<1> QED  BY <1>1, <1>6, <1>7, <1>8, <1>9 DEF HasAll

LEMMA ListedOn ==
    ASSUME NEW list, NEW c, NEW ps, NEW w, NEW v, NEW isClosed, NEW k,
           Listed(list, c, ps, w, v, isClosed, k),
           NEW list2, NEW d, NEW w2, NEW v2, NEW isClosed2,
           list[k] = k => list2[k] = k \/ d.readyClosed,
           c.readyClosed => d.readyClosed,
           Refused(c, ps, w, v, k) => d.readyClosed \/ Refused(d, ps, w2, v2, k),
           d.readyClosed /\ ~isClosed2 => d.gotClose
    PROVE  Listed(list2, d, ps, w2, v2, isClosed2, k)
  BY DEF Listed

(* The other end hears what a step has sent. *)
LEMMA ClosingHeard ==
    ASSUME NEW cs, NEW ps, NEW w, NEW v, NEW list, NEW isClosed,
           Closing(list, ps, cs, v, w, isClosed), Fit(ps, cs),
           NEW cs2, NEW w2, NEW v2, NEW live, NEW alive,
           Fit(cs2, ps), Fit(ps, cs2), Spoken(cs2, w2), Both(cs2, ps, w2, v2, live, alive),
           \A j \in 1 .. Len(cs) : cs[j].sentClose => cs2[j].sentClose,
           NEW m, Messages(w2) \subseteq Messages(w) \cup {m}, Messages(v2) \subseteq Messages(v),
           m.op \in Talks => m.src \in 1 .. Len(cs) /\ ~cs[m.src].sentClose,
           m.op = "Failure" => Carries(v, "Open", m.to),
           \A k : NobodyFor(cs, k) /\ ~Carries(v, "Open", k) => NobodyFor(cs2, k)
    PROVE  Closing(list, ps, cs2, v2, w2, isClosed)
<1> SUFFICES ASSUME NEW k \in 1 .. Len(ps)
             PROVE  Over(ps[k], cs2, w2, k) /\ Listed(list, ps[k], cs2, v2, w2, isClosed, k)
  BY DEF Closing
<1>1. /\ Over(ps[k], cs, w, k) /\ Listed(list, ps[k], cs, v, w, isClosed, k)
      /\ ps[k].remote \in 0 .. Len(cs) /\ Len(cs) \in Nat
  BY DEF Closing, Fit
<1>2. Over(ps[k], cs2, w2, k)
  BY <1>1, OverHeard
<1>3. Refused(ps[k], cs, v, w, k) => Refused(ps[k], cs2, v2, w2, k)
  BY RefusedHeard
<1>4. Listed(list, ps[k], cs2, v2, w2, isClosed, k)
  BY <1>1, <1>3 DEF Listed
<1> QED  BY <1>2, <1>4

-----------------------------------------------------------------------------
(* The ends of a connection *)

PairedAt(e) ==
    LET y == Other(e) IN
    /\ Both(chan[e], chan[y], wire[e], wire[y], Alive(e), Alive(y))
    /\ Closing(channels[e], chan[e], chan[y], wire[e], wire[y], closed[e])
    /\ Closing(channels[y], chan[y], chan[e], wire[y], wire[e], closed[y])
    /\ Carried(chan[e], chan[y], wire[e], wire[y], IsOpen)
    /\ Carried(chan[y], chan[e], wire[y], wire[e], IsOpen)

LEMMA PairedAtOne == \A e \in Ends : Paired <=> PairedAt(e)
<1> SUFFICES ASSUME NEW e \in Ends PROVE Paired <=> PairedAt(e)
  OBVIOUS
<1>1. PICK y \in Ends : y = Other(e) /\ y # e /\ \A x \in Ends : x = e \/ x = y
  BY OtherEnd
<1>2. ASSUME Paired PROVE PairedAt(e)
  BY <1>1, <1>2 DEF Paired, PairedAt, Both
<1>3. ASSUME PairedAt(e) PROVE Paired
  <2> SUFFICES ASSUME NEW x \in Ends, NEW z \in Ends, x # z
               PROVE  /\ Numbered(chan[x], chan[z], wire[x], wire[z], Alive(z))
                      /\ Closing(channels[x], chan[x], chan[z], wire[x], wire[z], closed[x])
                      /\ Carried(chan[x], chan[z], wire[x], wire[z], IsOpen)
    BY DEF Paired
  <2>1. (x = e /\ z = y) \/ (x = y /\ z = e)
    BY <1>1
  <2> QED  BY <1>1, <1>3, <2>1 DEF PairedAt, Both
<1> QED  BY <1>2, <1>3

LEMMA PairedAtNext == (\A e \in Ends : Paired <=> PairedAt(e))'
  BY PairedAtOne, PTL

LEMMA SoundFits ==
    Sound => \A e \in Ends :
        /\ Fit(chan[e], chan[Other(e)]) /\ Spoken(chan[e], wire[e]) /\ Typed(wire[e])
        /\ Len(wire[e]) \in Nat
<1> SUFFICES ASSUME Sound, NEW e \in Ends
             PROVE  /\ Fit(chan[e], chan[Other(e)]) /\ Spoken(chan[e], wire[e]) /\ Typed(wire[e])
                    /\ Len(wire[e]) \in Nat
  OBVIOUS
<1>1. Shape /\ Refers(e) /\ Quiet(e) /\ Other(e) \in Ends
  BY OtherEnd DEF Sound, Refer, AllQuiet
<1>2. /\ chan[e] \in Seq(ChannelType) /\ Len(chan[e]) \in Nat
      /\ \A k \in 1 .. Len(chan[e]) : chan[e][k] \in ChannelType
      /\ Len(chan[Other(e)]) \in Nat
  BY <1>1, ChanFacts
<1>3. Typed(wire[e]) /\ Len(wire[e]) \in Nat
  BY <1>1, WireFacts DEF Typed
<1>4. \A k \in 1 .. Len(chan[e]) : Local(chan[e][k]) /\ chan[e][k].remote \in 0 .. Len(chan[Other(e)])
  BY <1>1 DEF Sound, Locals, Refers, RemoteRefers
<1>5. Fit(chan[e], chan[Other(e)])
  BY <1>2, <1>4 DEF Fit
<1>6. Ordered(wire[e])
  BY <1>1 DEF Quiet, Ordered
<1>7. ASSUME NEW i \in 1 .. Len(wire[e])
      PROVE  /\ wire[e][i] \in MessageType
             /\ wire[e][i].src \in 0 .. Len(chan[e])
             /\ (wire[e][i].src = 0 <=> wire[e][i].op = "Failure")
             /\ wire[e][i].op = "Close" => chan[e][wire[e][i].src].sentClose
  BY <1>1, <1>3 DEF Quiet, Typed
<1>8. Spoken(chan[e], wire[e])
  BY <1>6, <1>7 DEF Spoken, Messages
<1> QED  BY <1>3, <1>5, <1>8

LEMMA SoundFitsNext ==
    Sound' => \A e \in Ends :
        /\ Fit(chan'[e], chan'[Other(e)]) /\ Spoken(chan'[e], wire'[e]) /\ Typed(wire'[e])
        /\ Len(wire'[e]) \in Nat
<1>1. (Sound => \A e \in Ends :
        /\ Fit(chan[e], chan[Other(e)]) /\ Spoken(chan[e], wire[e]) /\ Typed(wire[e])
        /\ Len(wire[e]) \in Nat)'
  BY SoundFits, PTL
<1> QED  BY <1>1 DEF Other

(* e decodes s messages and may send m. *)
Wires(e, m, s) == (Shorter(e, 0) \/ Longer(e, m)) /\ Shorter(Other(e), s)

LEMMA WiresFacts ==
    ASSUME Shape, NEW e \in Ends, NEW m, NEW s, Wires(e, m, s)
    PROVE  /\ Dropped(wire[e], wire'[e], 0) \/ Extended(wire[e], wire'[e], m)
           /\ Extended(wire[e], wire'[e], m) <=> Longer(e, m)
           /\ Dropped(wire[Other(e)], wire'[Other(e)], s)
           /\ Extended(wire[e], wire'[e], m) => IsOpen
           /\ s = 1 => Len(wire[Other(e)]) \in Nat \ {0}
<1>1. Len(wire[e]) \in Nat /\ Len(wire[Other(e)]) \in Nat
  BY WireFacts, OtherEnd
<1>2. Dropped(wire[Other(e)], wire'[Other(e)], s)
  BY <1>1 DEF Wires, Shorter, Dropped
<1>3. CASE Longer(e, m)
  <2>1. Extended(wire[e], wire'[e], m)
    BY <1>1, <1>3 DEF Longer, Extended
  <2>2. IsOpen
    BY <1>3, OtherEnd DEF Longer, IsOpen
  <2> QED  BY <1>1, <1>2, <1>3, <2>1, <2>2 DEF Dropped
<1>4. CASE ~Longer(e, m)
  <2>1. Dropped(wire[e], wire'[e], 0) /\ Len(wire'[e]) = Len(wire[e])
    BY <1>1, <1>4 DEF Wires, Shorter, Dropped
  <2>2. ~Extended(wire[e], wire'[e], m)
    BY <1>1, <2>1 DEF Extended
  <2> QED  BY <1>1, <1>2, <1>4, <2>1, <2>2 DEF Dropped
<1> QED  BY <1>3, <1>4

(* Nothing happens at the other end, and what has ended stays ended. *)
Still(e) ==
    /\ chan'[Other(e)] = chan[Other(e)] /\ channels'[Other(e)] = channels[Other(e)]
    /\ closed'[Other(e)] = closed[Other(e)] /\ loop'[Other(e)] = loop[Other(e)]
    /\ closed[e] => closed'[e]
    /\ loop[e] = "dead" => loop'[e] = "dead"

LEMMA StillFacts ==
    ASSUME NEW e \in Ends, Still(e)
    PROVE  /\ Alive(e)' => Alive(e)
           /\ Alive(Other(e))' <=> Alive(Other(e))
           /\ IsOpen' => IsOpen
<1>1. Alive(e)' => Alive(e)
  BY DEF Still, Alive
<1>2. Alive(Other(e))' <=> Alive(Other(e))
  BY DEF Still, Alive, Other
<1>3. IsOpen' => IsOpen
  BY OtherEnd DEF Still, IsOpen
<1> QED  BY <1>1, <1>2, <1>3

(* What a step that gives out no number, in which e may send m, leaves of its *)
(* channel k.                                                                 *)
Evolves(e, k, m) ==
    LET y == Other(e)
        c == chan[e][k]
        d == chan'[e][k]
    IN  /\ Keeps(c, d) /\ (d.myWindow = c.myWindow \/ chan[y][c.remote].remote # 0)
        /\ c.sentClose => d.sentClose
        /\ Sends(c, d, wire[e], wire'[e], m, k)
        /\ IsOpen' => Longer(e, m) \/ SameSent(c, d)
        /\ HeldAll(chan'[e], chan[y], wire'[y], k)
        /\ Over(d, chan[y], wire'[y], k)
        /\ Listed(channels'[e], d, chan[y], wire'[e], wire'[y], closed'[e], k)

LEMMA PairedOn ==
    ASSUME Sound, Sound', NEW e \in Ends, PairedAt(e), Still(e),
           NEW m \in MessageType, NEW s, Wires(e, m, s),
           Longer(e, m) => Talk(chan[e], m) /\ ~chan[e][m.src].sentClose,
           s = 1 /\ wire[Other(e)][1].op = "Confirm" => ~Alive(e)',
           Len(chan'[e]) = Len(chan[e]), \A k \in 1 .. Len(chan[e]) : Evolves(e, k, m),
           TakenAs(chan[e], chan'[e], chan[Other(e)], wire[Other(e)], s)
    PROVE  PairedAt(e)'
<1>1. PICK y \in Ends : y = Other(e) /\ e = Other(y)
  BY OtherEnd
<1>2. PICK cs, ps, w, v, cs2, w2, v2, live, alive, live2, o, o2 :
        /\ cs = chan[e] /\ ps = chan[y] /\ w = wire[e] /\ v = wire[y]
        /\ cs2 = chan'[e] /\ w2 = wire'[e] /\ v2 = wire'[y]
        /\ live = Alive(e) /\ alive = Alive(y) /\ live2 = Alive(e)' /\ o = IsOpen /\ o2 = IsOpen'
  OBVIOUS
<1>3. /\ Fit(cs, ps) /\ Fit(ps, cs) /\ Spoken(cs, w) /\ Spoken(ps, v) /\ Typed(w) /\ Typed(v)
  BY <1>1, <1>2, SoundFits
<1>4. chan'[y] = ps /\ Fit(cs2, ps) /\ Fit(ps, cs2) /\ Spoken(cs2, w2) /\ Spoken(ps, v2)
  BY <1>1, <1>2, SoundFitsNext DEF Still
<1>5. (live2 => live) /\ (o2 => o) /\ Alive(y)' = alive
  BY <1>1, <1>2, StillFacts DEF Alive
<1>6. /\ Dropped(w, w2, 0) \/ Extended(w, w2, m)
      /\ Extended(w, w2, m) <=> Longer(e, m)
      /\ Dropped(v, v2, s)
      /\ Extended(w, w2, m) => o
  BY <1>1, <1>2, WiresFacts DEF Sound
<1>7. /\ Both(cs, ps, w, v, live, alive)
      /\ Closing(channels[e], cs, ps, w, v, closed[e])
      /\ Closing(channels[y], ps, cs, v, w, closed[y])
      /\ Carried(cs, ps, w, v, o) /\ Carried(ps, cs, v, w, o)
  BY <1>1, <1>2 DEF PairedAt
<1>8. /\ Len(cs2) = Len(cs)
      /\ s = 1 /\ v[1].op = "Confirm" => ~live2
      /\ TakenAs(cs, cs2, ps, v, s)
      /\ Extended(w, w2, m) => Talk(cs, m) /\ ~cs[m.src].sentClose
  BY <1>1, <1>2, <1>6
<1>9. ASSUME NEW k \in 1 .. Len(cs)
      PROVE  /\ Keeps(cs[k], cs2[k])
             /\ cs2[k].myWindow = cs[k].myWindow \/ ps[cs[k].remote].remote # 0
             /\ cs[k].sentClose => cs2[k].sentClose
             /\ Sends(cs[k], cs2[k], w, w2, m, k)
             /\ o2 => Extended(w, w2, m) \/ SameSent(cs[k], cs2[k])
             /\ HeldAll(cs2, ps, v2, k)
             /\ Over(cs2[k], ps, v2, k)
             /\ Listed(channels'[e], cs2[k], ps, w2, v2, closed'[e], k)
  BY <1>1, <1>2, <1>6 DEF Evolves
<1>10. Both(cs2, ps, w2, v2, live2, alive)
  <2>1. Talked(cs, w, w2, m)
    BY <1>6, <1>8 DEF Talked
  <2>2. \A k \in 1 .. Len(cs) :
          /\ Keeps(cs[k], cs2[k])
          /\ cs2[k].myWindow = cs[k].myWindow \/ ps[cs[k].remote].remote # 0
    BY <1>9
  <2> QED  BY ONLY <1>3, <1>5, <1>6, <1>7, <1>8, <2>1, <2>2, NumberedOn
<1>11. Closing(channels'[e], cs2, ps, w2, v2, closed'[e])
  BY <1>8, <1>9 DEF Closing
<1>12. Closing(channels[y], ps, cs2, v2, w2, closed[y])
  <2>1. /\ \A j \in 1 .. Len(cs) : cs[j].sentClose => cs2[j].sentClose
        /\ Messages(v2) \subseteq Messages(v)
    BY <1>6, <1>9, DroppedMessages
  <2>2. \A k : NobodyFor(cs, k) /\ ~Carries(v, "Open", k) => NobodyFor(cs2, k)
    BY <1>8, <1>9 DEF NobodyFor, Keeps, SameNumbers
  <2>3. CASE Extended(w, w2, m)
    <3>1. Messages(w2) \subseteq Messages(w) \cup {m}
      BY <2>3, ExtendedMessages
    <3>2. m.op # "Failure" /\ m.src \in 1 .. Len(cs) /\ ~cs[m.src].sentClose
      BY <1>8, <2>3 DEF Talk
    <3> QED  BY ONLY <1>3, <1>4, <1>7, <1>10, <2>1, <2>2, <3>1, <3>2, ClosingHeard
  <2>4. CASE Dropped(w, w2, 0)
    <3>1. PICK h : h = [op |-> "Open"]
      OBVIOUS
    <3>2. h.op \notin Talks /\ h.op # "Failure"
      BY <3>1 DEF Talks
    <3>3. Messages(w2) \subseteq Messages(w) \cup {h}
      BY <2>4, DroppedMessages
    <3> QED  BY ONLY <1>3, <1>4, <1>7, <1>10, <2>1, <2>2, <3>2, <3>3, ClosingHeard
  <2> QED  BY <1>6, <2>3, <2>4
<1>13. Carried(cs2, ps, w2, v2, o2) /\ Carried(ps, cs2, v2, w2, o2)
  <2>1. \A k \in 1 .. Len(cs) :
          /\ Sends(cs[k], cs2[k], w, w2, m, k) /\ cs2[k] \in ChannelType
          /\ o2 => Extended(w, w2, m) \/ SameSent(cs[k], cs2[k])
    BY <1>4, <1>8, <1>9 DEF Fit
  <2>2. \A k \in 1 .. Len(cs2) :
          \/ Fresh(cs2[k], ps, w2, k)
          \/ k \in 1 .. Len(cs) /\ cs2[k].remote = cs[k].remote /\ HeldAll(cs2, ps, v2, k)
    BY <1>8, <1>9 DEF Keeps, SameNumbers
  <2>3. m \in MessageType
    OBVIOUS
  <2> QED  BY ONLY <1>3, <1>5, <1>6, <1>7, <1>8, <2>1, <2>2, <2>3, CarriedOn
<1>14. channels'[y] = channels[y] /\ closed'[y] = closed[y] /\ Other(e)' = y
  BY <1>1 DEF Still, Other
<1> QED  BY <1>1, <1>2, <1>4, <1>5, <1>10, <1>11, <1>12, <1>13, <1>14 DEF PairedAt, Other

LEMMA SameKept ==
    ASSUME NEW c
    PROVE  Keeps(c, c) /\ Kept(c, c) /\ SameSent(c, c)
  BY DEF Keeps, Kept, SameNumbers, SameTaken, SameSent

LEMMA EvolvesAs ==
    ASSUME Sound, NEW e \in Ends, PairedAt(e), NEW m, NEW s, Wires(e, m, s),
           NEW k \in 1 .. Len(chan[e]), NEW c, NEW d, c = chan[e][k], d = chan'[e][k],
           Keeps(c, d), d.myWindow = c.myWindow \/ chan[Other(e)][c.remote].remote # 0,
           c.sentClose => d.sentClose, Sends(c, d, wire[e], wire'[e], m, k),
           IsOpen' => Longer(e, m) \/ SameSent(c, d),
           HeldAll(chan'[e], chan[Other(e)], wire'[Other(e)], k),
           d.gotClose = c.gotClose \/ Over(d, chan[Other(e)], wire'[Other(e)], k),
           Longer(e, m) => m.op # "Open",
           channels[e][k] = k => channels'[e][k] = k \/ d.readyClosed,
           c.readyClosed => d.readyClosed,
           c.remote = 0 /\ OpenFails(c) => d.readyClosed \/ OpenFails(d),
           d.readyClosed /\ ~closed'[e] => d.gotClose
    PROVE  Evolves(e, k, m)
<1>1. /\ Over(c, chan[Other(e)], wire[Other(e)], k)
      /\ Listed(channels[e], c, chan[Other(e)], wire[e], wire[Other(e)], closed[e], k)
  BY DEF PairedAt, Closing
<1>2. /\ Dropped(wire[e], wire'[e], 0) \/ Extended(wire[e], wire'[e], m)
      /\ Extended(wire[e], wire'[e], m) <=> Longer(e, m)
      /\ Messages(wire'[Other(e)]) \subseteq Messages(wire[Other(e)])
  BY WiresFacts, DroppedMessages DEF Sound
<1>3. Over(d, chan[Other(e)], wire'[Other(e)], k)
  BY <1>1, <1>2, OverOn DEF Keeps, SameNumbers
<1>4. Carries(wire'[e], "Open", k) => Carries(wire[e], "Open", k)
  <2>1. CASE Dropped(wire[e], wire'[e], 0)
    BY <2>1, DroppedMessages, CarriesOn
  <2>2. CASE Extended(wire[e], wire'[e], m)
    BY <1>2, <2>2, CarriesMore
  <2> QED  BY <1>2, <2>1, <2>2
<1>5. Refused(c, chan[Other(e)], wire[e], wire[Other(e)], k) =>
        d.readyClosed \/ Refused(d, chan[Other(e)], wire'[e], wire'[Other(e)], k)
  <2>1. Refused(c, chan[Other(e)], wire[e], wire[Other(e)], k) => c.remote = 0 /\ OpenFails(c)
    BY DEF Refused
  <2>2. d.remote = c.remote
    BY DEF Keeps, SameNumbers
  <2> QED  BY <1>2, <1>4, <2>1, <2>2, RefusedOn
<1>6. Listed(channels'[e], d, chan[Other(e)], wire'[e], wire'[Other(e)], closed'[e], k)
  BY <1>1, <1>5, ListedOn
<1> QED  BY <1>3, <1>6 DEF Evolves

(* What a channel keeps of its bytes it keeps when no data come in. *)
LEMMA HeldKept ==
    ASSUME Sound, NEW e \in Ends, PairedAt(e), NEW m, NEW s, Wires(e, m, s),
           NEW k \in 1 .. Len(chan[e]), Kept(chan[e][k], chan'[e][k])
    PROVE  HeldAll(chan'[e], chan[Other(e)], wire'[Other(e)], k)
<1> DEFINE c == chan[e][k]
           d == chan'[e][k]
           peer == chan[Other(e)][c.remote]
<1>1. HasAll(c, peer, wire[Other(e)]) /\ Buffered(c, peer)
  BY DEF PairedAt, Carried
<1>2. Messages(wire'[Other(e)]) \subseteq Messages(wire[Other(e)])
  BY WiresFacts, DroppedMessages DEF Sound
<1>3. d.remote = c.remote
  BY DEF Kept, SameNumbers
<1>4. HasAll(d, peer, wire'[Other(e)]) /\ Buffered(d, peer)
  BY <1>1, <1>2, HeldAllOn
<1> QED  BY <1>3, <1>4 DEF HeldAll

(* A channel that does not send data, and takes none in. *)
LEMMA EvolvesMildly ==
    ASSUME Sound, NEW e \in Ends, PairedAt(e), NEW m, NEW s, Wires(e, m, s),
           NEW k \in 1 .. Len(chan[e]), NEW c, NEW d, c = chan[e][k], d = chan'[e][k],
           Kept(c, d), SameSent(c, d), c.sentClose => d.sentClose,
           c.remote = 0 => d.sentClose = c.sentClose /\ d.gotClose = c.gotClose,
           d.gotClose = c.gotClose \/ Over(d, chan[Other(e)], wire'[Other(e)], k),
           Longer(e, m) => m.op # "Open" /\ ~(m.src = k /\ m.op \in {"Data", "EOF"}),
           channels[e][k] = k => channels'[e][k] = k \/ d.readyClosed,
           c.readyClosed => d.readyClosed,
           c.remote = 0 /\ OpenFails(c) => d.readyClosed \/ OpenFails(d),
           d.readyClosed /\ ~closed'[e] => d.gotClose
    PROVE  Evolves(e, k, m)
<1>1. Extended(wire[e], wire'[e], m) <=> Longer(e, m)
  BY WiresFacts DEF Sound
<1>2. Sends(c, d, wire[e], wire'[e], m, k)
  BY <1>1 DEF Sends
<1>3. Keeps(c, d) /\ d.myWindow = c.myWindow
  BY DEF Keeps, Kept, SameTaken
<1>4. HeldAll(chan'[e], chan[Other(e)], wire'[Other(e)], k)
  BY HeldKept
<1> QED  BY <1>2, <1>3, <1>4, EvolvesAs

LEMMA EvolvesSame ==
    ASSUME Sound, NEW e \in Ends, PairedAt(e), NEW m, NEW s, Wires(e, m, s),
           NEW k \in 1 .. Len(chan[e]), chan'[e][k] = chan[e][k],
           Longer(e, m) => m.op # "Open" /\ ~(m.src = k /\ m.op \in {"Data", "EOF"}),
           channels'[e][k] = channels[e][k], closed[e] => closed'[e]
    PROVE  Evolves(e, k, m)
<1>1. PICK c : c = chan[e][k]
  OBVIOUS
<1>2. c.readyClosed /\ ~closed'[e] => c.gotClose
  BY <1>1 DEF PairedAt, Closing, Listed
<1> QED  BY <1>1, <1>2, SameKept, EvolvesMildly

(* A step changes channel k, from which it may send m. *)
LEMMA PairedPut ==
    ASSUME Sound, Sound', NEW e \in Ends, PairedAt(e), UNCHANGED closed,
           loop'[Other(e)] = loop[Other(e)], loop[e] = "dead" => loop'[e] = "dead",
           NEW k \in 1 .. Len(chan[e]), NEW d \in ChannelType, Put(e, k, d),
           channels'[Other(e)] = channels[Other(e)],
           \A j \in 1 .. Len(chan[e]) : j # k => channels'[e][j] = channels[e][j],
           NEW m \in MessageType, NEW s, Wires(e, m, s),
           Longer(e, m) => Talk(chan[e], m) /\ ~chan[e][k].sentClose /\ m.src = k,
           s = 1 => wire[Other(e)][1].op # "Confirm",
           TakenAs(chan[e], chan'[e], chan[Other(e)], wire[Other(e)], s),
           Evolves(e, k, m)
    PROVE  PairedAt(e)'
<1>1. /\ Len(chan'[e]) = Len(chan[e]) /\ Len(chan'[Other(e)]) = Len(chan[Other(e)])
      /\ \A j \in 1 .. Len(chan[e]) : j # k => chan'[e][j] = chan[e][j]
  BY PutFacts, OtherEnd DEF Sound
<1>2. chan'[Other(e)] = chan[Other(e)]
  <2>1. chan \in [Ends -> Seq(ChannelType)] /\ Other(e) \in Ends /\ Other(e) # e
    BY OtherEnd DEF Sound, Shape
  <2> QED  BY <2>1 DEF Put
<1>3. Still(e)
  BY <1>2 DEF Still
<1>4. ASSUME NEW j \in 1 .. Len(chan[e]) PROVE Evolves(e, j, m)
  <2>1. CASE j = k
    BY <2>1
  <2>2. CASE j # k
    <3>1. Longer(e, m) => m.op # "Open" /\ ~(m.src = j /\ m.op \in {"Data", "EOF"})
      BY <2>2 DEF Talk
    <3> QED  BY <1>1, <2>2, <3>1, EvolvesSame
  <2> QED  BY <2>1, <2>2
<1> QED  BY <1>1, <1>3, <1>4, PairedOn

(* A step that leaves the channels alone. *)
LEMMA PairedAlone ==
    ASSUME Sound, Sound', NEW e \in Ends, PairedAt(e), UNCHANGED <<closed, chan, channels>>,
           loop'[Other(e)] = loop[Other(e)], loop[e] = "dead" => loop'[e] = "dead",
           NEW s, Shorter(e, 0), Shorter(Other(e), s),
           s = 1 /\ wire[Other(e)][1].op = "Confirm" => loop'[e] = "dead",
           s = 1 /\ wire[Other(e)][1].op = "Data" => chan[Other(e)][wire[Other(e)][1].src].over
    PROVE  PairedAt(e)'
<1>1. PICK m : m = [op |-> "Open", ok |-> TRUE, src |-> 0, to |-> 0, data |-> <<>>]
  OBVIOUS
<1>2. m \in MessageType
  <2>1. <<>> \in Seq(Nat)
    OBVIOUS
  <2> QED  BY <1>1, <2>1 DEF MessageType, Ops
<1>3. Wires(e, m, s) /\ ~Longer(e, m)
  <2>1. Len(wire[e]) \in Nat
    BY WireFacts DEF Sound
  <2> QED  BY <2>1 DEF Wires, Shorter, Longer
<1>4. Still(e)
  BY DEF Still
<1>5. \A k \in 1 .. Len(chan[e]) : Evolves(e, k, m)
  BY <1>3, EvolvesSame
<1>6. TakenAs(chan[e], chan'[e], chan[Other(e)], wire[Other(e)], s)
  BY TakenNothing, SoundFits, OtherEnd
<1>7. s = 1 /\ wire[Other(e)][1].op = "Confirm" => ~Alive(e)'
  BY DEF Alive
<1> QED  BY <1>2, <1>3, <1>4, <1>5, <1>6, <1>7, PairedOn


-----------------------------------------------------------------------------
(* The steps *)

(* A message that is not sent. *)
LEMMA Silent ==
    ASSUME Sound, NEW e \in Ends, NEW s, Shorter(e, 0), Shorter(Other(e), s)
    PROVE  \E m \in MessageType : Wires(e, m, s) /\ ~Longer(e, m)
<1>1. PICK m : m = [op |-> "Open", ok |-> TRUE, src |-> 0, to |-> 0, data |-> <<>>]
  OBVIOUS
<1>2. m \in MessageType
  <2>1. <<>> \in Seq(Nat)
    OBVIOUS
  <2> QED  BY <1>1, <2>1 DEF MessageType, Ops
<1>3. Len(wire[e]) \in Nat
  BY WireFacts DEF Sound
<1>4. Wires(e, m, s) /\ ~Longer(e, m)
  BY <1>3 DEF Wires, Shorter, Longer
<1> QED  BY <1>2, <1>4

(* Channel c becomes d, which does not take data in nor send data. *)
Mild(e, k, c, d) ==
    /\ Kept(c, d) /\ SameSent(c, d) /\ (c.sentClose => d.sentClose)
    /\ c.remote = 0 => d.sentClose = c.sentClose /\ d.gotClose = c.gotClose
    /\ d.gotClose = c.gotClose \/ Over(d, chan[Other(e)], wire'[Other(e)], k)
    /\ channels[e][k] = k => channels'[e][k] = k \/ d.readyClosed
    /\ c.readyClosed => d.readyClosed
    /\ c.remote = 0 /\ OpenFails(c) => d.readyClosed \/ OpenFails(d)
    /\ d.readyClosed /\ ~closed'[e] => d.gotClose

LEMMA PairedMild ==
    ASSUME Sound, Sound', NEW e \in Ends, PairedAt(e), UNCHANGED closed,
           loop'[Other(e)] = loop[Other(e)], loop[e] = "dead" => loop'[e] = "dead",
           NEW k \in 1 .. Len(chan[e]), NEW d \in ChannelType, Put(e, k, d),
           channels'[Other(e)] = channels[Other(e)],
           \A j \in 1 .. Len(chan[e]) : j # k => channels'[e][j] = channels[e][j],
           NEW m \in MessageType, NEW s, Wires(e, m, s),
           Longer(e, m) => /\ Talk(chan[e], m) /\ ~chan[e][k].sentClose /\ m.src = k
                           /\ m.op = "Close",
           s = 1 => wire[Other(e)][1].op \notin {"Confirm", "Data"},
           Mild(e, k, chan[e][k], d)
    PROVE  PairedAt(e)'
<1>1. /\ chan'[e][k] = d
      /\ \A j \in 1 .. Len(chan[e]) : j # k => chan'[e][j] = chan[e][j]
  BY PutFacts DEF Sound
<1>2. Longer(e, m) => m.op # "Open" /\ ~(m.src = k /\ m.op \in {"Data", "EOF"})
  OBVIOUS
<1>3. Evolves(e, k, m)
  BY <1>1, <1>2, EvolvesMildly DEF Mild
<1>4. \A j \in 1 .. Len(chan[e]) : chan'[e][j].myWindow = chan[e][j].myWindow
  BY <1>1 DEF Mild, Kept, SameTaken
<1>5. TakenAs(chan[e], chan'[e], chan[Other(e)], wire[Other(e)], s)
  <2>1. Fit(chan[Other(e)], chan[e])
    BY SoundFits, OtherEnd
  <2> QED  BY <1>4, <2>1, TakenNothing
<1> QED  BY <1>3, <1>5, PairedPut

(* The same in a step that sends and decodes nothing. *)
LEMMA PairedQuietly ==
    ASSUME Sound, Sound', NEW e \in Ends, PairedAt(e),
           UNCHANGED <<channels, loop, closed, wire>>,
           NEW k \in 1 .. Len(chan[e]), NEW d \in ChannelType, Put(e, k, d),
           Kept(chan[e][k], d), SameSent(chan[e][k], d),
           d.sentClose = chan[e][k].sentClose, d.gotClose = chan[e][k].gotClose,
           d.readyClosed = chan[e][k].readyClosed,
           chan[e][k].remote = 0 /\ OpenFails(chan[e][k]) => OpenFails(d)
    PROVE  PairedAt(e)'
<1>1. Shorter(e, 0) /\ Shorter(Other(e), 0)
  BY WireStays, OtherEnd DEF Sound
<1>2. PICK m \in MessageType : Wires(e, m, 0) /\ ~Longer(e, m)
  BY <1>1, Silent
<1>3. Listed(channels[e], chan[e][k], chan[Other(e)], wire[e], wire[Other(e)], closed[e], k)
  BY DEF PairedAt, Closing
<1>4. d.readyClosed /\ ~closed'[e] => d.gotClose
  BY <1>3 DEF Listed
<1>5. Mild(e, k, chan[e][k], d)
  BY <1>4 DEF Mild
<1> QED  BY <1>2, <1>5, PairedMild

LEMMA PairedAccept ==
    ASSUME Sound, Sound', NEW e \in Ends, PairedAt(e), Accept(e)
    PROVE  PairedAt(e)'
<1>1. Shape /\ Refer /\ Locals
  BY DEF Sound
<1> DEFINE k == Head(incoming[e])
           d == [chan[e][k] EXCEPT !.stage = "held"]
<1>2. k \in 1 .. Len(chan[e]) /\ ~chan[e][k].mine
  <2>1. k = incoming[e][1] /\ Len(incoming[e]) \in Nat \ {0}
    BY <1>1, TailOne, IncomingListFacts DEF Accept
  <2>2. 1 \in 1 .. Len(incoming[e])
    BY <2>1
  <2> QED  BY <1>1, <2>1, <2>2 DEF Refer, Refers, IncomingRefers
<1>3. chan[e][k] \in ChannelType /\ Local(chan[e][k])
  BY <1>1, <1>2, ChanFacts DEF Locals
<1>4. Put(e, k, d) /\ UNCHANGED <<channels, loop, closed, wire>>
  BY DEF Accept, Put
<1>5. d \in ChannelType
  BY <1>2, <1>3, LocalWhenHeld DEF Follows
<1>6. /\ SameNumbers(chan[e][k], d) /\ SameTaken(chan[e][k], d) /\ SameBuffer(chan[e][k], d)
      /\ SameSent(chan[e][k], d) /\ SameCloses(chan[e][k], d)
      /\ d.readyClosed = chan[e][k].readyClosed
  BY <1>3 DEF ChannelType, SameNumbers, SameTaken, SameBuffer, SameSent, SameCloses
<1>7. chan[e][k].remote # 0
  BY <1>2, <1>3 DEF Local
<1> HIDE DEF k, d
<1>8. Kept(chan[e][k], d)
  BY <1>6, KeptWhenSame
<1> QED  BY <1>2, <1>4, <1>5, <1>6, <1>7, <1>8, PairedQuietly DEF SameCloses

LEMMA PairedRead ==
    ASSUME Sound, Sound', NEW e \in Ends, PairedAt(e), NEW k, NEW len \in Nat, Read(e, k, len)
    PROVE  PairedAt(e)'
<1>1. k \in 1 .. Len(chan[e]) /\ chan[e][k] \in ChannelType /\ Local(chan[e][k])
  BY HeldFacts DEF Sound, Read
<1>2. PICK d : d = TryRead(e, chan[e][k], len)
  OBVIOUS
<1>3. d \in ChannelType /\ ReadOn(chan[e][k], d)
  BY <1>1, <1>2, TryReadFacts
<1>4. Put(e, k, d) /\ UNCHANGED <<channels, loop, closed, wire>>
  BY <1>2 DEF Read
<1>5. Kept(chan[e][k], d)
  BY <1>1, <1>3, KeptWhenRead
<1>6. OpenFails(chan[e][k]) => OpenFails(d)
  BY <1>3 DEF OpenFails, ReadOn, SameQueue
<1> QED  BY <1>1, <1>3, <1>4, <1>5, <1>6, PairedQuietly DEF ReadOn, SameCloses, SameQueue

LEMMA PairedWrote ==
    ASSUME Sound, Sound', NEW e \in Ends, PairedAt(e), Wrote(e)
    PROVE  PairedAt(e)'
<1>1. Shape /\ Refer /\ Locals
  BY DEF Sound
<1> DEFINE who == Head(pending[e])[1]
           k == Head(pending[e])[2]
<1>2. /\ pending[e] # <<>>
      /\ UNCHANGED <<channels, closed, wire>>
      /\ who = "loop" => loop' = [loop EXCEPT ![e] = "reading"] /\ UNCHANGED chan
      /\ who # "loop" => Put(e, k, Shift(chan[e][k], who)) /\ UNCHANGED loop
  BY DEF Wrote
<1>3. /\ Head(pending[e]) = pending[e][1] /\ 1 \in 1 .. Len(pending[e])
      /\ who \in {"open", "close", "loop"}
  <2>1. Head(pending[e]) = pending[e][1] /\ Len(pending[e]) \in Nat \ {0}
    BY <1>1, <1>2, PendingFacts, TailOne
  <2>2. 1 \in 1 .. Len(pending[e])
    BY <2>1
  <2> QED  BY <1>1, <2>1, <2>2, PendingFacts
<1>4. PendingRefers(e) /\ LoopWrites(e)
  BY <1>1 DEF Refer, Refers
<1>5. who # "loop" => k \in 1 .. Len(chan[e]) /\ (who = "close" => chan[e][k].sentClose)
  BY <1>3, <1>4 DEF PendingRefers
<1>6. who = "loop" => loop[e] = "writing"
  BY <1>3, <1>4 DEF LoopWrites
<1> HIDE DEF who, k
<1>7. CASE who = "loop"
  <2>1. Shorter(e, 0) /\ Shorter(Other(e), 0)
    BY <1>1, <1>2, WireStays, OtherEnd
  <2>2. loop'[Other(e)] = loop[Other(e)] /\ loop[e] # "dead"
    BY <1>1, <1>2, <1>6, <1>7, OtherEnd DEF Shape
  <2> QED  BY <1>2, <1>7, <2>1, <2>2, PairedAlone
<1>8. CASE who # "loop"
  <2>1. k \in 1 .. Len(chan[e]) /\ who \in {"open", "close"}
    BY <1>3, <1>5, <1>8
  <2>2. PICK c, d : c = chan[e][k] /\ d = Shift(chan[e][k], who)
    OBVIOUS
  <2>3. c \in ChannelType /\ Local(c)
    BY <1>1, <2>1, <2>2, ChanFacts DEF Locals
  <2>4. /\ d \in ChannelType
        /\ SameNumbers(c, d) /\ SameCloses(c, d) /\ SameSent(c, d) /\ SameTaken(c, d)
        /\ SameBuffer(c, d) /\ d.readyClosed = c.readyClosed
        /\ who = "open" /\ (\E i \in 1 .. Len(c.ready) : ~c.ready[i])
              /\ (\A i \in 1 .. Len(c.ready) : ~c.ready[i]) => d.stage = "failed"
        /\ d.stage # "failed" => c.stage # "failed" \/ \E i \in 1 .. Len(c.ready) : c.ready[i]
    BY <2>1, <2>2, <2>3, ShiftFacts
  <2>5. c.remote = 0 => ~c.sentClose /\ \A i \in 1 .. Len(c.ready) : ~c.ready[i]
    <3>1. Joined(chan[e], chan[Other(e)], wire[e], Alive(Other(e)), k)
      BY <2>1 DEF PairedAt, Both, Numbered
    <3> QED  BY <2>2, <2>3, <3>1 DEF Joined, Local
  <2>6. c.remote = 0 /\ OpenFails(c) => OpenFails(d)
    <3> SUFFICES ASSUME c.remote = 0, OpenFails(c) PROVE d.stage = "failed"
      BY DEF OpenFails
    <3>1. who = "open"
      BY <1>5, <2>1, <2>2, <2>5
    <3>2. DOMAIN c.ready = 1 .. Len(c.ready)
      BY <2>3, ChannelFields
    <3> QED  BY <2>4, <2>5, <3>1, <3>2 DEF OpenFails
  <2>7. Kept(c, d)
    BY <2>4, KeptWhenSame
  <2>8. Put(e, k, d)
    BY <1>2, <1>8, <2>2
  <2> QED  BY <1>2, <1>8, <2>1, <2>2, <2>4, <2>6, <2>7, <2>8, PairedQuietly DEF SameCloses
<1> QED  BY <1>7, <1>8

LEMMA PairedLoopBroken ==
    ASSUME Sound, Sound', NEW e \in Ends, PairedAt(e), LoopBroken(e)
    PROVE  PairedAt(e)'
<1>1. loop'[Other(e)] = loop[Other(e)] /\ loop'[e] = "dead"
  BY OtherEnd DEF LoopBroken, Sound, Shape
<1>2. Shorter(e, 0) /\ Shorter(Other(e), 0)
  BY WireStays, OtherEnd DEF Sound, LoopBroken
<1> QED  BY <1>1, <1>2, PairedAlone DEF LoopBroken

(* A message is decoded in an open session: it finds its channel. *)
LEMMA Decoding ==
    ASSUME Sound, NEW e \in Ends, PairedAt(e), NEW m \in Incoming(e)
    PROVE  /\ m = wire[Other(e)][1] /\ m \in MessageType /\ m \in Messages(wire[Other(e)])
           /\ Len(wire[Other(e)]) \in Nat \ {0}
           /\ loop[e] = "reading" /\ ~closed[e] /\ Alive(e)
           /\ m.op # "Open" => /\ m.to \in 1 .. Len(chan[e]) /\ channels[e][m.to] = m.to
                               /\ GetCh(channels[e], m.to) = m.to
           /\ m.op \in Talks => /\ m.src \in 1 .. Len(chan[Other(e)])
                                /\ chan[Other(e)][m.src].remote = m.to
                                /\ chan[e][m.to].remote = m.src
<1>1. Shape /\ Refer /\ Other(e) \in Ends
  BY OtherEnd DEF Sound
<1>2. Hears(e, m)
  BY <1>1, IncomingFacts
<1>3. PICK y \in Ends : y = Other(e) /\ e = Other(y)
  BY OtherEnd
<1>4. /\ loop[e] = "reading" /\ ~closed[e] /\ Alive(e)
      /\ m = wire[y][1] /\ m \in MessageType /\ Len(wire[y]) \in Nat \ {0}
  BY <1>1, <1>2, <1>3, WireFacts DEF Hears, Alive
<1>5. PICK cs, ps, w, v, list, live, alive, shut :
        /\ cs = chan[e] /\ ps = chan[y] /\ w = wire[e] /\ v = wire[y] /\ list = channels[e]
        /\ live = Alive(e) /\ alive = Alive(y) /\ shut = closed[e]
  OBVIOUS
<1>6. /\ Fit(cs, ps) /\ Fit(ps, cs) /\ Spoken(ps, v)
      /\ Both(cs, ps, w, v, live, alive) /\ Closing(list, cs, ps, w, v, shut) /\ shut = FALSE
  <2>1. Fit(cs, ps) /\ Fit(ps, cs) /\ Spoken(ps, v)
    BY <1>3, <1>5, SoundFits
  <2>2. Both(cs, ps, w, v, live, alive) /\ Closing(list, cs, ps, w, v, shut)
    BY <1>3, <1>5 DEF PairedAt
  <2>3. shut = FALSE
    BY <1>1, <1>4, <1>5 DEF Shape
  <2> QED  BY <2>1, <2>2, <2>3
<1>7. m \in Messages(v) /\ m = v[1] /\ Len(v) \in Nat \ {0}
  BY <1>4, <1>5 DEF Messages
<1>8. m.op # "Open" => InPlace(list, cs, m.to)
  BY ONLY <1>6, <1>7, Reaches
<1>9. m.op \in Talks => Reached(cs, ps, live, m)
  BY ONLY <1>6, <1>7, Fits
<1>10. m.op # "Open" => GetCh(channels[e], m.to) = m.to
  <2>1. Len(channels[e]) = Len(chan[e]) /\ DOMAIN channels[e] = 1 .. Len(channels[e])
    BY <1>1, ListFacts DEF Refer, Refers, ListRefers
  <2> SUFFICES ASSUME m.op # "Open" PROVE GetCh(channels[e], m.to) = m.to
    OBVIOUS
  <2>2. m.to \in 1 .. Len(chan[e]) /\ channels[e][m.to] = m.to /\ m.to > 0
    BY <1>5, <1>8 DEF InPlace
  <2> QED  BY <2>1, <2>2 DEF GetCh
<1> QED  BY <1>3, <1>4, <1>5, <1>7, <1>8, <1>9, <1>10 DEF Reached, InPlace

LEMMA PairedInvalidChannel ==
    ASSUME Sound, NEW e \in Ends, PairedAt(e), InvalidChannel(e)
    PROVE  FALSE
<1>1. PICK m \in Incoming(e) : m.op # "Open" /\ GetCh(channels[e], m.to) = Hole
  BY DEF InvalidChannel
<1>2. m.to \in 1 .. Len(chan[e]) /\ GetCh(channels[e], m.to) = m.to
  BY <1>1, Decoding
<1> QED  BY <1>1, <1>2 DEF Hole

LEMMA PairedHandleEOF ==
    ASSUME Sound, Sound', NEW e \in Ends, PairedAt(e), HandleEOF(e)
    PROVE  PairedAt(e)'
<1>1. Shape /\ Refer /\ Locals
  BY DEF Sound
<1>2. PICK m \in Incoming(e) :
        LET k == GetCh(channels[e], m.to) IN
        /\ m.op = "EOF" /\ k # Hole
        /\ Put(e, k, [chan[e][k] EXCEPT !.gotEOF = TRUE])
        /\ wire' = Decoded(e)
  BY DEF HandleEOF
<1>3. PICK y \in Ends : y = Other(e) /\ e = Other(y)
  BY OtherEnd
<1>4. /\ m = wire[y][1] /\ Len(wire[y]) \in Nat \ {0}
      /\ m.to \in 1 .. Len(chan[e]) /\ GetCh(channels[e], m.to) = m.to
      /\ m.src \in 1 .. Len(chan[y]) /\ chan[y][m.src].remote = m.to
      /\ chan[e][m.to].remote = m.src
  BY <1>2, <1>3, Decoding DEF Talks
<1>5. PICK k, c, d : k = m.to /\ c = chan[e][k] /\ d = [c EXCEPT !.gotEOF = TRUE]
  OBVIOUS
<1>6. k \in 1 .. Len(chan[e]) /\ c \in ChannelType /\ Local(c) /\ c.remote = m.src /\ m.src # 0 /\ k # 0
  <2>1. k \in 1 .. Len(chan[e]) /\ m.src # 0 /\ k # 0
    BY <1>4, <1>5
  <2> QED  BY <1>1, <1>4, <1>5, <2>1, ChanFacts DEF Locals
<1>7. /\ d \in ChannelType
      /\ SameNumbers(c, d) /\ d.myWindow = c.myWindow /\ d.gotEOF = TRUE /\ SameBuffer(c, d)
      /\ SameSent(c, d) /\ SameCloses(c, d) /\ d.readyClosed = c.readyClosed
  BY <1>5, <1>6 DEF ChannelType, SameNumbers, SameBuffer, SameSent, SameCloses
<1>8. Put(e, k, d) /\ wire' = Decoded(e)
  BY <1>2, <1>4, <1>5
<1>9. Shorter(e, 0) /\ Shorter(y, 1)
  BY <1>1, <1>3, <1>8, DecodeFacts
<1>10. PICK h \in MessageType : Wires(e, h, 1) /\ ~Longer(e, h)
  BY <1>3, <1>9, Silent
<1>11. chan'[e][k] = d /\ \A j \in 1 .. Len(chan[e]) : j # k => chan'[e][j] = chan[e][j]
  BY <1>1, <1>6, <1>7, <1>8, PutFacts
<1>12. HeldAll(chan'[e], chan[y], wire'[y], k)
  <2>1. PICK cs, ps, w, v, v2, o :
          cs = chan[e] /\ ps = chan[y] /\ w = wire[e] /\ v = wire[y] /\ v2 = wire'[y] /\ o = IsOpen
    OBVIOUS
  <2>2. /\ Typed(v) /\ Fit(cs, ps) /\ Fit(ps, cs)
        /\ Carried(cs, ps, w, v, o) /\ Carried(ps, cs, v, w, o)
    BY <1>3, <2>1, SoundFits DEF PairedAt
  <2>3. Dropped(v, v2, 1)
    BY <1>3, <1>10, <2>1, WiresFacts DEF Sound
  <2>4. /\ Len(v) \in Nat \ {0} /\ m = v[1] /\ m.op = "EOF"
        /\ m.to \in 1 .. Len(cs) /\ m.src \in 1 .. Len(ps)
        /\ ps[m.src].remote = m.to /\ cs[m.to].remote = m.src
        /\ SameNumbers(cs[m.to], d) /\ d.myWindow = cs[m.to].myWindow /\ d.gotEOF = TRUE
        /\ SameBuffer(cs[m.to], d) /\ d.readyClosed = cs[m.to].readyClosed
    BY <1>2, <1>4, <1>5, <1>7, <2>1
  <2>5. HasAll(d, ps[d.remote], v2) /\ Buffered(d, ps[d.remote])
    BY ONLY <2>2, <2>3, <2>4, HeldEOF
  <2> QED  BY <1>11, <2>1, <2>5 DEF HeldAll
<1>13. Listed(channels[e], c, chan[y], wire[e], wire[y], closed[e], k)
  BY <1>3, <1>5, <1>6 DEF PairedAt, Closing
<1>14. UNCHANGED <<channels, closed, loop>>
  BY DEF HandleEOF
<1>15. Evolves(e, k, h)
  <2>1. Keeps(c, d) /\ Sends(c, d, wire[e], wire'[e], h, k)
    <3>1. ~Extended(wire[e], wire'[e], h)
      BY <1>10, WiresFacts DEF Sound
    <3> QED  BY <1>6, <1>7, <3>1 DEF Keeps, Sends
  <2>2. d.readyClosed /\ ~closed'[e] => d.gotClose
    BY <1>7, <1>13, <1>14 DEF Listed, SameCloses
  <2>3. /\ d.gotClose = c.gotClose /\ (c.sentClose => d.sentClose) /\ d.myWindow = c.myWindow
        /\ c.readyClosed => d.readyClosed
        /\ ~(c.remote = 0) /\ channels' = channels
    BY <1>6, <1>7, <1>14 DEF SameCloses
  <2> QED  BY <1>3, <1>5, <1>6, <1>7, <1>10, <1>11, <1>12, <2>1, <2>2, <2>3, EvolvesAs
<1>16. TakenAs(chan[e], chan'[e], chan[y], wire[y], 1)
  <2>1. Fit(chan[y], chan[e])
    BY <1>3, SoundFits
  <2>2. \A j \in 1 .. Len(chan[e]) : chan'[e][j].myWindow = chan[e][j].myWindow
    BY <1>5, <1>7, <1>11
  <2>3. wire[y][1].op # "Data"
    BY <1>2, <1>4
  <2> QED  BY <2>1, <2>2, <2>3, TakenNothing
<1>17. wire[y][1].op # "Confirm"
  BY <1>2, <1>4
<1> QED  BY <1>3, <1>6, <1>7, <1>8, <1>10, <1>14, <1>15, <1>16, <1>17, PairedPut

(* Nobody but the peer of a channel has its number. *)
LEMMA OnlyPeer ==
    ASSUME NEW cs, NEW ps, NEW v, NEW live, NEW i \in 1 .. Len(ps), NEW j \in 1 .. Len(ps),
           Joined(ps, cs, v, live, i), Joined(ps, cs, v, live, j),
           ps[i].remote = ps[j].remote, ps[i].remote # 0, cs[ps[i].remote].remote # 0
    PROVE  i = j
  BY DEF Joined

(* Data that were sent within the window are taken in. *)
Heeded(c, d, p, m, threw) ==
    ~p.over => /\ TookIn(c, d, m.data) /\ threw = FALSE
               /\ InRow(c.got, c.readBuf) => InRow(d.got, d.readBuf)
               /\ Window - d.myWindow = UpTo(m)

LEMMA DataMet ==
    ASSUME Sound, NEW e \in Ends, PairedAt(e), NEW m \in Incoming(e), m.op = "Data",
           NEW y, y = Other(e), NEW k, k = m.to, NEW c, c = chan[e][k],
           NEW p, p = chan[y][m.src], NEW h, h = HandleData(e, c, m.data), NEW d, d = h.channel
    PROVE  /\ d \in ChannelType /\ Handled(e, c, d, m.data, h.threw)
           /\ Heeded(c, d, p, m, h.threw)
<1>1. Shape /\ Refer /\ Locals
  BY DEF Sound
<1>2. y \in Ends /\ e = Other(y) /\ y # e
  BY OtherEnd
<1>3. /\ m = wire[y][1] /\ m \in MessageType /\ Len(wire[y]) \in Nat \ {0}
      /\ m.to \in 1 .. Len(chan[e])
      /\ m.src \in 1 .. Len(chan[y]) /\ chan[y][m.src].remote = m.to
  BY <1>2, Decoding DEF Talks
<1>4. c \in ChannelType /\ Local(c)
  <2>1. k \in 1 .. Len(chan[e])
    BY <1>3
  <2> QED  BY <1>1, <2>1, ChanFacts DEF Locals
<1>5. d \in ChannelType /\ Handled(e, c, d, m.data, h.threw)
  <2>1. m.data \in Seq(Nat)
    BY <1>3, MessageFields
  <2> QED  BY <1>4, <2>1, HandleDataFacts
<1>6. ~p.over => /\ TookIn(c, d, m.data) /\ h.threw = FALSE
                 /\ InRow(c.got, c.readBuf) => InRow(d.got, d.readBuf)
                 /\ Window - d.myWindow = UpTo(m)
  <2> SUFFICES ASSUME ~p.over
               PROVE  /\ TookIn(c, d, m.data) /\ h.threw = FALSE
                      /\ InRow(c.got, c.readBuf) => InRow(d.got, d.readBuf)
                      /\ Window - d.myWindow = UpTo(m)
    OBVIOUS
  <2>1. PICK cs, ps, w, v, o :
          cs = chan[e] /\ ps = chan[y] /\ w = wire[e] /\ v = wire[y] /\ o = IsOpen
    OBVIOUS
  <2>2. Typed(v) /\ Fit(cs, ps) /\ Fit(ps, cs) /\ Carried(ps, cs, v, w, o)
    BY <1>2, <2>1, SoundFits DEF PairedAt
  <2>3. /\ Len(v) \in Nat \ {0} /\ m = v[1] /\ m.op = "Data"
        /\ m.to \in 1 .. Len(cs) /\ m.src \in 1 .. Len(ps)
        /\ ps[m.src].remote = m.to /\ ~ps[m.src].over
    BY <1>3, <2>1
  <2>4. Continues(cs[m.to], ps[m.src], m)
    BY ONLY <2>2, <2>3, NextData
  <2>5. Continues(c, p, m)
    BY <2>1, <2>4
  <2>6. PICK threw : threw = h.threw
    OBVIOUS
  <2>7. /\ c \in ChannelType /\ m \in MessageType /\ Local(c) /\ d \in ChannelType
        /\ Handled(e, c, d, m.data, threw)
    BY <1>3, <1>4, <1>5, <2>6
  <2>8. /\ TookIn(c, d, m.data) /\ threw = FALSE
        /\ InRow(c.got, c.readBuf) => InRow(d.got, d.readBuf)
        /\ Window - d.myWindow = UpTo(m)
    BY ONLY <2>5, <2>7, HeldData
  <2> QED  BY <2>6, <2>8
<1> QED  BY <1>5, <1>6 DEF Heeded

LEMMA PairedReceiveData ==
    ASSUME Sound, Sound', NEW e \in Ends, PairedAt(e), ReceiveData(e)
    PROVE  PairedAt(e)'
<1>1. Shape /\ Refer /\ Locals
  BY DEF Sound
<1>2. PICK m \in Incoming(e) :
        LET k == GetCh(channels[e], m.to)
            handled == HandleData(e, chan[e][k], m.data)
        IN  /\ m.op = "Data" /\ k # Hole
            /\ \/ /\ handled.threw
                  /\ Dies(e) /\ UNCHANGED chan
               \/ /\ ~handled.threw
                  /\ Put(e, k, handled.channel)
                  /\ wire' = Decoded(e) /\ UNCHANGED loop
  BY DEF ReceiveData
<1>3. PICK y \in Ends : y = Other(e) /\ e = Other(y) /\ y # e
  BY OtherEnd
<1>4. /\ m = wire[y][1] /\ m \in MessageType /\ Len(wire[y]) \in Nat \ {0}
      /\ m \in Messages(wire[y])
      /\ m.to \in 1 .. Len(chan[e]) /\ GetCh(channels[e], m.to) = m.to
      /\ m.src \in 1 .. Len(chan[y]) /\ chan[y][m.src].remote = m.to
      /\ chan[e][m.to].remote = m.src
  BY <1>2, <1>3, Decoding DEF Talks
<1>5. PICK k, c, p, h, d : /\ k = m.to /\ c = chan[e][k] /\ p = chan[y][m.src]
                           /\ h = HandleData(e, chan[e][k], m.data) /\ d = h.channel
  OBVIOUS
<1>6. /\ k \in 1 .. Len(chan[e]) /\ c \in ChannelType /\ Local(c) /\ c.remote = m.src
      /\ m.src # 0 /\ k # 0
  <2>1. k \in 1 .. Len(chan[e]) /\ m.src # 0 /\ k # 0
    BY <1>4, <1>5
  <2> QED  BY <1>1, <1>4, <1>5, <2>1, ChanFacts DEF Locals
<1>7. /\ d \in ChannelType /\ Handled(e, c, d, m.data, h.threw)
      /\ Heeded(c, d, p, m, h.threw)
  BY <1>2, <1>3, <1>5, DataMet
<1>8. ~p.over => /\ TookIn(c, d, m.data) /\ h.threw = FALSE
                 /\ InRow(c.got, c.readBuf) => InRow(d.got, d.readBuf)
                 /\ Window - d.myWindow = UpTo(m)
  BY <1>7 DEF Heeded
<1>9. UNCHANGED <<channels, closed>> /\ m.op = "Data"
  BY <1>2 DEF ReceiveData
<1>10. CASE h.threw /\ Dies(e) /\ UNCHANGED chan
  <2>1. p.over
    BY <1>8, <1>10
  <2>2. Shorter(e, 0) /\ Shorter(y, 1)
    BY <1>1, <1>3, <1>10, DecodeFacts DEF Dies
  <2>3. loop'[y] = loop[y] /\ loop'[e] = "dead"
    BY <1>1, <1>3, <1>10 DEF Dies, Shape
  <2> QED  BY <1>3, <1>4, <1>5, <1>9, <1>10, <2>1, <2>2, <2>3, PairedAlone
<1>11. CASE ~h.threw /\ Put(e, k, d) /\ wire' = Decoded(e) /\ UNCHANGED loop
  <2>1. Shorter(e, 0) /\ Shorter(y, 1)
    BY <1>1, <1>3, <1>11, DecodeFacts
  <2>2. PICK g \in MessageType : Wires(e, g, 1) /\ ~Longer(e, g)
    BY <1>3, <2>1, Silent
  <2>3. chan'[e][k] = d /\ \A j \in 1 .. Len(chan[e]) : j # k => chan'[e][j] = chan[e][j]
    BY <1>1, <1>6, <1>7, <1>11, PutFacts
  <2>4. /\ SameNumbers(c, d) /\ SameCloses(c, d) /\ SameSent(c, d)
        /\ d.readyClosed = c.readyClosed /\ d.gotEOF = c.gotEOF
    <3>1. d = c \/ TookIn(c, d, m.data)
      BY <1>7 DEF Handled
    <3> QED  BY <3>1 DEF TookIn, SameNumbers, SameCloses, SameSent, SameQueue
  <2>5. HasAll(c, p, wire[y]) /\ Buffered(c, p)
    BY <1>3, <1>5, <1>6 DEF PairedAt, Carried
  <2>6. ~c.gotEOF
    <3>1. Carries(wire[y], "Data", m.src)
      BY <1>4, <1>9 DEF Carries
    <3> QED  BY <1>6, <2>5, <3>1 DEF HasAll
  <2>7. HeldAll(chan'[e], chan[y], wire'[y], k)
    <3>1. HasAll(d, p, wire'[y])
      BY <2>4, <2>6 DEF HasAll
    <3>2. Buffered(d, p)
      BY <1>6, <1>8, <2>5 DEF Buffered
    <3>3. chan[y][d.remote] = p
      BY <1>5, <1>6, <2>4 DEF SameNumbers
    <3> QED  BY <2>3, <3>1, <3>2, <3>3 DEF HeldAll
  <2>8. Listed(channels[e], c, chan[y], wire[e], wire[y], closed[e], k)
    BY <1>3, <1>5, <1>6 DEF PairedAt, Closing
  <2>9. Evolves(e, k, g)
    <3>1. Keeps(c, d) /\ Sends(c, d, wire[e], wire'[e], g, k)
      <4>1. ~Extended(wire[e], wire'[e], g)
        BY <2>2, WiresFacts DEF Sound
      <4> QED  BY <1>6, <2>4, <4>1 DEF Keeps, Sends
    <3>2. chan[y][c.remote].remote # 0
      BY <1>4, <1>6
    <3>3. d.readyClosed /\ ~closed'[e] => d.gotClose
      BY <1>9, <2>4, <2>8 DEF Listed, SameCloses
    <3>4. /\ d.gotClose = c.gotClose /\ (c.sentClose => d.sentClose)
          /\ c.readyClosed => d.readyClosed
          /\ ~(c.remote = 0) /\ channels' = channels
      BY <1>6, <1>9, <2>4 DEF SameCloses
    <3> QED  BY <1>3, <1>5, <1>6, <2>2, <2>3, <2>4, <2>7, <3>1, <3>2, <3>3, <3>4, EvolvesAs
  <2>10. TakenAs(chan[e], chan'[e], chan[y], wire[y], 1)
    <3> SUFFICES ASSUME NEW r \in 1 .. Len(chan[y]), chan[y][r].remote # 0, ~chan[y][r].over
                 PROVE  Received(chan[y][r], chan'[e]) =
                          IF IsData(wire[y][1], r) THEN UpTo(wire[y][1])
                          ELSE Received(chan[y][r], chan[e])
      BY DEF TakenAs
    <3>1. CASE r = m.src
      <4>1. IsData(wire[y][1], r)
        BY <1>4, <1>9, <3>1 DEF IsData
      <4>2. Received(chan[y][r], chan'[e]) = Window - d.myWindow
        BY <1>4, <1>5, <2>3, <3>1 DEF Received
      <4>3. Window - d.myWindow = UpTo(m)
        BY <1>5, <1>8, <3>1
      <4> QED  BY <1>4, <4>1, <4>2, <4>3
    <3>2. CASE r # m.src
      <4>1. ~IsData(wire[y][1], r)
        BY <1>4, <3>2 DEF IsData
      <4>2. chan[y][r].remote # k
        <5>1. Joined(chan[y], chan[e], wire[y], Alive(e), r)
          BY <1>3 DEF PairedAt, Both, Numbered
        <5>2. Joined(chan[y], chan[e], wire[y], Alive(e), m.src)
          BY <1>3, <1>4 DEF PairedAt, Both, Numbered
        <5> QED  BY <1>4, <1>5, <1>6, <3>2, <5>1, <5>2, OnlyPeer
      <4>3. chan[y][r].remote \in 1 .. Len(chan[e])
        <5>1. Fit(chan[y], chan[e])
          BY <1>3, SoundFits
        <5> QED  BY <5>1 DEF Fit
      <4> QED  BY <2>3, <4>1, <4>2, <4>3 DEF Received
    <3> QED  BY <3>1, <3>2
  <2>11. wire[y][1].op # "Confirm"
    BY <1>4, <1>9
  <2> QED  BY <1>3, <1>6, <1>7, <1>9, <1>11, <2>2, <2>9, <2>10, <2>11, PairedPut
<1> QED  BY <1>2, <1>4, <1>5, <1>10, <1>11

LEMMA PairedHandleFailure ==
    ASSUME Sound, Sound', NEW e \in Ends, PairedAt(e), HandleFailure(e)
    PROVE  PairedAt(e)'
<1>1. Shape /\ Refer /\ Locals
  BY DEF Sound
<1>2. PICK m \in Incoming(e) :
        LET k == GetCh(channels[e], m.to) IN
        /\ m.op = "Failure" /\ k # Hole
        /\ channels' = [channels EXCEPT ![e] = RmCh(e, @, m.to)]
        /\ Put(e, k, Push(chan[e][k], FALSE))
        /\ wire' = Decoded(e)
  BY DEF HandleFailure
<1>3. PICK y \in Ends : y = Other(e) /\ e = Other(y) /\ y # e
  BY OtherEnd
<1>4. /\ m = wire[y][1] /\ m \in MessageType /\ Len(wire[y]) \in Nat \ {0}
      /\ m \in Messages(wire[y])
      /\ m.to \in 1 .. Len(chan[e]) /\ GetCh(channels[e], m.to) = m.to
  BY <1>2, <1>3, Decoding
<1>5. PICK k, c, d : k = m.to /\ c = chan[e][k] /\ d = Push(c, FALSE)
  OBVIOUS
<1>6. k \in 1 .. Len(chan[e]) /\ c \in ChannelType /\ Local(c)
  <2>1. k \in 1 .. Len(chan[e])
    BY <1>4, <1>5
  <2> QED  BY <1>1, <1>5, <2>1, ChanFacts DEF Locals
<1>7. /\ Put(e, k, d) /\ wire' = Decoded(e) /\ UNCHANGED <<loop, closed>>
      /\ channels' = [channels EXCEPT ![e] = RmCh(e, @, k)]
  BY <1>2, <1>4, <1>5 DEF HandleFailure
<1>8. d \in ChannelType /\ Pushed(c, d, FALSE)
  BY <1>5, <1>6, PushFacts
<1>9. Shorter(e, 0) /\ Shorter(y, 1)
  BY <1>1, <1>3, <1>7, DecodeFacts
<1>10. PICK h \in MessageType : Wires(e, h, 1) /\ ~Longer(e, h)
  BY <1>3, <1>9, Silent
<1>11. chan'[e][k] = d
  BY <1>1, <1>6, <1>7, <1>8, PutFacts
<1>12. channels'[y] = channels[y]
       /\ \A j \in 1 .. Len(chan[e]) : j # k => channels'[e][j] = channels[e][j]
  <2>1. /\ channels[e] \in Seq(Int) /\ k \in 1 .. Len(channels[e])
        /\ Len(channels[e]) = Len(chan[e])
    BY <1>1, <1>6, ListFacts DEF Refer, Refers, ListRefers
  <2>2. channels'[e] = RmCh(e, channels[e], k) /\ channels'[y] = channels[y]
    BY <1>1, <1>3, <1>7 DEF Shape
  <2> QED  BY <2>1, <2>2, RmChFacts
<1>13. /\ c.remote = 0 /\ NobodyFor(chan[y], k)
       /\ ~Carries(wire[e], "Open", k) /\ ~Refuses(wire'[y], k)
  <2>1. Addressed(chan[y], chan[e], wire[e], m) /\ RefusedOnce(wire[y])
    BY <1>3, <1>4 DEF PairedAt, Both, Numbered
  <2>2. c.remote = 0 /\ NobodyFor(chan[y], k) /\ ~Carries(wire[e], "Open", k)
    BY <1>2, <1>5, <2>1 DEF Addressed
  <2>3. Dropped(wire[y], wire'[y], 1)
    BY <1>3, <1>10, WiresFacts DEF Sound
  <2>4. ASSUME NEW i \in 1 .. Len(wire'[y]), wire'[y][i].op = "Failure" PROVE wire'[y][i].to # k
    <3>1. i + 1 \in 1 .. Len(wire[y]) /\ 1 \in 1 .. Len(wire[y]) /\ i + 1 # 1
          /\ wire'[y][i] = wire[y][i + 1]
      BY <1>4, <2>3 DEF Dropped
    <3> QED  BY <1>2, <1>4, <1>5, <2>1, <2>4, <3>1 DEF RefusedOnce
  <2> QED  BY <2>2, <2>4 DEF Refuses, Messages
<1>14. ~c.sentClose
  <2>1. Joined(chan[e], chan[y], wire[e], Alive(y), k)
    BY <1>3, <1>6 DEF PairedAt, Both, Numbered
  <2> QED  BY <1>5, <1>13, <2>1 DEF Joined
<1>15. OpenFails(d)
  <2>1. ~(c.waiters # <<>> /\ c.waiters[1] = "close")
    <3> SUFFICES ASSUME c.waiters # <<>>, c.waiters[1] = "close" PROVE FALSE
      OBVIOUS
    <3>1. 1 \in 1 .. Len(c.waiters)
      BY <1>6, ChannelFields, TailOne
    <3> QED  BY <1>6, <1>14, <3>1 DEF Local
  <2>2. d.stage = "failed" \/ \E i \in 1 .. Len(d.ready) : ~d.ready[i]
    BY <1>8, <2>1 DEF Pushed
  <2>3. DOMAIN d.ready = 1 .. Len(d.ready)
    BY <1>8, ChannelFields
  <2> QED  BY <2>2, <2>3 DEF OpenFails
<1>16. Over(c, chan[y], wire[y], k) /\ Listed(channels[e], c, chan[y], wire[e], wire[y], closed[e], k)
  BY <1>3, <1>5, <1>6 DEF PairedAt, Closing
<1>17. Kept(c, d)
  BY <1>8, KeptWhenSame DEF Pushed
<1>18. Evolves(e, k, h)
  <2>1. ~Extended(wire[e], wire'[e], h) /\ Dropped(wire[e], wire'[e], 0)
        /\ Messages(wire'[y]) \subseteq Messages(wire[y])
    BY <1>3, <1>10, WiresFacts, DroppedMessages DEF Sound
  <2>2. Keeps(c, d) /\ Sends(c, d, wire[e], wire'[e], h, k) /\ SameSent(c, d)
    BY <1>8, <2>1 DEF Keeps, Sends, Pushed, SameCloses
  <2>3. HeldAll(chan'[e], chan[y], wire'[y], k)
    BY <1>3, <1>5, <1>6, <1>10, <1>11, <1>17, HeldKept
  <2>4. Over(d, chan[y], wire'[y], k)
    BY <1>8, <1>16, <2>1, OverOn DEF Pushed, SameCloses, SameNumbers
  <2>5. Refused(d, chan[y], wire'[e], wire'[y], k)
    <3>1. ~Carries(wire'[e], "Open", k)
      BY <1>13, <2>1, DroppedMessages, CarriesOn
    <3> QED  BY <1>8, <1>13, <1>15, <3>1 DEF Refused, Pushed, SameNumbers
  <2>6. Listed(channels'[e], d, chan[y], wire'[e], wire'[y], closed'[e], k)
    BY <1>7, <1>8, <1>16, <2>5 DEF Listed, Pushed, SameCloses
  <2>7. d.myWindow = c.myWindow /\ (c.sentClose => d.sentClose)
    BY <1>8, <1>14 DEF Pushed, SameTaken
  <2> QED  BY <1>3, <1>5, <1>11, <2>2, <2>3, <2>4, <2>6, <2>7 DEF Evolves
<1>19. TakenAs(chan[e], chan'[e], chan[y], wire[y], 1)
  <2>1. Fit(chan[y], chan[e])
    BY <1>3, SoundFits
  <2>2. \A j \in 1 .. Len(chan[e]) : chan'[e][j].myWindow = chan[e][j].myWindow
    BY <1>1, <1>5, <1>6, <1>7, <1>8, PutFacts DEF Pushed, SameTaken
  <2>3. wire[y][1].op # "Data"
    BY <1>2, <1>4
  <2> QED  BY <2>1, <2>2, <2>3, TakenNothing
<1>20. wire[y][1].op # "Confirm"
  BY <1>2, <1>4
<1> QED  BY <1>3, <1>6, <1>7, <1>8, <1>10, <1>12, <1>18, <1>19, <1>20, PairedPut

(* Channel k, which is held, sends m. *)
LEMMA PairedSend ==
    ASSUME Sound, Sound', NEW e \in Ends, PairedAt(e), NEW k \in Held(e),
           UNCHANGED <<channels, loop, closed>>,
           NEW c, c = chan[e][k], ~c.sentClose, NEW d \in ChannelType, Put(e, k, d),
           SameNumbers(c, d), SameTaken(c, d), SameBuffer(c, d), SameCloses(c, d),
           d.readyClosed = c.readyClosed,
           NEW m \in MessageType, m.op \in {"Data", "EOF"}, m.src = k, m.to = c.remote,
           Speaks(e, m, 0), Sends(c, d, wire[e], wire'[e], m, k)
    PROVE  PairedAt(e)'
<1>1. Shape /\ Refer /\ Locals
  BY DEF Sound
<1>2. k \in 1 .. Len(chan[e]) /\ c \in ChannelType /\ c.remote # 0
  BY <1>1, HeldFacts
<1>3. PICK y \in Ends : y = Other(e) /\ y # e
  BY OtherEnd
<1>4. Wires(e, m, 0) /\ (IsOpen' => Longer(e, m))
  <2>1. Shorter(e, 0) => closed[e] \/ closed[y]
    BY <1>3 DEF Speaks
  <2>2. IsOpen' => ~closed[e] /\ ~closed[y]
    BY DEF IsOpen
  <2> QED  BY <1>3, <2>1, <2>2 DEF Speaks, Wires
<1>5. chan'[e][k] = d /\ \A j \in 1 .. Len(chan[e]) : j # k => chan'[e][j] = chan[e][j]
  BY <1>1, <1>2, PutFacts
<1>6. HeldAll(chan'[e], chan[y], wire'[y], k)
  <2>1. Kept(c, d)
    BY KeptWhenSame
  <2> QED  BY <1>2, <1>3, <1>4, <1>5, <2>1, HeldKept
<1>7. Listed(channels[e], c, chan[y], wire[e], wire[y], closed[e], k)
  BY <1>2, <1>3 DEF PairedAt, Closing
<1>8. Evolves(e, k, m)
  <2>1. Keeps(c, d)
    BY <1>2 DEF Keeps
  <2>2. d.readyClosed /\ ~closed'[e] => d.gotClose
    BY <1>7 DEF Listed, SameCloses
  <2>3. /\ d.gotClose = c.gotClose /\ (c.sentClose => d.sentClose) /\ d.myWindow = c.myWindow
        /\ c.readyClosed => d.readyClosed
        /\ ~(c.remote = 0) /\ m.op # "Open"
    BY <1>2 DEF SameCloses, SameTaken
  <2> QED  BY <1>2, <1>3, <1>4, <1>5, <1>6, <2>1, <2>2, <2>3, EvolvesAs
<1>9. TakenAs(chan[e], chan'[e], chan[y], wire[y], 0)
  <2>1. Fit(chan[y], chan[e])
    BY <1>3, SoundFits, OtherEnd
  <2>2. \A j \in 1 .. Len(chan[e]) : chan'[e][j].myWindow = chan[e][j].myWindow
    BY <1>5 DEF SameTaken
  <2> QED  BY <2>1, <2>2, TakenNothing
<1>10. Talk(chan[e], m) /\ ~chan[e][k].sentClose
  BY <1>2 DEF Talk
<1> QED  BY <1>2, <1>3, <1>4, <1>8, <1>9, <1>10, PairedPut

LEMMA PairedWrite ==
    ASSUME Sound, Sound', NEW e \in Ends, PairedAt(e), NEW k, NEW n \in Nat \ {0}, Write(e, k, n)
    PROVE  PairedAt(e)'
<1>1. Shape /\ Refer /\ Locals
  BY DEF Sound
<1>2. PICK c, d, data, m :
        /\ c = chan[e][k] /\ data = [i \in 1 .. n |-> chan[e][k].sent + i]
        /\ d = [c EXCEPT !.sent = @ + n, !.over = @ \/ n > MaxPayload \/ c.sent + n > Window]
        /\ m = FromChannel("Data", e, k, data)
  OBVIOUS
<1>3. k \in Held(e) /\ ~c.sentEOF /\ ~c.sentClose
  BY <1>2 DEF Write
<1>4. /\ k \in 1 .. Len(chan[e]) /\ c \in ChannelType /\ Local(c) /\ c.stage = "held"
  BY <1>1, <1>2, <1>3, HeldFacts
<1>5. c.sent \in Nat
  BY <1>4, ChannelFields
<1>6. d \in ChannelType
  BY <1>2, <1>4, LocalAfterWrite DEF Follows
<1>7. /\ SameNumbers(c, d) /\ SameTaken(c, d) /\ SameBuffer(c, d) /\ SameCloses(c, d)
      /\ d.readyClosed = c.readyClosed /\ d.sentEOF = c.sentEOF /\ d.sent = c.sent + n
      /\ ~d.over => ~c.over /\ ~(n > MaxPayload)
  BY <1>2, <1>4 DEF ChannelType, SameNumbers, SameTaken, SameBuffer, SameCloses
<1>8. /\ data \in Seq(Nat) /\ Len(data) = n /\ \A i \in 1 .. n : data[i] = c.sent + i
  BY <1>2, <1>5, DataFacts
<1>9. IsMessage(m, "Data", e, k, c.remote, data)
  <2>1. "Data" \in Ops
    BY DEF Ops
  <2> QED  BY <1>1, <1>2, <1>4, <1>8, <2>1, FromChannelFacts
<1>10. Put(e, k, d) /\ wire' = Sent(wire, e, m) /\ UNCHANGED <<channels, loop, closed>>
  BY <1>2 DEF Write, DataMessage, Send
<1>11. Speaks(e, m, 0)
  BY <1>1, <1>9, <1>10, SendFacts DEF IsMessage
<1>12. Sends(c, d, wire[e], wire'[e], m, k)
  <2>1. IsData(m, k) /\ m.data = data
    BY <1>9 DEF IsMessage, IsData
  <2>2. ~d.over => n \in 1 .. MaxPayload
    BY <1>7, WindowAssumption
  <2> QED  BY <1>3, <1>7, <1>8, <2>1, <2>2 DEF Sends
<1> QED  BY <1>2, <1>3, <1>6, <1>7, <1>9, <1>10, <1>11, <1>12, PairedSend DEF IsMessage

LEMMA PairedCloseWrite ==
    ASSUME Sound, Sound', NEW e \in Ends, PairedAt(e), NEW k, CloseWrite(e, k)
    PROVE  PairedAt(e)'
<1>1. Shape /\ Refer /\ Locals
  BY DEF Sound
<1>2. PICK c, d, m : /\ c = chan[e][k] /\ d = [c EXCEPT !.sentEOF = TRUE]
                     /\ m = FromChannel("EOF", e, k, <<>>)
  OBVIOUS
<1>3. k \in Held(e) /\ ~c.sentEOF /\ ~c.sentClose
  BY <1>2 DEF CloseWrite
<1>4. /\ k \in 1 .. Len(chan[e]) /\ c \in ChannelType /\ Local(c) /\ c.stage = "held"
  BY <1>1, <1>2, <1>3, HeldFacts
<1>5. d \in ChannelType
  BY <1>2, <1>4, LocalAfterEOF DEF Follows
<1>6. /\ SameNumbers(c, d) /\ SameTaken(c, d) /\ SameBuffer(c, d) /\ SameCloses(c, d)
      /\ d.readyClosed = c.readyClosed /\ d.sentEOF /\ d.sent = c.sent /\ d.over = c.over
  BY <1>2, <1>4 DEF ChannelType, SameNumbers, SameTaken, SameBuffer, SameCloses
<1>7. IsMessage(m, "EOF", e, k, c.remote, <<>>)
  <2>1. "EOF" \in Ops /\ <<>> \in Seq(Nat)
    BY DEF Ops
  <2> QED  BY <1>1, <1>2, <1>4, <2>1, FromChannelFacts
<1>8. Put(e, k, d) /\ wire' = Sent(wire, e, m) /\ UNCHANGED <<channels, loop, closed>>
  BY <1>2 DEF CloseWrite, Send
<1>9. Speaks(e, m, 0)
  BY <1>1, <1>7, <1>8, SendFacts DEF IsMessage
<1>10. Sends(c, d, wire[e], wire'[e], m, k)
  BY <1>6, <1>7 DEF Sends, IsMessage, IsData
<1> QED  BY <1>2, <1>3, <1>5, <1>6, <1>7, <1>8, <1>9, <1>10, PairedSend DEF IsMessage

(* Channel k closes, or shuts down. *)
LEMMA PairedCloseChannel ==
    ASSUME Sound, Sound', NEW e \in Ends, PairedAt(e), NEW k \in 1 .. Len(chan[e]),
           UNCHANGED <<loop, closed>>, NEW b, b = chan[e][k], b.remote # 0,
           NEW c \in ChannelType, Local(c), Kept(b, c), SameSent(b, c),
           c.sentClose = b.sentClose, c.readyClosed = b.readyClosed, b.gotClose => c.gotClose,
           c.gotClose = b.gotClose \/ Over(c, chan[Other(e)], wire'[Other(e)], k),
           c.closes > 0 \/ c.gotClose,
           c.sentClose => c.gotClose,
           NEW w, NEW s, CloseChannel(e, k, c, w),
           \/ s = 0 /\ w = wire
           \/ s = 1 /\ \E m \in Incoming(e) : m.op = "Close" /\ w = Decoded(e)
    PROVE  PairedAt(e)'
<1>1. Shape /\ Refer /\ Locals
  BY DEF Sound
<1>2. PICK y \in Ends : y = Other(e) /\ y # e
  BY OtherEnd
<1>3. s = 1 => wire[y][1].op \notin {"Confirm", "Data"}
  BY <1>1, <1>2, IncomingFacts DEF Hears
<1>4. Listed(channels[e], b, chan[y], wire[e], wire[y], closed[e], k)
  BY <1>2 DEF PairedAt, Closing
<1>5. CASE /\ ~c.sentClose
           /\ wire' = Sent(w, e, FromChannel("Close", e, k, <<>>))
           /\ Put(e, k, [c EXCEPT !.sentClose = TRUE])
           /\ UNCHANGED channels
  <2>1. PICK m, d : m = FromChannel("Close", e, k, <<>>) /\ d = [c EXCEPT !.sentClose = TRUE]
    OBVIOUS
  <2>2. IsMessage(m, "Close", e, k, b.remote, <<>>)
    <3>1. "Close" \in Ops /\ <<>> \in Seq(Nat)
      BY DEF Ops
    <3> QED  BY <1>1, <2>1, <3>1, FromChannelFacts
  <2>3. d \in ChannelType
    BY <2>1, LocalAfterClose DEF Follows
  <2>4. /\ SameNumbers(c, d) /\ SameTaken(c, d) /\ SameBuffer(c, d) /\ SameSent(c, d)
        /\ d.readyClosed = c.readyClosed /\ d.gotClose = c.gotClose /\ d.sentClose = TRUE
    BY <2>1 DEF ChannelType, SameNumbers, SameTaken, SameBuffer, SameSent
  <2>5. Speaks(e, m, s)
    BY <1>1, <1>5, <2>1, <2>2, SendFacts, AnswerFacts DEF IsMessage
  <2>6. Wires(e, m, s)
    BY <2>5 DEF Speaks, Wires
  <2>7. Kept(b, d) /\ SameSent(b, d)
    <3>1. Kept(c, d)
      BY <2>4, KeptWhenSame
    <3> QED  BY <2>4, <3>1 DEF Kept, SameNumbers, SameTaken, SameSent
  <2>8. d.gotClose = b.gotClose \/ Over(d, chan[y], wire'[y], k)
    BY <1>2, <2>4 DEF Over, SameNumbers
  <2>9. d.readyClosed /\ ~closed'[e] => d.gotClose
    BY <1>4, <2>4 DEF Listed
  <2>10. Mild(e, k, b, d)
    BY <1>2, <1>5, <2>4, <2>7, <2>8, <2>9 DEF Mild
  <2>11. /\ Talk(chan[e], m) /\ ~chan[e][k].sentClose /\ m.src = k /\ m.op = "Close"
         /\ m \in MessageType
    BY <1>5, <2>2 DEF Talk, IsMessage
  <2>12. Put(e, k, d)
    BY <1>5, <2>1
  <2> QED  BY <1>2, <1>3, <1>5, <2>3, <2>6, <2>10, <2>11, <2>12, PairedMild
<1>6. CASE c.sentClose /\ Shut(e, k, c) /\ wire' = w
  <2>1. PICK d : d = ShutDown(c)
    OBVIOUS
  <2>2. /\ d \in ChannelType
        /\ SameNumbers(c, d) /\ SameCloses(c, d) /\ SameSent(c, d) /\ SameTaken(c, d)
        /\ d.readyClosed = TRUE
    BY <2>1, ShutDownFacts
  <2>3. Put(e, k, d) /\ channels' = [channels EXCEPT ![e] = RmCh(e, @, k)]
    BY <1>6, <2>1 DEF Shut
  <2>4. channels'[y] = channels[y]
        /\ \A j \in 1 .. Len(chan[e]) : j # k => channels'[e][j] = channels[e][j]
    <3>1. /\ channels[e] \in Seq(Int) /\ k \in 1 .. Len(channels[e])
          /\ Len(channels[e]) = Len(chan[e])
      BY <1>1, ListFacts DEF Refer, Refers, ListRefers
    <3>2. channels'[e] = RmCh(e, channels[e], k) /\ channels'[y] = channels[y]
      BY <1>1, <1>2, <2>3 DEF Shape
    <3> QED  BY <3>1, <3>2, RmChFacts
  <2>5. Shorter(e, 0) /\ Shorter(y, s)
    BY <1>1, <1>2, <1>6, WireStays, DecodeFacts
  <2>6. PICK m \in MessageType : Wires(e, m, s) /\ ~Longer(e, m)
    BY <1>2, <2>5, Silent
  <2>7. Kept(b, d) /\ SameSent(b, d)
    <3>1. Kept(c, d)
      BY <2>1, KeptWhenShut
    <3> QED  BY <2>2, <3>1 DEF Kept, SameNumbers, SameTaken, SameSent
  <2>8. d.gotClose = b.gotClose \/ Over(d, chan[y], wire'[y], k)
    BY <1>2, <2>2 DEF Over, SameNumbers, SameCloses
  <2>9. Mild(e, k, b, d)
    BY <1>2, <1>6, <2>2, <2>7, <2>8 DEF Mild, SameCloses
  <2> QED  BY <1>2, <1>3, <2>2, <2>3, <2>4, <2>6, <2>9, PairedMild
<1> QED  BY <1>5, <1>6 DEF CloseChannel

LEMMA PairedClose ==
    ASSUME Sound, Sound', NEW e \in Ends, PairedAt(e), ~ClosedTwice', NEW k, Close(e, k)
    PROVE  PairedAt(e)'
<1>1. Shape /\ Refer /\ Locals
  BY DEF Sound
<1>2. PICK b, c : b = chan[e][k] /\ c = [b EXCEPT !.closes = @ + 1]
  OBVIOUS
<1>3. /\ k \in 1 .. Len(chan[e]) /\ b \in ChannelType /\ Local(b) /\ b.stage = "held"
      /\ b.remote # 0
  BY <1>1, <1>2, HeldFacts DEF Close
<1>4. b.closes \in Nat
  BY <1>3, ChannelFields
<1>5. c \in ChannelType /\ Local(c) /\ c.closes = b.closes + 1
  BY <1>2, <1>3, LocalWhenCounted DEF Follows
<1>6. /\ SameNumbers(b, c) /\ SameTaken(b, c) /\ SameBuffer(b, c) /\ SameSent(b, c)
      /\ c.readyClosed = b.readyClosed /\ c.sentClose = b.sentClose /\ c.gotClose = b.gotClose
  BY <1>2, <1>3 DEF ChannelType, SameNumbers, SameTaken, SameBuffer, SameSent
<1>7. Kept(b, c)
  BY <1>6, KeptWhenSame
<1>8. CloseChannel(e, k, c, wire) /\ UNCHANGED <<loop, closed>>
  BY <1>2 DEF Close
<1>9. c.sentClose => c.gotClose
  <2> SUFFICES ASSUME c.sentClose, ~c.gotClose PROVE FALSE
    OBVIOUS
  <2>1. c.closes > 1
    BY <1>3, <1>4, <1>5, <1>6 DEF Local
  <2>2. Put(e, k, ShutDown(c))
    BY <1>8 DEF CloseChannel, Shut
  <2>3. ShutDown(c) \in ChannelType /\ ShutDown(c).closes = c.closes
    BY <1>5, ShutDownFacts DEF SameCloses
  <2>4. chan'[e][k].closes > 1 /\ chan'[e] \in Seq(ChannelType) /\ Len(chan'[e]) = Len(chan[e])
    BY <1>1, <1>3, <2>1, <2>2, <2>3, PutFacts
  <2>5. k \in DOMAIN chan'[e]
    BY <1>3, <2>4, Elements
  <2> QED  BY <2>4, <2>5 DEF ClosedTwice
<1>10. c.closes > 0
  BY <1>4, <1>5
<1> QED  BY <1>2, <1>3, <1>5, <1>6, <1>7, <1>8, <1>9, <1>10, PairedCloseChannel

LEMMA PairedHandleClose ==
    ASSUME Sound, Sound', NEW e \in Ends, PairedAt(e), HandleClose(e)
    PROVE  PairedAt(e)'
<1>1. Shape /\ Refer /\ Locals
  BY DEF Sound
<1>2. PICK m \in Incoming(e) :
        /\ m.op = "Close" /\ GetCh(channels[e], m.to) # Hole
        /\ CloseChannel(e, GetCh(channels[e], m.to),
                        [chan[e][GetCh(channels[e], m.to)] EXCEPT !.gotClose = TRUE], Decoded(e))
  BY DEF HandleClose
<1>3. PICK y \in Ends : y = Other(e) /\ e = Other(y)
  BY OtherEnd
<1>4. /\ m = wire[y][1] /\ Len(wire[y]) \in Nat \ {0} /\ Alive(e)
      /\ m.to \in 1 .. Len(chan[e]) /\ GetCh(channels[e], m.to) = m.to
      /\ m.src \in 1 .. Len(chan[y]) /\ chan[y][m.src].remote = m.to
      /\ chan[e][m.to].remote = m.src
  BY <1>2, <1>3, Decoding DEF Talks
<1>5. PICK k, b, c : k = m.to /\ b = chan[e][k] /\ c = [b EXCEPT !.gotClose = TRUE]
  OBVIOUS
<1>6. k \in 1 .. Len(chan[e]) /\ b \in ChannelType /\ Local(b) /\ b.remote # 0
  <2>1. k \in 1 .. Len(chan[e]) /\ m.src # 0
    BY <1>4, <1>5
  <2> QED  BY <1>1, <1>4, <1>5, <2>1, ChanFacts DEF Locals
<1>7. c \in ChannelType /\ Local(c) /\ c.gotClose
  BY <1>5, <1>6, LocalWhenNoted DEF Follows
<1>8. /\ SameNumbers(b, c) /\ SameTaken(b, c) /\ SameBuffer(b, c) /\ SameSent(b, c)
      /\ c.readyClosed = b.readyClosed /\ c.sentClose = b.sentClose
  BY <1>5, <1>6 DEF ChannelType, SameNumbers, SameTaken, SameBuffer, SameSent
<1>9. Kept(b, c)
  BY <1>8, KeptWhenSame
<1>10. CloseChannel(e, k, c, Decoded(e)) /\ UNCHANGED <<loop, closed>>
  BY <1>2, <1>4, <1>5 DEF HandleClose
<1>11. Shorter(y, 1)
  <2>1. CASE wire' = Decoded(e)
    BY <1>1, <1>3, <2>1, DecodeFacts
  <2>2. CASE wire' = Sent(Decoded(e), e, FromChannel("Close", e, k, <<>>))
    <3>1. "Close" \in Ops /\ <<>> \in Seq(Nat)
      BY DEF Ops
    <3>2. PICK h : h = FromChannel("Close", e, k, <<>>)
      OBVIOUS
    <3>3. IsMessage(h, "Close", e, k, chan[e][k].remote, <<>>)
      BY <1>1, <1>6, <3>1, <3>2, FromChannelFacts
    <3>4. h \in MessageType /\ wire' = Sent(Decoded(e), e, h)
      BY <2>2, <3>2, <3>3 DEF IsMessage
    <3> QED  BY <1>1, <1>3, <3>4, AnswerFacts DEF Speaks
  <2> QED  BY <1>10, <2>1, <2>2 DEF CloseChannel
<1>12. Over(c, chan[y], wire'[y], k)
  <2>1. PICK cs, ps, w, v, v2, live, alive :
          /\ cs = chan[e] /\ ps = chan[y] /\ w = wire[e] /\ v = wire[y] /\ v2 = wire'[y]
          /\ live = Alive(e) /\ alive = Alive(y)
    OBVIOUS
  <2>2. Fit(cs, ps) /\ Fit(ps, cs) /\ Spoken(ps, v) /\ Both(cs, ps, w, v, live, alive)
    BY <1>3, <2>1, SoundFits DEF PairedAt
  <2>3. live /\ Len(v) \in Nat \ {0} /\ m = v[1] /\ m.op \in Talks /\ m.op = "Close"
        /\ c.remote = cs[m.to].remote
    BY <1>2, <1>4, <1>5, <1>8, <2>1 DEF Talks, SameNumbers
  <2>4. Dropped(v, v2, 1)
    BY <1>4, <1>11, <2>1 DEF Shorter, Dropped
  <2>5. m.op = "Close" => Over(c, ps, v2, m.to)
    BY ONLY <2>2, <2>3, <2>4, OverNow
  <2> QED  BY <1>2, <1>5, <2>1, <2>5
<1>13. \E h \in Incoming(e) : h.op = "Close" /\ Decoded(e) = Decoded(e)
  BY <1>2
<1> QED  BY <1>3, <1>5, <1>6, <1>7, <1>8, <1>9, <1>10, <1>12, <1>13, PairedCloseChannel

LEMMA PairedCloseSession ==
    ASSUME Sound, Sound', NEW e \in Ends, PairedAt(e), CloseSession(e), UNCHANGED wire,
           loop'[Other(e)] = loop[Other(e)], loop[e] = "dead" => loop'[e] = "dead"
    PROVE  PairedAt(e)'
<1>1. Shape /\ Refer /\ Locals
  BY DEF Sound
<1>2. PICK y \in Ends : y = Other(e) /\ y # e
  BY OtherEnd
<1>3. /\ closed' = [closed EXCEPT ![e] = TRUE]
      /\ Len(chan'[e]) = Len(chan[e])
      /\ chan'[y] = chan[y] /\ channels'[y] = channels[y]
      /\ \A k \in 1 .. Len(chan[e]) :
           /\ chan'[e][k] \in {chan[e][k], ShutDown(chan[e][k])}
           /\ k \in {channels[e][i] : i \in 1 .. Len(channels[e])} =>
                chan'[e][k] = ShutDown(chan[e][k])
  BY <1>1, <1>2, CloseSessionFacts
<1>4. closed'[e] = TRUE /\ closed'[y] = closed[y]
  BY <1>1, <1>2, <1>3 DEF Shape
<1>5. Still(e)
  BY <1>2, <1>3, <1>4 DEF Still
<1>6. Shorter(e, 0) /\ Shorter(y, 0)
  BY <1>1, WireStays
<1>7. PICK m \in MessageType : Wires(e, m, 0) /\ ~Longer(e, m)
  BY <1>2, <1>6, Silent
<1>8. ASSUME NEW k \in 1 .. Len(chan[e])
      PROVE  Evolves(e, k, m) /\ chan'[e][k].myWindow = chan[e][k].myWindow
  <2>1. PICK c, d : c = chan[e][k] /\ d = chan'[e][k]
    OBVIOUS
  <2>2. c \in ChannelType
    BY <1>1, <2>1, ChanFacts
  <2>3. d = c \/ d = ShutDown(c)
    BY <1>3, <2>1
  <2>4. /\ Kept(c, d) /\ SameSent(c, d) /\ SameCloses(c, d)
        /\ d = c \/ d.readyClosed
    <3>1. CASE d = c
      BY <3>1, SameKept DEF SameCloses
    <3>2. CASE d = ShutDown(c)
      BY <2>2, <3>2, KeptWhenShut, ShutDownFacts
    <3> QED  BY <2>3, <3>1, <3>2
  <2>5. channels[e][k] = k => d.readyClosed
    <3> SUFFICES ASSUME channels[e][k] = k PROVE d.readyClosed
      OBVIOUS
    <3>1. k \in 1 .. Len(channels[e])
      BY <1>1 DEF Refer, Refers, ListRefers
    <3>2. d = ShutDown(c)
      BY <1>3, <2>1, <3>1
    <3> QED  BY <2>2, <3>2, ShutDownFacts
  <2>6. Evolves(e, k, m)
    BY <1>2, <1>4, <1>7, <2>1, <2>4, <2>5, EvolvesMildly DEF SameCloses
  <2> QED  BY <2>1, <2>4, <2>6 DEF Kept, SameTaken
<1>9. TakenAs(chan[e], chan'[e], chan[y], wire[y], 0)
  <2>1. Fit(chan[y], chan[e])
    BY <1>2, SoundFits, OtherEnd
  <2> QED  BY <1>8, <2>1, TakenNothing
<1> QED  BY <1>2, <1>3, <1>5, <1>7, <1>8, <1>9, PairedOn

LEMMA PairedTerminate ==
    ASSUME Sound, Sound', NEW e \in Ends, PairedAt(e), Terminate(e)
    PROVE  PairedAt(e)'
  BY PairedCloseSession DEF Terminate

LEMMA PairedLoopEnds ==
    ASSUME Sound, Sound', NEW e \in Ends, PairedAt(e), LoopEnds(e)
    PROVE  PairedAt(e)'
<1>1. loop'[Other(e)] = loop[Other(e)] /\ loop[e] # "dead"
  BY OtherEnd DEF LoopEnds, Sound, Shape
<1> QED  BY <1>1, PairedCloseSession DEF LoopEnds

(* The number that Confirm brings is noted. *)
LEMMA PairedConfirm ==
    ASSUME Sound, Sound', NEW e \in Ends, PairedAt(e), NEW m \in Incoming(e), m.op = "Confirm",
           NEW k, k = m.to,
           Put(e, k, Push([chan[e][k] EXCEPT !.remote = m.src], TRUE)), wire' = Decoded(e),
           UNCHANGED <<channels, loop, closed>>
    PROVE  PairedAt(e)'
<1>1. Shape /\ Refer /\ Locals
  BY DEF Sound
<1>2. PICK y \in Ends : y = Other(e) /\ e = Other(y) /\ y # e
  BY OtherEnd
<1>3. /\ m = wire[y][1] /\ Len(wire[y]) \in Nat \ {0} /\ k \in 1 .. Len(chan[e])
      /\ channels[e][k] = k /\ m \in MessageType
  BY <1>2, Decoding
<1>4. Shorter(e, 0) /\ Shorter(y, 1)
  BY <1>1, <1>2, DecodeFacts
<1>5. PICK g \in MessageType : Wires(e, g, 1) /\ ~Longer(e, g)
  BY <1>2, <1>4, Silent
<1>6. PICK cs, ps, w, v, cs2, w2, v2, live, alive, o :
        /\ cs = chan[e] /\ ps = chan[y] /\ w = wire[e] /\ v = wire[y]
        /\ cs2 = chan'[e] /\ w2 = wire'[e] /\ v2 = wire'[y]
        /\ live = Alive(e) /\ alive = Alive(y) /\ o = IsOpen
  OBVIOUS
<1>7. /\ Fit(cs, ps) /\ Fit(ps, cs) /\ Spoken(cs, w) /\ Spoken(ps, v) /\ Typed(w) /\ Typed(v)
      /\ Both(cs, ps, w, v, live, alive)
      /\ Closing(channels[e], cs, ps, w, v, closed[e])
      /\ Closing(channels[y], ps, cs, v, w, closed[y])
      /\ Carried(cs, ps, w, v, o) /\ Carried(ps, cs, v, w, o)
  BY <1>2, <1>6, SoundFits DEF PairedAt
<1>8. Dropped(w, w2, 0) /\ Dropped(v, v2, 1) /\ ~Extended(w, w2, g)
  BY <1>2, <1>5, <1>6, WiresFacts DEF Sound
<1>9. Len(v) \in Nat \ {0} /\ v[1] = m /\ v[1].op = "Confirm" /\ v[1].to = k
  BY <1>3, <1>6
<1>10. /\ k \in 1 .. Len(cs) /\ m.src \in 1 .. Len(ps)
       /\ cs[k].mine /\ cs[k].remote = 0
       /\ ps[m.src].myWindow = Window /\ ~NobodyFor(ps, k)
       /\ \A h \in Messages(w) : h.src # k
  BY <1>7, <1>9, ConfirmFacts
<1>11. PICK c, b, d : c = cs[k] /\ b = [c EXCEPT !.remote = m.src] /\ d = Push(b, TRUE)
  OBVIOUS
<1>12. c \in ChannelType /\ Local(c)
  BY <1>1, <1>3, <1>6, <1>11, ChanFacts DEF Locals
<1>13. b \in ChannelType
  BY <1>3, <1>11, <1>12 DEF ChannelType, MessageType
<1>14. /\ d \in ChannelType /\ Pushed(b, d, TRUE)
  BY <1>11, <1>13, PushFacts
<1>15. /\ d.mine = c.mine /\ d.remote = m.src /\ SameCloses(c, d) /\ SameSent(c, d)
       /\ SameTaken(c, d) /\ SameBuffer(c, d) /\ d.readyClosed = c.readyClosed
  <2>1. /\ b.mine = c.mine /\ b.remote = m.src /\ SameCloses(c, b) /\ SameSent(c, b)
        /\ SameTaken(c, b) /\ SameBuffer(c, b) /\ b.readyClosed = c.readyClosed
    BY <1>11, <1>12 DEF ChannelType, SameCloses, SameSent, SameTaken, SameBuffer
  <2> QED  BY <1>14, <2>1
           DEF Pushed, SameNumbers, SameCloses, SameSent, SameTaken, SameBuffer
<1>16. /\ Len(cs2) = Len(cs) /\ cs2[k] = d
       /\ \A j \in 1 .. Len(cs) : j # k => cs2[j] = cs[j]
       /\ chan'[y] = ps
  <2>1. Put(e, k, d)
    BY <1>6, <1>11
  <2>2. chan'[y] = chan[y]
    BY <1>1, <1>2 DEF Put, Shape
  <2> QED  BY <1>1, <1>3, <1>6, <1>14, <2>1, <2>2, PutFacts
<1>17. /\ Fit(cs2, ps) /\ Fit(ps, cs2) /\ Spoken(cs2, w2)
  BY <1>2, <1>6, <1>16, SoundFitsNext
<1>18. Both(cs2, ps, w2, v2, live, alive)
  <2>1. cs2[v[1].to].mine = cs[v[1].to].mine /\ cs2[v[1].to].remote = v[1].src
    BY <1>9, <1>11, <1>15, <1>16
  <2>2. \A j \in 1 .. Len(cs) : j # v[1].to => cs2[j] = cs[j]
    BY <1>9, <1>16
  <2>3. Len(cs2) = Len(cs)
    BY <1>16
  <2> QED  BY ONLY <1>7, <1>8, <1>9, <2>1, <2>2, <2>3, NumberedConfirm
<1>19. c.remote = 0 /\ ~c.gotClose /\ ~c.gotEOF /\ c.myWindow = Window /\ ~c.sentClose
  BY <1>7, <1>10, <1>11 DEF Both, Numbered, Joined
<1>20. Closing(channels[e], cs2, ps, w2, v2, closed[e])
  <2> SUFFICES ASSUME NEW j \in 1 .. Len(cs)
               PROVE  /\ Over(cs2[j], ps, v2, j)
                      /\ Listed(channels[e], cs2[j], ps, w2, v2, closed[e], j)
    BY <1>16 DEF Closing
  <2>1. Over(cs[j], ps, v, j) /\ Listed(channels[e], cs[j], ps, w, v, closed[e], j)
    BY <1>7 DEF Closing
  <2>2. CASE j = k
    <3>1. ~d.gotClose
      BY <1>15, <1>19 DEF SameCloses
    <3>2. d.readyClosed => closed[e]
      BY <1>11, <1>15, <1>19, <2>1, <2>2 DEF Listed
    <3> QED  BY <1>3, <1>16, <2>2, <3>1, <3>2 DEF Over, Listed
  <2>3. CASE j # k
    <3>1. /\ Messages(v2) \subseteq Messages(v)
          /\ Carries(w2, "Open", j) => Carries(w, "Open", j)
      BY <1>8, DroppedMessages, CarriesOn
    <3>2. Over(cs[j], ps, v2, j)
      BY <2>1, <3>1, OverOn
    <3>3. Refused(cs[j], ps, w, v, j) => Refused(cs[j], ps, w2, v2, j)
      BY <3>1, RefusedOn DEF Refused
    <3> QED  BY <1>16, <2>1, <2>3, <3>2, <3>3 DEF Listed
  <2> QED  BY <2>2, <2>3
<1>21. Closing(channels[y], ps, cs2, v2, w2, closed[y])
  <2>1. /\ \A j \in 1 .. Len(cs) : cs[j].sentClose => cs2[j].sentClose
        /\ Messages(v2) \subseteq Messages(v)
    BY <1>8, <1>11, <1>16, <1>19, DroppedMessages
  <2>2. \A j : NobodyFor(cs, j) /\ ~Carries(v, "Open", j) => NobodyFor(cs2, j)
    <3>1. \A r \in 1 .. Len(cs2) : ~cs2[r].mine => r \in 1 .. Len(cs) /\ cs2[r] = cs[r]
      BY <1>10, <1>11, <1>15, <1>16
    <3> QED  BY <3>1 DEF NobodyFor
  <2>3. PICK h : h = [op |-> "Open"]
    OBVIOUS
  <2>4. h.op \notin Talks /\ h.op # "Failure"
    BY <2>3 DEF Talks
  <2>5. Messages(w2) \subseteq Messages(w) \cup {h}
    BY <1>8, DroppedMessages
  <2> QED  BY ONLY <1>7, <1>17, <1>18, <2>1, <2>2, <2>4, <2>5, ClosingHeard
<1>22. Carried(cs2, ps, w2, v2, o) /\ Carried(ps, cs2, v2, w2, o)
  <2> PICK s, o2 : s = 1 /\ o2 = o
    OBVIOUS
  <2>1. \A j \in 1 .. Len(cs) :
          /\ Sends(cs[j], cs2[j], w, w2, g, j) /\ cs2[j] \in ChannelType
          /\ o2 => Extended(w, w2, g) \/ SameSent(cs[j], cs2[j])
    <3> SUFFICES ASSUME NEW j \in 1 .. Len(cs)
                 PROVE  SameSent(cs[j], cs2[j]) /\ cs2[j] \in ChannelType
      BY <1>8 DEF Sends
    <3>1. SameSent(cs[j], cs2[j])
      BY <1>11, <1>15, <1>16 DEF SameSent
    <3> QED  BY <1>16, <1>17, <3>1 DEF Fit
  <2>2. TakenAs(cs, cs2, ps, v, s)
    <3>1. \A j \in 1 .. Len(cs) : cs2[j].myWindow = cs[j].myWindow
      BY <1>11, <1>15, <1>16 DEF SameTaken
    <3>2. v[1].op # "Data"
      BY <1>9
    <3> QED  BY <1>7, <3>1, <3>2, TakenNothing
  <2>3. Fresh(d, ps, w2, k)
    <3>1. d.sent = 0 /\ ~d.gotEOF
      BY <1>12, <1>15, <1>19 DEF Local, SameSent, SameTaken
    <3>2. Received(d, ps) = 0
      BY <1>10, <1>15, WindowAssumption DEF Received
    <3>3. InRow(d.got, d.readBuf)
      <4>1. /\ Total(c.got, c.readBuf) <= Window - c.myWindow /\ Window \in Nat
            /\ Len(c.got) \in Nat /\ Len(c.readBuf) \in Nat
        BY <1>12, ChannelFields DEF Local
      <4>2. PICK p \in Nat, q \in Nat, t \in Nat :
                p = Len(c.got) /\ q = Len(c.readBuf) /\ t = Window
        BY <4>1
      <4>3. p + q <= t - t
        BY <1>19, <4>1, <4>2 DEF Total
      <4>4. p = 0 /\ q = 0
        BY ONLY <4>3, p \in Nat, q \in Nat, t \in Nat
      <4> QED  BY <1>15, <4>2, <4>4 DEF InRow, SameBuffer
    <3>4. ~Carries(w2, "Data", k) /\ ~Carries(w2, "EOF", k)
      BY <1>8, <1>10, DroppedMessages DEF Carries
    <3> QED  BY <3>1, <3>2, <3>3, <3>4 DEF Fresh
  <2>4. \A j \in 1 .. Len(cs2) :
          \/ Fresh(cs2[j], ps, w2, j)
          \/ j \in 1 .. Len(cs) /\ cs2[j].remote = cs[j].remote /\ HeldAll(cs2, ps, v2, j)
    <3> TAKE j \in 1 .. Len(cs2)
    <3>1. CASE j = k
      BY <1>16, <2>3, <3>1
    <3>2. CASE j # k
      <4>1. j \in 1 .. Len(cs) /\ cs2[j] = cs[j]
        BY <1>16, <3>2
      <4>2. Kept(chan[e][j], chan'[e][j]) /\ j \in 1 .. Len(chan[e])
        BY <1>6, <4>1, SameKept
      <4>3. HeldAll(chan'[e], chan[y], wire'[y], j)
        BY <1>2, <1>5, <4>2, HeldKept
      <4> QED  BY <1>6, <4>1, <4>3
    <3> QED  BY <3>1, <3>2
  <2>5. g \in MessageType /\ (o2 => o) /\ (Extended(w, w2, g) => o) /\ Dropped(v, v2, s)
        /\ (Dropped(w, w2, 0) \/ Extended(w, w2, g))
    BY <1>8
  <2>6. Carried(cs2, ps, w2, v2, o2) /\ Carried(ps, cs2, v2, w2, o2)
    BY ONLY <1>7, <1>17, <2>1, <2>2, <2>4, <2>5, CarriedOn
  <2> QED  BY <2>6
<1>23. /\ Alive(e)' = live /\ Alive(y)' = alive /\ IsOpen' = o /\ Other(e)' = y
       /\ channels' = channels /\ closed' = closed
  BY <1>2, <1>6 DEF Alive, IsOpen, Other
<1> QED  BY <1>2, <1>6, <1>16, <1>18, <1>20, <1>21, <1>22, <1>23 DEF PairedAt, Other

LEMMA PairedHandleConfirm ==
    ASSUME Sound, Sound', NEW e \in Ends, PairedAt(e), HandleConfirm(e)
    PROVE  PairedAt(e)'
<1>1. Shape
  BY DEF Sound
<1>2. PICK m \in Incoming(e) :
        LET k == GetCh(channels[e], m.to) IN
        /\ m.op = "Confirm" /\ k # Hole
        /\ \/ /\ ~m.ok
              /\ Dies(e) /\ UNCHANGED chan
           \/ /\ m.ok
              /\ Put(e, k, Push([chan[e][k] EXCEPT !.remote = m.src], TRUE))
              /\ wire' = Decoded(e) /\ UNCHANGED loop
  BY DEF HandleConfirm
<1>3. /\ m = wire[Other(e)][1] /\ GetCh(channels[e], m.to) = m.to
      /\ UNCHANGED <<channels, closed>>
  BY <1>2, Decoding DEF HandleConfirm
<1>4. CASE Dies(e) /\ UNCHANGED chan
  <2>1. Shorter(e, 0) /\ Shorter(Other(e), 1)
    BY <1>1, <1>4, DecodeFacts DEF Dies
  <2>2. loop'[Other(e)] = loop[Other(e)] /\ loop'[e] = "dead"
    BY <1>1, <1>4, OtherEnd DEF Dies, Shape
  <2> QED  BY <1>2, <1>3, <1>4, <2>1, <2>2, PairedAlone
<1>5. CASE /\ Put(e, m.to, Push([chan[e][m.to] EXCEPT !.remote = m.src], TRUE))
           /\ wire' = Decoded(e) /\ UNCHANGED loop
  BY <1>2, <1>3, <1>5, PairedConfirm
<1> QED  BY <1>2, <1>3, <1>4, <1>5

LEMMA NewFacts ==
    ASSUME NEW mine, NEW remote, NEW c, c = NewChannel(mine, remote)
    PROVE  Unused(c) /\ c.mine = mine /\ c.remote = remote /\ c.got = <<>> /\ c.readBuf = <<>>
<1> QED  BY DEF NewChannel, Unused

(* The new channel is under its number, and who was in place stays there. *)
LEMMA AddedInPlace ==
    ASSUME Shape, Refer, NEW e \in Ends, NEW mine, NEW remote, AddChannel(e, mine, remote)
    PROVE  /\ channels'[e][Len(chan[e]) + 1] = Len(chan[e]) + 1
           /\ \A j \in 1 .. Len(chan[e]) : channels[e][j] = j => channels'[e][j] = j
           /\ channels'[Other(e)] = channels[Other(e)]
<1>1. /\ channels[e] \in Seq(Int) /\ Len(chan[e]) \in Nat /\ Len(channels[e]) = Len(chan[e])
  BY ListFacts, ChanFacts DEF Refer, Refers, ListRefers
<1>2. PICK k : k = Len(chan[e]) + 1
  OBVIOUS
<1>3. PICK new : new = AddCh(channels[e], k)
  OBVIOUS
<1>4. Added(channels[e], k, new)
  BY <1>1, <1>2, <1>3, AddChFacts
<1>5. channels'[e] = new /\ channels'[Other(e)] = channels[Other(e)]
  BY <1>2, <1>3, OtherEnd DEF AddChannel, Shape
<1>6. new[k] = k
  BY <1>1, <1>2, <1>4 DEF Added
<1>7. ASSUME NEW j \in 1 .. Len(chan[e]), channels[e][j] = j PROVE new[j] = j
  <2>1. j \in 1 .. Len(channels[e]) /\ channels[e][j] # Undefined
    BY <1>1, <1>7 DEF Undefined
  <2> QED  BY <1>4, <1>7, <2>1 DEF Added
<1> QED  BY <1>2, <1>5, <1>6, <1>7

(* A step makes a channel, and may send m about it. *)
LEMMA PairedAdd ==
    ASSUME Sound, Sound', NEW e \in Ends, PairedAt(e), UNCHANGED closed,
           loop'[Other(e)] = loop[Other(e)], loop[e] # "dead" <=> loop'[e] # "dead",
           NEW mine \in BOOLEAN, NEW remote \in 0 .. Len(chan[Other(e)]),
           ~mine => remote # 0, mine => remote = 0, AddChannel(e, mine, remote),
           NEW m \in MessageType, NEW s, Wires(e, m, s),
           m.op \in {"Open", "Confirm"}, m.src = Len(chan[e]) + 1,
           s = 1 => wire[Other(e)][1].op = "Open",
           mine \/ (s = 1 /\ wire[Other(e)][1].src = remote),
           remote # 0 => chan[Other(e)][remote].myWindow = Window,
           Both(chan'[e], chan[Other(e)], wire'[e], wire'[Other(e)], Alive(e), Alive(Other(e)))
    PROVE  PairedAt(e)'
<1>1. Shape /\ Refer /\ Locals
  BY DEF Sound
<1>2. PICK y \in Ends : y = Other(e) /\ e = Other(y) /\ y # e
  BY OtherEnd
<1>3. PICK cs, ps, w, v, cs2, w2, v2, live, alive, o, o2 :
        /\ cs = chan[e] /\ ps = chan[y] /\ w = wire[e] /\ v = wire[y]
        /\ cs2 = chan'[e] /\ w2 = wire'[e] /\ v2 = wire'[y]
        /\ live = Alive(e) /\ alive = Alive(y) /\ o = IsOpen /\ o2 = o
  OBVIOUS
<1>4. PICK c : c = NewChannel(mine, remote)
  OBVIOUS
<1>5. Unused(c) /\ c.mine = mine /\ c.remote = remote /\ c.got = <<>> /\ c.readBuf = <<>>
  BY <1>4, NewFacts
<1>6. chan'[y] = ps /\ Grows(cs, cs2, c)
  <2>1. /\ Len(chan'[e]) = Len(chan[e]) + 1
        /\ chan'[e][Len(chan[e]) + 1] = NewChannel(mine, remote)
        /\ \A x \in Ends : x # e => chan'[x] = chan[x]
        /\ \A x \in Ends : \A j \in 1 .. Len(chan[x]) : chan'[x][j] = chan[x][j]
    BY <1>1, AddFollows
  <2> QED  BY <1>1, <1>2, <1>3, <1>4, <2>1, ChanFacts DEF Grows
<1>7. /\ Fit(cs, ps) /\ Fit(ps, cs) /\ Spoken(cs, w) /\ Spoken(ps, v) /\ Typed(w) /\ Typed(v)
      /\ Both(cs, ps, w, v, live, alive)
      /\ Closing(channels[e], cs, ps, w, v, closed[e])
      /\ Closing(channels[y], ps, cs, v, w, closed[y])
      /\ Carried(cs, ps, w, v, o) /\ Carried(ps, cs, v, w, o)
  BY <1>2, <1>3, SoundFits DEF PairedAt
<1>8. /\ Fit(cs2, ps) /\ Fit(ps, cs2) /\ Spoken(cs2, w2) /\ Both(cs2, ps, w2, v2, live, alive)
  BY <1>2, <1>3, <1>6, SoundFitsNext
<1>9. /\ Dropped(w, w2, 0) \/ Extended(w, w2, m)
      /\ Dropped(v, v2, s) /\ (Extended(w, w2, m) => o)
      /\ s = 1 => Len(v) \in Nat \ {0}
  BY <1>1, <1>2, <1>3, WiresFacts
<1>10. /\ Messages(w) \subseteq Messages(w2) /\ Messages(w2) \subseteq Messages(w) \cup {m}
       /\ Messages(v2) \subseteq Messages(v)
  <2>1. Messages(v2) \subseteq Messages(v)
    BY <1>9, DroppedMessages
  <2>2. CASE Dropped(w, w2, 0)
    BY <2>1, <2>2, DroppedMessages
  <2>3. CASE Extended(w, w2, m)
    BY <2>1, <2>3, ExtendedMessages
  <2> QED  BY <1>9, <2>2, <2>3
<1>11. mine \/ Carries(v, "Open", remote)
  <2>1. CASE s = 1
    <3>1. v[1] \in Messages(v)
      BY <1>9, <2>1, DroppedMessages
    <3> QED  BY <1>2, <1>3, <2>1, <3>1 DEF Carries
  <2> QED  BY <2>1
<1>12. \A k : NobodyFor(cs, k) /\ ~Carries(v, "Open", k) => NobodyFor(cs2, k)
  BY <1>5, <1>6, <1>11, GrowsNobody
<1>13. \A k \in 1 .. Len(cs) : cs2[k] = cs[k] /\ k \in 1 .. Len(cs2)
  BY <1>6, GrowsFacts DEF Grows
<1>14. Closing(channels'[e], cs2, ps, w2, v2, closed[e])
  <2> SUFFICES ASSUME NEW k \in 1 .. Len(cs2)
               PROVE  /\ Over(cs2[k], ps, v2, k)
                      /\ Listed(channels'[e], cs2[k], ps, w2, v2, closed[e], k)
    BY DEF Closing
  <2>1. CASE k \in 1 .. Len(cs)
    <3>1. /\ Over(cs[k], ps, v, k) /\ Listed(channels[e], cs[k], ps, w, v, closed[e], k)
          /\ cs2[k] = cs[k]
      BY <1>7, <1>13, <2>1 DEF Closing
    <3>2. Over(cs[k], ps, v2, k)
      BY <1>10, <3>1, OverOn
    <3>3. Carries(w2, "Open", k) => Carries(w, "Open", k)
      <4>1. m.src # k
        BY <1>3, <1>6, <2>1, GrowsFacts
      <4> QED  BY <1>10, <4>1 DEF Carries
    <3>4. Refused(cs[k], ps, w, v, k) => Refused(cs[k], ps, w2, v2, k)
      <4> SUFFICES ASSUME Refused(cs[k], ps, w, v, k) PROVE Refused(cs[k], ps, w2, v2, k)
        OBVIOUS
      <4>1. OpenFails(cs[k])
        BY DEF Refused
      <4>2. PICK d : d = cs[k] /\ d.remote = cs[k].remote /\ OpenFails(d)
        BY <4>1
      <4>3. Refused(d, ps, w2, v2, k)
        BY ONLY Refused(cs[k], ps, w, v, k), <1>10, <3>3, <4>2, RefusedOn
      <4> QED  BY <4>2, <4>3
    <3>5. channels[e][k] = k => channels'[e][k] = k
      BY <1>1, <1>3, <2>1, AddedInPlace
    <3> QED  BY <3>1, <3>2, <3>4, <3>5 DEF Listed
  <2>2. CASE k = Len(cs) + 1
    <3>1. cs2[k] = c /\ channels'[e][k] = k
      BY <1>1, <1>3, <1>6, <2>2, AddedInPlace DEF Grows
    <3> QED  BY <1>5, <3>1 DEF Unused, Over, Listed
  <2> QED  BY <1>6, <2>1, <2>2, GrowsFacts
<1>15. Closing(channels[y], ps, cs2, v2, w2, closed[y])
  <2>1. \A j \in 1 .. Len(cs) : cs[j].sentClose => cs2[j].sentClose
    BY <1>13
  <2>2. m.op \notin Talks /\ m.op # "Failure"
    BY DEF Talks
  <2> QED  BY ONLY <1>7, <1>8, <1>10, <1>12, <2>1, <2>2, ClosingHeard
<1>16. Carried(cs2, ps, w2, v2, o2) /\ Carried(ps, cs2, v2, w2, o2)
  <2>1. \A k \in 1 .. Len(cs) :
          /\ Sends(cs[k], cs2[k], w, w2, m, k) /\ cs2[k] \in ChannelType
          /\ o2 => Extended(w, w2, m) \/ SameSent(cs[k], cs2[k])
    <3> SUFFICES ASSUME NEW k \in 1 .. Len(cs)
                 PROVE  /\ SameSent(cs[k], cs2[k]) /\ cs2[k] \in ChannelType
                        /\ m.op \notin {"Data", "EOF"}
      BY DEF Sends
    <3> QED  BY <1>8, <1>13, SameKept DEF Fit
  <2>2. TakenAs(cs, cs2, ps, v, s)
    <3>1. \A k \in 1 .. Len(cs) : cs2[k].myWindow = cs[k].myWindow
      BY <1>13
    <3>2. s = 1 => v[1].op # "Data"
      BY <1>2, <1>3
    <3> QED  BY <1>7, <3>1, <3>2, TakenNothing
  <2>3. \A k \in 1 .. Len(cs2) :
          \/ Fresh(cs2[k], ps, w2, k)
          \/ k \in 1 .. Len(cs) /\ cs2[k].remote = cs[k].remote /\ HeldAll(cs2, ps, v2, k)
    <3> TAKE k \in 1 .. Len(cs2)
    <3>1. CASE k \in 1 .. Len(cs)
      <4>1. Kept(chan[e][k], chan'[e][k]) /\ k \in 1 .. Len(chan[e])
        BY <1>3, <1>13, <3>1, SameKept
      <4>2. HeldAll(chan'[e], chan[y], wire'[y], k)
        BY <1>2, <4>1, HeldKept
      <4> QED  BY <1>3, <1>13, <3>1, <4>2
    <3>2. CASE k = Len(cs) + 1
      <4>1. cs2[k] = c
        BY <1>6, <3>2 DEF Grows
      <4>2. InRow(c.got, c.readBuf)
        BY <1>5 DEF InRow
      <4>3. c.remote # 0 => Received(c, ps) = 0
        <5>1. c.remote # 0 => ps[c.remote].myWindow = Window
          BY <1>2, <1>3, <1>5
        <5> QED  BY <5>1, WindowAssumption DEF Received
      <4>4. ~Carries(w2, "Data", k) /\ ~Carries(w2, "EOF", k)
        <5>1. \A h \in Messages(w) : h.src # k
          <6>1. \A h \in Messages(w) : h.src \in 0 .. Len(cs)
            BY <1>7 DEF Spoken
          <6>2. Len(cs) \in Nat
            BY <1>7 DEF Fit
          <6> QED  BY <3>2, <6>1, <6>2
        <5> QED  BY <1>10, <5>1 DEF Carries
      <4> QED  BY <1>5, <4>1, <4>2, <4>3, <4>4 DEF Fresh, Unused
    <3> QED  BY <1>6, <3>1, <3>2, GrowsFacts
  <2>4. m \in MessageType /\ (o2 => o)
    BY <1>3
  <2>5. Carried(cs2, ps, w2, v2, o2) /\ Carried(ps, cs2, v2, w2, o2)
    BY ONLY <1>7, <1>9, <2>1, <2>2, <2>3, <2>4, CarriedOn
  <2> QED  BY <2>5
<1>17. /\ Alive(e)' = live /\ Alive(y)' = alive /\ IsOpen' = o2 /\ Other(e)' = y
       /\ channels'[y] = channels[y] /\ closed' = closed
  <2>1. Alive(e)' = live
    BY <1>3 DEF Alive
  <2>2. Alive(y)' = alive
    BY <1>2, <1>3 DEF Alive
  <2>3. IsOpen' = o2 /\ Other(e)' = y
    BY <1>2, <1>3 DEF IsOpen, Other
  <2> QED  BY <1>1, <1>2, <2>1, <2>2, <2>3, AddedInPlace
<1> QED  BY <1>2, <1>3, <1>6, <1>8, <1>14, <1>15, <1>16, <1>17 DEF PairedAt, Other

LEMMA PairedOpen ==
    ASSUME Sound, Sound', NEW e \in Ends, PairedAt(e), Open(e)
    PROVE  PairedAt(e)'
<1>1. Shape /\ Refer /\ Locals
  BY DEF Sound
<1>2. PICK y \in Ends : y = Other(e) /\ y # e
  BY OtherEnd
<1>3. Len(chan[e]) \in Nat /\ Len(chan[y]) \in Nat
  BY <1>1, ChanFacts
<1>4. PICK m : m = Message("Open", e, Len(chan[e]) + 1, 0, <<>>)
  OBVIOUS
<1>5. m \in MessageType /\ m.op = "Open" /\ m.src = Len(chan[e]) + 1 /\ m.to = 0
  <2>1. <<>> \in Seq(Nat) /\ "Open" \in Ops /\ 0 \in Nat /\ Len(chan[e]) + 1 \in Nat
    BY <1>3 DEF Ops
  <2>2. IsMessage(m, "Open", e, Len(chan[e]) + 1, 0, <<>>)
    BY <1>4, <2>1, MessageFacts
  <2> QED  BY <2>2 DEF IsMessage
<1>6. Speaks(e, m, 0)
  BY <1>1, <1>4, <1>5, SendFacts DEF Open, Send
<1>7. Wires(e, m, 0)
  BY <1>6 DEF Speaks, Wires
<1>8. AddChannel(e, TRUE, 0) /\ UNCHANGED <<loop, closed>>
  BY DEF Open
<1>9. PICK mine, remote, s : mine = TRUE /\ remote = 0 /\ s = 0
  OBVIOUS
<1>10. PICK c : c = NewChannel(mine, remote)
  OBVIOUS
<1>11. Unused(c) /\ c.mine /\ c.remote = 0
  BY <1>9, <1>10, NewFacts
<1>12. Grows(chan[e], chan'[e], c)
  <2>1. remote \in 0 .. Len(chan[y]) /\ mine \in BOOLEAN
    BY <1>3, <1>9
  <2>2. /\ Len(chan'[e]) = Len(chan[e]) + 1
        /\ chan'[e][Len(chan[e]) + 1] = NewChannel(mine, remote)
        /\ \A x \in Ends : \A j \in 1 .. Len(chan[x]) : chan'[x][j] = chan[x][j]
    BY <1>1, <1>2, <1>8, <1>9, <2>1, AddFollows
  <2> QED  BY <1>3, <1>10, <2>2 DEF Grows
<1>13. Both(chan'[e], chan[y], wire'[e], wire'[y], Alive(e), Alive(y))
  <2>1. PICK cs, ps, w, v, cs2, w2, v2, live, alive :
          /\ cs = chan[e] /\ ps = chan[y] /\ w = wire[e] /\ v = wire[y]
          /\ cs2 = chan'[e] /\ w2 = wire'[e] /\ v2 = wire'[y]
          /\ live = Alive(e) /\ alive = Alive(y)
    OBVIOUS
  <2>2. /\ Fit(cs, ps) /\ Fit(ps, cs) /\ Spoken(cs, w) /\ Spoken(ps, v)
        /\ Both(cs, ps, w, v, live, alive)
    BY <1>2, <2>1, SoundFits, OtherEnd DEF PairedAt
  <2>3. (Dropped(w, w2, 0) \/ Extended(w, w2, m)) /\ Dropped(v, v2, 0)
    BY <1>1, <1>2, <1>7, <2>1, WiresFacts
  <2>4. Grows(cs, cs2, c) /\ m.src = Len(cs) + 1
    BY <1>5, <1>12, <2>1
  <2>5. Both(cs2, ps, w2, v2, live, alive)
    BY ONLY <1>5, <1>11, <2>2, <2>3, <2>4, NumberedOpen
  <2> QED  BY <2>1, <2>5
<1>14. mine \in BOOLEAN /\ remote \in 0 .. Len(chan[y]) /\ mine /\ remote = 0 /\ s # 1
  BY <1>3, <1>9
<1>15. Wires(e, m, s) /\ AddChannel(e, mine, remote)
  BY <1>7, <1>8, <1>9
<1>16. (loop[e] # "dead" <=> loop'[e] # "dead") /\ loop'[y] = loop[y]
  BY <1>8
<1> QED  BY <1>2, <1>5, <1>8, <1>13, <1>14, <1>15, <1>16, PairedAdd

(* What is answered reaches the other end, if that has not ended. *)
LEMMA Heard ==
    ASSUME Shape, NEW e \in Ends, NEW m, NEW s, Speaks(e, m, s), ~closed[e]
    PROVE  Wires(e, m, s) /\ ((Shorter(e, 0) /\ ~Alive(Other(e))) \/ Longer(e, m))
<1> QED  BY DEF Speaks, Wires, Alive

LEMMA PairedTakeIn ==
    ASSUME Sound, Sound', NEW e \in Ends, PairedAt(e), TakeIn(e),
           loop' = [loop EXCEPT ![e] = "writing"], UNCHANGED closed
    PROVE  PairedAt(e)'
<1>1. Shape /\ Refer /\ Locals
  BY DEF Sound
<1>2. PICK y \in Ends : y = Other(e) /\ y # e
  BY OtherEnd
<1>3. Len(chan[e]) \in Nat /\ Len(chan[y]) \in Nat
  BY <1>1, ChanFacts
<1>4. PICK h \in Incoming(e) :
        LET k == Len(chan[e]) + 1 IN
        /\ h.op = "Open" /\ AddChannel(e, FALSE, h.src)
        /\ wire' = Sent(Decoded(e), e, Message("Confirm", e, k, h.src, <<>>))
  BY DEF TakeIn
<1>5. /\ h = wire[y][1] /\ h \in MessageType /\ loop[e] = "reading" /\ ~closed[e]
      /\ Len(wire[y]) \in Nat \ {0} /\ h \in Messages(wire[y])
  BY <1>2, Decoding
<1>6. PICK remote : remote = h.src
  OBVIOUS
<1>7. /\ remote \in 1 .. Len(chan[y]) /\ chan[y][remote].remote = 0
      /\ chan[y][remote].myWindow = Window
  <2>1. PICK cs, ps, w, v, live, alive :
          /\ cs = chan[e] /\ ps = chan[y] /\ w = wire[e] /\ v = wire[y]
          /\ live = Alive(e) /\ alive = Alive(y)
    OBVIOUS
  <2>2. /\ Fit(ps, cs) /\ Spoken(ps, v) /\ Numbered(ps, cs, v, w, live) /\ h \in Messages(v)
    BY <1>2, <1>5, <2>1, SoundFits, OtherEnd DEF PairedAt, Both
  <2>3. /\ Addressed(ps, cs, w, h) /\ (h.op # "Failure" => h.src \in 1 .. Len(ps))
    BY ONLY <2>2, Ends2
  <2>4. h.src \in 1 .. Len(ps) /\ ps[h.src].remote = 0
    BY <1>4, <2>3 DEF Addressed
  <2>5. Joined(ps, cs, v, live, h.src)
    BY <2>2, <2>4 DEF Numbered
  <2> QED  BY <1>6, <2>1, <2>4, <2>5 DEF Joined
<1>8. PICK m : m = Message("Confirm", e, Len(chan[e]) + 1, remote, <<>>)
  OBVIOUS
<1>9. m \in MessageType /\ m.op = "Confirm" /\ m.src = Len(chan[e]) + 1 /\ m.to = remote
  <2>1. /\ <<>> \in Seq(Nat) /\ "Confirm" \in Ops /\ remote \in Nat
        /\ Len(chan[e]) + 1 \in Nat
    BY <1>3, <1>7 DEF Ops
  <2>2. IsMessage(m, "Confirm", e, Len(chan[e]) + 1, remote, <<>>)
    BY <1>8, <2>1, MessageFacts
  <2> QED  BY <2>2 DEF IsMessage
<1>10. PICK mine, s : mine = FALSE /\ s = 1
  OBVIOUS
<1>11. Speaks(e, m, s)
  <2>1. wire' = Sent(Decoded(e), e, m)
    BY <1>4, <1>6, <1>8
  <2> QED  BY <1>1, <1>9, <1>10, <2>1, AnswerFacts
<1>12. Wires(e, m, s) /\ ((Shorter(e, 0) /\ ~Alive(y)) \/ Longer(e, m))
  BY <1>1, <1>2, <1>5, <1>11, Heard
<1>13. /\ mine \in BOOLEAN /\ remote \in 0 .. Len(chan[y]) /\ ~mine /\ remote # 0
       /\ AddChannel(e, mine, remote)
  <2>1. remote \in 0 .. Len(chan[y]) /\ remote # 0
    BY <1>3, <1>7
  <2>2. mine \in BOOLEAN /\ ~mine
    BY <1>10
  <2>3. AddChannel(e, mine, remote)
    BY <1>4, <1>6, <1>10
  <2> QED  BY <2>1, <2>2, <2>3
<1>14. PICK c : c = NewChannel(mine, remote)
  OBVIOUS
<1>15. Unused(c) /\ ~c.mine /\ c.remote = remote
  BY <1>10, <1>14, NewFacts
<1>16. Grows(chan[e], chan'[e], c)
  <2>1. /\ Len(chan'[e]) = Len(chan[e]) + 1
        /\ chan'[e][Len(chan[e]) + 1] = NewChannel(mine, remote)
        /\ \A x \in Ends : \A j \in 1 .. Len(chan[x]) : chan'[x][j] = chan[x][j]
    BY <1>1, <1>2, <1>13, AddFollows
  <2> QED  BY <1>3, <1>14, <2>1 DEF Grows
<1>17. Both(chan'[e], chan[y], wire'[e], wire'[y], Alive(e), Alive(y))
  <2>1. PICK cs, ps, w, v, cs2, w2, v2, live, alive :
          /\ cs = chan[e] /\ ps = chan[y] /\ w = wire[e] /\ v = wire[y]
          /\ cs2 = chan'[e] /\ w2 = wire'[e] /\ v2 = wire'[y]
          /\ live = Alive(e) /\ alive = Alive(y)
    OBVIOUS
  <2>2. /\ Fit(cs, ps) /\ Fit(ps, cs) /\ Spoken(cs, w) /\ Spoken(ps, v)
        /\ Both(cs, ps, w, v, live, alive)
    BY <1>2, <2>1, SoundFits, OtherEnd DEF PairedAt
  <2>3. /\ Dropped(w, w2, 0) \/ Extended(w, w2, m)
        /\ Extended(w, w2, m) <=> Longer(e, m)
        /\ Dropped(v, v2, s)
    BY <1>1, <1>2, <1>12, <2>1, WiresFacts
  <2>4. ((Dropped(w, w2, 0) /\ ~alive) \/ Extended(w, w2, m)) /\ Dropped(v, v2, 1)
    BY <1>10, <1>12, <2>1, <2>3
  <2>5. /\ Grows(cs, cs2, c) /\ m.src = Len(cs) + 1 /\ m.to = v[1].src
        /\ c.remote = v[1].src /\ v[1].op = "Open"
    BY <1>4, <1>5, <1>6, <1>9, <1>15, <1>16, <2>1
  <2>6. Both(cs2, ps, w2, v2, live, alive)
    BY ONLY <1>9, <1>15, <2>2, <2>4, <2>5, NumberedTakeIn
  <2> QED  BY <2>1, <2>6
<1>18. /\ wire[y][1].op = "Open" /\ wire[y][1].src = remote
       /\ loop[e] # "dead" /\ loop'[y] = loop[y]
  BY <1>1, <1>2, <1>4, <1>5, <1>6 DEF Shape
<1>19. loop'[e] # "dead"
  BY <1>1 DEF Shape
<1> QED  BY <1>2, <1>7, <1>9, <1>10, <1>12, <1>13, <1>17, <1>18, <1>19, PairedAdd

LEMMA PairedRefuse ==
    ASSUME Sound, Sound', NEW e \in Ends, PairedAt(e), Refuse(e),
           loop' = [loop EXCEPT ![e] = "writing"], UNCHANGED closed
    PROVE  PairedAt(e)'
<1>1. Shape
  BY DEF Sound
<1>2. PICK y \in Ends : y = Other(e) /\ e = Other(y) /\ y # e
  BY OtherEnd
<1>3. PICK h \in Incoming(e) :
        /\ h.op = "Open" /\ UNCHANGED <<channels, chan>>
        /\ wire' = Sent(Decoded(e), e, Message("Failure", e, 0, h.src, <<>>))
  BY DEF Refuse
<1>4. /\ h = wire[y][1] /\ h \in MessageType /\ loop[e] = "reading" /\ ~closed[e]
      /\ Len(wire[y]) \in Nat \ {0} /\ h \in Messages(wire[y])
  BY <1>2, Decoding
<1>5. PICK m : m = Message("Failure", e, 0, h.src, <<>>)
  OBVIOUS
<1>6. m \in MessageType /\ m.op = "Failure" /\ m.to = h.src
  <2>1. <<>> \in Seq(Nat) /\ "Failure" \in Ops /\ h.src \in Nat /\ 0 \in Nat
    BY <1>4, MessageFields DEF Ops
  <2>2. IsMessage(m, "Failure", e, 0, h.src, <<>>)
    BY <1>5, <2>1, MessageFacts
  <2> QED  BY <2>2 DEF IsMessage
<1>7. PICK s : s = 1
  OBVIOUS
<1>8. Wires(e, m, s)
  <2>1. Speaks(e, m, s)
    BY <1>1, <1>3, <1>5, <1>6, <1>7, AnswerFacts
  <2> QED  BY <1>1, <1>4, <2>1, Heard
<1>9. PICK cs, ps, w, v, w2, v2, live, alive, o, o2 :
        /\ cs = chan[e] /\ ps = chan[y] /\ w = wire[e] /\ v = wire[y]
        /\ w2 = wire'[e] /\ v2 = wire'[y]
        /\ live = Alive(e) /\ alive = Alive(y) /\ o = IsOpen /\ o2 = o
  OBVIOUS
<1>10. /\ Fit(cs, ps) /\ Fit(ps, cs) /\ Spoken(cs, w) /\ Spoken(ps, v) /\ Typed(w) /\ Typed(v)
       /\ Both(cs, ps, w, v, live, alive)
       /\ Closing(channels[e], cs, ps, w, v, closed[e])
       /\ Closing(channels[y], ps, cs, v, w, closed[y])
       /\ Carried(cs, ps, w, v, o) /\ Carried(ps, cs, v, w, o)
  BY <1>2, <1>9, SoundFits DEF PairedAt
<1>11. /\ Dropped(w, w2, 0) \/ Extended(w, w2, m)
       /\ Dropped(v, v2, s) /\ Dropped(v, v2, 1) /\ (Extended(w, w2, m) => o)
  BY <1>1, <1>2, <1>7, <1>8, <1>9, WiresFacts
<1>12. chan'[e] = cs /\ chan'[y] = ps /\ channels' = channels
  BY <1>3, <1>9
<1>13. Spoken(cs, w2)
  BY <1>2, <1>9, <1>12, SoundFitsNext
<1>14. v[1].op = "Open" /\ m.to = v[1].src /\ Carries(v, "Open", m.to)
  BY <1>3, <1>4, <1>6, <1>9 DEF Carries
<1>15. Both(cs, ps, w2, v2, live, alive)
  BY ONLY <1>6, <1>10, <1>11, <1>14, NumberedRefuse
<1>16. /\ Messages(w) \subseteq Messages(w2) /\ Messages(w2) \subseteq Messages(w) \cup {m}
       /\ Messages(v2) \subseteq Messages(v)
  <2>1. Messages(v2) \subseteq Messages(v)
    BY <1>11, DroppedMessages
  <2>2. CASE Dropped(w, w2, 0)
    BY <2>1, <2>2, DroppedMessages
  <2>3. CASE Extended(w, w2, m)
    BY <2>1, <2>3, ExtendedMessages
  <2> QED  BY <1>11, <2>2, <2>3
<1>17. Closing(channels[e], cs, ps, w2, v2, closed[e])
  <2> SUFFICES ASSUME NEW k \in 1 .. Len(cs)
               PROVE  /\ Over(cs[k], ps, v2, k)
                      /\ Listed(channels[e], cs[k], ps, w2, v2, closed[e], k)
    BY DEF Closing
  <2>1. Over(cs[k], ps, v, k) /\ Listed(channels[e], cs[k], ps, w, v, closed[e], k)
    BY <1>10 DEF Closing
  <2>2. Over(cs[k], ps, v2, k)
    BY <1>16, <2>1, OverOn
  <2>3. Carries(w2, "Open", k) => Carries(w, "Open", k)
    BY <1>6, <1>16 DEF Carries
  <2>4. ASSUME Refused(cs[k], ps, w, v, k) PROVE Refused(cs[k], ps, w2, v2, k)
    <3>1. PICK d : d = cs[k] /\ d.remote = cs[k].remote /\ OpenFails(d)
      BY <2>4 DEF Refused
    <3>2. Refused(d, ps, w2, v2, k)
      BY ONLY <1>16, <2>3, <2>4, <3>1, RefusedOn
    <3> QED  BY <3>1, <3>2
  <2> QED  BY <2>1, <2>2, <2>4 DEF Listed
<1>18. Closing(channels[y], ps, cs, v2, w2, closed[y])
  <2>1. \A j \in 1 .. Len(cs) : cs[j].sentClose => cs[j].sentClose
    OBVIOUS
  <2>2. m.op \notin Talks
    BY <1>6 DEF Talks
  <2>3. \A k : NobodyFor(cs, k) /\ ~Carries(v, "Open", k) => NobodyFor(cs, k)
    OBVIOUS
  <2> QED  BY ONLY <1>10, <1>13, <1>14, <1>15, <1>16, <2>1, <2>2, <2>3, ClosingHeard
<1>19. Carried(cs, ps, w2, v2, o2) /\ Carried(ps, cs, v2, w2, o2)
  <2>1. \A k \in 1 .. Len(cs) :
          /\ Sends(cs[k], cs[k], w, w2, m, k) /\ cs[k] \in ChannelType
          /\ o2 => Extended(w, w2, m) \/ SameSent(cs[k], cs[k])
    <3> SUFFICES ASSUME NEW k \in 1 .. Len(cs)
                 PROVE  SameSent(cs[k], cs[k]) /\ cs[k] \in ChannelType
      BY <1>6 DEF Sends
    <3> QED  BY <1>10, SameKept DEF Fit
  <2>2. TakenAs(cs, cs, ps, v, s)
    <3>1. \A k \in 1 .. Len(cs) : cs[k].myWindow = cs[k].myWindow
      OBVIOUS
    <3> QED  BY <1>10, <1>14, <3>1, TakenNothing
  <2>3. \A k \in 1 .. Len(cs) :
          \/ Fresh(cs[k], ps, w2, k)
          \/ k \in 1 .. Len(cs) /\ cs[k].remote = cs[k].remote /\ HeldAll(cs, ps, v2, k)
    <3> TAKE k \in 1 .. Len(cs)
    <3>1. Kept(chan[e][k], chan'[e][k]) /\ k \in 1 .. Len(chan[e])
      BY <1>9, <1>12, SameKept
    <3>2. HeldAll(chan'[e], chan[y], wire'[y], k)
      BY <1>2, <1>8, <3>1, HeldKept
    <3> QED  BY <1>9, <1>12, <3>2
  <2>4. m \in MessageType /\ (o2 => o)
    BY <1>6, <1>9
  <2>5. Carried(cs, ps, w2, v2, o2) /\ Carried(ps, cs, v2, w2, o2)
    BY ONLY <1>10, <1>11, <2>1, <2>2, <2>3, <2>4, CarriedOn
  <2> QED  BY <2>5
<1>20. /\ Alive(e)' = live /\ Alive(y)' = alive /\ IsOpen' = o2 /\ Other(e)' = y
       /\ closed' = closed
  <2>1. loop'[e] # "dead" /\ loop'[y] = loop[y]
    BY <1>1, <1>2 DEF Shape
  <2>2. Alive(e)' = live
    BY <1>4, <1>9, <2>1 DEF Alive
  <2>3. Alive(y)' = alive
    BY <1>9, <2>1 DEF Alive
  <2>4. IsOpen' = o2 /\ Other(e)' = y
    BY <1>2, <1>9 DEF IsOpen, Other
  <2> QED  BY <2>2, <2>3, <2>4
<1> QED  BY <1>2, <1>9, <1>12, <1>15, <1>17, <1>18, <1>19, <1>20 DEF PairedAt, Other

LEMMA PairedHandleOpen ==
    ASSUME Sound, Sound', NEW e \in Ends, PairedAt(e), HandleOpen(e)
    PROVE  PairedAt(e)'
<1> QED  BY PairedRefuse, PairedTakeIn DEF HandleOpen

-----------------------------------------------------------------------------
(* What is never forgotten *)

(* Calls of close, and that the peer has been sent too much. *)
Remembers(c, d) == d.closes >= c.closes /\ (c.over => d.over)

AllRemember ==
    \A x \in Ends : \A k \in 1 .. Len(chan[x]) :
        k \in 1 .. Len(chan'[x]) /\ Remembers(chan[x][k], chan'[x][k])

LEMMA RemembersSame ==
    ASSUME NEW c \in ChannelType, NEW d, d = c \/ (SameCloses(c, d) /\ SameSent(c, d))
    PROVE  Remembers(c, d)
<1>1. c.closes \in Nat
  BY ChannelFields
<1>2. d.closes = c.closes /\ d.over = c.over
  BY DEF SameCloses, SameSent
<1> QED  BY <1>1, <1>2 DEF Remembers

LEMMA RememberUnchanged ==
    ASSUME Sound, UNCHANGED chan
    PROVE  AllRemember
<1> QED  BY ChanFacts, RemembersSame DEF Sound, AllRemember

LEMMA RememberPut ==
    ASSUME Sound, NEW e \in Ends, NEW k \in 1 .. Len(chan[e]), NEW d \in ChannelType,
           Put(e, k, d), Remembers(chan[e][k], d)
    PROVE  AllRemember
<1> SUFFICES ASSUME NEW x \in Ends, NEW j \in 1 .. Len(chan[x])
             PROVE  j \in 1 .. Len(chan'[x]) /\ Remembers(chan[x][j], chan'[x][j])
  BY DEF AllRemember
<1>1. Shape
  BY DEF Sound
<1>2. /\ Len(chan'[x]) = Len(chan[x]) /\ chan'[e][k] = d
      /\ x # e \/ j # k => chan'[x][j] = chan[x][j]
  BY <1>1, PutFacts
<1>3. chan[x][j] \in ChannelType
  BY <1>1, ChanFacts
<1> QED  BY <1>2, <1>3, RemembersSame

LEMMA RememberAdd ==
    ASSUME Sound, NEW e \in Ends, NEW mine \in BOOLEAN, NEW remote \in Nat,
           ~mine => remote # 0, mine => remote = 0, AddChannel(e, mine, remote)
    PROVE  AllRemember
<1>1. Shape
  BY DEF Sound
<1>2. NewChannel(mine, remote) \in ChannelType
  BY LocalWhenNew
<1>3. /\ Len(chan'[e]) = Len(chan[e]) + 1
      /\ \A x \in Ends : x # e => chan'[x] = chan[x]
      /\ \A x \in Ends : \A j \in 1 .. Len(chan[x]) : chan'[x][j] = chan[x][j]
  BY <1>1, <1>2, AddFacts DEF AddChannel
<1> SUFFICES ASSUME NEW x \in Ends, NEW j \in 1 .. Len(chan[x])
             PROVE  j \in 1 .. Len(chan'[x]) /\ Remembers(chan[x][j], chan'[x][j])
  BY DEF AllRemember
<1>4. Len(chan[x]) \in Nat /\ chan[x][j] \in ChannelType /\ chan'[x][j] = chan[x][j]
  BY <1>1, <1>3, ChanFacts
<1>5. j \in 1 .. Len(chan'[x])
  BY <1>3, <1>4
<1> QED  BY <1>4, <1>5, RemembersSame

LEMMA RememberCloseSession ==
    ASSUME Sound, NEW e \in Ends, CloseSession(e)
    PROVE  AllRemember
<1> SUFFICES ASSUME NEW x \in Ends, NEW j \in 1 .. Len(chan[x])
             PROVE  j \in 1 .. Len(chan'[x]) /\ Remembers(chan[x][j], chan'[x][j])
  BY DEF AllRemember
<1>1. Shape
  BY DEF Sound
<1>2. PICK c, d : c = chan[x][j] /\ d = chan'[x][j]
  OBVIOUS
<1>3. c \in ChannelType /\ Len(chan'[x]) = Len(chan[x]) /\ (d = c \/ d = ShutDown(c))
  BY <1>1, <1>2, ChanFacts, CloseSessionFacts
<1>4. d = c \/ (SameCloses(c, d) /\ SameSent(c, d))
  BY <1>3, ShutDownFacts
<1> QED  BY <1>2, <1>3, <1>4, RemembersSame

LEMMA RememberClose ==
    ASSUME Sound, NEW e \in Ends, NEW k \in 1 .. Len(chan[e]), NEW c \in ChannelType,
           Remembers(chan[e][k], c), NEW w, CloseChannel(e, k, c, w)
    PROVE  AllRemember
<1>1. PICK d : d = (IF c.sentClose THEN ShutDown(c) ELSE [c EXCEPT !.sentClose = TRUE])
  OBVIOUS
<1>2. Put(e, k, d)
  BY <1>1 DEF CloseChannel, Shut
<1>3. d \in ChannelType /\ d.closes = c.closes /\ d.over = c.over
  <2>1. CASE c.sentClose
    BY <1>1, <2>1, ShutDownFacts DEF SameCloses, SameSent
  <2>2. CASE ~c.sentClose
    BY <1>1, <2>2 DEF ChannelType
  <2> QED  BY <2>1, <2>2
<1>4. Remembers(chan[e][k], d)
  BY <1>3 DEF Remembers
<1> QED  BY <1>2, <1>3, <1>4, RememberPut

LEMMA RememberApplication ==
    ASSUME Sound, NEW e \in Ends, Application(e)
    PROVE  AllRemember
<1>1. Shape /\ Refer /\ Locals /\ setting.lengths \subseteq Nat /\ setting.bytes[e] \in Nat
  BY SettingFacts DEF Sound
<1>2. CASE Open(e)
  <2>1. PICK mine, remote : mine = TRUE /\ remote = 0
    OBVIOUS
  <2>2. AddChannel(e, mine, remote) /\ mine \in BOOLEAN /\ remote \in Nat /\ mine /\ remote = 0
    BY <1>2, <2>1 DEF Open
  <2> QED  BY <2>2, RememberAdd
<1>3. CASE Accept(e)
  <2> DEFINE k == Head(incoming[e])
             d == [chan[e][k] EXCEPT !.stage = "held"]
  <2>1. k \in 1 .. Len(chan[e]) /\ ~chan[e][k].mine
    <3>1. k = incoming[e][1] /\ Len(incoming[e]) \in Nat \ {0}
      BY <1>1, <1>3, TailOne, IncomingListFacts DEF Accept
    <3>2. 1 \in 1 .. Len(incoming[e])
      BY <3>1
    <3> QED  BY <1>1, <3>1, <3>2 DEF Refer, Refers, IncomingRefers
  <2>2. chan[e][k] \in ChannelType /\ Local(chan[e][k])
    BY <1>1, <2>1, ChanFacts DEF Locals
  <2>3. Put(e, k, d)
    BY <1>3 DEF Accept, Put
  <2>4. d \in ChannelType
    BY <2>1, <2>2, LocalWhenHeld DEF Follows
  <2>5. SameSent(chan[e][k], d) /\ SameCloses(chan[e][k], d)
    BY <2>2 DEF ChannelType, SameSent, SameCloses
  <2> HIDE DEF k, d
  <2> QED  BY <2>1, <2>2, <2>3, <2>4, <2>5, RemembersSame, RememberPut
<1>4. CASE Terminate(e)
  BY <1>4, RememberCloseSession DEF Terminate
<1>5. ASSUME NEW k \in Held(e), NEW len \in setting.lengths, Read(e, k, len) PROVE AllRemember
  <2>1. PICK c, d : c = chan[e][k] /\ d = TryRead(e, chan[e][k], len)
    OBVIOUS
  <2>2. k \in 1 .. Len(chan[e]) /\ c \in ChannelType
    BY <1>1, <2>1, HeldFacts
  <2>3. d \in ChannelType /\ SameCloses(c, d) /\ SameSent(c, d)
    BY <1>1, <2>1, <2>2, TryReadFacts DEF ReadOn
  <2>4. Put(e, k, d)
    BY <1>5, <2>1 DEF Read
  <2> QED  BY <2>1, <2>2, <2>3, <2>4, RemembersSame, RememberPut
<1>6. ASSUME NEW k \in Held(e), NEW n \in 1 .. setting.bytes[e], Write(e, k, n) PROVE AllRemember
  <2>1. PICK c, d :
          /\ c = chan[e][k]
          /\ d = [c EXCEPT !.sent = @ + n, !.over = @ \/ n > MaxPayload \/ c.sent + n > Window]
    OBVIOUS
  <2>2. k \in 1 .. Len(chan[e]) /\ c \in ChannelType /\ Local(c) /\ c.stage = "held" /\ n \in Nat
    BY <1>1, <2>1, HeldFacts
  <2>3. d \in ChannelType
    BY <2>1, <2>2, LocalAfterWrite DEF Follows
  <2>4. d.closes = c.closes /\ (c.over => d.over) /\ c.closes \in Nat
    BY <2>1, <2>2 DEF ChannelType
  <2>5. Put(e, k, d)
    BY <1>6, <2>1 DEF Write
  <2>6. Remembers(c, d)
    BY <2>4 DEF Remembers
  <2> QED  BY <2>1, <2>2, <2>3, <2>5, <2>6, RememberPut
<1>7. ASSUME NEW k \in Held(e), CloseWrite(e, k) PROVE AllRemember
  <2>1. PICK c, d : c = chan[e][k] /\ d = [c EXCEPT !.sentEOF = TRUE]
    OBVIOUS
  <2>2. k \in 1 .. Len(chan[e]) /\ c \in ChannelType /\ Local(c) /\ c.stage = "held"
    BY <1>1, <2>1, HeldFacts
  <2>3. d \in ChannelType
    BY <2>1, <2>2, LocalAfterEOF DEF Follows
  <2>4. d.closes = c.closes /\ (c.over => d.over) /\ c.closes \in Nat
    BY <2>1, <2>2 DEF ChannelType
  <2>5. Put(e, k, d)
    BY <1>7, <2>1 DEF CloseWrite
  <2>6. Remembers(c, d)
    BY <2>4 DEF Remembers
  <2> QED  BY <2>1, <2>2, <2>3, <2>5, <2>6, RememberPut
<1>8. ASSUME NEW k \in Held(e), Close(e, k) PROVE AllRemember
  <2>1. PICK b, c : b = chan[e][k] /\ c = [b EXCEPT !.closes = @ + 1]
    OBVIOUS
  <2>2. k \in 1 .. Len(chan[e]) /\ b \in ChannelType /\ Local(b) /\ b.stage = "held"
    BY <1>1, <2>1, HeldFacts
  <2>3. c \in ChannelType /\ Local(c) /\ c.closes = b.closes + 1
    BY <2>1, <2>2, LocalWhenCounted DEF Follows
  <2>4. c.over = b.over /\ b.closes \in Nat
    BY <2>1, <2>2 DEF ChannelType
  <2>5. CloseChannel(e, k, c, wire)
    BY <1>8, <2>1 DEF Close
  <2>6. Remembers(b, c)
    BY <2>3, <2>4 DEF Remembers
  <2> QED  BY <2>1, <2>2, <2>3, <2>5, <2>6, RememberClose
<1> QED  BY <1>2, <1>3, <1>4, <1>5, <1>6, <1>7, <1>8 DEF Application

LEMMA RememberHandle ==
    ASSUME Sound, NEW e \in Ends, Handle(e)
    PROVE  AllRemember
<1>1. Shape /\ Refer /\ Locals
  BY DEF Sound
<1>2. ASSUME NEW m \in Incoming(e), GetCh(channels[e], m.to) # Hole
      PROVE  /\ GetCh(channels[e], m.to) \in 1 .. Len(chan[e])
             /\ chan[e][GetCh(channels[e], m.to)] \in ChannelType
             /\ Local(chan[e][GetCh(channels[e], m.to)]) /\ m \in MessageType
  <2>1. PICK k : k = GetCh(channels[e], m.to) /\ k # Hole
    BY <1>2
  <2>2. k \in 1 .. Len(chan[e]) /\ m \in MessageType
    <3>1. k \in 1 .. Len(chan[e])
      BY <1>1, <2>1, GetChFacts
    <3> QED  BY <1>1, <3>1, IncomingFacts DEF Hears
  <2>3. chan[e][k] \in ChannelType /\ Local(chan[e][k])
    BY <1>1, <2>2, ChanFacts DEF Locals
  <2> QED  BY <2>1, <2>2, <2>3
<1>3. CASE HandleConfirm(e)
  <2>1. PICK m, k, b, d :
          /\ m \in Incoming(e)
          /\ k = GetCh(channels[e], m.to) /\ k # Hole
          /\ b = [chan[e][k] EXCEPT !.remote = m.src] /\ d = Push(b, TRUE)
          /\ UNCHANGED chan \/ Put(e, k, d)
    BY <1>3 DEF HandleConfirm
  <2>2. k \in 1 .. Len(chan[e]) /\ chan[e][k] \in ChannelType /\ m.src \in Nat
    BY <1>2, <2>1, MessageFields
  <2>3. b \in ChannelType /\ SameCloses(chan[e][k], b) /\ SameSent(chan[e][k], b)
    BY <2>1, <2>2 DEF ChannelType, SameCloses, SameSent
  <2>4. d \in ChannelType /\ SameCloses(b, d) /\ SameSent(b, d)
    BY <2>1, <2>3, PushFacts DEF Pushed
  <2>5. SameCloses(chan[e][k], d) /\ SameSent(chan[e][k], d)
    BY <2>3, <2>4 DEF SameCloses, SameSent
  <2> QED  BY <2>1, <2>2, <2>4, <2>5, RemembersSame, RememberPut, RememberUnchanged
<1>4. CASE HandleFailure(e)
  <2>1. PICK m, k, d :
          /\ m \in Incoming(e)
          /\ k = GetCh(channels[e], m.to) /\ k # Hole /\ d = Push(chan[e][k], FALSE)
          /\ Put(e, k, d)
    BY <1>4 DEF HandleFailure
  <2>2. k \in 1 .. Len(chan[e]) /\ chan[e][k] \in ChannelType
    BY <1>2, <2>1
  <2>3. d \in ChannelType /\ SameCloses(chan[e][k], d) /\ SameSent(chan[e][k], d)
    BY <2>1, <2>2, PushFacts DEF Pushed
  <2> QED  BY <2>1, <2>2, <2>3, RemembersSame, RememberPut
<1>5. CASE ReceiveData(e)
  <2>1. PICK m, k, h, d :
          /\ m \in Incoming(e)
          /\ k = GetCh(channels[e], m.to) /\ k # Hole
          /\ h = HandleData(e, chan[e][k], m.data) /\ d = h.channel
          /\ UNCHANGED chan \/ Put(e, k, d)
    BY <1>5 DEF ReceiveData
  <2>2. k \in 1 .. Len(chan[e]) /\ chan[e][k] \in ChannelType /\ m.data \in Seq(Nat)
    BY <1>2, <2>1, MessageFields
  <2>3. d \in ChannelType /\ Handled(e, chan[e][k], d, m.data, h.threw)
    BY <2>1, <2>2, HandleDataFacts
  <2>4. d = chan[e][k] \/ (SameCloses(chan[e][k], d) /\ SameSent(chan[e][k], d))
    BY <2>3 DEF Handled, TookIn
  <2> QED  BY <2>1, <2>2, <2>3, <2>4, RemembersSame, RememberPut, RememberUnchanged
<1>6. CASE HandleEOF(e)
  <2>1. PICK m, k, d :
          /\ m \in Incoming(e)
          /\ k = GetCh(channels[e], m.to) /\ k # Hole
          /\ d = [chan[e][k] EXCEPT !.gotEOF = TRUE] /\ Put(e, k, d)
    BY <1>6 DEF HandleEOF
  <2>2. k \in 1 .. Len(chan[e]) /\ chan[e][k] \in ChannelType
    BY <1>2, <2>1
  <2>3. d \in ChannelType /\ SameCloses(chan[e][k], d) /\ SameSent(chan[e][k], d)
    BY <2>1, <2>2 DEF ChannelType, SameCloses, SameSent
  <2> QED  BY <2>1, <2>2, <2>3, RemembersSame, RememberPut
<1>7. CASE HandleClose(e)
  <2>1. PICK m, k, c :
          /\ m \in Incoming(e)
          /\ k = GetCh(channels[e], m.to) /\ k # Hole
          /\ c = [chan[e][k] EXCEPT !.gotClose = TRUE] /\ CloseChannel(e, k, c, Decoded(e))
    BY <1>7 DEF HandleClose
  <2>2. k \in 1 .. Len(chan[e]) /\ chan[e][k] \in ChannelType
    BY <1>2, <2>1
  <2>3. c \in ChannelType /\ c.closes = chan[e][k].closes /\ c.over = chan[e][k].over
        /\ chan[e][k].closes \in Nat
    BY <2>1, <2>2 DEF ChannelType
  <2>4. Remembers(chan[e][k], c)
    BY <2>3 DEF Remembers
  <2> QED  BY <2>1, <2>2, <2>3, <2>4, RememberClose
<1> QED  BY <1>3, <1>4, <1>5, <1>6, <1>7 DEF Handle

LEMMA RememberStep ==
    ASSUME Sound, [Next]_vars
    PROVE  AllRemember
<1>1. Shape
  BY DEF Sound
<1>2. CASE UNCHANGED vars
  BY <1>2, RememberUnchanged DEF vars
<1>3. ASSUME NEW e \in Ends, Application(e) PROVE AllRemember
  BY <1>3, RememberApplication
<1>4. ASSUME NEW e \in Ends, Wrote(e) PROVE AllRemember
  <2>1. PICK who, k, d :
          /\ who = Head(pending[e])[1] /\ k = Head(pending[e])[2] /\ d = Shift(chan[e][k], who)
    OBVIOUS
  <2>2. /\ who = "loop" => UNCHANGED chan
        /\ who # "loop" => Put(e, k, d)
        /\ pending[e] # <<>>
    BY <1>4, <2>1 DEF Wrote
  <2>3. Head(pending[e]) = pending[e][1] /\ 1 \in 1 .. Len(pending[e])
    <3>1. Head(pending[e]) = pending[e][1] /\ Len(pending[e]) \in Nat \ {0}
      BY <1>1, <2>2, PendingFacts, TailOne
    <3> QED  BY <3>1
  <2>4. /\ who \in {"open", "close", "loop"} /\ (who # "loop" => k \in 1 .. Len(chan[e]))
    <3>1. PendingRefers(e)
      BY DEF Sound, Refer, Refers
    <3> QED  BY <1>1, <2>1, <2>3, <3>1, PendingFacts DEF PendingRefers
  <2>5. CASE who = "loop"
    BY <2>2, <2>5, RememberUnchanged
  <2>6. CASE who # "loop"
    <3>1. k \in 1 .. Len(chan[e]) /\ who \in {"open", "close"} /\ Put(e, k, d)
      BY <2>2, <2>4, <2>6
    <3>2. chan[e][k] \in ChannelType
      BY <1>1, <3>1, ChanFacts
    <3>3. d \in ChannelType /\ SameCloses(chan[e][k], d) /\ SameSent(chan[e][k], d)
      BY <2>1, <3>1, <3>2, ShiftFacts
    <3> QED  BY <3>1, <3>2, <3>3, RemembersSame, RememberPut
  <2> QED  BY <2>5, <2>6
<1>5. ASSUME NEW e \in Ends, LoopEnds(e) PROVE AllRemember
  BY <1>5, RememberCloseSession DEF LoopEnds
<1>6. ASSUME NEW e \in Ends, LoopBroken(e) PROVE AllRemember
  BY <1>6, RememberUnchanged DEF LoopBroken
<1>7. ASSUME NEW e \in Ends, Receive(e) PROVE AllRemember
  <2>1. CASE HandleOpen(e)
    <3>1. CASE Refuse(e)
      BY <3>1, RememberUnchanged DEF Refuse
    <3>2. CASE TakeIn(e)
      <4>1. PICK m \in Incoming(e) : m.op = "Open" /\ AddChannel(e, FALSE, m.src)
        BY <3>2 DEF TakeIn
      <4>2. m.src \in Nat /\ m.src # 0
        <5>1. /\ Len(wire[Other(e)]) > 0 /\ m = wire[Other(e)][1] /\ m \in MessageType
              /\ Len(wire[Other(e)]) \in Nat /\ Quiet(Other(e))
          BY <1>1, IncomingFacts, WireFacts, OtherEnd DEF Hears, Sound, AllQuiet
        <5>2. 1 \in 1 .. Len(wire[Other(e)])
          BY <5>1
        <5> QED  BY <4>1, <5>1, <5>2, MessageFields DEF Quiet
      <4>3. PICK mine, remote : mine = FALSE /\ remote = m.src
        OBVIOUS
      <4>4. AddChannel(e, mine, remote) /\ mine \in BOOLEAN /\ ~mine /\ remote \in Nat /\ remote # 0
        BY <4>1, <4>2, <4>3
      <4> QED  BY <4>4, RememberAdd
    <3> QED  BY <2>1, <3>1, <3>2 DEF HandleOpen
  <2>2. CASE InvalidChannel(e)
    BY <2>2, RememberUnchanged DEF InvalidChannel
  <2>3. CASE Handle(e)
    BY <2>3, RememberHandle
  <2> QED  BY <1>7, <2>1, <2>2, <2>3 DEF Receive
<1>8. CASE Next
  BY <1>3, <1>4, <1>5, <1>6, <1>7, <1>8 DEF Next
<1> QED  BY <1>2, <1>8

LEMMA ClosedTwiceForGood ==
    ASSUME Sound, Sound', AllRemember, ClosedTwice
    PROVE  ClosedTwice'
<1>1. Shape /\ Shape'
  BY DEF Sound
<1>2. PICK e \in Ends : \E k \in DOMAIN chan[e] : chan[e][k].closes > 1
  BY DEF ClosedTwice
<1>3. PICK k \in DOMAIN chan[e] : chan[e][k].closes > 1
  BY <1>2
<1>4. k \in 1 .. Len(chan[e]) /\ chan[e][k] \in ChannelType
  BY <1>1, <1>3, ChanFacts
<1>5. /\ k \in 1 .. Len(chan'[e]) /\ Remembers(chan[e][k], chan'[e][k])
      /\ chan'[e] \in Seq(ChannelType)
  BY <1>1, <1>4 DEF AllRemember, Shape
<1>6. chan[e][k].closes \in Nat /\ chan'[e][k] \in ChannelType /\ DOMAIN chan'[e] = 1 .. Len(chan'[e])
  BY <1>4, <1>5, ChannelFields, Elements
<1>7. chan'[e][k].closes \in Nat
  BY <1>6, ChannelFields
<1>8. chan'[e][k].closes > 1
  BY <1>3, <1>5, <1>6, <1>7 DEF Remembers
<1> QED  BY <1>5, <1>6, <1>8 DEF ClosedTwice

LEMMA OverrunForGood ==
    ASSUME Sound, Sound', AllRemember, NEW e \in Ends, Overrun(e)
    PROVE  Overrun(e)'
<1>1. Shape /\ Shape'
  BY DEF Sound
<1>2. PICK k \in DOMAIN chan[e] : chan[e][k].over
  BY DEF Overrun
<1>3. k \in 1 .. Len(chan[e])
  BY <1>1, <1>2, ChanFacts
<1>4. k \in 1 .. Len(chan'[e]) /\ chan'[e][k].over /\ chan'[e] \in Seq(ChannelType)
  BY <1>1, <1>2, <1>3 DEF AllRemember, Remembers, Shape
<1>5. DOMAIN chan'[e] = 1 .. Len(chan'[e])
  BY <1>4, Elements
<1> QED  BY <1>4, <1>5 DEF Overrun

-----------------------------------------------------------------------------
(* Every action keeps what joins the two ends *)

LEMMA PairedApplication ==
    ASSUME Sound, Sound', ~ClosedTwice', NEW e \in Ends, PairedAt(e), Application(e)
    PROVE  PairedAt(e)'
<1>1. setting.lengths \subseteq Nat /\ setting.bytes[e] \in Nat
  BY SettingFacts DEF Sound
<1>2. ASSUME NEW k \in Held(e), NEW len \in setting.lengths, Read(e, k, len) PROVE PairedAt(e)'
  BY <1>1, <1>2, PairedRead
<1>3. ASSUME NEW k \in Held(e), NEW n \in 1 .. setting.bytes[e], Write(e, k, n) PROVE PairedAt(e)'
  <2>1. n \in Nat \ {0}
    BY <1>1
  <2> QED  BY <1>3, <2>1, PairedWrite
<1>4. ASSUME NEW k \in Held(e), CloseWrite(e, k) PROVE PairedAt(e)'
  BY <1>4, PairedCloseWrite
<1>5. ASSUME NEW k \in Held(e), Close(e, k) PROVE PairedAt(e)'
  BY <1>5, PairedClose
<1> QED  BY <1>2, <1>3, <1>4, <1>5, PairedOpen, PairedAccept, PairedTerminate DEF Application

LEMMA PairedReceive ==
    ASSUME Sound, Sound', NEW e \in Ends, PairedAt(e), Receive(e)
    PROVE  PairedAt(e)'
<1> QED  BY PairedHandleOpen, PairedInvalidChannel, PairedHandleConfirm, PairedHandleFailure,
            PairedReceiveData, PairedHandleEOF, PairedHandleClose DEF Receive, Handle

LEMMA PairedStep ==
    ASSUME Sound, Sound', ~ClosedTwice', Paired, [Next]_vars
    PROVE  Paired'
<1>1. CASE UNCHANGED vars
  <2>1. UNCHANGED <<chan, wire, channels, closed, loop>>
    BY <1>1 DEF vars
  <2>2. \A e \in Ends : Alive(e)' <=> Alive(e)
    BY <2>1 DEF Alive
  <2>3. IsOpen' <=> IsOpen
    BY <2>1 DEF IsOpen
  <2> SUFFICES ASSUME NEW x \in Ends, NEW y \in Ends, x # y
               PROVE  /\ Numbered(chan[x], chan[y], wire[x], wire[y], Alive(y))'
                      /\ Closing(channels[x], chan[x], chan[y], wire[x], wire[y], closed[x])'
                      /\ Carried(chan[x], chan[y], wire[x], wire[y], IsOpen)'
    BY DEF Paired
  <2>4. /\ Numbered(chan[x], chan[y], wire[x], wire[y], Alive(y))
        /\ Closing(channels[x], chan[x], chan[y], wire[x], wire[y], closed[x])
        /\ Carried(chan[x], chan[y], wire[x], wire[y], IsOpen)
    BY DEF Paired
  <2>5. Numbered(chan[x], chan[y], wire[x], wire[y], Alive(y))'
    BY <2>1, <2>2, <2>4 DEF Numbered, Joined
  <2>6. Closing(channels[x], chan[x], chan[y], wire[x], wire[y], closed[x])'
    BY <2>1, <2>4
  <2>7. Carried(chan[x], chan[y], wire[x], wire[y], IsOpen)'
    BY <2>1, <2>3, <2>4 DEF Carried, Flow, Flows
  <2> QED  BY <2>5, <2>6, <2>7
<1>2. CASE Next
  <2>1. PICK e \in Ends :
          Application(e) \/ Wrote(e) \/ LoopEnds(e) \/ LoopBroken(e) \/ Receive(e)
    BY <1>2 DEF Next
  <2>2. PairedAt(e)
    BY PairedAtOne
  <2>3. PairedAt(e)'
    BY <2>1, <2>2, PairedApplication, PairedWrote, PairedLoopEnds, PairedLoopBroken, PairedReceive
  <2> QED  BY <2>3, PairedAtNext
<1> QED  BY <1>1, <1>2

LEMMA PairedInit ==
    ASSUME Init
    PROVE  Paired
<1> SUFFICES ASSUME NEW x \in Ends, NEW y \in Ends
             PROVE  /\ Numbered(chan[x], chan[y], wire[x], wire[y], Alive(y))
                    /\ Closing(channels[x], chan[x], chan[y], wire[x], wire[y], closed[x])
                    /\ Carried(chan[x], chan[y], wire[x], wire[y], IsOpen)
  BY DEF Paired
<1>1. chan[x] = <<>> /\ wire[x] = <<>> /\ Len(chan[x]) = 0 /\ Len(wire[x]) = 0
  BY DEF Init
<1>2. \A k \in 1 .. Len(chan[x]) : FALSE
  BY <1>1
<1>3. Messages(wire[x]) = {} /\ Single(chan[x]) /\ RefusedOnce(wire[x])
  BY <1>1 DEF Messages, Single, RefusedOnce
<1>4. Numbered(chan[x], chan[y], wire[x], wire[y], Alive(y))
  BY <1>2, <1>3 DEF Numbered
<1>5. Closing(channels[x], chan[x], chan[y], wire[x], wire[y], closed[x])
  BY <1>2 DEF Closing
<1>6. Carried(chan[x], chan[y], wire[x], wire[y], IsOpen)
  BY <1>2 DEF Carried
<1> QED  BY <1>4, <1>5, <1>6

LEMMA IInvStep ==
    ASSUME IInv, [Next]_vars
    PROVE  IInv'
<1>1. Sound /\ Sound'
  BY SoundStep DEF IInv
<1>2. AllRemember
  BY <1>1, RememberStep
<1>3. CASE ClosedTwice
  BY <1>1, <1>2, <1>3, ClosedTwiceForGood DEF IInv
<1>4. CASE ~ClosedTwice /\ ~ClosedTwice'
  <2>1. Paired
    BY <1>4 DEF IInv
  <2> QED  BY <1>1, <1>4, <2>1, PairedStep DEF IInv
<1>5. CASE ClosedTwice'
  BY <1>1, <1>5 DEF IInv
<1> QED  BY <1>3, <1>4, <1>5

-----------------------------------------------------------------------------
(* Who kills a loop *)

LEMMA SettingStays ==
    ASSUME [Next]_vars
    PROVE  UNCHANGED setting /\ (broken => broken')
<1>1. CASE UNCHANGED vars
  BY <1>1 DEF vars
<1>2. ASSUME NEW e \in Ends, Application(e) PROVE UNCHANGED setting /\ (broken => broken')
  <2>1. Open(e) \/ Accept(e) \/ Terminate(e) => UNCHANGED <<setting, broken>>
    BY DEF Open, Accept, Terminate
  <2>2. ASSUME NEW k PROVE /\ \A len : Read(e, k, len) => UNCHANGED <<setting, broken>>
                           /\ \A n : Write(e, k, n) => UNCHANGED <<setting, broken>>
                           /\ CloseWrite(e, k) \/ Close(e, k) => UNCHANGED <<setting, broken>>
    BY DEF Read, Write, CloseWrite, Close
  <2>3. UNCHANGED <<setting, broken>>
    BY <1>2, <2>1, <2>2 DEF Application
  <2> QED  BY <2>3
<1>3. ASSUME NEW e \in Ends, Wrote(e) \/ LoopEnds(e) \/ LoopBroken(e)
      PROVE  UNCHANGED setting /\ (broken => broken')
  BY <1>3 DEF Wrote, LoopEnds, LoopBroken
<1>4. ASSUME NEW e \in Ends, Receive(e) PROVE UNCHANGED setting /\ (broken => broken')
  <2>1. HandleOpen(e) => UNCHANGED <<setting, broken>>
    BY DEF HandleOpen
  <2>2. InvalidChannel(e) => UNCHANGED <<setting, broken>>
    BY DEF InvalidChannel
  <2>3. HandleConfirm(e) \/ HandleFailure(e) => UNCHANGED <<setting, broken>>
    BY DEF HandleConfirm, HandleFailure
  <2>4. ReceiveData(e) => UNCHANGED <<setting, broken>>
    BY DEF ReceiveData
  <2>5. HandleEOF(e) \/ HandleClose(e) => UNCHANGED <<setting, broken>>
    BY DEF HandleEOF, HandleClose
  <2> QED  BY <1>4, <2>1, <2>2, <2>3, <2>4, <2>5 DEF Receive, Handle
<1>5. CASE Next
  BY <1>2, <1>3, <1>4, <1>5 DEF Next
<1> QED  BY <1>1, <1>5

(* The steps in which the loop of e throws. *)
LEMMA DyingStep ==
    ASSUME Shape, Next, NEW e \in Ends, loop[e] # "dead", loop'[e] = "dead"
    PROVE  LoopBroken(e) \/ InvalidChannel(e) \/ HandleConfirm(e) \/ ReceiveData(e)
<1>1. PICK f \in Ends : Application(f) \/ Wrote(f) \/ LoopEnds(f) \/ LoopBroken(f) \/ Receive(f)
  BY DEF Next
<1>2. loop \in [Ends -> {"reading", "writing", "ended", "dead"}]
  BY DEF Shape
<1>3. ~Application(f)
  BY DEF Application, Open, Accept, Terminate, Read, Write, CloseWrite, Close
<1>4. ~Wrote(f)
  <2>1. PICK who : who = Head(pending[f])[1]
    OBVIOUS
  <2>2. SUFFICES ASSUME Wrote(f) PROVE FALSE
    OBVIOUS
  <2>3. loop' = [loop EXCEPT ![f] = "reading"] \/ UNCHANGED loop
    BY <2>1, <2>2 DEF Wrote
  <2> QED  BY <1>2, <2>3
<1>5. ~LoopEnds(f)
  BY <1>2 DEF LoopEnds
<1>6. LoopBroken(f) => f = e
  BY <1>2 DEF LoopBroken
<1>7. CASE Receive(f)
  <2>1. ~HandleOpen(f)
    BY <1>2 DEF HandleOpen
  <2>2. ~HandleFailure(f) /\ ~HandleEOF(f) /\ ~HandleClose(f)
    BY DEF HandleFailure, HandleEOF, HandleClose
  <2>3. InvalidChannel(f) => f = e
    BY <1>2 DEF InvalidChannel, Dies
  <2>4. HandleConfirm(f) => f = e
    <3>1. HandleConfirm(f) => Dies(f) \/ UNCHANGED loop
      BY DEF HandleConfirm
    <3> QED  BY <1>2, <3>1 DEF Dies
  <2>5. ReceiveData(f) => f = e
    <3>1. ReceiveData(f) => Dies(f) \/ UNCHANGED loop
      BY DEF ReceiveData
    <3> QED  BY <1>2, <3>1 DEF Dies
  <2> QED  BY <1>7, <2>1, <2>2, <2>3, <2>4, <2>5 DEF Receive, Handle
<1> QED  BY <1>1, <1>3, <1>4, <1>5, <1>6, <1>7

(* What a loop dies of. *)
Blame(e) ==
    \/ broken
    \/ ClosedTwice
    \/ Other(e) \notin setting.acceptable
    \/ setting.impl[e] = "mux" /\ Overrun(Other(e))

LEMMA BlameStays ==
    ASSUME Sound, Sound', [Next]_vars, NEW e \in Ends, Blame(e)
    PROVE  Blame(e)'
<1>1. AllRemember
  BY RememberStep
<1>2. UNCHANGED setting /\ (broken => broken')
  BY SettingStays
<1>3. ClosedTwice => ClosedTwice'
  BY <1>1, ClosedTwiceForGood
<1>4. Other(e) \in Ends /\ (Other(e))' = Other(e)
  BY OtherEnd DEF Other
<1>5. Overrun(Other(e)) => Overrun(Other(e))'
  <2>1. PICK y \in Ends : y = Other(e)
    BY <1>4
  <2>2. Overrun(y) => Overrun(y)'
    BY <1>1, OverrunForGood
  <2> QED  BY <1>4, <2>1, <2>2
<1> QED  BY <1>2, <1>3, <1>4, <1>5 DEF Blame

LEMMA BlamedConfirm ==
    ASSUME Sound, NEW e \in Ends, HandleConfirm(e), loop[e] # "dead", loop'[e] = "dead"
    PROVE  Blame(e)
<1>1. PICK m \in Incoming(e) : ~m.ok
  <2>1. PICK m \in Incoming(e) : ~m.ok \/ UNCHANGED loop
    BY DEF HandleConfirm
  <2> QED  BY <2>1
<1>2. Other(e) \in Ends /\ Quiet(Other(e)) /\ Shape
  BY OtherEnd DEF Sound, AllQuiet
<1>3. Len(wire[Other(e)]) > 0 /\ m = wire[Other(e)][1] /\ Len(wire[Other(e)]) \in Nat
  BY <1>2, IncomingFacts, WireFacts DEF Hears
<1>4. 1 \in 1 .. Len(wire[Other(e)])
  BY <1>3
<1>5. m.ok = (Other(e) \in setting.acceptable)
  BY <1>2, <1>3, <1>4 DEF Quiet
<1> QED  BY <1>1, <1>5 DEF Blame

LEMMA BlamedData ==
    ASSUME Sound, NEW e \in Ends, PairedAt(e), ReceiveData(e), loop[e] # "dead", loop'[e] = "dead"
    PROVE  Blame(e)
<1>1. PICK m \in Incoming(e) :
        LET k == GetCh(channels[e], m.to)
            handled == HandleData(e, chan[e][k], m.data)
        IN  m.op = "Data" /\ k # Hole /\ (handled.threw \/ UNCHANGED loop)
  BY DEF ReceiveData
<1>2. PICK y \in Ends : y = Other(e)
  BY OtherEnd
<1>3. GetCh(channels[e], m.to) = m.to /\ m.src \in 1 .. Len(chan[y])
  BY <1>1, <1>2, Decoding DEF Talks
<1>4. PICK k, c, p, h, d : /\ k = m.to /\ c = chan[e][k] /\ p = chan[y][m.src]
                           /\ h = HandleData(e, chan[e][k], m.data) /\ d = h.channel
  OBVIOUS
<1>5. h.threw
  BY <1>1, <1>3, <1>4
<1>6. Handled(e, c, d, m.data, h.threw) /\ Heeded(c, d, p, m, h.threw)
  BY <1>1, <1>2, <1>4, DataMet
<1>7. PICK threw : threw = h.threw
  OBVIOUS
<1>8. threw /\ Handled(e, c, d, m.data, threw) /\ Heeded(c, d, p, m, threw)
  BY <1>5, <1>6, <1>7
<1>9. setting.impl[e] = "mux" /\ p.over
  BY <1>8 DEF Handled, Heeded
<1>10. Overrun(y)
  BY <1>2, <1>3, <1>4, <1>9, ChanFacts DEF Overrun, Sound
<1> QED  BY <1>2, <1>9, <1>10 DEF Blame

LEMMA KillStep ==
    ASSUME IInv, OnlyOverrunKills, [Next]_vars
    PROVE  OnlyOverrunKills'
<1>1. Sound /\ Sound' /\ Shape
  BY SoundStep DEF IInv, Sound
<1>2. ASSUME NEW e \in Ends, loop'[e] = "dead" PROVE Blame(e)'
  <2>1. CASE loop[e] = "dead"
    <3>1. Blame(e)
      BY <2>1 DEF OnlyOverrunKills, Blame
    <3> QED  BY <1>1, <3>1, BlameStays
  <2>2. CASE loop[e] # "dead" /\ ClosedTwice
    BY <1>1, <2>2, BlameStays DEF Blame
  <2>3. CASE loop[e] # "dead" /\ ~ClosedTwice
    <3>1. PairedAt(e)
      BY <2>3, PairedAtOne DEF IInv
    <3>2. Next
      BY <1>2, <2>3 DEF vars
    <3>3. LoopBroken(e) \/ InvalidChannel(e) \/ HandleConfirm(e) \/ ReceiveData(e)
      BY <1>1, <1>2, <2>3, <3>2, DyingStep
    <3>4. LoopBroken(e) => Blame(e)'
      BY DEF LoopBroken, Blame
    <3>5. ~InvalidChannel(e)
      BY <1>1, <3>1, PairedInvalidChannel
    <3>6. HandleConfirm(e) \/ ReceiveData(e) => Blame(e)
      BY <1>1, <1>2, <2>3, <3>1, BlamedConfirm, BlamedData
    <3> QED  BY <1>1, <3>3, <3>4, <3>5, <3>6, BlameStays
  <2> QED  BY <2>1, <2>2, <2>3
<1> QED  BY <1>2 DEF OnlyOverrunKills, Blame

-----------------------------------------------------------------------------
(* What the invariant says of the two ends *)

(* cs and w are the channels of an end and what it has on the wire, ps and v *)
(* those of the other, list is the array of the first.                       *)
Facing(cs, ps, w, v, list, live, alive, shut, o) ==
    /\ Fit(cs, ps) /\ Fit(ps, cs) /\ Spoken(cs, w) /\ Spoken(ps, v)
    /\ Both(cs, ps, w, v, live, alive)
    /\ Closing(list, cs, ps, w, v, shut)
    /\ Carried(cs, ps, w, v, o) /\ Carried(ps, cs, v, w, o)

LEMMA FacingFacts ==
    ASSUME Sound, Paired, NEW e \in Ends, NEW y, y = Other(e)
    PROVE  /\ y \in Ends /\ e = Other(y)
           /\ Facing(chan[e], chan[y], wire[e], wire[y], channels[e], Alive(e), Alive(y),
                     closed[e], IsOpen)
<1>1. y \in Ends /\ e = Other(y) /\ y # e
  BY OtherEnd
<1>2. PairedAt(e)
  BY PairedAtOne
<1>3. /\ Fit(chan[e], chan[y]) /\ Fit(chan[y], chan[e])
      /\ Spoken(chan[e], wire[e]) /\ Spoken(chan[y], wire[y])
  BY <1>1, SoundFits
<1> QED  BY <1>1, <1>2, <1>3 DEF Facing, PairedAt

LEMMA ListHolds ==
    ASSUME Sound, ClosedTwice \/ Paired
    PROVE  ListInv
<1>1. Shape /\ Refer /\ Locals
  BY DEF Sound
<1>2. TypeOK
  <2> SUFFICES ASSUME NEW e \in Ends
               PROVE  /\ Len(channels[e]) = Len(chan[e])
                      /\ \A i \in DOMAIN channels[e] :
                            channels[e][i] \in {Hole, Undefined} \cup DOMAIN chan[e]
                      /\ \A k \in DOMAIN chan[e] :
                            /\ chan[e][k].stage \in {"opening", "incoming", "held", "failed"}
                            /\ chan[e][k].myWindow \in 0..Window
                            /\ chan[e][k].waiters \in Seq({"open", "close"})
    BY <1>1 DEF TypeOK, Shape
  <2>1. /\ DOMAIN channels[e] = 1 .. Len(channels[e]) /\ DOMAIN chan[e] = 1 .. Len(chan[e])
        /\ \A k \in 1 .. Len(chan[e]) : chan[e][k] \in ChannelType
    BY <1>1, ListFacts, ChanFacts
  <2>2. ListRefers(e)
    BY <1>1 DEF Refer, Refers
  <2>3. \A c \in ChannelType : /\ c.stage \in {"opening", "incoming", "held", "failed"}
                               /\ c.myWindow \in 0..Window
                               /\ c.waiters \in Seq({"open", "close"})
    BY DEF ChannelType
  <2> QED  BY <2>1, <2>2, <2>3 DEF ListRefers
<1>3. ListedWhileOpen
  <2> SUFFICES ASSUME ~ClosedTwice, NEW e \in Ends, NEW k \in DOMAIN chan[e],
                      ~chan[e][k].readyClosed, chan[e][k].stage \in {"incoming", "held"}
               PROVE  channels[e][k] = k
    BY DEF ListedWhileOpen
  <2>1. k \in 1 .. Len(chan[e])
    BY <1>1, ChanFacts
  <2>2. PICK y : y = Other(e)
    OBVIOUS
  <2>3. Listed(channels[e], chan[e][k], chan[y], wire[e], wire[y], closed[e], k)
    BY <2>1, <2>2, FacingFacts DEF Facing, Closing
  <2>4. chan[e][k].remote # 0
    BY <1>1, <2>1 DEF Locals, Local
  <2> QED  BY <2>3, <2>4 DEF Listed, Refused
<1> QED  BY <1>2, <1>3 DEF ListInv

(* A message of a channel is for the channel it is connected to. *)
ForPeer(cs, ps, list, m) ==
    /\ InPlace(list, cs, m.to) /\ ps[m.src].remote = m.to
    /\ cs[m.to].remote \in {0, m.src}

LEMMA FacingPeer ==
    ASSUME NEW cs, NEW ps, NEW w, NEW v, NEW list, NEW live, NEW alive, NEW shut, NEW o,
           Facing(cs, ps, w, v, list, live, alive, shut, o), shut = FALSE,
           NEW m \in Messages(v), m.op \notin {"Open", "Failure"}
    PROVE  ForPeer(cs, ps, list, m)
<1>1. /\ Fit(cs, ps) /\ Fit(ps, cs) /\ Spoken(ps, v) /\ Both(cs, ps, w, v, live, alive)
      /\ Closing(list, cs, ps, w, v, shut)
  BY DEF Facing
<1>2. InPlace(list, cs, m.to)
  <2>1. m.op # "Open"
    OBVIOUS
  <2> QED  BY ONLY <1>1, <2>1, shut = FALSE, m \in Messages(v), Reaches
<1>3. m.op \in Talks => ps[m.src].remote = m.to /\ cs[m.to].remote \in {0, m.src}
  BY <1>1, TalkFacts DEF Fitting
<1>4. m.op = "Confirm" => ps[m.src].remote = m.to /\ cs[m.to].remote = 0
  BY <1>1 DEF Both, Numbered, Addressed
<1>5. m.op \in Ops
  BY <1>1, MessageFields DEF Spoken
<1> QED  BY <1>2, <1>3, <1>4, <1>5 DEF ForPeer, Talks, Ops

LEMMA RoutedHolds ==
    ASSUME Sound, ClosedTwice \/ Paired
    PROVE  Routed
<1> SUFFICES ASSUME ~ClosedTwice, NEW e \in Ends, NEW i \in DOMAIN wire[e], NEW m, m = wire[e][i],
                    m.op \notin {"Open", "Failure"}, ~closed[Other(e)]
             PROVE  /\ GetCh(channels[Other(e)], m.to) = m.to
                    /\ chan[e][m.src].remote = m.to
                    /\ chan[Other(e)][m.to].remote \in {0, m.src}
  BY DEF Routed
<1>1. Shape /\ Refer /\ Paired
  BY DEF Sound
<1>2. PICK y \in Ends : y = Other(e) /\ e = Other(y)
  BY OtherEnd
<1>3. PICK cs, ps, w, v, list, live, alive, shut, o :
        /\ cs = chan[y] /\ ps = chan[e] /\ w = wire[y] /\ v = wire[e] /\ list = channels[y]
        /\ live = Alive(y) /\ alive = Alive(e) /\ shut = closed[y] /\ o = IsOpen
  OBVIOUS
<1>4. Facing(cs, ps, w, v, list, live, alive, shut, o)
  BY <1>1, <1>2, <1>3, FacingFacts
<1>5. shut = FALSE
  BY <1>1, <1>2, <1>3 DEF Shape
<1>6. m \in Messages(v)
  BY <1>1, <1>3, WireFacts DEF Messages
<1>7. ForPeer(cs, ps, list, m)
  BY <1>4, <1>5, <1>6, FacingPeer
<1>8. GetCh(list, m.to) = m.to
  <2>1. Len(list) = Len(cs) /\ DOMAIN list = 1 .. Len(list)
    BY <1>1, <1>3, ListFacts DEF Refer, Refers, ListRefers
  <2>2. m.to \in 1 .. Len(cs) /\ list[m.to] = m.to /\ m.to > 0
    BY <1>7 DEF ForPeer, InPlace
  <2> QED  BY <2>1, <2>2 DEF GetCh
<1> QED  BY <1>2, <1>3, <1>7, <1>8 DEF ForPeer

(* No more has been taken in, in order, than the peer has sent. *)
Behind(c, peer) == InRow(c.got, c.readBuf) /\ Window - c.myWindow <= peer.sent

LEMMA FacingBehind ==
    ASSUME NEW cs, NEW ps, NEW w, NEW v, NEW list, NEW live, NEW alive, NEW shut, NEW o,
           Facing(cs, ps, w, v, list, live, alive, shut, o),
           NEW k \in 1 .. Len(cs), NEW c, c = cs[k], c.remote # 0,
           NEW peer, peer = ps[c.remote], ~peer.over
    PROVE  Behind(c, peer) /\ peer \in ChannelType
<1>1. /\ Fit(cs, ps) /\ Fit(ps, cs) /\ Both(cs, ps, w, v, live, alive)
      /\ Carried(cs, ps, w, v, o) /\ Carried(ps, cs, v, w, o)
  BY DEF Facing
<1>2. c \in ChannelType /\ c.remote \in 1 .. Len(ps)
  BY <1>1 DEF Fit
<1>3. peer \in ChannelType
  BY <1>1, <1>2 DEF Fit
<1>4. InRow(c.got, c.readBuf)
  BY <1>1 DEF Carried, Buffered
<1>5. /\ peer.remote \in {0, k}
      /\ peer.remote = 0 => c.myWindow = Window
  BY <1>1 DEF Both, Numbered, Joined
<1>6. c.myWindow \in Int /\ Window \in Nat /\ peer.sent \in Nat
  BY <1>2, <1>3, ChannelFields
<1>7. CASE peer.remote = 0
  BY <1>3, <1>4, <1>5, <1>6, <1>7 DEF Behind
<1>8. CASE peer.remote # 0
  <2>1. peer.remote = k /\ cs[peer.remote] = c
    BY <1>5, <1>8
  <2>2. Flow(peer, Received(peer, cs), v, o, c.remote)
    BY <1>1, <1>2 DEF Carried
  <2>3. Received(peer, cs) <= peer.sent
    BY <1>8, <2>2 DEF Flow, Flows
  <2> QED  BY <1>3, <1>4, <2>1, <2>3 DEF Received, Behind
<1> QED  BY <1>7, <1>8

(* What has been read and what waits, one after the other. *)
LEMMA InRowJoined ==
    ASSUME NEW s \in Seq(Nat), NEW t \in Seq(Nat), InRow(s, t)
    PROVE  /\ s \o t = [i \in 1 .. Len(s \o t) |-> i]
           /\ Len(s \o t) = Total(s, t)
<1>1. PICK n \in Nat, b \in Nat : n = Len(s) /\ b = Len(t)
  BY Elements
<1>2. PICK z \in Seq(Nat) : z = s \o t
  BY ConcatProperties
<1>3. /\ Len(z) = n + b
      /\ \A i \in 1 .. n + b : z[i] = IF i <= n THEN s[i] ELSE t[i - n]
  BY <1>1, <1>2, ConcatProperties
<1>4. /\ \A j \in 1 .. n : s[j] = j
      /\ \A j \in 1 .. b : t[j] = n + j
  BY <1>1 DEF InRow
<1>5. ASSUME NEW i \in 1 .. n + b PROVE z[i] = i
  <2>1. CASE i <= n
    BY <1>3, <1>4, <2>1
  <2>2. CASE ~(i <= n)
    <3>1. i - n \in 1 .. b /\ n + (i - n) = i
      BY <2>2
    <3> QED  BY <1>3, <1>4, <2>2, <3>1
  <2> QED  BY <2>1, <2>2
<1>6. z = [i \in 1 .. Len(z) |-> i]
  <2>1. z \in [1 .. Len(z) -> Nat]
    BY <1>2, LenProperties
  <2> QED  BY <1>3, <1>5, <2>1
<1> QED  BY <1>1, <1>2, <1>3, <1>6 DEF Total

LEMMA ReadsHold ==
    ASSUME Sound, ClosedTwice \/ Paired
    PROVE  ReadsInOrder
<1> SUFFICES ASSUME ~ClosedTwice, NEW e \in Ends, NEW k \in DOMAIN chan[e],
                    chan[e][k].remote # 0, ~chan[Other(e)][chan[e][k].remote].over
             PROVE  LET read == chan[e][k].got \o chan[e][k].readBuf
                    IN  /\ read = [i \in 1..Len(read) |-> i]
                        /\ Len(read) <= chan[Other(e)][chan[e][k].remote].sent
  BY DEF ReadsInOrder
<1>1. Shape /\ Locals /\ Paired
  BY DEF Sound
<1>2. PICK c : c = chan[e][k]
  OBVIOUS
<1>3. k \in 1 .. Len(chan[e]) /\ c \in ChannelType /\ Local(c)
  BY <1>1, <1>2, ChanFacts DEF Locals
<1>4. PICK y \in Ends : y = Other(e) /\ e = Other(y)
  BY OtherEnd
<1>5. PICK peer : peer = chan[y][c.remote]
  OBVIOUS
<1>6. PICK cs, ps, w, v, list, live, alive, shut, o :
        /\ cs = chan[e] /\ ps = chan[y] /\ w = wire[e] /\ v = wire[y] /\ list = channels[e]
        /\ live = Alive(e) /\ alive = Alive(y) /\ shut = closed[e] /\ o = IsOpen
  OBVIOUS
<1>7. Facing(cs, ps, w, v, list, live, alive, shut, o)
  BY <1>1, <1>4, <1>6, FacingFacts
<1>8. /\ k \in 1 .. Len(cs) /\ c = cs[k] /\ peer = ps[c.remote]
      /\ c.remote # 0 /\ ~peer.over
  BY <1>2, <1>3, <1>4, <1>5, <1>6
<1>9. Behind(c, peer) /\ peer \in ChannelType
  BY <1>7, <1>8, FacingBehind
<1>10. /\ c.got \in Seq(Nat) /\ c.readBuf \in Seq(Nat) /\ c.myWindow \in Int /\ Window \in Nat
       /\ peer.sent \in Nat
  BY <1>3, <1>9, ChannelFields
<1>11. PICK read : read = c.got \o c.readBuf
  OBVIOUS
<1>12. read = [i \in 1 .. Len(read) |-> i] /\ Len(read) = Total(c.got, c.readBuf)
  BY <1>9, <1>10, <1>11, InRowJoined DEF Behind
<1>13. Len(read) <= peer.sent
  <2>1. PICK n : n = Total(c.got, c.readBuf)
    OBVIOUS
  <2>2. n \in Nat /\ n <= Window - c.myWindow
    BY <1>3, <1>10, <2>1, TotalFacts DEF Local
  <2>3. Window - c.myWindow <= peer.sent
    BY <1>9 DEF Behind
  <2>4. n <= peer.sent
    BY <1>10, <2>2, <2>3
  <2> QED  BY <1>12, <2>1, <2>4
<1> QED  BY <1>2, <1>4, <1>5, <1>11, <1>12, <1>13

LEMMA EofHolds ==
    ASSUME Sound, ClosedTwice \/ Paired
    PROVE  EofMeansAll
<1> SUFFICES ASSUME NEW e \in Ends, NEW k \in DOMAIN chan[e], ~ClosedTwice,
                    NEW c, c = chan[e][k], NEW peer, peer = chan[Other(e)][c.remote],
                    c.told, ~c.readyClosed
             PROVE  c.remote # 0 /\ peer.sentEOF /\ (peer.over \/ Len(c.got) = peer.sent)
  BY DEF EofMeansAll
<1>1. Shape /\ Locals /\ Paired
  BY DEF Sound
<1>2. k \in 1 .. Len(chan[e]) /\ Local(c)
  BY <1>1, ChanFacts DEF Locals
<1>3. c.gone /\ c.gotEOF
  BY <1>2 DEF Local
<1>4. HasAll(c, peer, wire[Other(e)])
  BY <1>1, <1>2, FacingFacts DEF Facing, Carried
<1> QED  BY <1>3, <1>4 DEF HasAll, Settled

(* Only the end of a session closes the connection. *)
LEMMA ClosingStep ==
    ASSUME Shape, Next, NEW e \in Ends, ~closed[e], closed'[e]
    PROVE  CloseSession(e)
<1>1. PICK f \in Ends : Application(f) \/ Wrote(f) \/ LoopEnds(f) \/ LoopBroken(f) \/ Receive(f)
  BY DEF Next
<1>2. ~Wrote(f) /\ ~LoopBroken(f)
  BY DEF Wrote, LoopBroken
<1>3. ~Receive(f)
  <2>1. ~HandleOpen(f) /\ ~InvalidChannel(f)
    BY DEF HandleOpen, InvalidChannel
  <2>2. ~HandleConfirm(f) /\ ~HandleFailure(f) /\ ~ReceiveData(f)
    BY DEF HandleConfirm, HandleFailure, ReceiveData
  <2>3. ~HandleEOF(f) /\ ~HandleClose(f)
    BY DEF HandleEOF, HandleClose
  <2> QED  BY <2>1, <2>2, <2>3 DEF Receive, Handle
<1>4. Application(f) => CloseSession(f)
  <2>1. ~Open(f) /\ ~Accept(f)
    BY DEF Open, Accept
  <2>2. ASSUME NEW k PROVE /\ \A len : ~Read(f, k, len)
                           /\ \A n : ~Write(f, k, n)
                           /\ ~CloseWrite(f, k) /\ ~Close(f, k)
    BY DEF Read, Write, CloseWrite, Close
  <2>3. Terminate(f) => CloseSession(f)
    BY DEF Terminate
  <2> QED  BY <2>1, <2>2, <2>3 DEF Application
<1>5. CloseSession(f)
  BY <1>1, <1>2, <1>3, <1>4 DEF LoopEnds
<1>6. f = e
  <2>1. closed' = [closed EXCEPT ![f] = TRUE]
    BY <1>5 DEF CloseSession
  <2> QED  BY <2>1 DEF Shape
<1> QED  BY <1>5, <1>6

LEMMA EndStep ==
    ASSUME IInv, Sound', [Next]_vars
    PROVE  \A e \in Ends :
              /\ closed'[e] /\ ~closed[e] =>
                  \A k \in DOMAIN chan[e] :
                      ClosedTwice \/ OpenFails(chan[e][k]) \/ chan'[e][k].readyClosed
              /\ \A k \in DOMAIN chan'[e] :
                  chan'[e][k].readyClosed => chan'[e][k].readers = <<>> /\ chan'[e][k].waiters = <<>>
<1>1. Sound /\ Shape /\ Refer /\ Shape' /\ Locals'
  BY DEF IInv, Sound
<1>2. ASSUME NEW e \in Ends, ~closed[e], closed'[e], ~ClosedTwice, NEW k \in DOMAIN chan[e]
      PROVE  OpenFails(chan[e][k]) \/ chan'[e][k].readyClosed
  <2>1. CloseSession(e)
    BY <1>1, <1>2, ClosingStep DEF vars
  <2>2. PICK c, d : c = chan[e][k] /\ d = chan'[e][k]
    OBVIOUS
  <2>3. k \in 1 .. Len(chan[e]) /\ k \in 1 .. Len(channels[e]) /\ c \in ChannelType
    BY <1>1, <1>2, <2>2, ChanFacts DEF Refer, Refers, ListRefers
  <2>4. /\ d = c \/ d = ShutDown(c)
        /\ channels[e][k] = k => d = ShutDown(c)
    <3>1. channels[e][k] = k => k \in {channels[e][i] : i \in 1 .. Len(channels[e])}
      BY <2>3
    <3>2. /\ chan'[e][k] \in {chan[e][k], ShutDown(chan[e][k])}
          /\ k \in {channels[e][i] : i \in 1 .. Len(channels[e])} =>
                chan'[e][k] = ShutDown(chan[e][k])
      BY <1>1, <2>1, <2>3, CloseSessionFacts
    <3> QED  BY <2>2, <3>1, <3>2
  <2>5. d = ShutDown(c) => d.readyClosed
    BY <2>3, ShutDownFacts
  <2>6. PICK y : y = Other(e)
    OBVIOUS
  <2>7. Listed(channels[e], c, chan[y], wire[e], wire[y], closed[e], k)
    BY <1>1, <1>2, <2>2, <2>3, <2>6, FacingFacts DEF IInv, Facing, Closing
  <2>8. channels[e][k] = k \/ c.readyClosed \/ OpenFails(c)
    BY <2>7 DEF Listed, Refused
  <2> QED  BY <2>2, <2>4, <2>5, <2>8
<1>3. ASSUME NEW e \in Ends, NEW k \in DOMAIN chan'[e], chan'[e][k].readyClosed
      PROVE  chan'[e][k].readers = <<>> /\ chan'[e][k].waiters = <<>>
  <2>1. k \in 1 .. Len(chan'[e])
    BY <1>1, Elements DEF Shape
  <2> QED  BY <1>1, <1>3, <2>1 DEF Locals, Local
<1> QED  BY <1>2, <1>3

-----------------------------------------------------------------------------
(* Theorems *)

(* Until a channel is closed twice the two ends agree: on the numbers they    *)
(* have given out, on which channels are over, and on the bytes under way,    *)
(* for any windows, numbers of channels and amounts of data, and whenever     *)
(* either session ends.                                                       *)
THEOREM PairedInvariance == Spec => []IInv
<1>1. Init => IInv
  BY SoundInit, PairedInit DEF IInv
<1>2. IInv /\ [Next]_vars => IInv'
  BY IInvStep
<1> QED  BY <1>1, <1>2, PTL DEF Spec

(* The array of channels: addCh, rmCh and the holes and undefined elements   *)
(* they leave never take away the number of a channel in use, however        *)
(* opening, refusing, closing and the end of the session come together.      *)
THEOREM ArrayIsRight == Spec => []ListInv
<1>1. IInv => ListInv
  BY ListHolds DEF IInv
<1> QED  BY <1>1, PairedInvariance, PTL

(* Until a channel is closed twice, what a channel has sent finds the channel *)
(* it is connected to, whatever has been added to the array and taken out of  *)
(* it meanwhile: getCh does not throw.                                        *)
THEOREM MessagesAreRouted == Spec => []Routed
<1>1. IInv => Routed
  BY RoutedHolds DEF IInv
<1> QED  BY <1>1, PairedInvariance, PTL

(* handleData and read hand over what the peer wrote, in order and without a  *)
(* gap, however reads that wait and data that arrive alternate, until the     *)
(* peer overruns the window or a channel is closed twice.                     *)
THEOREM BytesInOrder == Spec => []ReadsInOrder
<1>1. IInv => ReadsInOrder
  BY ReadsHold DEF IInv
<1> QED  BY <1>1, PairedInvariance, PTL

(* A read tells its caller of the end only after all that the peer wrote      *)
(* before its closeWrite has been read, or when the channel is closed.        *)
THEOREM EofIsTheEnd == Spec => []EofMeansAll
<1>1. IInv => EofMeansAll
  BY EofHolds DEF IInv
<1> QED  BY <1>1, PairedInvariance, PTL

(* The loop throws only when the connection broke within a message, a channel *)
(* was closed twice, packet sizes do not fit, or the peer overran a window:   *)
(* the errors of getCh, handleConfirm and handleData have no other cause.     *)
THEOREM LoopsSurviveOrder == Spec => []OnlyOverrunKills
<1>1. Init => OnlyOverrunKills
  BY DEF Init, OnlyOverrunKills
<1>2. IInv /\ OnlyOverrunKills /\ [Next]_vars => OnlyOverrunKills'
  BY KillStep
<1> QED  BY <1>1, <1>2, PairedInvariance, PTL DEF Spec

(* Session.close and the end of the loop shut down every channel but those    *)
(* that were refused, and a shutdown leaves no read, open or close waiting.   *)
THEOREM EndIsTold == Spec => EndTellsAll
<1>1. IInv /\ IInv' /\ [Next]_vars =>
        [\A e \in Ends :
            /\ closed'[e] /\ ~closed[e] =>
                \A k \in DOMAIN chan[e] :
                    ClosedTwice \/ OpenFails(chan[e][k]) \/ chan'[e][k].readyClosed
            /\ \A k \in DOMAIN chan'[e] :
                chan'[e][k].readyClosed => chan'[e][k].readers = <<>> /\ chan'[e][k].waiters = <<>>]_vars
  BY EndStep DEF IInv
<1> QED  BY <1>1, PairedInvariance, PTL DEF Spec, EndTellsAll
=============================================================================
