--------------------------- MODULE ServingProofs ---------------------------
(***************************************************************************)
(* Theorems about Serving: every session is served and every channel       *)
(* answered once and in order, for any number of clients, loops and        *)
(* channels.                                                               *)
(***************************************************************************)
EXTENDS ServingInvariant, SequenceTheorems, TLAPS

-----------------------------------------------------------------------------
(* Sequences *)

LEMMA AppendOne ==
    ASSUME NEW S, NEW s \in Seq(S), NEW x \in S
    PROVE  /\ Append(s, x) \in Seq(S)
           /\ Len(s) \in Nat
           /\ Len(Append(s, x)) = Len(s) + 1
           /\ \A i \in 1 .. Len(s) : Append(s, x)[i] = s[i]
           /\ Append(s, x)[Len(s) + 1] = x
  BY AppendProperties

LEMMA TailOne ==
    ASSUME NEW S, NEW s \in Seq(S), s # <<>>
    PROVE  /\ Tail(s) \in Seq(S)
           /\ Head(s) = s[1] /\ s[1] \in S
           /\ Len(s) \in Nat \ {0}
           /\ Len(Tail(s)) = Len(s) - 1
           /\ \A i \in 1 .. Len(s) - 1 : Tail(s)[i] = s[i + 1]
  BY HeadTailProperties, EmptySeq

LEMMA Elements ==
    ASSUME NEW S, NEW s \in Seq(S)
    PROVE  /\ Len(s) \in Nat /\ DOMAIN s = 1 .. Len(s)
           /\ \A i \in 1 .. Len(s) : s[i] \in S
  BY ElementOfSeq

LEMMA Listing ==
    ASSUME NEW S, NEW n \in Nat, NEW s \in [1 .. n -> S]
    PROVE  s \in Seq(S) /\ Len(s) = n
<1>1. s \in Seq(S)
  BY SeqDef
<1>2. DOMAIN s = 1 .. n
  OBVIOUS
<1> QED  BY <1>1, <1>2, LenProperties

Joined(s, t, u) ==
    /\ Len(u) = Len(s) + Len(t)
    /\ \A i \in 1 .. Len(s) : u[i] = s[i]
    /\ \A i \in 1 .. Len(t) : u[Len(s) + i] = t[i]

LEMMA Joining ==
    ASSUME NEW S, NEW s \in Seq(S), NEW t \in Seq(S)
    PROVE  s \o t \in Seq(S) /\ Joined(s, t, s \o t)
<1>1. /\ s \o t \in Seq(S) /\ Len(s \o t) = Len(s) + Len(t)
      /\ \A i \in 1 .. Len(s) + Len(t) :
            (s \o t)[i] = IF i <= Len(s) THEN s[i] ELSE t[i - Len(s)]
  BY ConcatProperties
<1>2. PICK m \in Nat, n \in Nat : m = Len(s) /\ n = Len(t)
  OBVIOUS
<1>3. ASSUME NEW i \in 1 .. m PROVE (s \o t)[i] = s[i]
  BY <1>1, <1>2
<1>4. ASSUME NEW i \in 1 .. n PROVE (s \o t)[m + i] = t[i]
  <2>1. m + i \in 1 .. m + n /\ ~(m + i <= m) /\ (m + i) - m = i
    OBVIOUS
  <2> QED  BY <1>1, <1>2, <2>1
<1> QED  BY <1>1, <1>2, <1>3, <1>4 DEF Joined

-----------------------------------------------------------------------------
(* What is in line *)

(* g is h and what somebody is handed. *)
OneMore(h, g, x) ==
    /\ Len(g) = Len(h) + 1
    /\ \A i \in 1 .. Len(h) : g[i] = h[i]
    /\ g[Len(h) + 1][2] = x

(* g is h and m who are told that there is nothing. *)
ToldEnd(h, g, m) ==
    /\ Len(g) = Len(h) + m
    /\ \A i \in 1 .. Len(h) : g[i] = h[i]
    /\ \A i \in 1 .. m : g[Len(h) + i][2] = Undefined

(* A value joins the end of the queue. *)
LEMMA JoinsQueue ==
    ASSUME NEW V, NEW H, NEW q \in Seq(V), NEW h \in Seq(H), NEW closed,
           NEW taken \in Seq(V), NEW came \in Seq(V), NEW n \in 0 .. Len(h),
           InLine(q, h, closed, taken, came, n), NEW v \in V
    PROVE  InLine(Append(q, v), h, closed, taken, Append(came, v), n)
<1>1. PICK a \in Nat, b \in Nat, k \in Nat, c \in Nat :
        a = Len(q) /\ b = Len(h) /\ k = Len(taken) /\ c = Len(came)
  OBVIOUS
<1>2. /\ n \in Nat /\ n <= b /\ c = k + n + a
      /\ \A i \in 1 .. b : h[i][2] = IF i <= n THEN came[k + i] ELSE Undefined
      /\ n < b => closed
      /\ \A i \in 1 .. k : taken[i] = came[i]
      /\ \A i \in 1 .. a : q[i] = came[k + n + i]
  BY <1>1 DEF InLine
<1>3. PICK q2, now : q2 = Append(q, v) /\ now = Append(came, v)
  OBVIOUS
<1>4. /\ Len(q2) = a + 1 /\ \A i \in 1 .. a : q2[i] = q[i]
      /\ q2[a + 1] = v
  BY <1>1, <1>3, AppendOne
<1>5. /\ Len(now) = c + 1 /\ \A i \in 1 .. c : now[i] = came[i]
      /\ now[c + 1] = v
  BY <1>1, <1>3, AppendOne
<1>6. ASSUME NEW i \in 1 .. b PROVE h[i][2] = IF i <= n THEN now[k + i] ELSE Undefined
  <2>1. CASE i <= n
    <3>1. k + i \in 1 .. c
      BY <1>2, <2>1
    <3> QED  BY <1>2, <1>5, <2>1, <3>1
  <2>2. CASE ~(i <= n)
    BY <1>2, <2>2
  <2> QED  BY <2>1, <2>2
<1>7. ASSUME NEW i \in 1 .. k PROVE taken[i] = now[i]
  <2>1. i \in 1 .. c
    BY <1>2
  <2> QED  BY <1>2, <1>5, <2>1
<1>8. ASSUME NEW i \in 1 .. a + 1 PROVE q2[i] = now[k + n + i]
  <2>1. CASE i \in 1 .. a
    <3>1. k + n + i \in 1 .. c
      BY <1>2, <2>1
    <3> QED  BY <1>2, <1>4, <1>5, <2>1, <3>1
  <2>2. CASE i = a + 1
    <3>1. k + n + i = c + 1
      BY <1>2, <2>2
    <3> QED  BY <1>4, <1>5, <2>2, <3>1
  <2> QED  BY <2>1, <2>2
<1>9. c + 1 = k + n + (a + 1)
  BY <1>2
<1>10. InLine(q2, h, closed, taken, now, n)
  BY <1>1, <1>2, <1>4, <1>5, <1>6, <1>7, <1>8, <1>9 DEF InLine
<1> QED  BY <1>3, <1>10

(* A value is handed to who waits. *)
GivenOn(q, h, g, closed, taken, came, n, v) ==
    n = Len(h) /\ InLine(q, g, closed, taken, Append(came, v), n + 1)

LEMMA HandedOn ==
    ASSUME NEW V, NEW H, NEW q \in Seq(V), Len(q) = 0, NEW h \in Seq(H), NEW closed \in BOOLEAN, ~closed,
           NEW taken \in Seq(V), NEW came \in Seq(V), NEW n \in 0 .. Len(h),
           InLine(q, h, closed, taken, came, n), NEW v \in V,
           NEW g \in Seq(H), OneMore(h, g, v)
    PROVE  GivenOn(q, h, g, closed, taken, came, n, v)
<1>1. PICK b \in Nat, k \in Nat, c \in Nat :
        b = Len(h) /\ k = Len(taken) /\ c = Len(came)
  OBVIOUS
<1>2. /\ n \in Nat /\ n = b /\ c = k + n /\ Len(q) = 0
      /\ \A i \in 1 .. b : h[i][2] = came[k + i]
      /\ \A i \in 1 .. k : taken[i] = came[i]
  BY <1>1 DEF InLine
<1>3. PICK now : now = Append(came, v)
  OBVIOUS
<1>4. /\ Len(now) = c + 1 /\ \A i \in 1 .. c : now[i] = came[i]
      /\ now[c + 1] = v
  BY <1>1, <1>3, AppendOne
<1>5. Len(g) = b + 1 /\ (\A i \in 1 .. b : g[i] = h[i]) /\ g[b + 1][2] = v
  BY <1>1 DEF OneMore
<1>6. ASSUME NEW i \in 1 .. b + 1 PROVE g[i][2] = now[k + i]
  <2>1. CASE i \in 1 .. b
    <3>1. k + i \in 1 .. c
      BY <1>2, <2>1
    <3> QED  BY <1>2, <1>4, <1>5, <2>1, <3>1
  <2>2. CASE i = b + 1
    <3>1. k + i = c + 1
      BY <1>2, <2>2
    <3> QED  BY <1>4, <1>5, <2>2, <3>1
  <2> QED  BY <2>1, <2>2
<1>7. ASSUME NEW i \in 1 .. k PROVE taken[i] = now[i]
  <2>1. i \in 1 .. c
    BY <1>2
  <2> QED  BY <1>2, <1>4, <2>1
<1>8. InLine(q, g, closed, taken, now, n + 1)
  BY <1>1, <1>2, <1>4, <1>5, <1>6, <1>7 DEF InLine
<1> QED  BY <1>1, <1>2, <1>3, <1>8 DEF GivenOn

(* Who asks an open queue gets what came first of those in it. *)
FirstGiven(q, h, g, closed, taken, came, n) ==
    n = Len(h) /\ InLine(Tail(q), g, closed, taken, came, n + 1)

LEMMA HandedFirst ==
    ASSUME NEW V, NEW H, NEW q \in Seq(V), q # <<>>, NEW h \in Seq(H), NEW closed \in BOOLEAN, ~closed,
           NEW taken \in Seq(V), NEW came \in Seq(V), NEW n \in 0 .. Len(h),
           InLine(q, h, closed, taken, came, n),
           NEW g \in Seq(H), OneMore(h, g, Head(q))
    PROVE  FirstGiven(q, h, g, closed, taken, came, n)
<1>1. PICK a \in Nat, b \in Nat, k \in Nat, c \in Nat :
        a = Len(q) /\ b = Len(h) /\ k = Len(taken) /\ c = Len(came)
  OBVIOUS
<1>2. PICK t : t = Tail(q)
  OBVIOUS
<1>3. Head(q) = q[1] /\ a > 0 /\ Len(t) = a - 1 /\ \A i \in 1 .. a - 1 : t[i] = q[i + 1]
  BY <1>1, <1>2, TailOne
<1>4. /\ n \in Nat /\ n = b /\ c = k + n + a
      /\ \A i \in 1 .. b : h[i][2] = came[k + i]
      /\ \A i \in 1 .. k : taken[i] = came[i]
      /\ \A i \in 1 .. a : q[i] = came[k + n + i]
  BY <1>1 DEF InLine
<1>5. Len(g) = b + 1 /\ (\A i \in 1 .. b : g[i] = h[i]) /\ g[b + 1][2] = q[1]
  BY <1>1, <1>3 DEF OneMore
<1>6. ASSUME NEW i \in 1 .. b + 1 PROVE g[i][2] = came[k + i]
  <2>1. CASE i \in 1 .. b
    <3>1. g[i] = h[i] /\ h[i][2] = came[k + i]
      BY <1>4, <1>5, <2>1
    <3> QED  BY <3>1
  <2>2. CASE i = b + 1
    <3>1. k + n + 1 = k + i /\ 1 \in 1 .. a
      BY <1>3, <1>4, <2>2
    <3> QED  BY <1>4, <1>5, <2>2, <3>1
  <2> QED  BY <2>1, <2>2
<1>7. ASSUME NEW i \in 1 .. a - 1 PROVE t[i] = came[k + (n + 1) + i]
  <2>1. n \in Nat /\ k \in Nat /\ i \in Nat
    BY <1>4
  <2>2. k + n + (i + 1) = k + (n + 1) + i
    BY ONLY <2>1
  <2>3. i + 1 \in 1 .. a
    OBVIOUS
  <2> QED  BY <1>3, <1>4, <2>2, <2>3
<1>8. c = k + (n + 1) + (a - 1)
  BY <1>4
<1>9. InLine(t, g, closed, taken, came, n + 1)
  BY <1>1, <1>3, <1>4, <1>5, <1>6, <1>7, <1>8 DEF InLine
<1> QED  BY <1>1, <1>2, <1>4, <1>9 DEF FirstGiven

(* Those who are told of the end get nothing. *)
LEMMA HandedNothing ==
    ASSUME NEW V, NEW H, NEW q \in Seq(V), NEW h \in Seq(H), NEW closed,
           NEW taken \in Seq(V), NEW came \in Seq(V), NEW n \in 0 .. Len(h),
           InLine(q, h, closed, taken, came, n),
           NEW g \in Seq(H), NEW m \in Nat, ToldEnd(h, g, m)
    PROVE  InLine(q, g, TRUE, taken, came, n)
<1>1. PICK b \in Nat : b = Len(h)
  OBVIOUS
<1>2. /\ n \in Nat /\ n <= b
      /\ \A i \in 1 .. b : h[i][2] = IF i <= n THEN came[Len(taken) + i] ELSE Undefined
  BY <1>1 DEF InLine
<1>3. /\ Len(g) = b + m /\ \A i \in 1 .. b : g[i] = h[i]
      /\ \A i \in 1 .. m : g[b + i][2] = Undefined
  BY <1>1 DEF ToldEnd
<1>4. ASSUME NEW i \in 1 .. b + m
      PROVE  g[i][2] = IF i <= n THEN came[Len(taken) + i] ELSE Undefined
  <2>1. CASE i \in 1 .. b
    BY <1>2, <1>3, <2>1
  <2>2. CASE i \notin 1 .. b
    <3>1. i - b \in 1 .. m /\ b + (i - b) = i /\ ~(i <= n)
      BY <1>2, <2>2
    <3>2. g[i][2] = Undefined
      BY <1>3, <3>1
    <3> QED  BY <3>1, <3>2
  <2> QED  BY <2>1, <2>2
<1> QED  BY <1>3, <1>4 DEF InLine

(* Who goes on has taken the next value, or nothing. *)
LEMMA GoesOnInLine ==
    ASSUME NEW V, Undefined \notin V, NEW H, NEW q \in Seq(V), NEW h \in Seq(H), h # <<>>, NEW closed,
           NEW taken \in Seq(V), NEW came \in Seq(V), NEW n \in 0 .. Len(h),
           InLine(q, h, closed, taken, came, n)
    PROVE  /\ n > 0 => /\ Head(h)[2] \in V
                       /\ InLine(q, Tail(h), closed, Append(taken, Head(h)[2]), came, n - 1)
           /\ n = 0 => /\ Head(h)[2] = Undefined
                       /\ InLine(q, Tail(h), closed, taken, came, 0)
<1>1. PICK a \in Nat, b \in Nat, k \in Nat, c \in Nat :
        a = Len(q) /\ b = Len(h) /\ k = Len(taken) /\ c = Len(came)
  OBVIOUS
<1>2. PICK t, x : t = Tail(h) /\ x = Head(h)[2]
  OBVIOUS
<1>3. x = h[1][2] /\ b > 0 /\ Len(t) = b - 1 /\ \A i \in 1 .. b - 1 : t[i] = h[i + 1]
  BY <1>1, <1>2, TailOne
<1>4. /\ n \in Nat /\ n <= b /\ c = k + n + a
      /\ n < b => closed
      /\ \A i \in 1 .. k : taken[i] = came[i]
      /\ \A i \in 1 .. a : q[i] = came[k + n + i]
  BY <1>1 DEF InLine
<1>7. \A i \in 1 .. b : h[i][2] = IF i <= n THEN came[k + i] ELSE Undefined
  BY <1>1 DEF InLine
<1>5. ASSUME n > 0
      PROVE  x \in V /\ InLine(q, t, closed, Append(taken, x), came, n - 1)
  <2>1. x = came[k + 1] /\ k + 1 \in 1 .. c
    BY <1>3, <1>4, <1>5, <1>7
  <2>2. x \in V
    BY <1>1, <2>1, Elements
  <2>3. PICK now : now = Append(taken, x)
    OBVIOUS
  <2>4. Len(now) = k + 1 /\ (\A i \in 1 .. k : now[i] = taken[i]) /\ now[k + 1] = x
    BY <1>1, <2>2, <2>3, AppendOne
  <2>5. ASSUME NEW i \in 1 .. b - 1
        PROVE  t[i][2] = IF i <= n - 1 THEN came[(k + 1) + i] ELSE Undefined
    <3>1. i + 1 \in 1 .. b /\ k + (i + 1) = (k + 1) + i /\ (i + 1 <= n <=> i <= n - 1)
      BY <1>4
    <3> QED  BY <1>3, <1>7, <3>1
  <2>6. ASSUME NEW i \in 1 .. k + 1 PROVE now[i] = came[i]
    <3>1. CASE i \in 1 .. k
      BY <1>4, <2>4, <3>1
    <3>2. CASE i = k + 1
      BY <2>1, <2>4, <3>2
    <3> QED  BY <3>1, <3>2
  <2>7. ASSUME NEW i \in 1 .. a PROVE q[i] = came[(k + 1) + (n - 1) + i]
    <3>1. n \in Nat /\ k \in Nat /\ i \in Nat
      BY <1>4
    <3>2. (k + 1) + (n - 1) + i = k + n + i
      BY ONLY <3>1
    <3> QED  BY <1>4, <3>2
  <2>8. c = (k + 1) + (n - 1) + a /\ (n - 1 < b - 1 => closed)
    BY <1>4
  <2>9. InLine(q, t, closed, now, came, n - 1)
    BY <1>1, <1>3, <2>4, <2>5, <2>6, <2>7, <2>8 DEF InLine
  <2> QED  BY <2>2, <2>3, <2>9
<1>6. ASSUME n = 0
      PROVE  x = Undefined /\ InLine(q, t, closed, taken, came, 0)
  <2>1. x = Undefined
    <3>1. 1 \in 1 .. b /\ ~(1 <= n)
      BY <1>3, <1>6
    <3>2. h[1][2] = Undefined
      BY <1>7, <3>1
    <3> QED  BY <1>3, <3>2
  <2>2. ASSUME NEW i \in 1 .. b - 1 PROVE t[i][2] = Undefined /\ ~(i <= 0)
    <3>1. i + 1 \in 1 .. b /\ ~(i + 1 <= n) /\ ~(i <= 0)
      BY <1>6
    <3>2. t[i] = h[i + 1] /\ h[i + 1][2] = Undefined
      BY <1>3, <1>7, <3>1
    <3> QED  BY <3>1, <3>2
  <2>3. \A i \in 1 .. a : q[i] = came[k + 0 + i]
    BY <1>4, <1>6
  <2>4. c = k + 0 + a /\ (0 < b - 1 => closed)
    BY <1>4, <1>6
  <2> QED  BY <1>1, <1>3, <1>4, <2>1, <2>2, <2>3, <2>4 DEF InLine
<1> QED  BY <1>2, <1>5, <1>6

(* In Go a value is taken from the queue itself. *)
LEMMA TakenAtOnce ==
    ASSUME NEW V, NEW q \in Seq(V), q # <<>>, NEW h, h = <<>>, NEW closed,
           NEW taken \in Seq(V), NEW came \in Seq(V),
           InLine(q, h, closed, taken, came, 0)
    PROVE  Head(q) \in V /\ InLine(Tail(q), h, closed, Append(taken, Head(q)), came, 0)
<1>1. PICK a \in Nat, k \in Nat, c \in Nat : a = Len(q) /\ k = Len(taken) /\ c = Len(came)
  OBVIOUS
<1>2. PICK t, x, now : t = Tail(q) /\ x = Head(q) /\ now = Append(taken, x)
  OBVIOUS
<1>3. x \in V /\ x = q[1] /\ a > 0 /\ Len(t) = a - 1 /\ \A i \in 1 .. a - 1 : t[i] = q[i + 1]
  BY <1>1, <1>2, TailOne
<1>4. Len(now) = k + 1 /\ (\A i \in 1 .. k : now[i] = taken[i]) /\ now[k + 1] = x
  BY <1>1, <1>2, <1>3, AppendOne
<1>5. /\ c = k + 0 + a /\ Len(h) = 0
      /\ \A i \in 1 .. k : taken[i] = came[i]
      /\ \A i \in 1 .. a : q[i] = came[k + 0 + i]
  BY <1>1 DEF InLine
<1>6. ASSUME NEW i \in 1 .. k + 1 PROVE now[i] = came[i]
  <2>1. CASE i \in 1 .. k
    BY <1>4, <1>5, <2>1
  <2>2. CASE i = k + 1
    <3>1. 1 \in 1 .. a /\ k + 0 + 1 = i
      BY <1>3, <2>2
    <3> QED  BY <1>3, <1>4, <1>5, <2>2, <3>1
  <2> QED  BY <2>1, <2>2
<1>7. ASSUME NEW i \in 1 .. a - 1 PROVE t[i] = came[(k + 1) + 0 + i]
  <2>1. i + 1 \in 1 .. a /\ k + 0 + (i + 1) = (k + 1) + 0 + i
    OBVIOUS
  <2>2. q[i + 1] = came[k + 0 + (i + 1)]
    BY <1>5, <2>1
  <2> QED  BY <1>3, <2>1, <2>2
<1>8. c = (k + 1) + 0 + (a - 1)
  BY <1>5
<1>9. InLine(t, h, closed, now, came, 0)
  BY <1>1, <1>3, <1>4, <1>5, <1>6, <1>7, <1>8 DEF InLine
<1> QED  BY <1>2, <1>3, <1>9

-----------------------------------------------------------------------------
(* Queues *)

LEMMA QueueFields ==
    ASSUME NEW W, NEW V, NEW queue \in QueueType(W, V)
    PROVE  /\ queue.q \in Seq(V) /\ queue.waiters \in Seq(W) /\ queue.closed \in BOOLEAN
           /\ queue.handed \in Seq(W \X (V \cup {Undefined}))
           /\ Len(queue.q) \in Nat /\ Len(queue.waiters) \in Nat /\ Len(queue.handed) \in Nat
  BY DEF QueueType

Handed(queue, x, r) ==
    /\ r.q = queue.q /\ r.waiters = queue.waiters /\ r.closed = queue.closed
    /\ OneMore(queue.handed, r.handed, x)

LEMMA HandFacts ==
    ASSUME NEW W, NEW V, NEW queue \in QueueType(W, V), NEW w \in W, NEW x \in V \cup {Undefined},
           NEW r, r = Hand(queue, w, x)
    PROVE  /\ r \in QueueType(W, V)
           /\ Handed(queue, x, r)
<1>1. <<w, x>> \in W \X (V \cup {Undefined})
  OBVIOUS
<1>2. queue.handed \in Seq(W \X (V \cup {Undefined}))
  BY QueueFields
<1> DEFINE h == Append(queue.handed, <<w, x>>)
<1>3. /\ h \in Seq(W \X (V \cup {Undefined})) /\ Len(h) = Len(queue.handed) + 1
      /\ \A i \in 1 .. Len(queue.handed) : h[i] = queue.handed[i]
      /\ h[Len(queue.handed) + 1] = <<w, x>>
  BY <1>1, <1>2, AppendOne
<1>4. r = [queue EXCEPT !.handed = h]
  BY DEF Hand
<1> HIDE DEF h
<1>5. /\ r \in QueueType(W, V) /\ r.handed = h
      /\ r.q = queue.q /\ r.waiters = queue.waiters /\ r.closed = queue.closed
  BY <1>3, <1>4 DEF QueueType
<1>6. h[Len(queue.handed) + 1][2] = x
  BY ONLY <1>3
<1> QED  BY <1>3, <1>5, <1>6 DEF Handed, OneMore

(* A value is pushed: it comes last. *)
LEMMA PushLine ==
    ASSUME NEW W, NEW V, NEW queue \in QueueType(W, V), ~queue.closed,
           NEW taken \in Seq(V), NEW came \in Seq(V), Line(queue, taken, came),
           NEW v \in V, NEW r, r = Push(queue, v)
    PROVE  /\ r \in QueueType(W, V) /\ ~r.closed
           /\ Line(r, taken, Append(came, v))
           /\ Idle(queue) => Idle(r)
<1> DEFINE H == W \X (V \cup {Undefined})
<1>1. PICK n \in 0 .. Len(queue.handed) :
        InLine(queue.q, queue.handed, queue.closed, taken, came, n)
  BY DEF Line
<1>2. queue.q \in Seq(V) /\ queue.handed \in Seq(H) /\ queue.closed \in BOOLEAN
  BY QueueFields
<1>3. CASE queue.waiters # <<>>
  <2> DEFINE b == [queue EXCEPT !.waiters = Tail(@)]
  <2>1. queue.q = <<>> /\ Len(queue.q) = 0
    BY <1>3 DEF Line
  <2>2. Tail(queue.waiters) \in Seq(W) /\ Head(queue.waiters) \in W
    <3>1. queue.waiters \in Seq(W)
      BY QueueFields
    <3> QED  BY <1>3, <3>1, TailOne
  <2>3. /\ b \in QueueType(W, V) /\ b.q = queue.q /\ b.handed = queue.handed
        /\ b.closed = queue.closed
    BY <2>2 DEF QueueType
  <2>4. r = Hand(b, Head(queue.waiters), v)
    BY <1>3 DEF Push
  <2> HIDE DEF b
  <2>5. /\ r \in QueueType(W, V) /\ r.q = b.q /\ r.closed = b.closed /\ r.waiters = b.waiters
        /\ OneMore(queue.handed, r.handed, v)
    <3>1. v \in V \cup {Undefined}
      OBVIOUS
    <3>2. r \in QueueType(W, V) /\ Handed(b, v, r)
      BY <2>2, <2>3, <2>4, <3>1, HandFacts
    <3> QED  BY <2>3, <3>2 DEF Handed
  <2>6. r.handed \in Seq(H)
    BY <2>5, QueueFields
  <2> HIDE DEF H
  <2>7. /\ n = Len(queue.handed)
        /\ InLine(queue.q, r.handed, queue.closed, taken, Append(came, v), n + 1)
    <3>1. Len(queue.q) = 0 /\ OneMore(queue.handed, r.handed, v)
      BY <2>1, <2>5
    <3>2. GivenOn(queue.q, queue.handed, r.handed, queue.closed, taken, came, n, v)
      BY <1>1, <1>2, <2>6, <3>1, HandedOn
    <3> QED  BY <3>2 DEF GivenOn
  <2>8. n + 1 \in 0 .. Len(r.handed)
    BY <2>5, <2>7 DEF OneMore
  <2> QED  BY <1>3, <2>1, <2>3, <2>5, <2>7, <2>8 DEF Line, Idle
<1>4. CASE queue.waiters = <<>>
  <2> DEFINE p == Append(queue.q, v)
  <2>1. p \in Seq(V)
    BY <1>2, AppendOne
  <2>2. r = [queue EXCEPT !.q = p]
    BY <1>4 DEF Push
  <2>3. InLine(p, queue.handed, queue.closed, taken, Append(came, v), n)
    <3> HIDE DEF H
    <3> QED  BY <1>1, <1>2, JoinsQueue
  <2> HIDE DEF p
  <2>4. /\ r \in QueueType(W, V) /\ r.q = p /\ r.handed = queue.handed
        /\ r.closed = queue.closed /\ r.waiters = queue.waiters
    BY <2>1, <2>2 DEF QueueType
  <2> QED  BY <1>4, <2>3, <2>4 DEF Line, Idle
<1> QED  BY <1>3, <1>4

(* A queue is asked: the answer is handed over, or who asks waits. *)
LEMMA ShiftLine ==
    ASSUME NEW W, NEW V, NEW queue \in QueueType(W, V),
           NEW taken \in Seq(V), NEW came \in Seq(V), Line(queue, taken, came),
           NEW w \in W, NEW r, r = Shift(queue, w)
    PROVE  r \in QueueType(W, V) /\ r.closed = queue.closed /\ Line(r, taken, came)
<1> DEFINE H == W \X (V \cup {Undefined})
<1>1. PICK n \in 0 .. Len(queue.handed) :
        InLine(queue.q, queue.handed, queue.closed, taken, came, n)
  BY DEF Line
<1>2. /\ queue.q \in Seq(V) /\ queue.handed \in Seq(H) /\ queue.closed \in BOOLEAN
      /\ queue.waiters \in Seq(W) /\ Len(queue.handed) \in Nat
  BY QueueFields
<1>3. CASE queue.closed
  <2>1. r = Hand(queue, w, Undefined)
    BY <1>3 DEF Shift
  <2>2. /\ r \in QueueType(W, V) /\ r.q = queue.q /\ r.closed = queue.closed
        /\ r.waiters = queue.waiters
        /\ OneMore(queue.handed, r.handed, Undefined)
    <3>1. Undefined \in V \cup {Undefined}
      OBVIOUS
    <3>2. r \in QueueType(W, V) /\ Handed(queue, Undefined, r)
      BY <2>1, <3>1, HandFacts
    <3> QED  BY <3>2 DEF Handed
  <2>3. r.handed \in Seq(H)
    BY <2>2, QueueFields
  <2>4. ToldEnd(queue.handed, r.handed, 1) /\ 1 \in Nat
    BY <2>2 DEF OneMore, ToldEnd
  <2> HIDE DEF H
  <2>5. InLine(queue.q, r.handed, TRUE, taken, came, n)
    BY <1>1, <1>2, <2>3, <2>4, HandedNothing
  <2>6. n \in 0 .. Len(r.handed)
    BY <1>2, <2>2 DEF OneMore
  <2>7. r.closed = TRUE
    BY <1>2, <1>3, <2>2
  <2> QED  BY <2>2, <2>5, <2>6, <2>7 DEF Line
<1>4. CASE ~queue.closed /\ queue.q # <<>>
  <2> DEFINE b == [queue EXCEPT !.q = Tail(@)]
  <2>1. queue.waiters = <<>>
    BY <1>4 DEF Line
  <2>2. Tail(queue.q) \in Seq(V) /\ Head(queue.q) \in V
    BY <1>2, <1>4, TailOne
  <2>3. /\ b \in QueueType(W, V) /\ b.q = Tail(queue.q) /\ b.handed = queue.handed
        /\ b.closed = queue.closed /\ b.waiters = queue.waiters
    BY <2>2 DEF QueueType
  <2>4. r = Hand(b, w, Head(queue.q))
    BY <1>4 DEF Shift
  <2> HIDE DEF b
  <2>5. /\ r \in QueueType(W, V) /\ r.q = b.q /\ r.closed = b.closed /\ r.waiters = b.waiters
        /\ OneMore(queue.handed, r.handed, Head(queue.q))
    <3>1. PICK x \in V \cup {Undefined} : x = Head(queue.q)
      BY <2>2
    <3>2. r \in QueueType(W, V) /\ Handed(b, x, r)
      BY <2>3, <2>4, <3>1, HandFacts
    <3> QED  BY <2>3, <3>1, <3>2 DEF Handed
  <2>6. r.handed \in Seq(H)
    BY <2>5, QueueFields
  <2> HIDE DEF H
  <2>7. /\ n = Len(queue.handed)
        /\ InLine(Tail(queue.q), r.handed, queue.closed, taken, came, n + 1)
    <3>1. FirstGiven(queue.q, queue.handed, r.handed, queue.closed, taken, came, n)
      BY <1>1, <1>2, <1>4, <2>5, <2>6, HandedFirst
    <3> QED  BY <3>1 DEF FirstGiven
  <2>8. n + 1 \in 0 .. Len(r.handed)
    BY <1>2, <2>5, <2>7 DEF OneMore
  <2> QED  BY <2>1, <2>3, <2>5, <2>7, <2>8 DEF Line
<1>5. CASE ~queue.closed /\ queue.q = <<>>
  <2>1. PICK ws \in Seq(W) : ws = Append(queue.waiters, w)
    BY <1>2, AppendOne
  <2>2. r = [queue EXCEPT !.waiters = ws]
    BY <1>5, <2>1 DEF Shift
  <2>3. /\ r \in QueueType(W, V) /\ r.q = queue.q /\ r.handed = queue.handed
        /\ r.closed = queue.closed
    BY <2>2 DEF QueueType
  <2> QED  BY <1>1, <1>5, <2>3 DEF Line
<1> QED  BY <1>3, <1>4, <1>5

(* A queue is closed: whoever waits is told, and nothing changes its place. *)
LEMMA CloseLine ==
    ASSUME NEW W, NEW V, NEW queue \in QueueType(W, V),
           NEW r, r = CloseQueue(queue)
    PROVE  /\ r \in QueueType(W, V) /\ r.closed /\ r.q = queue.q
           /\ Idle(queue) => Idle(r)
           /\ \A taken \in Seq(V), came \in Seq(V) :
                 Line(queue, taken, came) => Line(r, taken, came)
<1> DEFINE H == W \X (V \cup {Undefined})
<1>2. /\ queue.q \in Seq(V) /\ queue.handed \in Seq(H) /\ queue.closed \in BOOLEAN
      /\ queue.waiters \in Seq(W) /\ Len(queue.handed) \in Nat /\ Len(queue.waiters) \in Nat
  BY QueueFields
<1>3. CASE queue.closed
  BY <1>3 DEF CloseQueue
<1>4. CASE ~queue.closed
  <2> DEFINE told == [i \in DOMAIN queue.waiters |-> <<queue.waiters[i], Undefined>>]
             m == Len(queue.waiters)
             g == queue.handed \o told
  <2>1. DOMAIN queue.waiters = 1 .. m /\ \A i \in 1 .. m : queue.waiters[i] \in W
    BY <1>2, Elements
  <2>2. told \in [1 .. m -> H] /\ \A i \in 1 .. m : told[i][2] = Undefined
    BY <2>1
  <2>3. told \in Seq(H) /\ Len(told) = m
    <3> HIDE DEF told, H
    <3> QED  BY <1>2, <2>2, Listing
  <2>4. r = [queue EXCEPT !.closed = TRUE, !.handed = g]
    BY <1>4 DEF CloseQueue
  <2> HIDE DEF told
  <2>5. g \in Seq(H) /\ ToldEnd(queue.handed, g, m)
    <3> HIDE DEF H
    <3>1. Joined(queue.handed, told, g) /\ g \in Seq(H)
      BY <1>2, <2>3, Joining
    <3> HIDE DEF g
    <3> QED  BY <2>2, <2>3, <3>1 DEF Joined, ToldEnd
  <2> HIDE DEF g
  <2>6. /\ r \in QueueType(W, V) /\ r.q = queue.q /\ r.handed = g
        /\ r.closed /\ r.closed = TRUE /\ r.waiters = queue.waiters
    BY <2>4, <2>5 DEF QueueType
  <2>7. Idle(queue) => Idle(r)
    <3>1. Idle(queue) => Len(g) = 0
      BY <2>5 DEF Idle, ToldEnd
    <3> HIDE DEF H
    <3> QED  BY <2>5, <2>6, <3>1, EmptySeq DEF Idle
  <2>9. m \in Nat
    BY <1>2
  <2> HIDE DEF m
  <2>8. ASSUME NEW taken \in Seq(V), NEW came \in Seq(V), Line(queue, taken, came)
        PROVE  Line(r, taken, came)
    <3>1. PICK n \in 0 .. Len(queue.handed) :
            InLine(queue.q, queue.handed, queue.closed, taken, came, n)
      BY <2>8 DEF Line
    <3> HIDE DEF H
    <3>2. InLine(queue.q, g, TRUE, taken, came, n)
      BY <1>2, <2>5, <2>9, <3>1, HandedNothing
    <3>3. n \in 0 .. Len(g)
      BY <1>2, <2>5, <2>9 DEF ToldEnd
    <3> QED  BY <2>6, <2>8, <3>2, <3>3 DEF Line
  <2> QED  BY <2>6, <2>7, <2>8
<1> QED  BY <1>2, <1>3, <1>4

(* What becomes of a queue when who was handed something goes on, and when a *)
(* value is received from the queue itself.                                  *)
GoneOn(queue) == [queue EXCEPT !.handed = Tail(@)]
Received(queue) == [queue EXCEPT !.q = Tail(@)]

(* The first that was handed something goes on. *)
LEMMA GoesOnLine ==
    ASSUME NEW W, NEW V, Undefined \notin V, NEW queue \in QueueType(W, V), queue.handed # <<>>,
           NEW taken \in Seq(V), NEW came \in Seq(V), Line(queue, taken, came),
           NEW x, x = Head(queue.handed)[2],
           NEW r, r = GoneOn(queue)
    PROVE  /\ r \in QueueType(W, V) /\ r.closed = queue.closed
           /\ Head(queue.handed)[1] \in W /\ x \in V \cup {Undefined}
           /\ x = Undefined => Line(r, taken, came) /\ queue.closed
           /\ x # Undefined => Line(r, Append(taken, x), came)
<1> DEFINE H == W \X (V \cup {Undefined})
<1>1. PICK n \in 0 .. Len(queue.handed) :
        InLine(queue.q, queue.handed, queue.closed, taken, came, n)
  BY DEF Line
<1>2. queue.q \in Seq(V) /\ queue.handed \in Seq(H) /\ queue.closed \in BOOLEAN
  BY QueueFields
<1>3. /\ Tail(queue.handed) \in Seq(H) /\ Len(queue.handed) \in Nat \ {0}
      /\ Len(Tail(queue.handed)) = Len(queue.handed) - 1
      /\ Head(queue.handed) \in H
  BY <1>2, TailOne
<1>4. /\ n > 0 => /\ x \in V
                  /\ InLine(queue.q, Tail(queue.handed), queue.closed, Append(taken, x), came, n - 1)
      /\ n = 0 => /\ x = Undefined
                  /\ InLine(queue.q, Tail(queue.handed), queue.closed, taken, came, 0)
  <2> HIDE DEF H
  <2> QED  BY <1>1, <1>2, GoesOnInLine
<1>5. /\ r \in QueueType(W, V) /\ r.q = queue.q /\ r.handed = Tail(queue.handed)
      /\ r.closed = queue.closed /\ r.waiters = queue.waiters
  BY <1>3 DEF QueueType, GoneOn
<1>6. Head(queue.handed)[1] \in W /\ x \in V \cup {Undefined}
  BY <1>3
<1>7. CASE n = 0
  <2>1. 0 \in 0 .. Len(r.handed)
    BY <1>3, <1>5
  <2>2. queue.closed
    BY <1>1, <1>3, <1>7 DEF InLine
  <2> QED  BY <1>4, <1>5, <1>6, <1>7, <2>1, <2>2 DEF Line
<1>8. CASE n > 0
  <2>1. n - 1 \in 0 .. Len(r.handed)
    BY <1>3, <1>5, <1>8
  <2> QED  BY <1>4, <1>5, <1>6, <1>8, <2>1 DEF Line
<1> QED  BY <1>7, <1>8

(* In Go a value is received from the queue itself. *)
LEMMA TakeLine ==
    ASSUME NEW W, NEW V, NEW queue \in QueueType(W, V), Idle(queue), queue.q # <<>>,
           NEW taken \in Seq(V), NEW came \in Seq(V), Line(queue, taken, came),
           NEW r, r = Received(queue)
    PROVE  /\ r \in QueueType(W, V) /\ r.closed = queue.closed /\ Idle(r)
           /\ Head(queue.q) \in V /\ Line(r, Append(taken, Head(queue.q)), came)
<1>1. PICK n \in 0 .. Len(queue.handed) :
        InLine(queue.q, queue.handed, queue.closed, taken, came, n)
  BY DEF Line
<1>2. queue.handed = <<>> /\ Len(queue.handed) = 0 /\ n = 0
  BY DEF Idle
<1>3. queue.q \in Seq(V) /\ Tail(queue.q) \in Seq(V)
  BY QueueFields, TailOne
<1>4. /\ Head(queue.q) \in V
      /\ InLine(Tail(queue.q), queue.handed, queue.closed, Append(taken, Head(queue.q)), came, 0)
  BY <1>1, <1>2, <1>3, TakenAtOnce
<1>5. /\ r \in QueueType(W, V) /\ r.q = Tail(queue.q) /\ r.handed = queue.handed
      /\ r.closed = queue.closed /\ r.waiters = queue.waiters
  BY <1>3 DEF QueueType, Received
<1>6. 0 \in 0 .. Len(r.handed)
  BY <1>2, <1>5
<1> QED  BY <1>2, <1>4, <1>5, <1>6 DEF Line, Idle

(* In an open queue all three are what came, and nothing else. *)
LEMMA LineIsCame ==
    ASSUME NEW W, NEW V, NEW queue \in QueueType(W, V), ~queue.closed,
           NEW taken \in Seq(V), NEW came \in Seq(V), Line(queue, taken, came)
    PROVE  taken \o Values(queue) \o queue.q = came
<1>1. PICK n \in 0 .. Len(queue.handed) :
        InLine(queue.q, queue.handed, queue.closed, taken, came, n)
  BY DEF Line
<1>2. PICK q, h : q = queue.q /\ h = queue.handed
  OBVIOUS
<1>3. q \in Seq(V) /\ h \in Seq(W \X (V \cup {Undefined}))
  BY <1>2, QueueFields
<1>4. PICK a \in Nat, k \in Nat, c \in Nat : a = Len(q) /\ k = Len(taken) /\ c = Len(came)
  BY <1>3
<1>5. /\ n \in Nat /\ n = Len(h) /\ c = k + n + a
      /\ \A i \in 1 .. n : h[i][2] = came[k + i]
      /\ \A i \in 1 .. k : taken[i] = came[i]
      /\ \A i \in 1 .. a : q[i] = came[k + n + i]
  <2>1. PICK m \in Nat : m = Len(h)
    BY <1>3
  <2>2. /\ n \in 0 .. m /\ ~(n < m) /\ c = k + n + a
        /\ \A i \in 1 .. m : h[i][2] = IF i <= n THEN came[k + i] ELSE Undefined
        /\ \A i \in 1 .. k : taken[i] = came[i]
        /\ \A i \in 1 .. a : q[i] = came[k + n + i]
    BY <1>1, <1>2, <1>4, <2>1 DEF InLine
  <2>3. n = m
    BY <2>2
  <2>4. \A i \in 1 .. n : h[i][2] = came[k + i]
    BY <2>2, <2>3
  <2> QED  BY <2>1, <2>2, <2>3, <2>4
<1> DEFINE vals == Values(queue)
<1>6. vals \in Seq(V) /\ Len(vals) = n /\ \A i \in 1 .. n : vals[i] = came[k + i]
  <2>1. DOMAIN h = 1 .. n
    BY <1>3, <1>5, Elements
  <2>2. vals = [i \in 1 .. n |-> h[i][2]]
    BY <1>2, <2>1 DEF Values
  <2>3. ASSUME NEW i \in 1 .. n PROVE h[i][2] \in V
    <3>1. k + i \in 1 .. c
      BY <1>5
    <3>2. came[k + i] \in V
      BY <1>4, <3>1, Elements
    <3> QED  BY <1>5, <3>2
  <2>4. vals \in [1 .. n -> V] /\ \A i \in 1 .. n : vals[i] = came[k + i]
    BY <1>5, <2>2, <2>3
  <2> HIDE DEF vals
  <2>5. vals \in Seq(V) /\ Len(vals) = n
    BY ONLY <1>5, <2>4, Listing
  <2> QED  BY <2>4, <2>5
<1> HIDE DEF vals
<1>7. PICK u : u = taken \o vals
  OBVIOUS
<1>8. u \in Seq(V) /\ Joined(taken, vals, u)
  BY <1>6, <1>7, Joining
<1>9. PICK w : w = u \o q
  OBVIOUS
<1>10. w \in Seq(V) /\ Joined(u, q, w)
  BY <1>3, <1>8, <1>9, Joining
<1>11. Len(u) = k + n /\ Len(w) = k + n + a
  BY <1>4, <1>6, <1>8, <1>10 DEF Joined
<1>12. ASSUME NEW i \in 1 .. c PROVE w[i] = came[i]
  <2>1. CASE i \in 1 .. k
    <3>1. i \in 1 .. k + n
      BY <1>5, <2>1
    <3>2. w[i] = u[i] /\ u[i] = taken[i]
      BY <1>4, <1>8, <1>10, <1>11, <2>1, <3>1 DEF Joined
    <3> QED  BY <1>5, <2>1, <3>2
  <2>2. CASE i \in k + 1 .. k + n
    <3>1. PICK j \in 1 .. n : i = k + j
      <4>1. i - k \in 1 .. n /\ i = k + (i - k)
        BY <1>5, <2>2
      <4> QED  BY <4>1
    <3>2. i \in 1 .. k + n
      BY <1>5, <2>2
    <3>3. w[i] = u[i]
      BY <1>10, <1>11, <3>2 DEF Joined
    <3>4. u[i] = vals[j]
      BY <1>4, <1>6, <1>8, <3>1 DEF Joined
    <3> QED  BY <1>6, <3>1, <3>3, <3>4
  <2>3. CASE i \in k + n + 1 .. c
    <3>1. PICK j \in 1 .. a : i = (k + n) + j
      <4>1. i - (k + n) \in 1 .. a /\ i = (k + n) + (i - (k + n))
        BY <1>5, <2>3
      <4> QED  BY <4>1
    <3>2. w[i] = q[j]
      BY <1>4, <1>10, <1>11, <3>1 DEF Joined
    <3>3. q[j] = came[k + n + j]
      BY <1>5
    <3> QED  BY <3>1, <3>2, <3>3
  <2>4. i \in 1 .. k \/ i \in k + 1 .. k + n \/ i \in k + n + 1 .. c
    BY <1>5
  <2> QED  BY <2>1, <2>2, <2>3, <2>4
<1>13. w = came
  BY <1>4, <1>5, <1>10, <1>11, <1>12, SeqEqual
<1> QED  BY <1>2, <1>7, <1>9, <1>13 DEF vals

-----------------------------------------------------------------------------
(* The parts of the invariant *)

LEMMA Constants ==
    /\ Undefined = 0 /\ Undefined \notin Clients /\ Undefined \notin Nat \ {0}
    /\ "closed" # "listening" /\ Sides = {"client", "server"}
  BY ClientsAssumption DEF Undefined, Sides

LEMMA SettingStays ==
    ASSUME UNCHANGED setting
    PROVE  (JavaScript' <=> JavaScript) /\ \A side : Go(side)' <=> Go(side)
  BY DEF JavaScript, Go

LEMMA IncomingStays ==
    ASSUME NEW e, IncomingInv(e), UNCHANGED setting,
           incoming'[e] = incoming[e], opened'[e] = opened[e], dispatched'[e] = dispatched[e]
    PROVE  IncomingInv(e)'
  BY DEF IncomingInv, Came, Go, JavaScript

(* Who has been connected once does not become a stranger. *)
Known == \A c \in Clients : conn[c] \notin {"none", "dialing"} => conn'[c] \notin {"none", "dialing"}

LEMMA ComesOnceStays ==
    ASSUME Shape, ComesOnce, Known, UNCHANGED made, backlog' \in {backlog, <<>>}
    PROVE  ComesOnce'
<1>1. \A i \in 1 .. Len(made) : made[i] \in Clients
  BY Elements DEF Shape
<1>2. \A i \in 1 .. Len(backlog) : backlog[i] \in Clients
  BY Elements DEF Shape
<1>3. CASE backlog' = backlog
  BY <1>1, <1>2, <1>3 DEF ComesOnce, Known, Distinct
<1>4. CASE backlog' = <<>>
  <2>1. Len(backlog') = 0
    BY <1>4
  <2> QED  BY <1>1, <2>1 DEF ComesOnce, Known, Distinct
<1> QED  BY <1>3, <1>4

LEMMA GoneFacts ==
    ASSUME Shape, NEW cs, Gone(cs)
    PROVE  /\ conn' \in [Clients -> {"none", "dialing", "up", "rejected", "crashed",
                                     "unanswered", "gone"}]
           /\ closeCh' \in [Clients \X Sides -> 0..1]
           /\ Known /\ Up' \subseteq Up
<1>1. conn' = [c \in Clients |-> IF c \in cs THEN "gone" ELSE conn[c]]
  BY DEF Gone
<1>2. conn' \in [Clients -> {"none", "dialing", "up", "rejected", "crashed", "unanswered", "gone"}]
  BY <1>1 DEF Shape
<1>3. Known /\ Up' \subseteq Up
  BY <1>1 DEF Known, Up
<1>4. closeCh' \in [Clients \X Sides -> 0..1]
  BY DEF Gone, Shape
<1> QED  BY <1>2, <1>3, <1>4

LEMMA DialledFacts ==
    ASSUME Shape, SettingsAssumption, NEW ok \in BOOLEAN
    PROVE  /\ ok => Dialled(ok) = "up"
           /\ ~ok => Dialled(ok) \in {"rejected", "crashed", "unanswered"}
<1>1. setting.dial \in {"tcp", "nodeWs", "browser", "mux"}
  BY SettingsAssumption DEF Shape, AnySetting
<1> QED  BY <1>1 DEF Dialled, DialTCP, DialWebsocketNode, DialWebsocket, Dial

-----------------------------------------------------------------------------
(* The actions *)

(* The part of the invariant that is about sessions. *)
SessionInv ==
    /\ PendingInv /\ ComesOnce
    /\ ~JavaScript => AcceptedInv
    /\ setting.listener = "goTcp" => OneAtATime

LEMMA SessionStays ==
    ASSUME Shape, SessionInv, Known, Up' \subseteq Up,
           pending.closed => listener' = "closed",
           UNCHANGED <<setting, pending, accepted, made, served>>,
           backlog' \in {backlog, <<>>}
    PROVE  SessionInv'
<1>1. ComesOnce'
  BY ComesOnceStays DEF SessionInv
<1>2. PendingInv'
  BY DEF SessionInv, PendingInv, JavaScript
<1>3. /\ ~JavaScript' => AcceptedInv'
      /\ setting'.listener = "goTcp" => OneAtATime'
  BY DEF SessionInv, AcceptedInv, OneAtATime, JavaScript
<1> QED  BY <1>1, <1>2, <1>3 DEF SessionInv

LEMMA Frame ==
    ASSUME ServingInv, Shape', SessionInv', UNCHANGED <<setting, incoming, opened, dispatched>>
    PROVE  ServingInv'
<1>1. \A e \in Clients \X Sides : IncomingInv(e)'
  BY IncomingStays DEF ServingInv
<1> QED  BY <1>1 DEF ServingInv, SessionInv

LEMMA ListenStep ==
    ASSUME ServingInv, Listen
    PROVE  ServingInv'
<1> USE DEF sessions, channels
<1>1. Shape /\ SessionInv
  BY DEF ServingInv, SessionInv
<1>2. Shape'
  BY <1>1 DEF Listen, ListenTCP, ListenWebsocket, ListenGo, Shape
<1>3. ~pending.closed
  BY <1>1 DEF SessionInv, PendingInv, Listen
<1>4. Known /\ Up' \subseteq Up
  BY DEF Listen, Known, Up
<1>5. SessionInv'
  BY <1>1, <1>3, <1>4, SessionStays DEF Listen
<1> QED  BY <1>2, <1>5, Frame DEF Listen

LEMMA DialStep ==
    ASSUME ServingInv, NEW c \in Clients, StartsDial(c) \/ DialFails(c)
    PROVE  ServingInv'
<1> USE DEF sessions, channels, listening
<1>1. Shape /\ SessionInv
  BY DEF ServingInv, SessionInv
<1>2. PICK x \in {"dialing", "rejected", "crashed", "unanswered"} :
        conn' = [conn EXCEPT ![c] = x] /\ (x = "dialing" => conn[c] = "none")
  BY <1>1, DialledFacts, SettingsAssumption DEF StartsDial, DialFails
<1>3. UNCHANGED <<setting, listening, sessions, channels>>
  BY DEF StartsDial, DialFails
<1>4. Known /\ Up' \subseteq Up
  BY <1>1, <1>2 DEF Known, Up, Shape
<1>5. Shape'
  BY <1>1, <1>2, <1>3 DEF Shape
<1>6. pending.closed => listener' = "closed"
  BY <1>1, <1>3 DEF SessionInv, PendingInv
<1>7. SessionInv'
  BY <1>1, <1>3, <1>4, <1>6, SessionStays
<1> QED  BY <1>3, <1>5, <1>7, Frame

LEMMA EndsStep ==
    ASSUME ServingInv, NEW c \in Clients, Ends(c)
    PROVE  ServingInv'
<1> USE DEF sessions, listening
<1>1. Shape /\ SessionInv
  BY DEF ServingInv, SessionInv
<1>2. /\ conn' \in [Clients -> {"none", "dialing", "up", "rejected", "crashed", "unanswered", "gone"}]
      /\ closeCh' \in [Clients \X Sides -> 0..1]
      /\ Known /\ Up' \subseteq Up
  BY <1>1, GoneFacts DEF Ends
<1>3. Shape'
  BY <1>1, <1>2 DEF Ends, Shape
<1>4. pending.closed => listener' = "closed"
  BY <1>1 DEF SessionInv, PendingInv, Ends
<1>5. SessionInv'
  BY <1>1, <1>2, <1>4, SessionStays DEF Ends
<1> QED  BY <1>3, <1>5, Frame DEF Ends

LEMMA RespondsStep ==
    ASSUME ServingInv, NEW c \in Clients, Responds(c)
    PROVE  ServingInv'
<1> USE DEF sessions, listening
<1>1. Shape /\ SessionInv
  BY DEF ServingInv, SessionInv
<1>2. <<c, "client">> \in Clients \X Sides
  BY Constants
<1>3. Shape'
  BY <1>1, <1>2 DEF Responds, Shape
<1>4. pending.closed => listener' = "closed"
  BY <1>1 DEF SessionInv, PendingInv, Responds
<1>5. Known /\ Up' \subseteq Up
  BY DEF Responds, Known, Up
<1>6. SessionInv'
  BY <1>1, <1>4, <1>5, SessionStays DEF Responds
<1> QED  BY <1>3, <1>6, Frame DEF Responds

LEMMA StopsAcceptingStep ==
    ASSUME ServingInv, StopsAccepting
    PROVE  ServingInv'
<1> USE DEF sessions, channels
<1>1. Shape /\ SessionInv
  BY DEF ServingInv, SessionInv
<1>2. Shape'
  BY <1>1 DEF StopsAccepting, Shape
<1>3. pending.closed => listener' = "closed"
  BY <1>1 DEF SessionInv, PendingInv, StopsAccepting
<1>4. Known /\ Up' \subseteq Up
  BY DEF StopsAccepting, Known, Up
<1>5. SessionInv'
  BY <1>1, <1>3, <1>4, SessionStays DEF StopsAccepting
<1> QED  BY <1>2, <1>5, Frame DEF StopsAccepting

LEMMA CloseListenerStep ==
    ASSUME ServingInv, CloseListener
    PROVE  ServingInv'
<1> USE DEF sessions
<1>1. Shape /\ SessionInv
  BY DEF ServingInv, SessionInv
<1>2. UNCHANGED <<setting, errs, sessions, incoming, respond, opened, dispatched, pending, accepted>>
  BY DEF CloseListener, CloseTCP, CloseWebsocket, CloseGo
<1>3. /\ listener' \in {"new", "failed", "listening", "closing", "closed"} /\ closer' \in 0..1
      /\ listener = "closed" => listener' = "closed"
  BY <1>1 DEF CloseListener, CloseTCP, CloseWebsocket, CloseGo, Shape
<1>4. backlog' \in {backlog, <<>>}
  BY DEF CloseListener, CloseTCP, CloseWebsocket, CloseGo
<1>5. (\E cs : Gone(cs)) \/ UNCHANGED <<conn, closeCh>>
  BY DEF CloseListener, CloseTCP, CloseWebsocket, CloseGo
<1>6. /\ conn' \in [Clients -> {"none", "dialing", "up", "rejected", "crashed", "unanswered", "gone"}]
      /\ closeCh' \in [Clients \X Sides -> 0..1]
      /\ Known /\ Up' \subseteq Up
  <2>1. CASE UNCHANGED <<conn, closeCh>>
    BY <1>1, <2>1 DEF Shape, Known, Up
  <2>2. CASE \E cs : Gone(cs)
    BY <1>1, <2>2, GoneFacts
  <2> QED  BY <1>5, <2>1, <2>2
<1>7. backlog' \in Seq(Clients)
  <2>1. <<>> \in Seq(Clients)
    BY EmptySeq
  <2> QED  BY <1>1, <1>4, <2>1 DEF Shape
<1>8. Shape'
  BY <1>1, <1>2, <1>3, <1>6, <1>7 DEF Shape
<1>9. pending.closed => listener' = "closed"
  BY <1>1, <1>3 DEF SessionInv, PendingInv
<1>10. SessionInv'
  BY <1>1, <1>2, <1>4, <1>6, <1>9, SessionStays
<1> QED  BY <1>2, <1>8, <1>10, Frame

LEMMA ClosedStep ==
    ASSUME ServingInv, Closed
    PROVE  ServingInv'
<1> USE DEF sessions, channels
<1>1. Shape /\ SessionInv
  BY DEF ServingInv, SessionInv
<1>2. /\ pending \in QueueType(Loops, Clients) /\ made \in Seq(Clients) /\ served \in Seq(Clients)
      /\ pending' = CloseQueue(pending)
  BY <1>1 DEF Shape, Closed
<1>3. /\ pending' \in QueueType(Loops, Clients) /\ pending'.closed /\ pending'.q = pending.q
      /\ Idle(pending) => Idle(pending')
      /\ Line(pending, served, made) => Line(pending', served, made)
  BY <1>2, CloseLine
<1>4. Shape'
  BY <1>1, <1>3 DEF Closed, Shape
<1>5. PendingInv'
  BY <1>1, <1>3 DEF SessionInv, PendingInv, Closed, Up, JavaScript, Idle, Line
<1>6. /\ ComesOnce'
      /\ ~JavaScript' => AcceptedInv'
      /\ setting'.listener = "goTcp" => OneAtATime'
  BY <1>1 DEF SessionInv, ComesOnce, Distinct, AcceptedInv, OneAtATime, JavaScript, Closed
<1>7. SessionInv'
  BY <1>5, <1>6 DEF SessionInv
<1> QED  BY <1>4, <1>7, Frame DEF Closed

(* Somebody new comes after those who came before. *)
LEMMA ComesNew ==
    ASSUME NEW S, NEW s \in Seq(S), Distinct(s), NEW x \in S, \A i \in 1 .. Len(s) : s[i] # x
    PROVE  Distinct(Append(s, x))
<1> DEFINE n == Len(s)
           t == Append(s, x)
<1>1. n \in Nat
  BY Elements
<1>2. Len(t) = n + 1 /\ (\A i \in 1 .. n : t[i] = s[i]) /\ t[n + 1] = x
  BY AppendOne
<1> HIDE DEF n, t
<1>3. ASSUME NEW i \in 1 .. n + 1, NEW j \in 1 .. n + 1, t[i] = t[j]
      PROVE  i = j
  <2>1. CASE i \in 1 .. n /\ j \in 1 .. n
    <3>1. s[i] = s[j]
      BY <1>2, <1>3, <2>1
    <3> QED  BY <2>1, <3>1 DEF Distinct, n
  <2>2. CASE i = n + 1 /\ j \in 1 .. n
    BY <1>2, <1>3, <2>2 DEF n
  <2>3. CASE i \in 1 .. n /\ j = n + 1
    BY <1>2, <1>3, <2>3 DEF n
  <2> QED  BY <1>1, <2>1, <2>2, <2>3
<1>4. Distinct(t)
  BY <1>2, <1>3 DEF Distinct
<1> QED  BY <1>4 DEF t

LEMMA ConnectionStep ==
    ASSUME ServingInv, NEW c \in Clients, Connection(c)
    PROVE  ServingInv'
<1> USE DEF sessions, channels
<1>1. Shape /\ SessionInv
  BY DEF ServingInv, SessionInv
<1>2. conn[c] = "dialing" /\ conn' = [conn EXCEPT ![c] = "up"]
  BY <1>1, DialledFacts, SettingsAssumption DEF Connection
<1>3. /\ UNCHANGED <<setting, listener, accepted, closer, errs, closes, served, serve, channels>>
      /\ ~pending.closed
  BY <1>1 DEF Connection, SessionInv, PendingInv
<1>4. /\ conn' \in [Clients -> {"none", "dialing", "up", "rejected", "crashed", "unanswered", "gone"}]
      /\ Known /\ conn'[c] \notin {"none", "dialing"}
  BY <1>1, <1>2 DEF Shape, Known
<1>5. /\ made \in Seq(Clients) /\ backlog \in Seq(Clients) /\ served \in Seq(Clients)
      /\ pending \in QueueType(Loops, Clients)
      /\ \A i \in 1 .. Len(made) : made[i] \in Clients
      /\ \A i \in 1 .. Len(backlog) : backlog[i] \in Clients
  BY <1>1, Elements DEF Shape
<1>6. /\ \A i \in 1 .. Len(made) : made[i] # c
      /\ \A i \in 1 .. Len(backlog) : backlog[i] # c
  BY <1>1, <1>2 DEF SessionInv, ComesOnce
<1>7. CASE JavaScript
  <2>1. made' = Append(made, c) /\ pending' = Push(pending, c) /\ backlog' = backlog
    BY <1>7 DEF Connection
  <2>2. /\ made' \in Seq(Clients) /\ Len(made') = Len(made) + 1 /\ Len(made) \in Nat
        /\ \A i \in 1 .. Len(made) : made'[i] = made[i]
        /\ made'[Len(made) + 1] = c
    BY <1>5, <2>1, AppendOne
  <2>3. Line(pending, served, made) /\ backlog = <<>> /\ Len(backlog) = 0
    BY <1>1, <1>7 DEF SessionInv, PendingInv
  <2>4. pending' \in QueueType(Loops, Clients) /\ ~pending'.closed /\ Line(pending', served, made')
    BY <1>3, <1>5, <2>1, <2>3, PushLine
  <2>5. Shape'
    BY <1>1, <1>3, <1>4, <2>1, <2>2, <2>4 DEF Shape
  <2>6. PendingInv'
    BY <1>3, <1>7, <2>1, <2>3, <2>4 DEF PendingInv, JavaScript, Line
  <2>7. Distinct(made')
    BY <1>1, <1>5, <1>6, <2>1, ComesNew DEF SessionInv, ComesOnce
  <2>8. ASSUME NEW i \in 1 .. Len(made') PROVE conn'[made'[i]] \notin {"none", "dialing"}
    <3>1. CASE i \in 1 .. Len(made)
      BY <1>1, <1>4, <1>5, <2>2, <3>1 DEF SessionInv, ComesOnce, Known
    <3>2. CASE i = Len(made) + 1
      BY <1>4, <2>2, <3>2
    <3> QED  BY <2>2, <3>1, <3>2
  <2>9. ComesOnce'
    BY <1>1, <2>1, <2>3, <2>7, <2>8 DEF SessionInv, ComesOnce, Distinct
  <2>10. JavaScript' /\ setting'.listener # "goTcp"
    BY <1>3, <1>7 DEF JavaScript
  <2>11. SessionInv'
    BY <2>6, <2>9, <2>10 DEF SessionInv
  <2> QED  BY <1>3, <2>5, <2>11, Frame
<1>8. CASE ~JavaScript
  <2>1. backlog' = Append(backlog, c) /\ made' = made /\ pending' = pending
    BY <1>8 DEF Connection
  <2>2. /\ backlog' \in Seq(Clients) /\ Len(backlog') = Len(backlog) + 1 /\ Len(backlog) \in Nat
        /\ \A i \in 1 .. Len(backlog) : backlog'[i] = backlog[i]
        /\ backlog'[Len(backlog) + 1] = c
    BY <1>5, <2>1, AppendOne
  <2>3. Shape'
    BY <1>1, <1>3, <1>4, <2>1, <2>2 DEF Shape
  <2>4. PendingInv'
    BY <1>1, <1>3, <1>8, <2>1 DEF SessionInv, PendingInv, JavaScript, Idle
  <2>5. Distinct(backlog')
    BY <1>1, <1>5, <1>6, <2>1, ComesNew DEF SessionInv, ComesOnce
  <2>6. ASSUME NEW j \in 1 .. Len(backlog')
        PROVE  /\ conn'[backlog'[j]] \notin {"none", "dialing"}
               /\ \A i \in 1 .. Len(made) : made[i] # backlog'[j]
    <3>1. CASE j \in 1 .. Len(backlog)
      BY <1>1, <1>4, <1>5, <2>2, <3>1 DEF SessionInv, ComesOnce, Known
    <3>2. CASE j = Len(backlog) + 1
      BY <1>4, <1>6, <2>2, <3>2
    <3> QED  BY <2>2, <3>1, <3>2
  <2>7. \A i \in 1 .. Len(made) : conn'[made[i]] \notin {"none", "dialing"}
    BY <1>1, <1>4, <1>5 DEF SessionInv, ComesOnce, Known
  <2>8. ComesOnce'
    BY <1>1, <2>1, <2>5, <2>6, <2>7 DEF SessionInv, ComesOnce, Distinct
  <2>9. /\ ~JavaScript' => AcceptedInv'
        /\ setting'.listener = "goTcp" => OneAtATime'
    BY <1>1, <1>3, <2>1 DEF SessionInv, AcceptedInv, Distinct, OneAtATime, JavaScript
  <2>10. SessionInv'
    BY <2>4, <2>8, <2>9 DEF SessionInv
  <2> QED  BY <1>3, <2>3, <2>10, Frame
<1> QED  BY <1>7, <1>8

LEMMA TakeConnectionStep ==
    ASSUME ServingInv, TakeConnection
    PROVE  ServingInv'
<1> USE DEF sessions, channels
<1>1. Shape /\ SessionInv /\ backlog # <<>>
  BY DEF ServingInv, SessionInv, TakeConnection
<1>2. ~JavaScript
  BY <1>1 DEF SessionInv, PendingInv
<1>3. PICK c : c = Head(backlog)
  OBVIOUS
<1>4. /\ backlog' = Tail(backlog) /\ made' = Append(made, c) /\ accepted' = accepted \cup {c}
      /\ setting.listener = "goTcp" => accepted = {}
      /\ UNCHANGED <<setting, listener, pending, closer, errs, closes, served, serve,
                     conn, channels>>
  BY <1>3 DEF TakeConnection
<1>5. made \in Seq(Clients) /\ backlog \in Seq(Clients) /\ served \in Seq(Clients)
  BY <1>1 DEF Shape
<1>6. PICK b : b = Tail(backlog)
  OBVIOUS
<1>7. /\ b \in Seq(Clients) /\ c = backlog[1] /\ c \in Clients
      /\ Len(backlog) \in Nat \ {0} /\ Len(b) = Len(backlog) - 1
      /\ \A i \in 1 .. Len(backlog) - 1 : b[i] = backlog[i + 1]
  BY <1>1, <1>3, <1>5, <1>6, TailOne
<1>8. /\ made' \in Seq(Clients) /\ Len(made') = Len(made) + 1 /\ Len(made) \in Nat
      /\ \A i \in 1 .. Len(made) : made'[i] = made[i]
      /\ made'[Len(made) + 1] = c
  BY <1>4, <1>5, <1>7, AppendOne
<1>9. Shape'
  BY <1>1, <1>4, <1>6, <1>7, <1>8 DEF Shape
<1>10. PendingInv'
  BY <1>1, <1>2, <1>4 DEF SessionInv, PendingInv, JavaScript, Idle, Up
<1>11. /\ Distinct(made) /\ Distinct(backlog)
       /\ \A i \in 1 .. Len(made), j \in 1 .. Len(backlog) : made[i] # backlog[j]
       /\ \A i \in 1 .. Len(made) : conn[made[i]] \notin {"none", "dialing"}
       /\ \A i \in 1 .. Len(backlog) : conn[backlog[i]] \notin {"none", "dialing"}
  BY <1>1 DEF SessionInv, ComesOnce
<1>12. PICK k \in Nat, m \in Nat : k = Len(backlog) /\ m = Len(made)
  BY <1>7, <1>8
<1>13. 1 \in 1 .. k /\ Len(b) = k - 1 /\ Len(made') = m + 1
  BY <1>7, <1>8, <1>12
<1>14. \A i \in 1 .. m : made[i] # c
  BY <1>7, <1>11, <1>12, <1>13
<1>15. Distinct(made')
  BY <1>4, <1>5, <1>7, <1>11, <1>12, <1>14, ComesNew
<1>16. ASSUME NEW i \in 1 .. k - 1
       PROVE  /\ i + 1 \in 1 .. k /\ b[i] = backlog[i + 1] /\ b[i] # c
              /\ conn[b[i]] \notin {"none", "dialing"}
  <2>1. i + 1 \in 1 .. k /\ i + 1 # 1
    BY <1>12
  <2>2. b[i] = backlog[i + 1]
    BY <1>7, <1>12
  <2>3. backlog[i + 1] # backlog[1]
    BY <1>11, <1>12, <1>13, <2>1 DEF Distinct
  <2> QED  BY <1>7, <1>11, <1>12, <2>1, <2>2, <2>3
<1>17. Distinct(b)
  <2>1. ASSUME NEW i \in 1 .. k - 1, NEW j \in 1 .. k - 1, b[i] = b[j]
        PROVE  i = j
    <3>1. i + 1 = j + 1
      BY <1>11, <1>12, <1>16, <2>1 DEF Distinct
    <3> QED  BY <3>1
  <2> QED  BY <1>13, <2>1 DEF Distinct
<1>18. ASSUME NEW i \in 1 .. m + 1
       PROVE  /\ conn[made'[i]] \notin {"none", "dialing"}
              /\ \A j \in 1 .. k - 1 : made'[i] # b[j]
  <2>1. CASE i \in 1 .. m
    BY <1>8, <1>11, <1>12, <1>16, <2>1
  <2>2. CASE i = m + 1
    BY <1>7, <1>8, <1>11, <1>12, <1>13, <1>16, <2>2
  <2> QED  BY <2>1, <2>2
<1>19. ComesOnce'
  <2>1. conn' = conn /\ backlog' = b
    BY <1>4, <1>6
  <2> QED  BY <1>13, <1>15, <1>16, <1>17, <1>18, <2>1 DEF ComesOnce, Distinct
<1>20. /\ \A i \in 1 .. Len(served) : served[i] \notin accepted
       /\ \A i \in 1 .. Len(served) : \E j \in 1 .. m : served[i] = made[j]
       /\ \A d \in accepted : \E j \in 1 .. m : d = made[j]
       /\ Distinct(served)
  BY <1>1, <1>2, <1>12 DEF SessionInv, AcceptedInv
<1>21. \A j \in 1 .. m : j \in 1 .. m + 1 /\ made'[j] = made[j]
  BY <1>8, <1>12
<1>22. m + 1 \in 1 .. m + 1 /\ made'[m + 1] = c
  BY <1>8, <1>12
<1>23. AcceptedInv'
  <2>1. ASSUME NEW i \in 1 .. Len(served) PROVE served[i] \notin accepted'
    <3>1. PICK j \in 1 .. m : served[i] = made[j]
      BY <1>20
    <3>2. served[i] # c /\ served[i] \notin accepted
      BY <1>14, <1>20, <3>1
    <3> QED  BY <1>4, <3>2
  <2>2. \A i \in 1 .. Len(served) : \E j \in 1 .. m + 1 : served[i] = made'[j]
    BY <1>20, <1>21
  <2>3. ASSUME NEW d \in accepted' PROVE \E j \in 1 .. m + 1 : d = made'[j]
    <3>1. CASE d \in accepted
      <4>1. PICK j \in 1 .. m : d = made[j]
        BY <1>20, <3>1
      <4> QED  BY <1>21, <4>1
    <3>2. CASE d = c
      BY <1>22, <3>2
    <3> QED  BY <1>4, <3>1, <3>2
  <2>4. served' = served
    BY <1>4
  <2> QED  BY <1>13, <1>20, <2>1, <2>2, <2>3, <2>4 DEF AcceptedInv, Distinct
<1>24. ASSUME setting'.listener = "goTcp" PROVE OneAtATime'
  <2>1. accepted = {} /\ OneAtATime
    BY <1>1, <1>4, <1>24 DEF SessionInv
  <2>2. m = Len(served) /\ \A i \in 1 .. m : served[i] = made[i]
    BY <1>12, <2>1 DEF OneAtATime
  <2>3. served' = served /\ accepted' = {c}
    BY <1>4, <2>1
  <2> QED  BY <1>13, <1>21, <1>22, <2>2, <2>3 DEF OneAtATime
<1>25. SessionInv'
  BY <1>10, <1>19, <1>23, <1>24 DEF SessionInv
<1> QED  BY <1>4, <1>9, <1>25, Frame

LEMMA ServeAcceptsStep ==
    ASSUME ServingInv, NEW l \in Loops, ServeAccepts(l)
    PROVE  ServingInv'
<1> USE DEF channels
<1>1. Shape /\ SessionInv /\ JavaScript
  BY DEF ServingInv, SessionInv, ServeAccepts
<1>2. /\ pending \in QueueType(Loops, Clients) /\ made \in Seq(Clients) /\ served \in Seq(Clients)
      /\ pending' = Shift(pending, l) /\ Line(pending, served, made)
  BY <1>1 DEF Shape, ServeAccepts, SessionInv, PendingInv
<1>3. /\ pending' \in QueueType(Loops, Clients) /\ pending'.closed = pending.closed
      /\ Line(pending', served, made)
  BY <1>2, ShiftLine
<1>4. Shape'
  BY <1>1, <1>3 DEF ServeAccepts, Shape
<1>5. PendingInv'
  BY <1>1, <1>3 DEF SessionInv, PendingInv, ServeAccepts, Up, JavaScript, Line
<1>6. ComesOnce'
  BY <1>1 DEF SessionInv, ComesOnce, Distinct, ServeAccepts
<1>7. JavaScript' /\ setting'.listener # "goTcp"
  BY <1>1 DEF ServeAccepts, JavaScript
<1>8. SessionInv'
  BY <1>5, <1>6, <1>7 DEF SessionInv
<1> QED  BY <1>4, <1>8, Frame DEF ServeAccepts

LEMMA ServeGoesOnStep ==
    ASSUME ServingInv, ServeGoesOn
    PROVE  ServingInv'
<1>1. Shape /\ SessionInv /\ pending.handed # <<>>
  BY DEF ServingInv, SessionInv, ServeGoesOn
<1>2. JavaScript
  BY <1>1 DEF SessionInv, PendingInv, Idle
<1>3. PICK l, c : l = Head(pending.handed)[1] /\ c = Head(pending.handed)[2]
  OBVIOUS
<1>4. /\ c = Undefined => serve' = [serve EXCEPT ![l] = "returned"] /\ UNCHANGED <<served, respond>>
      /\ c # Undefined => /\ serve' = [serve EXCEPT ![l] = "ready"]
                          /\ served' = Append(served, c)
                          /\ respond' = [respond EXCEPT ![<<c, "server">>] = "ready"]
      /\ pending' = [pending EXCEPT !.handed = Tail(@)]
      /\ UNCHANGED <<setting, listener, accepted, backlog, closer, errs, closes, made, conn,
                     incoming, closeCh, opened, dispatched>>
  BY <1>3 DEF ServeGoesOn
<1>5. /\ pending \in QueueType(Loops, Clients) /\ made \in Seq(Clients) /\ served \in Seq(Clients)
      /\ Line(pending, served, made)
  BY <1>1, <1>2 DEF Shape, SessionInv, PendingInv
<1>6. /\ pending' \in QueueType(Loops, Clients) /\ pending'.closed = pending.closed
      /\ l \in Loops /\ c \in Clients \cup {Undefined}
      /\ c = Undefined => Line(pending', served, made)
      /\ c # Undefined => Line(pending', Append(served, c), made)
  <2>1. PICK queue \in QueueType(Loops, Clients) : queue = pending
    BY <1>5
  <2>2. /\ Line(queue, served, made) /\ c = Head(queue.handed)[2] /\ queue.handed # <<>>
        /\ pending' = GoneOn(queue) /\ Undefined \notin Clients
        /\ served \in Seq(Clients) /\ made \in Seq(Clients)
    BY <1>1, <1>3, <1>4, <1>5, <2>1, Constants DEF GoneOn
  <2>3. /\ pending' \in QueueType(Loops, Clients) /\ pending'.closed = queue.closed
        /\ Head(queue.handed)[1] \in Loops /\ c \in Clients \cup {Undefined}
        /\ c = Undefined => Line(pending', served, made) /\ queue.closed
        /\ c # Undefined => Line(pending', Append(served, c), made)
    BY ONLY <2>2, GoesOnLine
  <2> QED  BY <1>3, <2>1, <2>3
<1>7. Line(pending', served', made) /\ served' \in Seq(Clients)
  <2>1. CASE c = Undefined
    BY <1>4, <1>5, <1>6, <2>1
  <2>2. CASE c # Undefined
    <3>1. c \in Clients
      BY <1>6, <2>2
    <3>2. Append(served, c) \in Seq(Clients)
      BY <1>5, <3>1, AppendOne
    <3> QED  BY <1>4, <1>6, <2>2, <3>2
  <2> QED  BY <2>1, <2>2
<1>8. serve' \in [Loops -> {"ready", "waiting", "returned"}]
  BY <1>1, <1>4, <1>6 DEF Shape
<1>9. respond' \in [Clients \X Sides -> {"none", "ready", "waiting", "returned"}]
  <2>1. CASE c = Undefined
    BY <1>1, <1>4, <2>1 DEF Shape
  <2>2. CASE c # Undefined
    BY <1>1, <1>4, <2>2 DEF Shape
  <2> QED  BY <2>1, <2>2
<1>10. Shape'
  BY <1>1, <1>4, <1>6, <1>7, <1>8, <1>9 DEF Shape
<1>11. PendingInv'
  BY <1>1, <1>2, <1>4, <1>6, <1>7 DEF SessionInv, PendingInv, Up, JavaScript, Line
<1>12. ComesOnce'
  BY <1>1, <1>4 DEF SessionInv, ComesOnce, Distinct
<1>13. JavaScript' /\ setting'.listener # "goTcp"
  BY <1>2, <1>4 DEF JavaScript
<1>14. SessionInv'
  BY <1>11, <1>12, <1>13 DEF SessionInv
<1> QED  BY <1>4, <1>10, <1>14, Frame

LEMMA ServeGoStep ==
    ASSUME ServingInv, NEW l \in Loops, ServeGo(l)
    PROVE  ServingInv'
<1>1. Shape /\ SessionInv /\ ~JavaScript
  BY DEF ServingInv, SessionInv, ServeGo
<1>2. UNCHANGED <<setting, listener, pending, backlog, made, conn, incoming, closeCh,
                  opened, dispatched>>
  BY DEF ServeGo
<1>3. made \in Seq(Clients) /\ served \in Seq(Clients) /\ AcceptedInv
  BY <1>1 DEF Shape, SessionInv
<1>4. PendingInv' /\ ComesOnce'
  BY <1>1, <1>2 DEF SessionInv, PendingInv, ComesOnce, Distinct, Up, JavaScript, Idle
<1>5. CASE \E c \in accepted :
             /\ accepted' = accepted \ {c}
             /\ served' = Append(served, c)
             /\ respond' = [respond EXCEPT ![<<c, "server">>] = "ready"]
             /\ UNCHANGED <<serve, closer, errs, closes>>
  <2>1. PICK c \in accepted :
             /\ accepted' = accepted \ {c}
             /\ served' = Append(served, c)
             /\ respond' = [respond EXCEPT ![<<c, "server">>] = "ready"]
             /\ UNCHANGED <<serve, closer, errs, closes>>
    BY <1>5
  <2>2. c \in Clients
    BY <1>1 DEF Shape
  <2>3. PICK n \in Nat, m \in Nat : n = Len(served) /\ m = Len(made)
    BY <1>3
  <2>4. /\ served' \in Seq(Clients) /\ Len(served') = n + 1
        /\ \A i \in 1 .. n : served'[i] = served[i]
        /\ served'[n + 1] = c
    BY <1>3, <2>1, <2>2, <2>3, AppendOne
  <2>5. Shape'
    BY <1>1, <1>2, <2>1, <2>2, <2>4 DEF Shape
  <2>6. /\ \A i \in 1 .. n : served[i] \notin accepted /\ served[i] # c
        /\ \A i \in 1 .. n : \E j \in 1 .. m : served[i] = made[j]
        /\ \A d \in accepted : \E j \in 1 .. m : d = made[j]
    BY <1>3, <2>1, <2>3 DEF AcceptedInv
  <2>7. Distinct(served')
    BY <1>3, <2>1, <2>2, <2>3, <2>6, ComesNew DEF AcceptedInv
  <2>8. ASSUME NEW i \in 1 .. n + 1
        PROVE  served'[i] \notin accepted' /\ \E j \in 1 .. m : served'[i] = made[j]
    <3>1. CASE i \in 1 .. n
      BY <2>1, <2>4, <2>6, <3>1
    <3>2. CASE i = n + 1
      BY <2>1, <2>4, <2>6, <3>2
    <3> QED  BY <2>3, <3>1, <3>2
  <2>9. AcceptedInv'
    BY <1>2, <2>1, <2>3, <2>4, <2>6, <2>7, <2>8 DEF AcceptedInv
  <2>10. ASSUME setting'.listener = "goTcp" PROVE OneAtATime'
    <3>1. OneAtATime
      BY <1>1, <1>2, <2>10 DEF SessionInv
    <3>2. m = n + 1 /\ accepted = {made[m]} /\ \A i \in 1 .. n : served[i] = made[i]
      BY <2>1, <2>3, <3>1 DEF OneAtATime
    <3>3. c = made[n + 1] /\ accepted' = {}
      BY <2>1, <3>2
    <3>4. ASSUME NEW i \in 1 .. n + 1 PROVE served'[i] = made[i]
      BY <2>3, <2>4, <3>2, <3>3
    <3> QED  BY <1>2, <2>3, <2>4, <3>2, <3>3, <3>4 DEF OneAtATime
  <2>11. SessionInv'
    BY <1>4, <2>9, <2>10 DEF SessionInv
  <2> QED  BY <1>2, <2>5, <2>11, Frame
<1>6. CASE /\ UNCHANGED <<accepted, served, respond>>
           /\ serve' = [serve EXCEPT ![l] = "returned"]
           /\ closer' \in {0, closer} /\ errs' \in {errs, "taken"}
  <2>1. Shape'
    <3>1. serve' \in [Loops -> {"ready", "waiting", "returned"}]
      BY <1>1, <1>6 DEF Shape
    <3>2. closer' \in 0..1
      BY <1>1, <1>6 DEF Shape
    <3>3. errs' \in {"none", "there", "taken"}
      BY <1>1, <1>6 DEF Shape
    <3> QED  BY <1>1, <1>2, <1>6, <3>1, <3>2, <3>3 DEF Shape
  <2>2. /\ ~JavaScript' => AcceptedInv'
        /\ setting'.listener = "goTcp" => OneAtATime'
    BY <1>1, <1>2, <1>6 DEF SessionInv, AcceptedInv, Distinct, OneAtATime, JavaScript
  <2>3. SessionInv'
    BY <1>4, <2>2 DEF SessionInv
  <2> QED  BY <1>2, <2>1, <2>3, Frame
<1> QED  BY <1>5, <1>6 DEF ServeGo

(* What happens at one end of one session. *)
LEMMA ChannelFrame ==
    ASSUME ServingInv, Shape', UNCHANGED <<setting, listening, sessions, conn>>,
           NEW e \in Clients \X Sides, IncomingInv(e)',
           \A d \in Clients \X Sides :
              d # e => /\ incoming'[d] = incoming[d] /\ opened'[d] = opened[d]
                       /\ dispatched'[d] = dispatched[d]
    PROVE  ServingInv'
<1>1. Shape /\ SessionInv
  BY DEF ServingInv, SessionInv
<1>2. ASSUME NEW d \in Clients \X Sides PROVE IncomingInv(d)'
  <2>1. CASE d = e
    BY <2>1
  <2>2. CASE d # e
    BY <2>2, IncomingStays DEF ServingInv
  <2> QED  BY <2>1, <2>2
<1>3. pending.closed => listener' = "closed"
  BY <1>1 DEF SessionInv, PendingInv, listening
<1>4. Known /\ Up' \subseteq Up
  BY DEF Known, Up
<1>5. SessionInv'
  BY <1>1, <1>3, <1>4, SessionStays DEF listening, sessions
<1> QED  BY <1>2, <1>5 DEF ServingInv, SessionInv

LEMMA EndTypes ==
    ASSUME Shape, NEW e \in Clients \X Sides
    PROVE  /\ incoming[e] \in QueueType(Clients \X Sides, Nat \ {0}) /\ opened[e] \in Nat
           /\ dispatched[e] \in Seq(Nat \ {0}) /\ Came(e) \in Seq(Nat \ {0})
<1>1. opened[e] \in Nat
  BY DEF Shape
<1>2. Came(e) \in [1 .. opened[e] -> Nat \ {0}]
  BY <1>1 DEF Came
<1>3. Came(e) \in Seq(Nat \ {0})
  BY <1>1, <1>2, Listing
<1> QED  BY <1>1, <1>3 DEF Shape

LEMMA Updated ==
    ASSUME NEW D, NEW S, NEW f \in [D -> S], NEW d \in D, NEW x \in S,
           NEW g, g = [f EXCEPT ![d] = x]
    PROVE  g \in [D -> S] /\ g[d] = x /\ \A c \in D : c # d => g[c] = f[c]
  OBVIOUS

LEMMA ShapeOfChannels ==
    ASSUME Shape, UNCHANGED <<setting, listening, sessions, conn>>,
           incoming' \in [Clients \X Sides -> QueueType(Clients \X Sides, Nat \ {0})],
           closeCh' \in [Clients \X Sides -> 0..1],
           respond' \in [Clients \X Sides -> {"none", "ready", "waiting", "returned"}],
           opened' \in [Clients \X Sides -> Nat],
           dispatched' \in [Clients \X Sides -> Seq(Nat \ {0})]
    PROVE  Shape'
  BY DEF Shape, listening, sessions

LEMMA OpensStep ==
    ASSUME ServingInv, NEW e \in Clients \X Sides, Opens(e)
    PROVE  ServingInv'
<1>1. Shape /\ IncomingInv(e)
  BY DEF ServingInv
<1>2. /\ opened' = [opened EXCEPT ![e] = @ + 1]
      /\ incoming' = [incoming EXCEPT ![e] = Push(@, opened[e] + 1)]
      /\ UNCHANGED <<setting, listening, sessions, conn, closeCh, respond, dispatched>>
  BY DEF Opens
<1>3. PICK queue, taken, came, k :
        /\ queue = incoming[e] /\ taken = dispatched[e] /\ came = Came(e) /\ k = opened[e]
  OBVIOUS
<1>13. k \in Nat /\ k + 1 \in Nat /\ k + 1 \in Nat \ {0}
  <2>1. k \in Nat
    BY <1>1, <1>3, EndTypes
  <2> QED  BY <2>1
<1>4. /\ queue \in QueueType(Clients \X Sides, Nat \ {0}) /\ ~queue.closed
      /\ taken \in Seq(Nat \ {0}) /\ came \in Seq(Nat \ {0}) /\ Line(queue, taken, came)
  BY <1>1, <1>3, EndTypes DEF IncomingInv
<1>5. PICK r : r = Push(queue, k + 1)
  OBVIOUS
<1>6. /\ r \in QueueType(Clients \X Sides, Nat \ {0}) /\ ~r.closed
      /\ Line(r, taken, Append(came, k + 1))
      /\ Idle(queue) => Idle(r)
  <2>1. PICK W, V, v : W = Clients \X Sides /\ V = Nat \ {0} /\ v = k + 1
    OBVIOUS
  <2>2. /\ queue \in QueueType(W, V) /\ ~queue.closed
        /\ taken \in Seq(V) /\ came \in Seq(V) /\ Line(queue, taken, came)
        /\ v \in V /\ r = Push(queue, v)
    BY <1>4, <1>5, <1>13, <2>1
  <2>3. /\ r \in QueueType(W, V) /\ ~r.closed
        /\ Line(r, taken, Append(came, v))
        /\ Idle(queue) => Idle(r)
    BY ONLY <2>2, PushLine
  <2> QED  BY <2>1, <2>3
<1>7. /\ incoming' \in [Clients \X Sides -> QueueType(Clients \X Sides, Nat \ {0})]
      /\ incoming'[e] = r
      /\ \A d \in Clients \X Sides : d # e => incoming'[d] = incoming[d]
  <2>1. incoming' = [incoming EXCEPT ![e] = r]
    BY <1>2, <1>3, <1>5
  <2>2. incoming \in [Clients \X Sides -> QueueType(Clients \X Sides, Nat \ {0})]
    BY <1>1 DEF Shape
  <2> QED  BY <1>6, <2>1, <2>2, Updated
<1>14. /\ opened' \in [Clients \X Sides -> Nat]
       /\ opened'[e] = k + 1
       /\ \A d \in Clients \X Sides : d # e => opened'[d] = opened[d]
  <2>1. opened' = [opened EXCEPT ![e] = k + 1]
    BY <1>2, <1>3
  <2>2. opened \in [Clients \X Sides -> Nat]
    BY <1>1 DEF Shape
  <2> QED  BY <1>13, <2>1, <2>2, Updated
<1>8. Shape'
  <2>1. /\ closeCh' \in [Clients \X Sides -> 0..1]
        /\ respond' \in [Clients \X Sides -> {"none", "ready", "waiting", "returned"}]
        /\ dispatched' \in [Clients \X Sides -> Seq(Nat \ {0})]
    BY <1>1, <1>2 DEF Shape
  <2> QED  BY <1>1, <1>2, <1>7, <1>14, <2>1, ShapeOfChannels
<1>9. Came(e)' = Append(came, k + 1)
  <2>1. PICK later, now : later = Append(came, k + 1) /\ now = [n \in 1 .. k + 1 |-> n]
    OBVIOUS
  <2>2. now \in [1 .. k + 1 -> Nat \ {0}]
    BY <1>13, <2>1
  <2>3. now \in Seq(Nat \ {0}) /\ Len(now) = k + 1
    BY <1>13, <2>2, Listing
  <2>4. came = [n \in 1 .. k |-> n] /\ Len(came) = k
    <3>1. came = [n \in 1 .. k |-> n]
      BY <1>3 DEF Came
    <3>2. came \in [1 .. k -> Nat \ {0}]
      BY <1>13, <3>1
    <3> QED  BY <1>13, <3>1, <3>2, Listing
  <2>5. /\ later \in Seq(Nat \ {0}) /\ Len(later) = k + 1
        /\ \A i \in 1 .. k : later[i] = came[i]
        /\ later[k + 1] = k + 1
    BY <1>4, <1>13, <2>1, <2>4, AppendOne
  <2>6. ASSUME NEW i \in 1 .. k + 1 PROVE later[i] = now[i]
    <3>1. CASE i \in 1 .. k
      BY <2>1, <2>4, <2>5, <3>1
    <3>2. CASE i = k + 1
      BY <2>1, <2>5, <3>2
    <3> QED  BY <1>13, <3>1, <3>2
  <2>7. later = now
    BY <2>3, <2>5, <2>6, SeqEqual
  <2> QED  BY <1>14, <2>1, <2>7 DEF Came
<1>10. Go(e[2])' <=> Go(e[2])
  BY <1>2 DEF Go, JavaScript
<1>11. IncomingInv(e)'
  BY <1>1, <1>2, <1>3, <1>6, <1>7, <1>9, <1>10 DEF IncomingInv
<1>12. \A d \in Clients \X Sides :
         d # e => /\ incoming'[d] = incoming[d] /\ opened'[d] = opened[d]
                  /\ dispatched'[d] = dispatched[d]
  BY <1>2, <1>7, <1>14
<1> QED  BY <1>2, <1>8, <1>11, <1>12, ChannelFrame

LEMMA RespondAcceptsStep ==
    ASSUME ServingInv, NEW e \in Clients \X Sides, RespondAccepts(e)
    PROVE  ServingInv'
<1>1. Shape /\ IncomingInv(e) /\ ~Go(e[2])
  BY DEF ServingInv, RespondAccepts
<1>2. /\ incoming' = [incoming EXCEPT ![e] = Shift(@, e)]
      /\ respond' = [respond EXCEPT ![e] = "waiting"]
      /\ UNCHANGED <<setting, listening, sessions, conn, closeCh, opened, dispatched>>
  BY DEF RespondAccepts
<1>3. PICK queue, r, taken, came :
        /\ queue = incoming[e] /\ taken = dispatched[e] /\ came = Came(e)
        /\ r = Shift(queue, e)
  OBVIOUS
<1>4. /\ queue \in QueueType(Clients \X Sides, Nat \ {0}) /\ ~queue.closed
      /\ taken \in Seq(Nat \ {0}) /\ came \in Seq(Nat \ {0}) /\ Line(queue, taken, came)
  BY <1>1, <1>3, EndTypes DEF IncomingInv
<1>5. /\ r \in QueueType(Clients \X Sides, Nat \ {0}) /\ r.closed = queue.closed
      /\ Line(r, taken, came)
  BY <1>3, <1>4, ShiftLine
<1>6. incoming'[e] = r /\ opened'[e] = opened[e] /\ dispatched'[e] = taken
  BY <1>1, <1>2, <1>3 DEF Shape
<1>7. Shape'
  BY <1>1, <1>2, <1>3, <1>5 DEF Shape, listening, sessions
<1>8. Came(e)' = came /\ (Go(e[2])' <=> Go(e[2]))
  BY <1>2, <1>3 DEF Came, Go, JavaScript
<1>9. IncomingInv(e)'
  BY <1>1, <1>4, <1>5, <1>6, <1>8 DEF IncomingInv
<1>10. \A d \in Clients \X Sides :
         d # e => /\ incoming'[d] = incoming[d] /\ opened'[d] = opened[d]
                  /\ dispatched'[d] = dispatched[d]
  BY <1>1, <1>2 DEF Shape
<1> QED  BY <1>2, <1>7, <1>9, <1>10, ChannelFrame

LEMMA RespondGoesOnStep ==
    ASSUME ServingInv, NEW e \in Clients \X Sides, RespondGoesOn(e)
    PROVE  ServingInv'
<1>1. Shape /\ IncomingInv(e) /\ incoming[e].handed # <<>>
  BY DEF ServingInv, RespondGoesOn
<1>2. PICK queue, r, taken, came, ch :
        /\ queue = incoming[e] /\ taken = dispatched[e] /\ came = Came(e)
        /\ r = GoneOn(queue) /\ ch = Head(queue.handed)[2]
  OBVIOUS
<1>3. /\ queue \in QueueType(Clients \X Sides, Nat \ {0}) /\ ~queue.closed /\ queue.handed # <<>>
      /\ taken \in Seq(Nat \ {0}) /\ came \in Seq(Nat \ {0}) /\ Line(queue, taken, came)
      /\ Undefined \notin Nat \ {0} /\ (Go(e[2]) => Idle(queue))
  BY <1>1, <1>2, EndTypes, Constants DEF IncomingInv
<1>4. /\ r \in QueueType(Clients \X Sides, Nat \ {0}) /\ r.closed = queue.closed
      /\ ch \in (Nat \ {0}) \cup {Undefined}
      /\ ch = Undefined => Line(r, taken, came) /\ queue.closed
      /\ ch # Undefined => Line(r, Append(taken, ch), came)
  <2>1. PICK W, V : W = Clients \X Sides /\ V = Nat \ {0}
    OBVIOUS
  <2>2. /\ queue \in QueueType(W, V) /\ queue.handed # <<>> /\ Undefined \notin V
        /\ taken \in Seq(V) /\ came \in Seq(V) /\ Line(queue, taken, came)
        /\ r = GoneOn(queue) /\ ch = Head(queue.handed)[2]
    BY <1>2, <1>3, <2>1
  <2>3. /\ r \in QueueType(W, V) /\ r.closed = queue.closed
        /\ ch \in V \cup {Undefined}
        /\ ch = Undefined => Line(r, taken, came) /\ queue.closed
        /\ ch # Undefined => Line(r, Append(taken, ch), came)
    BY ONLY <2>2, GoesOnLine
  <2> QED  BY <2>1, <2>3
<1>5. ch # Undefined /\ ch \in Nat \ {0} /\ Line(r, Append(taken, ch), came)
  BY <1>3, <1>4
<1>6. /\ incoming' = [incoming EXCEPT ![e] = r]
      /\ dispatched' = [dispatched EXCEPT ![e] = Append(taken, ch)]
      /\ UNCHANGED <<setting, listening, sessions, conn, closeCh, opened>>
  BY <1>1, <1>2, <1>5 DEF RespondGoesOn, Shape, GoneOn
<1>7. \E x \in {"ready", "returned"} : respond' = [respond EXCEPT ![e] = x]
  BY DEF RespondGoesOn, ServerGoesOn, ClientGoesOn, PeerGoesOn
<1>8. Append(taken, ch) \in Seq(Nat \ {0})
  BY <1>3, <1>5, AppendOne
<1>9. /\ incoming' \in [Clients \X Sides -> QueueType(Clients \X Sides, Nat \ {0})]
      /\ incoming'[e] = r
      /\ \A d \in Clients \X Sides : d # e => incoming'[d] = incoming[d]
  <2>1. incoming \in [Clients \X Sides -> QueueType(Clients \X Sides, Nat \ {0})]
    BY <1>1 DEF Shape
  <2> QED  BY <1>4, <1>6, <2>1, Updated
<1>15. /\ dispatched' \in [Clients \X Sides -> Seq(Nat \ {0})]
       /\ dispatched'[e] = Append(taken, ch)
       /\ \A d \in Clients \X Sides : d # e => dispatched'[d] = dispatched[d]
  <2>1. dispatched \in [Clients \X Sides -> Seq(Nat \ {0})]
    BY <1>1 DEF Shape
  <2> QED  BY <1>6, <1>8, <2>1, Updated
<1>10. Shape'
  <2>1. respond' \in [Clients \X Sides -> {"none", "ready", "waiting", "returned"}]
    BY <1>1, <1>7 DEF Shape
  <2>2. /\ closeCh' \in [Clients \X Sides -> 0..1]
        /\ opened' \in [Clients \X Sides -> Nat]
    BY <1>1, <1>6 DEF Shape
  <2> QED  BY <1>1, <1>6, <1>9, <1>15, <2>1, <2>2, ShapeOfChannels
<1>11. Came(e)' = came /\ (Go(e[2])' <=> Go(e[2]))
  BY <1>2, <1>6 DEF Came, Go, JavaScript
<1>12. ~Go(e[2])
  BY <1>3 DEF Idle
<1>13. IncomingInv(e)'
  BY <1>3, <1>4, <1>5, <1>9, <1>11, <1>12, <1>15 DEF IncomingInv
<1>14. \A d \in Clients \X Sides :
         d # e => /\ incoming'[d] = incoming[d] /\ opened'[d] = opened[d]
                  /\ dispatched'[d] = dispatched[d]
  BY <1>6, <1>9, <1>15
<1> QED  BY <1>6, <1>10, <1>13, <1>14, ChannelFrame

LEMMA RespondGoStep ==
    ASSUME ServingInv, NEW e \in Clients \X Sides, RespondGo(e)
    PROVE  ServingInv'
<1>1. Shape /\ IncomingInv(e) /\ Go(e[2])
  BY DEF ServingInv, RespondGo
<1>2. UNCHANGED <<setting, listening, sessions, conn, opened>>
  BY DEF RespondGo
<1>3. Go(e[2])' <=> Go(e[2])
  BY <1>2 DEF Go, JavaScript
<1>4. CASE /\ incoming[e].q # <<>>
           /\ incoming' = [incoming EXCEPT ![e].q = Tail(@)]
           /\ dispatched' = [dispatched EXCEPT ![e] = Append(@, Head(incoming[e].q))]
           /\ UNCHANGED <<closeCh, respond>>
  <2>1. PICK queue, r, taken, came, ch :
          /\ queue = incoming[e] /\ taken = dispatched[e] /\ came = Came(e)
          /\ r = Received(queue) /\ ch = Head(queue.q)
    OBVIOUS
  <2>2. /\ queue \in QueueType(Clients \X Sides, Nat \ {0}) /\ ~queue.closed /\ queue.q # <<>>
        /\ taken \in Seq(Nat \ {0}) /\ came \in Seq(Nat \ {0}) /\ Line(queue, taken, came)
        /\ Idle(queue)
    BY <1>1, <1>4, <2>1, EndTypes DEF IncomingInv
  <2>3. /\ r \in QueueType(Clients \X Sides, Nat \ {0}) /\ r.closed = queue.closed /\ Idle(r)
        /\ ch \in Nat \ {0} /\ Line(r, Append(taken, ch), came)
    <3>1. PICK W, V : W = Clients \X Sides /\ V = Nat \ {0}
      OBVIOUS
    <3>2. /\ queue \in QueueType(W, V) /\ ~queue.closed /\ queue.q # <<>>
          /\ taken \in Seq(V) /\ came \in Seq(V) /\ Line(queue, taken, came)
          /\ Idle(queue) /\ r = Received(queue) /\ ch = Head(queue.q)
      BY <2>1, <2>2, <3>1
    <3>3. /\ r \in QueueType(W, V) /\ r.closed = queue.closed /\ Idle(r)
          /\ ch \in V /\ Line(r, Append(taken, ch), came)
      BY ONLY <3>2, TakeLine
    <3> QED  BY <3>1, <3>3
  <2>4. /\ incoming' = [incoming EXCEPT ![e] = r]
        /\ dispatched' = [dispatched EXCEPT ![e] = Append(taken, ch)]
    BY <1>1, <1>4, <2>1 DEF Shape, Received
  <2>5. Append(taken, ch) \in Seq(Nat \ {0})
    BY <2>2, <2>3, AppendOne
  <2>6. /\ incoming' \in [Clients \X Sides -> QueueType(Clients \X Sides, Nat \ {0})]
        /\ incoming'[e] = r
        /\ \A d \in Clients \X Sides : d # e => incoming'[d] = incoming[d]
    <3>1. incoming \in [Clients \X Sides -> QueueType(Clients \X Sides, Nat \ {0})]
      BY <1>1 DEF Shape
    <3> QED  BY <2>3, <2>4, <3>1, Updated
  <2>11. /\ dispatched' \in [Clients \X Sides -> Seq(Nat \ {0})]
         /\ dispatched'[e] = Append(taken, ch)
         /\ \A d \in Clients \X Sides : d # e => dispatched'[d] = dispatched[d]
    <3>1. dispatched \in [Clients \X Sides -> Seq(Nat \ {0})]
      BY <1>1 DEF Shape
    <3> QED  BY <2>4, <2>5, <3>1, Updated
  <2>7. Shape'
    <3>1. /\ closeCh' \in [Clients \X Sides -> 0..1]
          /\ respond' \in [Clients \X Sides -> {"none", "ready", "waiting", "returned"}]
          /\ opened' \in [Clients \X Sides -> Nat]
      BY <1>1, <1>2, <1>4 DEF Shape
    <3> QED  BY <1>1, <1>2, <2>6, <2>11, <3>1, ShapeOfChannels
  <2>8. Came(e)' = came
    BY <1>2, <2>1 DEF Came
  <2>9. IncomingInv(e)'
    BY <2>2, <2>3, <2>6, <2>8, <2>11 DEF IncomingInv
  <2>10. \A d \in Clients \X Sides :
           d # e => /\ incoming'[d] = incoming[d] /\ opened'[d] = opened[d]
                    /\ dispatched'[d] = dispatched[d]
    BY <1>2, <2>6, <2>11
  <2> QED  BY <1>2, <2>7, <2>9, <2>10, ChannelFrame
<1>5. CASE /\ closeCh[e] = 1
           /\ closeCh' = [closeCh EXCEPT ![e] = 0]
           /\ respond' = [respond EXCEPT ![e] = "returned"]
           /\ UNCHANGED <<incoming, dispatched>>
  <2>1. Shape'
    <3>1. closeCh' \in [Clients \X Sides -> 0..1]
      BY <1>1, <1>5 DEF Shape
    <3>2. respond' \in [Clients \X Sides -> {"none", "ready", "waiting", "returned"}]
      BY <1>1, <1>5 DEF Shape
    <3>3. /\ incoming' \in [Clients \X Sides -> QueueType(Clients \X Sides, Nat \ {0})]
          /\ opened' \in [Clients \X Sides -> Nat]
          /\ dispatched' \in [Clients \X Sides -> Seq(Nat \ {0})]
      BY <1>1, <1>2, <1>5 DEF Shape
    <3> QED  BY <1>1, <1>2, <3>1, <3>2, <3>3, ShapeOfChannels
  <2>2. IncomingInv(e)'
    BY <1>1, <1>2, <1>5, IncomingStays
  <2> QED  BY <1>2, <1>5, <2>1, <2>2, ChannelFrame
<1> QED  BY <1>4, <1>5 DEF RespondGo

-----------------------------------------------------------------------------
(* The theorems *)

LEMMA ServingInit == Init => ServingInv
<1> SUFFICES ASSUME Init
             PROVE  ServingInv
  OBVIOUS
<1>1. /\ \A S : <<>> \in Seq(S)
      /\ Len(<<>>) = 0
  BY EmptySeq
<1>2. ASSUME NEW W, NEW V
      PROVE  /\ NewQueue \in QueueType(W, V)
             /\ Idle(NewQueue) /\ ~NewQueue.closed /\ NewQueue.q = <<>>
  <2>1. NewQueue \in QueueType(W, V)
    BY <1>1 DEF NewQueue, QueueType
  <2> QED  BY <2>1 DEF NewQueue, Idle
<1>3. ASSUME NEW came, Len(came) = 0
      PROVE  Line(NewQueue, <<>>, came)
  <2>1. 0 \in 0 .. Len(NewQueue.handed)
    BY <1>1 DEF NewQueue
  <2>2. InLine(NewQueue.q, NewQueue.handed, NewQueue.closed, <<>>, came, 0)
    BY <1>1, <1>3 DEF InLine, NewQueue
  <2> QED  BY <2>1, <2>2 DEF Line, NewQueue
<1>4. Shape
  <2>1. /\ pending \in QueueType(Loops, Clients)
        /\ incoming \in [Clients \X Sides -> QueueType(Clients \X Sides, Nat \ {0})]
    BY <1>2 DEF Init
  <2>2. /\ backlog \in Seq(Clients) /\ made \in Seq(Clients) /\ served \in Seq(Clients)
        /\ dispatched \in [Clients \X Sides -> Seq(Nat \ {0})]
    BY <1>1 DEF Init
  <2>3. /\ accepted \subseteq Clients
        /\ closer \in 0..1 /\ errs \in {"none", "there", "taken"}
        /\ listener \in {"new", "failed", "listening", "closing", "closed"}
    BY DEF Init
  <2>4. /\ serve \in [Loops -> {"ready", "waiting", "returned"}]
        /\ conn \in [Clients -> {"none", "dialing", "up", "rejected", "crashed", "unanswered", "gone"}]
    BY DEF Init
  <2>5. /\ closeCh \in [Clients \X Sides -> 0..1]
        /\ respond \in [Clients \X Sides -> {"none", "ready", "waiting", "returned"}]
        /\ opened \in [Clients \X Sides -> Nat]
    BY DEF Init
  <2>6. setting \in Settings
    BY DEF Init
  <2> QED  BY <2>1, <2>2, <2>3, <2>4, <2>5, <2>6 DEF Shape
<1>5. Line(pending, served, made)
  BY <1>1, <1>3 DEF Init
<1>6. PendingInv
  BY <1>2, <1>5 DEF Init, PendingInv
<1>7. ASSUME NEW e \in Clients \X Sides PROVE IncomingInv(e)
  <2>1. PICK came : came = Came(e)
    OBVIOUS
  <2>2. came \in [1 .. 0 -> Nat]
    BY <2>1 DEF Init, Came
  <2>3. Len(came) = 0
    BY <2>2, Listing
  <2>4. incoming[e] = NewQueue /\ dispatched[e] = <<>>
    BY DEF Init
  <2> QED  BY <1>2, <1>3, <2>1, <2>3, <2>4 DEF IncomingInv
<1>8. ComesOnce /\ AcceptedInv /\ OneAtATime
  BY <1>1 DEF Init, ComesOnce, AcceptedInv, OneAtATime, Distinct
<1> QED  BY <1>4, <1>6, <1>7, <1>8 DEF ServingInv

LEMMA ServingStep == ServingInv /\ [Next]_vars => ServingInv'
<1> SUFFICES ASSUME ServingInv, [Next]_vars
             PROVE  ServingInv'
  OBVIOUS
<1>1. CASE Listen
  BY <1>1, ListenStep
<1>2. CASE CloseListener
  BY <1>2, CloseListenerStep
<1>3. CASE \E c \in Clients : StartsDial(c) \/ DialFails(c)
  BY <1>3, DialStep
<1>4. CASE \E c \in Clients : Ends(c)
  BY <1>4, EndsStep
<1>5. CASE \E c \in Clients : Responds(c)
  BY <1>5, RespondsStep
<1>6. CASE \E e \in Clients \X Sides : Opens(e)
  BY <1>6, OpensStep
<1>7. CASE TakeConnection
  BY <1>7, TakeConnectionStep
<1>8. CASE Closed
  BY <1>8, ClosedStep
<1>9. CASE AcceptFails \/ AcceptBreaks
  BY <1>9, StopsAcceptingStep DEF AcceptFails, AcceptBreaks
<1>10. CASE ServeGoesOn
  BY <1>10, ServeGoesOnStep
<1>11. CASE \E c \in Clients : Connection(c)
  BY <1>11, ConnectionStep
<1>12. CASE \E l \in Loops : ServeAccepts(l)
  BY <1>12, ServeAcceptsStep
<1>13. CASE \E l \in Loops : ServeGo(l)
  BY <1>13, ServeGoStep
<1>14. CASE \E e \in Clients \X Sides : RespondAccepts(e)
  BY <1>14, RespondAcceptsStep
<1>15. CASE \E e \in Clients \X Sides : RespondGoesOn(e)
  BY <1>15, RespondGoesOnStep
<1>16. CASE \E e \in Clients \X Sides : RespondGo(e)
  BY <1>16, RespondGoStep
<1>17. CASE UNCHANGED vars
  <2>1. Shape /\ SessionInv
    BY DEF ServingInv, SessionInv
  <2>2. Shape'
    BY <1>17, <2>1 DEF vars, listening, sessions, channels, Shape
  <2>3. Known /\ Up' \subseteq Up
    BY <1>17 DEF vars, Known, Up
  <2>4. pending.closed => listener' = "closed"
    BY <1>17, <2>1 DEF vars, listening, SessionInv, PendingInv
  <2>5. SessionInv'
    BY <1>17, <2>1, <2>3, <2>4, SessionStays DEF vars, listening, sessions
  <2> QED  BY <1>17, <2>2, <2>5, Frame DEF vars, channels
<1> QED  BY <1>1, <1>2, <1>3, <1>4, <1>5, <1>6, <1>7, <1>8, <1>9, <1>10, <1>11, <1>12,
            <1>13, <1>14, <1>15, <1>16, <1>17 DEF Next, Application, Runs

(* What has come to a listener or to a session is at any time first what a    *)
(* loop has taken, then what has been handed to a loop that has not gone on,  *)
(* then what nobody has asked for: push, shift and close of the queue, accept *)
(* and the loops that serve keep it so, however many share a listener.        *)
THEOREM ServingInvariance == Spec => []ServingInv
<1>1. Init => ServingInv
  BY ServingInit
<1>2. ServingInv /\ [Next]_vars => ServingInv'
  BY ServingStep
<1> QED  BY <1>1, <1>2, PTL DEF Spec

(* Every variable has its type, and a queue that somebody waits at is empty: *)
(* no accept waits while there is a session or a channel for it.              *)
THEOREM ServingTypes == Spec => []TypeOK
<1>1. ServingInv => TypeOK
  <2> SUFFICES ASSUME ServingInv
               PROVE  TypeOK
    OBVIOUS
  <2>1. Shape /\ PendingInv /\ \A e \in Clients \X Sides : IncomingInv(e)
    BY DEF ServingInv
  <2>2. pending.waiters = <<>> \/ pending.q = <<>>
    BY <2>1 DEF PendingInv, Line
  <2>3. ASSUME NEW e \in Clients \X Sides
        PROVE  /\ respond[e] \in {"none", "ready", "waiting", "returned"} /\ closeCh[e] \in 0..1
               /\ incoming[e].waiters = <<>> \/ incoming[e].q = <<>>
    BY <2>1 DEF Shape, IncomingInv, Line
  <2> QED  BY <2>1, <2>2, <2>3 DEF Shape, TypeOK
<1> QED  BY <1>1, ServingInvariance, PTL

(* Every session is served, and every channel answered, once and in the order *)
(* they came; over HTTP in Go sessions have no order. What the queue of a     *)
(* listener drops when it closes has lost its connection by then.             *)
THEOREM ServedOnceInOrder == Spec => []EachOnceInOrder
<1>1. ServingInv => EachOnceInOrder
  <2> SUFFICES ASSUME ServingInv
               PROVE  EachOnceInOrder
    OBVIOUS
  <2>1. Shape /\ PendingInv /\ ComesOnce
    BY DEF ServingInv
  <2>2. /\ made \in Seq(Clients) /\ served \in Seq(Clients)
        /\ pending \in QueueType(Loops, Clients) /\ pending.closed \in BOOLEAN
        /\ DOMAIN served = 1 .. Len(served) /\ Len(served) \in Nat /\ Len(made) \in Nat
    BY <2>1, QueueFields, Elements DEF Shape
  <2>3. pending.closed => \A i \in DOMAIN pending.q : pending.q[i] \notin Up
    BY <2>1 DEF PendingInv
  <2>4. ASSUME JavaScript, ~pending.closed
        PROVE  served \o Values(pending) \o pending.q = made
    BY <2>1, <2>2, <2>4, LineIsCame DEF PendingInv
  <2>5. ASSUME setting.listener = "goTcp"
        PROVE  served = SubSeq(made, 1, Len(served))
    <3>1. PICK n \in Nat, m \in Nat : n = Len(served) /\ m = Len(made)
      BY <2>2
    <3>2. n <= m /\ \A i \in 1 .. n : served[i] = made[i]
      BY <2>5, <3>1 DEF ServingInv, OneAtATime
    <3>3. PICK s : s = SubSeq(made, 1, n)
      OBVIOUS
    <3>4. s \in Seq(Clients) /\ Len(s) = n /\ \A i \in 1 .. n : s[i] = made[i]
      <4>1. /\ s \in Seq(Clients)
            /\ Len(s) = IF 1 <= n THEN n - 1 + 1 ELSE 0
            /\ \A i \in 1 .. n - 1 + 1 : s[i] = made[1 + i - 1]
        BY <2>2, <3>1, <3>2, <3>3, SubSeqProperties
      <4>2. n - 1 + 1 = n /\ (~(1 <= n) => n = 0)
        OBVIOUS
      <4>3. \A i \in 1 .. n : 1 + i - 1 = i
        OBVIOUS
      <4> QED  BY <4>1, <4>2, <4>3
    <3>5. served = s
      BY <2>2, <3>1, <3>2, <3>4, SeqEqual
    <3> QED  BY <3>1, <3>3, <3>5
  <2>6. Distinct(served)
    <3>1. CASE ~JavaScript
      BY <3>1 DEF ServingInv, AcceptedInv
    <3>2. CASE JavaScript
      <4>1. PICK n \in 0 .. Len(pending.handed) :
              InLine(pending.q, pending.handed, pending.closed, served, made, n)
        BY <2>1, <3>2 DEF PendingInv, Line
      <4>2. \A i \in 1 .. Len(served) : served[i] = made[i] /\ i \in 1 .. Len(made)
        <5>1. PICK a \in Nat, b \in Nat, k \in Nat :
                a = Len(pending.q) /\ b = Len(pending.handed) /\ k = Len(served)
          BY <2>2, QueueFields
        <5>2. /\ Len(made) = k + n + a /\ n \in 0 .. b
              /\ \A i \in 1 .. Len(served) : served[i] = made[i]
          BY <4>1, <5>1 DEF InLine
        <5>3. \A i \in 1 .. k : i \in 1 .. Len(made)
          <6>1. n \in Nat
            BY <5>1, <5>2
          <6> QED  BY <5>2, <6>1
        <5>4. k = Len(served)
          BY <5>1
        <5> QED  BY <5>2, <5>3, <5>4
      <4>3. \A i, j \in 1 .. Len(made) : made[i] = made[j] => i = j
        BY <2>1 DEF ComesOnce, Distinct
      <4>4. ASSUME NEW i \in 1 .. Len(served), NEW j \in 1 .. Len(served), served[i] = served[j]
            PROVE  i = j
        <5>1. i \in 1 .. Len(made) /\ j \in 1 .. Len(made) /\ made[i] = made[j]
          BY <4>2, <4>4
        <5> QED  BY ONLY <4>3, <5>1
      <4> QED  BY <4>4 DEF Distinct
    <3> QED  BY <3>1, <3>2
  <2>7. ASSUME NEW e \in Clients \X Sides
        PROVE  dispatched[e] \o Values(incoming[e]) \o incoming[e].q = [n \in 1..opened[e] |-> n]
    <3>1. /\ incoming[e] \in QueueType(Clients \X Sides, Nat \ {0})
          /\ dispatched[e] \in Seq(Nat \ {0}) /\ Came(e) \in Seq(Nat \ {0})
      BY <2>1, EndTypes
    <3>2. ~incoming[e].closed /\ Line(incoming[e], dispatched[e], Came(e))
      BY DEF ServingInv, IncomingInv
    <3>3. PICK queue, taken, came, W, V :
            /\ queue = incoming[e] /\ taken = dispatched[e] /\ came = Came(e)
            /\ W = Clients \X Sides /\ V = Nat \ {0}
      OBVIOUS
    <3>4. /\ queue \in QueueType(W, V) /\ ~queue.closed /\ taken \in Seq(V) /\ came \in Seq(V)
          /\ Line(queue, taken, came)
      BY <3>1, <3>2, <3>3
    <3>5. taken \o Values(queue) \o queue.q = came
      BY ONLY <3>4, LineIsCame
    <3> QED  BY <3>3, <3>5 DEF Came
  <2> QED  BY <2>2, <2>3, <2>4, <2>5, <2>6, <2>7 DEF EachOnceInOrder, Distinct
<1> QED  BY <1>1, ServingInvariance, PTL

=============================================================================
