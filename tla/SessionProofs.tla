---------------------------- MODULE SessionProofs ----------------------------
(***************************************************************************)
(* Theorems about Session. The first part is for every setting, whatever   *)
(* its users do and whatever number a message arrives under: the channel   *)
(* list is right, by the inductive invariant ListIInv of SessionInvariant. *)
(* The second part is for settings in which no user writes or closes out   *)
(* of turn: every message finds the channel it was sent on, and no session *)
(* dies of one, by the inductive invariant RouteInv on top of ListIInv.    *)
(***************************************************************************)
EXTENDS SessionInvariant, SequenceTheorems, WellFoundedInduction, TLAPS

-----------------------------------------------------------------------------
(* The two ends, the channels, and the least number. *)

LEMMA OtherEnds ==
    \A e \in Ends : Other(e) \in Ends /\ Other(e) # e /\ Other(Other(e)) = e
  BY DEF Ends, Other

LEMMA TwoEnds ==
    ASSUME NEW e \in Ends, NEW x \in Ends
    PROVE  x = e \/ x = Other(e)
  BY DEF Ends, Other

LEMMA ChannelFacts ==
    ASSUME NEW c \in Channels
    PROVE  /\ Opener(c) \in Ends
           /\ c # Nil
           /\ c[2] \in Nat
<1>1. PICK e \in Ends : c \in {<<e, k>> : k \in 1 .. MaxOpens[e]}
  BY DEF Channels
<1>2. PICK k \in 1 .. MaxOpens[e] : c = <<e, k>>
  BY <1>1
<1>3. MaxOpens[e] \in Nat
  BY SessionAssumption
<1>4. c[1] = e /\ c[2] = k
  BY <1>2
<1>5. c # Nil
  BY <1>4 DEF Nil, Ends
<1> QED  BY <1>3, <1>4, <1>5 DEF Opener

LEMMA Minimum ==
    ASSUME NEW T \in SUBSET Nat, T # {}
    PROVE  \E x \in T : \A y \in T : x <= y
<1> DEFINE R == {ss \in Nat \X Nat : ss[1] < ss[2]}
<1>1. IsWellFoundedOn(R, Nat)
  BY NatLessThanWellFounded DEF OpToRel
<1>2. PICK x \in T : \A y \in T : ~(<<y, x>> \in R)
  <2> HIDE DEF R
  <2> QED  BY <1>1, WFMin
<1>3. \A y \in T : ~(y < x)
  BY <1>2
<1> QED  BY <1>3

-----------------------------------------------------------------------------
(* chanList *)

Lists == Seq(Channels \cup {Nil})

(* add finds the first free place, which exists. *)
LEMMA FreeSlotFacts ==
    ASSUME NEW list \in Lists
    PROVE  /\ FreeSlot(list) \in 1 .. Len(list) + 1
           /\ FreeSlot(list) = Len(list) + 1 \/ list[FreeSlot(list)] = Nil
<1> DEFINE Free(i) == i = Len(list) + 1 \/ list[i] = Nil
           T == {i \in 1 .. Len(list) + 1 : Free(i)}
<1>1. Len(list) \in Nat
  BY DEF Lists
<1>2. T \in SUBSET Nat /\ Len(list) + 1 \in T
  BY <1>1
<1>3. PICK x \in T : \A y \in T : x <= y
  <2> HIDE DEF T
  <2> QED  BY <1>2, Minimum
<1>4. x \in 1 .. Len(list) + 1 /\ Free(x)
  BY <1>3
<1>5. ASSUME NEW j \in 1 .. x - 1 PROVE list[j] # Nil
  <2>1. j \in 1 .. Len(list) + 1 /\ ~(x <= j)
    BY <1>1, <1>4
  <2> QED  BY <1>3, <2>1
<1>6. \E i \in 1 .. Len(list) + 1 :
         /\ i = Len(list) + 1 \/ list[i] = Nil
         /\ \A j \in 1 .. i - 1 : list[j] # Nil
  BY <1>4, <1>5
<1> QED  BY <1>6 DEF FreeSlot

LEMMA AddedFacts ==
    ASSUME NEW list \in Lists, NEW c \in Channels
    PROVE  /\ Added(list, c) \in Lists
           /\ FreeSlot(list) \in 1 .. Len(Added(list, c))
           /\ FreeSlot(list) - 1 \in Nat
           /\ Added(list, c)[FreeSlot(list)] = c
           /\ \A i \in 1 .. Len(Added(list, c)) :
                 i # FreeSlot(list) => i \in 1 .. Len(list) /\ Added(list, c)[i] = list[i]
           /\ \A i \in 1 .. Len(list) :
                 list[i] # Nil => /\ i \in 1 .. Len(Added(list, c))
                                  /\ i # FreeSlot(list)
                                  /\ Added(list, c)[i] = list[i]
<1> DEFINE f == FreeSlot(list)
           n == IF f > Len(list) THEN f ELSE Len(list)
           a == Added(list, c)
<1>1. /\ Len(list) \in Nat /\ list \in [1 .. Len(list) -> Channels \cup {Nil}]
  BY DEF Lists
<1>2. f \in 1 .. Len(list) + 1 /\ (f = Len(list) + 1 \/ list[f] = Nil)
  BY FreeSlotFacts
<1>3. a = [i \in 1 .. n |-> IF i = f THEN c ELSE list[i]]
  BY DEF Added
<1> HIDE DEF f, a
<1>4. n \in Nat /\ f \in 1 .. n /\ Len(list) <= n
      /\ \A i \in 1 .. n : i # f => i \in 1 .. Len(list)
  BY <1>1, <1>2
<1> HIDE DEF n
<1>5. a \in [1 .. n -> Channels \cup {Nil}]
  BY <1>1, <1>3, <1>4
<1>6. a \in Lists /\ Len(a) = n
  BY <1>4, <1>5, LenProperties DEF Lists
<1>7. \A i \in 1 .. Len(list) : list[i] # Nil => i \in 1 .. n /\ i # f
  BY <1>1, <1>2, <1>4
<1> QED  BY <1>1, <1>2, <1>3, <1>4, <1>6, <1>7 DEF f, a

LEMMA RemovedFacts ==
    ASSUME NEW list \in Lists, NEW id \in Nat
    PROVE  /\ Removed(list, id) \in Lists
           /\ Len(Removed(list, id)) = Len(list)
           /\ id + 1 \in 1 .. Len(list) => Removed(list, id)[id + 1] = Nil
           /\ \A i \in 1 .. Len(list) : i # id + 1 => Removed(list, id)[i] = list[i]
  BY DEF Removed, Lists

LEMMA GetChanFacts ==
    ASSUME NEW list \in Lists, NEW id \in Nat
    PROVE  /\ GetChan(list, id) \in Channels \cup {Nil}
           /\ GetChan(list, id) # Nil =>
                 id + 1 \in 1 .. Len(list) /\ list[id + 1] = GetChan(list, id)
           /\ \A i \in 1 .. Len(list) : i = id + 1 => GetChan(list, id) = list[i]
  BY DEF GetChan, Lists

-----------------------------------------------------------------------------
(* What the invariant says, in the forms the steps need.                     *)

LEMMA Typed ==
    ASSUME ListIInv, NEW e \in Ends
    PROVE  /\ chans[e] \in Lists /\ wire[e] \in Seq(Messages)
           /\ incoming[e] \in Seq(Channels)
           /\ loop[e] \in Places /\ err[e] \in Reasons
           /\ serving[e] \in Channels \cup {Nil}
           /\ \A c \in Channels : localId[e][c] \in Nat /\ remoteId[e][c] \in Nat
           /\ \A c \in Channels : replies[c] \in Seq({"OpenConfirm", "OpenFailure"})
  BY DEF ListIInv, TypeOK, Lists

(* The list and the numbers say the same. *)
LEMMA ListedAt ==
    ASSUME ListIInv, NEW e \in Ends
    PROVE  /\ \A c \in Channels :
                 InList(e, c) => GetChan(chans[e], localId[e][c]) = c
           /\ \A id \in Nat :
                 LET c == GetChan(chans[e], id)
                 IN  c # Nil => c \in Channels /\ InList(e, c) /\ localId[e][c] = id
<1>1. chans[e] \in Lists /\ \A c \in Channels : localId[e][c] \in Nat
  BY Typed
<1>2. Placed(e)
  BY DEF ListIInv
<1>3. ASSUME NEW c \in Channels, InList(e, c)
      PROVE  GetChan(chans[e], localId[e][c]) = c
  <2>1. PICK i \in 1 .. Len(chans[e]) : chans[e][i] = c
    BY <1>3 DEF InList
  <2>2. localId[e][c] = i - 1
    BY <1>2, <2>1, ChannelFacts DEF Placed
  <2>3. i = localId[e][c] + 1
    BY <1>1, <2>2
  <2> QED  BY <1>1, <2>1, <2>3, GetChanFacts
<1>4. ASSUME NEW id \in Nat, GetChan(chans[e], id) # Nil
      PROVE  LET c == GetChan(chans[e], id)
             IN  c \in Channels /\ InList(e, c) /\ localId[e][c] = id
  <2> DEFINE c == GetChan(chans[e], id)
  <2>1. c \in Channels /\ id + 1 \in 1 .. Len(chans[e]) /\ chans[e][id + 1] = c
    BY <1>1, <1>4, GetChanFacts
  <2>2. localId[e][c] = (id + 1) - 1
    BY <1>2, <1>4, <2>1 DEF Placed
  <2> QED  BY <2>1, <2>2 DEF InList
<1> QED  BY <1>3, <1>4

(* newChannel puts one channel into one list and touches no other number. *)
LEMMA AddList ==
    ASSUME ListIInv, NEW e \in Ends, NEW c \in Channels, ~InList(e, c),
           NewChannel(e, c)
    PROVE  /\ chans' \in [Ends -> Lists] /\ localId' \in [Ends -> [Channels -> Nat]]
           /\ \A x \in Ends, d \in Channels :
                 InList(x, d)' <=> InList(x, d) \/ (x = e /\ d = c)
           /\ \A x \in Ends : Placed(x)'
           /\ \A x \in Ends, d \in Channels :
                 x # e \/ d # c => localId'[x][d] = localId[x][d]
<1> DEFINE list == chans[e]
           f == FreeSlot(list)
           a == Added(list, c)
<1>1. /\ chans \in [Ends -> Lists] /\ localId \in [Ends -> [Channels -> Nat]]
      /\ list \in Lists
  BY DEF ListIInv, TypeOK, Lists
<1>2. chans' = [chans EXCEPT ![e] = a] /\ localId' = [localId EXCEPT ![e][c] = f - 1]
  BY DEF NewChannel
<1>3. /\ a \in Lists
      /\ f \in 1 .. Len(a) /\ f - 1 \in Nat /\ a[f] = c
      /\ \A i \in 1 .. Len(a) : i # f => i \in 1 .. Len(list) /\ a[i] = list[i]
      /\ \A i \in 1 .. Len(list) :
            list[i] # Nil => i \in 1 .. Len(a) /\ i # f /\ a[i] = list[i]
  BY <1>1, AddedFacts
<1>4. /\ chans' \in [Ends -> Lists] /\ localId' \in [Ends -> [Channels -> Nat]]
      /\ chans'[e] = a /\ localId'[e][c] = f - 1
      /\ \A x \in Ends : x # e => chans'[x] = chans[x]
      /\ \A x \in Ends, d \in Channels :
            x # e \/ d # c => localId'[x][d] = localId[x][d]
  <2> HIDE DEF a, f
  <2> QED  BY <1>1, <1>2, <1>3
<1> HIDE DEF a, f
<1>5. ASSUME NEW x \in Ends, NEW d \in Channels
      PROVE  InList(x, d)' <=> InList(x, d) \/ (x = e /\ d = c)
  <2>1. CASE x # e
    BY <1>4, <2>1 DEF InList
  <2>2. CASE x = e
    <3>1. ASSUME InList(e, d) PROVE InList(e, d)'
      BY <1>3, <1>4, <3>1, ChannelFacts DEF InList
    <3>2. InList(e, c)'
      BY <1>3, <1>4 DEF InList
    <3>3. ASSUME InList(e, d)', d # c PROVE InList(e, d)
      BY <1>3, <1>4, <3>3 DEF InList
    <3> QED  BY <2>2, <3>1, <3>2, <3>3
  <2> QED  BY <2>1, <2>2
<1>6. ASSUME NEW x \in Ends PROVE Placed(x)'
  <2>1. Placed(x)
    BY DEF ListIInv
  <2>2. CASE x # e
    <3> SUFFICES ASSUME NEW i \in 1 .. Len(chans[x]), chans[x][i] # Nil
                 PROVE  localId'[x][chans[x][i]] = i - 1
      BY <1>4, <2>2 DEF Placed
    <3>1. chans[x][i] \in Channels
      BY <1>1 DEF Lists
    <3> QED  BY <1>4, <2>1, <2>2, <3>1 DEF Placed
  <2>3. CASE x = e
    <3> SUFFICES ASSUME NEW i \in 1 .. Len(a), a[i] # Nil
                 PROVE  localId'[e][a[i]] = i - 1
      BY <1>4, <2>3 DEF Placed
    <3>1. CASE i = f
      BY <1>3, <1>4, <3>1
    <3>2. CASE i # f
      <4>1. i \in 1 .. Len(list) /\ a[i] = list[i]
        BY <1>3, <3>2
      <4>2. list[i] \in Channels /\ list[i] # c
        BY <1>1, <4>1 DEF Lists, InList
      <4>3. localId[e][list[i]] = i - 1
        BY <2>1, <2>3, <4>1 DEF Placed
      <4> QED  BY <1>4, <4>1, <4>2, <4>3
    <3> QED  BY <3>1, <3>2
  <2> QED  BY <2>2, <2>3
<1> QED  BY <1>4, <1>5, <1>6

(* remove takes out the one channel that has the number. *)
LEMMA RemoveList ==
    ASSUME ListIInv, NEW e \in Ends, NEW c \in Channels, InList(e, c),
           chans' = [chans EXCEPT ![e] = Removed(@, localId[e][c])],
           UNCHANGED localId
    PROVE  /\ chans' \in [Ends -> Lists]
           /\ \A x \in Ends, d \in Channels :
                 InList(x, d)' <=> InList(x, d) /\ ~(x = e /\ d = c)
           /\ \A x \in Ends : Placed(x)'
<1> DEFINE list == chans[e]
           id == localId[e][c]
           r == Removed(list, id)
<1>1. chans \in [Ends -> Lists] /\ list \in Lists /\ id \in Nat
  BY Typed DEF ListIInv, TypeOK, Lists
<1>2. /\ id + 1 \in 1 .. Len(list) /\ list[id + 1] = c
      /\ \A i \in 1 .. Len(list) : list[i] = c => i = id + 1
  <2>1. PICK k \in 1 .. Len(list) : list[k] = c
    BY DEF InList
  <2>2. \A i \in 1 .. Len(list) : list[i] = c => id = i - 1
    BY ChannelFacts DEF ListIInv, Placed
  <2>3. \A i \in 1 .. Len(list) : list[i] = c => i = id + 1
    BY <1>1, <2>2
  <2> QED  BY <2>1, <2>3
<1>3. /\ r \in Lists /\ Len(r) = Len(list) /\ r[id + 1] = Nil
      /\ \A i \in 1 .. Len(list) : i # id + 1 => r[i] = list[i]
  BY <1>1, <1>2, RemovedFacts
<1>4. /\ chans' \in [Ends -> Lists] /\ chans'[e] = r
      /\ \A x \in Ends : x # e => chans'[x] = chans[x]
  BY <1>1, <1>3
<1> HIDE DEF r
<1>5. ASSUME NEW x \in Ends, NEW d \in Channels
      PROVE  InList(x, d)' <=> InList(x, d) /\ ~(x = e /\ d = c)
  <2>1. CASE x # e
    BY <1>4, <2>1 DEF InList
  <2>2. CASE x = e
    <3>1. ASSUME InList(e, d), d # c PROVE InList(e, d)'
      BY <1>2, <1>3, <1>4, <3>1 DEF InList
    <3>2. ASSUME InList(e, d)' PROVE InList(e, d) /\ d # c
      <4>1. PICK i \in 1 .. Len(list) : r[i] = d
        BY <1>3, <1>4, <3>2 DEF InList
      <4>2. i # id + 1
        BY <1>3, <4>1, ChannelFacts
      <4> QED  BY <1>2, <1>3, <4>1, <4>2 DEF InList
    <3> QED  BY <2>2, <3>1, <3>2
  <2> QED  BY <2>1, <2>2
<1>6. ASSUME NEW x \in Ends PROVE Placed(x)'
  <2>1. Placed(x)
    BY DEF ListIInv
  <2>2. CASE x # e
    BY <1>4, <2>1, <2>2 DEF Placed
  <2>3. CASE x = e
    BY <1>3, <1>4, <2>1, <2>3 DEF Placed
  <2> QED  BY <2>2, <2>3
<1> QED  BY <1>4, <1>5, <1>6

-----------------------------------------------------------------------------
(* What happens to the messages that one end has written. *)

(* t is what is left of s. *)
Rest(s, t) ==
    \E k \in 0 .. Len(s) :
        /\ Len(t) = Len(s) - k
        /\ \A i \in 1 .. Len(t) : t[i] = s[i + k]

LEMMA RestFacts ==
    ASSUME NEW s \in Seq(Messages)
    PROVE  /\ Rest(s, s) /\ Rest(s, <<>>)
           /\ s # <<>> => Rest(s, Tail(s))
<1>1. Len(s) \in Nat
  OBVIOUS
<1>2. Rest(s, s)
  <2>1. 0 \in 0 .. Len(s) /\ Len(s) = Len(s) - 0 /\ \A i \in 1 .. Len(s) : i + 0 = i
    BY <1>1
  <2> QED  BY <2>1 DEF Rest
<1>3. Rest(s, <<>>)
  <2>1. Len(s) \in 0 .. Len(s) /\ Len(<<>>) = Len(s) - Len(s)
    BY <1>1
  <2> QED  BY <2>1 DEF Rest
<1>4. ASSUME s # <<>> PROVE Rest(s, Tail(s))
  <2>1. 1 \in 0 .. Len(s) /\ Len(Tail(s)) = Len(s) - 1
    BY <1>1, <1>4
  <2>2. \A i \in 1 .. Len(Tail(s)) : Tail(s)[i] = s[i + 1]
    BY <1>4
  <2> QED  BY <2>1, <2>2 DEF Rest
<1> QED  BY <1>2, <1>3, <1>4

LEMMA RestKeeps ==
    ASSUME NEW s \in Seq(Messages), NEW t \in Seq(Messages), Rest(s, t)
    PROVE  /\ \A i \in 1 .. Len(t) : \E j \in 1 .. Len(s) : t[i] = s[j]
           /\ \A type, c : ~Sent(s, type, c) => ~Sent(t, type, c)
           /\ \A type, c : Once(s, type, c) => Once(t, type, c)
<1>1. PICK k \in 0 .. Len(s) :
         Len(t) = Len(s) - k /\ \A i \in 1 .. Len(t) : t[i] = s[i + k]
  BY DEF Rest
<1>2. \A i \in 1 .. Len(t) : i + k \in 1 .. Len(s) /\ t[i] = s[i + k]
  BY <1>1
<1>3. \A i, j \in 1 .. Len(t) : i + k = j + k => i = j
  BY <1>1
<1>4. \A i \in 1 .. Len(t) : \E j \in 1 .. Len(s) : t[i] = s[j]
  BY <1>2
<1>5. ASSUME NEW type, NEW c, ~Sent(s, type, c) PROVE ~Sent(t, type, c)
  BY <1>4, <1>5 DEF Sent
<1>6. ASSUME NEW type, NEW c, Once(s, type, c) PROVE Once(t, type, c)
  BY <1>2, <1>3, <1>6 DEF Once
<1> QED  BY <1>4, <1>5, <1>6

LEMMA TailFacts ==
    ASSUME NEW s \in Seq(Messages), s # <<>>
    PROVE  /\ Tail(s) \in Seq(Messages)
           /\ 1 \in 1 .. Len(s)
           /\ \A i \in 1 .. Len(Tail(s)) : i + 1 \in 1 .. Len(s) /\ Tail(s)[i] = s[i + 1]
           /\ \A i \in 1 .. Len(s) :
                 i # 1 => i - 1 \in 1 .. Len(Tail(s)) /\ Tail(s)[i - 1] = s[i]
<1>1. /\ Tail(s) \in Seq(Messages) /\ Len(s) \in Nat \ {0}
      /\ Len(Tail(s)) = Len(s) - 1
  OBVIOUS
<1>2. \A i \in 1 .. Len(Tail(s)) : Tail(s)[i] = s[i + 1]
  BY <1>1
<1>3. \A i \in 1 .. Len(Tail(s)) : i + 1 \in 1 .. Len(s)
  BY <1>1
<1>4. \A i \in 1 .. Len(s) :
         i # 1 => i - 1 \in 1 .. Len(Tail(s)) /\ (i - 1) + 1 = i
  BY <1>1
<1>5. \A i \in 1 .. Len(s) : i # 1 => Tail(s)[i - 1] = s[i]
  BY <1>2, <1>4
<1> QED  BY <1>1, <1>2, <1>3, <1>4, <1>5

LEMMA OnceTail ==
    ASSUME NEW s \in Seq(Messages), s # <<>>, NEW type, NEW c, Once(s, type, c),
           s[1].type = type, s[1].of = c
    PROVE  ~Sent(Tail(s), type, c)
<1> SUFFICES ASSUME NEW i \in 1 .. Len(Tail(s)),
                    Tail(s)[i].type = type, Tail(s)[i].of = c
             PROVE  FALSE
  BY DEF Sent
<1>1. 1 \in 1 .. Len(s) /\ i + 1 \in 1 .. Len(s) /\ s[i + 1] = Tail(s)[i]
  BY TailFacts
<1>2. 1 = i + 1
  BY <1>1 DEF Once
<1> QED  BY <1>2

LEMMA AppendFacts ==
    ASSUME NEW s \in Seq(Messages), NEW m \in Messages
    PROVE  /\ Append(s, m) \in Seq(Messages)
           /\ Len(s) \in Nat
           /\ Len(Append(s, m)) = Len(s) + 1
           /\ \A i \in 1 .. Len(s) : i \in 1 .. Len(s) + 1 /\ Append(s, m)[i] = s[i]
           /\ Append(s, m)[Len(s) + 1] = m
           /\ \A i \in 1 .. Len(s) + 1 : i = Len(s) + 1 \/ i \in 1 .. Len(s)
  BY AppendProperties

LEMMA AppendKeeps ==
    ASSUME NEW s \in Seq(Messages), NEW m \in Messages
    PROVE  /\ \A type, c : Sent(Append(s, m), type, c) <=>
                 Sent(s, type, c) \/ (m.type = type /\ m.of = c)
           /\ \A type, c :
                 Once(s, type, c) /\ ~(Sent(s, type, c) /\ m.type = type /\ m.of = c)
                    => Once(Append(s, m), type, c)
<1> DEFINE t == Append(s, m)
<1>1. /\ Len(s) \in Nat /\ Len(t) = Len(s) + 1 /\ t[Len(s) + 1] = m
      /\ \A i \in 1 .. Len(s) : i \in 1 .. Len(s) + 1 /\ t[i] = s[i]
      /\ \A i \in 1 .. Len(s) + 1 : i = Len(s) + 1 \/ i \in 1 .. Len(s)
      /\ Len(s) + 1 \in 1 .. Len(s) + 1
  BY AppendFacts
<1> HIDE DEF t
<1>2. ASSUME NEW type, NEW c
      PROVE  Sent(t, type, c) <=> Sent(s, type, c) \/ (m.type = type /\ m.of = c)
  BY <1>1 DEF Sent
<1>3. ASSUME NEW type, NEW c, Once(s, type, c),
             ~(Sent(s, type, c) /\ m.type = type /\ m.of = c)
      PROVE  Once(t, type, c)
  BY <1>1, <1>3 DEF Sent, Once
<1> QED  BY <1>2, <1>3 DEF t

(* e writes m, which is lost if the connection is closed. *)
Writes(e, m) ==
    IF connClosed[e] \/ connClosed[Other(e)] THEN wire'[e] = wire[e]
    ELSE wire'[e] = Append(wire[e], m)

LEMMA EncodedOne ==
    ASSUME ListIInv, NEW e \in Ends, NEW m \in Messages
    PROVE  /\ Encoded(e, <<m>>) \in Seq(Messages)
           /\ Encoded(e, <<>>) = wire[e]
           /\ wire'[e] = Encoded(e, <<m>>) => Writes(e, m)
<1>1. wire[e] \in Seq(Messages)
  BY Typed
<1>2. wire[e] \o <<m>> = Append(wire[e], m) /\ wire[e] \o <<>> = wire[e]
  BY <1>1
<1>3. Append(wire[e], m) \in Seq(Messages)
  BY <1>1, AppendFacts
<1> QED  BY <1>1, <1>2, <1>3 DEF Encoded, Writes

LEMMA EncodeShape ==
    ASSUME ListIInv, NEW e \in Ends, NEW m \in Messages, Encode(e, m)
    PROVE  /\ wire' \in [Ends -> Seq(Messages)]
           /\ Writes(e, m)
           /\ wire'[Other(e)] = wire[Other(e)]
<1>1. wire \in [Ends -> Seq(Messages)]
  BY DEF ListIInv, TypeOK
<1>2. Encoded(e, <<m>>) \in Seq(Messages)
  BY EncodedOne
<1>3. wire' = [wire EXCEPT ![e] = Encoded(e, <<m>>)]
  BY DEF Encode
<1>4. wire'[e] = Encoded(e, <<m>>) /\ wire'[Other(e)] = wire[Other(e)]
  BY <1>1, <1>3, OtherEnds
<1> QED  BY <1>1, <1>2, <1>3, <1>4, EncodedOne

LEMMA ConsumeShape ==
    ASSUME ListIInv, NEW e \in Ends, wire[Other(e)] # <<>>
    PROVE  /\ Consume(e, <<>>) =>
                 /\ wire' \in [Ends -> Seq(Messages)]
                 /\ wire'[e] = wire[e]
                 /\ wire'[Other(e)] = Tail(wire[Other(e)])
           /\ \A m \in Messages : Consume(e, <<m>>) =>
                 /\ wire' \in [Ends -> Seq(Messages)]
                 /\ Writes(e, m)
                 /\ wire'[Other(e)] = Tail(wire[Other(e)])
<1> DEFINE o == Other(e)
<1>1. /\ wire \in [Ends -> Seq(Messages)] /\ o \in Ends /\ o # e
      /\ Tail(wire[o]) \in Seq(Messages)
  BY OtherEnds DEF ListIInv, TypeOK
<1>2. ASSUME NEW s, Encoded(e, s) \in Seq(Messages), Consume(e, s)
      PROVE  /\ wire' \in [Ends -> Seq(Messages)]
             /\ wire'[e] = Encoded(e, s)
             /\ wire'[o] = Tail(wire[o])
  BY <1>1, <1>2 DEF Consume
<1>3. ASSUME Consume(e, <<>>)
      PROVE  /\ wire' \in [Ends -> Seq(Messages)]
             /\ wire'[e] = wire[e]
             /\ wire'[o] = Tail(wire[o])
  <2>1. Encoded(e, <<>>) = wire[e]
    BY <1>1 DEF Encoded
  <2> QED  BY <1>1, <1>2, <1>3, <2>1
<1>4. ASSUME NEW m \in Messages, Consume(e, <<m>>)
      PROVE  /\ wire' \in [Ends -> Seq(Messages)]
             /\ Writes(e, m)
             /\ wire'[o] = Tail(wire[o])
  BY <1>2, <1>4, EncodedOne
<1> QED  BY <1>3, <1>4

LEMMA CloseConnShape ==
    ASSUME ListIInv, NEW e \in Ends, CloseConn(e)
    PROVE  /\ wire' \in [Ends -> Seq(Messages)]
           /\ wire'[e] = wire[e] /\ wire'[Other(e)] = <<>>
           /\ connClosed' \in [Ends -> BOOLEAN]
           /\ connClosed'[e] /\ connClosed'[Other(e)] = connClosed[Other(e)]
<1>1. /\ wire \in [Ends -> Seq(Messages)] /\ connClosed \in [Ends -> BOOLEAN]
      /\ Other(e) \in Ends /\ Other(e) # e /\ <<>> \in Seq(Messages)
  BY OtherEnds DEF ListIInv, TypeOK
<1> QED  BY <1>1 DEF CloseConn

(* The message that the loop is about to handle. *)
LEMMA NextFacts ==
    ASSUME ListIInv, NEW e \in Ends, wire[Other(e)] # <<>>
    PROVE  /\ NextMessage(e) \in Messages
           /\ NextMessage(e) = wire[Other(e)][1]
           /\ 1 \in 1 .. Len(wire[Other(e)])
           /\ NextMessage(e).of \in Channels
           /\ NextMessage(e).id \in Nat /\ NextMessage(e).sender \in Nat
<1>1. wire[Other(e)] \in Seq(Messages)
  BY OtherEnds, Typed
<1>2. NextMessage(e) = wire[Other(e)][1] /\ 1 \in 1 .. Len(wire[Other(e)])
  BY <1>1 DEF NextMessage
<1>3. NextMessage(e) \in Messages
  BY <1>1, <1>2
<1> QED  BY <1>2, <1>3 DEF Messages

LEMMA MessageFacts ==
    ASSUME NEW type \in {"Open", "OpenConfirm", "OpenFailure", "Data", "Close"},
           NEW id \in Nat, NEW sender \in Nat, NEW of \in Channels
    PROVE  /\ Message(type, id, sender, of) \in Messages
           /\ Message(type, id, sender, of).type = type
           /\ Message(type, id, sender, of).id = id
           /\ Message(type, id, sender, of).sender = sender
           /\ Message(type, id, sender, of).of = of
  BY DEF Message, Messages

-----------------------------------------------------------------------------
(* A part of the invariant is kept by a step that leaves alone what it is    *)
(* about.                                                                    *)

SameLists == \A x \in Ends, d \in Channels : InList(x, d)' <=> InList(x, d)

SameKnown == \A x \in Ends, d \in Channels : Known(x, d)' <=> Known(x, d)

(* m may be written by x. *)
Fitting(x, m) ==
    /\ m.type = "Open" => Opener(m.of) = x
    /\ m.type = "OpenConfirm" => Other(x) \in setting.acceptable
    /\ m.type = "OpenFailure" => Other(x) \notin setting.acceptable

(* x writes at most one message, which is not an Open. *)
Quiet(x) ==
    \/ Rest(wire[x], wire'[x])
    \/ \E m \in Messages : /\ m.type # "Open" /\ Fitting(x, m)
                           /\ wire'[x] = Append(wire[x], m)

LEMMA KeepLists ==
    ASSUME UNCHANGED chans
    PROVE  SameLists
  BY DEF SameLists, InList

LEMMA KeepPlaced ==
    ASSUME ListIInv, UNCHANGED <<chans, localId>>
    PROVE  \A x \in Ends : Placed(x)'
  BY DEF ListIInv, Placed

LEMMA KeepKnowing ==
    ASSUME ListIInv, UNCHANGED <<opening, accepted, incoming>>,
           \A x \in Ends : loop'[x] = "offering" <=> loop[x] = "offering",
           \A x \in Ends : loop[x] = "offering" => serving'[x] = serving[x]
    PROVE  SameKnown
<1> SUFFICES ASSUME NEW x \in Ends, NEW d \in Channels
             PROVE  Known(x, d)' <=> Known(x, d)
  BY DEF SameKnown
<1>1. Queued(x, d)' <=> Queued(x, d)
  BY DEF Queued
<1> QED  BY <1>1 DEF Known

LEMMA KeepLoopErr ==
    ASSUME ListIInv, UNCHANGED <<loop, err>>
    PROVE  \A x \in Ends : LoopErr(x)'
  BY DEF ListIInv, LoopErr

LEMMA KeepServing ==
    ASSUME ListIInv, UNCHANGED <<loop, serving, closed>>, SameLists
    PROVE  \A x \in Ends : ServingInv(x)'
  BY DEF ListIInv, ServingInv, SameLists

LEMMA KeepClosed ==
    ASSUME ListIInv, UNCHANGED <<doomed, loop, closed>>, SameLists
    PROVE  \A x \in Ends : ClosedInv(x)'
  BY DEF ListIInv, ClosedInv, SameLists

LEMMA KeepKnown ==
    ASSUME ListIInv, UNCHANGED <<closed, doomed, serving>>, SameLists, SameKnown
    PROVE  \A x \in Ends : KnownInv(x)'
  BY DEF ListIInv, KnownInv, SameLists, SameKnown

LEMMA KeepLocated ==
    ASSUME ListIInv, UNCHANGED <<setting, closed, doomed, loop, serving>>,
           SameLists, SameKnown
    PROVE  \A x \in Ends : LocatedInv(x)'
  BY DEF ListIInv, LocatedInv, SameLists, SameKnown, Acceptable

LEMMA KeepAfterDrop ==
    ASSUME ListIInv, UNCHANGED <<loop, opening, replies>>, SameLists
    PROVE  \A x \in Ends : AfterDrop(x)'
  BY DEF ListIInv, AfterDrop, SameLists

LEMMA KeepAnswers ==
    ASSUME ListIInv, UNCHANGED <<setting, opening, replies>>,
           \A x \in Ends, d \in Channels : InList(x, d)' => InList(x, d),
           \A x \in Ends : connClosed[x] => connClosed'[x],
           \A x \in Ends : err[x] # "none" => err'[x] # "none"
    PROVE  \A d \in Channels : AnswerInv(d)'
<1> SUFFICES ASSUME NEW d \in Channels PROVE AnswerInv(d)'
  OBVIOUS
<1>1. AnswerInv(d) /\ Opener(d) \in Ends
  BY ChannelFacts DEF ListIInv
<1>2. /\ Acceptable(d)' <=> Acceptable(d)
      /\ \A answer : Reply(d, answer)' <=> Reply(d, answer)
  BY DEF Acceptable, Reply
<1> QED  BY <1>1, <1>2 DEF AnswerInv

LEMMA KeepWire ==
    ASSUME ListIInv, UNCHANGED setting, wire' \in [Ends -> Seq(Messages)],
           \A x \in Ends : \/ Rest(wire[x], wire'[x])
                          \/ \E m \in Messages : /\ Fitting(x, m)
                                                 /\ wire'[x] = Append(wire[x], m)
    PROVE  \A x \in Ends : WireTypes(x)'
<1> SUFFICES ASSUME NEW x \in Ends, NEW i \in 1 .. Len(wire'[x])
             PROVE  Fitting(x, wire'[x][i])
  BY DEF WireTypes, Fitting
<1>1. wire[x] \in Seq(Messages) /\ wire'[x] \in Seq(Messages)
  BY Typed
<1>2. \A j \in 1 .. Len(wire[x]) : Fitting(x, wire[x][j])
  BY DEF ListIInv, WireTypes, Fitting
<1>3. CASE Rest(wire[x], wire'[x])
  BY <1>1, <1>2, <1>3, RestKeeps
<1>4. CASE \E m \in Messages : Fitting(x, m) /\ wire'[x] = Append(wire[x], m)
  BY <1>1, <1>2, <1>4, AppendFacts
<1> QED  BY <1>3, <1>4

LEMMA KeepOpens ==
    ASSUME ListIInv, UNCHANGED setting, SameKnown,
           wire' \in [Ends -> Seq(Messages)], \A x \in Ends : Quiet(x),
           \A d \in Channels :
              opening'[d] \in {"none", "encode"} <=> opening[d] \in {"none", "encode"}
    PROVE  /\ \A d \in Channels : OpenInv(d)'
           /\ \A x \in Ends : WireTypes(x)'
<1>1. ASSUME NEW d \in Channels PROVE OpenInv(d)'
  <2> DEFINE o == Opener(d)
  <2>1. OpenInv(d) /\ o \in Ends /\ Other(o) \in Ends
    BY ChannelFacts, OtherEnds DEF ListIInv
  <2>2. wire[o] \in Seq(Messages) /\ wire'[o] \in Seq(Messages)
    BY <2>1, Typed
  <2>3. /\ ~Sent(wire[o], "Open", d) => ~Sent(wire'[o], "Open", d)
        /\ Once(wire[o], "Open", d) => Once(wire'[o], "Open", d)
    <3>1. CASE Rest(wire[o], wire'[o])
      BY <2>2, <3>1, RestKeeps
    <3>2. CASE \E m \in Messages : m.type # "Open" /\ wire'[o] = Append(wire[o], m)
      BY <2>2, <3>2, AppendKeeps
    <3> QED  BY <2>1, <3>1, <3>2 DEF Quiet
  <2>4. Acceptable(d)' <=> Acceptable(d)
    BY DEF Acceptable
  <2>5. Known(Other(o), d)' <=> Known(Other(o), d)
    BY <2>1 DEF SameKnown
  <2>6. /\ Known(Other(o), d)' =>
              /\ opening'[d] \notin {"none", "encode"}
              /\ ~Sent(wire'[o], "Open", d) /\ Acceptable(d)'
        /\ opening'[d] \in {"none", "encode"} => ~Sent(wire'[o], "Open", d)
        /\ Once(wire'[o], "Open", d)
    BY <2>1, <2>3, <2>4, <2>5 DEF OpenInv
  <2> QED  BY <2>6 DEF OpenInv, Sent, Once
<1>2. \A x \in Ends : WireTypes(x)'
  BY KeepWire DEF Quiet
<1> QED  BY <1>1, <1>2

LEMMA QuietFacts ==
    ASSUME ListIInv, NEW x \in Ends
    PROVE  /\ wire'[x] = wire[x] => Quiet(x)
           /\ wire'[x] = <<>> => Quiet(x)
           /\ wire[x] # <<>> /\ wire'[x] = Tail(wire[x]) => Quiet(x)
           /\ \A m \in Messages :
                 Writes(x, m) /\ m.type # "Open" /\ Fitting(x, m) => Quiet(x)
<1>1. wire[x] \in Seq(Messages)
  BY Typed
<1> QED  BY <1>1, RestFacts DEF Quiet, Writes

LEMMA Together ==
    ASSUME TypeOK',
           \A x \in Ends : /\ Placed(x)' /\ LoopErr(x)' /\ ServingInv(x)'
                           /\ ClosedInv(x)' /\ KnownInv(x)' /\ LocatedInv(x)'
                           /\ AfterDrop(x)' /\ WireTypes(x)',
           \A d \in Channels : AnswerInv(d)' /\ OpenInv(d)'
    PROVE  ListIInv'
  BY DEF ListIInv

(* A step of an application: nothing changes hands. *)
LEMMA QuietStep ==
    ASSUME ListIInv, TypeOK',
           UNCHANGED <<setting, chans, localId, closed, doomed, loop, serving, err,
                       opening, replies>>,
           SameKnown,
           \A x \in Ends : connClosed[x] => connClosed'[x],
           \A x \in Ends : Quiet(x)
    PROVE  ListIInv'
<1>1. SameLists /\ \A x \in Ends : Placed(x)'
  BY KeepLists, KeepPlaced
<1>2. \A x \in Ends : /\ LoopErr(x)' /\ ServingInv(x)' /\ ClosedInv(x)'
                      /\ KnownInv(x)' /\ LocatedInv(x)' /\ AfterDrop(x)'
  BY <1>1, KeepLoopErr, KeepServing, KeepClosed, KeepKnown, KeepLocated, KeepAfterDrop
<1>3. \A d \in Channels : AnswerInv(d)'
  BY <1>1, KeepAnswers DEF SameLists
<1>4. /\ \A d \in Channels : OpenInv(d)'
      /\ \A x \in Ends : WireTypes(x)'
  BY KeepOpens DEF TypeOK
<1> QED  BY <1>1, <1>2, <1>3, <1>4, Together

-----------------------------------------------------------------------------
(* Open *)

(* What Open does when it calls newChannel. *)
Opens(e, c) ==
    /\ Opener(c) = e /\ opening[c] = "none" /\ replies[c] = <<>>
    /\ ~Known(e, c) /\ ~InList(e, c)
    /\ ~closed[e][c] /\ c \notin doomed[e] /\ serving[e] # c
    /\ chans' \in [Ends -> Lists] /\ localId' \in [Ends -> [Channels -> Nat]]
    /\ \A x \in Ends, d \in Channels :
          InList(x, d)' <=> InList(x, d) \/ (x = e /\ d = c)
    /\ \A x \in Ends : Placed(x)'
    /\ \A x \in Ends, d \in Channels :
          x # e \/ d # c => localId'[x][d] = localId[x][d]
    /\ opening' \in [Channels -> {"none", "encode", "wait", "open", "failed"}]
    /\ opening'[c] = "encode"
    /\ \A d \in Channels : d # c => opening'[d] = opening[d]
    /\ \A x \in Ends, d \in Channels :
          Known(x, d)' <=> Known(x, d) \/ (x = e /\ d = c)
    /\ UNCHANGED <<setting, remoteId, sentClose, closed, replies, incoming,
                   closeCh, loop, serving, doomed, wire, accepted, told, wrote,
                   err, connClosed>>

(* A channel that is opened is new to its list. *)
LEMMA OpenCallFacts ==
    ASSUME ListIInv, NEW e \in Ends, OpenCall(e)
    PROVE  \E c \in Channels : Opens(e, c)
<1>1. PICK c \in Channels :
         /\ Opener(c) = e /\ opening[c] = "none"
         /\ NewChannel(e, c)
         /\ opening' = [opening EXCEPT ![c] = "encode"]
         /\ UNCHANGED <<setting, remoteId, sentClose, closed, replies, incoming,
                        closeCh, loop, serving, doomed, wire, app, link>>
  BY DEF OpenCall
<1>2. UNCHANGED <<accepted, told, wrote, err, connClosed>>
  BY <1>1 DEF app, link
<1>3. ~Known(e, c)
  BY <1>1 DEF Known
<1>4. /\ ~InList(e, c) /\ ~closed[e][c] /\ c \notin doomed[e] /\ serving[e] # c
      /\ replies[c] = <<>>
  BY <1>1, <1>3 DEF ListIInv, KnownInv, AnswerInv
<1>5. /\ chans' \in [Ends -> Lists] /\ localId' \in [Ends -> [Channels -> Nat]]
      /\ \A x \in Ends, d \in Channels :
            InList(x, d)' <=> InList(x, d) \/ (x = e /\ d = c)
      /\ \A x \in Ends : Placed(x)'
      /\ \A x \in Ends, d \in Channels :
            x # e \/ d # c => localId'[x][d] = localId[x][d]
  BY <1>1, <1>4, AddList
<1>6. /\ opening' \in [Channels -> {"none", "encode", "wait", "open", "failed"}]
      /\ opening'[c] = "encode"
      /\ \A d \in Channels : d # c => opening'[d] = opening[d]
  BY <1>1 DEF ListIInv, TypeOK
<1>7. \A x \in Ends, d \in Channels :
         Known(x, d)' <=> Known(x, d) \/ (x = e /\ d = c)
  <2> SUFFICES ASSUME NEW x \in Ends, NEW d \in Channels
               PROVE  Known(x, d)' <=> Known(x, d) \/ (x = e /\ d = c)
    OBVIOUS
  <2>1. Queued(x, d)' <=> Queued(x, d)
    BY <1>1 DEF Queued
  <2> QED  BY <1>1, <1>2, <1>6, <2>1 DEF Known
<1> QED  BY <1>1, <1>2, <1>3, <1>4, <1>5, <1>6, <1>7 DEF Opens

LEMMA OpenCallStep ==
    ASSUME ListIInv, NEW e \in Ends, OpenCall(e)
    PROVE  ListIInv'
<1>1. PICK c \in Channels : Opens(e, c)
  BY OpenCallFacts
<1>2. /\ Opener(c) = e /\ opening[c] = "none" /\ replies[c] = <<>>
      /\ ~Known(e, c) /\ ~InList(e, c)
      /\ ~closed[e][c] /\ c \notin doomed[e] /\ serving[e] # c
      /\ chans' \in [Ends -> Lists] /\ localId' \in [Ends -> [Channels -> Nat]]
      /\ \A x \in Ends, d \in Channels :
            InList(x, d)' <=> InList(x, d) \/ (x = e /\ d = c)
      /\ \A x \in Ends : Placed(x)'
      /\ \A x \in Ends, d \in Channels :
            x # e \/ d # c => localId'[x][d] = localId[x][d]
      /\ opening' \in [Channels -> {"none", "encode", "wait", "open", "failed"}]
      /\ opening'[c] = "encode"
      /\ \A d \in Channels : d # c => opening'[d] = opening[d]
      /\ \A x \in Ends, d \in Channels :
            Known(x, d)' <=> Known(x, d) \/ (x = e /\ d = c)
      /\ UNCHANGED <<setting, remoteId, sentClose, closed, replies, incoming,
                     closeCh, loop, serving, doomed, wire, accepted, told, wrote,
                     err, connClosed>>
  BY <1>1 DEF Opens
<1>3. TypeOK'
  BY <1>2 DEF ListIInv, TypeOK, Lists
<1>4. \A x \in Ends : LoopErr(x)'
  BY <1>2, KeepLoopErr
<1>5. \A x \in Ends : ServingInv(x)' /\ ClosedInv(x)'
  BY <1>2 DEF ListIInv, ServingInv, ClosedInv
<1>6. ASSUME NEW x \in Ends PROVE KnownInv(x)' /\ LocatedInv(x)' /\ AfterDrop(x)'
  <2>1. KnownInv(x) /\ LocatedInv(x) /\ AfterDrop(x)
    BY DEF ListIInv
  <2>2. /\ closed'[x] = closed[x] /\ doomed'[x] = doomed[x]
        /\ serving'[x] = serving[x] /\ loop'[x] = loop[x]
    BY <1>2
  <2>3. \A d \in Channels : Known(x, d)' <=> Known(x, d) \/ (x = e /\ d = c)
    BY <1>2
  <2>4. \A d \in Channels : InList(x, d)' <=> InList(x, d) \/ (x = e /\ d = c)
    BY <1>2
  <2>5. \A d \in Channels : Acceptable(d)' <=> Acceptable(d)
    BY <1>2 DEF Acceptable
  <2>6. KnownInv(x)'
    BY <2>1, <2>2, <2>3, <2>4 DEF KnownInv
  <2>7. LocatedInv(x)'
    BY <2>1, <2>2, <2>3, <2>4, <2>5 DEF LocatedInv
  <2>8. AfterDrop(x)'
    BY <1>2, <2>1, <2>2, <2>4 DEF AfterDrop
  <2> QED  BY <2>6, <2>7, <2>8
<1>7. ASSUME NEW d \in Channels PROVE AnswerInv(d)'
  <2>1. AnswerInv(d) /\ Opener(d) \in Ends
    BY ChannelFacts DEF ListIInv
  <2>2. /\ Acceptable(d)' <=> Acceptable(d)
        /\ \A answer : Reply(d, answer)' <=> Reply(d, answer)
    BY <1>2 DEF Acceptable, Reply
  <2>3. CASE d = c
    <3>1. replies'[d] = <<>> /\ opening'[d] = "encode"
      BY <1>2, <2>3
    <3>2. ~Reply(d, "OpenConfirm")' /\ ~Reply(d, "OpenFailure")'
      BY <3>1 DEF Reply
    <3> QED  BY <3>1, <3>2 DEF AnswerInv
  <2>4. CASE d # c
    <3>1. InList(Opener(d), d)' <=> InList(Opener(d), d)
      BY <1>2, <2>1, <2>4
    <3>2. /\ opening'[d] = opening[d] /\ replies'[d] = replies[d]
          /\ connClosed' = connClosed /\ err' = err
      BY <1>2, <2>4
    <3> QED  BY <2>1, <2>2, <3>1, <3>2 DEF AnswerInv
  <2> QED  BY <2>3, <2>4
<1>8. ASSUME NEW d \in Channels PROVE OpenInv(d)'
  <2>1. OpenInv(d) /\ Other(Opener(d)) \in Ends /\ Other(Opener(d)) # Opener(d)
    BY ChannelFacts, OtherEnds DEF ListIInv
  <2>2. Known(Other(Opener(d)), d)' <=> Known(Other(Opener(d)), d)
    BY <1>2, <2>1
  <2> QED  BY <1>2, <2>1, <2>2 DEF OpenInv, Acceptable, Sent, Once
<1>9. \A x \in Ends : WireTypes(x)'
  BY <1>2 DEF ListIInv, WireTypes
<1> QED
  BY <1>2, <1>3, <1>4, <1>5, <1>6, <1>7, <1>8, <1>9, Together

LEMMA SendOpenStep ==
    ASSUME ListIInv, NEW c \in Channels, SendOpen(c)
    PROVE  ListIInv'
<1> DEFINE e == Opener(c)
           m == Message("Open", 0, localId[e][c], c)
<1>1. /\ e \in Ends /\ opening[c] = "encode"
      /\ Encode(e, m)
      /\ opening' = [opening EXCEPT ![c] = IF connClosed[e] THEN "failed" ELSE "wait"]
      /\ UNCHANGED <<setting, chans, sentClose, closed, replies, incoming, closeCh,
                     loop, serving, doomed, ids, app, link>>
  BY ChannelFacts DEF SendOpen
<1>2. UNCHANGED <<localId, remoteId, accepted, told, wrote, err, connClosed>>
  BY <1>1 DEF ids, app, link
<1>3. m \in Messages /\ m.type = "Open" /\ m.of = c
  BY <1>1, Typed, MessageFacts
<1> HIDE DEF m
<1>4. /\ wire' \in [Ends -> Seq(Messages)]
      /\ wire'[e] = wire[e] \/ wire'[e] = Append(wire[e], m)
      /\ wire'[Other(e)] = wire[Other(e)]
  BY <1>1, <1>3, EncodeShape DEF Writes
<1>5. /\ opening' \in [Channels -> {"none", "encode", "wait", "open", "failed"}]
      /\ opening'[c] \in {"wait", "failed"}
      /\ opening'[c] = "failed" => connClosed[e]
      /\ \A d \in Channels : d # c => opening'[d] = opening[d]
  BY <1>1 DEF ListIInv, TypeOK
<1>6. TypeOK'
  BY <1>1, <1>2, <1>4, <1>5 DEF ListIInv, TypeOK
<1>7. SameKnown
  <2> SUFFICES ASSUME NEW x \in Ends, NEW d \in Channels
               PROVE  Known(x, d)' <=> Known(x, d)
    BY DEF SameKnown
  <2>1. Queued(x, d)' <=> Queued(x, d)
    BY <1>1 DEF Queued
  <2> QED  BY <1>1, <1>2, <1>5, <2>1 DEF Known
<1>8. SameLists /\ \A x \in Ends : Placed(x)'
  BY <1>1, <1>2, KeepLists, KeepPlaced
<1>9. \A x \in Ends : /\ LoopErr(x)' /\ ServingInv(x)' /\ ClosedInv(x)'
                      /\ KnownInv(x)' /\ LocatedInv(x)'
  BY <1>1, <1>2, <1>7, <1>8, KeepLoopErr, KeepServing, KeepClosed, KeepKnown, KeepLocated
<1>10. \A x \in Ends : AfterDrop(x)'
  BY <1>1, <1>5, <1>8 DEF ListIInv, AfterDrop, SameLists
<1>11. ASSUME NEW d \in Channels PROVE AnswerInv(d)'
  <2>1. AnswerInv(d) /\ Opener(d) \in Ends
    BY ChannelFacts DEF ListIInv
  <2>2. /\ Acceptable(d)' <=> Acceptable(d)
        /\ InList(Opener(d), d)' <=> InList(Opener(d), d)
        /\ \A answer : Reply(d, answer)' <=> Reply(d, answer)
    BY <1>1, <1>8, <2>1 DEF Acceptable, Reply, SameLists
  <2> QED  BY <1>1, <1>2, <1>5, <2>1, <2>2 DEF AnswerInv
<1>12. ASSUME NEW d \in Channels PROVE OpenInv(d)'
  <2> DEFINE o == Opener(d)
  <2>1. OpenInv(d) /\ o \in Ends /\ Other(o) \in Ends
    BY ChannelFacts, OtherEnds DEF ListIInv
  <2>2. Known(Other(o), d)' <=> Known(Other(o), d)
    BY <1>7, <2>1 DEF SameKnown
  <2>3. wire[o] \in Seq(Messages)
    BY <2>1, Typed
  <2>4. CASE d = c
    <3>1. ~Known(Other(o), d) /\ ~Sent(wire[o], "Open", d)
      BY <1>1, <2>1, <2>4 DEF OpenInv
    <3>2. Once(wire'[o], "Open", d)
      <4>1. wire'[o] = wire[o] \/ wire'[o] = Append(wire[o], m)
        BY <1>4, <2>4
      <4>2. Once(wire[o], "Open", d)
        BY <2>1 DEF OpenInv
      <4>3. Once(Append(wire[o], m), "Open", d)
        BY <1>3, <2>3, <3>1, <4>2, AppendKeeps
      <4> QED  BY <4>1, <4>2, <4>3
    <3> QED  BY <1>5, <2>2, <2>4, <3>1, <3>2 DEF OpenInv, Once, Sent
  <2>5. CASE d # c
    <3>1. /\ ~Sent(wire[o], "Open", d) => ~Sent(wire'[o], "Open", d)
          /\ Once(wire[o], "Open", d) => Once(wire'[o], "Open", d)
      <4>1. wire'[o] = wire[o] \/ wire'[o] = Append(wire[o], m)
        BY <1>1, <1>4, <2>1, TwoEnds
      <4>2. ~Sent(wire[o], "Open", d) => ~Sent(Append(wire[o], m), "Open", d)
        BY <1>3, <2>3, <2>5, AppendKeeps
      <4>3. Once(wire[o], "Open", d) => Once(Append(wire[o], m), "Open", d)
        BY <1>3, <2>3, <2>5, AppendKeeps
      <4> QED  BY <4>1, <4>2, <4>3
    <3>2. /\ Known(Other(o), d)' =>
              /\ opening'[d] \notin {"none", "encode"}
              /\ ~Sent(wire'[o], "Open", d) /\ Acceptable(d)'
          /\ opening'[d] \in {"none", "encode"} => ~Sent(wire'[o], "Open", d)
          /\ Once(wire'[o], "Open", d)
      BY <1>1, <1>5, <2>1, <2>2, <2>5, <3>1 DEF OpenInv, Acceptable
    <3> QED  BY <3>2 DEF OpenInv, Sent, Once
  <2> QED  BY <2>4, <2>5
<1>13. \A x \in Ends : WireTypes(x)'
  <2>1. Fitting(e, m)
    BY <1>3 DEF Fitting
  <2>2. \A x \in Ends : wire[x] \in Seq(Messages)
    BY Typed
  <2>3. ASSUME NEW x \in Ends
        PROVE  \/ Rest(wire[x], wire'[x])
               \/ \E mm \in Messages : Fitting(x, mm) /\ wire'[x] = Append(wire[x], mm)
    BY <1>1, <1>3, <1>4, <2>1, <2>2, RestFacts, TwoEnds
  <2> QED  BY <1>1, <1>4, <2>3, KeepWire
<1> QED
  BY <1>6, <1>8, <1>9, <1>10, <1>11, <1>12, <1>13, Together

(* What Open is told decides whether the channel is in the list.             *)
(* What Open returns is what its channel was told first, if anything. *)
LEMMA OpenReturnFacts ==
    ASSUME ListIInv, NEW c \in Channels, OpenReturn(c)
    PROVE  /\ replies' \in [Channels -> Seq({"OpenConfirm", "OpenFailure"})]
           /\ \A d \in Channels : d # c => replies'[d] = replies[d]
           /\ replies[c] = <<>> => replies'[c] = <<>>
           /\ \A answer : Reply(c, answer)' => Reply(c, answer)
           /\ opening' \in [Channels -> {"none", "encode", "wait", "open", "failed"}]
           /\ opening'[c] \in {"open", "failed"}
           /\ opening'[c] = "open" => Reply(c, "OpenConfirm")
           /\ opening'[c] = "failed" =>
                 Reply(c, "OpenFailure") \/ (closed[Opener(c)][c] /\ replies[c] = <<>>)
           /\ \A d \in Channels : d # c => opening'[d] = opening[d]
           /\ SameKnown
<1> DEFINE e == Opener(c)
<1>1. /\ e \in Ends /\ opening[c] = "wait"
      /\ replies[c] # <<>> \/ closed[e][c]
      /\ opening' = [opening EXCEPT ![c] =
                       IF replies[c] # <<>> /\ Head(replies[c]) = "OpenConfirm"
                       THEN "open" ELSE "failed"]
      /\ replies' = [replies EXCEPT ![c] = IF @ = <<>> THEN @ ELSE Tail(@)]
      /\ UNCHANGED <<setting, chans, sentClose, closed, incoming, closeCh, loop,
                     serving, doomed, wire, ids, app, link>>
  BY ChannelFacts DEF OpenReturn, Received
<1>2. UNCHANGED <<localId, remoteId, accepted, told, wrote, err, connClosed>>
  BY <1>1 DEF ids, app, link
<1>3. replies \in [Channels -> Seq({"OpenConfirm", "OpenFailure"})]
  BY DEF ListIInv, TypeOK
<1>4. /\ replies' \in [Channels -> Seq({"OpenConfirm", "OpenFailure"})]
      /\ \A d \in Channels : d # c => replies'[d] = replies[d]
      /\ replies[c] = <<>> => replies'[c] = <<>>
      /\ \A answer : Reply(c, answer)' => Reply(c, answer)
      /\ replies[c] # <<>> => Reply(c, Head(replies[c]))
  <2>1. replies[c] \in Seq({"OpenConfirm", "OpenFailure"})
    BY <1>3
  <2>2. replies'[c] = IF replies[c] = <<>> THEN <<>> ELSE Tail(replies[c])
    BY <1>1, <1>3
  <2>3. replies[c] # <<>> =>
           /\ Len(replies[c]) \in Nat \ {0}
           /\ Head(replies[c]) = replies[c][1]
           /\ Len(Tail(replies[c])) = Len(replies[c]) - 1
           /\ \A i \in 1 .. Len(Tail(replies[c])) :
                 i + 1 \in 1 .. Len(replies[c]) /\ Tail(replies[c])[i] = replies[c][i + 1]
    BY <2>1
  <2>4. \A answer : Reply(c, answer)' => Reply(c, answer)
    BY <2>2, <2>3 DEF Reply
  <2>5. replies[c] # <<>> => Reply(c, Head(replies[c]))
    BY <2>3 DEF Reply
  <2>6. replies' \in [Channels -> Seq({"OpenConfirm", "OpenFailure"})]
    BY <1>1, <1>3
  <2>7. \A d \in Channels : d # c => replies'[d] = replies[d]
    BY <1>1, <1>3
  <2> QED  BY <2>2, <2>4, <2>5, <2>6, <2>7
<1>5. /\ opening' \in [Channels -> {"none", "encode", "wait", "open", "failed"}]
      /\ opening'[c] \in {"open", "failed"}
      /\ opening'[c] = "open" => Reply(c, "OpenConfirm")
      /\ opening'[c] = "failed" =>
            Reply(c, "OpenFailure") \/ (closed[e][c] /\ replies[c] = <<>>)
      /\ \A d \in Channels : d # c => opening'[d] = opening[d]
  <2>1. replies[c] # <<>> => Head(replies[c]) \in {"OpenConfirm", "OpenFailure"}
    BY <1>3
  <2>2. /\ opening' \in [Channels -> {"none", "encode", "wait", "open", "failed"}]
        /\ opening'[c] = IF replies[c] # <<>> /\ Head(replies[c]) = "OpenConfirm"
                         THEN "open" ELSE "failed"
        /\ \A d \in Channels : d # c => opening'[d] = opening[d]
    BY <1>1 DEF ListIInv, TypeOK
  <2> QED  BY <1>1, <1>4, <2>1, <2>2
<1>6. SameKnown
  <2> SUFFICES ASSUME NEW x \in Ends, NEW d \in Channels
               PROVE  Known(x, d)' <=> Known(x, d)
    BY DEF SameKnown
  <2>1. Queued(x, d)' <=> Queued(x, d)
    BY <1>1 DEF Queued
  <2> QED  BY <1>1, <1>2, <1>5, <2>1 DEF Known
<1> QED  BY <1>4, <1>5, <1>6

LEMMA OpenReturnStep ==
    ASSUME ListIInv, NEW c \in Channels, OpenReturn(c)
    PROVE  ListIInv'
<1> DEFINE e == Opener(c)
<1>1. /\ e \in Ends /\ opening[c] = "wait"
      /\ UNCHANGED <<setting, chans, sentClose, closed, incoming, closeCh, loop,
                     serving, doomed, wire, ids, app, link>>
  BY ChannelFacts DEF OpenReturn
<1>2. UNCHANGED <<localId, remoteId, accepted, told, wrote, err, connClosed>>
  BY <1>1 DEF ids, app, link
<1>3. /\ replies' \in [Channels -> Seq({"OpenConfirm", "OpenFailure"})]
      /\ \A d \in Channels : d # c => replies'[d] = replies[d]
      /\ replies[c] = <<>> => replies'[c] = <<>>
      /\ \A answer : Reply(c, answer)' => Reply(c, answer)
  BY OpenReturnFacts
<1>4. /\ opening' \in [Channels -> {"none", "encode", "wait", "open", "failed"}]
      /\ opening'[c] \in {"open", "failed"}
      /\ opening'[c] = "open" => Reply(c, "OpenConfirm")
      /\ opening'[c] = "failed" => Reply(c, "OpenFailure") \/ closed[e][c]
      /\ \A d \in Channels : d # c => opening'[d] = opening[d]
  BY OpenReturnFacts
<1>5. TypeOK'
  BY <1>1, <1>2, <1>3, <1>4 DEF ListIInv, TypeOK
<1>6. SameKnown
  BY OpenReturnFacts
<1>7. SameLists /\ \A x \in Ends : Placed(x)'
  BY <1>1, <1>2, KeepLists, KeepPlaced
<1>8. \A x \in Ends : /\ LoopErr(x)' /\ ServingInv(x)' /\ ClosedInv(x)'
                      /\ KnownInv(x)' /\ LocatedInv(x)'
  BY <1>1, <1>2, <1>6, <1>7, KeepLoopErr, KeepServing, KeepClosed, KeepKnown, KeepLocated
<1>9. ASSUME NEW x \in Ends PROVE AfterDrop(x)'
  <2> SUFFICES ASSUME loop[x] \in {"dropping", "reporting", "done"},
                      NEW d \in Channels, InList(x, d)
               PROVE  Opener(d) = x /\ opening'[d] # "open" /\ replies'[d] = <<>>
    BY <1>1, <1>7 DEF AfterDrop, SameLists
  <2>1. Opener(d) = x /\ opening[d] # "open" /\ replies[d] = <<>>
    BY DEF ListIInv, AfterDrop
  <2>2. d = c => ~Reply(c, "OpenConfirm")
    BY <2>1 DEF Reply
  <2> QED  BY <1>3, <1>4, <2>1, <2>2
<1>10. ASSUME NEW d \in Channels PROVE AnswerInv(d)'
  <2>1. AnswerInv(d) /\ Opener(d) \in Ends
    BY ChannelFacts DEF ListIInv
  <2>2. /\ Acceptable(d)' <=> Acceptable(d)
        /\ InList(Opener(d), d)' <=> InList(Opener(d), d)
        /\ \A answer : Reply(d, answer)' => Reply(d, answer)
    BY <1>1, <1>3, <1>7, <2>1 DEF Acceptable, Reply, SameLists
  <2>3. CASE d = c
    <3>1. closed[e][c] => ~InList(e, c)
      BY <1>1 DEF ListIInv, ClosedInv
    <3> QED  BY <1>1, <1>2, <1>4, <2>1, <2>2, <2>3, <3>1 DEF AnswerInv
  <2>4. CASE d # c
    BY <1>1, <1>2, <1>3, <1>4, <2>1, <2>2, <2>4 DEF AnswerInv
  <2> QED  BY <2>3, <2>4
<1>11. /\ \A d \in Channels : OpenInv(d)'
       /\ \A x \in Ends : WireTypes(x)'
  <2>1. \A x \in Ends : Quiet(x)
    BY <1>1, QuietFacts
  <2> QED  BY <1>1, <1>4, <1>5, <1>6, <2>1, KeepOpens DEF TypeOK
<1> QED
  BY <1>5, <1>7, <1>8, <1>9, <1>10, <1>11, Together

-----------------------------------------------------------------------------
(* What the steps of one end have in common. *)

LEMMA EncodeQuiet ==
    ASSUME ListIInv, NEW e \in Ends, NEW m \in Messages, Encode(e, m),
           m.type # "Open", Fitting(e, m)
    PROVE  wire' \in [Ends -> Seq(Messages)] /\ \A x \in Ends : Quiet(x)
<1>1. /\ wire' \in [Ends -> Seq(Messages)] /\ Writes(e, m)
      /\ wire'[Other(e)] = wire[Other(e)]
  BY EncodeShape
<1>2. Quiet(e) /\ Quiet(Other(e))
  BY <1>1, QuietFacts, OtherEnds
<1> QED  BY <1>1, <1>2, TwoEnds

LEMMA ConsumeQuiet ==
    ASSUME ListIInv, NEW e \in Ends, wire[Other(e)] # <<>>
    PROVE  /\ Consume(e, <<>>) =>
                 wire' \in [Ends -> Seq(Messages)] /\ \A x \in Ends : Quiet(x)
           /\ \A m \in Messages :
                 Consume(e, <<m>>) /\ m.type # "Open" /\ Fitting(e, m) =>
                    wire' \in [Ends -> Seq(Messages)] /\ \A x \in Ends : Quiet(x)
<1>1. ASSUME Consume(e, <<>>)
      PROVE  wire' \in [Ends -> Seq(Messages)] /\ \A x \in Ends : Quiet(x)
  <2>1. /\ wire' \in [Ends -> Seq(Messages)]
        /\ wire'[e] = wire[e] /\ wire'[Other(e)] = Tail(wire[Other(e)])
    BY <1>1, ConsumeShape
  <2>2. Quiet(e) /\ Quiet(Other(e))
    BY <2>1, QuietFacts, OtherEnds
  <2> QED  BY <2>1, <2>2, TwoEnds
<1>2. ASSUME NEW m \in Messages, Consume(e, <<m>>), m.type # "Open", Fitting(e, m)
      PROVE  wire' \in [Ends -> Seq(Messages)] /\ \A x \in Ends : Quiet(x)
  <2>1. /\ wire' \in [Ends -> Seq(Messages)]
        /\ Writes(e, m) /\ wire'[Other(e)] = Tail(wire[Other(e)])
    BY <1>2, ConsumeShape
  <2>2. Quiet(e) /\ Quiet(Other(e))
    BY <1>2, <2>1, QuietFacts, OtherEnds
  <2> QED  BY <2>1, <2>2, TwoEnds
<1> QED  BY <1>1, <1>2

LEMMA SameWireQuiet ==
    ASSUME ListIInv, UNCHANGED wire
    PROVE  wire' \in [Ends -> Seq(Messages)] /\ \A x \in Ends : Quiet(x)
  BY QuietFacts DEF ListIInv, TypeOK

(* The state of the loop at one end, which no other end touches. *)
AtEnd(x) == <<loop[x], serving[x], closed[x], doomed[x], err[x]>>

(* A step of e that leaves the lists and the answers to Open alone. *)
LEMMA MoveStep ==
    ASSUME ListIInv, TypeOK', NEW e \in Ends,
           UNCHANGED <<setting, chans, localId, opening, replies>>,
           \A x \in Ends : x # e => AtEnd(x)' = AtEnd(x),
           SameKnown,
           \A x \in Ends : connClosed[x] => connClosed'[x],
           err[e] # "none" => err'[e] # "none",
           \A x \in Ends : Quiet(x),
           LoopErr(e)', ServingInv(e)', ClosedInv(e)', KnownInv(e)', LocatedInv(e)',
           AfterDrop(e)'
    PROVE  ListIInv'
<1>1. SameLists /\ \A x \in Ends : Placed(x)'
  BY KeepLists, KeepPlaced
<1>2. ASSUME NEW x \in Ends, x # e
      PROVE  /\ LoopErr(x)' /\ ServingInv(x)' /\ ClosedInv(x)'
             /\ KnownInv(x)' /\ LocatedInv(x)' /\ AfterDrop(x)'
  <2>1. /\ loop'[x] = loop[x] /\ serving'[x] = serving[x] /\ closed'[x] = closed[x]
        /\ doomed'[x] = doomed[x] /\ err'[x] = err[x]
    BY <1>2 DEF AtEnd
  <2>2. /\ \A d \in Channels : InList(x, d)' <=> InList(x, d)
        /\ \A d \in Channels : Known(x, d)' <=> Known(x, d)
    BY <1>1 DEF SameLists, SameKnown
  <2>3. LoopErr(x)'
    BY <2>1 DEF ListIInv, LoopErr
  <2>4. ServingInv(x)'
    BY <2>1, <2>2 DEF ListIInv, ServingInv
  <2>5. ClosedInv(x)'
    BY <2>1, <2>2 DEF ListIInv, ClosedInv
  <2>6. KnownInv(x)'
    BY <2>1, <2>2 DEF ListIInv, KnownInv
  <2>7. LocatedInv(x)'
    BY <2>1, <2>2 DEF ListIInv, LocatedInv, Acceptable
  <2>8. AfterDrop(x)'
    BY <2>1, <2>2 DEF ListIInv, AfterDrop
  <2> QED  BY <2>3, <2>4, <2>5, <2>6, <2>7, <2>8
<1>3. \A x \in Ends : err[x] # "none" => err'[x] # "none"
  BY DEF AtEnd
<1>4. \A d \in Channels : AnswerInv(d)'
  BY <1>1, <1>3, KeepAnswers DEF SameLists
<1>5. /\ \A d \in Channels : OpenInv(d)'
      /\ \A x \in Ends : WireTypes(x)'
  BY KeepOpens DEF TypeOK
<1>6. \A x \in Ends : /\ LoopErr(x)' /\ ServingInv(x)' /\ ClosedInv(x)'
                      /\ KnownInv(x)' /\ LocatedInv(x)' /\ AfterDrop(x)'
  BY <1>2
<1> QED  BY <1>1, <1>4, <1>5, <1>6, Together

-----------------------------------------------------------------------------
(* Accept and the users of a channel *)

(* Accept hands on a channel that was queued. *)
LEMMA AcceptKnown ==
    ASSUME ListIInv, NEW e \in Ends, AcceptChannel(e)
    PROVE  /\ accepted' \in [Ends -> SUBSET Channels]
           /\ incoming' \in [Ends -> Seq(Channels)]
           /\ \A x \in Ends, d \in Channels :
                 d \in accepted'[x] \/ Queued(x, d)' <=> d \in accepted[x] \/ Queued(x, d)
           /\ SameKnown
<1> DEFINE q == incoming[e]
<1>1. /\ q # <<>>
      /\ accepted' = [accepted EXCEPT ![e] = @ \cup {Head(q)}]
      /\ incoming' = [incoming EXCEPT ![e] = Tail(q)]
      /\ UNCHANGED <<setting, chans, sentClose, closed, opening, replies, told,
                     closeCh, loop, serving, doomed, wire, wrote, ids, link>>
  BY DEF AcceptChannel
<1>2. /\ accepted \in [Ends -> SUBSET Channels] /\ incoming \in [Ends -> Seq(Channels)]
      /\ q \in Seq(Channels)
  BY DEF ListIInv, TypeOK
<1>3. /\ Head(q) = q[1] /\ Head(q) \in Channels /\ Tail(q) \in Seq(Channels)
      /\ Len(q) \in Nat \ {0} /\ Len(Tail(q)) = Len(q) - 1
      /\ \A i \in 1 .. Len(Tail(q)) : Tail(q)[i] = q[i + 1]
  BY <1>1, <1>2
<1>4. /\ accepted' \in [Ends -> SUBSET Channels] /\ incoming' \in [Ends -> Seq(Channels)]
      /\ accepted'[e] = accepted[e] \cup {Head(q)} /\ incoming'[e] = Tail(q)
      /\ \A x \in Ends : x # e => accepted'[x] = accepted[x] /\ incoming'[x] = incoming[x]
  BY <1>1, <1>2, <1>3
<1>5. ASSUME NEW x \in Ends, NEW d \in Channels
      PROVE  d \in accepted'[x] \/ Queued(x, d)' <=> d \in accepted[x] \/ Queued(x, d)
  <2>1. CASE x # e
    BY <1>4, <2>1 DEF Queued
  <2>2. CASE x = e
    <3>1. Queued(e, d) <=> d = Head(q) \/ \E i \in 1 .. Len(Tail(q)) : Tail(q)[i] = d
      <4>1. \A i \in 1 .. Len(q) : i = 1 \/ (i - 1 \in 1 .. Len(Tail(q)) /\ (i - 1) + 1 = i)
        BY <1>3
      <4>2. \A i \in 1 .. Len(Tail(q)) : i + 1 \in 1 .. Len(q)
        BY <1>3
      <4>3. 1 \in 1 .. Len(q)
        BY <1>3
      <4>4. ASSUME Queued(e, d)
            PROVE  d = Head(q) \/ \E i \in 1 .. Len(Tail(q)) : Tail(q)[i] = d
        <5>1. PICK i \in 1 .. Len(q) : q[i] = d
          BY <4>4 DEF Queued
        <5> QED  BY <1>3, <4>1, <5>1
      <4> QED  BY <1>3, <4>2, <4>3, <4>4 DEF Queued
    <3> QED  BY <1>4, <2>2, <3>1 DEF Queued
  <2> QED  BY <2>1, <2>2
<1>6. SameKnown
  BY <1>1, <1>5 DEF SameKnown, Known
<1> QED  BY <1>4, <1>5, <1>6

LEMMA AcceptChannelStep ==
    ASSUME ListIInv, NEW e \in Ends, AcceptChannel(e)
    PROVE  ListIInv'
<1>1. UNCHANGED <<setting, chans, sentClose, closed, opening, replies, told,
                  closeCh, loop, serving, doomed, wire, wrote, ids, link>>
  BY DEF AcceptChannel
<1>2. UNCHANGED <<localId, remoteId, err, connClosed>>
  BY <1>1 DEF ids, link
<1>3. TypeOK'
  BY <1>1, <1>2, AcceptKnown DEF ListIInv, TypeOK
<1> QED  BY <1>1, <1>2, <1>3, AcceptKnown, SameWireQuiet, QuietStep

LEMMA AcceptEOFStep ==
    ASSUME ListIInv, NEW e \in Ends, AcceptEOF(e)
    PROVE  ListIInv'
<1>1. /\ told' = [told EXCEPT ![e] = TRUE] /\ closeCh' = [closeCh EXCEPT ![e] = FALSE]
      /\ UNCHANGED <<setting, chans, sentClose, closed, opening, replies, incoming,
                     accepted, loop, serving, doomed, wire, wrote, ids, link>>
  BY DEF AcceptEOF
<1>2. UNCHANGED <<localId, remoteId, err, connClosed>>
  BY <1>1 DEF ids, link
<1>3. TypeOK'
  BY <1>1, <1>2 DEF ListIInv, TypeOK
<1>4. SameKnown
  BY <1>1, KeepKnowing
<1> QED  BY <1>1, <1>2, <1>3, <1>4, SameWireQuiet, QuietStep

LEMMA CloseChannelStep ==
    ASSUME ListIInv, NEW e \in Ends, NEW c \in Channels, CloseChannel(e, c)
    PROVE  ListIInv'
<1> DEFINE m == Message("Close", remoteId[e][c], 0, c)
<1>1. /\ sentClose' = [sentClose EXCEPT ![e][c] = TRUE]
      /\ Encode(e, m)
      /\ UNCHANGED <<setting, chans, closed, opening, replies, incoming, closeCh, loop,
                     serving, doomed, ids, app, link>>
  BY DEF CloseChannel
<1>2. UNCHANGED <<localId, remoteId, accepted, told, wrote, err, connClosed>>
  BY <1>1 DEF ids, app, link
<1>3. m \in Messages /\ m.type = "Close"
  <2>1. remoteId[e][c] \in Nat /\ 0 \in Nat
    BY Typed
  <2> QED  BY <2>1, MessageFacts
<1>4. wire' \in [Ends -> Seq(Messages)] /\ \A x \in Ends : Quiet(x)
  <2> HIDE DEF m
  <2>1. Fitting(e, m)
    BY <1>3 DEF Fitting
  <2> QED  BY <1>1, <1>3, <2>1, EncodeQuiet
<1>5. TypeOK'
  BY <1>1, <1>2, <1>4 DEF ListIInv, TypeOK
<1>6. SameKnown
  BY <1>1, <1>2, KeepKnowing
<1> QED  BY <1>1, <1>2, <1>4, <1>5, <1>6, QuietStep

LEMMA WriteDataStep ==
    ASSUME ListIInv, NEW e \in Ends, NEW c \in Channels, WriteData(e, c)
    PROVE  ListIInv'
<1> DEFINE m == Message("Data", remoteId[e][c], 0, c)
<1>1. /\ wrote' = [wrote EXCEPT ![e] = @ \cup {c}]
      /\ Encode(e, m)
      /\ UNCHANGED <<setting, chans, sentClose, closed, opening, replies, incoming,
                     accepted, told, closeCh, loop, serving, doomed, ids, link>>
  BY DEF WriteData
<1>2. UNCHANGED <<localId, remoteId, err, connClosed>>
  BY <1>1 DEF ids, link
<1>3. m \in Messages /\ m.type = "Data"
  <2>1. remoteId[e][c] \in Nat /\ 0 \in Nat
    BY Typed
  <2> QED  BY <2>1, MessageFacts
<1>4. wire' \in [Ends -> Seq(Messages)] /\ \A x \in Ends : Quiet(x)
  <2> HIDE DEF m
  <2>1. Fitting(e, m)
    BY <1>3 DEF Fitting
  <2> QED  BY <1>1, <1>3, <2>1, EncodeQuiet
<1>5. TypeOK'
  BY <1>1, <1>2, <1>4 DEF ListIInv, TypeOK
<1>6. SameKnown
  BY <1>1, <1>2, KeepKnowing
<1> QED  BY <1>1, <1>2, <1>4, <1>5, <1>6, QuietStep

LEMMA SessionCloseStep ==
    ASSUME ListIInv, NEW e \in Ends, SessionClose(e)
    PROVE  ListIInv'
<1>1. /\ CloseConn(e)
      /\ UNCHANGED <<setting, chans, sentClose, closed, opening, replies, incoming,
                     closeCh, loop, serving, doomed, err, ids, app>>
  BY DEF SessionClose
<1>2. UNCHANGED <<localId, remoteId, accepted, told, wrote>>
  BY <1>1 DEF ids, app
<1>3. /\ wire' \in [Ends -> Seq(Messages)]
      /\ wire'[e] = wire[e] /\ wire'[Other(e)] = <<>>
      /\ connClosed' \in [Ends -> BOOLEAN]
      /\ connClosed'[e] /\ connClosed'[Other(e)] = connClosed[Other(e)]
  BY <1>1, CloseConnShape
<1>4. \A x \in Ends : Quiet(x) /\ (connClosed[x] => connClosed'[x])
  <2>1. Quiet(e) /\ Quiet(Other(e))
    BY <1>3, QuietFacts, OtherEnds
  <2> QED  BY <1>3, <2>1, TwoEnds
<1>5. TypeOK'
  BY <1>1, <1>2, <1>3 DEF ListIInv, TypeOK
<1>6. SameKnown
  BY <1>1, <1>2, KeepKnowing
<1> QED  BY <1>1, <1>2, <1>4, <1>5, <1>6, QuietStep

-----------------------------------------------------------------------------
(* The read loop *)

(* What holds when the loop is about to handle a message. *)
LEMMA ReadingFacts ==
    ASSUME ListIInv, NEW e \in Ends, loop[e] = "reading"
    PROVE  /\ err[e] = "none" /\ serving[e] = Nil /\ doomed[e] = {}
           /\ \A c \in Channels : InList(e, c) => Known(e, c)
  BY DEF ListIInv, LoopErr, ServingInv, ClosedInv, KnownInv

LEMMA RefuseOpenStep ==
    ASSUME ListIInv, NEW e \in Ends, RefuseOpen(e)
    PROVE  ListIInv'
<1> DEFINE m == Message("OpenFailure", NextMessage(e).sender, 0, NextMessage(e).of)
<1>1. /\ wire[Other(e)] # <<>> /\ Other(e) \notin setting.acceptable
      /\ Consume(e, <<m>>)
      /\ UNCHANGED <<setting, chans, sentClose, closed, opening, replies, incoming,
                     closeCh, loop, serving, doomed, ids, app, link>>
  BY DEF RefuseOpen, Incoming
<1>2. UNCHANGED <<localId, remoteId, accepted, told, wrote, err, connClosed>>
  BY <1>1 DEF ids, app, link
<1>3. m \in Messages /\ m.type = "OpenFailure"
  <2>1. NextMessage(e).sender \in Nat /\ 0 \in Nat /\ NextMessage(e).of \in Channels
    BY <1>1, NextFacts
  <2> QED  BY <2>1, MessageFacts
<1>4. wire' \in [Ends -> Seq(Messages)] /\ \A x \in Ends : Quiet(x)
  <2> HIDE DEF m
  <2>1. Fitting(e, m)
    BY <1>1, <1>3 DEF Fitting
  <2> QED  BY <1>1, <1>3, <2>1, ConsumeQuiet
<1>5. TypeOK'
  BY <1>1, <1>2, <1>4 DEF ListIInv, TypeOK
<1>6. SameKnown
  BY <1>1, <1>2, KeepKnowing
<1> QED  BY <1>1, <1>2, <1>4, <1>5, <1>6, QuietStep

LEMMA HandleDataStep ==
    ASSUME ListIInv, NEW e \in Ends, HandleData(e)
    PROVE  ListIInv'
<1>1. /\ wire[Other(e)] # <<>> /\ Consume(e, <<>>)
      /\ UNCHANGED <<setting, chans, sentClose, closed, opening, replies, incoming,
                     closeCh, loop, serving, doomed, ids, app, link>>
  BY DEF HandleData, Incoming
<1>2. UNCHANGED <<localId, remoteId, accepted, told, wrote, err, connClosed>>
  BY <1>1 DEF ids, app, link
<1>3. wire' \in [Ends -> Seq(Messages)] /\ \A x \in Ends : Quiet(x)
  BY <1>1, ConsumeQuiet
<1>4. TypeOK'
  BY <1>1, <1>2, <1>3 DEF ListIInv, TypeOK
<1>5. SameKnown
  BY <1>1, <1>2, KeepKnowing
<1> QED  BY <1>1, <1>2, <1>3, <1>4, <1>5, QuietStep

(* What handleOpen does for a channel that is announced. *)
Accepts(e, c) ==
    /\ c = NextMessage(e).of
    /\ loop[e] = "reading" /\ wire[Other(e)] # <<>> /\ NextMessage(e).type = "Open"
    /\ Opener(c) = Other(e) /\ Other(e) \in setting.acceptable
    /\ opening[c] \notin {"none", "encode"}
    /\ Sent(wire[Other(e)], "Open", c)
    /\ ~Known(e, c) /\ ~InList(e, c) /\ ~closed[e][c] /\ c \notin doomed[e]
    /\ err[e] = "none" /\ serving[e] = Nil /\ doomed[e] = {}
    /\ chans' \in [Ends -> Lists] /\ localId' \in [Ends -> [Channels -> Nat]]
    /\ \A x \in Ends, d \in Channels :
          InList(x, d)' <=> InList(x, d) \/ (x = e /\ d = c)
    /\ \A x \in Ends : Placed(x)'
    /\ \A x \in Ends, d \in Channels :
          x # e \/ d # c => localId'[x][d] = localId[x][d]
    /\ remoteId' = [remoteId EXCEPT ![e][c] = NextMessage(e).sender]
    /\ NextMessage(e).sender \in Nat
    /\ loop' \in [Ends -> Places] /\ serving' \in [Ends -> Channels \cup {Nil}]
    /\ loop'[e] = "offering" /\ serving'[e] = c
    /\ \A x \in Ends : x # e => loop'[x] = loop[x] /\ serving'[x] = serving[x]
    /\ \A x \in Ends, d \in Channels :
          Known(x, d)' <=> Known(x, d) \/ (x = e /\ d = c)
    /\ wire' \in [Ends -> Seq(Messages)]
    /\ wire'[e] = wire[e] /\ wire'[Other(e)] = Tail(wire[Other(e)])
    /\ ~Sent(wire'[Other(e)], "Open", c)
    /\ UNCHANGED <<setting, sentClose, closed, opening, replies, incoming, closeCh,
                   doomed, accepted, told, wrote, err, connClosed>>

(* A channel that is announced is new to e, because Open is sent once. *)
LEMMA HandleOpenFacts ==
    ASSUME ListIInv, NEW e \in Ends, HandleOpen(e)
    PROVE  \E c \in Channels : Accepts(e, c)
<1> DEFINE o == Other(e)
<1>1. PICK c \in Channels : c = NextMessage(e).of
  BY NextFacts DEF HandleOpen, Incoming
<1>2. /\ loop[e] = "reading" /\ wire[o] # <<>> /\ NextMessage(e).type = "Open"
      /\ o \in setting.acceptable
      /\ NewChannel(e, c)
      /\ remoteId' = [remoteId EXCEPT ![e][c] = NextMessage(e).sender]
      /\ serving' = [serving EXCEPT ![e] = c]
      /\ loop' = [loop EXCEPT ![e] = "offering"]
      /\ Consume(e, <<>>)
      /\ UNCHANGED <<setting, sentClose, closed, opening, replies, incoming,
                     closeCh, doomed, app, link>>
  BY <1>1 DEF HandleOpen, Incoming
<1>3. UNCHANGED <<accepted, told, wrote, err, connClosed>>
  BY <1>2 DEF app, link
<1>4. /\ NextMessage(e).sender \in Nat
      /\ NextMessage(e) = wire[o][1] /\ 1 \in 1 .. Len(wire[o])
      /\ o \in Ends /\ o # e /\ Other(o) = e
  BY <1>2, NextFacts, OtherEnds
<1>5. Opener(c) = o /\ Sent(wire[o], "Open", c)
  BY <1>1, <1>2, <1>4 DEF ListIInv, WireTypes, Sent
<1>6. ~Known(e, c) /\ opening[c] \notin {"none", "encode"}
  BY <1>4, <1>5 DEF ListIInv, OpenInv
<1>7. ~InList(e, c) /\ ~closed[e][c] /\ c \notin doomed[e]
  BY <1>4, <1>6 DEF ListIInv, KnownInv
<1>8. err[e] = "none" /\ serving[e] = Nil /\ doomed[e] = {}
  BY <1>2, ReadingFacts
<1>9. /\ chans' \in [Ends -> Lists] /\ localId' \in [Ends -> [Channels -> Nat]]
      /\ \A x \in Ends, d \in Channels :
            InList(x, d)' <=> InList(x, d) \/ (x = e /\ d = c)
      /\ \A x \in Ends : Placed(x)'
      /\ \A x \in Ends, d \in Channels :
            x # e \/ d # c => localId'[x][d] = localId[x][d]
  BY <1>2, <1>7, AddList
<1>10. /\ loop' \in [Ends -> Places] /\ serving' \in [Ends -> Channels \cup {Nil}]
      /\ loop'[e] = "offering" /\ serving'[e] = c
      /\ \A x \in Ends : x # e => loop'[x] = loop[x] /\ serving'[x] = serving[x]
  BY <1>2, <1>4 DEF ListIInv, TypeOK, Places
<1>11. /\ wire' \in [Ends -> Seq(Messages)]
       /\ wire'[e] = wire[e] /\ wire'[o] = Tail(wire[o])
       /\ ~Sent(wire'[o], "Open", c)
  <2>1. /\ wire' \in [Ends -> Seq(Messages)] /\ wire'[e] = wire[e]
        /\ wire'[o] = Tail(wire[o]) /\ wire[o] \in Seq(Messages)
    BY <1>2, <1>4, ConsumeShape, Typed
  <2>2. Once(wire[o], "Open", c)
    BY <1>5 DEF ListIInv, OpenInv
  <2>3. wire[o][1].type = "Open" /\ wire[o][1].of = c
    BY <1>1, <1>2, <1>4
  <2>4. ~Sent(Tail(wire[o]), "Open", c)
    BY <1>2, <2>1, <2>2, <2>3, OnceTail
  <2> QED  BY <2>1, <2>4
<1>12. \A x \in Ends, d \in Channels :
          Known(x, d)' <=> Known(x, d) \/ (x = e /\ d = c)
  <2> SUFFICES ASSUME NEW x \in Ends, NEW d \in Channels
               PROVE  Known(x, d)' <=> Known(x, d) \/ (x = e /\ d = c)
    OBVIOUS
  <2>1. Queued(x, d)' <=> Queued(x, d)
    BY <1>2 DEF Queued
  <2>2. CASE x = e
    BY <1>2, <1>3, <1>4, <1>5, <1>10, <2>1, <2>2 DEF Known
  <2>3. CASE x # e
    BY <1>2, <1>3, <1>10, <2>1, <2>3 DEF Known
  <2> QED  BY <2>2, <2>3
<1> QED
  BY <1>1, <1>2, <1>3, <1>4, <1>5, <1>6, <1>7, <1>8, <1>9, <1>10, <1>11, <1>12
     DEF Accepts

LEMMA HandleOpenStep ==
    ASSUME ListIInv, NEW e \in Ends, HandleOpen(e)
    PROVE  ListIInv'
<1>1. PICK c \in Channels : Accepts(e, c)
  BY HandleOpenFacts
<1>2. /\ Opener(c) = Other(e) /\ Other(e) \in setting.acceptable
      /\ Other(e) \in Ends /\ Other(e) # e
      /\ opening[c] \notin {"none", "encode"}
      /\ ~closed[e][c] /\ c \notin doomed[e]
      /\ loop[e] = "reading" /\ err[e] = "none" /\ serving[e] = Nil /\ doomed[e] = {}
      /\ loop'[e] = "offering" /\ serving'[e] = c
      /\ \A x \in Ends : x # e => loop'[x] = loop[x] /\ serving'[x] = serving[x]
      /\ \A x \in Ends : Placed(x)'
      /\ UNCHANGED <<setting, closed, opening, replies, doomed, err, connClosed>>
  BY <1>1, OtherEnds DEF Accepts
<1>3. /\ \A x \in Ends, d \in Channels :
            InList(x, d)' <=> InList(x, d) \/ (x = e /\ d = c)
      /\ \A x \in Ends, d \in Channels :
            Known(x, d)' <=> Known(x, d) \/ (x = e /\ d = c)
  BY <1>1 DEF Accepts
<1>4. /\ wire' \in [Ends -> Seq(Messages)] /\ wire'[e] = wire[e]
      /\ wire[Other(e)] # <<>> /\ wire'[Other(e)] = Tail(wire[Other(e)])
      /\ ~Sent(wire'[Other(e)], "Open", c)
  BY <1>1 DEF Accepts
<1>5. TypeOK'
  <2>1. remoteId' \in [Ends -> [Channels -> Nat]]
    BY <1>1 DEF Accepts, ListIInv, TypeOK
  <2> QED  BY <1>1, <2>1 DEF Accepts, ListIInv, TypeOK, Lists
<1>6. \A x \in Ends : LoopErr(x)'
  BY <1>2 DEF ListIInv, LoopErr
<1>7. ASSUME NEW x \in Ends PROVE ServingInv(x)' /\ ClosedInv(x)'
  <2>1. CASE x = e
    BY <1>2, <1>3, <2>1 DEF ListIInv, ServingInv, ClosedInv
  <2>2. CASE x # e
    BY <1>2, <1>3, <2>2 DEF ListIInv, ServingInv, ClosedInv
  <2> QED  BY <2>1, <2>2
<1>8. ASSUME NEW x \in Ends PROVE KnownInv(x)' /\ LocatedInv(x)'
  <2>1. \A d \in Channels : Acceptable(d)' <=> Acceptable(d)
    BY <1>2 DEF Acceptable
  <2>2. CASE x = e
    BY <1>2, <1>3, <2>1, <2>2 DEF ListIInv, KnownInv, LocatedInv
  <2>3. CASE x # e
    BY <1>2, <1>3, <2>1, <2>3 DEF ListIInv, KnownInv, LocatedInv
  <2> QED  BY <2>2, <2>3
<1>9. \A x \in Ends : AfterDrop(x)'
  BY <1>2, <1>3 DEF ListIInv, AfterDrop
<1>10. ASSUME NEW d \in Channels PROVE AnswerInv(d)'
  <2>1. AnswerInv(d) /\ Opener(d) \in Ends
    BY ChannelFacts DEF ListIInv
  <2>2. /\ Acceptable(d)' <=> Acceptable(d)
        /\ \A answer : Reply(d, answer)' <=> Reply(d, answer)
    BY <1>2 DEF Acceptable, Reply
  <2>3. InList(Opener(d), d)' <=> InList(Opener(d), d)
    BY <1>2, <1>3, <2>1
  <2> QED  BY <1>2, <2>1, <2>2, <2>3 DEF AnswerInv
<1>11. \A x \in Ends : Quiet(x)
  <2>1. Quiet(e) /\ Quiet(Other(e))
    BY <1>2, <1>4, QuietFacts
  <2> QED  BY <2>1, TwoEnds
<1>12. ASSUME NEW d \in Channels PROVE OpenInv(d)'
  <2> DEFINE p == Opener(d)
  <2>1. OpenInv(d) /\ p \in Ends /\ Other(p) \in Ends
    BY ChannelFacts, OtherEnds DEF ListIInv
  <2>2. wire[p] \in Seq(Messages) /\ wire'[p] \in Seq(Messages)
    BY <1>4, <2>1, Typed
  <2>3. /\ ~Sent(wire[p], "Open", d) => ~Sent(wire'[p], "Open", d)
        /\ Once(wire[p], "Open", d) => Once(wire'[p], "Open", d)
    <3>1. CASE Rest(wire[p], wire'[p])
      BY <2>2, <3>1, RestKeeps
    <3>2. CASE \E m \in Messages : m.type # "Open" /\ wire'[p] = Append(wire[p], m)
      BY <2>2, <3>2, AppendKeeps
    <3> QED  BY <1>11, <2>1, <3>1, <3>2 DEF Quiet
  <2>4. d = c => Acceptable(d) /\ ~Sent(wire'[p], "Open", d)
    BY <1>2, <1>4 DEF Acceptable
  <2>5. Acceptable(d)' <=> Acceptable(d)
    BY <1>2 DEF Acceptable
  <2>6. Known(Other(p), d)' => Known(Other(p), d) \/ d = c
    BY <1>3, <2>1
  <2>7. /\ Known(Other(p), d)' =>
              /\ opening'[d] \notin {"none", "encode"}
              /\ ~Sent(wire'[p], "Open", d) /\ Acceptable(d)'
        /\ opening'[d] \in {"none", "encode"} => ~Sent(wire'[p], "Open", d)
        /\ Once(wire'[p], "Open", d)
    BY <1>2, <2>1, <2>3, <2>4, <2>5, <2>6 DEF OpenInv
  <2> QED  BY <2>7 DEF OpenInv, Sent, Once
<1>13. \A x \in Ends : WireTypes(x)'
  BY <1>2, <1>4, <1>11, KeepWire DEF Quiet
<1> QED
  BY <1>2, <1>5, <1>6, <1>7, <1>8, <1>9, <1>10, <1>12, <1>13, Together

(* The channel that the loop has announced is queued. *)
LEMMA OfferKnown ==
    ASSUME ListIInv, NEW e \in Ends, Offer(e)
    PROVE  /\ incoming' \in [Ends -> Seq(Channels)] /\ loop' \in [Ends -> Places]
           /\ loop'[e] = "confirming"
           /\ \A x \in Ends : x # e => incoming'[x] = incoming[x] /\ loop'[x] = loop[x]
           /\ serving[e] \in Channels /\ Opener(serving[e]) # e
           /\ SameKnown
<1> DEFINE c == serving[e]
           q == incoming[e]
<1>1. /\ loop[e] = "offering"
      /\ incoming' = [incoming EXCEPT ![e] = Append(q, c)]
      /\ loop' = [loop EXCEPT ![e] = "confirming"]
      /\ UNCHANGED <<setting, chans, sentClose, closed, opening, replies, closeCh,
                     serving, doomed, wire, ids, app, link>>
  BY DEF Offer
<1>2. UNCHANGED <<localId, remoteId, accepted, told, wrote, err, connClosed>>
  BY <1>1 DEF ids, app, link
<1>3. c \in Channels /\ Opener(c) # e /\ q \in Seq(Channels)
  BY <1>1, Typed DEF ListIInv, ServingInv
<1>4. /\ Append(q, c) \in Seq(Channels) /\ Len(q) \in Nat
      /\ \A d : (\E i \in 1 .. Len(Append(q, c)) : Append(q, c)[i] = d)
                   <=> d = c \/ \E i \in 1 .. Len(q) : q[i] = d
  <2>1. /\ Append(q, c) \in Seq(Channels) /\ Len(q) \in Nat
        /\ Len(Append(q, c)) = Len(q) + 1
        /\ \A i \in 1 .. Len(q) : i \in 1 .. Len(q) + 1 /\ Append(q, c)[i] = q[i]
        /\ Append(q, c)[Len(q) + 1] = c
        /\ \A i \in 1 .. Len(q) + 1 : i = Len(q) + 1 \/ i \in 1 .. Len(q)
        /\ Len(q) + 1 \in 1 .. Len(q) + 1
    BY <1>3, AppendProperties
  <2> HIDE DEF c, q
  <2> QED  BY <2>1
<1>5. /\ incoming' \in [Ends -> Seq(Channels)] /\ loop' \in [Ends -> Places]
      /\ incoming'[e] = Append(q, c) /\ loop'[e] = "confirming"
      /\ \A x \in Ends : x # e => incoming'[x] = incoming[x] /\ loop'[x] = loop[x]
  BY <1>1, <1>4 DEF ListIInv, TypeOK, Places
<1>6. SameKnown
  <2> SUFFICES ASSUME NEW x \in Ends, NEW d \in Channels
               PROVE  Known(x, d)' <=> Known(x, d)
    BY DEF SameKnown
  <2>1. CASE x # e
    <3>1. Queued(x, d)' <=> Queued(x, d)
      BY <1>5, <2>1 DEF Queued
    <3> QED  BY <1>1, <1>2, <1>5, <2>1, <3>1 DEF Known
  <2>2. CASE x = e
    <3>1. Queued(e, d)' <=> d = c \/ Queued(e, d)
      BY <1>4, <1>5 DEF Queued
    <3> QED  BY <1>1, <1>2, <1>3, <1>5, <2>2, <3>1 DEF Known
  <2> QED  BY <2>1, <2>2
<1> QED  BY <1>3, <1>5, <1>6

LEMMA OfferStep ==
    ASSUME ListIInv, NEW e \in Ends, Offer(e)
    PROVE  ListIInv'
<1>1. /\ loop[e] = "offering"
      /\ UNCHANGED <<setting, chans, sentClose, closed, opening, replies, closeCh,
                     serving, doomed, wire, ids, app, link>>
  BY DEF Offer
<1>2. UNCHANGED <<localId, remoteId, accepted, told, wrote, err, connClosed>>
  BY <1>1 DEF ids, app, link
<1>3. /\ incoming' \in [Ends -> Seq(Channels)] /\ loop' \in [Ends -> Places]
      /\ loop'[e] = "confirming"
      /\ \A x \in Ends : x # e => incoming'[x] = incoming[x] /\ loop'[x] = loop[x]
      /\ serving[e] \in Channels /\ Opener(serving[e]) # e
      /\ SameKnown
  BY OfferKnown
<1>4. TypeOK'
  BY <1>1, <1>2, <1>3 DEF ListIInv, TypeOK
<1>5. /\ \A d \in Channels : InList(e, d)' <=> InList(e, d)
      /\ \A d \in Channels : Known(e, d)' <=> Known(e, d)
  BY <1>1, <1>3, KeepLists DEF SameLists, SameKnown
<1>6. LoopErr(e)' /\ ServingInv(e)' /\ ClosedInv(e)'
  BY <1>1, <1>2, <1>3, <1>5 DEF ListIInv, LoopErr, ServingInv, ClosedInv
<1>7. KnownInv(e)' /\ LocatedInv(e)' /\ AfterDrop(e)'
  BY <1>1, <1>3, <1>5 DEF ListIInv, KnownInv, LocatedInv, AfterDrop, Acceptable
<1>8. \A x \in Ends : x # e => AtEnd(x)' = AtEnd(x)
  BY <1>1, <1>2, <1>3 DEF AtEnd
<1> QED  BY <1>1, <1>2, <1>3, <1>4, <1>6, <1>7, <1>8, SameWireQuiet, MoveStep

LEMMA ConfirmStep ==
    ASSUME ListIInv, NEW e \in Ends, Confirm(e)
    PROVE  ListIInv'
<1> DEFINE c == serving[e]
           m == Message("OpenConfirm", remoteId[e][c], localId[e][c], c)
<1>1. /\ loop[e] = "confirming"
      /\ wire' = [wire EXCEPT ![e] = Encoded(e, <<m>>)]
      /\ serving' = [serving EXCEPT ![e] = Nil]
      /\ IF connClosed[e] THEN Fail(e, "conn")
         ELSE loop' = [loop EXCEPT ![e] = "reading"] /\ UNCHANGED err
      /\ UNCHANGED <<setting, chans, sentClose, closed, opening, replies, incoming,
                     closeCh, doomed, connClosed, ids, app>>
  BY DEF Confirm, Confirmation
<1>2. UNCHANGED <<localId, remoteId, accepted, told, wrote>>
  BY <1>1 DEF ids, app
<1>3. c \in Channels /\ Opener(c) # e /\ err[e] = "none"
  BY <1>1 DEF ListIInv, ServingInv, LoopErr
<1>4. Other(e) \in setting.acceptable
  <2>1. Known(e, c) /\ Opener(c) = Other(e)
    BY <1>3, TwoEnds, OtherEnds, ChannelFacts DEF ListIInv, KnownInv
  <2>2. Other(Opener(c)) = e
    BY <2>1, OtherEnds
  <2> QED  BY <1>3, <2>1, <2>2 DEF ListIInv, OpenInv, Acceptable
<1>5. m \in Messages /\ m.type = "OpenConfirm"
  <2>1. remoteId[e][c] \in Nat /\ localId[e][c] \in Nat
    BY <1>3, Typed
  <2> QED  BY <1>3, <2>1, MessageFacts
<1>6. wire' \in [Ends -> Seq(Messages)] /\ \A x \in Ends : Quiet(x)
  <2> HIDE DEF m
  <2>1. Fitting(e, m)
    BY <1>4, <1>5 DEF Fitting
  <2>2. Encode(e, m)
    BY <1>1 DEF Encode
  <2> QED  BY <1>5, <2>1, <2>2, EncodeQuiet
<1> HIDE DEF m
<1>7. /\ loop' \in [Ends -> Places] /\ serving' \in [Ends -> Channels \cup {Nil}]
      /\ err' \in [Ends -> Reasons]
      /\ serving'[e] = Nil
      /\ \/ loop'[e] = "reading" /\ err'[e] = "none"
         \/ loop'[e] = "failed" /\ err'[e] = "conn"
      /\ \A x \in Ends :
            x # e => loop'[x] = loop[x] /\ serving'[x] = serving[x] /\ err'[x] = err[x]
  <2>1. /\ loop \in [Ends -> Places] /\ serving \in [Ends -> Channels \cup {Nil}]
        /\ err \in [Ends -> Reasons]
    BY DEF ListIInv, TypeOK
  <2>2. /\ serving' \in [Ends -> Channels \cup {Nil}] /\ serving'[e] = Nil
        /\ \A x \in Ends : x # e => serving'[x] = serving[x]
    BY <1>1, <2>1
  <2>3. CASE connClosed[e]
    BY <1>1, <2>1, <2>2, <2>3 DEF Places, Reasons, Fail
  <2>4. CASE ~connClosed[e]
    BY <1>1, <1>3, <2>1, <2>2, <2>4 DEF Places
  <2> QED  BY <2>3, <2>4
<1>8. TypeOK'
  BY <1>1, <1>2, <1>6, <1>7 DEF ListIInv, TypeOK
<1>9. SameKnown
  <2>1. \A x \in Ends : loop'[x] = "offering" <=> loop[x] = "offering"
    BY <1>1, <1>7
  <2>2. \A x \in Ends : loop[x] = "offering" => serving'[x] = serving[x]
    BY <1>1, <1>7
  <2> QED  BY <1>1, <1>2, <2>1, <2>2, KeepKnowing
<1>10. /\ \A d \in Channels : InList(e, d)' <=> InList(e, d)
       /\ \A d \in Channels : Known(e, d)' <=> Known(e, d)
  BY <1>1, <1>9, KeepLists DEF SameLists, SameKnown
<1>11. LoopErr(e)' /\ ServingInv(e)' /\ ClosedInv(e)'
  BY <1>1, <1>7, <1>10 DEF ListIInv, LoopErr, ServingInv, ClosedInv
<1>12. KnownInv(e)' /\ LocatedInv(e)' /\ AfterDrop(e)'
  BY <1>1, <1>7, <1>10, ChannelFacts
     DEF ListIInv, KnownInv, LocatedInv, AfterDrop, Acceptable
<1>13. \A x \in Ends : x # e => AtEnd(x)' = AtEnd(x)
  BY <1>1, <1>7 DEF AtEnd
<1> QED  BY <1>1, <1>2, <1>3, <1>6, <1>8, <1>9, <1>11, <1>12, <1>13, MoveStep

LEMMA HandleCloseStep ==
    ASSUME ListIInv, NEW e \in Ends, HandleClose(e)
    PROVE  ListIInv'
<1> DEFINE c == Target(e)
           m == Message("Close", remoteId[e][c], 0, c)
<1>1. /\ loop[e] = "reading" /\ wire[Other(e)] # <<>>
      /\ c # Nil
      /\ Consume(e, Answer(e, c))
      /\ sentClose' = [sentClose EXCEPT ![e][c] = TRUE]
      /\ serving' = [serving EXCEPT ![e] = c]
      /\ loop' = [loop EXCEPT ![e] = "removing"]
      /\ UNCHANGED <<setting, chans, closed, opening, replies, incoming, closeCh,
                     doomed, ids, app, link>>
  BY DEF HandleClose, Incoming
<1>2. UNCHANGED <<localId, remoteId, accepted, told, wrote, err, connClosed>>
  BY <1>1 DEF ids, app, link
<1>3. c \in Channels /\ InList(e, c)
  BY <1>1, NextFacts, ListedAt DEF Target
<1>4. err[e] = "none" /\ serving[e] = Nil /\ doomed[e] = {} /\ Known(e, c)
  BY <1>1, <1>3, ReadingFacts
<1> HIDE DEF c
<1>5. m \in Messages /\ m.type = "Close"
  <2>1. remoteId[e][c] \in Nat /\ 0 \in Nat
    BY <1>3, Typed
  <2> QED  BY <1>3, <2>1, MessageFacts
<1>6. wire' \in [Ends -> Seq(Messages)] /\ \A x \in Ends : Quiet(x)
  <2>1. Answer(e, c) = <<>> \/ Answer(e, c) = <<m>>
    BY DEF Answer
  <2> HIDE DEF m
  <2>2. Fitting(e, m)
    BY <1>5 DEF Fitting
  <2> QED  BY <1>1, <1>5, <2>1, <2>2, ConsumeQuiet
<1>7. /\ loop' \in [Ends -> Places] /\ serving' \in [Ends -> Channels \cup {Nil}]
      /\ loop'[e] = "removing" /\ serving'[e] = c
      /\ \A x \in Ends : x # e => loop'[x] = loop[x] /\ serving'[x] = serving[x]
  BY <1>1, <1>3 DEF ListIInv, TypeOK, Places
<1>8. TypeOK'
  BY <1>1, <1>2, <1>6, <1>7 DEF ListIInv, TypeOK
<1>9. SameKnown
  <2>1. \A x \in Ends : loop'[x] = "offering" <=> loop[x] = "offering"
    BY <1>1, <1>7
  <2>2. \A x \in Ends : loop[x] = "offering" => serving'[x] = serving[x]
    BY <1>1, <1>7
  <2> QED  BY <1>1, <1>2, <2>1, <2>2, KeepKnowing
<1>10. /\ \A d \in Channels : InList(e, d)' <=> InList(e, d)
       /\ \A d \in Channels : Known(e, d)' <=> Known(e, d)
  BY <1>1, <1>9, KeepLists DEF SameLists, SameKnown
<1>11. LoopErr(e)' /\ ServingInv(e)' /\ ClosedInv(e)'
  BY <1>1, <1>2, <1>3, <1>4, <1>7, <1>10 DEF ListIInv, LoopErr, ServingInv, ClosedInv
<1>12. KnownInv(e)' /\ LocatedInv(e)' /\ AfterDrop(e)'
  BY <1>1, <1>4, <1>7, <1>10 DEF ListIInv, KnownInv, LocatedInv, AfterDrop, Acceptable
<1>13. \A x \in Ends : x # e => AtEnd(x)' = AtEnd(x)
  BY <1>1, <1>2, <1>7 DEF AtEnd
<1> QED  BY <1>1, <1>2, <1>4, <1>6, <1>8, <1>9, <1>11, <1>12, <1>13, MoveStep

(* The loop ends: e has an error and is about to drop what is in its list.   *)
LEMMA LoopFails ==
    ASSUME ListIInv, NEW e \in Ends, loop[e] = "reading",
           NEW reason \in Reasons \ {"none", "panic"}, Fail(e, reason),
           UNCHANGED <<setting, chans, localId, remoteId, sentClose, closed, opening,
                       replies, incoming, closeCh, serving, doomed, connClosed,
                       accepted, told, wrote>>,
           wire' \in [Ends -> Seq(Messages)], \A x \in Ends : Quiet(x)
    PROVE  ListIInv'
<1>1. err[e] = "none" /\ serving[e] = Nil /\ doomed[e] = {}
  BY ReadingFacts
<1>2. /\ loop' \in [Ends -> Places] /\ err' \in [Ends -> Reasons]
      /\ loop'[e] = "failed" /\ err'[e] = reason
      /\ \A x \in Ends : x # e => loop'[x] = loop[x] /\ err'[x] = err[x]
  BY DEF ListIInv, TypeOK, Places, Fail
<1>3. TypeOK'
  BY <1>2 DEF ListIInv, TypeOK
<1>4. SameKnown
  <2>1. \A x \in Ends : loop'[x] = "offering" <=> loop[x] = "offering"
    BY <1>2
  <2> QED  BY <2>1, KeepKnowing
<1>5. /\ \A d \in Channels : InList(e, d)' <=> InList(e, d)
      /\ \A d \in Channels : Known(e, d)' <=> Known(e, d)
  BY <1>4, KeepLists DEF SameLists, SameKnown
<1>6. LoopErr(e)' /\ ServingInv(e)' /\ ClosedInv(e)'
  BY <1>1, <1>2, <1>5 DEF ListIInv, LoopErr, ServingInv, ClosedInv
<1>7. KnownInv(e)' /\ LocatedInv(e)' /\ AfterDrop(e)'
  BY <1>1, <1>2, <1>5 DEF ListIInv, KnownInv, LocatedInv, AfterDrop, Acceptable
<1>8. \A x \in Ends : x # e => AtEnd(x)' = AtEnd(x)
  BY <1>2 DEF AtEnd
<1> QED  BY <1>2, <1>3, <1>4, <1>6, <1>7, <1>8, MoveStep

LEMMA InvalidChannelStep ==
    ASSUME ListIInv, NEW e \in Ends, InvalidChannel(e)
    PROVE  ListIInv'
<1>1. /\ loop[e] = "reading" /\ wire[Other(e)] # <<>>
      /\ Consume(e, <<>>) /\ Fail(e, "invalid")
      /\ UNCHANGED <<setting, chans, sentClose, closed, opening, replies, incoming,
                     closeCh, serving, doomed, connClosed, ids, app>>
  BY DEF InvalidChannel, Incoming
<1>2. UNCHANGED <<localId, remoteId, accepted, told, wrote>>
  BY <1>1 DEF ids, app
<1>3. wire' \in [Ends -> Seq(Messages)] /\ \A x \in Ends : Quiet(x)
  BY <1>1, ConsumeQuiet
<1>4. "invalid" \in Reasons \ {"none", "panic"}
  BY DEF Reasons
<1> QED  BY <1>1, <1>2, <1>3, <1>4, LoopFails

LEMMA ConnErrorStep ==
    ASSUME ListIInv, NEW e \in Ends, ConnError(e)
    PROVE  ListIInv'
<1>1. /\ loop[e] = "reading" /\ Fail(e, "conn")
      /\ UNCHANGED <<setting, chans, sentClose, closed, opening, replies, incoming,
                     closeCh, serving, doomed, connClosed, wire, ids, app>>
  BY DEF ConnError
<1>2. UNCHANGED <<localId, remoteId, accepted, told, wrote>>
  BY <1>1 DEF ids, app
<1>3. "conn" \in Reasons \ {"none", "panic"}
  BY DEF Reasons
<1> QED  BY <1>1, <1>2, <1>3, SameWireQuiet, LoopFails

LEMMA AppendReply ==
    ASSUME ListIInv, NEW c \in Channels, NEW answer \in {"OpenConfirm", "OpenFailure"},
           replies' = [replies EXCEPT ![c] = Append(@, answer)]
    PROVE  /\ replies' \in [Channels -> Seq({"OpenConfirm", "OpenFailure"})]
           /\ \A d \in Channels : d # c => replies'[d] = replies[d]
           /\ \A a : Reply(c, a)' <=> Reply(c, a) \/ a = answer
<1> DEFINE r == replies[c]
<1>1. /\ replies \in [Channels -> Seq({"OpenConfirm", "OpenFailure"})]
      /\ r \in Seq({"OpenConfirm", "OpenFailure"})
  BY DEF ListIInv, TypeOK
<1>2. /\ Append(r, answer) \in Seq({"OpenConfirm", "OpenFailure"}) /\ Len(r) \in Nat
      /\ Len(Append(r, answer)) = Len(r) + 1
      /\ \A i \in 1 .. Len(r) : i \in 1 .. Len(r) + 1 /\ Append(r, answer)[i] = r[i]
      /\ Append(r, answer)[Len(r) + 1] = answer
      /\ \A i \in 1 .. Len(r) + 1 : i = Len(r) + 1 \/ i \in 1 .. Len(r)
      /\ Len(r) + 1 \in 1 .. Len(r) + 1
  BY <1>1, AppendProperties
<1>3. /\ replies' \in [Channels -> Seq({"OpenConfirm", "OpenFailure"})]
      /\ replies'[c] = Append(r, answer)
      /\ \A d \in Channels : d # c => replies'[d] = replies[d]
  BY <1>1, <1>2
<1> HIDE DEF r
<1>4. \A a : (\E i \in 1 .. Len(Append(r, answer)) : Append(r, answer)[i] = a)
                <=> a = answer \/ \E i \in 1 .. Len(r) : r[i] = a
  BY <1>2
<1> QED  BY <1>3, <1>4 DEF Reply, r

LEMMA HandleConfirmStep ==
    ASSUME ListIInv, NEW e \in Ends, HandleConfirm(e)
    PROVE  ListIInv'
<1>1. PICK c \in Channels : c = Target(e) /\ InList(e, c) /\ localId[e][c] = NextMessage(e).id
  <2>1. wire[Other(e)] # <<>> /\ Target(e) # Nil
    BY DEF HandleConfirm, Incoming
  <2> QED  BY <2>1, NextFacts, ListedAt DEF Target
<1> DEFINE good == Opener(c) = e /\ Other(e) \in setting.acceptable
<1>2. /\ loop[e] = "reading" /\ wire[Other(e)] # <<>>
      /\ NextMessage(e).type = "OpenConfirm"
      /\ ~good => /\ Fail(e, IF Opener(c) # e THEN "response" ELSE "size")
                  /\ UNCHANGED <<remoteId, replies>>
      /\ good => /\ remoteId' = [remoteId EXCEPT ![e][c] = NextMessage(e).sender]
                 /\ replies' = [replies EXCEPT ![c] = Append(@, "OpenConfirm")]
                 /\ UNCHANGED <<loop, err>>
      /\ Consume(e, <<>>)
      /\ UNCHANGED <<setting, chans, localId, sentClose, closed, opening, incoming,
                     closeCh, serving, doomed, connClosed, app>>
  BY <1>1 DEF HandleConfirm, Incoming, Adopted
<1>3. UNCHANGED <<accepted, told, wrote>>
  BY <1>2 DEF app
<1>4. /\ NextMessage(e).sender \in Nat
      /\ Other(e) \in Ends /\ Other(Other(e)) = e
      /\ NextMessage(e) = wire[Other(e)][1] /\ 1 \in 1 .. Len(wire[Other(e)])
  BY <1>2, NextFacts, OtherEnds
<1>5. err[e] = "none" /\ serving[e] = Nil /\ doomed[e] = {} /\ Known(e, c)
  BY <1>1, <1>2, ReadingFacts
<1>6. e \in setting.acceptable
  BY <1>2, <1>4 DEF ListIInv, WireTypes
<1>7. wire' \in [Ends -> Seq(Messages)] /\ \A x \in Ends : Quiet(x)
  BY <1>2, ConsumeQuiet
<1>8. CASE ~good
  <2>1. PICK reason \in Reasons \ {"none", "panic"} : Fail(e, reason)
    BY <1>2, <1>8 DEF Reasons
  <2> QED  BY <1>2, <1>3, <1>7, <1>8, <2>1, LoopFails
<1>9. CASE good
  <2>1. /\ remoteId' = [remoteId EXCEPT ![e][c] = NextMessage(e).sender]
        /\ replies' = [replies EXCEPT ![c] = Append(@, "OpenConfirm")]
        /\ UNCHANGED <<loop, err>> /\ Opener(c) = e
    BY <1>2, <1>9
  <2>2. /\ replies' \in [Channels -> Seq({"OpenConfirm", "OpenFailure"})]
        /\ \A d \in Channels : d # c => replies'[d] = replies[d]
        /\ \A a : Reply(c, a)' <=> Reply(c, a) \/ a = "OpenConfirm"
    BY <2>1, AppendReply
  <2>3. remoteId' \in [Ends -> [Channels -> Nat]]
    BY <1>4, <2>1 DEF ListIInv, TypeOK
  <2>4. TypeOK'
    BY <1>2, <1>3, <1>7, <2>1, <2>2, <2>3 DEF ListIInv, TypeOK
  <2>5. SameKnown
    BY <1>2, <1>3, <2>1, KeepKnowing
  <2>6. SameLists /\ \A x \in Ends : Placed(x)'
    BY <1>2, KeepLists, KeepPlaced
  <2>7. \A x \in Ends : /\ LoopErr(x)' /\ ServingInv(x)' /\ ClosedInv(x)'
                        /\ KnownInv(x)' /\ LocatedInv(x)'
    BY <1>2, <2>1, <2>5, <2>6,
       KeepLoopErr, KeepServing, KeepClosed, KeepKnown, KeepLocated
  <2>8. ASSUME NEW x \in Ends PROVE AfterDrop(x)'
    <3> SUFFICES ASSUME loop[x] \in {"dropping", "reporting", "done"},
                        NEW d \in Channels, InList(x, d)
                 PROVE  Opener(d) = x /\ opening[d] # "open" /\ replies'[d] = <<>>
      BY <1>2, <2>1, <2>6 DEF AfterDrop, SameLists
    <3>1. Opener(d) = x /\ opening[d] # "open" /\ replies[d] = <<>>
      BY DEF ListIInv, AfterDrop
    <3>2. d # c
      BY <1>2, <2>1, <3>1
    <3> QED  BY <2>2, <3>1, <3>2
  <2>9. ASSUME NEW d \in Channels PROVE AnswerInv(d)'
    <3>1. AnswerInv(d) /\ Opener(d) \in Ends
      BY ChannelFacts DEF ListIInv
    <3>2. InList(Opener(d), d)' <=> InList(Opener(d), d)
      BY <2>6, <3>1 DEF SameLists
    <3>3. Acceptable(d)' <=> Acceptable(d)
      BY <1>2 DEF Acceptable
    <3>4. CASE d = c
      <4>1. Acceptable(c) /\ opening[c] # "none"
        BY <1>5, <1>6, <2>1 DEF Acceptable, Known
      <4>2. /\ Reply(d, "OpenFailure")' <=> Reply(d, "OpenFailure")
            /\ Reply(d, "OpenConfirm")'
        BY <2>2, <3>4
      <4> QED  BY <1>2, <2>1, <3>1, <3>2, <3>3, <3>4, <4>1, <4>2 DEF AnswerInv
    <3>5. CASE d # c
      <4>1. \A a : Reply(d, a)' <=> Reply(d, a)
        BY <2>2, <3>5 DEF Reply
      <4> QED  BY <1>2, <2>1, <2>2, <3>1, <3>2, <3>3, <3>5, <4>1 DEF AnswerInv
    <3> QED  BY <3>4, <3>5
  <2>10. /\ \A d \in Channels : OpenInv(d)'
         /\ \A x \in Ends : WireTypes(x)'
    BY <1>2, <1>7, <2>5, KeepOpens
  <2> QED  BY <2>4, <2>6, <2>7, <2>8, <2>9, <2>10, Together
<1> QED  BY <1>8, <1>9

LEMMA HandleFailureStep ==
    ASSUME ListIInv, NEW e \in Ends, HandleFailure(e)
    PROVE  ListIInv'
<1>1. PICK c \in Channels : c = Target(e) /\ InList(e, c) /\ localId[e][c] = NextMessage(e).id
  <2>1. wire[Other(e)] # <<>> /\ Target(e) # Nil
    BY DEF HandleFailure, Incoming
  <2> QED  BY <2>1, NextFacts, ListedAt DEF Target
<1>2. /\ loop[e] = "reading" /\ wire[Other(e)] # <<>>
      /\ NextMessage(e).type = "OpenFailure"
      /\ Opener(c) # e => Fail(e, "response") /\ UNCHANGED <<chans, replies>>
      /\ Opener(c) = e => /\ chans' = [chans EXCEPT ![e] = Removed(@, NextMessage(e).id)]
                          /\ replies' = [replies EXCEPT ![c] = Append(@, "OpenFailure")]
                          /\ UNCHANGED <<loop, err>>
      /\ Consume(e, <<>>)
      /\ UNCHANGED <<setting, sentClose, closed, opening, incoming, closeCh,
                     serving, doomed, connClosed, ids, app>>
  BY <1>1 DEF HandleFailure, Incoming
<1>3. UNCHANGED <<localId, remoteId, accepted, told, wrote>>
  BY <1>2 DEF ids, app
<1>4. /\ Other(e) \in Ends /\ Other(Other(e)) = e
      /\ NextMessage(e) = wire[Other(e)][1] /\ 1 \in 1 .. Len(wire[Other(e)])
  BY <1>2, NextFacts, OtherEnds
<1>5. err[e] = "none" /\ serving[e] = Nil /\ doomed[e] = {} /\ Known(e, c)
  BY <1>1, <1>2, ReadingFacts
<1>6. e \notin setting.acceptable
  BY <1>2, <1>4 DEF ListIInv, WireTypes
<1>7. wire' \in [Ends -> Seq(Messages)] /\ \A x \in Ends : Quiet(x)
  BY <1>2, ConsumeQuiet
<1>8. CASE Opener(c) # e
  <2>1. "response" \in Reasons \ {"none", "panic"} /\ Fail(e, "response")
    BY <1>2, <1>8 DEF Reasons
  <2> QED  BY <1>2, <1>3, <1>7, <1>8, <2>1, LoopFails
<1>9. CASE Opener(c) = e
  <2>1. /\ chans' = [chans EXCEPT ![e] = Removed(@, localId[e][c])]
        /\ replies' = [replies EXCEPT ![c] = Append(@, "OpenFailure")]
        /\ UNCHANGED <<loop, err>>
    BY <1>1, <1>2, <1>9
  <2>2. /\ replies' \in [Channels -> Seq({"OpenConfirm", "OpenFailure"})]
        /\ \A d \in Channels : d # c => replies'[d] = replies[d]
        /\ \A a : Reply(c, a)' <=> Reply(c, a) \/ a = "OpenFailure"
    BY <2>1, AppendReply
  <2>3. /\ chans' \in [Ends -> Lists]
        /\ \A x \in Ends, d \in Channels :
              InList(x, d)' <=> InList(x, d) /\ ~(x = e /\ d = c)
        /\ \A x \in Ends : Placed(x)'
    BY <1>1, <1>3, <2>1, RemoveList
  <2>4. TypeOK'
    BY <1>2, <1>3, <1>7, <2>1, <2>2, <2>3 DEF ListIInv, TypeOK, Lists
  <2>5. SameKnown
    BY <1>2, <1>3, <2>1, KeepKnowing
  <2>6. \A x \in Ends : LoopErr(x)'
    BY <2>1, KeepLoopErr
  <2>7. \A x \in Ends : ServingInv(x)' /\ ClosedInv(x)'
    BY <1>2, <2>1, <2>3 DEF ListIInv, ServingInv, ClosedInv
  <2>8. ASSUME NEW x \in Ends PROVE KnownInv(x)' /\ LocatedInv(x)'
    <3>1. \A d \in Channels : /\ Known(x, d)' <=> Known(x, d)
                              /\ Acceptable(d)' <=> Acceptable(d)
      BY <1>2, <2>5 DEF SameKnown, Acceptable
    <3>2. ~Acceptable(c)
      BY <1>6, <1>9 DEF Acceptable
    <3>3. KnownInv(x) /\ LocatedInv(x)
      BY DEF ListIInv
    <3>4. /\ closed'[x] = closed[x] /\ doomed'[x] = doomed[x]
          /\ serving'[x] = serving[x] /\ loop'[x] = loop[x]
      BY <1>2, <2>1
    <3>5. \A d \in Channels : /\ InList(x, d)' => InList(x, d)
                              /\ InList(x, d) => InList(x, d)' \/ d = c
      BY <2>3
    <3>6. KnownInv(x)'
      BY <3>1, <3>3, <3>4, <3>5 DEF KnownInv
    <3>7. LocatedInv(x)'
      BY <3>1, <3>2, <3>3, <3>4, <3>5 DEF LocatedInv
    <3> QED  BY <3>6, <3>7
  <2>9. ASSUME NEW x \in Ends PROVE AfterDrop(x)'
    <3> SUFFICES ASSUME loop[x] \in {"dropping", "reporting", "done"},
                        NEW d \in Channels, InList(x, d)'
                 PROVE  Opener(d) = x /\ opening[d] # "open" /\ replies'[d] = <<>>
      BY <1>2, <2>1 DEF AfterDrop
    <3>1. Opener(d) = x /\ opening[d] # "open" /\ replies[d] = <<>>
      BY <2>3 DEF ListIInv, AfterDrop
    <3>2. d # c
      BY <1>2, <1>9, <3>1
    <3> QED  BY <2>2, <3>1, <3>2
  <2>10. ASSUME NEW d \in Channels PROVE AnswerInv(d)'
    <3>1. AnswerInv(d) /\ Opener(d) \in Ends
      BY ChannelFacts DEF ListIInv
    <3>2. InList(Opener(d), d)' <=> InList(Opener(d), d) /\ d # c
      BY <1>9, <2>3, <3>1
    <3>3. Acceptable(d)' <=> Acceptable(d)
      BY <1>2 DEF Acceptable
    <3>4. CASE d = c
      <4>1. ~Acceptable(c) /\ opening[c] # "none"
        BY <1>5, <1>6, <1>9 DEF Acceptable, Known
      <4>2. Reply(d, "OpenConfirm")' <=> Reply(d, "OpenConfirm")
        BY <2>2, <3>4
      <4> QED  BY <1>2, <2>1, <3>1, <3>2, <3>3, <3>4, <4>1, <4>2 DEF AnswerInv
    <3>5. CASE d # c
      <4>1. \A a : Reply(d, a)' <=> Reply(d, a)
        BY <2>2, <3>5 DEF Reply
      <4> QED  BY <1>2, <2>1, <2>2, <3>1, <3>2, <3>3, <3>5, <4>1 DEF AnswerInv
    <3> QED  BY <3>4, <3>5
  <2>11. /\ \A d \in Channels : OpenInv(d)'
         /\ \A x \in Ends : WireTypes(x)'
    BY <1>2, <1>7, <2>5, KeepOpens
  <2> QED  BY <2>3, <2>4, <2>6, <2>7, <2>8, <2>9, <2>10, <2>11, Together
<1> QED  BY <1>8, <1>9

LEMMA RemoveChannelStep ==
    ASSUME ListIInv, NEW e \in Ends, RemoveChannel(e)
    PROVE  ListIInv'
<1>1. PICK c \in Channels : c = serving[e]
  BY DEF RemoveChannel, ListIInv, ServingInv
<1>2. /\ loop[e] = "removing"
      /\ chans' = [chans EXCEPT ![e] = Removed(@, localId[e][c])]
      /\ loop' = [loop EXCEPT ![e] = "closing"]
      /\ UNCHANGED <<setting, sentClose, closed, opening, replies, incoming, closeCh,
                     serving, doomed, wire, ids, app, link>>
  BY <1>1 DEF RemoveChannel
<1>3. UNCHANGED <<localId, remoteId, accepted, told, wrote, err, connClosed>>
  BY <1>2 DEF ids, app, link
<1>4. InList(e, c) /\ ~closed[e][c] /\ err[e] = "none"
  BY <1>1, <1>2 DEF ListIInv, ServingInv, ClosedInv, LoopErr
<1>5. /\ chans' \in [Ends -> Lists]
      /\ \A x \in Ends, d \in Channels :
            InList(x, d)' <=> InList(x, d) /\ ~(x = e /\ d = c)
      /\ \A x \in Ends : Placed(x)'
  BY <1>2, <1>3, <1>4, RemoveList
<1>6. /\ loop' \in [Ends -> Places] /\ loop'[e] = "closing"
      /\ \A x \in Ends : x # e => loop'[x] = loop[x]
  BY <1>2 DEF ListIInv, TypeOK, Places
<1>7. TypeOK'
  BY <1>2, <1>3, <1>5, <1>6 DEF ListIInv, TypeOK, Lists
<1>8. SameKnown
  <2>1. \A x \in Ends : loop'[x] = "offering" <=> loop[x] = "offering"
    BY <1>2, <1>6
  <2> QED  BY <1>2, <1>3, <2>1, KeepKnowing
<1>9. \A x \in Ends : LoopErr(x)'
  BY <1>2, <1>3, <1>4, <1>6 DEF ListIInv, LoopErr
<1>10. ASSUME NEW x \in Ends PROVE ServingInv(x)' /\ ClosedInv(x)'
  <2>1. ServingInv(x) /\ ClosedInv(x)
    BY DEF ListIInv
  <2>2. closed'[x] = closed[x] /\ doomed'[x] = doomed[x] /\ serving'[x] = serving[x]
    BY <1>2
  <2>3. CASE x = e
    BY <1>1, <1>2, <1>4, <1>5, <1>6, <2>1, <2>2, <2>3 DEF ServingInv, ClosedInv
  <2>4. CASE x # e
    BY <1>5, <1>6, <2>1, <2>2, <2>4 DEF ServingInv, ClosedInv
  <2> QED  BY <2>3, <2>4
<1>11. ASSUME NEW x \in Ends PROVE KnownInv(x)' /\ LocatedInv(x)' /\ AfterDrop(x)'
  <2>1. KnownInv(x) /\ LocatedInv(x) /\ AfterDrop(x)
    BY DEF ListIInv
  <2>2. /\ closed'[x] = closed[x] /\ doomed'[x] = doomed[x] /\ serving'[x] = serving[x]
        /\ opening' = opening /\ replies' = replies
    BY <1>2
  <2>3. \A d \in Channels : /\ Known(x, d)' <=> Known(x, d)
                            /\ Acceptable(d)' <=> Acceptable(d)
    BY <1>2, <1>8 DEF SameKnown, Acceptable
  <2>4. \A d \in Channels : /\ InList(x, d)' => InList(x, d)
                            /\ InList(x, d) => InList(x, d)' \/ (x = e /\ d = c)
    BY <1>5
  <2>5. KnownInv(x)'
    BY <2>1, <2>2, <2>3, <2>4 DEF KnownInv
  <2>6. LocatedInv(x)'
    BY <1>1, <1>2, <1>6, <2>1, <2>2, <2>3, <2>4 DEF LocatedInv
  <2>7. AfterDrop(x)'
    BY <1>6, <2>1, <2>2, <2>4 DEF AfterDrop
  <2> QED  BY <2>5, <2>6, <2>7
<1>12. \A d \in Channels : AnswerInv(d)'
  BY <1>2, <1>3, <1>5, KeepAnswers
<1>13. /\ \A d \in Channels : OpenInv(d)'
       /\ \A x \in Ends : WireTypes(x)'
  BY <1>2, <1>8, SameWireQuiet, KeepOpens
<1> QED
  BY <1>5, <1>7, <1>9, <1>10, <1>11, <1>12, <1>13, Together

(* Finish of a channel that is not closed yet. *)
LEMMA FinishFacts ==
    ASSUME ListIInv, NEW e \in Ends, NEW c \in Channels, ~closed[e][c], Finish(e, c)
    PROVE  /\ closed' \in [Ends -> [Channels -> BOOLEAN]]
           /\ sentClose' \in [Ends -> [Channels -> BOOLEAN]]
           /\ loop' \in [Ends -> Places] /\ UNCHANGED err
           /\ closed'[e][c]
           /\ \A d \in Channels : d # c => closed'[e][d] = closed[e][d]
           /\ \A x \in Ends : x # e => closed'[x] = closed[x] /\ loop'[x] = loop[x]
           /\ loop'[e] = IF err[e] = "none" THEN "reading" ELSE loop[e]
<1>1. /\ closed \in [Ends -> [Channels -> BOOLEAN]]
      /\ sentClose \in [Ends -> [Channels -> BOOLEAN]]
      /\ loop \in [Ends -> Places]
  BY DEF ListIInv, TypeOK
<1>2. /\ closed' = [closed EXCEPT ![e][c] = TRUE]
      /\ sentClose' = [sentClose EXCEPT ![e][c] = TRUE]
      /\ loop' = [loop EXCEPT ![e] = IF err[e] = "none" THEN "reading" ELSE @]
      /\ UNCHANGED err
  BY DEF Finish
<1>3. (IF err[e] = "none" THEN "reading" ELSE loop[e]) \in Places
  BY <1>1 DEF Places
<1> QED  BY <1>1, <1>2, <1>3

LEMMA FinishChannelStep ==
    ASSUME ListIInv, NEW e \in Ends, FinishChannel(e)
    PROVE  ListIInv'
<1>1. PICK c \in Channels : c = serving[e] /\ ~InList(e, c) /\ ~closed[e][c]
  BY DEF FinishChannel, ListIInv, ServingInv
<1>2. /\ loop[e] = "closing"
      /\ Finish(e, c)
      /\ serving' = [serving EXCEPT ![e] = Nil]
      /\ UNCHANGED <<setting, chans, opening, replies, incoming, closeCh, doomed,
                     connClosed, wire, ids, app>>
  BY <1>1 DEF FinishChannel
<1>3. UNCHANGED <<localId, remoteId, accepted, told, wrote>>
  BY <1>2 DEF ids, app
<1>4. err[e] = "none" /\ doomed[e] = {} /\ Known(e, c)
  BY <1>1, <1>2 DEF ListIInv, LoopErr, ClosedInv, KnownInv
<1>5. /\ closed' \in [Ends -> [Channels -> BOOLEAN]]
      /\ sentClose' \in [Ends -> [Channels -> BOOLEAN]]
      /\ loop' \in [Ends -> Places] /\ UNCHANGED err
      /\ closed'[e][c]
      /\ \A d \in Channels : d # c => closed'[e][d] = closed[e][d]
      /\ \A x \in Ends : x # e => closed'[x] = closed[x] /\ loop'[x] = loop[x]
      /\ loop'[e] = "reading"
  BY <1>1, <1>2, <1>4, FinishFacts
<1>6. /\ serving' \in [Ends -> Channels \cup {Nil}] /\ serving'[e] = Nil
      /\ \A x \in Ends : x # e => serving'[x] = serving[x]
  BY <1>2 DEF ListIInv, TypeOK
<1>7. TypeOK'
  BY <1>2, <1>3, <1>5, <1>6 DEF ListIInv, TypeOK
<1>8. SameKnown
  <2>1. \A x \in Ends : loop'[x] = "offering" <=> loop[x] = "offering"
    BY <1>2, <1>5
  <2>2. \A x \in Ends : loop[x] = "offering" => serving'[x] = serving[x]
    BY <1>2, <1>6
  <2> QED  BY <1>2, <1>3, <2>1, <2>2, KeepKnowing
<1>9. /\ \A d \in Channels : InList(e, d)' <=> InList(e, d)
      /\ \A d \in Channels : Known(e, d)' <=> Known(e, d)
      /\ \A d \in Channels : Acceptable(d)' <=> Acceptable(d)
  BY <1>2, <1>8, KeepLists DEF SameLists, SameKnown, Acceptable
<1>10. LoopErr(e)' /\ ServingInv(e)' /\ AfterDrop(e)'
  BY <1>4, <1>5, <1>6 DEF LoopErr, ServingInv, AfterDrop
<1>11. ClosedInv(e)' /\ KnownInv(e)'
  <2>1. ClosedInv(e) /\ KnownInv(e)
    BY DEF ListIInv
  <2>2. doomed'[e] = {}
    BY <1>2, <1>4
  <2>3. \A d \in Channels : closed'[e][d] => closed[e][d] \/ d = c
    BY <1>5
  <2> QED
    BY <1>1, <1>4, <1>6, <1>9, <2>1, <2>2, <2>3, ChannelFacts DEF ClosedInv, KnownInv
<1>12. LocatedInv(e)'
  <2>1. LocatedInv(e)
    BY DEF ListIInv
  <2>2. \A d \in Channels : closed[e][d] \/ d = c => closed'[e][d]
    BY <1>5
  <2> QED  BY <1>1, <1>2, <1>4, <1>9, <2>1, <2>2 DEF LocatedInv
<1>13. \A x \in Ends : x # e => AtEnd(x)' = AtEnd(x)
  BY <1>2, <1>5, <1>6 DEF AtEnd
<1> QED
  BY <1>2, <1>3, <1>5, <1>7, <1>8, <1>10, <1>11, <1>12, <1>13, SameWireQuiet, MoveStep

LEMMA DropAllStep ==
    ASSUME ListIInv, NEW e \in Ends, DropAll(e)
    PROVE  ListIInv'
<1>1. /\ loop[e] = "failed"
      /\ doomed' = [doomed EXCEPT ![e] = Dropped(chans[e])]
      /\ chans' = [chans EXCEPT ![e] = <<>>]
      /\ loop' = [loop EXCEPT ![e] = "dropping"]
      /\ UNCHANGED <<setting, sentClose, closed, opening, replies, incoming, closeCh,
                     serving, wire, ids, app, link>>
  BY DEF DropAll
<1>2. UNCHANGED <<localId, remoteId, accepted, told, wrote, err, connClosed>>
  BY <1>1 DEF ids, app, link
<1>3. err[e] # "none" /\ serving[e] = Nil /\ doomed[e] = {}
  BY <1>1 DEF ListIInv, LoopErr, ServingInv, ClosedInv
<1>4. /\ Dropped(chans[e]) \in SUBSET Channels
      /\ \A d \in Channels : d \in Dropped(chans[e]) <=> InList(e, d)
  <2>1. chans[e] \in Lists
    BY Typed
  <2>2. Dropped(chans[e]) \in SUBSET Channels
    BY <2>1 DEF Dropped, Lists
  <2>3. ASSUME NEW d \in Channels PROVE d \in Dropped(chans[e]) <=> InList(e, d)
    BY ChannelFacts DEF Dropped, InList
  <2> QED  BY <2>2, <2>3
<1>5. /\ doomed' \in [Ends -> SUBSET Channels] /\ doomed'[e] = Dropped(chans[e])
      /\ loop' \in [Ends -> Places] /\ loop'[e] = "dropping"
      /\ \A x \in Ends : x # e => doomed'[x] = doomed[x] /\ loop'[x] = loop[x]
  BY <1>1, <1>4 DEF ListIInv, TypeOK, Places
<1>6. /\ chans' \in [Ends -> Lists] /\ chans'[e] = <<>>
      /\ \A x \in Ends : x # e => chans'[x] = chans[x]
  BY <1>1 DEF ListIInv, TypeOK, Lists
<1>7. \A x \in Ends, d \in Channels : InList(x, d)' <=> InList(x, d) /\ x # e
  <2>1. \A d \in Channels : ~InList(e, d)'
    BY <1>6 DEF InList
  <2>2. \A x \in Ends, d \in Channels : x # e => (InList(x, d)' <=> InList(x, d))
    BY <1>6 DEF InList
  <2> QED  BY <2>1, <2>2
<1>8. TypeOK'
  BY <1>1, <1>2, <1>5, <1>6 DEF ListIInv, TypeOK, Lists
<1>9. SameKnown
  <2>1. \A x \in Ends : loop'[x] = "offering" <=> loop[x] = "offering"
    BY <1>1, <1>5
  <2> QED  BY <1>1, <1>2, <2>1, KeepKnowing
<1>10. ASSUME NEW x \in Ends PROVE Placed(x)' /\ LoopErr(x)' /\ ServingInv(x)'
  <2>1. Placed(x) /\ LoopErr(x) /\ ServingInv(x)
    BY DEF ListIInv
  <2>2. CASE x = e
    BY <1>1, <1>2, <1>3, <1>5, <1>6, <2>1, <2>2 DEF Placed, LoopErr, ServingInv
  <2>3. CASE x # e
    BY <1>1, <1>2, <1>5, <1>6, <1>7, <2>1, <2>3 DEF Placed, LoopErr, ServingInv
  <2> QED  BY <2>2, <2>3
<1>11. ASSUME NEW x \in Ends
       PROVE  ClosedInv(x)' /\ KnownInv(x)' /\ LocatedInv(x)' /\ AfterDrop(x)'
  <2>1. ClosedInv(x) /\ KnownInv(x) /\ LocatedInv(x) /\ AfterDrop(x)
    BY DEF ListIInv
  <2>2. closed'[x] = closed[x] /\ serving'[x] = serving[x]
    BY <1>1
  <2>3. \A d \in Channels : Known(x, d)' <=> Known(x, d)
    BY <1>9 DEF SameKnown
  <2>4. \A d \in Channels : Acceptable(d)' <=> Acceptable(d)
    BY <1>1 DEF Acceptable
  <2>5. CASE x = e
    <3>1. \A d \in Channels : ~InList(e, d)'
      BY <1>7
    <3>2. \A d \in Channels : d \in doomed'[e] <=> InList(e, d)
      BY <1>4, <1>5
    <3>3. ClosedInv(e)'
      BY <1>5, <2>1, <2>2, <2>5, <3>1, <3>2 DEF ClosedInv
    <3>4. KnownInv(e)'
      BY <2>1, <2>2, <2>3, <2>5, <3>1, <3>2 DEF KnownInv
    <3>5. LocatedInv(e)'
      BY <1>1, <1>3, <2>1, <2>2, <2>3, <2>4, <2>5, <3>2 DEF LocatedInv
    <3>6. AfterDrop(e)'
      BY <3>1 DEF AfterDrop
    <3> QED  BY <2>5, <3>3, <3>4, <3>5, <3>6
  <2>6. CASE x # e
    <3>1. /\ \A d \in Channels : InList(x, d)' <=> InList(x, d)
          /\ doomed'[x] = doomed[x] /\ loop'[x] = loop[x]
          /\ opening' = opening /\ replies' = replies
      BY <1>1, <1>5, <1>7, <2>6
    <3>2. ClosedInv(x)'
      BY <2>1, <2>2, <3>1 DEF ClosedInv
    <3>3. KnownInv(x)'
      BY <2>1, <2>2, <2>3, <3>1 DEF KnownInv
    <3>4. LocatedInv(x)'
      BY <2>1, <2>2, <2>3, <2>4, <3>1 DEF LocatedInv
    <3>5. AfterDrop(x)'
      BY <2>1, <3>1 DEF AfterDrop
    <3> QED  BY <3>2, <3>3, <3>4, <3>5
  <2> QED  BY <2>5, <2>6
<1>12. \A d \in Channels : AnswerInv(d)'
  BY <1>1, <1>2, <1>7, KeepAnswers
<1>13. /\ \A d \in Channels : OpenInv(d)'
       /\ \A x \in Ends : WireTypes(x)'
  BY <1>1, <1>9, SameWireQuiet, KeepOpens
<1> QED  BY <1>8, <1>10, <1>11, <1>12, <1>13, Together

LEMMA FinishDroppedStep ==
    ASSUME ListIInv, NEW e \in Ends, FinishDropped(e)
    PROVE  ListIInv'
<1>1. PICK c \in doomed[e] :
         Finish(e, c) /\ doomed' = [doomed EXCEPT ![e] = @ \ {c}]
  BY DEF FinishDropped
<1>2. /\ loop[e] = "dropping"
      /\ UNCHANGED <<setting, chans, opening, replies, incoming, closeCh, serving,
                     connClosed, wire, ids, app>>
  BY DEF FinishDropped
<1>3. UNCHANGED <<localId, remoteId, accepted, told, wrote>>
  BY <1>2 DEF ids, app
<1>4. /\ c \in Channels /\ ~closed[e][c] /\ ~InList(e, c) /\ Known(e, c)
      /\ err[e] # "none" /\ serving[e] = Nil
  <2>1. c \in Channels
    BY <1>1 DEF ListIInv, TypeOK
  <2> QED
    BY <1>1, <1>2, <2>1 DEF ListIInv, ClosedInv, KnownInv, LoopErr, ServingInv
<1>5. /\ closed' \in [Ends -> [Channels -> BOOLEAN]]
      /\ sentClose' \in [Ends -> [Channels -> BOOLEAN]]
      /\ loop' \in [Ends -> Places] /\ UNCHANGED err
      /\ closed'[e][c]
      /\ \A d \in Channels : d # c => closed'[e][d] = closed[e][d]
      /\ \A x \in Ends : x # e => closed'[x] = closed[x] /\ loop'[x] = loop[x]
      /\ loop'[e] = "dropping"
  BY <1>1, <1>2, <1>4, FinishFacts
<1>6. /\ doomed' \in [Ends -> SUBSET Channels] /\ doomed'[e] = doomed[e] \ {c}
      /\ \A x \in Ends : x # e => doomed'[x] = doomed[x]
  BY <1>1 DEF ListIInv, TypeOK
<1>7. TypeOK'
  BY <1>2, <1>3, <1>5, <1>6 DEF ListIInv, TypeOK
<1>8. SameKnown
  <2>1. \A x \in Ends : loop'[x] = "offering" <=> loop[x] = "offering"
    BY <1>2, <1>5
  <2> QED  BY <1>2, <1>3, <2>1, KeepKnowing
<1>9. /\ \A d \in Channels : InList(e, d)' <=> InList(e, d)
      /\ \A d \in Channels : Known(e, d)' <=> Known(e, d)
      /\ \A d \in Channels : Acceptable(d)' <=> Acceptable(d)
  BY <1>2, <1>8, KeepLists DEF SameLists, SameKnown, Acceptable
<1>10. LoopErr(e)' /\ ServingInv(e)'
  BY <1>2, <1>4, <1>5 DEF ListIInv, LoopErr, ServingInv
<1>11. AfterDrop(e)'
  BY <1>2, <1>5, <1>9 DEF ListIInv, AfterDrop
<1>12. ClosedInv(e)' /\ KnownInv(e)'
  <2>1. ClosedInv(e) /\ KnownInv(e)
    BY DEF ListIInv
  <2>2. \A d \in Channels : closed'[e][d] => closed[e][d] \/ d = c
    BY <1>5
  <2>3. ClosedInv(e)'
    BY <1>4, <1>5, <1>6, <1>9, <2>1, <2>2 DEF ClosedInv
  <2>4. KnownInv(e)'
    BY <1>2, <1>4, <1>6, <1>9, <2>1, <2>2 DEF KnownInv
  <2> QED  BY <2>3, <2>4
<1>13. LocatedInv(e)'
  <2>1. LocatedInv(e)
    BY DEF ListIInv
  <2>2. \A d \in Channels : closed[e][d] \/ d = c => closed'[e][d]
    BY <1>5
  <2> QED  BY <1>2, <1>6, <1>9, <2>1, <2>2 DEF LocatedInv
<1>14. \A x \in Ends : x # e => AtEnd(x)' = AtEnd(x)
  BY <1>2, <1>5, <1>6 DEF AtEnd
<1> QED
  BY <1>2, <1>3, <1>5, <1>7, <1>8, <1>10, <1>11, <1>12, <1>13, <1>14,
     SameWireQuiet, MoveStep

LEMMA ShutConnStep ==
    ASSUME ListIInv, NEW e \in Ends, ShutConn(e)
    PROVE  ListIInv'
<1>1. /\ loop[e] = "dropping" /\ doomed[e] = {}
      /\ CloseConn(e)
      /\ loop' = [loop EXCEPT ![e] = "reporting"]
      /\ UNCHANGED <<setting, chans, sentClose, closed, opening, replies, incoming,
                     closeCh, serving, doomed, err, ids, app>>
  BY DEF ShutConn
<1>2. UNCHANGED <<localId, remoteId, accepted, told, wrote>>
  BY <1>1 DEF ids, app
<1>3. /\ wire' \in [Ends -> Seq(Messages)]
      /\ wire'[e] = wire[e] /\ wire'[Other(e)] = <<>>
      /\ connClosed' \in [Ends -> BOOLEAN]
      /\ connClosed'[e] /\ connClosed'[Other(e)] = connClosed[Other(e)]
  BY <1>1, CloseConnShape
<1>4. /\ \A x \in Ends : Quiet(x)
      /\ \A x \in Ends : connClosed[x] => connClosed'[x]
  <2>1. Quiet(e) /\ Quiet(Other(e))
    BY <1>3, QuietFacts, OtherEnds
  <2> QED  BY <1>3, <2>1, TwoEnds
<1>5. /\ loop' \in [Ends -> Places] /\ loop'[e] = "reporting"
      /\ \A x \in Ends : x # e => loop'[x] = loop[x]
  BY <1>1 DEF ListIInv, TypeOK, Places
<1>6. TypeOK'
  BY <1>1, <1>2, <1>3, <1>5 DEF ListIInv, TypeOK
<1>7. SameKnown
  <2>1. \A x \in Ends : loop'[x] = "offering" <=> loop[x] = "offering"
    BY <1>1, <1>5
  <2> QED  BY <1>1, <1>2, <2>1, KeepKnowing
<1>8. /\ \A d \in Channels : InList(e, d)' <=> InList(e, d)
      /\ \A d \in Channels : Known(e, d)' <=> Known(e, d)
      /\ \A d \in Channels : Acceptable(d)' <=> Acceptable(d)
  BY <1>1, <1>7, KeepLists DEF SameLists, SameKnown, Acceptable
<1>9. LoopErr(e)' /\ ServingInv(e)' /\ ClosedInv(e)'
  BY <1>1, <1>5, <1>8 DEF ListIInv, LoopErr, ServingInv, ClosedInv
<1>10. KnownInv(e)' /\ LocatedInv(e)' /\ AfterDrop(e)'
  BY <1>1, <1>5, <1>8 DEF ListIInv, KnownInv, LocatedInv, AfterDrop
<1>11. \A x \in Ends : x # e => AtEnd(x)' = AtEnd(x)
  BY <1>1, <1>5 DEF AtEnd
<1> QED  BY <1>1, <1>2, <1>4, <1>6, <1>7, <1>9, <1>10, <1>11, MoveStep

LEMMA ReportStep ==
    ASSUME ListIInv, NEW e \in Ends, Report(e)
    PROVE  ListIInv'
<1>1. /\ loop[e] = "reporting"
      /\ closeCh' = [closeCh EXCEPT ![e] = TRUE]
      /\ loop' = [loop EXCEPT ![e] = "done"]
      /\ UNCHANGED <<setting, chans, sentClose, closed, opening, replies, incoming,
                     serving, doomed, wire, ids, app, link>>
  BY DEF Report, SignalClosed
<1>2. UNCHANGED <<localId, remoteId, accepted, told, wrote, err, connClosed>>
  BY <1>1 DEF ids, app, link
<1>3. /\ loop' \in [Ends -> Places] /\ loop'[e] = "done"
      /\ \A x \in Ends : x # e => loop'[x] = loop[x]
  BY <1>1 DEF ListIInv, TypeOK, Places
<1>4. TypeOK'
  BY <1>1, <1>2, <1>3 DEF ListIInv, TypeOK
<1>5. SameKnown
  <2>1. \A x \in Ends : loop'[x] = "offering" <=> loop[x] = "offering"
    BY <1>1, <1>3
  <2> QED  BY <1>1, <1>2, <2>1, KeepKnowing
<1>6. /\ \A d \in Channels : InList(e, d)' <=> InList(e, d)
      /\ \A d \in Channels : Known(e, d)' <=> Known(e, d)
      /\ \A d \in Channels : Acceptable(d)' <=> Acceptable(d)
  BY <1>1, <1>5, KeepLists DEF SameLists, SameKnown, Acceptable
<1>7. LoopErr(e)' /\ ServingInv(e)' /\ ClosedInv(e)'
  BY <1>1, <1>2, <1>3, <1>6 DEF ListIInv, LoopErr, ServingInv, ClosedInv
<1>8. KnownInv(e)' /\ LocatedInv(e)' /\ AfterDrop(e)'
  BY <1>1, <1>3, <1>6 DEF ListIInv, KnownInv, LocatedInv, AfterDrop
<1>9. \A x \in Ends : x # e => AtEnd(x)' = AtEnd(x)
  BY <1>1, <1>2, <1>3 DEF AtEnd
<1> QED  BY <1>1, <1>2, <1>4, <1>5, <1>7, <1>8, <1>9, SameWireQuiet, MoveStep

LEMMA StutterStep ==
    ASSUME ListIInv, UNCHANGED vars
    PROVE  ListIInv'
<1>1. UNCHANGED <<setting, chans, localId, remoteId, sentClose, closed, opening, replies,
                  incoming, accepted, told, closeCh, loop, serving, doomed, err,
                  connClosed, wire, wrote>>
  BY DEF vars
<1>2. TypeOK'
  BY <1>1 DEF ListIInv, TypeOK
<1>3. SameKnown
  BY <1>1, KeepKnowing
<1> QED  BY <1>1, <1>2, <1>3, SameWireQuiet, QuietStep

-----------------------------------------------------------------------------
(* The invariant *)

LEMMA InitListIInv == Init => ListIInv
<1> SUFFICES ASSUME Init PROVE ListIInv
  OBVIOUS
<1>1. TypeOK
  BY DEF Init, At, TypeOK, Places, Reasons
<1>2. ASSUME NEW e \in Ends, NEW c \in Channels
      PROVE  /\ ~InList(e, c) /\ ~Queued(e, c) /\ ~Known(e, c)
             /\ ~closed[e][c] /\ doomed[e] = {} /\ serving[e] = Nil /\ c # Nil
             /\ loop[e] = "reading" /\ err[e] = "none" /\ opening[c] = "none"
             /\ replies[c] = <<>> /\ wire[e] = <<>>
  <2>1. /\ chans[e] = <<>> /\ incoming[e] = <<>> /\ accepted[e] = {}
        /\ ~closed[e][c] /\ doomed[e] = {} /\ serving[e] = Nil
        /\ loop[e] = "reading" /\ err[e] = "none" /\ opening[c] = "none"
        /\ replies[c] = <<>> /\ wire[e] = <<>>
    BY DEF Init, At
  <2>2. ~InList(e, c) /\ ~Queued(e, c)
    BY <2>1 DEF InList, Queued
  <2> QED  BY <2>1, <2>2, ChannelFacts DEF Known
<1>3. ASSUME NEW e \in Ends
      PROVE  /\ Placed(e) /\ LoopErr(e) /\ ServingInv(e) /\ ClosedInv(e)
             /\ KnownInv(e) /\ LocatedInv(e) /\ AfterDrop(e) /\ WireTypes(e)
  <2>1. /\ chans[e] = <<>> /\ loop[e] = "reading" /\ err[e] = "none"
        /\ serving[e] = Nil /\ doomed[e] = {} /\ wire[e] = <<>>
    BY DEF Init, At
  <2>2. Placed(e) /\ LoopErr(e) /\ ServingInv(e) /\ WireTypes(e) /\ AfterDrop(e)
    BY <2>1 DEF Placed, LoopErr, ServingInv, WireTypes, AfterDrop
  <2>3. ClosedInv(e) /\ KnownInv(e) /\ LocatedInv(e)
    BY <1>2, <2>1 DEF ClosedInv, KnownInv, LocatedInv
  <2> QED  BY <2>2, <2>3
<1>4. ASSUME NEW c \in Channels PROVE AnswerInv(c) /\ OpenInv(c)
  <2>1. Opener(c) \in Ends /\ Other(Opener(c)) \in Ends
    BY ChannelFacts, OtherEnds
  <2>2. /\ opening[c] = "none" /\ replies[c] = <<>> /\ wire[Opener(c)] = <<>>
        /\ ~Known(Other(Opener(c)), c)
    BY <1>2, <2>1
  <2> QED  BY <2>2 DEF AnswerInv, OpenInv, Reply, Sent, Once
<1> QED  BY <1>1, <1>3, <1>4 DEF ListIInv

LEMMA NextListIInv ==
    ASSUME ListIInv, [Next]_vars
    PROVE  ListIInv'
<1>1. ASSUME NEW e \in Ends, OpenCall(e) PROVE ListIInv'
  BY <1>1, OpenCallStep
<1>2. ASSUME NEW e \in Ends, Use(e) PROVE ListIInv'
  BY <1>2, SessionCloseStep, CloseChannelStep, WriteDataStep DEF Use
<1>3. ASSUME NEW e \in Ends, AcceptStep(e) PROVE ListIInv'
  BY <1>3, AcceptChannelStep, AcceptEOFStep DEF AcceptStep
<1>4. ASSUME NEW e \in Ends, Handle(e) PROVE ListIInv'
  BY <1>4, RefuseOpenStep, HandleOpenStep, HandleConfirmStep, HandleFailureStep,
     HandleDataStep, HandleCloseStep, InvalidChannelStep, ConnErrorStep DEF Handle
<1>5. ASSUME NEW e \in Ends, LoopStep(e) PROVE ListIInv'
  BY <1>4, <1>5, OfferStep, ConfirmStep, RemoveChannelStep, FinishChannelStep,
     DropAllStep, FinishDroppedStep, ShutConnStep, ReportStep DEF LoopStep
<1>6. ASSUME NEW c \in Channels, OpenStep(c) PROVE ListIInv'
  BY <1>6, SendOpenStep, OpenReturnStep DEF OpenStep
<1>7. ASSUME UNCHANGED vars PROVE ListIInv'
  BY <1>7, StutterStep
<1> QED  BY <1>1, <1>2, <1>3, <1>5, <1>6, <1>7 DEF Next

(* The channel list of each end is consistent with the channels' numbers, the *)
(* loop, and what each application holds, whatever the sessions do.           *)
THEOREM ListInvariance == Spec => []ListIInv
<1>1. Init => ListIInv
  BY InitListIInv
<1>2. ListIInv /\ [Next]_vars => ListIInv'
  BY NextListIInv
<1> QED  BY <1>1, <1>2, PTL DEF Spec

-----------------------------------------------------------------------------
(* What it means *)

LEMMA ListInvFollows == ListIInv => ListInv
<1> SUFFICES ASSUME ListIInv PROVE ListInv
  OBVIOUS
<1>1. TypeOK /\ NoPanic
  BY DEF ListIInv, LoopErr, NoPanic
<1>2. ASSUME NEW e \in Ends, NEW c \in Channels, Holds(e, c)
      PROVE  Known(e, c) /\ Acceptable(c)
  <2>1. CASE Opener(c) = e
    BY <1>2, <2>1 DEF Holds, Known, ListIInv, AnswerInv
  <2>2. CASE Opener(c) # e
    <3>1. Known(e, c)
      BY <1>2, <2>2 DEF Holds, Known
    <3>2. e = Other(Opener(c))
      BY <2>2, ChannelFacts, TwoEnds
    <3> QED  BY <3>1, <3>2 DEF ListIInv, OpenInv
  <2> QED  BY <2>1, <2>2
<1>3. Listed
  <2> SUFFICES ASSUME NEW e \in Ends, NEW c \in Channels,
                      Holds(e, c), ~closed[e][c], err[e] = "none",
                      ~(loop[e] = "closing" /\ serving[e] = c)
               PROVE  GetChan(chans[e], localId[e][c]) = c
    BY DEF Listed
  <2>1. c \notin doomed[e]
    BY DEF ListIInv, ClosedInv, LoopErr
  <2>2. InList(e, c)
    BY <1>2, <2>1 DEF ListIInv, LocatedInv
  <2> QED  BY <2>2, ListedAt
<1>4. RefusedForgotten
  <2> SUFFICES ASSUME NEW c \in Channels, opening[c] = "failed",
                      err[Opener(c)] = "none", ~connClosed[Opener(c)],
                      GetChan(chans[Opener(c)], localId[Opener(c)][c]) = c
               PROVE  FALSE
    BY DEF RefusedForgotten
  <2>1. Opener(c) \in Ends /\ c # Nil /\ localId[Opener(c)][c] \in Nat
    BY ChannelFacts, Typed
  <2>2. InList(Opener(c), c)
    BY <2>1, ListedAt
  <2> QED  BY <2>2 DEF ListIInv, AnswerInv
<1>5. NoOrphan
  <2> SUFFICES ASSUME NEW e \in Ends, NEW c \in Channels,
                      loop[e] = "done", Holds(e, c), ~closed[e][c]
               PROVE  FALSE
    BY DEF NoOrphan
  <2>1. InList(e, c)
    <3>1. doomed[e] = {}
      BY DEF ListIInv, ClosedInv
    <3> QED  BY <1>2, <3>1 DEF ListIInv, LocatedInv
  <2>2. Opener(c) = e /\ opening[c] # "open"
    BY <2>1 DEF ListIInv, AfterDrop
  <2> QED  BY <2>2 DEF Holds
<1> QED  BY <1>1, <1>3, <1>4, <1>5 DEF ListInv

(* The channel list is right from the first Open to the end of the session   *)
(* (session.go 77-223, util.go 26-87, channel.go 154-219): the session never *)
(* closes ch.msg twice, every channel in use is found under its own number,  *)
(* a refused one under none, and none is left open when Wait returns.        *)
THEOREM ChannelList == Spec => []ListInv
<1>1. ListIInv => ListInv
  BY ListInvFollows
<1> QED  BY <1>1, ListInvariance, PTL

-----------------------------------------------------------------------------
(* Sequences of messages *)

LEMMA RestSeq ==
    ASSUME NEW s \in Seq(Messages), NEW t \in Seq(Messages), Rest(s, t)
    PROVE  /\ CloseLast(s) => CloseLast(t)
           /\ \A c : Silent(s, c) => Silent(t, c)
<1>1. PICK k \in 0 .. Len(s) :
         Len(t) = Len(s) - k /\ \A i \in 1 .. Len(t) : t[i] = s[i + k]
  BY DEF Rest
<1>2. \A i \in 1 .. Len(t) : i + k \in 1 .. Len(s) /\ t[i] = s[i + k]
  BY <1>1
<1>3. \A i, j \in 1 .. Len(t) : i < j => i + k < j + k
  BY <1>1
<1>4. CloseLast(s) => CloseLast(t)
  BY <1>2, <1>3 DEF CloseLast
<1>5. \A c : Silent(s, c) => Silent(t, c)
  BY <1>2 DEF Silent
<1> QED  BY <1>4, <1>5

LEMMA AppendSeq ==
    ASSUME NEW s \in Seq(Messages), NEW m \in Messages
    PROVE  /\ CloseLast(s) /\ (\A i \in 1 .. Len(s) : s[i].type = "Close" => s[i].of # m.of)
                 => CloseLast(Append(s, m))
           /\ \A c : Silent(s, c) /\ (m.type # "Open" => m.of # c) => Silent(Append(s, m), c)
           /\ \A c : ConfirmedIn(s, c)
                     /\ (m.of = c /\ m.type \in {"Data", "Close"} => Sent(s, "OpenConfirm", c))
                        => ConfirmedIn(Append(s, m), c)
<1> DEFINE t == Append(s, m)
           n == Len(s) + 1
<1>1. /\ Len(s) \in Nat /\ Len(t) = n /\ t[n] = m
      /\ \A i \in 1 .. Len(s) : i \in 1 .. n /\ t[i] = s[i]
      /\ \A i \in 1 .. n : i = n \/ i \in 1 .. Len(s)
      /\ n \in 1 .. n
      /\ \A i \in 1 .. Len(s) : i < n
      /\ \A i \in 1 .. Len(s) : i \in 1 .. n
  BY AppendFacts
<1> HIDE DEF t
<1>2. ASSUME CloseLast(s), \A i \in 1 .. Len(s) : s[i].type = "Close" => s[i].of # m.of
      PROVE  CloseLast(t)
  <2> SUFFICES ASSUME NEW i \in 1 .. n, NEW j \in 1 .. n, i < j, t[i].type = "Close"
               PROVE  t[j].of # t[i].of
    BY <1>1 DEF CloseLast
  <2>1. i \in 1 .. Len(s)
    BY <1>1
  <2>2. CASE j = n
    BY <1>1, <1>2, <2>1, <2>2
  <2>3. CASE j \in 1 .. Len(s)
    BY <1>1, <1>2, <2>1, <2>3 DEF CloseLast
  <2> QED  BY <1>1, <2>2, <2>3
<1>3. ASSUME NEW c, Silent(s, c), m.type # "Open" => m.of # c
      PROVE  Silent(t, c)
  BY <1>1, <1>3 DEF Silent
<1>4. ASSUME NEW c, ConfirmedIn(s, c),
             m.of = c /\ m.type \in {"Data", "Close"} => Sent(s, "OpenConfirm", c)
      PROVE  ConfirmedIn(t, c)
  <2> SUFFICES ASSUME NEW i \in 1 .. n, t[i].of = c, t[i].type \in {"Data", "Close"}
               PROVE  \E j \in 1 .. i : t[j].of = c /\ t[j].type = "OpenConfirm"
    BY <1>1 DEF ConfirmedIn
  <2>1. PICK j \in 1 .. i :
           /\ j \in 1 .. Len(s)
           /\ s[j].of = c /\ s[j].type = "OpenConfirm"
    <3>1. CASE i = n
      <4>1. PICK j \in 1 .. Len(s) : s[j].type = "OpenConfirm" /\ s[j].of = c
        BY <1>1, <1>4, <3>1 DEF Sent
      <4> QED  BY <1>1, <3>1, <4>1
    <3>2. CASE i \in 1 .. Len(s)
      <4>1. PICK j \in 1 .. i : s[j].of = c /\ s[j].type = "OpenConfirm"
        BY <1>1, <1>4, <3>2 DEF ConfirmedIn
      <4>2. j \in 1 .. Len(s)
        BY <1>1, <3>2
      <4> QED  BY <4>1, <4>2
    <3> QED  BY <1>1, <3>1, <3>2
  <2> QED  BY <1>1, <2>1
<1> QED  BY <1>2, <1>3, <1>4 DEF t

(* Taking a message that is not the confirmation of c. *)
LEMMA TailSeq ==
    ASSUME NEW s \in Seq(Messages), s # <<>>, NEW c,
           ~(s[1].of = c /\ s[1].type = "OpenConfirm")
    PROVE  /\ ConfirmedIn(s, c) => ConfirmedIn(Tail(s), c)
           /\ Sent(s, "OpenConfirm", c) => Sent(Tail(s), "OpenConfirm", c)
<1> DEFINE t == Tail(s)
<1>1. /\ \A i \in 1 .. Len(t) : i + 1 \in 1 .. Len(s) /\ t[i] = s[i + 1]
      /\ \A i \in 1 .. Len(s) : i # 1 => i - 1 \in 1 .. Len(t) /\ t[i - 1] = s[i]
      /\ Len(t) \in Nat /\ Len(s) \in Nat
  BY TailFacts
<1> HIDE DEF t
<1>2. ASSUME Sent(s, "OpenConfirm", c) PROVE Sent(t, "OpenConfirm", c)
  BY <1>1, <1>2 DEF Sent
<1>3. ASSUME ConfirmedIn(s, c) PROVE ConfirmedIn(t, c)
  <2> SUFFICES ASSUME NEW i \in 1 .. Len(t), t[i].of = c, t[i].type \in {"Data", "Close"}
               PROVE  \E j \in 1 .. i : t[j].of = c /\ t[j].type = "OpenConfirm"
    BY DEF ConfirmedIn
  <2>1. PICK j \in 1 .. i + 1 : s[j].of = c /\ s[j].type = "OpenConfirm"
    BY <1>1, <1>3 DEF ConfirmedIn
  <2>2. j # 1 /\ j \in 1 .. Len(s)
    <3>1. i + 1 \in 1 .. Len(s)
      BY <1>1
    <3> QED  BY <1>1, <2>1, <3>1
  <2>3. j - 1 \in 1 .. i
    BY <1>1, <2>1, <2>2
  <2> QED  BY <1>1, <2>1, <2>2, <2>3
<1> QED  BY <1>2, <1>3 DEF t

LEMMA NothingSent ==
    ASSUME NEW s, s = <<>>
    PROVE  /\ CloseLast(s)
           /\ \A c : Silent(s, c) /\ ConfirmedIn(s, c)
           /\ \A type, c : ~Sent(s, type, c)
<1>1. 1 .. Len(s) = {}
  OBVIOUS
<1>2. CloseLast(s)
  BY <1>1 DEF CloseLast
<1>3. \A c : Silent(s, c) /\ ConfirmedIn(s, c)
  BY <1>1 DEF Silent, ConfirmedIn
<1>4. \A type, c : ~Sent(s, type, c)
  BY <1>1 DEF Sent
<1> QED  BY <1>2, <1>3, <1>4

-----------------------------------------------------------------------------
(* What a step may do *)

Mind == ListIInv /\ RouteInv

(* Nothing that has been said or done is undone. *)
Steady ==
    /\ UNCHANGED setting
    /\ \A x \in Ends : /\ err[x] # "none" => err'[x] # "none"
                       /\ connClosed[x] => connClosed'[x]
    /\ \A x \in Ends, d \in Channels : /\ sentClose[x][d] => sentClose'[x][d]
                                       /\ Joined(x, d) => Joined(x, d)'
    /\ \A d \in Channels :
          opening'[d] \in {"none", "encode"} => opening[d] \in {"none", "encode"}

(* x may write m. *)
Allowed(x, m) ==
    /\ Sendable(x, m)'
    /\ err[Other(x)] = "none" => Reaches(Other(x), m)
    /\ \A i \in 1 .. Len(wire[x]) : wire[x][i].type = "Close" => wire[x][i].of # m.of
    /\ m.type # "Open" => ~Closing(Other(x), m.of)
    /\ m.type \in {"Data", "Close"} /\ Opener(m.of) # x /\ err[Other(x)] = "none" =>
          Joined(Other(x), m.of) \/ Sent(wire[x], "OpenConfirm", m.of)
    /\ m.type = "Open" => Opener(m.of) = x /\ opening[m.of] = "encode"
    /\ m.type = "OpenFailure" => /\ Sent(wire[Other(x)], "Open", m.of)
                                 /\ ~Sent(wire'[Other(x)], "Open", m.of)

Lost(x) == wire'[x] = <<>> /\ connClosed'[Other(x)]

(* Other(x) takes a message; if it is a confirmation, the channel is open.   *)
Taken(x) ==
    /\ wire[x] # <<>> /\ wire'[x] = Tail(wire[x])
    /\ \A d \in Channels :
          wire[x][1].type = "OpenConfirm" /\ wire[x][1].of = d =>
             Joined(Other(x), d)' \/ err'[Other(x)] # "none"

Moves(x) ==
    \/ wire'[x] = wire[x]
    \/ Lost(x)
    \/ Taken(x)
    \/ \E m \in Messages : wire'[x] = Append(wire[x], m) /\ Allowed(x, m)

Moving == Steady /\ \A x \in Ends : Moves(x)

LEMMA MoveShapes ==
    ASSUME ListIInv, ListIInv', NEW x \in Ends, Moves(x)
    PROVE  /\ wire[x] \in Seq(Messages) /\ wire'[x] \in Seq(Messages)
           /\ \/ Rest(wire[x], wire'[x])
              \/ \E m \in Messages : wire'[x] = Append(wire[x], m) /\ Allowed(x, m)
<1>1. wire[x] \in Seq(Messages) /\ wire'[x] \in Seq(Messages)
  BY DEF ListIInv, TypeOK
<1> QED  BY <1>1, RestFacts DEF Moves, Lost, Taken

-----------------------------------------------------------------------------
(* Parts of RouteInv that do not depend on the list. *)

LEMMA KeepCloseLast ==
    ASSUME Mind, ListIInv', Moving
    PROVE  \A x \in Ends : CloseLast(wire'[x])
<1> SUFFICES ASSUME NEW x \in Ends PROVE CloseLast(wire'[x])
  OBVIOUS
<1>1. CloseLast(wire[x])
  BY DEF Mind, RouteInv
<1>2. /\ wire[x] \in Seq(Messages) /\ wire'[x] \in Seq(Messages)
      /\ \/ Rest(wire[x], wire'[x])
         \/ \E m \in Messages : wire'[x] = Append(wire[x], m) /\ Allowed(x, m)
  BY MoveShapes DEF Moving, Mind
<1>3. CASE Rest(wire[x], wire'[x])
  BY <1>1, <1>2, <1>3, RestSeq
<1>4. CASE \E m \in Messages : wire'[x] = Append(wire[x], m) /\ Allowed(x, m)
  <2>1. PICK m \in Messages : wire'[x] = Append(wire[x], m) /\ Allowed(x, m)
    BY <1>4
  <2>2. \A i \in 1 .. Len(wire[x]) : wire[x][i].type = "Close" => wire[x][i].of # m.of
    BY <2>1 DEF Allowed
  <2> QED  BY <1>1, <1>2, <2>1, <2>2, AppendSeq
<1> QED  BY <1>2, <1>3, <1>4

LEMMA KeepRefused ==
    ASSUME Mind, ListIInv', Moving
    PROVE  \A c \in Channels : RefusedOnce(c)'
<1> SUFFICES ASSUME NEW c \in Channels PROVE RefusedOnce(c)'
  OBVIOUS
<1> DEFINE o == Opener(c)
           a == Other(o)
<1>1. o \in Ends /\ a \in Ends /\ Other(a) = o /\ a # o
  BY ChannelFacts, OtherEnds
<1>2. /\ Sent(wire[a], "OpenFailure", c) =>
            opening[c] \notin {"none", "encode"} /\ ~Sent(wire[o], "Open", c)
      /\ Once(wire[a], "OpenFailure", c)
  BY DEF Mind, RouteInv, RefusedOnce
<1>3. opening'[c] \in {"none", "encode"} => opening[c] \in {"none", "encode"}
  BY DEF Moving, Steady
<1>4. /\ wire[o] \in Seq(Messages) /\ wire'[o] \in Seq(Messages)
      /\ wire[a] \in Seq(Messages) /\ wire'[a] \in Seq(Messages)
  BY <1>1, MoveShapes DEF Moving, Mind
<1>5. ASSUME Sent(wire[a], "OpenFailure", c) PROVE ~Sent(wire'[o], "Open", c)
  <2>1. CASE Rest(wire[o], wire'[o])
    BY <1>2, <1>4, <1>5, <2>1, RestKeeps
  <2>2. CASE \E m \in Messages : wire'[o] = Append(wire[o], m) /\ Allowed(o, m)
    <3>1. PICK m \in Messages : wire'[o] = Append(wire[o], m) /\ Allowed(o, m)
      BY <2>2
    <3>2. ~(m.type = "Open" /\ m.of = c)
      BY <1>2, <1>5, <3>1 DEF Allowed
    <3>3. ~Sent(Append(wire[o], m), "Open", c)
      BY <1>2, <1>4, <1>5, <3>2, AppendKeeps
    <3> QED  BY <3>1, <3>3
  <2> QED  BY <1>1, <2>1, <2>2, MoveShapes DEF Moving, Mind
<1>6. /\ Sent(wire'[a], "OpenFailure", c) =>
            opening'[c] \notin {"none", "encode"} /\ ~Sent(wire'[o], "Open", c)
      /\ Once(wire'[a], "OpenFailure", c)
  <2>1. CASE Rest(wire[a], wire'[a])
    BY <1>2, <1>3, <1>4, <1>5, <2>1, RestKeeps
  <2>2. CASE \E m \in Messages : wire'[a] = Append(wire[a], m) /\ Allowed(a, m)
    <3>1. PICK m \in Messages : wire'[a] = Append(wire[a], m) /\ Allowed(a, m)
      BY <2>2
    <3>2. CASE m.type = "OpenFailure" /\ m.of = c
      <4>1. Sent(wire[o], "Open", c) /\ ~Sent(wire'[o], "Open", c)
        BY <1>1, <3>1, <3>2 DEF Allowed
      <4>2. opening[c] \notin {"none", "encode"}
        BY <4>1 DEF Mind, ListIInv, OpenInv
      <4>3. ~Sent(wire[a], "OpenFailure", c)
        BY <1>2, <4>1
      <4>4. Once(Append(wire[a], m), "OpenFailure", c)
        BY <1>2, <1>4, <4>3, AppendKeeps
      <4> QED  BY <1>3, <3>1, <4>1, <4>2, <4>4
    <3>3. CASE ~(m.type = "OpenFailure" /\ m.of = c)
      <4>1. /\ Sent(Append(wire[a], m), "OpenFailure", c) <=> Sent(wire[a], "OpenFailure", c)
            /\ Once(Append(wire[a], m), "OpenFailure", c)
        BY <1>2, <1>4, <3>3, AppendKeeps
      <4> QED  BY <1>2, <1>3, <1>5, <3>1, <4>1
    <3> QED  BY <3>2, <3>3
  <2> QED  BY <1>1, <2>1, <2>2, MoveShapes DEF Moving, Mind
<1> QED  BY <1>6 DEF RefusedOnce, Sent, Once

-----------------------------------------------------------------------------
(* Lists and numbers: what a step may do to them. *)

(* Nothing looks for d in x's list any more, or has ever mentioned it.        *)
Spent(x, d) ==
    /\ Silent(wire'[Other(x)], d)
    /\ Opener(d) = x => opening'[d] # "encode" /\ ~Sent(wire'[x], "Open", d)

Fresh(x, d) ==
    /\ Silent(wire'[Other(x)], d)
    /\ ~Sent(wire'[x], "Open", d) /\ ~Sent(wire'[x], "OpenConfirm", d)

Addressed ==
    /\ \A x \in Ends, d \in Channels :
          /\ InList(x, d) => InList(x, d)' \/ err'[x] # "none" \/ Spent(x, d)
          /\ localId'[x][d] = localId[x][d] \/ Fresh(x, d)
    /\ \A d \in Channels :
          opening'[d] = "encode" => opening[d] = "encode" \/ InList(Opener(d), d)'

LEMMA KeepDelivered ==
    ASSUME Mind, ListIInv', Moving, Addressed
    PROVE  \A x \in Ends : Delivered(x)'
<1> SUFFICES ASSUME NEW x \in Ends, err'[x] = "none" PROVE Delivered(x)'
  BY DEF Delivered
<1> DEFINE o == Other(x)
<1>1. o \in Ends /\ Other(o) = x
  BY OtherEnds
<1>2. err[x] = "none"
  BY DEF Moving, Steady
<1>3. /\ wire[o] \in Seq(Messages) /\ wire'[o] \in Seq(Messages)
      /\ \/ Rest(wire[o], wire'[o])
         \/ \E m \in Messages : wire'[o] = Append(wire[o], m) /\ Allowed(o, m)
  BY <1>1, MoveShapes DEF Moving, Mind
<1>4. \A j \in 1 .. Len(wire[o]) : Reaches(x, wire[o][j])
  BY <1>2 DEF Mind, RouteInv, Delivered
<1>5. ASSUME NEW m \in Messages, NEW i \in 1 .. Len(wire'[o]), m = wire'[o][i]
      PROVE  Reaches(x, m)'
  <2>1. Reaches(x, m)
    <3>1. CASE Rest(wire[o], wire'[o])
      <4>1. PICK j \in 1 .. Len(wire[o]) : m = wire[o][j]
        BY <1>3, <1>5, <3>1, RestKeeps
      <4> QED  BY <1>4, <4>1
    <3>2. CASE \E n \in Messages : wire'[o] = Append(wire[o], n) /\ Allowed(o, n)
      <4>1. PICK n \in Messages : wire'[o] = Append(wire[o], n) /\ Allowed(o, n)
        BY <3>2
      <4>2. Reaches(x, n)
        BY <1>1, <1>2, <4>1 DEF Allowed
      <4>3. m = n \/ \E j \in 1 .. Len(wire[o]) : m = wire[o][j]
        BY <1>3, <1>5, <4>1, AppendFacts
      <4> QED  BY <1>4, <4>2, <4>3
    <3> QED  BY <1>3, <3>1, <3>2
  <2> SUFFICES ASSUME m.type # "Open"
               PROVE  InList(x, m.of)' /\ m.id = localId'[x][m.of]
    BY DEF Reaches
  <2>2. m.of \in Channels
    BY DEF Messages
  <2>3. InList(x, m.of) /\ m.id = localId[x][m.of]
    BY <2>1 DEF Reaches
  <2>4. ~Silent(wire'[o], m.of)
    BY <1>5 DEF Silent
  <2> QED  BY <2>2, <2>3, <2>4 DEF Addressed, Spent, Fresh
<1>6. \A i \in 1 .. Len(wire'[o]) : Reaches(x, wire[o][i])'
  BY <1>3, <1>5 DEF Reaches, InList
<1> QED  BY <1>6 DEF Delivered

LEMMA KeepSenders ==
    ASSUME Mind, ListIInv', Moving, Addressed
    PROVE  \A x \in Ends : Senders(x)'
<1> SUFFICES ASSUME NEW x \in Ends PROVE Senders(x)'
  OBVIOUS
<1>1. /\ wire[x] \in Seq(Messages) /\ wire'[x] \in Seq(Messages)
      /\ \/ Rest(wire[x], wire'[x])
         \/ \E m \in Messages : wire'[x] = Append(wire[x], m) /\ Allowed(x, m)
  BY MoveShapes DEF Moving, Mind
<1>2. \A j \in 1 .. Len(wire[x]) : Sendable(x, wire[x][j])
  BY DEF Mind, RouteInv, Senders
<1>3. ASSUME NEW m \in Messages, NEW i \in 1 .. Len(wire'[x]), m = wire'[x][i]
      PROVE  Sendable(x, m)'
  <2>1. ASSUME Sendable(x, m) PROVE Sendable(x, m)'
    <3>1. m.of \in Channels
      BY DEF Messages
    <3>2. /\ Joined(x, m.of) => Joined(x, m.of)'
          /\ sentClose[x][m.of] => sentClose'[x][m.of]
      BY <3>1 DEF Moving, Steady
    <3>3. m.type \in {"Open", "OpenConfirm"} => localId'[x][m.of] = localId[x][m.of]
      BY <1>3, <3>1 DEF Addressed, Fresh, Sent
    <3> QED  BY <2>1, <3>2, <3>3 DEF Sendable
  <2>2. CASE Rest(wire[x], wire'[x])
    <3>1. PICK j \in 1 .. Len(wire[x]) : m = wire[x][j]
      BY <1>1, <1>3, <2>2, RestKeeps
    <3> QED  BY <1>2, <2>1, <3>1
  <2>3. CASE \E n \in Messages : wire'[x] = Append(wire[x], n) /\ Allowed(x, n)
    <3>1. PICK n \in Messages : wire'[x] = Append(wire[x], n) /\ Allowed(x, n)
      BY <2>3
    <3>2. Sendable(x, n)'
      BY <3>1 DEF Allowed
    <3>3. m = n \/ \E j \in 1 .. Len(wire[x]) : m = wire[x][j]
      BY <1>1, <1>3, <3>1, AppendFacts
    <3> QED  BY <1>2, <2>1, <3>2, <3>3
  <2> QED  BY <1>1, <2>2, <2>3
<1>4. \A i \in 1 .. Len(wire'[x]) : Sendable(x, wire[x][i])'
  BY <1>1, <1>3 DEF Sendable, Joined, Known, Queued, Reply
<1> QED  BY <1>4 DEF Senders

LEMMA KeepOpenReachable ==
    ASSUME Mind, ListIInv', Moving, Addressed
    PROVE  \A d \in Channels : OpenReachable(d)'
<1> SUFFICES ASSUME NEW d \in Channels,
                    opening'[d] = "encode" \/ Sent(wire'[Opener(d)], "Open", d),
                    err'[Opener(d)] = "none"
             PROVE  InList(Opener(d), d)'
  BY DEF OpenReachable, Sent, InList
<1> DEFINE o == Opener(d)
<1>1. o \in Ends
  BY ChannelFacts
<1>2. /\ wire[o] \in Seq(Messages) /\ wire'[o] \in Seq(Messages)
      /\ \/ Rest(wire[o], wire'[o])
         \/ \E m \in Messages : wire'[o] = Append(wire[o], m) /\ Allowed(o, m)
  BY <1>1, MoveShapes DEF Moving, Mind
<1>3. err[o] = "none"
  BY <1>1 DEF Moving, Steady
<1>4. CASE opening'[d] = "encode" /\ opening[d] # "encode"
  BY <1>4 DEF Addressed
<1>5. CASE ~(opening'[d] = "encode" /\ opening[d] # "encode")
  <2>1. opening[d] = "encode" \/ Sent(wire[o], "Open", d)
    <3>1. CASE Rest(wire[o], wire'[o])
      BY <1>2, <1>5, <3>1, RestKeeps
    <3>2. CASE \E m \in Messages : wire'[o] = Append(wire[o], m) /\ Allowed(o, m)
      <4>1. PICK m \in Messages : wire'[o] = Append(wire[o], m) /\ Allowed(o, m)
        BY <3>2
      <4>2. m.type = "Open" => opening[m.of] = "encode"
        BY <4>1 DEF Allowed
      <4> QED  BY <1>2, <1>5, <4>1, <4>2, AppendKeeps
    <3> QED  BY <1>2, <3>1, <3>2
  <2>2. InList(o, d)
    BY <1>3, <2>1 DEF Mind, RouteInv, OpenReachable
  <2>3. ~Spent(o, d)
    BY DEF Spent
  <2> QED  BY <1>1, <2>2, <2>3 DEF Addressed
<1> QED  BY <1>4, <1>5

-----------------------------------------------------------------------------
(* What the two ends know of a channel: what a step may do to it. *)

(* The acceptor has confirmed c, or the connection is no more. *)
Confirmed(c) ==
    LET a == Other(Opener(c))
    IN  \/ Known(a, c) /\ ~Opening(a, c)
        \/ Sent(wire'[a], "OpenConfirm", c)
        \/ connClosed'[a] \/ connClosed'[Opener(c)]

LEMMA KeepConfirmFirst ==
    ASSUME Mind, ListIInv', Moving,
           \A d \in Channels :
              Known(Other(Opener(d)), d)' /\ ~Opening(Other(Opener(d)), d)'
                 => Confirmed(d)
    PROVE  \A d \in Channels : ConfirmFirst(d)'
<1> SUFFICES ASSUME NEW d \in Channels PROVE ConfirmFirst(d)'
  OBVIOUS
<1> DEFINE o == Opener(d)
           a == Other(o)
<1> SUFFICES ASSUME err'[o] = "none", ~Joined(o, d)'
             PROVE  /\ ConfirmedIn(wire'[a], d)
                    /\ Known(a, d)' /\ ~Opening(a, d)' =>
                          \/ Sent(wire'[a], "OpenConfirm", d)
                          \/ connClosed'[a] \/ connClosed'[o]
  BY DEF ConfirmFirst, ConfirmedIn, Sent
<1>1. o \in Ends /\ a \in Ends /\ Other(a) = o
  BY ChannelFacts, OtherEnds
<1>2. err[o] = "none" /\ ~Joined(o, d)
  BY <1>1 DEF Moving, Steady
<1>3. /\ ConfirmedIn(wire[a], d)
      /\ Known(a, d) /\ ~Opening(a, d) =>
            Sent(wire[a], "OpenConfirm", d) \/ connClosed[a] \/ connClosed[o]
  BY <1>2 DEF Mind, RouteInv, ConfirmFirst
<1>4. /\ wire[a] \in Seq(Messages) /\ wire'[a] \in Seq(Messages)
      /\ Moves(a)
  BY <1>1, MoveShapes DEF Moving, Mind
<1>5. /\ ConfirmedIn(wire'[a], d)
      /\ \/ Sent(wire[a], "OpenConfirm", d) => Sent(wire'[a], "OpenConfirm", d)
         \/ connClosed'[o]
  <2>1. CASE wire'[a] = wire[a]
    BY <1>3, <2>1
  <2>2. CASE Lost(a)
    BY <1>1, <2>2, NothingSent DEF Lost
  <2>3. CASE Taken(a)
    <3>1. wire[a] # <<>> /\ wire'[a] = Tail(wire[a])
      BY <2>3 DEF Taken
    <3>2. ~(wire[a][1].of = d /\ wire[a][1].type = "OpenConfirm")
      BY <1>1, <2>3 DEF Taken
    <3> QED  BY <1>3, <1>4, <3>1, <3>2, TailSeq
  <2>4. CASE \E m \in Messages : wire'[a] = Append(wire[a], m) /\ Allowed(a, m)
    <3>1. PICK m \in Messages : wire'[a] = Append(wire[a], m) /\ Allowed(a, m)
      BY <2>4
    <3>2. m.of = d /\ m.type \in {"Data", "Close"} => Sent(wire[a], "OpenConfirm", d)
      <4>1. a # o
        BY <1>1, OtherEnds
      <4> QED  BY <1>1, <1>2, <3>1, <4>1 DEF Allowed
    <3> QED  BY <1>3, <1>4, <3>1, <3>2, AppendSeq, AppendKeeps
  <2> QED  BY <1>4, <2>1, <2>2, <2>3, <2>4 DEF Moves
<1>6. ASSUME Known(a, d)' /\ ~Opening(a, d)'
      PROVE  \/ Sent(wire'[a], "OpenConfirm", d)
             \/ connClosed'[a] \/ connClosed'[o]
  <2>1. Confirmed(d)
    BY <1>6
  <2>2. /\ connClosed[a] => connClosed'[a]
        /\ connClosed[o] => connClosed'[o]
    BY <1>1 DEF Moving, Steady
  <2> QED  BY <1>3, <1>5, <2>1, <2>2 DEF Confirmed
<1> QED  BY <1>5, <1>6

LEMMA KeepClosing ==
    ASSUME Mind, ListIInv', Moving,
           \A x \in Ends, d \in Channels :
              Closing(x, d)' =>
                 \/ Closing(x, d)
                 \/ /\ Joined(x, d)' /\ sentClose'[x][d] /\ sentClose'[Other(x)][d]
                    /\ Silent(wire'[Other(x)], d)
    PROVE  \A x \in Ends, d \in Channels : ClosingInv(x, d)'
<1> SUFFICES ASSUME NEW x \in Ends, NEW d \in Channels, Closing(x, d)', Closing(x, d)
             PROVE  /\ Joined(x, d)' /\ sentClose'[x][d] /\ sentClose'[Other(x)][d]
                    /\ Silent(wire'[Other(x)], d)
  BY DEF ClosingInv, Silent
<1> DEFINE o == Other(x)
<1>1. o \in Ends /\ Other(o) = x
  BY OtherEnds
<1>2. /\ Joined(x, d) /\ sentClose[x][d] /\ sentClose[o][d]
      /\ Silent(wire[o], d)
  BY DEF Mind, RouteInv, ClosingInv
<1>3. Joined(x, d)' /\ sentClose'[x][d] /\ sentClose'[o][d]
  BY <1>1, <1>2 DEF Moving, Steady
<1>4. /\ wire[o] \in Seq(Messages) /\ wire'[o] \in Seq(Messages)
      /\ \/ Rest(wire[o], wire'[o])
         \/ \E m \in Messages : wire'[o] = Append(wire[o], m) /\ Allowed(o, m)
  BY <1>1, MoveShapes DEF Moving, Mind
<1>5. Silent(wire'[o], d)
  <2>1. CASE Rest(wire[o], wire'[o])
    BY <1>2, <1>4, <2>1, RestSeq
  <2>2. CASE \E m \in Messages : wire'[o] = Append(wire[o], m) /\ Allowed(o, m)
    <3>1. PICK m \in Messages : wire'[o] = Append(wire[o], m) /\ Allowed(o, m)
      BY <2>2
    <3>2. m.type # "Open" => m.of # d
      BY <1>1, <3>1 DEF Allowed
    <3> QED  BY <1>2, <1>4, <3>1, <3>2, AppendSeq
  <2> QED  BY <1>4, <2>1, <2>2
<1> QED  BY <1>3, <1>5

LEMMA KeepEnded ==
    ASSUME Mind, Moving,
           \A x \in Ends, d \in Channels :
              closed'[x][d] =>
                 \/ closed[x][d] \/ err'[x] # "none"
                 \/ Joined(x, d) /\ sentClose[Other(x)][d]
    PROVE  \A x \in Ends, d \in Channels : EndedByBoth(x, d)'
<1> SUFFICES ASSUME NEW x \in Ends, NEW d \in Channels, closed'[x][d], err'[x] = "none"
             PROVE  Joined(x, d)' /\ sentClose'[Other(x)][d]
  BY DEF EndedByBoth
<1>1. Other(x) \in Ends /\ err[x] = "none"
  BY OtherEnds DEF Moving, Steady
<1>2. EndedByBoth(x, d)
  BY DEF Mind, RouteInv
<1>3. Joined(x, d) /\ sentClose[Other(x)][d]
  BY <1>1, <1>2 DEF EndedByBoth
<1> QED  BY <1>1, <1>3 DEF Moving, Steady

LEMMA KeepFailed ==
    ASSUME Mind, Moving,
           \A d \in Channels :
              opening'[d] = "failed" =>
                 \/ opening[d] = "failed" \/ ~Acceptable(d)
                 \/ connClosed'[Opener(d)] \/ err'[Opener(d)] # "none"
    PROVE  \A d \in Channels : FailedInv(d)'
<1> SUFFICES ASSUME NEW d \in Channels PROVE FailedInv(d)'
  OBVIOUS
<1>1. FailedInv(d)
  BY DEF Mind, RouteInv
<1>2. Opener(d) \in Ends
  BY ChannelFacts
<1> QED  BY <1>1, <1>2 DEF FailedInv, Acceptable, Moving, Steady

LEMMA KeepNumbers ==
    ASSUME Mind, UNCHANGED <<localId, remoteId>>, SameKnown,
           \A x \in Ends, d \in Channels : Joined(x, d)' <=> Joined(x, d)
    PROVE  \A d \in Channels : NumbersAgree(d)'
<1> SUFFICES ASSUME NEW d \in Channels PROVE NumbersAgree(d)'
  OBVIOUS
<1>1. NumbersAgree(d)
  BY DEF Mind, RouteInv
<1>2. Opener(d) \in Ends /\ Other(Opener(d)) \in Ends
  BY ChannelFacts, OtherEnds
<1>3. /\ Known(Other(Opener(d)), d)' <=> Known(Other(Opener(d)), d)
      /\ Joined(Opener(d), d)' <=> Joined(Opener(d), d)
  BY <1>2 DEF SameKnown
<1> QED  BY <1>1, <1>3 DEF NumbersAgree

LEMMA KeepNotYetUsed ==
    ASSUME Mind, UNCHANGED <<accepted, incoming, loop, serving>>,
           \A x \in Ends, d \in Channels :
              /\ Known(x, d) => Known(x, d)'
              /\ sentClose'[x][d] => sentClose[x][d] \/ (Known(x, d) /\ ~Opening(x, d))
    PROVE  \A x \in Ends, d \in Channels : NotYetUsed(x, d)'
<1> SUFFICES ASSUME NEW x \in Ends, NEW d \in Channels PROVE NotYetUsed(x, d)'
  OBVIOUS
<1>1. NotYetUsed(x, d)
  BY DEF Mind, RouteInv
<1>2. /\ loop'[x] = loop[x] /\ serving'[x] = serving[x]
      /\ accepted'[x] = accepted[x]
      /\ Queued(x, d)' <=> Queued(x, d)
      /\ Opening(x, d)' <=> Opening(x, d)
  BY DEF Queued, Opening
<1> QED  BY <1>1, <1>2 DEF NotYetUsed

LEMMA SameJoined ==
    ASSUME UNCHANGED <<opening, replies>>, SameKnown
    PROVE  \A x \in Ends, d \in Channels : Joined(x, d)' <=> Joined(x, d)
<1> SUFFICES ASSUME NEW x \in Ends, NEW d \in Channels
             PROVE  Joined(x, d)' <=> Joined(x, d)
  OBVIOUS
<1>1. Known(x, d)' <=> Known(x, d)
  BY DEF SameKnown
<1>2. Reply(d, "OpenConfirm")' <=> Reply(d, "OpenConfirm")
  BY DEF Reply
<1> QED  BY <1>1, <1>2 DEF Joined

LEMMA RouteTogether ==
    ASSUME Mind, ListIInv', Moving, Addressed,
           \A d \in Channels :
              Known(Other(Opener(d)), d)' /\ ~Opening(Other(Opener(d)), d)'
                 => Confirmed(d),
           \A x \in Ends, d \in Channels :
              Closing(x, d)' =>
                 \/ Closing(x, d)
                 \/ /\ Joined(x, d)' /\ sentClose'[x][d] /\ sentClose'[Other(x)][d]
                    /\ Silent(wire'[Other(x)], d),
           \A x \in Ends, d \in Channels :
              closed'[x][d] =>
                 \/ closed[x][d] \/ err'[x] # "none"
                 \/ Joined(x, d) /\ sentClose[Other(x)][d],
           \A d \in Channels :
              opening'[d] = "failed" =>
                 \/ opening[d] = "failed" \/ ~Acceptable(d)
                 \/ connClosed'[Opener(d)] \/ err'[Opener(d)] # "none",
           \A d \in Channels : NumbersAgree(d)',
           \A x \in Ends, d \in Channels : NotYetUsed(x, d)',
           \A x \in Ends : err'[x] \in {"invalid", "response"} => err'[x] = err[x]
    PROVE  RouteInv'
<1>1. \A x \in Ends : Delivered(x)' /\ Senders(x)' /\ CloseLast(wire'[x])
  BY KeepDelivered, KeepSenders, KeepCloseLast
<1>2. \A d \in Channels : RefusedOnce(d)' /\ OpenReachable(d)'
  BY KeepRefused, KeepOpenReachable
<1>3. \A d \in Channels : ConfirmFirst(d)'
  BY KeepConfirmFirst
<1>4. \A d \in Channels : FailedInv(d)'
  BY KeepFailed
<1>5. \A x \in Ends, d \in Channels : ClosingInv(x, d)'
  BY KeepClosing
<1>6. \A x \in Ends, d \in Channels : EndedByBoth(x, d)'
  BY KeepEnded
<1>7. NoStray'
  BY DEF NoStray, Mind, RouteInv
<1>8. \A x \in Ends : CloseLast(wire[x])'
  BY <1>1 DEF CloseLast
<1> QED  BY <1>1, <1>2, <1>3, <1>4, <1>5, <1>6, <1>7, <1>8 DEF RouteInv

-----------------------------------------------------------------------------
(* Writing, taking and losing messages *)

LEMMA EncodeMoves ==
    ASSUME ListIInv, NEW e \in Ends, NEW m \in Messages, Encode(e, m),
           ~connClosed[e] /\ ~connClosed[Other(e)] => Allowed(e, m)
    PROVE  \A x \in Ends : Moves(x)
<1>1. Writes(e, m) /\ wire'[Other(e)] = wire[Other(e)]
  BY EncodeShape
<1>2. Moves(e)
  BY <1>1 DEF Writes, Moves
<1>3. Moves(Other(e))
  BY <1>1 DEF Moves
<1> QED  BY <1>2, <1>3, TwoEnds

LEMMA ConsumeMoves ==
    ASSUME ListIInv, NEW e \in Ends, wire[Other(e)] # <<>>,
           \A d \in Channels :
              NextMessage(e).type = "OpenConfirm" /\ NextMessage(e).of = d =>
                 Joined(e, d)' \/ err'[e] # "none"
    PROVE  /\ Consume(e, <<>>) => \A x \in Ends : Moves(x)
           /\ \A m \in Messages :
                 /\ Consume(e, <<m>>)
                 /\ ~connClosed[e] /\ ~connClosed[Other(e)] => Allowed(e, m)
                 => \A x \in Ends : Moves(x)
<1>1. Other(e) \in Ends /\ Other(Other(e)) = e /\ NextMessage(e) = wire[Other(e)][1]
  BY OtherEnds, NextFacts
<1>2. ASSUME wire'[Other(e)] = Tail(wire[Other(e)]) PROVE Moves(Other(e))
  BY <1>1, <1>2 DEF Moves, Taken
<1>3. ASSUME Consume(e, <<>>) PROVE \A x \in Ends : Moves(x)
  <2>1. wire'[e] = wire[e] /\ wire'[Other(e)] = Tail(wire[Other(e)])
    BY <1>3, ConsumeShape
  <2>2. Moves(e)
    BY <2>1 DEF Moves
  <2> QED  BY <1>2, <2>1, <2>2, TwoEnds
<1>4. ASSUME NEW m \in Messages, Consume(e, <<m>>),
             ~connClosed[e] /\ ~connClosed[Other(e)] => Allowed(e, m)
      PROVE  \A x \in Ends : Moves(x)
  <2>1. Writes(e, m) /\ wire'[Other(e)] = Tail(wire[Other(e)])
    BY <1>4, ConsumeShape
  <2>2. Moves(e)
    BY <1>4, <2>1 DEF Writes, Moves
  <2> QED  BY <1>2, <2>1, <2>2, TwoEnds
<1> QED  BY <1>3, <1>4

LEMMA CloseConnMoves ==
    ASSUME ListIInv, NEW e \in Ends, CloseConn(e)
    PROVE  /\ \A x \in Ends : Moves(x)
           /\ \A x \in Ends : connClosed[x] => connClosed'[x]
<1>1. /\ wire'[e] = wire[e] /\ wire'[Other(e)] = <<>>
      /\ connClosed'[e] /\ connClosed'[Other(e)] = connClosed[Other(e)]
  BY CloseConnShape
<1>2. Moves(e) /\ Moves(Other(e))
  BY <1>1, OtherEnds DEF Moves, Lost
<1> QED  BY <1>1, <1>2, TwoEnds

(* What one end may write on a channel finds it at the other end. *)
LEMMA Reachable ==
    ASSUME Mind, NEW e \in Ends, NEW c \in Channels, Joined(e, c), ~sentClose[e][c]
    PROVE  /\ remoteId[e][c] = localId[Other(e)][c]
           /\ err[Other(e)] = "none" => InList(Other(e), c)
<1> DEFINE o == Other(e)
<1>1. o \in Ends /\ Other(o) = e /\ Opener(c) \in Ends
  BY OtherEnds, ChannelFacts
<1>2. NumbersAgree(c) /\ OpenInv(c)
  BY DEF Mind, RouteInv, ListIInv
<1>3. Opener(c) = e \/ Opener(c) = o
  BY <1>1, TwoEnds
<1>4. remoteId[e][c] = localId[o][c]
  BY <1>1, <1>2, <1>3 DEF NumbersAgree, Joined
<1>5. Known(o, c) /\ Acceptable(c)
  <2>1. CASE Opener(c) = e
    <3>1. Known(o, c)
      BY <1>2, <2>1 DEF NumbersAgree
    <3> QED  BY <1>2, <2>1, <3>1 DEF OpenInv
  <2>2. CASE Opener(c) = o
    <3>1. Known(e, c)
      BY <1>1, <2>2, OtherEnds DEF Joined
    <3>2. Acceptable(c) /\ opening[c] \notin {"none", "encode"}
      BY <1>1, <1>2, <2>2, <3>1 DEF OpenInv
    <3> QED  BY <2>2, <3>2 DEF Known
  <2> QED  BY <1>3, <2>1, <2>2
<1>6. ASSUME err[o] = "none" PROVE InList(o, c)
  <2>1. \/ InList(o, c) \/ closed[o][c] \/ c \in doomed[o]
        \/ loop[o] = "closing" /\ serving[o] = c
    BY <1>1, <1>5 DEF Mind, ListIInv, LocatedInv
  <2>2. ~closed[o][c]
    <3>1. EndedByBoth(o, c)
      BY <1>1 DEF Mind, RouteInv
    <3> QED  BY <1>1, <1>6, <3>1 DEF EndedByBoth
  <2>3. c \notin doomed[o]
    <3>1. ClosedInv(o) /\ LoopErr(o)
      BY <1>1 DEF Mind, ListIInv
    <3> QED  BY <1>6, <3>1 DEF ClosedInv, LoopErr
  <2>4. ~(loop[o] = "closing" /\ serving[o] = c)
    <3>1. ClosingInv(o, c)
      BY <1>1 DEF Mind, RouteInv
    <3> QED  BY <1>1, <3>1 DEF ClosingInv, Closing
  <2> QED  BY <2>1, <2>2, <2>3, <2>4
<1> QED  BY <1>4, <1>6

LEMMA MayWrite ==
    ASSUME Mind, NEW e \in Ends, NEW c \in Channels, Joined(e, c), ~sentClose[e][c],
           ~connClosed[e], ~connClosed[Other(e)],
           NEW m \in Messages, m.of = c, m.id = remoteId[e][c],
           m.type \in {"OpenConfirm", "Data", "Close"},
           m.type # "OpenConfirm" => ~Opening(e, c),
           Sendable(e, m)'
    PROVE  Allowed(e, m)
<1> DEFINE o == Other(e)
<1>1. o \in Ends /\ Other(o) = e /\ Opener(c) \in Ends
  BY OtherEnds, ChannelFacts
<1>2. err[o] = "none" => Reaches(o, m)
  BY Reachable DEF Reaches
<1>3. \A i \in 1 .. Len(wire[e]) : wire[e][i].type = "Close" => wire[e][i].of # c
  <2>1. Senders(e)
    BY DEF Mind, RouteInv
  <2> QED  BY <2>1 DEF Senders, Sendable
<1>4. ~Closing(o, c)
  <2>1. ClosingInv(o, c)
    BY <1>1 DEF Mind, RouteInv
  <2> QED  BY <1>1, <2>1 DEF ClosingInv
<1>5. ASSUME m.type \in {"Data", "Close"}, Opener(c) # e, err[o] = "none"
      PROVE  Joined(o, c) \/ Sent(wire[e], "OpenConfirm", c)
  <2>1. Opener(c) = o
    BY <1>1, <1>5, TwoEnds
  <2>2. Known(e, c) /\ ~Opening(e, c)
    BY <1>5 DEF Joined
  <2>3. ConfirmFirst(c)
    BY DEF Mind, RouteInv
  <2> QED  BY <1>1, <1>5, <2>1, <2>2, <2>3 DEF ConfirmFirst
<1>6. m.type \notin {"Open", "OpenFailure"}
  OBVIOUS
<1> QED  BY <1>1, <1>2, <1>3, <1>4, <1>5, <1>6 DEF Allowed

-----------------------------------------------------------------------------
(* Steps that leave lists, numbers and the loops alone. *)

LEMMA UseStep ==
    ASSUME Mind, ListIInv',
           UNCHANGED <<setting, chans, localId, remoteId, closed, opening, replies,
                       incoming, accepted, loop, serving, err>>,
           \A x \in Ends : connClosed[x] => connClosed'[x],
           \A x \in Ends, d \in Channels :
              /\ sentClose[x][d] => sentClose'[x][d]
              /\ sentClose'[x][d] =>
                    sentClose[x][d] \/ (Known(x, d) /\ ~Opening(x, d)),
           \A x \in Ends : Moves(x)
    PROVE  RouteInv'
<1>1. SameKnown
  BY KeepKnowing DEF Mind
<1>2. \A x \in Ends, d \in Channels : Joined(x, d)' <=> Joined(x, d)
  BY <1>1, SameJoined
<1>3. Moving
  BY <1>2 DEF Moving, Steady
<1>4. SameLists
  BY KeepLists
<1>5. Addressed
  BY <1>4 DEF Addressed, SameLists
<1>6. \A x \in Ends, d \in Channels :
         /\ Opening(x, d)' <=> Opening(x, d)
         /\ Closing(x, d)' <=> Closing(x, d)
  BY DEF Opening, Closing
<1>7. \A d \in Channels :
         Known(Other(Opener(d)), d)' /\ ~Opening(Other(Opener(d)), d)' => Confirmed(d)
  BY <1>1, <1>6, ChannelFacts, OtherEnds DEF SameKnown, Confirmed
<1>8. \A d \in Channels : NumbersAgree(d)'
  BY <1>1, <1>2, KeepNumbers
<1>9. \A x \in Ends, d \in Channels : NotYetUsed(x, d)'
  BY <1>1, KeepNotYetUsed DEF SameKnown
<1> QED  BY <1>3, <1>5, <1>6, <1>7, <1>8, <1>9, RouteTogether

LEMMA AcceptEOFRoute ==
    ASSUME Mind, ListIInv', NEW e \in Ends, AcceptEOF(e)
    PROVE  RouteInv'
<1>1. \A x \in Ends : Moves(x)
  BY DEF AcceptEOF, Moves
<1> QED  BY <1>1, UseStep DEF AcceptEOF, ids, link

LEMMA SessionCloseRoute ==
    ASSUME Mind, ListIInv', NEW e \in Ends, SessionClose(e)
    PROVE  RouteInv'
<1>1. CloseConn(e)
  BY DEF SessionClose
<1>2. /\ \A x \in Ends : Moves(x)
      /\ \A x \in Ends : connClosed[x] => connClosed'[x]
  BY <1>1, CloseConnMoves DEF Mind
<1> QED  BY <1>2, UseStep DEF SessionClose, ids, app

LEMMA HandleDataRoute ==
    ASSUME Mind, ListIInv', NEW e \in Ends, HandleData(e)
    PROVE  RouteInv'
<1>1. /\ wire[Other(e)] # <<>> /\ NextMessage(e).type # "OpenConfirm"
      /\ Consume(e, <<>>)
  BY DEF HandleData, Incoming
<1>2. \A x \in Ends : Moves(x)
  BY <1>1, ConsumeMoves DEF Mind
<1> QED  BY <1>2, UseStep DEF HandleData, ids, app, link

(* A user writes to a channel that is open at its end and confirmed. *)
LEMMA UsableFacts ==
    ASSUME Mind, setting.habits = {}, NEW e \in Ends, NEW c \in Channels, Usable(e, c)
    PROVE  Joined(e, c) /\ Known(e, c) /\ ~Opening(e, c)
<1>1. Holds(e, c) /\ ~Unconfirmed(e, c)
  BY DEF Usable
<1>2. NotYetUsed(e, c) /\ ServingInv(e)
  BY DEF Mind, RouteInv, ListIInv
<1>3. CASE Opener(c) = e
  BY <1>1, <1>2, <1>3 DEF Holds, Joined, Known, Opening, ServingInv
<1>4. CASE Opener(c) # e
  BY <1>1, <1>2, <1>4 DEF Holds, Joined, Known, Opening, Unconfirmed, NotYetUsed
<1> QED  BY <1>3, <1>4

LEMMA CloseChannelRoute ==
    ASSUME Mind, setting.habits = {}, ListIInv', NEW e \in Ends, NEW c \in Channels,
           CloseChannel(e, c)
    PROVE  RouteInv'
<1>1. /\ Joined(e, c) /\ Known(e, c) /\ ~Opening(e, c) /\ ~sentClose[e][c]
      /\ Encode(e, Message("Close", remoteId[e][c], 0, c))
      /\ sentClose' = [sentClose EXCEPT ![e][c] = TRUE]
  BY UsableFacts DEF CloseChannel, Refused
<1>2. remoteId[e][c] \in Nat /\ sentClose \in [Ends -> [Channels -> BOOLEAN]]
  BY DEF Mind, ListIInv, TypeOK
<1>3. PICK id \in Nat : id = remoteId[e][c]
  BY <1>2
<1> DEFINE m == Message("Close", id, 0, c)
<1>4. m \in Messages /\ m.type = "Close" /\ m.id = id /\ m.of = c
  BY MessageFacts
<1>5. Encode(e, m)
  BY <1>1, <1>3
<1> HIDE DEF m
<1>6. /\ sentClose'[e][c]
      /\ \A x \in Ends, d \in Channels :
            /\ sentClose[x][d] => sentClose'[x][d]
            /\ sentClose'[x][d] => sentClose[x][d] \/ (x = e /\ d = c)
  BY <1>1, <1>2
<1>7. UNCHANGED <<setting, chans, localId, remoteId, closed, opening, replies,
                  incoming, accepted, loop, serving, err, connClosed>>
  BY DEF CloseChannel, ids, app, link
<1>8. SameKnown
  BY <1>7, KeepKnowing DEF Mind
<1>9. Joined(e, c)'
  BY <1>1, <1>7, <1>8, SameJoined
<1>10. Sendable(e, m)'
  BY <1>4, <1>6, <1>9 DEF Sendable
<1>11. ~connClosed[e] /\ ~connClosed[Other(e)] => Allowed(e, m)
  BY <1>4, <1>1, <1>3, <1>10, MayWrite
<1>12. \A x \in Ends : Moves(x)
  BY <1>4, <1>11, <1>5, EncodeMoves DEF Mind
<1> QED  BY <1>1, <1>6, <1>7, <1>12, UseStep

LEMMA WriteDataRoute ==
    ASSUME Mind, setting.habits = {}, ListIInv', NEW e \in Ends, NEW c \in Channels,
           WriteData(e, c)
    PROVE  RouteInv'
<1>1. /\ Joined(e, c) /\ Known(e, c) /\ ~Opening(e, c) /\ ~sentClose[e][c]
      /\ Encode(e, Message("Data", remoteId[e][c], 0, c))
  BY UsableFacts DEF WriteData
<1>2. remoteId[e][c] \in Nat
  BY DEF Mind, ListIInv, TypeOK
<1>3. PICK id \in Nat : id = remoteId[e][c]
  BY <1>2
<1> DEFINE m == Message("Data", id, 0, c)
<1>4. m \in Messages /\ m.type = "Data" /\ m.id = id /\ m.of = c
  BY MessageFacts
<1>5. Encode(e, m)
  BY <1>1, <1>3
<1> HIDE DEF m
<1>6. UNCHANGED <<setting, chans, localId, remoteId, closed, opening, replies,
                  incoming, accepted, loop, serving, err, connClosed, sentClose>>
  BY DEF WriteData, ids, link
<1>7. SameKnown
  BY <1>6, KeepKnowing DEF Mind
<1>8. Joined(e, c)'
  BY <1>1, <1>6, <1>7, SameJoined
<1>9. Sendable(e, m)'
  BY <1>4, <1>8 DEF Sendable
<1>10. ~connClosed[e] /\ ~connClosed[Other(e)] => Allowed(e, m)
  BY <1>4, <1>1, <1>3, <1>9, MayWrite
<1>11. \A x \in Ends : Moves(x)
  BY <1>4, <1>10, <1>5, EncodeMoves DEF Mind
<1> QED  BY <1>6, <1>11, UseStep

(* Open is refused under the number that the opener still has it under. *)
LEMMA RefuseOpenRoute ==
    ASSUME Mind, ListIInv', NEW e \in Ends, RefuseOpen(e)
    PROVE  RouteInv'
<1> DEFINE o == Other(e)
<1>1. /\ wire[o] # <<>> /\ NextMessage(e).type = "Open"
      /\ Consume(e, <<Message("OpenFailure", NextMessage(e).sender, 0,
                              NextMessage(e).of)>>)
  BY DEF RefuseOpen, Incoming
<1>2. /\ NextMessage(e) = wire[o][1] /\ 1 \in 1 .. Len(wire[o])
      /\ NextMessage(e).sender \in Nat /\ NextMessage(e).of \in Channels
  BY <1>1, NextFacts DEF Mind
<1>3. PICK c \in Channels : c = NextMessage(e).of
  BY <1>2
<1>4. PICK id \in Nat : id = NextMessage(e).sender
  BY <1>2
<1> DEFINE m == Message("OpenFailure", id, 0, c)
<1>5. m \in Messages /\ m.type = "OpenFailure" /\ m.id = id /\ m.of = c
  BY MessageFacts
<1>6. Consume(e, <<m>>)
  BY <1>1, <1>3, <1>4
<1> HIDE DEF m
<1>7. o \in Ends /\ Other(o) = e /\ o # e
  BY OtherEnds
<1>8. WireTypes(o) /\ Senders(o) /\ Senders(e) /\ OpenInv(c) /\ OpenReachable(c)
  BY <1>7 DEF Mind, ListIInv, RouteInv
<1>9. /\ Opener(c) = o /\ id = localId[o][c]
      /\ Sent(wire[o], "Open", c)
  BY <1>1, <1>2, <1>3, <1>4, <1>8 DEF WireTypes, Senders, Sendable, Sent
<1>10. ~Known(e, c) /\ ~Joined(e, c)
  BY <1>7, <1>8, <1>9 DEF OpenInv, Joined
<1>11. err[o] = "none" => Reaches(o, m)
  BY <1>5, <1>8, <1>9 DEF OpenReachable, Reaches
<1>12. \A i \in 1 .. Len(wire[e]) : wire[e][i].type = "Close" => wire[e][i].of # c
  BY <1>8, <1>10 DEF Senders, Sendable
<1>13. ~Closing(o, c)
  <2>1. ClosingInv(o, c) /\ NumbersAgree(c)
    BY <1>7 DEF Mind, RouteInv
  <2> QED  BY <1>7, <1>9, <1>10, <2>1 DEF ClosingInv, NumbersAgree
<1>14. ~Sent(wire'[o], "Open", c)
  <2>1. wire'[o] = Tail(wire[o]) /\ wire[o] \in Seq(Messages)
    BY <1>1, <1>5, <1>6, <1>7, ConsumeShape, Typed DEF Mind
  <2>2. Once(wire[o], "Open", c)
    BY <1>8, <1>9 DEF OpenInv
  <2> QED  BY <1>1, <1>2, <1>3, <2>1, <2>2, OnceTail
<1>15. Allowed(e, m)
  BY <1>5, <1>7, <1>9, <1>11, <1>12, <1>13, <1>14 DEF Allowed, Sendable
<1>16. \A x \in Ends : Moves(x)
  BY <1>1, <1>5, <1>6, <1>15, ConsumeMoves DEF Mind
<1> QED  BY <1>16, UseStep DEF RefuseOpen, ids, app, link

-----------------------------------------------------------------------------
(* Open and Accept *)

LEMMA OpeningStep ==
    ASSUME Mind, ListIInv',
           UNCHANGED <<setting, chans, localId, remoteId, sentClose, closed,
                       incoming, accepted, loop, serving, err, connClosed>>,
           SameKnown,
           \A d \in Channels :
              /\ Joined(Opener(d), d)' <=> Joined(Opener(d), d)
              /\ opening'[d] \in {"none", "encode"} => opening'[d] = opening[d]
              /\ opening'[d] = "failed" =>
                    opening[d] = "failed" \/ ~Acceptable(d)
                       \/ connClosed[Opener(d)] \/ err[Opener(d)] # "none",
           \A x \in Ends : Moves(x)
    PROVE  RouteInv'
<1>1. \A x \in Ends, d \in Channels : Joined(x, d)' <=> Joined(x, d)
  <2> SUFFICES ASSUME NEW x \in Ends, NEW d \in Channels
               PROVE  Joined(x, d)' <=> Joined(x, d)
    OBVIOUS
  <2>1. CASE Opener(d) = x
    BY <2>1
  <2>2. CASE Opener(d) # x
    BY <2>2 DEF Joined, SameKnown
  <2> QED  BY <2>1, <2>2
<1>2. Moving
  BY <1>1 DEF Moving, Steady
<1>3. SameLists
  BY KeepLists
<1>4. Addressed
  BY <1>3 DEF Addressed, SameLists
<1>5. \A x \in Ends, d \in Channels :
         /\ Opening(x, d)' <=> Opening(x, d)
         /\ Closing(x, d)' <=> Closing(x, d)
  BY DEF Opening, Closing
<1>6. \A d \in Channels :
         Known(Other(Opener(d)), d)' /\ ~Opening(Other(Opener(d)), d)' => Confirmed(d)
  BY <1>5, ChannelFacts, OtherEnds DEF SameKnown, Confirmed
<1>7. \A d \in Channels : NumbersAgree(d)'
  BY <1>1, KeepNumbers
<1>8. \A x \in Ends, d \in Channels : NotYetUsed(x, d)'
  BY KeepNotYetUsed DEF SameKnown
<1> QED  BY <1>2, <1>4, <1>5, <1>6, <1>7, <1>8, RouteTogether, ChannelFacts

LEMMA SendOpenRoute ==
    ASSUME Mind, ListIInv', NEW c \in Channels, SendOpen(c)
    PROVE  RouteInv'
<1> DEFINE e == Opener(c)
           o == Other(e)
<1>1. /\ e \in Ends /\ o \in Ends /\ Other(o) = e /\ o # e /\ opening[c] = "encode"
      /\ Encode(e, Message("Open", 0, localId[e][c], c))
      /\ opening' = [opening EXCEPT ![c] = IF connClosed[e] THEN "failed" ELSE "wait"]
  BY ChannelFacts, OtherEnds DEF SendOpen
<1>2. UNCHANGED <<setting, chans, localId, remoteId, sentClose, closed, replies,
                  incoming, accepted, loop, serving, err, connClosed>>
  BY DEF SendOpen, ids, app, link
<1>3. PICK sender \in Nat : sender = localId[e][c]
  BY <1>1, Typed DEF Mind
<1> DEFINE m == Message("Open", 0, sender, c)
<1>4. m \in Messages /\ m.type = "Open" /\ m.of = c /\ m.sender = sender
  BY MessageFacts
<1>5. Encode(e, m)
  BY <1>1, <1>3
<1> HIDE DEF m
<1>6. /\ opening'[c] \in {"wait", "failed"}
      /\ opening'[c] = "failed" => connClosed[e]
      /\ \A d \in Channels : d # c => opening'[d] = opening[d]
  BY <1>1 DEF Mind, ListIInv, TypeOK
<1>7. SameKnown
  <2> SUFFICES ASSUME NEW x \in Ends, NEW d \in Channels
               PROVE  Known(x, d)' <=> Known(x, d)
    BY DEF SameKnown
  <2>1. Queued(x, d)' <=> Queued(x, d)
    BY <1>2 DEF Queued
  <2> QED  BY <1>1, <1>2, <1>6, <2>1 DEF Known
<1>8. \A d \in Channels : Joined(Opener(d), d)' <=> Joined(Opener(d), d)
  BY <1>1, <1>2, <1>6 DEF Joined, Reply
<1>9. Allowed(e, m)
  <2>1. Senders(e) /\ OpenInv(c) /\ NumbersAgree(c)
    BY <1>1 DEF Mind, RouteInv, ListIInv
  <2>2. ~Joined(e, c)
    BY <1>1, <2>1 DEF OpenInv, NumbersAgree
  <2>3. \A i \in 1 .. Len(wire[e]) : wire[e][i].type = "Close" => wire[e][i].of # c
    BY <2>1, <2>2 DEF Senders, Sendable
  <2>4. Sendable(e, m)' /\ Reaches(o, m)
    BY <1>2, <1>3, <1>4 DEF Sendable, Reaches
  <2> QED  BY <1>1, <1>4, <2>3, <2>4 DEF Allowed
<1>10. \A x \in Ends : Moves(x)
  BY <1>1, <1>4, <1>5, <1>9, EncodeMoves DEF Mind
<1> QED  BY <1>1, <1>2, <1>6, <1>7, <1>8, <1>10, OpeningStep

LEMMA OpenReturnRoute ==
    ASSUME Mind, ListIInv', NEW c \in Channels, OpenReturn(c)
    PROVE  RouteInv'
<1> DEFINE e == Opener(c)
<1>1. e \in Ends /\ opening[c] = "wait" /\ UNCHANGED wire
  BY ChannelFacts DEF OpenReturn
<1>2. UNCHANGED <<setting, chans, localId, remoteId, sentClose, closed,
                  incoming, accepted, loop, serving, err, connClosed>>
  BY DEF OpenReturn, ids, app, link
<1>3. /\ \A d \in Channels : d # c => replies'[d] = replies[d] /\ opening'[d] = opening[d]
      /\ replies[c] = <<>> => replies'[c] = <<>>
      /\ \A answer : Reply(c, answer)' => Reply(c, answer)
      /\ opening'[c] \in {"open", "failed"}
      /\ opening'[c] = "open" => Reply(c, "OpenConfirm")
      /\ opening'[c] = "failed" =>
            Reply(c, "OpenFailure") \/ (closed[e][c] /\ replies[c] = <<>>)
      /\ SameKnown
  BY OpenReturnFacts DEF Mind
<1>4. replies[c] = <<>> => ~Reply(c, "OpenConfirm")
  BY DEF Reply
<1>5. AnswerInv(c) /\ EndedByBoth(e, c)
  BY <1>1 DEF Mind, ListIInv, RouteInv
<1>6. Reply(c, "OpenConfirm") => opening'[c] = "open"
  BY <1>3, <1>4, <1>5 DEF AnswerInv
<1>7. Joined(e, c)' <=> Joined(e, c)
  BY <1>1, <1>3, <1>6 DEF Joined
<1>8. opening'[c] = "failed" => ~Acceptable(c) \/ err[e] # "none"
  BY <1>1, <1>3, <1>4, <1>5 DEF AnswerInv, EndedByBoth, Joined
<1>9. \A d \in Channels : Joined(Opener(d), d)' <=> Joined(Opener(d), d)
  <2> SUFFICES ASSUME NEW d \in Channels, d # c
               PROVE  Joined(Opener(d), d)' <=> Joined(Opener(d), d)
    BY <1>7
  <2> QED  BY <1>3 DEF Joined, Reply
<1>10. \A x \in Ends : Moves(x)
  BY <1>1 DEF Moves
<1>11. \A d \in Channels :
          /\ opening'[d] \in {"none", "encode"} => opening'[d] = opening[d]
          /\ opening'[d] = "failed" =>
                opening[d] = "failed" \/ ~Acceptable(d)
                   \/ connClosed[Opener(d)] \/ err[Opener(d)] # "none"
  BY <1>3, <1>8
<1> QED  BY <1>2, <1>3, <1>9, <1>10, <1>11, OpeningStep

LEMMA AcceptChannelRoute ==
    ASSUME Mind, ListIInv', NEW e \in Ends, AcceptChannel(e)
    PROVE  RouteInv'
<1>1. UNCHANGED <<setting, chans, localId, remoteId, sentClose, closed, opening,
                  replies, loop, serving, err, connClosed, wire>>
  BY DEF AcceptChannel, ids, link
<1>2. /\ SameKnown
      /\ \A x \in Ends, d \in Channels :
            d \in accepted'[x] \/ Queued(x, d)' <=> d \in accepted[x] \/ Queued(x, d)
  BY AcceptKnown DEF Mind
<1>3. \A x \in Ends, d \in Channels : Joined(x, d)' <=> Joined(x, d)
  BY <1>1, <1>2, SameJoined
<1>4. Moving
  BY <1>1, <1>3 DEF Moving, Steady, Moves
<1>5. SameLists
  BY <1>1, KeepLists
<1>6. Addressed
  BY <1>1, <1>5 DEF Addressed, SameLists
<1>7. \A x \in Ends, d \in Channels :
         /\ Opening(x, d)' <=> Opening(x, d)
         /\ Closing(x, d)' <=> Closing(x, d)
  BY <1>1 DEF Opening, Closing
<1>8. \A d \in Channels :
         Known(Other(Opener(d)), d)' /\ ~Opening(Other(Opener(d)), d)' => Confirmed(d)
  BY <1>2, <1>7, ChannelFacts, OtherEnds DEF SameKnown, Confirmed
<1>9. \A d \in Channels : NumbersAgree(d)'
  BY <1>1, <1>2, <1>3, KeepNumbers
<1>10. ASSUME NEW x \in Ends, NEW d \in Channels PROVE NotYetUsed(x, d)'
  <2>1. NotYetUsed(x, d)
    BY DEF Mind, RouteInv
  <2>2. Known(x, d)' <=> Known(x, d)
    BY <1>2 DEF SameKnown
  <2> QED  BY <1>1, <1>2, <1>7, <2>1, <2>2 DEF NotYetUsed
<1> QED  BY <1>1, <1>4, <1>6, <1>7, <1>8, <1>9, <1>10, RouteTogether

(* A channel that is being opened is nobody's concern yet. *)
LEMMA OpenCallRoute ==
    ASSUME Mind, ListIInv', NEW e \in Ends, OpenCall(e)
    PROVE  RouteInv'
<1> DEFINE o == Other(e)
<1>1. PICK c \in Channels : Opens(e, c)
  BY OpenCallFacts DEF Mind
<1>2. /\ Opener(c) = e /\ opening[c] = "none" /\ opening'[c] = "encode"
      /\ \A d \in Channels : d # c => opening'[d] = opening[d]
      /\ \A x \in Ends, d \in Channels :
            /\ InList(x, d)' <=> InList(x, d) \/ (x = e /\ d = c)
            /\ Known(x, d)' <=> Known(x, d) \/ (x = e /\ d = c)
            /\ x # e \/ d # c => localId'[x][d] = localId[x][d]
      /\ UNCHANGED <<setting, remoteId, sentClose, closed, replies, incoming, loop,
                     serving, wire, accepted, err, connClosed>>
  BY <1>1 DEF Opens
<1>3. o \in Ends /\ Other(o) = e /\ o # e
  BY OtherEnds
<1>4. ~Known(o, c) /\ ~Joined(o, c) /\ ~Joined(e, c)
  <2>1. OpenInv(c) /\ NumbersAgree(c)
    BY DEF Mind, ListIInv, RouteInv
  <2> QED  BY <1>2, <1>3, <2>1 DEF OpenInv, NumbersAgree, Joined
<1>5. \A x \in Ends, d \in Channels : Joined(x, d)' <=> Joined(x, d)
  <2> SUFFICES ASSUME NEW x \in Ends, NEW d \in Channels
               PROVE  Joined(x, d)' <=> Joined(x, d)
    OBVIOUS
  <2>1. Reply(d, "OpenConfirm")' <=> Reply(d, "OpenConfirm")
    BY <1>2 DEF Reply
  <2>2. CASE d = c /\ x = e
    BY <1>2, <1>4, <2>1, <2>2 DEF Joined
  <2>3. CASE d = c /\ x # e
    BY <1>2, <2>3 DEF Joined
  <2>4. CASE d # c
    BY <1>2, <2>1, <2>4 DEF Joined
  <2> QED  BY <2>2, <2>3, <2>4
<1>6. Moving
  BY <1>2, <1>5 DEF Moving, Steady, Moves
<1>7. Fresh(e, c)
  <2>1. Senders(o) /\ Senders(e) /\ RefusedOnce(c) /\ OpenInv(c)
    BY <1>3 DEF Mind, ListIInv, RouteInv
  <2>2. Silent(wire[o], c)
    BY <1>2, <1>4, <2>1 DEF Silent, Senders, Sendable, RefusedOnce, Sent
  <2>3. ~Sent(wire[e], "Open", c) /\ ~Sent(wire[e], "OpenConfirm", c)
    BY <1>2, <2>1 DEF OpenInv, Senders, Sendable, Sent
  <2> QED  BY <1>2, <2>2, <2>3 DEF Fresh
<1>8. Addressed
  BY <1>2, <1>7 DEF Addressed
<1>9. \A x \in Ends, d \in Channels :
         /\ Opening(x, d)' <=> Opening(x, d)
         /\ Closing(x, d)' <=> Closing(x, d)
  BY <1>2 DEF Opening, Closing
<1>10. \A d \in Channels :
         Known(Other(Opener(d)), d)' /\ ~Opening(Other(Opener(d)), d)' => Confirmed(d)
  BY <1>2, <1>3, <1>9, ChannelFacts, OtherEnds DEF Confirmed
<1>11. ASSUME NEW d \in Channels PROVE NumbersAgree(d)'
  <2>1. NumbersAgree(d) /\ Opener(d) \in Ends /\ Other(Opener(d)) \in Ends
    BY ChannelFacts, OtherEnds DEF Mind, RouteInv
  <2>2. CASE d = c
    BY <1>2, <1>3, <1>4, <1>5, <2>2 DEF NumbersAgree
  <2>3. CASE d # c
    BY <1>2, <1>5, <2>1, <2>3 DEF NumbersAgree
  <2> QED  BY <2>2, <2>3
<1>12. \A x \in Ends, d \in Channels : NotYetUsed(x, d)'
  BY <1>2, KeepNotYetUsed
<1> QED  BY <1>2, <1>6, <1>8, <1>9, <1>10, <1>11, <1>12, RouteTogether

(* The acceptor takes the opener's number from the Open. *)
LEMMA HandleOpenRoute ==
    ASSUME Mind, ListIInv', NEW e \in Ends, HandleOpen(e)
    PROVE  RouteInv'
<1> DEFINE o == Other(e)
<1>1. PICK c \in Channels : Accepts(e, c)
  BY HandleOpenFacts DEF Mind
<1>2. /\ c = NextMessage(e).of /\ wire[o] # <<>> /\ NextMessage(e).type = "Open"
      /\ Opener(c) = o /\ ~Known(e, c) /\ loop[e] = "reading"
      /\ \A x \in Ends, d \in Channels :
            /\ InList(x, d)' <=> InList(x, d) \/ (x = e /\ d = c)
            /\ Known(x, d)' <=> Known(x, d) \/ (x = e /\ d = c)
            /\ x # e \/ d # c => localId'[x][d] = localId[x][d]
      /\ remoteId' = [remoteId EXCEPT ![e][c] = NextMessage(e).sender]
      /\ loop'[e] = "offering" /\ serving'[e] = c
      /\ \A x \in Ends : x # e => loop'[x] = loop[x] /\ serving'[x] = serving[x]
      /\ wire'[e] = wire[e] /\ wire'[o] = Tail(wire[o])
      /\ UNCHANGED <<setting, sentClose, closed, opening, replies, incoming,
                     accepted, err, connClosed>>
  BY <1>1 DEF Accepts
<1>3. o \in Ends /\ Other(o) = e /\ o # e
  BY OtherEnds
<1>4. NextMessage(e) = wire[o][1] /\ 1 \in 1 .. Len(wire[o])
  BY <1>2, NextFacts DEF Mind
<1>5. ~Joined(e, c) /\ ~Joined(o, c)
  <2>1. NumbersAgree(c)
    BY DEF Mind, RouteInv
  <2> QED  BY <1>2, <1>3, <2>1 DEF NumbersAgree, Joined
<1>6. \A x \in Ends, d \in Channels :
         Joined(x, d)' <=> Joined(x, d) \/ (x = e /\ d = c)
  BY <1>2, <1>3 DEF Joined, Reply
<1>7. Moving
  <2>1. Moves(e)
    BY <1>2 DEF Moves
  <2>2. Moves(o)
    BY <1>2, <1>4 DEF Moves, Taken
  <2>3. \A x \in Ends : Moves(x)
    BY <2>1, <2>2, TwoEnds
  <2> QED  BY <1>2, <1>6, <2>3 DEF Moving, Steady
<1>8. Fresh(e, c)
  <2>1. Senders(o) /\ Senders(e) /\ WireTypes(e)
    BY <1>3 DEF Mind, ListIInv, RouteInv
  <2>2. Silent(wire[o], c)
    BY <1>2, <1>5, <2>1 DEF Silent, Senders, Sendable
  <2>3. wire[o] \in Seq(Messages) /\ wire'[o] \in Seq(Messages)
        /\ Rest(wire[o], wire'[o])
    BY <1>2, <1>3, Typed, TailFacts, RestFacts DEF Mind
  <2>4. Silent(wire'[o], c)
    BY <2>2, <2>3, RestSeq
  <2>5. ~Sent(wire[e], "Open", c) /\ ~Sent(wire[e], "OpenConfirm", c)
    BY <1>2, <1>3, <1>5, <2>1 DEF WireTypes, Senders, Sendable, Sent
  <2> QED  BY <1>2, <2>4, <2>5 DEF Fresh
<1>9. Addressed
  BY <1>2, <1>8 DEF Addressed
<1>10. \A x \in Ends, d \in Channels : Closing(x, d)' => Closing(x, d)
  BY <1>2 DEF Closing
<1>11. \A x \in Ends, d \in Channels :
          Opening(x, d)' <=> Opening(x, d) \/ (x = e /\ d = c)
  BY <1>2 DEF Opening
<1>12. \A d \in Channels :
         Known(Other(Opener(d)), d)' /\ ~Opening(Other(Opener(d)), d)' => Confirmed(d)
  BY <1>2, <1>11, ChannelFacts, OtherEnds DEF Confirmed
<1>13. ASSUME NEW d \in Channels PROVE NumbersAgree(d)'
  <2>1. NumbersAgree(d) /\ Opener(d) \in Ends /\ Other(Opener(d)) \in Ends
    BY ChannelFacts, OtherEnds DEF Mind, RouteInv
  <2>2. remoteId \in [Ends -> [Channels -> Nat]]
    BY DEF Mind, ListIInv, TypeOK
  <2>3. CASE d = c
    <3>1. NextMessage(e).sender = localId[o][c]
      <4>1. Senders(o)
        BY <1>3 DEF Mind, RouteInv
      <4> QED  BY <1>2, <1>4, <4>1 DEF Senders, Sendable
    <3>2. remoteId'[e][c] = localId'[o][c]
      BY <1>2, <1>3, <2>2, <3>1
    <3> QED  BY <1>2, <1>3, <1>5, <1>6, <2>3, <3>2 DEF NumbersAgree
  <2>4. CASE d # c
    <3>1. \A x \in Ends : remoteId'[x][d] = remoteId[x][d]
      BY <1>2, <2>2, <2>4
    <3> QED  BY <1>2, <1>6, <2>1, <2>4, <3>1 DEF NumbersAgree
  <2> QED  BY <2>3, <2>4
<1>14. ASSUME NEW x \in Ends, NEW d \in Channels PROVE NotYetUsed(x, d)'
  <2>1. NotYetUsed(x, d) /\ (Queued(x, d)' <=> Queued(x, d))
    BY <1>2 DEF Mind, RouteInv, Queued
  <2>2. CASE x = e /\ d = c
    <3>1. d \notin accepted[x] /\ ~Queued(x, d)
      BY <1>2, <1>3, <2>2 DEF Known
    <3> QED  BY <1>2, <2>1, <2>2, <3>1 DEF NotYetUsed
  <2>3. CASE x = e /\ d # c
    BY <1>2, <1>11, <2>1, <2>3 DEF NotYetUsed, Opening
  <2>4. CASE x # e
    BY <1>2, <1>11, <2>1, <2>4 DEF NotYetUsed
  <2> QED  BY <2>2, <2>3, <2>4
<1> QED  BY <1>2, <1>7, <1>9, <1>10, <1>12, <1>13, <1>14, RouteTogether

-----------------------------------------------------------------------------
(* The read loop of one end *)

LEMMA LoopRoute ==
    ASSUME Mind, ListIInv', NEW e \in Ends,
           UNCHANGED <<setting, localId, remoteId, opening, replies, accepted, incoming>>,
           SameKnown,
           \A x \in Ends : x # e => /\ loop'[x] = loop[x] /\ serving'[x] = serving[x]
                                    /\ err'[x] = err[x],
           err[e] # "none" => err'[e] # "none", err'[e] \notin {"invalid", "response"},
           \A x \in Ends : connClosed[x] => connClosed'[x],
           loop'[e] # "offering",
           \A d \in Channels : Opening(e, d)' => Opening(e, d),
           \A x \in Ends, d \in Channels :
              /\ sentClose[x][d] => sentClose'[x][d]
              /\ sentClose'[x][d] =>
                    sentClose[x][d] \/ (x = e /\ Known(x, d) /\ ~Opening(x, d)'),
           \A x \in Ends : Moves(x),
           \A x \in Ends, d \in Channels :
              InList(x, d) => InList(x, d)' \/ err'[x] # "none" \/ Spent(x, d),
           \A d \in Channels :
              Opening(e, d) /\ ~Opening(e, d)' =>
                 \/ Sent(wire'[e], "OpenConfirm", d)
                 \/ connClosed'[e] \/ connClosed'[Other(e)],
           \A d \in Channels :
              Closing(e, d)' =>
                 \/ Closing(e, d)
                 \/ /\ Joined(e, d) /\ sentClose'[e][d] /\ sentClose'[Other(e)][d]
                    /\ Silent(wire'[Other(e)], d),
           \A x \in Ends, d \in Channels :
              closed'[x][d] =>
                 \/ closed[x][d] \/ err'[x] # "none"
                 \/ Joined(x, d) /\ sentClose[Other(x)][d]
    PROVE  RouteInv'
<1>1. \A x \in Ends, d \in Channels : Joined(x, d)' <=> Joined(x, d)
  BY SameJoined
<1>2. Moving
  BY <1>1 DEF Moving, Steady
<1>3. Addressed
  BY DEF Addressed
<1>4. \A x \in Ends, d \in Channels :
         x # e => /\ Opening(x, d)' <=> Opening(x, d)
                  /\ Closing(x, d)' <=> Closing(x, d)
  BY DEF Opening, Closing
<1>5. \A x \in Ends, d \in Channels :
         Closing(x, d)' =>
            \/ Closing(x, d)
            \/ /\ Joined(x, d)' /\ sentClose'[x][d] /\ sentClose'[Other(x)][d]
               /\ Silent(wire'[Other(x)], d)
  BY <1>1, <1>4
<1>6. ASSUME NEW d \in Channels,
             Known(Other(Opener(d)), d)' /\ ~Opening(Other(Opener(d)), d)'
      PROVE  Confirmed(d)
  <2> DEFINE a == Other(Opener(d))
  <2>1. a \in Ends /\ Other(a) = Opener(d)
    BY ChannelFacts, OtherEnds
  <2>2. Known(a, d)
    BY <1>6, <2>1 DEF SameKnown
  <2>3. CASE Opening(a, d)
    <3>1. a = e
      BY <1>4, <1>6, <2>1, <2>3
    <3> QED  BY <1>6, <2>1, <2>3, <3>1 DEF Confirmed
  <2>4. CASE ~Opening(a, d)
    BY <2>2, <2>4 DEF Confirmed
  <2> QED  BY <2>3, <2>4
<1>7. \A d \in Channels : NumbersAgree(d)'
  BY <1>1, KeepNumbers
<1>8. ASSUME NEW x \in Ends, NEW d \in Channels PROVE NotYetUsed(x, d)'
  <2>1. /\ NotYetUsed(x, d) /\ (Known(x, d)' <=> Known(x, d))
        /\ Queued(x, d)' <=> Queued(x, d)
    BY DEF Mind, RouteInv, SameKnown, Queued
  <2>2. CASE x = e
    BY <2>1, <2>2 DEF NotYetUsed
  <2>3. CASE x # e
    BY <1>4, <2>1, <2>3 DEF NotYetUsed
  <2> QED  BY <2>2, <2>3
<1>9. \A x \in Ends : err'[x] \in {"invalid", "response"} => err'[x] = err[x]
  OBVIOUS
<1> QED  BY <1>2, <1>3, <1>5, <1>6, <1>7, <1>8, <1>9, RouteTogether

LEMMA ReportRoute ==
    ASSUME Mind, ListIInv', NEW e \in Ends, Report(e)
    PROVE  RouteInv'
<1>1. /\ loop[e] = "reporting" /\ loop' = [loop EXCEPT ![e] = "done"]
      /\ UNCHANGED <<setting, chans, localId, remoteId, sentClose, closed, opening,
                     replies, incoming, accepted, serving, err, connClosed, wire>>
  BY DEF Report, ids, app, link
<1>2. loop'[e] = "done" /\ \A x \in Ends : x # e => loop'[x] = loop[x]
  BY <1>1 DEF Mind, ListIInv, TypeOK
<1>3. SameKnown
  BY <1>1, <1>2, KeepKnowing DEF Mind
<1>4. SameLists
  BY <1>1, KeepLists
<1>5. err[e] \notin {"invalid", "response"}
  BY DEF Mind, RouteInv, NoStray
<1>6. \A x \in Ends : Moves(x)
  BY <1>1 DEF Moves
<1>7. \A d \in Channels :
         ~Opening(e, d) /\ ~Opening(e, d)' /\ ~Closing(e, d)'
  BY <1>1, <1>2 DEF Opening, Closing
<1> QED  BY <1>1, <1>2, <1>3, <1>4, <1>5, <1>6, <1>7, LoopRoute DEF SameLists

LEMMA ShutConnRoute ==
    ASSUME Mind, ListIInv', NEW e \in Ends, ShutConn(e)
    PROVE  RouteInv'
<1>1. /\ loop[e] = "dropping" /\ loop' = [loop EXCEPT ![e] = "reporting"]
      /\ CloseConn(e)
      /\ UNCHANGED <<setting, chans, localId, remoteId, sentClose, closed, opening,
                     replies, incoming, accepted, serving, err>>
  BY DEF ShutConn, ids, app
<1>2. loop'[e] = "reporting" /\ \A x \in Ends : x # e => loop'[x] = loop[x]
  BY <1>1 DEF Mind, ListIInv, TypeOK
<1>3. SameKnown
  BY <1>1, <1>2, KeepKnowing DEF Mind
<1>4. SameLists
  BY <1>1, KeepLists
<1>5. err[e] \notin {"invalid", "response"}
  BY DEF Mind, RouteInv, NoStray
<1>6. /\ \A x \in Ends : Moves(x)
      /\ \A x \in Ends : connClosed[x] => connClosed'[x]
  BY <1>1, CloseConnMoves DEF Mind
<1>7. \A d \in Channels :
         ~Opening(e, d) /\ ~Opening(e, d)' /\ ~Closing(e, d)'
  BY <1>1, <1>2 DEF Opening, Closing
<1> QED  BY <1>1, <1>2, <1>3, <1>4, <1>5, <1>6, <1>7, LoopRoute DEF SameLists

LEMMA ConnErrorRoute ==
    ASSUME Mind, ListIInv', NEW e \in Ends, ConnError(e)
    PROVE  RouteInv'
<1>1. /\ loop[e] = "reading" /\ Fail(e, "conn")
      /\ UNCHANGED <<setting, chans, localId, remoteId, sentClose, closed, opening,
                     replies, incoming, accepted, serving, connClosed, wire>>
  BY DEF ConnError, ids, app
<1>2. /\ loop'[e] = "failed" /\ err'[e] = "conn"
      /\ \A x \in Ends : x # e => loop'[x] = loop[x] /\ err'[x] = err[x]
  BY <1>1 DEF Mind, ListIInv, TypeOK, Fail
<1>3. SameKnown
  BY <1>1, <1>2, KeepKnowing DEF Mind
<1>4. SameLists
  BY <1>1, KeepLists
<1>5. \A x \in Ends : Moves(x)
  BY <1>1 DEF Moves
<1>6. \A d \in Channels :
         ~Opening(e, d) /\ ~Opening(e, d)' /\ ~Closing(e, d)'
  BY <1>1, <1>2 DEF Opening, Closing
<1> QED  BY <1>1, <1>2, <1>3, <1>4, <1>5, <1>6, LoopRoute DEF SameLists

LEMMA DropAllRoute ==
    ASSUME Mind, ListIInv', NEW e \in Ends, DropAll(e)
    PROVE  RouteInv'
<1>1. /\ loop[e] = "failed" /\ loop' = [loop EXCEPT ![e] = "dropping"]
      /\ chans' = [chans EXCEPT ![e] = <<>>]
      /\ UNCHANGED <<setting, localId, remoteId, sentClose, closed, opening,
                     replies, incoming, accepted, serving, err, connClosed, wire>>
  BY DEF DropAll, ids, app, link
<1>2. /\ loop'[e] = "dropping"
      /\ \A x \in Ends : x # e => loop'[x] = loop[x] /\ chans'[x] = chans[x]
  BY <1>1 DEF Mind, ListIInv, TypeOK
<1>3. SameKnown
  BY <1>1, <1>2, KeepKnowing DEF Mind
<1>4. err[e] # "none" /\ err[e] \notin {"invalid", "response"}
  BY <1>1 DEF Mind, ListIInv, LoopErr, RouteInv, NoStray
<1>5. \A x \in Ends, d \in Channels :
         InList(x, d) => InList(x, d)' \/ err'[x] # "none"
  BY <1>1, <1>2, <1>4 DEF InList
<1>6. \A x \in Ends : Moves(x)
  BY <1>1 DEF Moves
<1>7. \A d \in Channels :
         ~Opening(e, d) /\ ~Opening(e, d)' /\ ~Closing(e, d)'
  BY <1>1, <1>2 DEF Opening, Closing
<1> QED  BY <1>1, <1>2, <1>3, <1>4, <1>5, <1>6, <1>7, LoopRoute

LEMMA FinishDroppedRoute ==
    ASSUME Mind, ListIInv', NEW e \in Ends, FinishDropped(e)
    PROVE  RouteInv'
<1>1. /\ loop[e] = "dropping"
      /\ UNCHANGED <<setting, chans, localId, remoteId, opening, replies, incoming,
                     accepted, serving, connClosed, wire>>
  BY DEF FinishDropped, ids, app
<1>2. PICK c \in doomed[e] : Finish(e, c)
  BY DEF FinishDropped
<1>3. c \in Channels /\ ~closed[e][c] /\ Known(e, c) /\ err[e] # "none"
  <2>1. doomed[e] \subseteq Channels
    BY DEF Mind, ListIInv, TypeOK
  <2>2. ClosedInv(e) /\ KnownInv(e) /\ LoopErr(e)
    BY DEF Mind, ListIInv
  <2> QED  BY <1>1, <1>2, <2>1, <2>2 DEF ClosedInv, KnownInv, LoopErr
<1>4. /\ UNCHANGED err
      /\ \A d \in Channels : d # c => closed'[e][d] = closed[e][d]
      /\ \A x \in Ends : x # e => closed'[x] = closed[x] /\ loop'[x] = loop[x]
      /\ loop'[e] = "dropping"
  BY <1>1, <1>2, <1>3, FinishFacts DEF Mind
<1>5. sentClose' = [sentClose EXCEPT ![e][c] = TRUE]
  BY <1>2, <1>3 DEF Finish
<1>6. \A x \in Ends, d \in Channels :
         /\ sentClose[x][d] => sentClose'[x][d]
         /\ sentClose'[x][d] => sentClose[x][d] \/ (x = e /\ d = c)
  <2>1. sentClose \in [Ends -> [Channels -> BOOLEAN]]
    BY DEF Mind, ListIInv, TypeOK
  <2>2. \A x \in Ends : x # e => sentClose'[x] = sentClose[x]
    BY <1>5, <2>1
  <2>3. \A d \in Channels :
           /\ d # c => sentClose'[e][d] = sentClose[e][d]
           /\ sentClose[e][d] => sentClose'[e][d]
    BY <1>3, <1>5, <2>1
  <2> QED  BY <2>2, <2>3
<1>7. SameKnown
  BY <1>1, <1>4, KeepKnowing DEF Mind
<1>8. SameLists
  BY <1>1, KeepLists
<1>9. err[e] \notin {"invalid", "response"}
  BY DEF Mind, RouteInv, NoStray
<1>10. \A x \in Ends : Moves(x)
  BY <1>1 DEF Moves
<1>11. \A d \in Channels :
         ~Opening(e, d) /\ ~Opening(e, d)' /\ ~Closing(e, d)'
  BY <1>1, <1>4 DEF Opening, Closing
<1>12. \A x \in Ends, d \in Channels : closed'[x][d] => closed[x][d] \/ err'[x] # "none"
  BY <1>3, <1>4
<1>13. \A x \in Ends, d \in Channels :
          sentClose'[x][d] =>
             sentClose[x][d] \/ (x = e /\ Known(x, d) /\ ~Opening(x, d)')
  BY <1>3, <1>6, <1>11
<1> QED  BY <1>1, <1>4, <1>6, <1>7, <1>8, <1>9, <1>10, <1>11, <1>12, <1>13, LoopRoute
         DEF SameLists

(* A number is given up when nothing more is on its way to it. *)
LEMMA RemoveChannelRoute ==
    ASSUME Mind, ListIInv', NEW e \in Ends, RemoveChannel(e)
    PROVE  RouteInv'
<1> DEFINE o == Other(e)
<1>1. PICK c \in Channels : c = serving[e] /\ InList(e, c) /\ loop[e] = "removing"
  BY DEF RemoveChannel, Mind, ListIInv, ServingInv
<1>2. /\ chans' = [chans EXCEPT ![e] = Removed(@, localId[e][c])]
      /\ loop' = [loop EXCEPT ![e] = "closing"]
      /\ UNCHANGED <<setting, localId, remoteId, sentClose, closed, opening, replies,
                     incoming, accepted, serving, err, connClosed, wire>>
  BY <1>1 DEF RemoveChannel, ids, app, link
<1>3. loop'[e] = "closing" /\ \A x \in Ends : x # e => loop'[x] = loop[x]
  BY <1>2 DEF Mind, ListIInv, TypeOK
<1>4. SameKnown
  BY <1>1, <1>2, <1>3, KeepKnowing DEF Mind
<1>5. \A x \in Ends, d \in Channels : InList(x, d)' <=> InList(x, d) /\ ~(x = e /\ d = c)
  BY <1>1, <1>2, RemoveList DEF Mind
<1>6. Joined(e, c) /\ Silent(wire[o], c)
  BY <1>1 DEF Mind, RouteInv, ClosingInv, Closing
<1>7. Opener(c) = e => opening[c] # "encode" /\ ~Sent(wire[e], "Open", c)
  BY <1>6 DEF Mind, RouteInv, NumbersAgree, ListIInv, OpenInv
<1>8. Spent(e, c)
  BY <1>2, <1>6, <1>7 DEF Spent
<1>9. err[e] \notin {"invalid", "response"}
  BY DEF Mind, RouteInv, NoStray
<1>10. \A x \in Ends : Moves(x)
  BY <1>2 DEF Moves
<1>11. \A d \in Channels :
         /\ ~Opening(e, d) /\ ~Opening(e, d)'
         /\ Closing(e, d)' => Closing(e, d)
  BY <1>1, <1>2, <1>3 DEF Opening, Closing
<1> QED  BY <1>2, <1>3, <1>4, <1>5, <1>8, <1>9, <1>10, <1>11, LoopRoute

LEMMA FinishChannelRoute ==
    ASSUME Mind, ListIInv', NEW e \in Ends, FinishChannel(e)
    PROVE  RouteInv'
<1> DEFINE o == Other(e)
<1>1. PICK c \in Channels : c = serving[e] /\ ~closed[e][c] /\ loop[e] = "closing"
  BY DEF FinishChannel, Mind, ListIInv, ServingInv
<1>2. /\ Finish(e, c)
      /\ serving' = [serving EXCEPT ![e] = Nil]
      /\ UNCHANGED <<setting, chans, localId, remoteId, opening, replies, incoming,
                     accepted, connClosed, wire>>
  BY <1>1 DEF FinishChannel, ids, app
<1>3. /\ UNCHANGED err
      /\ \A d \in Channels : d # c => closed'[e][d] = closed[e][d]
      /\ \A x \in Ends : x # e => closed'[x] = closed[x] /\ loop'[x] = loop[x]
      /\ loop'[e] = IF err[e] = "none" THEN "reading" ELSE loop[e]
  BY <1>1, <1>2, FinishFacts DEF Mind
<1>4. serving'[e] = Nil /\ \A x \in Ends : x # e => serving'[x] = serving[x]
  BY <1>2 DEF Mind, ListIInv, TypeOK
<1>5. Joined(e, c) /\ sentClose[e][c] /\ sentClose[o][c]
  BY <1>1 DEF Mind, RouteInv, ClosingInv, Closing
<1>6. \A x \in Ends, d \in Channels : sentClose'[x][d] = sentClose[x][d]
  <2>1. sentClose' = [sentClose EXCEPT ![e][c] = TRUE]
    BY <1>1, <1>2 DEF Finish
  <2>2. sentClose \in [Ends -> [Channels -> BOOLEAN]]
    BY DEF Mind, ListIInv, TypeOK
  <2>3. \A x \in Ends : x # e => sentClose'[x] = sentClose[x]
    BY <2>1, <2>2
  <2>4. sentClose'[e][c] /\ \A d \in Channels : d # c => sentClose'[e][d] = sentClose[e][d]
    BY <2>1, <2>2
  <2>5. sentClose'[e][c] = sentClose[e][c]
    BY <1>5, <2>1, <2>2
  <2> QED  BY <2>3, <2>4, <2>5
<1>7. loop'[e] # "offering"
  BY <1>1, <1>3
<1>8. SameKnown
  BY <1>1, <1>2, <1>3, <1>4, <1>7, KeepKnowing DEF Mind
<1>9. SameLists
  BY <1>2, KeepLists
<1>10. err[e] \notin {"invalid", "response"}
  BY DEF Mind, RouteInv, NoStray
<1>11. \A x \in Ends : Moves(x)
  BY <1>2 DEF Moves
<1>12. \A d \in Channels : ~Opening(e, d) /\ ~Opening(e, d)' /\ ~Closing(e, d)'
  BY <1>1, <1>4, ChannelFacts DEF Opening, Closing
<1>13. \A x \in Ends, d \in Channels :
          closed'[x][d] => closed[x][d] \/ (Joined(x, d) /\ sentClose[Other(x)][d])
  BY <1>3, <1>5
<1> QED  BY <1>2, <1>3, <1>4, <1>6, <1>7, <1>8, <1>9, <1>10, <1>11, <1>12, <1>13, LoopRoute
         DEF SameLists

(* What the loop reads from the connection finds its channel. *)
LEMMA Finds ==
    ASSUME Mind, NEW e \in Ends, loop[e] = "reading", wire[Other(e)] # <<>>,
           NextMessage(e).type # "Open"
    PROVE  /\ NextMessage(e).of \in Channels /\ Target(e) = NextMessage(e).of
           /\ InList(e, NextMessage(e).of) /\ Known(e, NextMessage(e).of)
           /\ NextMessage(e).id = localId[e][NextMessage(e).of]
           /\ Sendable(Other(e), NextMessage(e))
           /\ err[e] = "none" /\ NextMessage(e) = wire[Other(e)][1]
           /\ 1 \in 1 .. Len(wire[Other(e)])
<1> DEFINE m == NextMessage(e)
<1>1. /\ m = wire[Other(e)][1] /\ 1 \in 1 .. Len(wire[Other(e)])
      /\ m.of \in Channels /\ m.id \in Nat
  BY NextFacts DEF Mind
<1>2. err[e] = "none" /\ \A c \in Channels : InList(e, c) => Known(e, c)
  BY ReadingFacts DEF Mind
<1>3. InList(e, m.of) /\ m.id = localId[e][m.of]
  <2>1. Delivered(e)
    BY DEF Mind, RouteInv
  <2>2. Reaches(e, m)
    BY <1>1, <1>2, <2>1 DEF Delivered
  <2> QED  BY <2>2 DEF Reaches
<1>4. Target(e) = m.of
  BY <1>1, <1>3, ListedAt DEF Mind, Target
<1>5. Sendable(Other(e), m)
  <2>1. Senders(Other(e))
    BY OtherEnds DEF Mind, RouteInv
  <2> QED  BY <1>1, <2>1 DEF Senders
<1> QED  BY <1>1, <1>2, <1>3, <1>4, <1>5

LEMMA InvalidChannelRoute ==
    ASSUME Mind, ListIInv', NEW e \in Ends, InvalidChannel(e)
    PROVE  RouteInv'
<1>1. /\ loop[e] = "reading" /\ wire[Other(e)] # <<>> /\ NextMessage(e).type # "Open"
      /\ Target(e) = Nil
  BY DEF InvalidChannel, Incoming
<1>2. Target(e) \in Channels
  BY <1>1, Finds
<1> QED  BY <1>1, <1>2, ChannelFacts

(* Close is answered on a channel whose number at the other end is known, and *)
(* nothing follows it.                                                        *)
LEMMA HandleCloseRoute ==
    ASSUME Mind, ListIInv', NEW e \in Ends, HandleClose(e)
    PROVE  RouteInv'
<1> DEFINE o == Other(e)
<1>1. /\ loop[e] = "reading" /\ wire[o] # <<>> /\ NextMessage(e).type = "Close"
      /\ UNCHANGED <<setting, chans, localId, remoteId, closed, opening, replies,
                     incoming, accepted, err, connClosed>>
  BY DEF HandleClose, Incoming, ids, app, link
<1>2. PICK c \in Channels : c = NextMessage(e).of
  BY <1>1, Finds
<1>3. /\ Target(e) = c /\ Known(e, c) /\ err[e] = "none"
      /\ NextMessage(e) = wire[o][1] /\ 1 \in 1 .. Len(wire[o])
      /\ Joined(o, c) /\ sentClose[o][c]
  BY <1>1, <1>2, Finds DEF Sendable
<1>4. /\ Consume(e, Answer(e, c))
      /\ sentClose' = [sentClose EXCEPT ![e][c] = TRUE]
      /\ serving' = [serving EXCEPT ![e] = c]
      /\ loop' = [loop EXCEPT ![e] = "removing"]
  BY <1>3 DEF HandleClose
<1>5. o \in Ends /\ Other(o) = e /\ o # e /\ Opener(c) \in Ends
  BY OtherEnds, ChannelFacts
<1>6. Joined(e, c)
  <2>1. CASE Opener(c) = e
    <3>1. ConfirmFirst(c)
      BY DEF Mind, RouteInv
    <3>2. ~ConfirmedIn(wire[o], c)
      BY <1>1, <1>2, <1>3 DEF ConfirmedIn
    <3> QED  BY <1>3, <2>1, <3>1, <3>2 DEF ConfirmFirst
  <2>2. CASE Opener(c) # e
    BY <1>3, <2>2 DEF Joined
  <2> QED  BY <2>1, <2>2
<1>7. /\ loop'[e] = "removing" /\ serving'[e] = c
      /\ \A x \in Ends : x # e => loop'[x] = loop[x] /\ serving'[x] = serving[x]
  BY <1>4 DEF Mind, ListIInv, TypeOK
<1>8. /\ sentClose'[e][c]
      /\ \A x \in Ends, d \in Channels :
            /\ sentClose[x][d] => sentClose'[x][d]
            /\ sentClose'[x][d] => sentClose[x][d] \/ (x = e /\ d = c)
  <2>1. sentClose \in [Ends -> [Channels -> BOOLEAN]]
    BY DEF Mind, ListIInv, TypeOK
  <2> QED  BY <1>4, <2>1
<1>9. SameKnown
  BY <1>1, <1>7, KeepKnowing DEF Mind
<1>10. \A d \in Channels : ~Opening(e, d) /\ ~Opening(e, d)'
  BY <1>1, <1>7 DEF Opening
<1>11. /\ \A x \in Ends : Moves(x)
       /\ wire'[o] = Tail(wire[o])
  <2>1. CASE Refused(e, c)
    <3>1. Consume(e, <<>>)
      BY <1>4, <2>1 DEF Answer
    <3> QED  BY <1>1, <3>1, ConsumeMoves, ConsumeShape DEF Mind
  <2>2. CASE ~Refused(e, c)
    <3>1. PICK id \in Nat : id = remoteId[e][c]
      BY DEF Mind, ListIInv, TypeOK
    <3> DEFINE m == Message("Close", id, 0, c)
    <3>2. m \in Messages /\ m.type = "Close" /\ m.id = id /\ m.of = c
      BY MessageFacts
    <3>3. Consume(e, <<m>>)
      BY <1>4, <2>2, <3>1 DEF Answer
    <3> HIDE DEF m
    <3>4. Joined(e, c)'
      BY <1>1, <1>6, <1>9, SameJoined
    <3>5. Sendable(e, m)'
      BY <1>8, <3>2, <3>4 DEF Sendable
    <3>6. ~sentClose[e][c]
      BY <2>2 DEF Refused
    <3>7. ~connClosed[e] /\ ~connClosed[o] => Allowed(e, m)
      BY <1>6, <1>10, <3>1, <3>2, <3>5, <3>6, MayWrite
    <3>8. \A d \in Channels :
             NextMessage(e).type = "OpenConfirm" /\ NextMessage(e).of = d =>
                Joined(e, d)' \/ err'[e] # "none"
      BY <1>1
    <3> QED  BY <1>1, <3>2, <3>3, <3>7, <3>8, ConsumeMoves, ConsumeShape DEF Mind
  <2> QED  BY <2>1, <2>2
<1>12. Silent(wire'[o], c)
  <2>1. CloseLast(wire[o])
    BY <1>5 DEF Mind, RouteInv
  <2>2. wire[o] \in Seq(Messages)
    BY <1>5, Typed DEF Mind
  <2>3. \A i \in 1 .. Len(Tail(wire[o])) :
           i + 1 \in 1 .. Len(wire[o]) /\ 1 < i + 1 /\ Tail(wire[o])[i] = wire[o][i + 1]
    BY <1>1, <2>2, TailFacts
  <2> QED  BY <1>1, <1>2, <1>3, <1>11, <2>1, <2>3 DEF CloseLast, Silent
<1>13. \A d \in Channels :
          Closing(e, d)' =>
             /\ Joined(e, d) /\ sentClose'[e][d] /\ sentClose'[o][d]
             /\ Silent(wire'[o], d)
  BY <1>3, <1>5, <1>6, <1>7, <1>8, <1>12 DEF Closing
<1>14. SameLists
  BY <1>1, KeepLists
<1>15. \A x \in Ends, d \in Channels :
          sentClose'[x][d] =>
             sentClose[x][d] \/ (x = e /\ Known(x, d) /\ ~Opening(x, d)')
  BY <1>3, <1>8, <1>10
<1> QED  BY <1>1, <1>3, <1>7, <1>8, <1>9, <1>10, <1>11, <1>13, <1>14, <1>15, LoopRoute
         DEF SameLists

LEMMA OfferRoute ==
    ASSUME Mind, ListIInv', NEW e \in Ends, Offer(e)
    PROVE  RouteInv'
<1>1. /\ loop[e] = "offering"
      /\ UNCHANGED <<setting, chans, localId, remoteId, sentClose, closed, opening,
                     replies, accepted, serving, err, connClosed, wire>>
  BY DEF Offer, ids, app, link
<1>2. /\ loop'[e] = "confirming"
      /\ \A x \in Ends : x # e => incoming'[x] = incoming[x] /\ loop'[x] = loop[x]
      /\ SameKnown
  BY OfferKnown DEF Mind
<1>3. \A x \in Ends, d \in Channels : Joined(x, d)' <=> Joined(x, d)
  BY <1>1, <1>2, SameJoined
<1>4. Moving
  BY <1>1, <1>3 DEF Moving, Steady, Moves
<1>5. SameLists
  BY <1>1, KeepLists
<1>6. Addressed
  BY <1>1, <1>5 DEF Addressed, SameLists
<1>7. \A x \in Ends, d \in Channels :
         /\ Opening(x, d)' <=> Opening(x, d)
         /\ Closing(x, d)' <=> Closing(x, d)
  BY <1>1, <1>2 DEF Opening, Closing
<1>8. \A d \in Channels :
         Known(Other(Opener(d)), d)' /\ ~Opening(Other(Opener(d)), d)' => Confirmed(d)
  BY <1>2, <1>7, ChannelFacts, OtherEnds DEF SameKnown, Confirmed
<1>9. \A d \in Channels : NumbersAgree(d)'
  BY <1>1, <1>2, <1>3, KeepNumbers
<1>10. ASSUME NEW x \in Ends, NEW d \in Channels PROVE NotYetUsed(x, d)'
  <2>1. NotYetUsed(x, d) /\ (Known(x, d)' <=> Known(x, d))
    BY <1>2 DEF Mind, RouteInv, SameKnown
  <2>2. CASE x = e
    BY <1>1, <1>2, <1>7, <2>1, <2>2 DEF NotYetUsed
  <2>3. CASE x # e
    <3>1. Queued(x, d)' <=> Queued(x, d)
      BY <1>2, <2>3 DEF Queued
    <3> QED  BY <1>1, <1>2, <1>7, <2>1, <2>3, <3>1 DEF NotYetUsed
  <2> QED  BY <2>2, <2>3
<1> QED  BY <1>1, <1>4, <1>6, <1>7, <1>8, <1>9, <1>10, RouteTogether

(* The confirmation is the first that the acceptor writes on the channel. *)
LEMMA ConfirmRoute ==
    ASSUME Mind, ListIInv', NEW e \in Ends, Confirm(e)
    PROVE  RouteInv'
<1> DEFINE o == Other(e)
<1>1. PICK c \in Channels : c = serving[e] /\ loop[e] = "confirming" /\ Opener(c) # e
  BY DEF Confirm, Mind, ListIInv, ServingInv
<1>2. /\ Encode(e, Message("OpenConfirm", remoteId[e][c], localId[e][c], c))
      /\ serving' = [serving EXCEPT ![e] = Nil]
      /\ IF connClosed[e] THEN Fail(e, "conn")
         ELSE loop' = [loop EXCEPT ![e] = "reading"] /\ UNCHANGED err
      /\ UNCHANGED <<setting, chans, localId, remoteId, sentClose, closed, opening,
                     replies, incoming, accepted, connClosed>>
  BY <1>1 DEF Confirm, Confirmation, Encode, ids, app
<1>3. o \in Ends /\ Other(o) = e /\ o # e
  BY OtherEnds
<1>4. PICK id \in Nat, sender \in Nat : id = remoteId[e][c] /\ sender = localId[e][c]
  BY DEF Mind, ListIInv, TypeOK
<1> DEFINE m == Message("OpenConfirm", id, sender, c)
<1>5. /\ m \in Messages /\ m.type = "OpenConfirm" /\ m.id = id
      /\ m.sender = sender /\ m.of = c
  BY MessageFacts
<1>6. Encode(e, m)
  BY <1>2, <1>4
<1> HIDE DEF m
<1>7. /\ loop'[e] \in {"failed", "reading"}
      /\ err'[e] \in {err[e], "conn"}
      /\ \A x \in Ends : x # e => loop'[x] = loop[x] /\ err'[x] = err[x]
                                  /\ serving'[x] = serving[x]
      /\ serving'[e] = Nil
  BY <1>2 DEF Mind, ListIInv, TypeOK, Fail
<1>8. err[e] = "none"
  BY <1>1 DEF Mind, ListIInv, LoopErr
<1>9. SameKnown
  BY <1>1, <1>2, <1>7, KeepKnowing DEF Mind
<1>10. Joined(e, c) /\ ~sentClose[e][c]
  <2>1. KnownInv(e) /\ NotYetUsed(e, c)
    BY DEF Mind, ListIInv, RouteInv
  <2> QED  BY <1>1, <2>1 DEF KnownInv, NotYetUsed, Opening, Joined
<1>11. Sendable(e, m)'
  <2>1. Joined(e, c)'
    BY <1>2, <1>9, <1>10, SameJoined
  <2> QED  BY <1>1, <1>2, <1>4, <1>5, <2>1 DEF Sendable
<1>12. ~connClosed[e] /\ ~connClosed[o] => Allowed(e, m)
  BY <1>4, <1>5, <1>10, <1>11, MayWrite
<1>13. \A x \in Ends : Moves(x)
  BY <1>5, <1>6, <1>12, EncodeMoves DEF Mind
<1>14. SameLists
  BY <1>2, KeepLists
<1>15. \A d \in Channels :
          /\ Opening(e, d) => d = c
          /\ ~Opening(e, d)' /\ ~Closing(e, d)'
  BY <1>1, <1>7 DEF Opening, Closing
<1>16. Sent(wire'[e], "OpenConfirm", c) \/ connClosed'[e] \/ connClosed'[o]
  <2>1. wire[e] \in Seq(Messages) /\ Writes(e, m)
    BY <1>5, <1>6, EncodeShape, Typed DEF Mind
  <2>2. Sent(Append(wire[e], m), "OpenConfirm", c)
    BY <1>5, <2>1, AppendKeeps
  <2>3. connClosed[e] \/ connClosed[o] \/ wire'[e] = Append(wire[e], m)
    BY <2>1 DEF Writes
  <2> QED  BY <1>2, <2>2, <2>3
<1> QED
  BY <1>2, <1>7, <1>8, <1>9, <1>13, <1>14, <1>15, <1>16, LoopRoute DEF SameLists

LEMMA HandleConfirmRoute ==
    ASSUME Mind, ListIInv', NEW e \in Ends, HandleConfirm(e)
    PROVE  RouteInv'
<1> DEFINE o == Other(e)
<1>1. /\ loop[e] = "reading" /\ wire[o] # <<>> /\ NextMessage(e).type = "OpenConfirm"
      /\ Consume(e, <<>>)
      /\ UNCHANGED <<setting, chans, localId, sentClose, closed, opening, incoming,
                     serving, connClosed, accepted>>
  BY DEF HandleConfirm, Incoming, app
<1>2. PICK c \in Channels : c = NextMessage(e).of
  BY <1>1, Finds
<1>3. /\ Target(e) = c /\ err[e] = "none"
      /\ Sendable(o, NextMessage(e))
      /\ o \in Ends /\ Other(o) = e /\ o # e
  BY <1>1, <1>2, Finds, OtherEnds
<1>4. Opener(c) = e
  <2>1. Opener(c) # o
    BY <1>1, <1>2, <1>3 DEF Sendable
  <2> QED  BY <2>1, ChannelFacts, TwoEnds
<1>5. CASE o \notin setting.acceptable
  <2>1. Fail(e, "size") /\ UNCHANGED <<remoteId, replies>>
    BY <1>3, <1>4, <1>5 DEF HandleConfirm
  <2>2. /\ loop'[e] = "failed" /\ err'[e] = "size"
        /\ \A x \in Ends : x # e => loop'[x] = loop[x] /\ err'[x] = err[x]
    BY <2>1 DEF Mind, ListIInv, TypeOK, Fail
  <2>3. SameKnown
    BY <1>1, <2>2, KeepKnowing DEF Mind
  <2>4. SameLists
    BY <1>1, KeepLists
  <2>5. \A x \in Ends : Moves(x)
    BY <1>1, <2>2, ConsumeMoves DEF Mind
  <2>6. \A d \in Channels :
           ~Opening(e, d) /\ ~Opening(e, d)' /\ ~Closing(e, d)'
    BY <1>1, <2>2 DEF Opening, Closing
  <2> QED  BY <1>1, <2>1, <2>2, <2>3, <2>4, <2>5, <2>6, LoopRoute DEF SameLists
<1>6. CASE o \in setting.acceptable
  <2>1. /\ remoteId' = [remoteId EXCEPT ![e][c] = NextMessage(e).sender]
        /\ replies' = [replies EXCEPT ![c] = Append(@, "OpenConfirm")]
        /\ UNCHANGED <<loop, err>>
    BY <1>3, <1>4, <1>6 DEF HandleConfirm, Adopted
  <2>2. SameKnown
    BY <1>1, <2>1, KeepKnowing DEF Mind
  <2>3. /\ \A d \in Channels : d # c => replies'[d] = replies[d]
        /\ Reply(c, "OpenConfirm")'
    BY <2>1, AppendReply DEF Mind
  <2>4. \A x \in Ends, d \in Channels :
           Joined(x, d)' <=> Joined(x, d) \/ (x = e /\ d = c)
    <3> SUFFICES ASSUME NEW x \in Ends, NEW d \in Channels
                 PROVE  Joined(x, d)' <=> Joined(x, d) \/ (x = e /\ d = c)
      OBVIOUS
    <3>1. CASE Opener(d) # x
      BY <1>4, <2>2, <3>1 DEF Joined, SameKnown
    <3>2. CASE Opener(d) = x /\ d = c
      BY <1>4, <2>3, <3>2 DEF Joined
    <3>3. CASE Opener(d) = x /\ d # c
      BY <1>1, <2>3, <3>3 DEF Joined, Reply
    <3> QED  BY <3>1, <3>2, <3>3
  <2>5. \A x \in Ends : Moves(x)
    BY <1>1, <1>2, <2>4, ConsumeMoves DEF Mind
  <2>6. Moving
    BY <1>1, <2>1, <2>4, <2>5 DEF Moving, Steady
  <2>7. SameLists
    BY <1>1, KeepLists
  <2>8. Addressed
    BY <1>1, <2>7 DEF Addressed, SameLists
  <2>9. \A x \in Ends, d \in Channels :
           /\ Opening(x, d)' <=> Opening(x, d)
           /\ Closing(x, d)' <=> Closing(x, d)
    BY <1>1, <2>1 DEF Opening, Closing
  <2>10. \A d \in Channels :
            Known(Other(Opener(d)), d)' /\ ~Opening(Other(Opener(d)), d)' => Confirmed(d)
    BY <2>2, <2>9, ChannelFacts, OtherEnds DEF SameKnown, Confirmed
  <2>11. ASSUME NEW d \in Channels PROVE NumbersAgree(d)'
    <3>1. /\ NumbersAgree(d) /\ Opener(d) \in Ends /\ Other(Opener(d)) \in Ends
          /\ Other(Opener(d)) # Opener(d)
      BY ChannelFacts, OtherEnds DEF Mind, RouteInv
    <3>2. remoteId \in [Ends -> [Channels -> Nat]]
      BY DEF Mind, ListIInv, TypeOK
    <3>3. \A x \in Ends : Known(x, d)' <=> Known(x, d)
      BY <2>2 DEF SameKnown
    <3>4. CASE d = c
      <4>1. Known(o, c) /\ NextMessage(e).sender = localId[o][c]
        BY <1>1, <1>2, <1>3, <1>4 DEF Sendable, Joined
      <4>2. remoteId'[e][c] = localId[o][c] /\ remoteId'[o][c] = remoteId[o][c]
        BY <1>3, <2>1, <3>2, <4>1
      <4> QED  BY <1>1, <1>4, <3>1, <3>3, <3>4, <4>1, <4>2 DEF NumbersAgree
    <3>5. CASE d # c
      <4>1. \A x \in Ends : remoteId'[x][d] = remoteId[x][d]
        BY <2>1, <3>2, <3>5
      <4> QED  BY <1>1, <2>4, <3>1, <3>3, <3>5, <4>1 DEF NumbersAgree
    <3> QED  BY <3>4, <3>5
  <2>12. \A x \in Ends, d \in Channels : NotYetUsed(x, d)'
    BY <1>1, <2>1, <2>2, KeepNotYetUsed DEF SameKnown
  <2> QED  BY <1>1, <2>1, <2>6, <2>8, <2>9, <2>10, <2>11, <2>12, RouteTogether
<1> QED  BY <1>5, <1>6

(* A refused channel is given up: its refusal was the last about it. *)
LEMMA HandleFailureRoute ==
    ASSUME Mind, ListIInv', NEW e \in Ends, HandleFailure(e)
    PROVE  RouteInv'
<1> DEFINE o == Other(e)
<1>1. /\ loop[e] = "reading" /\ wire[o] # <<>> /\ NextMessage(e).type = "OpenFailure"
      /\ Consume(e, <<>>)
      /\ UNCHANGED <<setting, localId, remoteId, sentClose, closed, opening, incoming,
                     serving, connClosed, accepted>>
  BY DEF HandleFailure, Incoming, ids, app
<1>2. PICK c \in Channels : c = NextMessage(e).of
  BY <1>1, Finds
<1>3. /\ Target(e) = c /\ InList(e, c) /\ err[e] = "none"
      /\ NextMessage(e).id = localId[e][c]
      /\ NextMessage(e) = wire[o][1] /\ 1 \in 1 .. Len(wire[o])
      /\ Sendable(o, NextMessage(e))
      /\ o \in Ends /\ Other(o) = e /\ o # e
  BY <1>1, <1>2, Finds, OtherEnds
<1>4. Opener(c) = e
  <2>1. Opener(c) # o
    BY <1>1, <1>2, <1>3 DEF Sendable
  <2> QED  BY <2>1, ChannelFacts, TwoEnds
<1>5. /\ chans' = [chans EXCEPT ![e] = Removed(@, localId[e][c])]
      /\ replies' = [replies EXCEPT ![c] = Append(@, "OpenFailure")]
      /\ UNCHANGED <<loop, err>>
  BY <1>3, <1>4 DEF HandleFailure
<1>6. \A x \in Ends, d \in Channels : InList(x, d)' <=> InList(x, d) /\ ~(x = e /\ d = c)
  BY <1>1, <1>3, <1>5, RemoveList DEF Mind
<1>7. SameKnown
  BY <1>1, <1>5, KeepKnowing DEF Mind
<1>8. /\ \A d \in Channels : d # c => replies'[d] = replies[d]
      /\ Reply(c, "OpenConfirm")' <=> Reply(c, "OpenConfirm")
  BY <1>5, AppendReply DEF Mind
<1>9. \A x \in Ends, d \in Channels : Joined(x, d)' <=> Joined(x, d)
  <2> SUFFICES ASSUME NEW x \in Ends, NEW d \in Channels
               PROVE  Joined(x, d)' <=> Joined(x, d)
    OBVIOUS
  <2>1. Reply(d, "OpenConfirm")' <=> Reply(d, "OpenConfirm")
    BY <1>8 DEF Reply
  <2> QED  BY <1>1, <1>7, <2>1 DEF Joined, SameKnown
<1>10. \A x \in Ends : Moves(x)
  BY <1>1, ConsumeMoves DEF Mind
<1>11. Moving
  BY <1>1, <1>5, <1>9, <1>10 DEF Moving, Steady
<1>12. Spent(e, c)
  <2>1. wire[o] \in Seq(Messages) /\ wire'[e] = wire[e] /\ wire'[o] = Tail(wire[o])
    BY <1>1, <1>3, ConsumeShape, Typed DEF Mind
  <2>2. /\ Sent(wire[o], "OpenFailure", c) /\ Once(wire[o], "OpenFailure", c)
        /\ opening[c] # "encode" /\ ~Sent(wire[e], "Open", c)
    <3>1. RefusedOnce(c)
      BY DEF Mind, RouteInv
    <3>2. Sent(wire[o], "OpenFailure", c)
      BY <1>1, <1>2, <1>3 DEF Sent
    <3> QED  BY <1>4, <3>1, <3>2 DEF RefusedOnce
  <2>3. ~Sent(wire'[o], "OpenFailure", c)
    BY <1>1, <1>2, <1>3, <2>1, <2>2, OnceTail
  <2>4. ~Joined(o, c)
    <3>1. ~Acceptable(c)
      <4>1. WireTypes(o)
        BY <1>3 DEF Mind, ListIInv
      <4> QED  BY <1>1, <1>3, <1>4, <4>1 DEF WireTypes, Acceptable
    <3>2. OpenInv(c)
      BY DEF Mind, ListIInv
    <3> QED  BY <1>3, <1>4, <3>1, <3>2 DEF OpenInv, Joined
  <2>5. Silent(wire'[o], c)
    <3>1. Senders(o)
      BY <1>3 DEF Mind, RouteInv
    <3>2. \A i \in 1 .. Len(wire'[o]) : \E j \in 1 .. Len(wire[o]) : wire'[o][i] = wire[o][j]
      BY <1>1, <2>1, TailFacts
    <3>3. ASSUME NEW i \in 1 .. Len(wire'[o]), wire'[o][i].of = c
          PROVE  wire'[o][i].type = "Open"
      <4>1. Sendable(o, wire'[o][i])
        BY <3>1, <3>2 DEF Senders
      <4>2. wire'[o][i].type \in {"Open", "OpenFailure"}
        BY <2>4, <3>3, <4>1 DEF Sendable
      <4> QED  BY <2>3, <3>3, <4>2 DEF Sent
    <3> QED  BY <3>3 DEF Silent
  <2> QED  BY <1>1, <2>1, <2>2, <2>5 DEF Spent
<1>13. Addressed
  BY <1>1, <1>6, <1>12 DEF Addressed
<1>14. \A x \in Ends, d \in Channels :
          /\ Opening(x, d)' <=> Opening(x, d)
          /\ Closing(x, d)' <=> Closing(x, d)
  BY <1>1, <1>5 DEF Opening, Closing
<1>15. \A d \in Channels :
          Known(Other(Opener(d)), d)' /\ ~Opening(Other(Opener(d)), d)' => Confirmed(d)
  BY <1>7, <1>14, ChannelFacts, OtherEnds DEF SameKnown, Confirmed
<1>16. \A d \in Channels : NumbersAgree(d)'
  BY <1>1, <1>7, <1>9, KeepNumbers
<1>17. \A x \in Ends, d \in Channels : NotYetUsed(x, d)'
  BY <1>1, <1>5, <1>7, KeepNotYetUsed DEF SameKnown
<1> QED  BY <1>1, <1>5, <1>11, <1>13, <1>14, <1>15, <1>16, <1>17, RouteTogether

-----------------------------------------------------------------------------
(* The invariant *)

LEMMA InitRouteInv == Init => RouteInv
<1> SUFFICES ASSUME Init PROVE RouteInv
  OBVIOUS
<1>1. /\ \A x \in Ends : /\ wire[x] = <<>> /\ incoming[x] = <<>> /\ accepted[x] = {}
                         /\ loop[x] = "reading" /\ err[x] = "none"
      /\ \A x \in Ends, d \in Channels : ~sentClose[x][d] /\ ~closed[x][d]
      /\ \A d \in Channels : opening[d] = "none" /\ replies[d] = <<>>
  BY DEF Init, At
<1>2. \A x \in Ends : /\ CloseLast(wire[x])
                      /\ \A i \in 1 .. Len(wire[x]) : FALSE
                      /\ \A type, d : ~Sent(wire[x], type, d)
                      /\ \A d : ConfirmedIn(wire[x], d)
  BY <1>1, NothingSent
<1>3. \A x \in Ends, d \in Channels :
         /\ ~Known(x, d) /\ ~Joined(x, d) /\ ~Opening(x, d) /\ ~Closing(x, d)
         /\ ~Queued(x, d)
  BY <1>1 DEF Known, Joined, Reply, Queued, Opening, Closing
<1>4. \A x \in Ends : Delivered(x) /\ Senders(x) /\ CloseLast(wire[x])
  BY <1>2, OtherEnds DEF Delivered, Senders
<1>5. ASSUME NEW d \in Channels
      PROVE  /\ RefusedOnce(d) /\ ConfirmFirst(d) /\ NumbersAgree(d)
             /\ OpenReachable(d) /\ FailedInv(d)
  <2>1. /\ Opener(d) \in Ends /\ Other(Opener(d)) \in Ends
        /\ opening[d] = "none"
    BY <1>1, ChannelFacts, OtherEnds
  <2>2. RefusedOnce(d)
    BY <1>2, <2>1 DEF RefusedOnce, Once
  <2>3. ConfirmFirst(d) /\ NumbersAgree(d)
    BY <1>2, <1>3, <2>1 DEF ConfirmFirst, NumbersAgree
  <2>4. OpenReachable(d) /\ FailedInv(d)
    BY <1>2, <2>1 DEF OpenReachable, FailedInv
  <2> QED  BY <2>2, <2>3, <2>4
<1>6. \A x \in Ends, d \in Channels :
         EndedByBoth(x, d) /\ ClosingInv(x, d) /\ NotYetUsed(x, d)
  BY <1>1, <1>3 DEF EndedByBoth, ClosingInv, NotYetUsed
<1>7. NoStray
  BY <1>1 DEF NoStray
<1> QED  BY <1>4, <1>5, <1>6, <1>7 DEF RouteInv

LEMMA NextRouteInv ==
    ASSUME Mind, setting.habits = {}, ListIInv', [Next]_vars
    PROVE  RouteInv'
<1>1. ASSUME NEW e \in Ends, OpenCall(e) PROVE RouteInv'
  BY <1>1, OpenCallRoute
<1>2. ASSUME NEW e \in Ends, Use(e) PROVE RouteInv'
  BY <1>2, SessionCloseRoute, CloseChannelRoute, WriteDataRoute DEF Use
<1>3. ASSUME NEW e \in Ends, AcceptStep(e) PROVE RouteInv'
  BY <1>3, AcceptChannelRoute, AcceptEOFRoute DEF AcceptStep
<1>4. ASSUME NEW e \in Ends, Handle(e) PROVE RouteInv'
  BY <1>4, RefuseOpenRoute, HandleOpenRoute, HandleConfirmRoute, HandleFailureRoute,
     HandleDataRoute, HandleCloseRoute, InvalidChannelRoute, ConnErrorRoute DEF Handle
<1>5. ASSUME NEW e \in Ends, LoopStep(e) PROVE RouteInv'
  BY <1>4, <1>5, OfferRoute, ConfirmRoute, RemoveChannelRoute, FinishChannelRoute,
     DropAllRoute, FinishDroppedRoute, ShutConnRoute, ReportRoute DEF LoopStep
<1>6. ASSUME NEW c \in Channels, OpenStep(c) PROVE RouteInv'
  BY <1>6, SendOpenRoute, OpenReturnRoute DEF OpenStep
<1>7. CASE UNCHANGED vars
  <2>1. UNCHANGED <<setting, chans, localId, remoteId, closed, opening, replies,
                    incoming, accepted, loop, serving, err, sentClose, connClosed, wire>>
    BY <1>7 DEF vars
  <2>2. \A x \in Ends : Moves(x)
    BY <2>1 DEF Moves
  <2> QED  BY <2>1, <2>2, UseStep
<1> QED  BY <1>1, <1>2, <1>3, <1>5, <1>6, <1>7 DEF Next

LEMMA SettingKept ==
    ASSUME [Next]_vars
    PROVE  UNCHANGED setting
<1>1. ASSUME NEW e \in Ends, OpenCall(e) \/ Use(e) \/ AcceptStep(e) PROVE UNCHANGED setting
  BY <1>1 DEF OpenCall, Use, SessionClose, CloseChannel, WriteData, AcceptStep,
              AcceptChannel, AcceptEOF
<1>2. ASSUME NEW e \in Ends, Handle(e) PROVE UNCHANGED setting
  BY <1>2 DEF Handle, RefuseOpen, HandleOpen, HandleConfirm, HandleFailure, HandleData,
              HandleClose, InvalidChannel, ConnError
<1>3. ASSUME NEW e \in Ends, LoopStep(e) PROVE UNCHANGED setting
  BY <1>2, <1>3 DEF LoopStep, Offer, Confirm, RemoveChannel, FinishChannel, DropAll,
                    FinishDropped, ShutConn, Report
<1>4. ASSUME NEW c \in Channels, OpenStep(c) PROVE UNCHANGED setting
  BY <1>4 DEF OpenStep, SendOpen, OpenReturn
<1> QED  BY <1>1, <1>3, <1>4 DEF Next, vars

-----------------------------------------------------------------------------
(* In a session whose users neither write nor close out of turn.             *)
InTurn == setting.habits = {} => RouteInv

(* RouteInv is an invariant of every session whose users write to a channel  *)
(* neither after its Close nor before its OpenConfirm.                       *)
THEOREM RouteInvariance == Spec => []InTurn
<1>1. Init => ListIInv /\ InTurn
  BY InitListIInv, InitRouteInv DEF InTurn
<1>2. ListIInv /\ InTurn /\ [Next]_vars => (ListIInv /\ InTurn)'
  <2> SUFFICES ASSUME ListIInv, InTurn, [Next]_vars PROVE ListIInv' /\ InTurn'
    OBVIOUS
  <2>1. ListIInv'
    BY NextListIInv
  <2>2. setting' = setting
    BY SettingKept
  <2>3. setting.habits = {} => RouteInv'
    BY <2>1, NextRouteInv DEF Mind, InTurn
  <2> QED  BY <2>1, <2>2, <2>3 DEF InTurn
<1> QED  BY <1>1, <1>2, PTL DEF Spec

(* Every session to be checked is of that kind. *)
NoHabits == \A s \in Settings : s.habits = {}

LEMMA RouteAlways ==
    ASSUME NoHabits
    PROVE  Spec => [](ListIInv /\ RouteInv)
<1>1. ListIInv /\ InTurn => RouteInv
  BY DEF NoHabits, ListIInv, TypeOK, InTurn
<1> QED  BY <1>1, ListInvariance, RouteInvariance, PTL

LEMMA RouteFollows ==
    ASSUME ListIInv, RouteInv
    PROVE  Routed /\ NoStray /\ OpenAgreed
<1>1. Routed
  <2> SUFFICES ASSUME NEW e \in Ends, loop[e] = "reading", wire[Other(e)] # <<>>,
                      NextMessage(e).type # "Open"
               PROVE  Target(e) = NextMessage(e).of
    BY DEF Routed
  <2> QED  BY Finds DEF Mind
<1>2. NoStray
  BY DEF RouteInv
<1>3. OpenAgreed
  <2> SUFFICES ASSUME NEW c \in Channels
               PROVE  /\ opening[c] = "open" =>
                            /\ remoteId[Opener(c)][c] = localId[Other(Opener(c))][c]
                            /\ remoteId[Other(Opener(c))][c] = localId[Opener(c)][c]
                      /\ opening[c] = "failed" =>
                            \/ Opener(c) \notin setting.acceptable
                            \/ connClosed[Opener(c)] \/ err[Opener(c)] # "none"
    BY DEF OpenAgreed
  <2>1. NumbersAgree(c) /\ FailedInv(c)
    BY DEF RouteInv
  <2> QED  BY <2>1 DEF NumbersAgree, Joined, FailedInv, Acceptable
<1> QED  BY <1>1, <1>2, <1>3

(* A message is handled by the channel it was sent on and by no other, for   *)
(* every number of channels, however often their numbers are reused.         *)
THEOREM MessagesRouted ==
    ASSUME NoHabits
    PROVE  Spec => []Routed
<1>1. ListIInv /\ RouteInv => Routed
  BY RouteFollows
<1>2. Spec => [](ListIInv /\ RouteInv)
  BY RouteAlways
<1> QED  BY <1>1, <1>2, PTL

(* No session dies of a message for a channel that it does not have, or of   *)
(* a response on a channel that the peer has opened.                         *)
THEOREM SessionsSurvive ==
    ASSUME NoHabits
    PROVE  Spec => []NoStray
<1>1. ListIInv /\ RouteInv => NoStray
  BY RouteFollows
<1>2. Spec => [](ListIInv /\ RouteInv)
  BY RouteAlways
<1> QED  BY <1>1, <1>2, PTL

(* Open returns a channel whose ends know each other's numbers, and fails    *)
(* only when the peer has refused or the session has ended.                  *)
THEOREM OpensAgree ==
    ASSUME NoHabits
    PROVE  Spec => []OpenAgreed
<1>1. ListIInv /\ RouteInv => OpenAgreed
  BY RouteFollows
<1>2. Spec => [](ListIInv /\ RouteInv)
  BY RouteAlways
<1> QED  BY <1>1, <1>2, PTL
=============================================================================
