---------------------------- MODULE ChannelProofs ---------------------------
(***************************************************************************)
(* Theorems about Channel for every window, packet size and word size: its *)
(* safety, that it implements Stream, and what can kill a session. The     *)
(* argument is the inductive invariant IInv of ChannelInvariant.           *)
(***************************************************************************)
EXTENDS ChannelInvariant, SequenceTheorems, TLAPS

-----------------------------------------------------------------------------
(* Lemmas about the two ends, the arithmetic and the messages in flight.     *)

LEMMA OtherEnds ==
    \A e \in Ends : Other(e) \in Ends /\ Other(e) # e /\ Other(Other(e)) = e
  BY DEF Ends, Other

(* uint32 arithmetic that stays below the word size is exact. *)
LEMMA ModExact ==
    ASSUME NEW w \in Nat \ {0}
    PROVE  /\ \A a \in 0 .. w - 1 : a % w = a
           /\ \A a \in Nat : a % w \in 0 .. w - 1 /\ a % w <= a /\ a % w \in Nat
  OBVIOUS

LEMMA Bounds ==
    /\ Word \in Nat \ {0}
    /\ \A e \in Ends : /\ WindowOf[e] \in Nat /\ WindowOf[e] < Word
                       /\ MaxPacketOf[e] \in Nat
                       /\ MaxBytes[e] \in Nat
                       /\ WindowOf[Other(e)] \in Nat /\ MaxPacketOf[Other(e)] \in Nat
  BY ChannelAssumption, OtherEnds

LEMMA MessageType ==
    ASSUME NEW t \in Types, NEW n \in Nat, NEW at \in Nat, NEW adj \in Nat
    PROVE  /\ Message(t, n, at, adj) \in Messages
           /\ Message(t, n, at, adj).type = t
           /\ Message(t, n, at, adj).n = n
           /\ Message(t, n, at, adj).at = at
           /\ Message(t, n, at, adj).adj = adj
  BY DEF Message, Messages

LEMMA TailFacts ==
    ASSUME NEW s \in Seq(Messages), s # <<>>
    PROVE  /\ Head(s) \in Messages
           /\ Head(s) = s[1]
           /\ Tail(s) \in Seq(Messages)
           /\ Len(s) \in Nat \ {0}
           /\ Len(Tail(s)) = Len(s) - 1
           /\ \A i \in 1 .. Len(s) - 1 : Tail(s)[i] = s[i + 1]
  OBVIOUS

LEMMA AppendFacts ==
    ASSUME NEW s \in Seq(Messages), NEW m \in Messages
    PROVE  /\ Append(s, m) \in Seq(Messages)
           /\ Len(s) \in Nat
           /\ Len(Append(s, m)) = Len(s) + 1
           /\ \A i \in 1 .. Len(s) : Append(s, m)[i] = s[i]
           /\ Append(s, m)[Len(s) + 1] = m
           /\ Append(s, m) # <<>>
           /\ s # <<>> => Len(s) >= 1
  BY AppendProperties, EmptySeq

LEMMA JoinsTail ==
    ASSUME NEW s \in Seq(Messages), s # <<>>,
           NEW b, NEW c, NEW bt, NEW ct, Joins(s, b, c, bt, ct)
    PROVE  /\ Joins(Tail(s), Head(s).at, Head(s).adj, bt, ct)
           /\ DataBefore(Head(s)) = b
           /\ AdjustedBefore(Head(s)) = c
<1> DEFINE t == Tail(s)
<1>1. DataBefore(Head(s)) = b /\ AdjustedBefore(Head(s)) = c
  BY TailFacts DEF Joins
<1>2. Len(t) = Len(s) - 1 /\ Len(s) \in Nat \ {0} /\ t \in Seq(Messages)
  BY TailFacts
<1>3. \A i \in 1 .. Len(s) - 1 : t[i] = s[i + 1]
  BY TailFacts
<1>4. ASSUME t = <<>> PROVE Head(s).at = bt /\ Head(s).adj = ct
  <2>1. Len(s) = 1
    BY <1>2, <1>4
  <2> QED  BY <2>1, TailFacts DEF Joins
<1>5. ASSUME t # <<>>
      PROVE  /\ DataBefore(t[1]) = Head(s).at
             /\ AdjustedBefore(t[1]) = Head(s).adj
             /\ t[Len(t)].at = bt
             /\ t[Len(t)].adj = ct
  <2>1. Len(t) >= 1
    BY <1>2, <1>5, EmptySeq
  <2>2. t[1] = s[2] /\ t[Len(t)] = s[Len(s)] /\ Head(s) = s[1]
    BY <2>1, <1>2, <1>3, TailFacts
  <2>3. 1 \in 1 .. Len(s) - 1 /\ 1 + 1 = 2
    BY <2>1, <1>2
  <2> HIDE DEF t
  <2> QED  BY <2>2, <2>3 DEF Joins
<1>6. ASSUME NEW i \in 1 .. Len(t) - 1
      PROVE  DataBefore(t[i + 1]) = t[i].at /\ AdjustedBefore(t[i + 1]) = t[i].adj
  <2>1. t[i] = s[i + 1] /\ t[i + 1] = s[(i + 1) + 1] /\ i + 1 \in 1 .. Len(s) - 1
    BY <1>2, <1>3
  <2> HIDE DEF t
  <2> QED  BY <2>1 DEF Joins
<1> QED  BY <1>1, <1>4, <1>5, <1>6 DEF Joins

LEMMA JoinsAppend ==
    ASSUME NEW s \in Seq(Messages), NEW m \in Messages,
           NEW b, NEW c, NEW bt, NEW ct, Joins(s, b, c, bt, ct),
           DataBefore(m) = bt, AdjustedBefore(m) = ct
    PROVE  Joins(Append(s, m), b, c, m.at, m.adj)
<1>1. CASE s = <<>>
  BY <1>1, AppendFacts DEF Joins
<1>2. CASE s # <<>>
  BY <1>2, AppendFacts DEF Joins
<1> QED  BY <1>1, <1>2

LEMMA FitsTail ==
    ASSUME NEW s \in Seq(Messages), s # <<>>,
           NEW l, NEW bt, NEW ct, NEW f, Fits(s, l, bt, ct, f)
    PROVE  Fits(Tail(s), l, bt, ct, f)
  BY TailFacts DEF Fits

(* What fits still fits when more has been sent, or the end has been set at  *)
(* the first end mark.                                                       *)
LEMMA FitsGrows ==
    ASSUME NEW s \in Seq(Messages), NEW l,
           NEW bt \in Nat, NEW ct \in Nat, NEW f, Fits(s, l, bt, ct, f),
           NEW bt2 \in Nat, NEW ct2 \in Nat, NEW f2,
           bt <= bt2, ct <= ct2, f = -1 \/ f2 = f
    PROVE  Fits(s, l, bt2, ct2, f2)
<1>1. SUFFICES ASSUME NEW i \in 1 .. Len(s)
                 PROVE  /\ s[i].at <= bt2
                        /\ s[i].adj <= ct2
                        /\ s[i].type = "Data" => s[i].n <= l
                        /\ s[i].type \in {"EOF", "Close"} => f2 # -1 /\ f2 <= s[i].at
  BY DEF Fits
<1>2. s[i] \in Messages
  BY ElementOfSeq
<1>3. s[i].at \in Nat /\ s[i].adj \in Nat
  BY <1>2 DEF Messages
<1>4. s[i].at <= bt /\ s[i].adj <= ct
  BY DEF Fits
<1>5. s[i].at <= bt2 /\ s[i].adj <= ct2
  BY <1>3, <1>4
<1> QED  BY <1>5 DEF Fits

LEMMA FitsAppend ==
    ASSUME NEW s \in Seq(Messages), NEW m \in Messages,
           NEW l, NEW bt, NEW ct, NEW f, Fits(s, l, bt, ct, f),
           m.at <= bt, m.adj <= ct, m.type = "Data" => m.n <= l,
           m.type \in {"EOF", "Close"} => f # -1 /\ f <= m.at
    PROVE  Fits(Append(s, m), l, bt, ct, f)
  BY AppendFacts DEF Fits
-----------------------------------------------------------------------------
(* What the invariant says, in the forms the steps need.                     *)

LEMMA Typed ==
    ASSUME IInv, NEW e \in Ends
    PROVE  /\ remoteWin[e] \in Nat /\ myWindow[e] \in Nat
           /\ remoteWin[e] < Word /\ myWindow[e] < Word
           /\ pending[e] \in Seq(Int) /\ got[e] \in Seq(Int)
           /\ Buffered(e) \in Nat /\ Taken(e) \in Nat /\ Received(e) \in Nat
           /\ wire[e] \in Seq(Messages)
           /\ writer[e].todo \in Nat /\ writer[e].space \in Nat /\ Held(e) \in Nat
           /\ reader[e].n \in Nat /\ Untold(e) \in Nat /\ Uncounted(e) \in Nat
           /\ Uncounted(e) <= Untold(e)
           /\ sent[e] \in Nat /\ adjusted[e] \in Nat /\ acked[e] \in Nat
           /\ fin[e] \in Nat \cup {-1}
           /\ WindowOf[e] \in Nat /\ Word \in Nat \ {0}
           /\ MaxPacketOf[e] \in Nat
<1>1. pending[e] \in Seq(Int) /\ got[e] \in Seq(Int) /\ wire[e] \in Seq(Messages)
  BY DEF IInv, TypeOK
<1>2. Buffered(e) \in Nat /\ Taken(e) \in Nat
  BY <1>1 DEF Buffered, Taken
<1>3. /\ writer[e].todo \in Nat /\ writer[e].space \in Nat /\ Held(e) \in Nat
      /\ reader[e].n \in Nat /\ Untold(e) \in Nat /\ Uncounted(e) \in Nat
      /\ Uncounted(e) <= Untold(e)
  BY DEF IInv, TypeOK, Held, Untold, Uncounted
<1>4. /\ remoteWin[e] \in Nat /\ myWindow[e] \in Nat
      /\ remoteWin[e] < Word /\ myWindow[e] < Word
      /\ sent[e] \in Nat /\ adjusted[e] \in Nat /\ acked[e] \in Nat
      /\ fin[e] \in Nat \cup {-1}
  BY Bounds DEF IInv, TypeOK
<1>5. /\ WindowOf[e] \in Nat /\ Word \in Nat \ {0}
      /\ MaxPacketOf[e] \in Nat
  BY Bounds
<1>6. Received(e) \in Nat
  BY <1>2 DEF Received
<1> QED  BY <1>1, <1>2, <1>3, <1>4, <1>5, <1>6

(* No end writes beyond what its peer's reader has made room for, and what   *)
(* is in its window stays below the peer's.                                  *)
LEMMA Room ==
    ASSUME IInv, NEW e \in Ends
    PROVE  /\ Received(Other(e)) <= sent[e]
           /\ sent[e] + Held(e) + remoteWin[e] <=
                 WindowOf[Other(e)] + Taken(Other(e)) - Untold(Other(e))
           /\ remoteWin[e] + adjusted[Other(e)] - acked[e] <= WindowOf[Other(e)]
           /\ remoteWin[e] <= WindowOf[Other(e)]
           /\ myWindow[e] <= WindowOf[e]
<1> DEFINE o == Other(e)
<1>1. o \in Ends /\ Other(o) = e
  BY OtherEnds
<1>2. CreditCovered(e) /\ AdjustCovered(e) /\ AdjustCovered(o) /\ WindowAccounted(e)
  BY <1>1 DEF IInv, EndInv
<1>3. Received(o) <= sent[e]
  BY <1>1 DEF IInv, InOrder, Received, Taken, Buffered
<1>4. /\ acked[e] <= adjusted[o]
      /\ adjusted[o] + Untold(o) <= Taken(o)
      /\ remoteWin[e] + Held(e) + sent[e] <= WindowOf[o] + acked[e]
      /\ myWindow[e] + Buffered(e) + Uncounted(e) = WindowOf[e]
  BY <1>1, <1>2 DEF CreditCovered, AdjustCovered, WindowAccounted
<1>5. /\ Taken(o) \in Nat /\ Buffered(o) \in Nat /\ Buffered(e) \in Nat
      /\ Held(e) \in Nat /\ Untold(o) \in Nat /\ Uncounted(e) \in Nat
      /\ sent[e] \in Nat /\ acked[e] \in Nat /\ adjusted[o] \in Nat
      /\ remoteWin[e] \in Int /\ myWindow[e] \in Int
      /\ WindowOf[e] \in Int /\ WindowOf[o] \in Int
  <2>1. /\ Taken(o) \in Nat /\ Buffered(o) \in Nat /\ Untold(o) \in Nat
        /\ adjusted[o] \in Nat /\ WindowOf[o] \in Nat
    BY <1>1, Typed
  <2>2. /\ Buffered(e) \in Nat /\ Held(e) \in Nat /\ Uncounted(e) \in Nat
        /\ sent[e] \in Nat /\ acked[e] \in Nat /\ WindowOf[e] \in Nat
        /\ remoteWin[e] \in Nat /\ myWindow[e] \in Nat
    BY Typed
  <2> HIDE DEF o
  <2> QED  BY <2>1, <2>2, ChannelAssumption
<1>6. Taken(o) <= sent[e]
  BY <1>3, <1>5 DEF Received
<1> HIDE DEF o
<1>7. /\ sent[e] + Held(e) + remoteWin[e] <= WindowOf[o] + Taken(o) - Untold(o)
      /\ remoteWin[e] + adjusted[o] - acked[e] <= WindowOf[o]
      /\ remoteWin[e] <= WindowOf[o]
      /\ myWindow[e] <= WindowOf[e]
  BY <1>4, <1>5, <1>6
<1> QED  BY <1>3, <1>7 DEF o

(* The message that the loop is about to handle. *)
LEMMA NextMessage ==
    ASSUME IInv, NEW e \in Ends, Serving(e), wire[Other(e)] # <<>>
    PROVE  LET m == Head(wire[Other(e)])
           IN  /\ m \in Messages
               /\ DataBefore(m) = Received(e)
               /\ AdjustedBefore(m) = acked[e]
               /\ m.at <= sent[Other(e)]
               /\ m.adj <= adjusted[Other(e)]
               /\ m.type = "Data" => m.n <= MaxPacketOf[e]
               /\ m.type \in {"EOF", "Close"} =>
                     fin[Other(e)] # -1 /\ fin[Other(e)] <= m.at
<1> DEFINE s == wire[Other(e)]
<1>1. s \in Seq(Messages)
  BY OtherEnds, Typed
<1>2. /\ Joins(s, Received(e), acked[e], sent[Other(e)], adjusted[Other(e)])
      /\ Fits(s, MaxPacketOf[e], sent[Other(e)], adjusted[Other(e)], fin[Other(e)])
  BY DEF IInv, EndInv, WireInv
<1>3. Head(s) = s[1] /\ Head(s) \in Messages /\ 1 \in 1 .. Len(s)
  BY <1>1, TailFacts
<1> QED  BY <1>1, <1>2, <1>3, JoinsTail DEF Fits

-----------------------------------------------------------------------------
(* A part of the invariant is kept by a step that leaves its variables alone. *)

LEMMA KeepWindow ==
    ASSUME IInv, UNCHANGED <<myWindow, pending, reader>>
    PROVE  \A x \in Ends : WindowAccounted(x)'
  BY DEF IInv, EndInv, WindowAccounted, Uncounted, Buffered

LEMMA KeepCredit ==
    ASSUME IInv, UNCHANGED <<remoteWin, writer, sent, acked>>
    PROVE  \A x \in Ends : CreditCovered(x)'
  BY DEF IInv, EndInv, CreditCovered, Held

LEMMA KeepAdjust ==
    ASSUME IInv, UNCHANGED <<acked, adjusted, reader, got>>
    PROVE  \A x \in Ends : AdjustCovered(x)'
  BY DEF IInv, EndInv, AdjustCovered, Untold, Taken

LEMMA KeepReservation ==
    ASSUME IInv, UNCHANGED writer
    PROVE  \A x \in Ends : ReservationFits(x)'
  BY DEF IInv, EndInv, ReservationFits, Held

LEMMA KeepFin ==
    ASSUME IInv, UNCHANGED <<fin, sent>>
    PROVE  \A x \in Ends : FinSent(x)'
  BY DEF IInv, EndInv, FinSent

LEMMA KeepLoop ==
    ASSUME IInv, UNCHANGED <<loop, err, bufClosed, fin, got, pending>>
    PROVE  \A x \in Ends : LoopConsistent(x)'
  BY DEF IInv, EndInv, LoopConsistent, Complete, Received, Taken, Buffered

LEMMA KeepOrder ==
    ASSUME IInv, UNCHANGED <<got, pending, sent>>
    PROVE  InOrder'
  BY DEF IInv, InOrder

LEMMA KeepEof ==
    ASSUME IInv, UNCHANGED <<eof, err, fin, got>>
    PROVE  EofAfterData'
  BY DEF IInv, EofAfterData

LEMMA KeepFlow ==
    ASSUME IInv, UNCHANGED err
    PROVE  FlowControl'
  BY DEF IInv, FlowControl

LEMMA KeepWireAt ==
    ASSUME IInv, NEW x \in Ends,
           wire'[Other(x)] = wire[Other(x)],
           got'[x] = got[x], pending'[x] = pending[x], acked'[x] = acked[x],
           sent'[Other(x)] = sent[Other(x)],
           adjusted'[Other(x)] = adjusted[Other(x)],
           fin'[Other(x)] = fin[Other(x)],
           Serving(x)' => Serving(x)
    PROVE  WireInv(x)'
<1>1. Received(x)' = Received(x)
  BY DEF Received, Taken, Buffered
<1>2. WireInv(x)
  BY DEF IInv, EndInv
<1> QED  BY <1>1, <1>2 DEF WireInv

LEMMA KeepWire ==
    ASSUME IInv,
           UNCHANGED <<err, connClosed, wire, got, pending, sent, acked, adjusted, fin>>
    PROVE  \A x \in Ends : WireInv(x)'
  BY KeepWireAt DEF Serving

LEMMA EncodeType ==
    ASSUME IInv, NEW e \in Ends, NEW m \in Messages, Encode(e, m)
    PROVE  wire' \in [Ends -> Seq(Messages)]
<1>1. wire \in [Ends -> Seq(Messages)]
  BY DEF IInv, TypeOK
<1>2. Append(wire[e], m) \in Seq(Messages)
  BY <1>1, AppendFacts
<1> QED  BY <1>1, <1>2 DEF Encode

(* e writes m to Other(e). *)
LEMMA AppendWireAt ==
    ASSUME IInv, NEW e \in Ends, NEW m \in Messages,
           wire'[e] = Append(wire[e], m),
           sent'[e] = m.at, adjusted'[e] = m.adj,
           fin[e] = -1 \/ fin'[e] = fin[e],
           DataBefore(m) = sent[e], AdjustedBefore(m) = adjusted[e],
           m.type = "Data" => m.n <= MaxPacketOf[Other(e)],
           m.type \in {"EOF", "Close"} => fin'[e] # -1 /\ fin'[e] <= m.at,
           got'[Other(e)] = got[Other(e)], pending'[Other(e)] = pending[Other(e)],
           acked'[Other(e)] = acked[Other(e)],
           Serving(Other(e))' => Serving(Other(e))
    PROVE  WireInv(Other(e))'
<1> DEFINE o == Other(e)
<1>1. o \in Ends /\ Other(o) = e
  BY OtherEnds
<1>2. Received(o)' = Received(o)
  BY DEF Received, Taken, Buffered
<1>3. WireInv(o)
  BY <1>1 DEF IInv, EndInv
<1>4. wire[e] \in Seq(Messages) /\ sent[e] \in Nat /\ adjusted[e] \in Nat
  BY Typed
<1>5. sent[e] <= m.at /\ adjusted[e] <= m.adj /\ m.at \in Nat /\ m.adj \in Nat
  BY <1>4 DEF DataBefore, AdjustedBefore, Messages
<1>6. ASSUME Serving(o)
      PROVE  /\ Joins(Append(wire[e], m), Received(o), acked[o], m.at, m.adj)
             /\ Fits(Append(wire[e], m), MaxPacketOf[o], m.at, m.adj, fin'[e])
  <2>1. /\ Joins(wire[e], Received(o), acked[o], sent[e], adjusted[e])
        /\ Fits(wire[e], MaxPacketOf[o], sent[e], adjusted[e], fin[e])
    BY <1>1, <1>3, <1>6 DEF WireInv
  <2>2. Fits(wire[e], MaxPacketOf[o], m.at, m.adj, fin'[e])
    BY <2>1, <1>4, <1>5, FitsGrows
  <2> QED  BY <2>1, <2>2, <1>4, <1>5, JoinsAppend, FitsAppend
<1> QED  BY <1>1, <1>2, <1>6 DEF WireInv

(* e has handled the message at the head of its wire. *)
LEMMA ConsumeWireAt ==
    ASSUME IInv, NEW e \in Ends, Serving(e), wire[Other(e)] # <<>>,
           wire'[Other(e)] = Tail(wire[Other(e)]),
           Received(e)' = Head(wire[Other(e)]).at,
           acked'[e] = Head(wire[Other(e)]).adj,
           sent'[Other(e)] = sent[Other(e)],
           adjusted'[Other(e)] = adjusted[Other(e)],
           fin'[Other(e)] = fin[Other(e)]
    PROVE  WireInv(e)'
<1>1. wire[Other(e)] \in Seq(Messages)
  BY OtherEnds, Typed
<1>2. /\ Joins(wire[Other(e)], Received(e), acked[e],
               sent[Other(e)], adjusted[Other(e)])
      /\ Fits(wire[Other(e)], MaxPacketOf[e],
              sent[Other(e)], adjusted[Other(e)], fin[Other(e)])
  BY DEF IInv, EndInv, WireInv
<1> QED  BY <1>1, <1>2, JoinsTail, FitsTail DEF WireInv
-----------------------------------------------------------------------------
(* Every step keeps the invariant. *)

LEMMA WriteCallStep ==
    ASSUME IInv, NEW e \in Ends, WriteCall(e)
    PROVE  IInv'
<1> PICK k \in 1 .. MaxBytes[e] - sent[e] :
            writer' = [writer EXCEPT ![e] = [pc |-> "reserve", todo |-> k, space |-> 0]]
  BY DEF WriteCall
<1>0. writer \in [Ends -> [pc : {"idle", "reserve", "encode"}, todo : Nat, space : Nat]]
  BY DEF IInv, TypeOK
<1>1. TypeOK'
  <2>1. k \in Nat
    BY Bounds, Typed
  <2>2. writer' \in [Ends -> [pc : {"idle", "reserve", "encode"}, todo : Nat, space : Nat]]
    BY <1>0, <2>1
  <2> QED  BY <2>2 DEF IInv, TypeOK, WriteCall
<1>2. ASSUME NEW x \in Ends PROVE CreditCovered(x)' /\ ReservationFits(x)'
  <2>1. Held(x)' = 0 \/ (Held(x)' = Held(x) /\ writer'[x] = writer[x])
    <3>1. CASE x = e
      <4>1. writer'[x].pc = "reserve"
        BY <1>0, <3>1
      <4> QED  BY <4>1 DEF Held
    <3>2. CASE x # e
      BY <1>0, <3>2 DEF Held
    <3> QED  BY <3>1, <3>2
  <2>2. Held(x) \in Nat /\ writer'[x].todo \in Nat /\ MaxPacketOf[Other(x)] \in Nat
    BY <1>1, OtherEnds, Typed DEF TypeOK
  <2>3. CreditCovered(x) /\ ReservationFits(x)
    BY DEF IInv, EndInv
  <2>4. /\ remoteWin[x] \in Nat /\ sent[x] \in Nat /\ acked[x] \in Nat
        /\ WindowOf[Other(x)] \in Nat
    BY Bounds, Typed
  <2>5. UNCHANGED <<remoteWin, sent, acked>>
    BY DEF WriteCall
  <2> QED  BY <2>1, <2>2, <2>3, <2>4, <2>5 DEF CreditCovered, ReservationFits
<1>3. UNCHANGED <<remoteWin, myWindow, pending, bufClosed, connClosed, loop, err, wire,
                  reader, sent, fin, got, eof, adjusted, acked>>
  BY DEF WriteCall
<1> QED
  BY <1>1, <1>2, <1>3, KeepWindow, KeepAdjust, KeepWire, KeepLoop, KeepOrder, KeepEof,
     KeepFlow, KeepFin DEF IInv, EndInv

LEMMA ReserveStep ==
    ASSUME IInv, NEW e \in Ends, Reserve(e)
    PROVE  IInv'
<1> DEFINE asked == Smaller(MaxPacketOf[Other(e)], writer[e].todo % Word)
           space == Reserved(asked, remoteWin[e])
<1>1. /\ remoteWin[e] \in Nat /\ remoteWin[e] < Word /\ writer[e].todo \in Nat
      /\ MaxPacketOf[Other(e)] \in Nat /\ Word \in Nat \ {0}
  BY Typed, Bounds DEF IInv
<1>2. writer[e].todo % Word \in Nat /\ writer[e].todo % Word <= writer[e].todo
  BY <1>1, ModExact
<1>3. /\ space \in Nat /\ space <= remoteWin[e]
      /\ space <= MaxPacketOf[Other(e)] /\ space <= writer[e].todo
  <2> HIDE DEF asked
  <2>1. asked \in Nat /\ asked <= MaxPacketOf[Other(e)] /\ asked <= writer[e].todo
    BY <1>1, <1>2 DEF asked, Smaller
  <2> QED  BY <1>1, <2>1 DEF Reserved, Smaller
<1>4. /\ remoteWin' = [remoteWin EXCEPT ![e] = @ - space]
      /\ writer[e].pc = "reserve"
      /\ writer' = [writer EXCEPT ![e] =
                      IF winClosed[e] THEN Idle
                      ELSE [pc |-> "encode", todo |-> @.todo, space |-> space]]
      /\ UNCHANGED <<winClosed, myWindow, pending, bufClosed, sentEOF, sentClose, linked,
                     connClosed, loop, err, wire, reader, sent, fin, got, eof, adjusted,
                     acked>>
  BY DEF Reserve
<1> HIDE DEF space
<1>5. /\ remoteWin \in [Ends -> 0 .. Word - 1]
      /\ writer \in [Ends -> [pc : {"idle", "reserve", "encode"}, todo : Nat, space : Nat]]
  BY DEF IInv, TypeOK
<1>6. TypeOK'
  <2>1. remoteWin[e] - space \in 0 .. Word - 1
    BY <1>1, <1>3
  <2>2. remoteWin' \in [Ends -> 0 .. Word - 1]
    BY <1>4, <1>5, <2>1
  <2>3. writer' \in [Ends -> [pc : {"idle", "reserve", "encode"}, todo : Nat, space : Nat]]
    BY <1>1, <1>3, <1>4, <1>5 DEF Idle
  <2> QED  BY <1>4, <2>2, <2>3 DEF IInv, TypeOK
<1>7. ASSUME NEW x \in Ends PROVE CreditCovered(x)' /\ ReservationFits(x)'
  <2>1. CreditCovered(x) /\ ReservationFits(x)
    BY DEF IInv, EndInv
  <2>2. CASE x = e
    <3>1. /\ remoteWin'[e] = remoteWin[e] - space
          /\ Held(e) = 0
          /\ \/ writer'[e] = Idle
             \/ writer'[e] = [pc |-> "encode", todo |-> writer[e].todo, space |-> space]
      BY <1>4, <1>5 DEF Held
    <3>6. Held(e)' = 0 \/ (Held(e)' = space /\ writer'[e].todo = writer[e].todo)
      BY <3>1 DEF Held, Idle
    <3>2. writer'[e].todo \in Nat
      BY <1>6 DEF TypeOK
    <3>3. sent[e] \in Nat /\ acked[e] \in Nat /\ WindowOf[Other(e)] \in Nat
      BY Bounds, Typed
    <3>4. CreditCovered(e)'
      BY <1>1, <1>3, <1>4, <2>1, <2>2, <3>1, <3>3, <3>6 DEF CreditCovered
    <3>5. ReservationFits(e)'
      BY <1>1, <1>3, <3>2, <3>6 DEF ReservationFits
    <3> QED  BY <2>2, <3>4, <3>5
  <2>3. CASE x # e
    <3>1. remoteWin'[x] = remoteWin[x] /\ writer'[x] = writer[x]
      BY <1>4, <1>5, <2>3
    <3> QED  BY <1>4, <2>1, <3>1 DEF CreditCovered, ReservationFits, Held
  <2> QED  BY <2>2, <2>3
<1> QED
  BY <1>4, <1>6, <1>7, KeepWindow, KeepAdjust, KeepWire, KeepLoop, KeepOrder, KeepEof,
     KeepFlow, KeepFin DEF IInv, EndInv

LEMMA WriteDataStep ==
    ASSUME IInv, NEW e \in Ends, WriteData(e)
    PROVE  IInv'
<1> DEFINE o == Other(e)
           n == writer[e].space
           m == Message("Data", n, sent[e] + n, adjusted[e])
<1>1. /\ writer[e].pc = "encode"
      /\ Encode(e, m)
      /\ sent' = IF connClosed[e] THEN sent ELSE [sent EXCEPT ![e] = @ + n]
      /\ writer' = [writer EXCEPT ![e] =
                      IF connClosed[e] \/ writer[e].todo - n = 0 THEN Idle
                      ELSE [pc |-> "reserve", todo |-> writer[e].todo - n, space |-> 0]]
      /\ UNCHANGED <<remoteWin, winClosed, myWindow, pending, bufClosed, sentEOF,
                     sentClose, linked, connClosed, loop, err, reader, fin, got, eof,
                     adjusted, acked>>
  BY DEF WriteData
<1>2. o \in Ends /\ Other(o) = e /\ o # e
  BY OtherEnds
<1>3. /\ n \in Nat /\ sent[e] \in Nat /\ adjusted[e] \in Nat /\ writer[e].todo \in Nat
      /\ MaxPacketOf[o] \in Nat /\ acked[e] \in Nat /\ WindowOf[o] \in Int
      /\ remoteWin[e] \in Int
  BY Bounds, Typed
<1>4. Held(e) = n /\ n <= MaxPacketOf[o] /\ n <= writer[e].todo
  BY <1>1 DEF IInv, EndInv, ReservationFits, Held
<1> HIDE DEF n
<1>5. m \in Messages /\ m.type = "Data" /\ m.n = n /\ m.at = sent[e] + n /\ m.adj = adjusted[e]
  <2>1. "Data" \in Types /\ sent[e] + n \in Nat
    BY <1>3 DEF Types
  <2> QED  BY <1>3, <2>1 DEF Message, Messages
<1>6. /\ writer \in [Ends -> [pc : {"idle", "reserve", "encode"}, todo : Nat, space : Nat]]
      /\ sent \in [Ends -> Nat] /\ wire \in [Ends -> Seq(Messages)]
  BY DEF IInv, TypeOK
<1> HIDE DEF m, n
<1>7. TypeOK'
  <2>1. writer' \in [Ends -> [pc : {"idle", "reserve", "encode"}, todo : Nat, space : Nat]]
    <3>1. writer[e].todo - n \in Nat
      BY <1>3, <1>4
    <3> QED  BY <1>1, <1>6, <3>1 DEF Idle
  <2>2. sent' \in [Ends -> Nat]
    BY <1>1, <1>3, <1>6
  <2>3. wire' \in [Ends -> Seq(Messages)]
    BY <1>1, <1>5, EncodeType
  <2> QED  BY <1>1, <2>1, <2>2, <2>3 DEF IInv, TypeOK
<1>8. ASSUME NEW x \in Ends PROVE CreditCovered(x)' /\ ReservationFits(x)'
  <2>1. CreditCovered(x) /\ ReservationFits(x)
    BY DEF IInv, EndInv
  <2>2. CASE x = e
    <3>1. Held(e)' = 0 /\ (sent'[e] = sent[e] \/ sent'[e] = sent[e] + n)
      BY <1>1, <1>6 DEF Held, Idle
    <3>2. writer'[e].todo \in Nat
      BY <1>7 DEF TypeOK
    <3> QED
      BY <1>1, <1>3, <1>4, <2>1, <2>2, <3>1, <3>2 DEF CreditCovered, ReservationFits
  <2>3. CASE x # e
    <3>1. sent'[x] = sent[x] /\ writer'[x] = writer[x]
      BY <1>1, <1>6, <2>3
    <3> QED  BY <1>1, <2>1, <3>1 DEF CreditCovered, ReservationFits, Held
  <2> QED  BY <2>2, <2>3
<1>9. sent'[o] = sent[o] /\ wire'[o] = wire[o]
  BY <1>1, <1>2, <1>6 DEF Encode
<1>10. WireInv(e)'
  BY <1>1, <1>9, KeepWireAt DEF Serving
<1>11. WireInv(o)'
  <2>1. CASE connClosed[o]
    BY <1>1, <2>1 DEF WireInv, Serving
  <2>2. CASE connClosed[e]
    BY <1>1, <1>2, <2>2, KeepWireAt DEF Serving, Encode
  <2>3. CASE ~connClosed[e] /\ ~connClosed[o]
    <3>1. wire'[e] = Append(wire[e], m) /\ sent'[e] = m.at
      BY <1>1, <1>5, <1>6, <2>3 DEF Encode
    <3>2. DataBefore(m) = sent[e] /\ AdjustedBefore(m) = adjusted[e]
      BY <1>3, <1>5 DEF DataBefore, AdjustedBefore
    <3> HIDE DEF o
    <3> QED  BY <1>1, <1>4, <1>5, <3>1, <3>2, AppendWireAt DEF Serving, o
  <2> QED  BY <2>1, <2>2, <2>3
<1>12. ASSUME NEW x \in Ends PROVE WireInv(x)'
  BY <1>10, <1>11 DEF Ends, Other
<1>13. InOrder'
  <2>1. ASSUME NEW x \in Ends PROVE sent[x] <= sent'[x] /\ sent[x] \in Nat /\ sent'[x] \in Nat
    <3>1. sent[x] \in Nat /\ sent'[x] \in Nat
      BY <1>6, <1>7 DEF TypeOK
    <3>2. sent'[x] = sent[x] \/ sent'[x] = sent[x] + n
      BY <1>1, <1>6
    <3> QED  BY <1>3, <3>1, <3>2
  <2>2. ASSUME NEW x \in Ends PROVE Received(x) <= sent'[Other(x)]
    <3>1. Received(x) <= sent[Other(x)] /\ Received(x) \in Nat
      BY OtherEnds, Room, Typed
    <3> QED  BY <2>1, <3>1, OtherEnds
  <2> QED  BY <1>1, <2>2 DEF IInv, InOrder, Received, Taken, Buffered
<1>14. ASSUME NEW x \in Ends PROVE FinSent(x)'
  <2>1. FinSent(x) /\ fin[x] \in Nat \cup {-1} /\ sent[x] \in Nat
    BY Typed DEF IInv, EndInv
  <2>2. sent'[x] = sent[x] \/ sent'[x] = sent[x] + n
    BY <1>1, <1>6
  <2> QED  BY <1>1, <1>3, <2>1, <2>2 DEF FinSent
<1> QED
  BY <1>1, <1>7, <1>8, <1>12, <1>13, <1>14, KeepWindow, KeepAdjust, KeepLoop, KeepEof, KeepFlow
     DEF IInv, EndInv

LEMMA ReadDataStep ==
    ASSUME IInv, NEW e \in Ends, ReadData(e)
    PROVE  IInv'
<1>1. PICK n \in 1 .. Len(pending[e]) :
         /\ got' = [got EXCEPT ![e] = @ \o SubSeq(pending[e], 1, n)]
         /\ pending' = [pending EXCEPT ![e] = Remaining(@, n)]
         /\ reader' = [reader EXCEPT ![e] = [pc |-> "adjust", n |-> n]]
  BY DEF ReadData
<1>2. /\ reader[e].pc = "idle"
      /\ UNCHANGED <<remoteWin, winClosed, myWindow, bufClosed, sentEOF, sentClose,
                     linked, connClosed, loop, err, wire, writer, sent, fin, eof,
                     adjusted, acked>>
  BY DEF ReadData
<1>3. /\ got \in [Ends -> Seq(Int)] /\ pending \in [Ends -> Seq(Int)]
      /\ reader \in [Ends -> [pc : {"idle", "adjust", "send"}, n : Nat]]
  BY DEF IInv, TypeOK
<1> DEFINE p == pending[e]
           g == got[e]
           front == SubSeq(p, 1, n)
<1>4. p \in Seq(Int) /\ g \in Seq(Int) /\ Len(p) \in Nat /\ Len(g) \in Nat /\ n \in Nat
  BY <1>3
<1>5. /\ front \in Seq(Int) /\ Len(front) = n
      /\ \A i \in 1 .. n : front[i] = p[i]
  BY <1>3
<1>6. /\ pending'[e] \in Seq(Int) /\ Len(pending'[e]) = Len(p) - n
      /\ \A i \in 1 .. Len(p) - n : pending'[e][i] = p[n + i]
  <2>1. /\ Remaining(p, n) \in Seq(Int) /\ Len(Remaining(p, n)) = Len(p) - n
        /\ \A i \in 1 .. Len(p) - n : Remaining(p, n)[i] = p[n + i]
    BY <1>3 DEF Remaining
  <2> QED  BY <1>1, <1>3, <2>1
<1>7. /\ got'[e] \in Seq(Int) /\ Len(got'[e]) = Len(g) + n
      /\ \A i \in 1 .. Len(g) : got'[e][i] = g[i]
      /\ \A i \in 1 .. n : got'[e][Len(g) + i] = p[i]
  <2>1. got'[e] = g \o front
    BY <1>1, <1>3
  <2> HIDE DEF front, g, p
  <2>2. /\ g \o front \in Seq(Int) /\ Len(g \o front) = Len(g) + Len(front)
        /\ \A i \in 1 .. Len(g) + Len(front) :
              (g \o front)[i] = IF i <= Len(g) THEN g[i] ELSE front[i - Len(g)]
    BY <1>4, <1>5, ConcatProperties
  <2>3. ASSUME NEW i \in 1 .. n PROVE (g \o front)[Len(g) + i] = p[i]
    <3>1. Len(g) + i \in 1 .. Len(g) + Len(front) /\ ~(Len(g) + i <= Len(g))
      BY <1>4, <1>5
    <3>2. (Len(g) + i) - Len(g) = i
      BY <1>4
    <3> QED  BY <1>5, <2>2, <3>1, <3>2
  <2>4. ASSUME NEW i \in 1 .. Len(g) PROVE (g \o front)[i] = g[i]
    BY <1>4, <1>5, <2>2
  <2> QED  BY <1>5, <2>1, <2>2, <2>3, <2>4
<1>8. ASSUME NEW x \in Ends, x # e
      PROVE  got'[x] = got[x] /\ pending'[x] = pending[x] /\ reader'[x] = reader[x]
  BY <1>1, <1>3, <1>8
<1>9. reader'[e] = [pc |-> "adjust", n |-> n]
  BY <1>1, <1>3
<1>10. TypeOK'
  <2>1. got' \in [Ends -> Seq(Int)] /\ pending' \in [Ends -> Seq(Int)]
    BY <1>1, <1>3, <1>6, <1>7
  <2>2. reader' \in [Ends -> [pc : {"idle", "adjust", "send"}, n : Nat]]
    BY <1>1, <1>3, <1>4
  <2> QED  BY <1>2, <2>1, <2>2 DEF IInv, TypeOK
<1>11. /\ Taken(e)' = Taken(e) + n /\ Buffered(e)' = Buffered(e) - n
       /\ Received(e)' = Received(e) /\ Taken(e) \in Nat /\ Buffered(e) \in Nat
  <2>1. Taken(e)' = Taken(e) + n /\ Buffered(e)' = Buffered(e) - n
    BY <1>6, <1>7 DEF Taken, Buffered
  <2>2. Taken(e) \in Nat /\ Buffered(e) \in Nat
    BY Typed
  <2> QED  BY <1>4, <2>1, <2>2 DEF Received
<1>12. ASSUME NEW x \in Ends
       PROVE  Taken(x) <= Taken(x)' /\ Received(x)' = Received(x)
  <2>1. CASE x = e
    BY <1>4, <1>11, <2>1
  <2>2. CASE x # e
    <3>1. Taken(x)' = Taken(x) /\ Received(x)' = Received(x)
      BY <1>8, <2>2 DEF Taken, Received, Buffered
    <3> QED  BY <3>1, Typed
  <2> QED  BY <2>1, <2>2
<1>13. ASSUME NEW x \in Ends PROVE WindowAccounted(x)' /\ AdjustCovered(x)'
  <2>1. WindowAccounted(x) /\ AdjustCovered(x)
    BY DEF IInv, EndInv
  <2>2. CASE x = e
    <3>1. Uncounted(e) = 0 /\ Untold(e) = 0 /\ Uncounted(e)' = n /\ Untold(e)' = n
      BY <1>2, <1>9 DEF Uncounted, Untold
    <3>2. myWindow[e] \in Nat /\ adjusted[e] \in Nat
      BY Typed
    <3>3. WindowAccounted(e)'
      BY <1>2, <1>4, <1>11, <2>1, <2>2, <3>1, <3>2 DEF WindowAccounted
    <3>4. AdjustCovered(e)'
      BY <1>2, <1>4, <1>11, <2>1, <2>2, <3>1, <3>2 DEF AdjustCovered
    <3> QED  BY <2>2, <3>3, <3>4
  <2>3. CASE x # e
    BY <1>2, <1>8, <2>1, <2>3
       DEF WindowAccounted, AdjustCovered, Uncounted, Untold, Taken, Buffered
  <2> QED  BY <2>2, <2>3
<1>14. ASSUME NEW x \in Ends PROVE WireInv(x)' /\ LoopConsistent(x)'
  <2>1. WireInv(x) /\ LoopConsistent(x)
    BY DEF IInv, EndInv
  <2> QED  BY <1>2, <1>12, <2>1 DEF WireInv, Serving, LoopConsistent, Complete
<1>15. InOrder'
  <2>1. ASSUME NEW x \in Ends
        PROVE  /\ \A i \in 1 .. Len(got'[x]) : got'[x][i] = i
               /\ \A i \in 1 .. Len(pending'[x]) : pending'[x][i] = Len(got'[x]) + i
    <3>1. CASE x = e
      <4>1. /\ \A i \in 1 .. Len(g) : g[i] = i
            /\ \A i \in 1 .. Len(p) : p[i] = Len(g) + i
        BY DEF IInv, InOrder
      <4> HIDE DEF g, p
      <4>2. ASSUME NEW i \in 1 .. Len(got'[e]) PROVE got'[e][i] = i
        <5>1. CASE i <= Len(g)
          <6>1. i \in 1 .. Len(g)
            BY <1>4, <1>7, <5>1
          <6> QED  BY <1>7, <4>1, <6>1
        <5>2. CASE ~(i <= Len(g))
          <6>1. i - Len(g) \in 1 .. n /\ i - Len(g) \in 1 .. Len(p)
            BY <1>4, <1>7, <5>2 DEF p
          <6>2. Len(g) + (i - Len(g)) = i
            BY <1>4
          <6> QED  BY <1>7, <4>1, <6>1, <6>2
        <5> QED  BY <5>1, <5>2
      <4>3. ASSUME NEW i \in 1 .. Len(pending'[e])
            PROVE  pending'[e][i] = Len(got'[e]) + i
        <5>1. n + i \in 1 .. Len(p) /\ i \in 1 .. Len(p) - n
          BY <1>4, <1>6 DEF p
        <5>2. Len(g) + (n + i) = Len(got'[e]) + i
          BY <1>4, <1>7
        <5> QED  BY <1>6, <4>1, <5>1, <5>2
      <4> QED  BY <3>1, <4>2, <4>3
    <3>2. CASE x # e
      BY <1>8, <3>2 DEF IInv, InOrder
    <3> QED  BY <3>1, <3>2
  <2>2. ASSUME NEW x \in Ends PROVE Received(x)' <= sent'[Other(x)]
    <3>1. Received(x) <= sent[Other(x)]
      BY OtherEnds, Room
    <3> QED  BY <1>2, <1>12, <3>1
  <2> QED  BY <2>1, <2>2 DEF InOrder, Received, Taken, Buffered
<1>16. EofAfterData'
  <2>1. ASSUME NEW x \in Ends, eof[x], err[x] = "none"
        PROVE  fin[Other(x)] # -1 /\ fin[Other(x)] <= Taken(x)'
    <3>1. fin[Other(x)] # -1 /\ fin[Other(x)] <= Taken(x)
      BY <2>1 DEF IInv, EofAfterData, Taken
    <3>2. fin[Other(x)] \in Int /\ Taken(x) \in Int /\ Taken(x)' \in Int
      <4>1. Taken(x)' \in Nat
        BY <1>10 DEF TypeOK, Taken
      <4>2. fin[Other(x)] \in Nat \cup {-1} /\ Taken(x) \in Nat
        BY OtherEnds, Typed
      <4> QED  BY <4>1, <4>2
    <3> QED  BY <1>12, <3>1, <3>2
  <2> QED  BY <1>2, <2>1 DEF EofAfterData, Taken
<1> QED
  BY <1>2, <1>10, <1>13, <1>14, <1>15, <1>16, KeepCredit, KeepReservation, KeepFlow,
     KeepFin
     DEF IInv, EndInv

LEMMA ReadEOFStep ==
    ASSUME IInv, NEW e \in Ends, ReadEOF(e)
    PROVE  IInv'
<1>1. /\ pending[e] = <<>> /\ bufClosed[e] /\ eof' = [eof EXCEPT ![e] = TRUE]
      /\ UNCHANGED <<remoteWin, winClosed, myWindow, pending, bufClosed, sentEOF,
                     sentClose, linked, connClosed, loop, err, wire, writer, reader,
                     sent, fin, got, adjusted, acked>>
  BY DEF ReadEOF, Drained
<1>2. eof \in [Ends -> BOOLEAN]
  BY DEF IInv, TypeOK
<1>3. TypeOK'
  BY <1>1, <1>2 DEF IInv, TypeOK
<1>4. err[e] = "none" => fin[Other(e)] # -1 /\ fin[Other(e)] <= Taken(e)
  <2>1. err[e] = "none" => Complete(e)
    BY <1>1 DEF IInv, EndInv, LoopConsistent
  <2>2. Received(e) = Taken(e)
    <3>1. Buffered(e) = 0 /\ Taken(e) \in Nat
      BY <1>1, Typed DEF Buffered
    <3> QED  BY <3>1 DEF Received
  <2> QED  BY <2>1, <2>2 DEF Complete
<1>5. EofAfterData'
  BY <1>1, <1>2, <1>4 DEF IInv, EofAfterData, Taken
<1> QED
  BY <1>1, <1>3, <1>5, KeepWindow, KeepCredit, KeepAdjust, KeepReservation, KeepWire,
     KeepLoop, KeepOrder, KeepFlow, KeepFin DEF IInv, EndInv

LEMMA AdjustWindowStep ==
    ASSUME IInv, NEW e \in Ends, AdjustWindow(e)
    PROVE  IInv'
<1>1. /\ reader[e].pc = "adjust"
      /\ myWindow' = [myWindow EXCEPT ![e] = (@ + reader[e].n) % Word]
      /\ reader' = [reader EXCEPT ![e].pc = "send"]
      /\ UNCHANGED <<remoteWin, winClosed, pending, bufClosed, sentEOF, sentClose,
                     linked, connClosed, loop, err, wire, writer, sent, fin, got, eof,
                     adjusted, acked>>
  BY DEF AdjustWindow
<1>2. /\ myWindow \in [Ends -> 0 .. Word - 1]
      /\ reader \in [Ends -> [pc : {"idle", "adjust", "send"}, n : Nat]]
  BY DEF IInv, TypeOK
<1>3. myWindow[e] + reader[e].n + Buffered(e) = WindowOf[e]
  <2>1. Uncounted(e) = reader[e].n
    BY <1>1 DEF Uncounted
  <2> QED  BY <2>1, Typed DEF IInv, EndInv, WindowAccounted
<1>4. (myWindow[e] + reader[e].n) % Word = myWindow[e] + reader[e].n
  <2>1. /\ myWindow[e] \in Nat /\ reader[e].n \in Nat /\ Buffered(e) \in Nat
        /\ WindowOf[e] \in Nat /\ WindowOf[e] < Word /\ Word \in Nat \ {0}
    BY Bounds, Typed
  <2>2. myWindow[e] + reader[e].n \in 0 .. Word - 1
    BY <1>3, <2>1
  <2> QED  BY <2>1, <2>2, ModExact
<1>5. /\ myWindow'[e] = myWindow[e] + reader[e].n
      /\ reader'[e].pc = "send" /\ reader'[e].n = reader[e].n
  BY <1>1, <1>2, <1>4
<1>6. ASSUME NEW x \in Ends, x # e
      PROVE  myWindow'[x] = myWindow[x] /\ reader'[x] = reader[x]
  BY <1>1, <1>2, <1>6
<1>7. TypeOK'
  <2>1. myWindow[e] + reader[e].n \in Nat
    BY Typed
  <2>2. myWindow' \in [Ends -> 0 .. Word - 1]
    BY <1>1, <1>2, <2>1, Bounds, ModExact
  <2>3. reader' \in [Ends -> [pc : {"idle", "adjust", "send"}, n : Nat]]
    BY <1>1, <1>2
  <2> QED  BY <1>1, <2>2, <2>3 DEF IInv, TypeOK
<1>8. ASSUME NEW x \in Ends PROVE WindowAccounted(x)' /\ AdjustCovered(x)'
  <2>1. WindowAccounted(x) /\ AdjustCovered(x)
    BY DEF IInv, EndInv
  <2>2. CASE x = e
    <3>1. /\ Uncounted(e)' = 0 /\ Untold(e) = reader[e].n /\ Untold(e)' = reader[e].n
          /\ Buffered(e)' = Buffered(e) /\ Taken(e)' = Taken(e)
      BY <1>1, <1>5 DEF Uncounted, Untold, Buffered, Taken
    <3>2. myWindow[e] \in Nat /\ reader[e].n \in Nat /\ Buffered(e) \in Nat
      BY Typed
    <3>3. WindowAccounted(e)'
      BY <1>3, <1>5, <3>1, <3>2 DEF WindowAccounted
    <3>4. AdjustCovered(e)'
      BY <1>1, <2>1, <2>2, <3>1 DEF AdjustCovered
    <3> QED  BY <2>2, <3>3, <3>4
  <2>3. CASE x # e
    BY <1>1, <1>6, <2>1, <2>3
       DEF WindowAccounted, AdjustCovered, Uncounted, Untold, Taken, Buffered
  <2> QED  BY <2>2, <2>3
<1> QED
  BY <1>1, <1>7, <1>8, KeepCredit, KeepReservation, KeepWire, KeepLoop, KeepOrder,
     KeepEof, KeepFlow, KeepFin DEF IInv, EndInv

LEMMA SendAdjustStep ==
    ASSUME IInv, NEW e \in Ends, SendAdjust(e)
    PROVE  IInv'
<1> DEFINE o == Other(e)
           n == reader[e].n
           quiet == Refused(e) \/ connClosed[e]
           m == Message("WindowAdjust", n, sent[e], adjusted[e] + n)
<1>1. /\ reader[e].pc = "send"
      /\ IF Refused(e) THEN UNCHANGED wire ELSE Encode(e, m)
      /\ adjusted' = IF quiet THEN adjusted ELSE [adjusted EXCEPT ![e] = @ + n]
      /\ reader' = [reader EXCEPT ![e] = Resting]
      /\ UNCHANGED <<remoteWin, winClosed, myWindow, pending, bufClosed, sentEOF,
                     sentClose, linked, connClosed, loop, err, writer, sent, fin, got,
                     eof, acked>>
  BY DEF SendAdjust
<1>2. o \in Ends /\ Other(o) = e /\ o # e
  BY OtherEnds
<1>3. /\ n \in Nat /\ sent[e] \in Nat /\ adjusted[e] \in Nat /\ myWindow[e] \in Nat
      /\ Taken(e) \in Nat
  BY Typed
<1>4. Untold(e) = n /\ Uncounted(e) = 0
  BY <1>1 DEF Untold, Uncounted
<1>5. /\ adjusted \in [Ends -> Nat] /\ wire \in [Ends -> Seq(Messages)]
      /\ reader \in [Ends -> [pc : {"idle", "adjust", "send"}, n : Nat]]
  BY DEF IInv, TypeOK
<1> HIDE DEF n
<1>6. /\ m \in Messages /\ m.type = "WindowAdjust" /\ m.n = n
      /\ m.at = sent[e] /\ m.adj = adjusted[e] + n
  <2>1. "WindowAdjust" \in Types /\ adjusted[e] + n \in Nat
    BY <1>3 DEF Types
  <2> QED  BY <1>3, <2>1 DEF Message, Messages
<1> HIDE DEF m
<1>7. TypeOK'
  <2>1. adjusted' \in [Ends -> Nat]
    BY <1>1, <1>3, <1>5
  <2>2. reader' \in [Ends -> [pc : {"idle", "adjust", "send"}, n : Nat]]
    BY <1>1, <1>5 DEF Resting
  <2>3. wire' \in [Ends -> Seq(Messages)]
    BY <1>1, <1>5, <1>6, EncodeType
  <2> QED  BY <1>1, <2>1, <2>2, <2>3 DEF IInv, TypeOK
<1>8. /\ reader'[e].pc = "idle" /\ reader'[e].n = 0
      /\ adjusted'[e] = adjusted[e] \/ adjusted'[e] = adjusted[e] + n
      /\ adjusted'[o] = adjusted[o] /\ reader'[o] = reader[o] /\ wire'[o] = wire[o]
  BY <1>1, <1>2, <1>5 DEF Resting, Encode
<1>9. ASSUME NEW x \in Ends PROVE WindowAccounted(x)' /\ AdjustCovered(x)'
  <2>1. WindowAccounted(x) /\ AdjustCovered(x) /\ AdjustCovered(e) /\ AdjustCovered(o)
    BY <1>2 DEF IInv, EndInv
  <2>2. CASE x = e
    <3>1. /\ Uncounted(e)' = 0 /\ Untold(e)' = 0
          /\ Buffered(e)' = Buffered(e) /\ Taken(e)' = Taken(e)
      BY <1>1, <1>8 DEF Uncounted, Untold, Buffered, Taken
    <3>2. WindowAccounted(e)'
      BY <1>1, <1>4, <2>1, <2>2, <3>1 DEF WindowAccounted
    <3>3. AdjustCovered(e)'
      BY <1>1, <1>3, <1>4, <1>8, <2>1, <3>1 DEF AdjustCovered
    <3> QED  BY <2>2, <3>2, <3>3
  <2>3. CASE x = o
    <3>1. /\ Uncounted(o)' = Uncounted(o) /\ Untold(o)' = Untold(o)
          /\ Buffered(o)' = Buffered(o) /\ Taken(o)' = Taken(o)
      BY <1>1, <1>8 DEF Uncounted, Untold, Buffered, Taken
    <3>2. WindowAccounted(o)'
      BY <1>1, <2>1, <2>3, <3>1 DEF WindowAccounted
    <3>3. acked[o] \in Nat
      BY <1>2, Typed
    <3>4. AdjustCovered(o)'
      BY <1>1, <1>2, <1>3, <1>8, <2>1, <3>1, <3>3 DEF AdjustCovered
    <3> QED  BY <2>3, <3>2, <3>4
  <2> QED  BY <2>2, <2>3 DEF Ends, Other
<1>10. WireInv(e)'
  BY <1>1, <1>8, KeepWireAt DEF Serving
<1>11. WireInv(o)'
  <2>1. CASE connClosed[o]
    BY <1>1, <2>1 DEF WireInv, Serving
  <2>2. CASE quiet
    BY <1>1, <1>2, <2>2, KeepWireAt DEF Serving, Encode
  <2>3. CASE ~quiet /\ ~connClosed[o]
    <3>1. wire'[e] = Append(wire[e], m) /\ adjusted'[e] = m.adj
      BY <1>1, <1>5, <1>6, <2>3 DEF Encode
    <3>2. DataBefore(m) = sent[e] /\ AdjustedBefore(m) = adjusted[e]
      BY <1>3, <1>6 DEF DataBefore, AdjustedBefore
    <3> HIDE DEF o
    <3> QED  BY <1>1, <1>6, <3>1, <3>2, AppendWireAt DEF Serving, o
  <2> QED  BY <2>1, <2>2, <2>3
<1>12. ASSUME NEW x \in Ends PROVE WireInv(x)'
  BY <1>10, <1>11 DEF Ends, Other
<1> QED
  BY <1>1, <1>7, <1>9, <1>12, KeepCredit, KeepReservation, KeepLoop, KeepOrder, KeepEof,
     KeepFlow, KeepFin DEF IInv, EndInv

(* What the parts that mention fin say once an end mark has been sent. *)
LEMMA FinKept ==
    ASSUME IInv, NEW e \in Ends, Ended(e),
           UNCHANGED <<sent, got, pending, eof, err, bufClosed>>
    PROVE  /\ fin' \in [Ends -> Nat \cup {-1}]
           /\ fin'[Other(e)] = fin[Other(e)]
           /\ fin[e] = -1 \/ fin'[e] = fin[e]
           /\ ~Refused(e) /\ ~connClosed[e] => fin'[e] # -1 /\ fin'[e] <= sent[e]
           /\ EofAfterData'
           /\ \A x \in Ends : FinSent(x)'
           /\ \A x \in Ends : Complete(x) => Complete(x)'
<1>1. fin \in [Ends -> Nat \cup {-1}] /\ sent \in [Ends -> Nat]
  BY DEF IInv, TypeOK
<1>2. fin' \in [Ends -> Nat \cup {-1}]
  BY <1>1 DEF Ended
<1>3. ASSUME NEW x \in Ends PROVE fin[x] = -1 \/ fin'[x] = fin[x]
  BY <1>1 DEF Ended
<1>4. fin'[Other(e)] = fin[Other(e)]
  BY <1>1, OtherEnds DEF Ended
<1>5. fin[e] # -1 => fin[e] <= sent[e]
  BY DEF IInv, EndInv, FinSent
<1>6. ~Refused(e) /\ ~connClosed[e] => fin'[e] # -1 /\ fin'[e] <= sent[e]
  BY <1>1, <1>5 DEF Ended
<1>7. EofAfterData'
  BY <1>3, OtherEnds DEF IInv, EofAfterData
<1>8. ASSUME NEW x \in Ends, Complete(x) PROVE Complete(x)'
  BY <1>3, <1>8, OtherEnds DEF Complete, Received, Taken, Buffered
<1>9. ASSUME NEW x \in Ends PROVE FinSent(x)'
  <2>1. FinSent(x)
    BY DEF IInv, EndInv
  <2>2. fin'[x] = fin[x] \/ fin'[x] = sent[x]
    BY <1>1 DEF Ended
  <2> QED  BY <1>1, <2>1, <2>2 DEF FinSent
<1> QED  BY <1>2, <1>3, <1>4, <1>6, <1>7, <1>8, <1>9

(* CloseWrite and Close send an end mark by channel.send. *)
LEMMA SendEndStep ==
    ASSUME IInv, NEW e \in Ends, NEW type \in {"EOF", "Close"}, SendEnd(e, type),
           sentEOF' \in [Ends -> BOOLEAN], sentClose' \in [Ends -> BOOLEAN],
           UNCHANGED <<remoteWin, winClosed, myWindow, pending, bufClosed, linked,
                       connClosed, loop, err, writer, reader, sent, got, eof, adjusted,
                       acked>>
    PROVE  IInv'
<1> DEFINE o == Other(e)
           m == Message(type, 0, sent[e], adjusted[e])
<1>1. /\ IF Refused(e) THEN UNCHANGED wire ELSE Encode(e, m)
      /\ Ended(e)
  BY DEF SendEnd
<1>2. o \in Ends /\ Other(o) = e /\ o # e
  BY OtherEnds
<1>3. sent[e] \in Nat /\ adjusted[e] \in Nat /\ wire \in [Ends -> Seq(Messages)]
  BY Typed DEF IInv, TypeOK
<1>4. /\ m \in Messages /\ m.type = type /\ m.n = 0 /\ m.at = sent[e]
      /\ m.adj = adjusted[e]
  <2>1. type \in Types
    BY DEF Types
  <2> QED  BY <1>3, <2>1 DEF Message, Messages
<1> HIDE DEF m
<1>5. /\ fin' \in [Ends -> Nat \cup {-1}] /\ fin'[o] = fin[o]
      /\ fin[e] = -1 \/ fin'[e] = fin[e]
      /\ ~Refused(e) /\ ~connClosed[e] => fin'[e] # -1 /\ fin'[e] <= sent[e]
      /\ EofAfterData'
      /\ \A x \in Ends : FinSent(x)'
      /\ \A x \in Ends : Complete(x) => Complete(x)'
  BY <1>1, FinKept
<1>6. TypeOK'
  <2>1. wire' \in [Ends -> Seq(Messages)]
    BY <1>1, <1>3, <1>4, EncodeType
  <2> QED  BY <1>5, <2>1 DEF IInv, TypeOK
<1>7. wire'[o] = wire[o]
  BY <1>1, <1>2, <1>3 DEF Encode
<1>8. WireInv(e)'
  BY <1>5, <1>7, KeepWireAt DEF Serving
<1>9. WireInv(o)'
  <2>1. CASE connClosed[o]
    BY <2>1 DEF WireInv, Serving
  <2>2. CASE Refused(e) \/ connClosed[e]
    <3>1. wire'[e] = wire[e] /\ fin'[e] = fin[e]
      BY <1>1, <2>2 DEF Encode, Ended
    <3> QED  BY <1>2, <3>1, KeepWireAt DEF Serving
  <2>3. CASE ~Refused(e) /\ ~connClosed[e] /\ ~connClosed[o]
    <3>1. wire'[e] = Append(wire[e], m)
      BY <1>1, <1>3, <2>3 DEF Encode
    <3>2. DataBefore(m) = sent[e] /\ AdjustedBefore(m) = adjusted[e]
      BY <1>4 DEF DataBefore, AdjustedBefore
    <3> HIDE DEF o
    <3> QED  BY <1>4, <1>5, <2>3, <3>1, <3>2, AppendWireAt DEF Serving, o
  <2> QED  BY <2>1, <2>2, <2>3
<1>10. ASSUME NEW x \in Ends PROVE WireInv(x)'
  BY <1>8, <1>9 DEF Ends, Other
<1>11. ASSUME NEW x \in Ends PROVE LoopConsistent(x)'
  <2>1. LoopConsistent(x)
    BY DEF IInv, EndInv
  <2> QED  BY <1>5, <2>1 DEF LoopConsistent
<1> QED
  BY <1>5, <1>6, <1>10, <1>11, KeepWindow, KeepCredit, KeepAdjust, KeepReservation,
     KeepOrder, KeepFlow DEF IInv, EndInv

LEMMA CloseWriteStep ==
    ASSUME IInv, NEW e \in Ends, CloseWrite(e)
    PROVE  IInv'
<1>1. sentEOF' \in [Ends -> BOOLEAN] /\ sentClose' \in [Ends -> BOOLEAN]
  BY DEF CloseWrite, IInv, TypeOK
<1> QED  BY <1>1, SendEndStep DEF CloseWrite

LEMMA CloseStep ==
    ASSUME IInv, NEW e \in Ends, Close(e)
    PROVE  IInv'
<1>1. sentEOF' \in [Ends -> BOOLEAN] /\ sentClose' \in [Ends -> BOOLEAN]
  BY DEF Close, IInv, TypeOK
<1> QED  BY <1>1, SendEndStep DEF Close

(* Closing the connection ends what WireInv says of this end. *)
LEMMA CloseConnKeeps ==
    ASSUME IInv, NEW e \in Ends, CloseConn(e),
           UNCHANGED <<err, got, pending, sent, acked, adjusted, fin>>
    PROVE  /\ wire' \in [Ends -> Seq(Messages)]
           /\ connClosed' \in [Ends -> BOOLEAN]
           /\ \A x \in Ends : WireInv(x)'
<1>1. wire \in [Ends -> Seq(Messages)] /\ connClosed \in [Ends -> BOOLEAN]
  BY DEF IInv, TypeOK
<1>2. wire' \in [Ends -> Seq(Messages)] /\ connClosed' \in [Ends -> BOOLEAN]
  BY <1>1, EmptySeq DEF CloseConn
<1>3. WireInv(e)'
  BY <1>1 DEF CloseConn, WireInv, Serving
<1>4. WireInv(Other(e))'
  <2>1. wire'[e] = wire[e] /\ connClosed'[Other(e)] = connClosed[Other(e)]
    BY <1>1, OtherEnds DEF CloseConn
  <2> QED  BY <2>1, OtherEnds, KeepWireAt DEF Serving
<1> QED  BY <1>2, <1>3, <1>4 DEF Ends, Other

LEMMA SessionCloseStep ==
    ASSUME IInv, NEW e \in Ends, SessionClose(e)
    PROVE  IInv'
<1>1. /\ CloseConn(e)
      /\ UNCHANGED <<remoteWin, winClosed, myWindow, pending, bufClosed, sentEOF,
                     sentClose, linked, loop, err, writer, reader, sent, fin, got, eof,
                     adjusted, acked>>
  BY DEF SessionClose
<1>2. TypeOK'
  BY <1>1, CloseConnKeeps DEF IInv, TypeOK
<1> QED
  BY <1>1, <1>2, CloseConnKeeps, KeepWindow, KeepCredit, KeepAdjust, KeepReservation,
     KeepLoop, KeepOrder, KeepEof, KeepFlow, KeepFin DEF IInv, EndInv

LEMMA LoopExitStep ==
    ASSUME IInv, NEW e \in Ends, LoopExit(e)
    PROVE  IInv'
<1>1. /\ CloseConn(e)
      /\ loop[e] = "dropped" /\ loop' = [loop EXCEPT ![e] = "done"]
      /\ UNCHANGED <<remoteWin, winClosed, myWindow, pending, bufClosed, sentEOF,
                     sentClose, linked, err, writer, reader, sent, fin, got, eof,
                     adjusted, acked>>
  BY DEF LoopExit
<1>2. loop \in [Ends -> Places]
  BY DEF IInv, TypeOK
<1>3. TypeOK'
  <2>1. loop' \in [Ends -> Places]
    BY <1>1, <1>2 DEF Places
  <2> QED  BY <1>1, <2>1, CloseConnKeeps DEF IInv, TypeOK
<1>4. ASSUME NEW x \in Ends PROVE LoopConsistent(x)'
  BY <1>1, <1>2 DEF IInv, EndInv, LoopConsistent, Complete, Received, Taken, Buffered
<1> QED
  BY <1>1, <1>3, <1>4, CloseConnKeeps, KeepWindow, KeepCredit, KeepAdjust,
     KeepReservation, KeepOrder, KeepEof, KeepFlow, KeepFin DEF IInv, EndInv

(* e takes the next message from the connection and cannot go on. *)
LEMMA FailStep ==
    ASSUME IInv, NEW e \in Ends,
           loop[e] = "reading", err'[e] # "none", err' \in [Ends -> Reasons],
           err'[e] \notin {"tooLarge", "tooMuch", "window"},
           err' = [err EXCEPT ![e] = err'[e]],
           loop' = [loop EXCEPT ![e] = "failed"],
           wire' = wire \/ (Consume(e) /\ wire[Other(e)] # <<>>),
           UNCHANGED <<remoteWin, winClosed, myWindow, pending, bufClosed, sentEOF,
                       sentClose, linked, connClosed, writer, reader, sent, fin, got,
                       eof, adjusted, acked>>
    PROVE  IInv'
<1>1. /\ loop \in [Ends -> Places] /\ wire \in [Ends -> Seq(Messages)]
      /\ err \in [Ends -> Reasons]
  BY DEF IInv, TypeOK
<1>2. TypeOK'
  <2>1. loop' \in [Ends -> Places]
    BY <1>1 DEF Places
  <2>2. CASE wire' = wire
    BY <1>1, <2>1, <2>2 DEF IInv, TypeOK
  <2>3. CASE Consume(e) /\ wire[Other(e)] # <<>>
    <3>1. Tail(wire[Other(e)]) \in Seq(Messages)
      BY <1>1, <2>3, OtherEnds, TailFacts
    <3>2. wire' \in [Ends -> Seq(Messages)]
      BY <1>1, <2>3, <3>1 DEF Consume
    <3> QED  BY <2>1, <3>2 DEF IInv, TypeOK
  <2> QED  BY <2>2, <2>3
<1>3. WireInv(e)'
  BY DEF WireInv, Serving
<1>4. WireInv(Other(e))'
  <2>1. wire'[e] = wire[e] /\ err'[Other(e)] = err[Other(e)]
    BY <1>1, OtherEnds DEF Consume
  <2> QED  BY <2>1, OtherEnds, KeepWireAt DEF Serving
<1>5. ASSUME NEW x \in Ends PROVE WireInv(x)'
  BY <1>3, <1>4 DEF Ends, Other
<1>6. ASSUME NEW x \in Ends PROVE LoopConsistent(x)'
  BY <1>1 DEF IInv, EndInv, LoopConsistent, Complete, Received, Taken, Buffered
<1>7. EofAfterData' /\ FlowControl'
  BY <1>1 DEF IInv, EofAfterData, FlowControl
<1> QED
  BY <1>2, <1>5, <1>6, <1>7, KeepWindow, KeepCredit, KeepAdjust, KeepReservation,
     KeepOrder, KeepFin DEF IInv, EndInv

LEMMA InvalidChannelStep ==
    ASSUME IInv, NEW e \in Ends, InvalidChannel(e)
    PROVE  IInv'
<1>1. err \in [Ends -> Reasons]
  BY DEF IInv, TypeOK
<1>2. err'[e] = "invalid" /\ err' = [err EXCEPT ![e] = err'[e]] /\ err' \in [Ends -> Reasons]
  BY <1>1 DEF InvalidChannel, FailWith, Reasons
<1> QED  BY <1>2, FailStep DEF InvalidChannel, FailWith

LEMMA ConnErrorStep ==
    ASSUME IInv, NEW e \in Ends, ConnError(e)
    PROVE  IInv'
<1>1. err \in [Ends -> Reasons]
  BY DEF IInv, TypeOK
<1>2. err'[e] = "conn" /\ err' = [err EXCEPT ![e] = err'[e]] /\ err' \in [Ends -> Reasons]
  BY <1>1 DEF ConnError, FailWith, Reasons
<1> QED  BY <1>2, FailStep DEF ConnError, FailWith

(* The steps of channel.close and dropAll move only the loop and flags. *)
LEMMA ClosingStep ==
    ASSUME IInv, NEW e \in Ends,
           NEW to \in Places, loop' = [loop EXCEPT ![e] = to],
           to = "reading" => err[e] = "none",
           to \in {"failed", "dropped", "done"} => err[e] # "none",
           to \in {"closing", "marking", "releasing"} \/ bufClosed'[e] =>
              err[e] # "none" \/ Complete(e),
           bufClosed' = [bufClosed EXCEPT ![e] = bufClosed'[e]],
           bufClosed' \in [Ends -> BOOLEAN], winClosed' \in [Ends -> BOOLEAN],
           sentClose' \in [Ends -> BOOLEAN], linked' \in [Ends -> BOOLEAN],
           UNCHANGED <<remoteWin, myWindow, pending, sentEOF, connClosed, err, wire,
                       writer, reader, sent, fin, got, eof, adjusted, acked>>
    PROVE  IInv'
<1>1. loop \in [Ends -> Places] /\ bufClosed \in [Ends -> BOOLEAN]
  BY DEF IInv, TypeOK
<1>2. TypeOK'
  BY <1>1 DEF IInv, TypeOK
<1>3. ASSUME NEW x \in Ends PROVE LoopConsistent(x)'
  <2>1. LoopConsistent(x) /\ (Complete(x)' <=> Complete(x))
    BY DEF IInv, EndInv, Complete, Received, Taken, Buffered
  <2>2. CASE x = e
    BY <1>1, <2>1, <2>2 DEF LoopConsistent
  <2>3. CASE x # e
    <3>1. loop'[x] = loop[x] /\ bufClosed'[x] = bufClosed[x]
      BY <1>1, <2>3
    <3> QED  BY <2>1, <3>1 DEF LoopConsistent
  <2> QED  BY <2>2, <2>3
<1> QED
  BY <1>2, <1>3, KeepWindow, KeepCredit, KeepAdjust, KeepReservation, KeepWire,
     KeepOrder, KeepEof, KeepFlow, KeepFin DEF IInv, EndInv

LEMMA BufferEOFStep ==
    ASSUME IInv, NEW e \in Ends, BufferEOF(e)
    PROVE  IInv'
<1>1. /\ bufClosed \in [Ends -> BOOLEAN] /\ linked \in [Ends -> BOOLEAN]
      /\ winClosed \in [Ends -> BOOLEAN] /\ sentClose \in [Ends -> BOOLEAN]
  BY DEF IInv, TypeOK
<1>2. err[e] # "none" \/ Complete(e)
  BY DEF BufferEOF, IInv, EndInv, LoopConsistent
<1>3. /\ bufClosed' = [bufClosed EXCEPT ![e] = bufClosed'[e]]
      /\ bufClosed' \in [Ends -> BOOLEAN] /\ linked' \in [Ends -> BOOLEAN]
  BY <1>1 DEF BufferEOF, SignalEOF
<1>4. "marking" \in Places
  BY DEF Places
<1> QED  BY <1>1, <1>2, <1>3, <1>4, ClosingStep DEF BufferEOF

LEMMA MarkClosedStep ==
    ASSUME IInv, NEW e \in Ends, MarkClosed(e)
    PROVE  IInv'
<1>1. /\ bufClosed \in [Ends -> BOOLEAN] /\ linked \in [Ends -> BOOLEAN]
      /\ winClosed \in [Ends -> BOOLEAN] /\ sentClose' \in [Ends -> BOOLEAN]
  BY DEF IInv, TypeOK, MarkClosed
<1>2. err[e] # "none" \/ Complete(e)
  BY DEF MarkClosed, IInv, EndInv, LoopConsistent
<1>3. bufClosed = [bufClosed EXCEPT ![e] = bufClosed[e]] /\ "releasing" \in Places
  BY <1>1 DEF Places
<1> QED  BY <1>1, <1>2, <1>3, ClosingStep DEF MarkClosed

LEMMA ReleaseWriterStep ==
    ASSUME IInv, NEW e \in Ends, ReleaseWriter(e)
    PROVE  IInv'
<1> DEFINE to == IF err[e] = "none" THEN "reading" ELSE "dropped"
<1>1. /\ bufClosed \in [Ends -> BOOLEAN] /\ linked \in [Ends -> BOOLEAN]
      /\ winClosed' \in [Ends -> BOOLEAN] /\ sentClose \in [Ends -> BOOLEAN]
  BY DEF IInv, TypeOK, ReleaseWriter, CloseWindow
<1>2. err[e] # "none" \/ Complete(e)
  BY DEF ReleaseWriter, IInv, EndInv, LoopConsistent
<1>3. bufClosed = [bufClosed EXCEPT ![e] = bufClosed[e]] /\ to \in Places
  BY <1>1 DEF Places
<1>4. loop' = [loop EXCEPT ![e] = to]
  BY DEF ReleaseWriter
<1>5. /\ to = "reading" => err[e] = "none"
      /\ to \in {"failed", "dropped", "done"} => err[e] # "none"
  OBVIOUS
<1> HIDE DEF to
<1> QED  BY <1>1, <1>2, <1>3, <1>4, <1>5, ClosingStep DEF ReleaseWriter

LEMMA DropAllStep ==
    ASSUME IInv, NEW e \in Ends, DropAll(e)
    PROVE  IInv'
<1> DEFINE to == IF linked[e] THEN "closing" ELSE "dropped"
<1>1. /\ bufClosed \in [Ends -> BOOLEAN] /\ linked \in [Ends -> BOOLEAN]
      /\ winClosed \in [Ends -> BOOLEAN] /\ sentClose \in [Ends -> BOOLEAN]
  BY DEF IInv, TypeOK
<1>2. err[e] # "none"
  BY DEF DropAll, IInv, EndInv, LoopConsistent
<1>3. bufClosed = [bufClosed EXCEPT ![e] = bufClosed[e]] /\ to \in Places
  BY <1>1 DEF Places
<1>4. loop' = [loop EXCEPT ![e] = to] /\ to # "reading"
  BY DEF DropAll
<1> HIDE DEF to
<1> QED  BY <1>1, <1>2, <1>3, <1>4, ClosingStep DEF DropAll

LEMMA ConsumeFacts ==
    ASSUME IInv, NEW e \in Ends, NEW type, Incoming(e, type)
    PROVE  /\ Serving(e)
           /\ wire[Other(e)] # <<>>
           /\ Head(wire[Other(e)]).type = type
           /\ loop[e] = "reading"
           /\ Consume(e) => /\ wire' \in [Ends -> Seq(Messages)]
                            /\ wire'[Other(e)] = Tail(wire[Other(e)])
                            /\ wire'[e] = wire[e]
<1>1. loop[e] = "reading" /\ ~connClosed[e] /\ wire[Other(e)] # <<>>
      /\ Head(wire[Other(e)]).type = type
  BY DEF Incoming
<1>2. err[e] = "none"
  BY <1>1 DEF IInv, EndInv, LoopConsistent
<1>3. wire \in [Ends -> Seq(Messages)]
  BY DEF IInv, TypeOK
<1>4. Tail(wire[Other(e)]) \in Seq(Messages)
  BY <1>1, <1>3, OtherEnds, TailFacts
<1>5. Consume(e) => /\ wire' \in [Ends -> Seq(Messages)]
                    /\ wire'[Other(e)] = Tail(wire[Other(e)])
                    /\ wire'[e] = wire[e]
  BY <1>3, <1>4, OtherEnds DEF Consume
<1> QED  BY <1>1, <1>2, <1>5 DEF Serving

LEMMA HandleDataStep ==
    ASSUME IInv, NEW e \in Ends, HandleData(e)
    PROVE  IInv'
<1> DEFINE o == Other(e)
           m == Head(wire[o])
           n == m.n
           p == pending[e]
           base == m.at - n
           more == [i \in 1 .. n |-> base + i]
<1>1. o \in Ends /\ Other(o) = e /\ o # e
  BY OtherEnds
<1>2. Incoming(e, "Data") /\ Consume(e)
  BY DEF HandleData
<1>3. /\ Serving(e) /\ wire[o] # <<>> /\ m.type = "Data"
      /\ wire' \in [Ends -> Seq(Messages)] /\ wire'[o] = Tail(wire[o])
      /\ wire'[e] = wire[e]
  BY <1>2, ConsumeFacts
<1>4. /\ m \in Messages /\ base = Received(e) /\ m.adj = acked[e]
      /\ m.at <= sent[o] /\ n <= MaxPacketOf[e]
  BY <1>3, NextMessage DEF DataBefore, AdjustedBefore
<1>5. n \in Nat /\ m.at \in Nat /\ m.adj \in Nat
  BY <1>4 DEF Messages
<1>6. n <= myWindow[e]
  <2>1. sent[o] + Held(o) + remoteWin[o] <= WindowOf[e] + Taken(e) - Untold(e)
    BY <1>1, Room
  <2>2. myWindow[e] + Buffered(e) + Uncounted(e) = WindowOf[e]
    BY DEF IInv, EndInv, WindowAccounted
  <2>3. /\ Held(o) \in Nat /\ remoteWin[o] \in Nat /\ sent[o] \in Nat
    BY <1>1, Typed
  <2>4. /\ Taken(e) \in Nat /\ Untold(e) \in Nat /\ Uncounted(e) \in Nat
        /\ Uncounted(e) <= Untold(e) /\ Buffered(e) \in Nat /\ WindowOf[e] \in Nat
        /\ myWindow[e] \in Nat
    BY Typed
  <2>5. m.at - n = Taken(e) + Buffered(e)
    BY <1>4 DEF Received
  <2> HIDE DEF m, n, o
  <2> QED  BY <1>4, <1>5, <2>1, <2>2, <2>3, <2>4, <2>5
<1>7. /\ myWindow' = [myWindow EXCEPT ![e] = @ - n]
      /\ pending' = [pending EXCEPT ![e] = p \o more]
      /\ UNCHANGED <<remoteWin, winClosed, bufClosed, sentEOF, sentClose, linked, loop,
                     err, connClosed, writer, reader, sent, fin, got, eof, adjusted,
                     acked>>
  <2>1. ~(n > MaxPacketOf[e]) /\ ~(myWindow[e] < n)
    <3>1. MaxPacketOf[e] \in Nat /\ myWindow[e] \in Nat
      BY Typed
    <3> HIDE DEF n
    <3> QED  BY <1>4, <1>5, <1>6, <3>1
  <2> QED  BY <2>1 DEF HandleData, Charged
<1>8. /\ myWindow \in [Ends -> 0 .. Word - 1] /\ pending \in [Ends -> Seq(Int)]
  BY DEF IInv, TypeOK
<1>9. p \in Seq(Int) /\ Len(p) \in Nat /\ Len(got[e]) \in Nat
  BY <1>8 DEF IInv, TypeOK
<1> HIDE DEF n, m, o, base
<1>10. more \in Seq(Int) /\ Len(more) = n /\ \A i \in 1 .. n : more[i] = base + i
  <2>1. base \in Int
    BY <1>5 DEF base
  <2> QED  BY <1>5, <2>1
<1>11. /\ p \o more \in Seq(Int) /\ Len(p \o more) = Len(p) + n
       /\ \A i \in 1 .. Len(p) + n :
             (p \o more)[i] = IF i <= Len(p) THEN p[i] ELSE more[i - Len(p)]
  <2> HIDE DEF p, more
  <2> QED  BY <1>9, <1>10, ConcatProperties
<1>12. pending'[e] = p \o more /\ myWindow'[e] = myWindow[e] - n
  BY <1>7, <1>8
<1> HIDE DEF p, more
<1>13. ASSUME NEW x \in Ends, x # e
       PROVE  pending'[x] = pending[x] /\ myWindow'[x] = myWindow[x]
  BY <1>7, <1>8, <1>13
<1>14. TypeOK'
  <2>1. myWindow' \in [Ends -> 0 .. Word - 1]
    <3>1. myWindow[e] - n \in 0 .. Word - 1
      BY <1>5, <1>6, Typed
    <3> QED  BY <1>7, <1>8, <3>1
  <2>2. pending' \in [Ends -> Seq(Int)]
    BY <1>7, <1>8, <1>11
  <2> QED  BY <1>3, <1>7, <2>1, <2>2 DEF IInv, TypeOK
<1>15. /\ Buffered(e)' = Buffered(e) + n /\ Taken(e)' = Taken(e)
       /\ Received(e)' = m.at
  <2>1. Buffered(e)' = Buffered(e) + n /\ Taken(e)' = Taken(e)
    BY <1>7, <1>11, <1>12 DEF Buffered, Taken, p
  <2>2. Buffered(e) \in Nat /\ Taken(e) \in Nat
    BY Typed
  <2> QED  BY <1>4, <1>5, <2>1, <2>2 DEF Received, base
<1>16. ASSUME NEW x \in Ends PROVE WindowAccounted(x)'
  <2>1. WindowAccounted(x)
    BY DEF IInv, EndInv
  <2>2. CASE x = e
    <3>1. Uncounted(e)' = Uncounted(e)
      BY <1>7 DEF Uncounted
    <3>2. myWindow[e] \in Nat /\ Buffered(e) \in Nat /\ Uncounted(e) \in Nat
      BY Typed
    <3> QED  BY <1>5, <1>12, <1>15, <2>1, <2>2, <3>1, <3>2 DEF WindowAccounted
  <2>3. CASE x # e
    BY <1>7, <1>13, <2>1, <2>3 DEF WindowAccounted, Uncounted, Buffered
  <2> QED  BY <2>2, <2>3
<1>17. WireInv(e)'
  BY <1>3, <1>4, <1>7, <1>15, ConsumeWireAt DEF o, m
<1>18. WireInv(o)'
  BY <1>1, <1>3, <1>7, <1>13, KeepWireAt DEF Serving
<1>19. ASSUME NEW x \in Ends PROVE WireInv(x)'
  BY <1>17, <1>18 DEF Ends, Other, o
<1>20. ASSUME NEW x \in Ends PROVE Received(x) <= Received(x)' /\ Received(x)' <= sent[Other(x)]
  <2>1. CASE x = e
    <3>1. Received(e) \in Nat /\ Received(e) = m.at - n
      BY <1>4, Typed DEF base
    <3> QED  BY <1>4, <1>5, <1>15, <2>1, <3>1 DEF o
  <2>2. CASE x # e
    <3>1. Received(x)' = Received(x)
      BY <1>7, <1>13, <2>2 DEF Received, Taken, Buffered
    <3>2. Received(x) \in Nat /\ Received(x) <= sent[Other(x)]
      BY OtherEnds, Room, Typed
    <3> QED  BY <3>1, <3>2
  <2> QED  BY <2>1, <2>2
<1>21. ASSUME NEW x \in Ends PROVE LoopConsistent(x)'
  <2>1. LoopConsistent(x)
    BY DEF IInv, EndInv
  <2>2. Complete(x) => Complete(x)'
    <3>1. fin[Other(x)] \in Nat \cup {-1} /\ Received(x) \in Nat
      BY OtherEnds, Typed
    <3>2. Received(x)' \in Int
      <4>1. CASE x = e
        BY <1>5, <1>15, <4>1
      <4>2. CASE x # e
        BY <1>7, <1>13, <3>1, <4>2 DEF Received, Taken, Buffered
      <4> QED  BY <4>1, <4>2
    <3> QED  BY <1>7, <1>20, <3>1, <3>2 DEF Complete
  <2> QED  BY <1>7, <2>1, <2>2 DEF LoopConsistent
<1>22. InOrder'
  <2>1. ASSUME NEW x \in Ends
        PROVE  /\ \A i \in 1 .. Len(got[x]) : got[x][i] = i
               /\ \A i \in 1 .. Len(pending'[x]) : pending'[x][i] = Len(got[x]) + i
    <3>1. /\ \A i \in 1 .. Len(got[x]) : got[x][i] = i
          /\ \A i \in 1 .. Len(pending[x]) : pending[x][i] = Len(got[x]) + i
      BY DEF IInv, InOrder
    <3>2. CASE x = e
      <4>1. ASSUME NEW i \in 1 .. Len(p) + n PROVE (p \o more)[i] = Len(got[e]) + i
        <5>1. CASE i <= Len(p)
          <6>1. i \in 1 .. Len(p)
            BY <1>9, <5>1
          <6> QED  BY <1>11, <3>1, <3>2, <5>1, <6>1 DEF p
        <5>2. CASE ~(i <= Len(p))
          <6>1. i - Len(p) \in 1 .. n
            BY <1>5, <1>9, <5>2
          <6>2. (p \o more)[i] = base + (i - Len(p))
            BY <1>10, <1>11, <5>2, <6>1
          <6>3. base = Len(got[e]) + Len(p)
            BY <1>4 DEF Received, Taken, Buffered, p
          <6> QED  BY <1>9, <6>2, <6>3
        <5> QED  BY <5>1, <5>2
      <4> QED  BY <1>11, <1>12, <3>1, <3>2, <4>1
    <3>3. CASE x # e
      BY <1>13, <3>1, <3>3
    <3> QED  BY <3>2, <3>3
  <2> QED  BY <1>7, <1>20, <2>1 DEF InOrder, Received, Taken, Buffered
<1> QED
  BY <1>7, <1>14, <1>16, <1>19, <1>21, <1>22, KeepCredit, KeepAdjust, KeepReservation,
     KeepEof, KeepFlow, KeepFin DEF IInv, EndInv

LEMMA HandleEOFStep ==
    ASSUME IInv, NEW e \in Ends, HandleEOF(e)
    PROVE  IInv'
<1> DEFINE o == Other(e)
           m == Head(wire[o])
<1>1. o \in Ends /\ Other(o) = e /\ o # e
  BY OtherEnds
<1>2. /\ Serving(e) /\ wire[o] # <<>> /\ m.type = "EOF"
      /\ wire' \in [Ends -> Seq(Messages)] /\ wire'[o] = Tail(wire[o])
      /\ wire'[e] = wire[e]
  BY ConsumeFacts DEF HandleEOF
<1>3. /\ bufClosed' = [bufClosed EXCEPT ![e] = TRUE]
      /\ UNCHANGED <<remoteWin, winClosed, myWindow, pending, sentEOF, sentClose,
                     linked, connClosed, loop, err, writer, reader, sent, fin, got, eof,
                     adjusted, acked>>
  BY DEF HandleEOF, SignalEOF
<1>4. /\ m.at = Received(e) /\ m.adj = acked[e]
      /\ fin[o] # -1 /\ fin[o] <= m.at
  BY <1>2, NextMessage DEF DataBefore, AdjustedBefore
<1> HIDE DEF m
<1>5. bufClosed \in [Ends -> BOOLEAN]
  BY DEF IInv, TypeOK
<1>6. TypeOK'
  BY <1>2, <1>3, <1>5 DEF IInv, TypeOK
<1>7. \A x \in Ends : Received(x)' = Received(x)
  BY <1>3 DEF Received, Taken, Buffered
<1>8. WireInv(e)'
  BY <1>2, <1>3, <1>4, <1>7, ConsumeWireAt DEF m
<1>9. WireInv(o)'
  BY <1>1, <1>2, <1>3, KeepWireAt DEF Serving
<1>10. ASSUME NEW x \in Ends PROVE WireInv(x)'
  BY <1>8, <1>9 DEF Ends, Other
<1>11. ASSUME NEW x \in Ends PROVE LoopConsistent(x)'
  <2>1. LoopConsistent(x) /\ (Complete(x)' <=> Complete(x))
    BY <1>3, <1>7 DEF IInv, EndInv, Complete
  <2>2. CASE x = e
    <3>1. Complete(e)
      BY <1>4 DEF Complete
    <3> QED  BY <1>3, <2>1, <2>2, <3>1 DEF LoopConsistent
  <2>3. CASE x # e
    BY <1>3, <1>5, <2>1, <2>3 DEF LoopConsistent
  <2> QED  BY <2>2, <2>3
<1> QED
  BY <1>3, <1>6, <1>10, <1>11, KeepWindow, KeepCredit, KeepAdjust, KeepReservation,
     KeepOrder, KeepEof, KeepFlow, KeepFin DEF IInv, EndInv

LEMMA HandleWindowAdjustStep ==
    ASSUME IInv, NEW e \in Ends, HandleWindowAdjust(e)
    PROVE  IInv'
<1> DEFINE o == Other(e)
           m == Head(wire[o])
           n == m.n
<1>1. o \in Ends /\ Other(o) = e /\ o # e
  BY OtherEnds
<1>2. /\ Serving(e) /\ wire[o] # <<>> /\ m.type = "WindowAdjust"
      /\ wire' \in [Ends -> Seq(Messages)] /\ wire'[o] = Tail(wire[o])
      /\ wire'[e] = wire[e]
  BY ConsumeFacts DEF HandleWindowAdjust
<1>3. /\ m \in Messages /\ m.at = Received(e) /\ m.adj - n = acked[e]
      /\ m.adj <= adjusted[o]
  BY <1>2, NextMessage DEF DataBefore, AdjustedBefore
<1>4. n \in Nat /\ m.adj \in Nat
  BY <1>3 DEF Messages
<1>5. /\ remoteWin[e] \in Nat /\ acked[e] \in Nat /\ adjusted[o] \in Nat
      /\ WindowOf[o] \in Nat /\ WindowOf[o] < Word /\ Word \in Nat \ {0}
      /\ Held(e) \in Nat /\ sent[e] \in Nat
  BY <1>1, Typed, Bounds
<1>6. remoteWin[e] + adjusted[o] - acked[e] <= WindowOf[o]
  BY Room
<1> HIDE DEF m, n, o
<1>7. remoteWin[e] + n \in 0 .. Word - 1 /\ acked[e] + n = m.adj
  BY <1>3, <1>4, <1>5, <1>6
<1>8. (remoteWin[e] + n) % Word = remoteWin[e] + n
  BY <1>5, <1>7, ModExact
<1>9. ~(n # 0 /\ (remoteWin[e] + n) % Word < n)
  BY <1>4, <1>5, <1>8
<1>10. /\ remoteWin' = [remoteWin EXCEPT ![e] = remoteWin[e] + n]
       /\ acked' = [acked EXCEPT ![e] = @ + n]
       /\ UNCHANGED <<winClosed, myWindow, pending, bufClosed, sentEOF, sentClose,
                      linked, connClosed, loop, err, writer, reader, sent, fin, got,
                      eof, adjusted>>
  BY <1>8, <1>9 DEF HandleWindowAdjust, n, m, o
<1>11. remoteWin \in [Ends -> 0 .. Word - 1] /\ acked \in [Ends -> Nat]
  BY DEF IInv, TypeOK
<1>12. TypeOK'
  <2>1. remoteWin' \in [Ends -> 0 .. Word - 1] /\ acked' \in [Ends -> Nat]
    BY <1>4, <1>5, <1>7, <1>10, <1>11
  <2> QED  BY <1>2, <1>10, <2>1 DEF IInv, TypeOK
<1>13. /\ remoteWin'[e] = remoteWin[e] + n /\ acked'[e] = acked[e] + n
       /\ remoteWin'[o] = remoteWin[o] /\ acked'[o] = acked[o]
  BY <1>1, <1>10, <1>11
<1>14. CreditCovered(e)' /\ CreditCovered(o)'
  <2>1. Held(e)' = Held(e) /\ Held(o)' = Held(o)
    BY <1>10 DEF Held
  <2>2. CreditCovered(e) /\ CreditCovered(o)
    BY <1>1 DEF IInv, EndInv
  <2>3. remoteWin[e] + Held(e) + sent[e] <= WindowOf[o] + acked[e]
    BY <2>2 DEF CreditCovered, o
  <2>4. (remoteWin[e] + n) + Held(e) + sent[e] <= WindowOf[o] + (acked[e] + n)
    BY <1>4, <1>5, <2>3
  <2>5. CreditCovered(e)'
    BY <1>10, <1>13, <2>1, <2>4 DEF CreditCovered, o
  <2>6. CreditCovered(o)'
    BY <1>10, <1>13, <2>1, <2>2 DEF CreditCovered
  <2> QED  BY <2>5, <2>6
<1>15. AdjustCovered(e)' /\ AdjustCovered(o)'
  <2>1. AdjustCovered(e) /\ AdjustCovered(o)
    BY <1>1 DEF IInv, EndInv
  <2>2. acked'[e] <= adjusted[o]
    BY <1>3, <1>7, <1>13
  <2> QED  BY <1>1, <1>10, <1>13, <2>1, <2>2 DEF AdjustCovered, Untold, Taken, o
<1>16. \A x \in Ends : Received(x)' = Received(x)
  BY <1>10 DEF Received, Taken, Buffered
<1>17. WireInv(e)'
  BY <1>2, <1>3, <1>7, <1>10, <1>13, <1>16, ConsumeWireAt DEF m, o
<1>18. WireInv(o)'
  BY <1>1, <1>2, <1>10, <1>13, KeepWireAt DEF Serving
<1>19. ASSUME NEW x \in Ends
       PROVE  WireInv(x)' /\ AdjustCovered(x)' /\ CreditCovered(x)'
  BY <1>14, <1>15, <1>17, <1>18 DEF Ends, Other, o
<1> QED
  BY <1>10, <1>12, <1>19, KeepWindow, KeepReservation, KeepLoop, KeepOrder, KeepEof,
     KeepFlow, KeepFin DEF IInv, EndInv

LEMMA HandleCloseStep ==
    ASSUME IInv, NEW e \in Ends, HandleClose(e)
    PROVE  IInv'
<1> DEFINE o == Other(e)
           m == Head(wire[o])
           a == Message("Close", 0, sent[e], adjusted[e])
<1>1. o \in Ends /\ Other(o) = e /\ o # e
  BY OtherEnds
<1>2. /\ Serving(e) /\ wire[o] # <<>> /\ m.type = "Close" /\ loop[e] = "reading"
  BY ConsumeFacts DEF HandleClose
<1>3. /\ wire' = [wire EXCEPT ![o] = Tail(@), ![e] = @ \o Reply(e)]
      /\ Ended(e)
      /\ sentClose' = [sentClose EXCEPT ![e] = TRUE]
      /\ loop' = [loop EXCEPT ![e] = "closing"]
      /\ UNCHANGED <<remoteWin, winClosed, myWindow, pending, bufClosed, sentEOF, linked,
                     connClosed, err, writer, reader, sent, got, eof, adjusted, acked>>
  BY DEF HandleClose
<1>4. /\ m.at = Received(e) /\ m.adj = acked[e]
      /\ fin[o] # -1 /\ fin[o] <= m.at
  BY <1>2, NextMessage DEF DataBefore, AdjustedBefore
<1>5. /\ wire \in [Ends -> Seq(Messages)] /\ loop \in [Ends -> Places]
      /\ sentClose \in [Ends -> BOOLEAN]
      /\ wire[e] \in Seq(Messages) /\ wire[o] \in Seq(Messages)
  BY <1>1 DEF IInv, TypeOK
<1>6. /\ a \in Messages /\ a.type = "Close" /\ a.n = 0 /\ a.at = sent[e]
      /\ a.adj = adjusted[e]
  <2>1. sent[e] \in Nat /\ adjusted[e] \in Nat /\ "Close" \in Types
    BY Typed DEF Types
  <2> QED  BY <2>1 DEF Message, Messages
<1> HIDE DEF a
<1>7. /\ wire[e] \o Reply(e) \in Seq(Messages)
      /\ Refused(e) \/ connClosed[o] => wire[e] \o Reply(e) = wire[e]
      /\ ~(Refused(e) \/ connClosed[o]) => wire[e] \o Reply(e) = Append(wire[e], a)
  <2>1. CASE Refused(e) \/ connClosed[o]
    <3>1. Reply(e) = <<>>
      BY <2>1 DEF Reply, o
    <3>2. wire[e] \o <<>> = wire[e]
      BY <1>5, ConcatEmptySeq
    <3> QED  BY <1>5, <2>1, <3>1, <3>2
  <2>2. CASE ~(Refused(e) \/ connClosed[o])
    <3>1. Reply(e) = <<a>>
      BY <2>2 DEF Reply, o, a
    <3>2. wire[e] \o <<a>> = Append(wire[e], a) /\ Append(wire[e], a) \in Seq(Messages)
      BY <1>5, <1>6, AppendIsConcat, AppendFacts
    <3> QED  BY <2>2, <3>1, <3>2
  <2> QED  BY <2>1, <2>2
<1>8. Tail(wire[o]) \in Seq(Messages)
  BY <1>2, <1>5, TailFacts
<1>9. /\ wire' \in [Ends -> Seq(Messages)] /\ wire'[o] = Tail(wire[o])
      /\ wire'[e] = wire[e] \o Reply(e)
  BY <1>1, <1>3, <1>5, <1>7, <1>8
<1> HIDE DEF m
<1>10. /\ fin' \in [Ends -> Nat \cup {-1}] /\ fin'[o] = fin[o]
       /\ fin[e] = -1 \/ fin'[e] = fin[e]
       /\ ~Refused(e) /\ ~connClosed[e] => fin'[e] # -1 /\ fin'[e] <= sent[e]
       /\ EofAfterData'
       /\ \A x \in Ends : FinSent(x)'
       /\ \A x \in Ends : Complete(x) => Complete(x)'
  BY <1>3, FinKept
<1>11. TypeOK'
  <2>1. loop' \in [Ends -> Places] /\ sentClose' \in [Ends -> BOOLEAN]
    BY <1>3, <1>5 DEF Places
  <2> QED  BY <1>3, <1>9, <1>10, <2>1 DEF IInv, TypeOK
<1>12. Received(e)' = Received(e)
  BY <1>3 DEF Received, Taken, Buffered
<1>13. WireInv(e)'
  BY <1>2, <1>3, <1>4, <1>9, <1>10, <1>12, ConsumeWireAt DEF m
<1>14. WireInv(o)'
  <2>1. CASE connClosed[o]
    BY <1>3, <2>1 DEF WireInv, Serving
  <2>2. CASE Refused(e) /\ ~connClosed[o]
    <3>1. wire'[e] = wire[e] /\ fin'[e] = fin[e]
      BY <1>3, <1>7, <1>9, <2>2 DEF Ended
    <3> QED  BY <1>1, <1>3, <3>1, KeepWireAt DEF Serving
  <2>3. CASE ~Refused(e) /\ ~connClosed[o]
    <3>1. wire'[e] = Append(wire[e], a) /\ ~connClosed[e]
      BY <1>2, <1>7, <1>9, <2>3 DEF Serving
    <3>2. DataBefore(a) = sent[e] /\ AdjustedBefore(a) = adjusted[e]
      BY <1>6 DEF DataBefore, AdjustedBefore
    <3> HIDE DEF o
    <3> QED  BY <1>3, <1>6, <1>10, <2>3, <3>1, <3>2, AppendWireAt DEF Serving, o
  <2> QED  BY <2>1, <2>2, <2>3
<1>15. ASSUME NEW x \in Ends PROVE WireInv(x)'
  BY <1>13, <1>14 DEF Ends, Other
<1>16. ASSUME NEW x \in Ends PROVE LoopConsistent(x)'
  <2>1. LoopConsistent(x)
    BY DEF IInv, EndInv
  <2>2. CASE x = e
    <3>1. Complete(e)
      BY <1>4 DEF Complete
    <3> QED  BY <1>3, <1>5, <1>10, <2>2, <3>1 DEF LoopConsistent
  <2>3. CASE x # e
    <3>1. loop'[x] = loop[x]
      BY <1>3, <1>5, <2>3
    <3> QED  BY <1>3, <1>10, <2>1, <3>1 DEF LoopConsistent
  <2> QED  BY <2>2, <2>3
<1> QED
  BY <1>3, <1>10, <1>11, <1>15, <1>16, KeepWindow, KeepCredit, KeepAdjust,
     KeepReservation, KeepOrder, KeepFlow DEF IInv, EndInv

-----------------------------------------------------------------------------
(* The invariant. *)

LEMMA InitIInv ==
    ASSUME Init
    PROVE  IInv
<1>1. TypeOK
  BY ChannelAssumption DEF Init, TypeOK, Idle, Resting, Places, Reasons, Ends, Other
<1>2. InOrder /\ EofAfterData /\ FlowControl
  BY OtherEnds DEF Init, InOrder, EofAfterData, FlowControl
<1>3. ASSUME NEW x \in Ends PROVE EndInv(x)
  BY <1>3, Bounds, OtherEnds
     DEF Init, EndInv, WindowAccounted, CreditCovered, AdjustCovered, ReservationFits,
         FinSent, WireInv, LoopConsistent, Joins, Fits, Complete, Idle, Resting, Taken,
         Buffered, Received, Held, Uncounted, Untold
<1> QED  BY <1>1, <1>2, <1>3 DEF IInv

LEMMA NextIInv ==
    ASSUME IInv, [Next]_vars
    PROVE  IInv'
<1>1. ASSUME NEW e \in Ends, Application(e) PROVE IInv'
  BY <1>1, WriteCallStep, CloseWriteStep, CloseStep, SessionCloseStep DEF Application
<1>2. ASSUME NEW e \in Ends, WriterStep(e) PROVE IInv'
  BY <1>2, ReserveStep, WriteDataStep DEF WriterStep
<1>3. ASSUME NEW e \in Ends, ReaderStep(e) PROVE IInv'
  BY <1>3, ReadDataStep, ReadEOFStep, AdjustWindowStep, SendAdjustStep DEF ReaderStep
<1>4. ASSUME NEW e \in Ends, LoopStep(e) PROVE IInv'
  BY <1>4, HandleDataStep, HandleEOFStep, HandleWindowAdjustStep, HandleCloseStep,
     InvalidChannelStep, ConnErrorStep, BufferEOFStep, MarkClosedStep,
     ReleaseWriterStep, DropAllStep, LoopExitStep DEF LoopStep, Handle
<1>5. CASE UNCHANGED vars
  <2>1. TypeOK'
    BY <1>5 DEF IInv, TypeOK, vars
  <2> QED
    BY <1>5, <2>1, KeepWindow, KeepCredit, KeepAdjust, KeepReservation, KeepWire,
       KeepLoop, KeepOrder, KeepEof, KeepFlow, KeepFin DEF IInv, EndInv, vars
<1> QED  BY <1>1, <1>2, <1>3, <1>4, <1>5 DEF Next

(* Whatever the windows, the packet sizes and the amount written, every state *)
(* of the two ends satisfies the accounting of ChannelInvariant.              *)
THEOREM Invariance == Spec => []IInv
<1>1. Init => IInv
  BY InitIInv
<1>2. IInv /\ [Next]_vars => IInv'
  BY NextIInv
<1> QED  BY <1>1, <1>2, PTL DEF Spec

(* Every variable keeps its type; in particular no uint32 window wraps. *)
THEOREM TypeCorrect == Spec => []TypeOK
<1>1. IInv => TypeOK
  BY DEF IInv
<1> QED  BY <1>1, Invariance, PTL

(* handleData never rejects, and window.add never refuses, what a peer that  *)
(* runs this code has sent.                                                  *)
THEOREM NoFlowControlError == Spec => []FlowControl
<1>1. IInv => FlowControl
  BY DEF IInv
<1> QED  BY <1>1, Invariance, PTL

(* The comment of adjustWindow: no window exceeds its initial setting, at    *)
(* the end that grants it and in the copy the peer keeps.                    *)
THEOREM WindowsBounded == Spec => []WindowBounded
<1>1. IInv => WindowBounded
  BY Room DEF WindowBounded
<1> QED  BY <1>1, Invariance, PTL

(* Read returns a prefix of what the other end wrote, in order.              *)
THEOREM StreamInOrder == Spec => []InOrder
<1>1. IInv => InOrder
  BY DEF IInv
<1> QED  BY <1>1, Invariance, PTL

(* No data sent before the end of the stream is lost to a reader that is     *)
(* told of the end, unless the session broke.                                *)
THEOREM EndAfterData == Spec => []EofAfterData
<1>1. IInv => EofAfterData
  BY DEF IInv
<1> QED  BY <1>1, Invariance, PTL

-----------------------------------------------------------------------------
(* Channel implements Stream: each step of the two ends is a step of the     *)
(* abstract stream or leaves it as it was.                                   *)

Broken == [x \in Ends |-> err[x] # "none"]

LEMMA SameEnds ==
    /\ Promise!Ends = Ends
    /\ \A e \in Ends : Promise!Other(e) = Other(e)
  BY DEF Promise!Ends, Promise!Other, Ends, Other

(* A step that leaves the abstract variables alone. *)
LEMMA Stutter ==
    ASSUME UNCHANGED <<sent, fin, got, err, eof>>
    PROVE  UNCHANGED Promise!vars
  BY DEF Promise!vars

LEMMA WriteDataRefines ==
    ASSUME IInv, NEW e \in Ends, WriteData(e)
    PROVE  [Promise!Next]_(Promise!vars)
<1> DEFINE o == Other(e)
           n == writer[e].space
<1>1. CASE sent' = sent
  BY <1>1, Stutter DEF WriteData
<1>2. CASE sent' # sent
  <2>1. sent' = [sent EXCEPT ![e] = @ + n]
    BY <1>2 DEF WriteData
  <2>2. /\ o \in Ends /\ sent[e] \in Nat /\ n \in Nat /\ remoteWin[e] \in Nat
        /\ Taken(o) \in Nat /\ Untold(o) \in Nat /\ WindowOf[o] \in Nat
    BY OtherEnds, Typed
  <2>3. sent[e] + n + remoteWin[e] <= WindowOf[o] + Taken(o) - Untold(o)
    BY Room DEF WriteData, Held
  <2>4. n # 0
    <3>1. CASE n = 0
      <4>1. sent[e] + n = sent[e]
        BY <2>2, <3>1
      <4>2. sent \in [Ends -> Nat]
        BY DEF IInv, TypeOK
      <4> QED  BY <1>2, <2>1, <4>1, <4>2
    <3> QED  BY <3>1
  <2> HIDE DEF n, o
  <2>5. n \in 1 .. WindowOf[o] + Taken(o) - sent[e]
    BY <2>2, <2>3, <2>4
  <2>6. Promise!Send(e)
    BY <2>1, <2>5, SameEnds DEF Promise!Send, WriteData, Taken, o
  <2> QED  BY <2>6, SameEnds DEF Promise!Next
<1> QED  BY <1>1, <1>2

LEMMA ReadDataRefines ==
    ASSUME IInv, NEW e \in Ends, ReadData(e)
    PROVE  [Promise!Next]_(Promise!vars)
<1> DEFINE o == Other(e)
           p == pending[e]
           g == got[e]
<1>1. PICK n \in 1 .. Len(p) : got' = [got EXCEPT ![e] = @ \o SubSeq(p, 1, n)]
  BY DEF ReadData
<1>2. /\ p \in Seq(Int) /\ g \in Seq(Int) /\ got \in [Ends -> Seq(Int)]
      /\ o \in Ends /\ sent[o] \in Nat
  BY OtherEnds, Typed DEF IInv, TypeOK
<1>3. /\ \A i \in 1 .. Len(p) : p[i] = Len(g) + i
      /\ Len(g) + Len(p) <= sent[o]
  BY DEF IInv, InOrder
<1> HIDE DEF p, g, o
<1>4. Len(p) \in Nat /\ Len(g) \in Nat /\ n \in Nat /\ n <= Len(p)
  BY <1>2
<1>5. n \in 1 .. sent[o] - Len(g)
  BY <1>2, <1>3, <1>4
<1>6. SubSeq(p, 1, n) = [i \in 1 .. n |-> Len(g) + i]
  <2>1. SubSeq(p, 1, n) = [i \in 1 .. n |-> p[i]]
    BY <1>2, <1>4
  <2> QED  BY <1>3, <1>4, <2>1
<1>7. got' = [got EXCEPT ![e] = g \o [i \in 1 .. n |-> Len(g) + i]]
  BY <1>1, <1>2, <1>6 DEF g
<1>8. Promise!Deliver(e)
  BY <1>2, <1>5, <1>7, SameEnds DEF Promise!Deliver, ReadData, g, o
<1> QED  BY <1>8, SameEnds DEF Promise!Next

LEMMA ReadEOFRefines ==
    ASSUME IInv, NEW e \in Ends, ReadEOF(e)
    PROVE  [Promise!Next]_(Promise!vars)
<1>1. err[e] # "none" \/ Complete(e)
  BY DEF ReadEOF, IInv, EndInv, LoopConsistent
<1>2. Taken(e) \in Nat /\ Buffered(e) = 0
  BY Typed DEF ReadEOF, Drained, Buffered
<1>3. Complete(e) => fin[Other(e)] # -1 /\ fin[Other(e)] <= Len(got[e])
  <2>1. Received(e) = Taken(e)
    BY <1>2 DEF Received
  <2> QED  BY <2>1 DEF Complete, Taken
<1>4. Promise!SignalEOF(e)
  BY <1>1, <1>3, SameEnds DEF Promise!SignalEOF, ReadEOF
<1> QED  BY <1>4, SameEnds DEF Promise!Next

(* The first EOF or Close fixes the end of the stream. *)
LEMMA EndRefines ==
    ASSUME NEW e \in Ends, Ended(e), UNCHANGED <<sent, got, err, eof>>
    PROVE  [Promise!Next]_(Promise!vars)
<1>1. CASE fin' = fin
  BY <1>1, Stutter
<1>2. CASE fin' # fin
  <2>1. Promise!Finish(e)
    BY <1>2 DEF Ended, Promise!Finish
  <2> QED  BY <2>1, SameEnds DEF Promise!Next
<1> QED  BY <1>1, <1>2

(* A failure of the read loop breaks the stream at its end. *)
LEMMA FailRefines ==
    ASSUME IInv, NEW e \in Ends, loop[e] = "reading", NEW r \in Reasons, r # "none",
           err' = [err EXCEPT ![e] = r], UNCHANGED <<sent, fin, got, eof>>
    PROVE  [Promise!Next]_(Promise!vars)
<1>1. err \in [Ends -> Reasons] /\ err[e] = "none"
  BY DEF IInv, EndInv, LoopConsistent, TypeOK
<1>2. Broken' = [Broken EXCEPT ![e] = TRUE]
  BY <1>1 DEF Broken
<1>3. Promise!Break(e)
  BY <1>1, <1>2 DEF Promise!Break, Broken
<1> QED  BY <1>3, SameEnds DEF Promise!Next

(* The messages that the loop accepts do not reach the abstract variables. *)
LEMMA HandleRefines ==
    ASSUME IInv, IInv', NEW e \in Ends, HandleData(e) \/ HandleWindowAdjust(e)
    PROVE  [Promise!Next]_(Promise!vars)
<1>1. err'[e] \notin {"tooLarge", "tooMuch", "window"}
  BY DEF IInv, FlowControl
<1>2. err \in [Ends -> Reasons]
  BY DEF IInv, TypeOK
<1>3. err' = err
  BY <1>1, <1>2 DEF HandleData, HandleWindowAdjust, FailWith
<1> QED  BY <1>3, Stutter DEF HandleData, HandleWindowAdjust

LEMMA StepRefines ==
    ASSUME IInv, IInv', [Next]_vars
    PROVE  [Promise!Next]_(Promise!vars)
<1>1. ASSUME NEW e \in Ends, Application(e) PROVE [Promise!Next]_(Promise!vars)
  BY <1>1, Stutter, EndRefines
     DEF Application, WriteCall, CloseWrite, Close, SessionClose, SendEnd
<1>2. ASSUME NEW e \in Ends, WriterStep(e) PROVE [Promise!Next]_(Promise!vars)
  BY <1>2, Stutter, WriteDataRefines DEF WriterStep, Reserve
<1>3. ASSUME NEW e \in Ends, ReaderStep(e) PROVE [Promise!Next]_(Promise!vars)
  BY <1>3, Stutter, ReadDataRefines, ReadEOFRefines DEF ReaderStep, AdjustWindow, SendAdjust
<1>4. ASSUME NEW e \in Ends, Handle(e) PROVE [Promise!Next]_(Promise!vars)
  BY <1>4, Stutter, HandleRefines, EndRefines DEF Handle, HandleEOF, HandleClose
<1>5. ASSUME NEW e \in Ends, InvalidChannel(e) \/ ConnError(e)
      PROVE  [Promise!Next]_(Promise!vars)
  <2>1. "invalid" \in Reasons /\ "conn" \in Reasons
    BY DEF Reasons
  <2> QED  BY <1>5, <2>1, FailRefines DEF InvalidChannel, ConnError, FailWith
<1>6. ASSUME NEW e \in Ends,
             \/ BufferEOF(e) \/ MarkClosed(e) \/ ReleaseWriter(e)
             \/ DropAll(e) \/ LoopExit(e)
      PROVE  [Promise!Next]_(Promise!vars)
  BY <1>6, Stutter DEF BufferEOF, MarkClosed, ReleaseWriter, DropAll, LoopExit
<1>7. CASE UNCHANGED vars
  BY <1>7, Stutter DEF vars
<1> QED  BY <1>1, <1>2, <1>3, <1>4, <1>5, <1>6, <1>7 DEF Next, LoopStep

(* The two ends of a channel keep what api.go promises of a Channel: an       *)
(* ordered, reliable, flow-controlled, duplex stream.                         *)
THEOREM Refinement == Spec => ImplementsStream
<1>1. Init => Promise!Init
  BY SameEnds DEF Init, Promise!Init
<1>2. IInv /\ IInv' /\ [Next]_vars => [Promise!Next]_(Promise!vars)
  BY StepRefines
<1> QED  BY <1>1, <1>2, Invariance, PTL DEF Spec, Promise!Spec, ImplementsStream

-----------------------------------------------------------------------------
(* What can kill a session through a channel that was closed in order.       *)
(* LateInv of ChannelInvariant is inductive with the accounting of IInv.     *)

(* What a Write has left to write is shorter than the word size, however     *)
(* many Writes there are.  This holds of any Write on a 32-bit machine.  A   *)
(* Write of a multiple of the word size would send data messages with        *)
(* nothing in them (util.go 9).                                              *)
WritesFitWord == \A e \in Ends : writer[e].todo < Word

-----------------------------------------------------------------------------
(* Lemmas about the messages in flight.                                      *)

WireClosing(e) ==
    CloseThenData(wire[e]) /\ ClosedBy(wire[e], e) /\ NoneEmpty(wire[e])

LEMMA TailClosing ==
    ASSUME NEW s \in Seq(Messages), s # <<>>
    PROVE  /\ OnlyData(s) => OnlyData(Tail(s))
           /\ CloseThenData(s) => CloseThenData(Tail(s))
           /\ NoneEmpty(s) => NoneEmpty(Tail(s))
           /\ \A e : ClosedBy(s, e) => ClosedBy(Tail(s), e)
<1> DEFINE t == Tail(s)
<1>1. Len(t) = Len(s) - 1 /\ Len(s) \in Nat \ {0}
  BY TailFacts
<1>2. \A i \in 1 .. Len(t) : i + 1 \in 1 .. Len(s) /\ t[i] = s[i + 1]
  BY <1>1, TailFacts
<1>3. \A i, j \in 1 .. Len(t) : i < j => i + 1 < j + 1
  BY <1>1
<1> HIDE DEF t
<1>4. OnlyData(s) => OnlyData(t)
  BY <1>2 DEF OnlyData
<1>5. CloseThenData(s) => CloseThenData(t)
  BY <1>2, <1>3 DEF CloseThenData
<1>6. NoneEmpty(s) => NoneEmpty(t)
  BY <1>2 DEF NoneEmpty
<1>7. ASSUME NEW e, ClosedBy(s, e) PROVE ClosedBy(t, e)
  BY <1>2, <1>7 DEF ClosedBy
<1> QED  BY <1>4, <1>5, <1>6, <1>7 DEF t

LEMMA AppendClosing ==
    ASSUME NEW s \in Seq(Messages), NEW m \in Messages,
           m.type = "Data" => m.n > 0,
           m.type # "Data" => \A i \in 1 .. Len(s) : s[i].type # "Close"
    PROVE  /\ m.type = "Data" /\ OnlyData(s) => OnlyData(Append(s, m))
           /\ CloseThenData(s) => CloseThenData(Append(s, m))
           /\ NoneEmpty(s) => NoneEmpty(Append(s, m))
<1> DEFINE t == Append(s, m)
<1>1. /\ Len(t) = Len(s) + 1 /\ Len(s) \in Nat
      /\ t[Len(t)] = m
      /\ \A i \in 1 .. Len(s) : t[i] = s[i]
  BY AppendFacts
<1>2. \A i \in 1 .. Len(t) : i = Len(t) \/ i \in 1 .. Len(s)
  BY <1>1
<1>3. \A i, j \in 1 .. Len(t) : i < j => i \in 1 .. Len(s)
  BY <1>1
<1> HIDE DEF t
<1>4. m.type = "Data" /\ OnlyData(s) => OnlyData(t)
  BY <1>1, <1>2 DEF OnlyData
<1>5. CloseThenData(s) => CloseThenData(t)
  <2> SUFFICES ASSUME CloseThenData(s), NEW i \in 1 .. Len(t), NEW j \in 1 .. Len(t),
                      t[i].type = "Close", i < j
               PROVE  t[j].type = "Data"
    BY DEF CloseThenData
  <2>1. i \in 1 .. Len(s) /\ s[i].type = "Close"
    BY <1>1, <1>3
  <2> QED  BY <1>1, <1>2, <2>1 DEF CloseThenData
<1>6. NoneEmpty(s) => NoneEmpty(t)
  BY <1>1, <1>2 DEF NoneEmpty
<1> QED  BY <1>4, <1>5, <1>6 DEF t

LEMMA EmptyClosing ==
    /\ OnlyData(<<>>) /\ CloseThenData(<<>>) /\ NoneEmpty(<<>>)
    /\ \A e : ClosedBy(<<>>, e)
  BY DEF OnlyData, CloseThenData, NoneEmpty, ClosedBy

-----------------------------------------------------------------------------
(* A part of the invariant is kept by a step of a certain kind.              *)

Sticky == \A x \in Ends : sentClose[x] => sentClose'[x]

(* Nothing new is under way from x. *)
Drains(x) ==
    \/ wire'[x] = wire[x]
    \/ wire'[x] = <<>>
    \/ wire[x] # <<>> /\ wire'[x] = Tail(wire[x])

LEMMA DrainKeeps ==
    ASSUME IInv, LateInv, Sticky, NEW x \in Ends, Drains(x)
    PROVE  WireClosing(x)' /\ (OnlyData(wire[x]) => OnlyData(wire[x])')
<1>1. wire[x] \in Seq(Messages)
  BY Typed
<1>2. CloseThenData(wire[x]) /\ ClosedBy(wire[x], x) /\ NoneEmpty(wire[x])
  BY DEF LateInv, CloseInv
<1>3. /\ CloseThenData(wire'[x]) /\ NoneEmpty(wire'[x]) /\ ClosedBy(wire'[x], x)
      /\ OnlyData(wire[x]) => OnlyData(wire'[x])
  BY <1>1, <1>2, TailClosing, EmptyClosing DEF Drains
<1>4. ClosedBy(wire[x], x)'
  BY <1>3 DEF ClosedBy, Sticky
<1> QED  BY <1>3, <1>4 DEF WireClosing, OnlyData, CloseThenData, NoneEmpty

LEMMA AppendKeeps ==
    ASSUME IInv, LateInv, Sticky, NEW x \in Ends, NEW m \in Messages,
           wire'[x] = Append(wire[x], m),
           m.type = "Data" => m.n > 0,
           m.type # "Data" => ~sentClose[x],
           m.type = "Close" => sentClose'[x]
    PROVE  /\ WireClosing(x)'
           /\ sentClose[x] /\ OnlyData(wire[x]) => OnlyData(wire[x])'
<1>1. wire[x] \in Seq(Messages)
  BY Typed
<1>2. CloseThenData(wire[x]) /\ ClosedBy(wire[x], x) /\ NoneEmpty(wire[x])
  BY DEF LateInv, CloseInv
<1>3. m.type # "Data" => \A i \in 1 .. Len(wire[x]) : wire[x][i].type # "Close"
  BY <1>2 DEF ClosedBy
<1>4. /\ CloseThenData(wire'[x]) /\ NoneEmpty(wire'[x])
      /\ sentClose[x] /\ OnlyData(wire[x]) => OnlyData(wire'[x])
  BY <1>1, <1>2, <1>3, AppendClosing
<1>5. ClosedBy(wire[x], x)'
  <2> SUFFICES ASSUME NEW i \in 1 .. Len(wire'[x]), wire'[x][i].type = "Close"
               PROVE  sentClose'[x]
    BY DEF ClosedBy
  <2>1. \/ i \in 1 .. Len(wire[x]) /\ wire'[x][i] = wire[x][i]
        \/ wire'[x][i] = m
    BY <1>1, AppendFacts
  <2> QED  BY <1>2, <2>1 DEF ClosedBy, Sticky
<1> QED  BY <1>4, <1>5 DEF WireClosing, OnlyData, CloseThenData, NoneEmpty

LEMMA KeepKilled ==
    ASSUME IInv, LateInv,
           \A x \in Ends : err'[x] = "invalid" => err[x] = "invalid",
           \A x \in Ends : fin[x] # -1 => fin'[x] = fin[x],
           \A x \in Ends : sent'[x] \in Nat /\ sent[x] <= sent'[x]
    PROVE  OnlyLateDataKills'
<1> SUFFICES ASSUME NEW e \in Ends, err'[e] = "invalid"
             PROVE  fin'[Other(e)] # -1 /\ sent'[Other(e)] > fin'[Other(e)]
  BY DEF OnlyLateDataKills
<1> DEFINE o == Other(e)
<1>1. o \in Ends
  BY OtherEnds
<1>2. fin[o] # -1 /\ sent[o] > fin[o]
  BY DEF LateInv, OnlyLateDataKills
<1>3. sent[o] \in Nat /\ fin[o] \in Nat \cup {-1}
  BY <1>1, Typed
<1>4. fin'[o] = fin[o] /\ sent'[o] \in Nat /\ sent[o] <= sent'[o]
  BY <1>1, <1>2
<1> HIDE DEF o
<1>5. sent'[o] > fin'[o]
  BY <1>2, <1>3, <1>4
<1> QED  BY <1>2, <1>4, <1>5 DEF o

LEMMA KeepWriters ==
    ASSUME LateInv, UNCHANGED writer
    PROVE  \A x \in Ends : WriterBusy(x)'
  BY DEF LateInv, CloseInv, WriterBusy

(* No end comes to close the channel, and nothing but data is added behind   *)
(* the Close of the other.                                                   *)
LEMMA KeepEnding ==
    ASSUME LateInv, Sticky,
           \A x \in Ends : Ending(x)' /\ err'[x] = "none" => Ending(x) /\ err[x] = "none",
           \A x \in Ends : sentClose[x] /\ OnlyData(wire[x]) => OnlyData(wire[x])'
    PROVE  \A x \in Ends :
             Ending(x)' /\ err'[x] = "none" =>
                sentClose'[Other(x)] /\ OnlyData(wire[Other(x)])'
  BY OtherEnds DEF LateInv, CloseInv, Sticky

LEMMA Together ==
    ASSUME OnlyLateDataKills',
           \A x \in Ends : ~linked'[x] => bufClosed'[x],
           \A x \in Ends : WireClosing(x)',
           \A x \in Ends : WriterBusy(x)',
           \A x \in Ends : Ending(x)' /\ err'[x] = "none" =>
                              sentClose'[Other(x)] /\ OnlyData(wire[Other(x)])'
    PROVE  LateInv'
  BY DEF LateInv, CloseInv, WireClosing

(* A step that writes nothing, closes nothing and does not end the loop with *)
(* "invalid channel".                                                        *)
LEMMA QuietStep ==
    ASSUME IInv, LateInv, Sticky,
           UNCHANGED <<writer, sent, linked>>,
           \A x \in Ends : Drains(x),
           \A x \in Ends : bufClosed[x] => bufClosed'[x],
           \A x \in Ends : err'[x] = "invalid" => err[x] = "invalid",
           \A x \in Ends : fin[x] # -1 => fin'[x] = fin[x],
           \A x \in Ends : Ending(x)' /\ err'[x] = "none" => Ending(x) /\ err[x] = "none"
    PROVE  LateInv'
<1>1. OnlyLateDataKills'
  <2>1. \A x \in Ends : sent'[x] \in Nat /\ sent[x] <= sent'[x]
    BY Typed
  <2> QED  BY <2>1, KeepKilled
<1>2. \A x \in Ends : ~linked'[x] => bufClosed'[x]
  BY DEF LateInv, CloseInv
<1>3. \A x \in Ends : WireClosing(x)' /\ (OnlyData(wire[x]) => OnlyData(wire[x])')
  BY DrainKeeps
<1> QED  BY <1>1, <1>2, <1>3, KeepWriters, KeepEnding, Together

(* A step of e that writes one message m, which need not be its last.        *)
LEMMA WriteStep ==
    ASSUME IInv, LateInv, Sticky, NEW e \in Ends, NEW m \in Messages,
           UNCHANGED <<linked, bufClosed, loop, err>>,
           wire' = wire \/ wire' = [wire EXCEPT ![e] = Append(@, m)],
           m.type = "Data" => m.n > 0,
           wire' # wire /\ m.type # "Data" => ~sentClose[e],
           m.type = "Close" => sentClose'[e],
           \A x \in Ends : fin[x] # -1 => fin'[x] = fin[x],
           \A x \in Ends : sent'[x] \in Nat /\ sent[x] <= sent'[x],
           \A x \in Ends : WriterBusy(x)'
    PROVE  LateInv'
<1>1. ASSUME NEW x \in Ends
      PROVE  /\ WireClosing(x)'
             /\ sentClose[x] /\ OnlyData(wire[x]) => OnlyData(wire[x])'
  <2>1. CASE wire'[x] = wire[x]
    BY <2>1, DrainKeeps DEF Drains
  <2>2. CASE wire'[x] # wire[x]
    <3>1. wire \in [Ends -> Seq(Messages)]
      BY DEF IInv, TypeOK
    <3>2. x = e /\ wire'[x] = Append(wire[x], m) /\ wire' # wire
      BY <2>2, <3>1
    <3> QED  BY <3>2, AppendKeeps
  <2> QED  BY <2>1, <2>2
<1>2. OnlyLateDataKills'
  BY KeepKilled
<1>3. \A x \in Ends : Ending(x)' /\ err'[x] = "none" => Ending(x) /\ err[x] = "none"
  BY DEF Ending
<1>4. \A x \in Ends : ~linked'[x] => bufClosed'[x]
  BY DEF LateInv, CloseInv
<1> QED  BY <1>1, <1>2, <1>3, <1>4, KeepEnding, Together

-----------------------------------------------------------------------------
(* One lemma per action. *)

LEMMA WriteCallLate ==
    ASSUME IInv, LateInv, NEW e \in Ends, WriteCall(e)
    PROVE  LateInv'
<1>1. writer \in [Ends -> [pc : {"idle", "reserve", "encode"}, todo : Nat, space : Nat]]
      /\ sent[e] \in Nat /\ MaxBytes[e] \in Nat
  BY Typed, Bounds DEF IInv, TypeOK
<1>2. PICK k \in 1 .. MaxBytes[e] - sent[e] :
         writer' = [writer EXCEPT ![e] = [pc |-> "reserve", todo |-> k, space |-> 0]]
  BY DEF WriteCall
<1>3. k \in 1 .. MaxBytes[e]
  BY <1>1
<1>4. ASSUME NEW x \in Ends PROVE WriterBusy(x)'
  <2>1. WriterBusy(x)
    BY DEF LateInv, CloseInv
  <2> QED  BY <1>1, <1>2, <1>3, <2>1 DEF WriterBusy
<1>5. /\ UNCHANGED <<linked, bufClosed, loop, err, wire, sentClose, fin, sent>>
      /\ \A x \in Ends : sent[x] \in Nat
  BY Typed DEF WriteCall
<1>6. OnlyLateDataKills'
  BY <1>5, KeepKilled
<1>7. \A x \in Ends : WireClosing(x)' /\ (OnlyData(wire[x]) => OnlyData(wire[x])')
  BY <1>5, DrainKeeps DEF Sticky, Drains
<1>8. \A x \in Ends : Ending(x)' /\ err'[x] = "none" => Ending(x) /\ err[x] = "none"
  BY <1>5 DEF Ending
<1>9. \A x \in Ends : ~linked'[x] => bufClosed'[x]
  BY <1>5 DEF LateInv, CloseInv
<1>10. Sticky
  BY <1>5 DEF Sticky
<1> QED  BY <1>4, <1>6, <1>7, <1>8, <1>9, <1>10, KeepEnding, Together

(* What Write reserves is not nothing, since its length is below the word    *)
(* size and the window it takes from is not empty.                           *)
LEMMA ReserveLate ==
    ASSUME WritesFitWord, IInv, LateInv, NEW e \in Ends, Reserve(e)
    PROVE  LateInv'
<1> DEFINE asked == Smaller(MaxPacketOf[Other(e)], writer[e].todo % Word)
           space == Reserved(asked, remoteWin[e])
<1>1. writer \in [Ends -> [pc : {"idle", "reserve", "encode"}, todo : Nat, space : Nat]]
      /\ MaxBytes[e] \in Nat /\ Word \in Nat \ {0} /\ remoteWin[e] \in Nat
      /\ MaxPacketOf[Other(e)] \in Nat \ {0}
  BY Typed, Bounds, ChannelAssumption, OtherEnds DEF IInv, TypeOK
<1>2. writer[e].todo \in 1 .. MaxBytes[e] /\ writer[e].todo < Word
  <2>1. writer[e].todo \in 1 .. MaxBytes[e]
    BY DEF Reserve, LateInv, CloseInv, WriterBusy
  <2> QED  BY <1>1, <2>1 DEF WritesFitWord
<1>3. ~winClosed[e] => space > 0
  <2>1. writer[e].todo % Word = writer[e].todo
    BY <1>1, <1>2, ModExact
  <2>2. asked > 0
    BY <1>1, <1>2, <2>1 DEF Smaller
  <2>3. ~winClosed[e] => remoteWin[e] > 0
    BY DEF Reserve
  <2>4. asked \in Nat
    BY <1>1, <2>1 DEF Smaller
  <2> HIDE DEF asked
  <2> QED  BY <1>1, <2>2, <2>3, <2>4 DEF Reserved, Smaller
<1>4. writer' = [writer EXCEPT ![e] =
                   IF winClosed[e] THEN Idle
                   ELSE [pc |-> "encode", todo |-> writer[e].todo, space |-> space]]
  BY DEF Reserve
<1> HIDE DEF space
<1>5. ASSUME NEW x \in Ends PROVE WriterBusy(x)'
  <2>1. WriterBusy(x)
    BY DEF LateInv, CloseInv
  <2> QED  BY <1>1, <1>2, <1>3, <1>4, <2>1 DEF WriterBusy, Idle
<1>6. /\ UNCHANGED <<linked, bufClosed, loop, err, wire, sentClose, fin, sent>>
      /\ \A x \in Ends : sent[x] \in Nat
  BY Typed DEF Reserve
<1>7. OnlyLateDataKills'
  BY <1>6, KeepKilled
<1>8. \A x \in Ends : WireClosing(x)' /\ (OnlyData(wire[x]) => OnlyData(wire[x])')
  BY <1>6, DrainKeeps DEF Sticky, Drains
<1>9. \A x \in Ends : Ending(x)' /\ err'[x] = "none" => Ending(x) /\ err[x] = "none"
  BY <1>6 DEF Ending
<1>10. \A x \in Ends : ~linked'[x] => bufClosed'[x]
  BY <1>6 DEF LateInv, CloseInv
<1>11. Sticky
  BY <1>6 DEF Sticky
<1> QED  BY <1>5, <1>7, <1>8, <1>9, <1>10, <1>11, KeepEnding, Together

LEMMA WriteDataLate ==
    ASSUME IInv, LateInv, NEW e \in Ends, WriteData(e)
    PROVE  LateInv'
<1> DEFINE n == writer[e].space
           left == writer[e].todo - n
           m == Message("Data", n, sent[e] + n, adjusted[e])
<1>1. writer \in [Ends -> [pc : {"idle", "reserve", "encode"}, todo : Nat, space : Nat]]
      /\ sent \in [Ends -> Nat] /\ adjusted[e] \in Nat /\ MaxBytes[e] \in Nat
  BY Bounds DEF IInv, TypeOK
<1>2. n \in Nat /\ n > 0 /\ writer[e].todo \in 1 .. MaxBytes[e] /\ n <= writer[e].todo
  <2>1. WriterBusy(e) /\ ReservationFits(e)
    BY DEF LateInv, CloseInv, IInv, EndInv
  <2> QED  BY <1>1, <2>1 DEF WriteData, WriterBusy, ReservationFits, Held
<1>3. m \in Messages /\ m.type = "Data" /\ m.n = n
  <2>1. sent[e] + n \in Nat /\ n \in Nat /\ adjusted[e] \in Nat /\ "Data" \in Types
    BY <1>1, <1>2 DEF Types
  <2> HIDE DEF n
  <2> QED  BY <2>1, MessageType
<1>4. /\ writer' = [writer EXCEPT ![e] =
                      IF connClosed[e] \/ left = 0 THEN Idle
                      ELSE [pc |-> "reserve", todo |-> left, space |-> 0]]
      /\ wire' = wire \/ wire' = [wire EXCEPT ![e] = Append(@, m)]
      /\ sent' = sent \/ sent' = [sent EXCEPT ![e] = @ + n]
      /\ UNCHANGED <<linked, bufClosed, loop, err, sentClose, fin>>
  BY DEF WriteData, Encode
<1>5. left = 0 \/ left \in 1 .. MaxBytes[e]
  BY <1>1, <1>2
<1>6. \A x \in Ends : sent'[x] \in Nat /\ sent[x] <= sent'[x]
  BY <1>1, <1>2, <1>4
<1> HIDE DEF n, left, m
<1>7. ASSUME NEW x \in Ends PROVE WriterBusy(x)'
  <2>1. WriterBusy(x)
    BY DEF LateInv, CloseInv
  <2> QED  BY <1>1, <1>4, <1>5, <2>1 DEF WriterBusy, Idle
<1> QED  BY <1>2, <1>3, <1>4, <1>6, <1>7, WriteStep DEF Sticky

LEMMA ReadLate ==
    ASSUME IInv, LateInv, NEW e \in Ends,
           ReadData(e) \/ ReadEOF(e) \/ AdjustWindow(e)
    PROVE  LateInv'
<1>1. UNCHANGED <<linked, bufClosed, loop, err, wire, sentClose, fin, sent, writer>>
  BY DEF ReadData, ReadEOF, AdjustWindow
<1> QED  BY <1>1, QuietStep DEF Sticky, Drains, Ending

LEMMA SendAdjustLate ==
    ASSUME IInv, LateInv, NEW e \in Ends, SendAdjust(e)
    PROVE  LateInv'
<1> DEFINE n == reader[e].n
           m == Message("WindowAdjust", n, sent[e], adjusted[e] + n)
<1>1. n \in Nat /\ sent[e] \in Nat /\ adjusted[e] \in Nat
      /\ \A x \in Ends : sent[x] \in Nat
  BY Typed
<1>2. m \in Messages /\ m.type = "WindowAdjust"
  <2>1. adjusted[e] + n \in Nat /\ "WindowAdjust" \in Types
    BY <1>1 DEF Types
  <2> QED  BY <1>1, <2>1 DEF Message, Messages
<1>3. /\ wire' = wire \/ (wire' = [wire EXCEPT ![e] = Append(@, m)] /\ ~sentClose[e])
      /\ UNCHANGED <<linked, bufClosed, loop, err, sentClose, fin, sent, writer>>
  BY DEF SendAdjust, Encode, Refused
<1> HIDE DEF m
<1> QED  BY <1>1, <1>2, <1>3, KeepWriters, WriteStep DEF Sticky

LEMMA SendEndLate ==
    ASSUME IInv, LateInv, NEW e \in Ends, NEW type \in {"EOF", "Close"},
           SendEnd(e, type), Sticky, type = "Close" => sentClose'[e],
           UNCHANGED <<linked, bufClosed, loop, err, sent, writer>>
    PROVE  LateInv'
<1> DEFINE m == Message(type, 0, sent[e], adjusted[e])
<1>1. sent[e] \in Nat /\ adjusted[e] \in Nat /\ \A x \in Ends : sent[x] \in Nat
  BY Typed
<1>2. m \in Messages /\ m.type = type
  BY <1>1 DEF Message, Messages, Types
<1>3. wire' = wire \/ (wire' = [wire EXCEPT ![e] = Append(@, m)] /\ ~sentClose[e])
  BY DEF SendEnd, Encode, Refused
<1>4. \A x \in Ends : fin[x] # -1 => fin'[x] = fin[x]
  BY DEF SendEnd, Ended, IInv, TypeOK
<1> HIDE DEF m
<1> QED  BY <1>1, <1>2, <1>3, <1>4, KeepWriters, WriteStep

LEMMA CloseWriteLate ==
    ASSUME IInv, LateInv, NEW e \in Ends, CloseWrite(e)
    PROVE  LateInv'
  BY SendEndLate DEF CloseWrite, Sticky

LEMMA CloseLate ==
    ASSUME IInv, LateInv, NEW e \in Ends, Close(e)
    PROVE  LateInv'
<1>1. sentClose \in [Ends -> BOOLEAN] /\ sentClose' = [sentClose EXCEPT ![e] = TRUE]
  BY DEF Close, IInv, TypeOK
<1>2. Sticky /\ sentClose'[e]
  BY <1>1 DEF Sticky
<1> QED  BY <1>2, SendEndLate DEF Close

LEMMA CloseConnDrains ==
    ASSUME IInv, NEW e \in Ends, CloseConn(e)
    PROVE  \A x \in Ends : Drains(x)
  BY DEF CloseConn, Drains, IInv, TypeOK

LEMMA SessionCloseLate ==
    ASSUME IInv, LateInv, NEW e \in Ends, SessionClose(e)
    PROVE  LateInv'
<1>1. UNCHANGED <<linked, bufClosed, loop, err, sentClose, fin, sent, writer>>
  BY DEF SessionClose
<1>2. \A x \in Ends : Drains(x)
  BY CloseConnDrains DEF SessionClose
<1> QED  BY <1>1, <1>2, QuietStep DEF Sticky, Ending

LEMMA ConsumeDrains ==
    ASSUME IInv, NEW e \in Ends, wire[Other(e)] # <<>>, Consume(e)
    PROVE  \A x \in Ends : Drains(x)
  BY OtherEnds DEF Consume, Drains, IInv, TypeOK

(* The loop takes a message and goes on, or fails for a reason that is not   *)
(* "invalid".                                                                *)
LEMMA ConsumeLate ==
    ASSUME IInv, LateInv, NEW e \in Ends, wire[Other(e)] # <<>>, Consume(e),
           loop[e] = "reading",
           \/ UNCHANGED <<loop, err>>
           \/ \E reason \in Reasons \ {"none", "invalid"} : FailWith(e, reason),
           \A x \in Ends : bufClosed[x] => bufClosed'[x],
           UNCHANGED <<linked, sentClose, fin, sent, writer>>
    PROVE  LateInv'
<1>1. \A x \in Ends : Drains(x)
  BY ConsumeDrains
<1>2. loop \in [Ends -> Places] /\ err \in [Ends -> Reasons]
  BY DEF IInv, TypeOK
<1>3. ASSUME NEW x \in Ends
      PROVE  /\ err'[x] = "invalid" => err[x] = "invalid"
             /\ Ending(x)' /\ err'[x] = "none" => Ending(x) /\ err[x] = "none"
  BY <1>2 DEF FailWith, Ending, Reasons
<1> QED  BY <1>1, <1>3, QuietStep DEF Sticky

LEMMA HandleDataLate ==
    ASSUME IInv, LateInv, NEW e \in Ends, HandleData(e)
    PROVE  LateInv'
<1>1. /\ wire[Other(e)] # <<>> /\ Consume(e) /\ loop[e] = "reading"
      /\ UNCHANGED <<bufClosed, linked, sentClose, fin, sent, writer>>
  BY DEF HandleData, Incoming
<1>2. \/ UNCHANGED <<loop, err>>
      \/ \E reason \in Reasons \ {"none", "invalid"} : FailWith(e, reason)
  BY DEF HandleData, Reasons
<1> QED  BY <1>1, <1>2, ConsumeLate

LEMMA SignalEOFKeeps ==
    ASSUME IInv, NEW e \in Ends, SignalEOF(e)
    PROVE  bufClosed'[e] /\ \A x \in Ends : bufClosed[x] => bufClosed'[x]
  BY DEF SignalEOF, IInv, TypeOK

LEMMA HandleEOFLate ==
    ASSUME IInv, LateInv, NEW e \in Ends, HandleEOF(e)
    PROVE  LateInv'
  BY ConsumeLate, SignalEOFKeeps DEF HandleEOF, Incoming

LEMMA HandleWindowAdjustLate ==
    ASSUME IInv, LateInv, NEW e \in Ends, HandleWindowAdjust(e)
    PROVE  LateInv'
<1>1. /\ wire[Other(e)] # <<>> /\ Consume(e) /\ loop[e] = "reading"
      /\ UNCHANGED <<bufClosed, linked, sentClose, fin, sent, writer>>
  BY DEF HandleWindowAdjust, Incoming
<1>2. \/ UNCHANGED <<loop, err>>
      \/ \E reason \in Reasons \ {"none", "invalid"} : FailWith(e, reason)
  BY DEF HandleWindowAdjust, Reasons
<1> QED  BY <1>1, <1>2, ConsumeLate

(* The peer's Close is the last thing it sends that is not data, and here it *)
(* is answered unless this end has closed too.                               *)
LEMMA HandleCloseLate ==
    ASSUME IInv, LateInv, NEW e \in Ends, HandleClose(e)
    PROVE  LateInv'
<1> DEFINE o == Other(e)
           s == wire[o]
           a == Message("Close", 0, sent[e], adjusted[e])
<1>1. o \in Ends /\ o # e /\ Other(o) = e
  BY OtherEnds
<1>2. /\ s \in Seq(Messages) /\ s # <<>> /\ Head(s).type = "Close"
      /\ wire \in [Ends -> Seq(Messages)]
      /\ loop[e] = "reading"
  BY <1>1 DEF HandleClose, Incoming, IInv, TypeOK
<1>3. /\ wire' = [wire EXCEPT ![o] = Tail(@), ![e] = @ \o Reply(e)]
      /\ sentClose' = [sentClose EXCEPT ![e] = TRUE]
      /\ sentClose \in [Ends -> BOOLEAN]
      /\ UNCHANGED <<linked, bufClosed, err, sent, writer>>
  BY DEF HandleClose, IInv, TypeOK
<1>4. Sticky /\ sentClose'[e]
  BY <1>3 DEF Sticky
<1>5. /\ wire'[o] = Tail(s)
      /\ wire'[e] = wire[e] \/ (~sentClose[e] /\ wire'[e] = Append(wire[e], a))
  <2>1. wire'[o] = Tail(s) /\ wire'[e] = wire[e] \o Reply(e)
    BY <1>1, <1>2, <1>3
  <2>2. Reply(e) = <<>> \/ (~sentClose[e] /\ Reply(e) = <<a>>)
    BY DEF Reply, Refused
  <2>3. wire[e] \in Seq(Messages) /\ sent[e] \in Nat /\ adjusted[e] \in Nat
    BY Typed
  <2>4. a \in Messages
    BY <2>3 DEF Message, Messages, Types
  <2> HIDE DEF a
  <2>5. wire[e] \o <<>> = wire[e] /\ wire[e] \o <<a>> = Append(wire[e], a)
    BY <2>3, <2>4
  <2> QED  BY <2>1, <2>2, <2>5
<1>6. a \in Messages /\ a.type = "Close"
  <2>1. sent[e] \in Nat /\ adjusted[e] \in Nat
    BY Typed
  <2> QED  BY <2>1 DEF Message, Messages, Types
<1> HIDE DEF a
<1>7. WireClosing(o)' /\ (OnlyData(s) => OnlyData(wire'[o]))
  <2>1. Drains(o)
    BY <1>2, <1>5 DEF Drains
  <2> QED  BY <1>1, <1>4, <2>1, DrainKeeps
<1>8. WireClosing(e)' /\ (sentClose[e] /\ OnlyData(wire[e]) => OnlyData(wire'[e]))
  <2>1. CASE wire'[e] = wire[e]
    BY <1>4, <2>1, DrainKeeps DEF Drains
  <2>2. CASE ~sentClose[e] /\ wire'[e] = Append(wire[e], a)
    BY <1>4, <1>6, <2>2, AppendKeeps
  <2> QED  BY <1>5, <2>1, <2>2
<1>9. \A x \in Ends : WireClosing(x)'
  BY <1>7, <1>8 DEF Ends, Other
(* What ends the channel here is a Close, so all that follows it is data.    *)
<1>10. sentClose[o] /\ OnlyData(Tail(s))
  <2>1. CloseThenData(s) /\ ClosedBy(s, o)
    BY <1>1 DEF LateInv, CloseInv
  <2>2. s[1].type = "Close" /\ 1 \in 1 .. Len(s) /\ Len(s) \in Nat \ {0}
    BY <1>2, TailFacts
  <2>3. sentClose[o]
    BY <2>1, <2>2 DEF ClosedBy
  <2>4. ASSUME NEW i \in 1 .. Len(Tail(s)) PROVE Tail(s)[i].type = "Data"
    <3>1. i + 1 \in 1 .. Len(s) /\ 1 < i + 1 /\ Tail(s)[i] = s[i + 1]
      BY <1>2, <2>2, TailFacts
    <3> HIDE DEF s
    <3> QED  BY <2>1, <2>2, <3>1 DEF CloseThenData
  <2> QED  BY <2>3, <2>4 DEF OnlyData
<1>11. ASSUME NEW x \in Ends, Ending(x)', err'[x] = "none"
       PROVE  sentClose'[Other(x)] /\ OnlyData(wire[Other(x)])'
  <2>1. CASE x = e
    <3>1. sentClose'[o] /\ wire'[o] = Tail(s)
      BY <1>1, <1>4, <1>5, <1>10 DEF Sticky
    <3> QED  BY <1>10, <2>1, <3>1 DEF OnlyData
  <2>2. CASE x = o
    <3>1. Ending(o) /\ err[o] = "none"
      <4>1. loop' = [loop EXCEPT ![e] = "closing"] /\ loop \in [Ends -> Places]
        BY DEF HandleClose, IInv, TypeOK
      <4> QED  BY <1>1, <1>3, <1>11, <2>2, <4>1 DEF Ending
    <3>2. sentClose[e] /\ OnlyData(wire[e])
      BY <1>1, <3>1 DEF LateInv, CloseInv
    <3>3. sentClose'[e] /\ OnlyData(wire'[e])
      BY <1>4, <1>8, <3>2
    <3> QED  BY <1>1, <2>2, <3>3 DEF OnlyData
  <2> QED  BY <2>1, <2>2 DEF Ends, Other
<1>12. OnlyLateDataKills'
  <2>1. \A x \in Ends : fin[x] # -1 => fin'[x] = fin[x]
    BY DEF HandleClose, Ended, IInv, TypeOK
  <2>2. \A x \in Ends : sent[x] \in Nat
    BY Typed
  <2> QED  BY <1>3, <2>1, <2>2, KeepKilled
<1>13. \A x \in Ends : ~linked'[x] => bufClosed'[x]
  BY <1>3 DEF LateInv, CloseInv
<1> QED  BY <1>3, <1>9, <1>11, <1>12, <1>13, KeepWriters, Together

(* The steps of channel.close: the channel was ending before. *)
LEMMA ClosingLate ==
    ASSUME IInv, LateInv, NEW e \in Ends, Ending(e), Sticky,
           \A x \in Ends : bufClosed[x] => bufClosed'[x],
           \A x \in Ends \ {e} : loop'[x] = loop[x] /\ linked'[x] = linked[x],
           linked'[e] = linked[e] \/ bufClosed'[e],
           UNCHANGED <<err, wire, sent, fin, writer>>
    PROVE  LateInv'
<1>1. OnlyLateDataKills'
  <2>1. \A x \in Ends : sent[x] \in Nat
    BY Typed
  <2> QED  BY <2>1, KeepKilled
<1>2. \A x \in Ends : ~linked'[x] => bufClosed'[x]
  BY DEF LateInv, CloseInv
<1>3. \A x \in Ends : WireClosing(x)' /\ (OnlyData(wire[x]) => OnlyData(wire[x])')
  BY DrainKeeps DEF Drains
<1>4. \A x \in Ends : Ending(x)' /\ err'[x] = "none" => Ending(x) /\ err[x] = "none"
  BY DEF Ending
<1> QED  BY <1>1, <1>2, <1>3, <1>4, KeepWriters, KeepEnding, Together

LEMMA BufferEOFLate ==
    ASSUME IInv, LateInv, NEW e \in Ends, BufferEOF(e)
    PROVE  LateInv'
<1>1. bufClosed'[e] /\ \A x \in Ends : bufClosed[x] => bufClosed'[x]
  BY SignalEOFKeeps DEF BufferEOF
<1>2. Ending(e)
  BY DEF BufferEOF, Ending
<1>3. \A x \in Ends \ {e} : loop'[x] = loop[x] /\ linked'[x] = linked[x]
  BY DEF BufferEOF, IInv, TypeOK
<1> QED  BY <1>1, <1>2, <1>3, ClosingLate DEF BufferEOF, Sticky

LEMMA MarkClosedLate ==
    ASSUME IInv, LateInv, NEW e \in Ends, MarkClosed(e)
    PROVE  LateInv'
<1>1. Sticky
  BY DEF MarkClosed, Sticky, IInv, TypeOK
<1>2. Ending(e)
  BY DEF MarkClosed, Ending
<1>3. \A x \in Ends \ {e} : loop'[x] = loop[x]
  BY DEF MarkClosed, IInv, TypeOK
<1> QED  BY <1>1, <1>2, <1>3, ClosingLate DEF MarkClosed

LEMMA ReleaseWriterLate ==
    ASSUME IInv, LateInv, NEW e \in Ends, ReleaseWriter(e)
    PROVE  LateInv'
<1>1. Ending(e)
  BY DEF ReleaseWriter, Ending
<1>2. \A x \in Ends \ {e} : loop'[x] = loop[x]
  BY DEF ReleaseWriter, IInv, TypeOK
<1> QED  BY <1>1, <1>2, ClosingLate DEF ReleaseWriter, Sticky

(* The message that finds no channel is data from beyond the end mark.       *)
LEMMA InvalidChannelLate ==
    ASSUME IInv, LateInv, NEW e \in Ends, InvalidChannel(e)
    PROVE  LateInv'
<1> DEFINE o == Other(e)
           m == Head(wire[o])
<1>1. o \in Ends
  BY OtherEnds
<1>2. /\ wire[o] # <<>> /\ wire[o] \in Seq(Messages)
      /\ loop[e] = "reading" /\ ~connClosed[e] /\ ~linked[e]
  BY <1>1 DEF InvalidChannel, IInv, TypeOK
<1>3. /\ Consume(e) /\ FailWith(e, "invalid")
      /\ UNCHANGED <<linked, bufClosed, sentClose, fin, sent, writer>>
  BY DEF InvalidChannel
<1>4. err[e] = "none" /\ Complete(e)
  <2>1. LoopConsistent(e) /\ bufClosed[e]
    BY <1>2 DEF IInv, EndInv, LateInv, CloseInv
  <2> QED  BY <1>2, <2>1 DEF LoopConsistent
<1>5. m.type = "Data" /\ m.n > 0
  <2>1. OnlyData(wire[o]) /\ NoneEmpty(wire[o])
    BY <1>1, <1>2, <1>4 DEF LateInv, CloseInv, Ending
  <2>2. m = wire[o][1] /\ 1 \in 1 .. Len(wire[o])
    BY <1>2, TailFacts
  <2> QED  BY <2>1, <2>2 DEF OnlyData, NoneEmpty
<1>6. fin[o] # -1 /\ sent[o] > fin[o]
  <2>1. m \in Messages /\ DataBefore(m) = Received(e) /\ m.at <= sent[o]
    BY <1>2, <1>4, NextMessage DEF Serving
  <2>2. m.at \in Nat /\ m.n \in Nat /\ m.at - m.n = Received(e)
    BY <1>5, <2>1 DEF Messages, DataBefore
  <2>3. fin[o] # -1 /\ fin[o] <= Received(e)
    BY <1>4 DEF Complete
  <2>4. Received(e) \in Nat /\ sent[o] \in Nat /\ fin[o] \in Nat \cup {-1}
    BY <1>1, Typed
  <2> HIDE DEF m, o
  <2> QED  BY <1>5, <2>1, <2>2, <2>3, <2>4
<1> HIDE DEF m
<1>7. loop \in [Ends -> Places] /\ err \in [Ends -> Reasons]
  BY DEF IInv, TypeOK
<1>8. OnlyLateDataKills'
  <2> SUFFICES ASSUME NEW x \in Ends, err'[x] = "invalid"
               PROVE  fin[Other(x)] # -1 /\ sent[Other(x)] > fin[Other(x)]
    BY <1>3 DEF OnlyLateDataKills
  <2>1. x = e \/ err[x] = "invalid"
    BY <1>3, <1>7 DEF FailWith
  <2> QED  BY <1>6, <2>1 DEF LateInv, OnlyLateDataKills
<1>9. \A x \in Ends : WireClosing(x)' /\ (OnlyData(wire[x]) => OnlyData(wire[x])')
  <2>1. \A x \in Ends : Drains(x)
    BY <1>2, <1>3, ConsumeDrains
  <2> QED  BY <1>3, <2>1, DrainKeeps DEF Sticky
<1>10. ASSUME NEW x \in Ends, Ending(x)', err'[x] = "none"
       PROVE  Ending(x) /\ err[x] = "none"
  BY <1>3, <1>7, <1>10 DEF FailWith, Ending
<1>11. \A x \in Ends : ~linked'[x] => bufClosed'[x]
  BY <1>3 DEF LateInv, CloseInv
<1>12. Sticky
  BY <1>3 DEF Sticky
<1> QED  BY <1>3, <1>8, <1>9, <1>10, <1>11, <1>12, KeepWriters, KeepEnding, Together

LEMMA ConnErrorLate ==
    ASSUME IInv, LateInv, NEW e \in Ends, ConnError(e)
    PROVE  LateInv'
<1>1. loop \in [Ends -> Places] /\ err \in [Ends -> Reasons]
  BY DEF IInv, TypeOK
<1>2. ASSUME NEW x \in Ends
      PROVE  /\ err'[x] = "invalid" => err[x] = "invalid"
             /\ Ending(x)' /\ err'[x] = "none" => Ending(x) /\ err[x] = "none"
  BY <1>1 DEF ConnError, FailWith, Ending
<1> QED  BY <1>2, QuietStep DEF ConnError, Sticky, Drains

LEMMA DropAllLate ==
    ASSUME IInv, LateInv, NEW e \in Ends, DropAll(e)
    PROVE  LateInv'
<1>1. err[e] # "none"
  BY DEF DropAll, IInv, EndInv, LoopConsistent
<1>2. loop \in [Ends -> Places]
  BY DEF IInv, TypeOK
<1>3. ASSUME NEW x \in Ends, Ending(x)', err'[x] = "none"
      PROVE  Ending(x) /\ err[x] = "none"
  BY <1>1, <1>2, <1>3 DEF DropAll, Ending
<1> QED  BY <1>3, QuietStep DEF DropAll, Sticky, Drains

LEMMA LoopExitLate ==
    ASSUME IInv, LateInv, NEW e \in Ends, LoopExit(e)
    PROVE  LateInv'
<1>1. loop \in [Ends -> Places]
  BY DEF IInv, TypeOK
<1>2. ASSUME NEW x \in Ends, Ending(x)', err'[x] = "none"
      PROVE  Ending(x) /\ err[x] = "none"
  BY <1>1, <1>2 DEF LoopExit, Ending
<1>3. \A x \in Ends : Drains(x)
  BY CloseConnDrains DEF LoopExit
<1> QED  BY <1>2, <1>3, QuietStep DEF LoopExit, Sticky

-----------------------------------------------------------------------------
(* The invariant. *)

LEMMA InitLate ==
    ASSUME Init
    PROVE  LateInv
<1>1. OnlyLateDataKills
  BY DEF Init, OnlyLateDataKills
<1>2. ASSUME NEW e \in Ends PROVE CloseInv(e)
  BY EmptyClosing
     DEF Init, CloseInv, WriterBusy, Ending, Idle, CloseThenData, ClosedBy, NoneEmpty
<1> QED  BY <1>1, <1>2 DEF LateInv

LEMMA NextLate ==
    ASSUME WritesFitWord, IInv, LateInv, [Next]_vars
    PROVE  LateInv'
<1>1. ASSUME NEW e \in Ends, Application(e) PROVE LateInv'
  BY <1>1, WriteCallLate, CloseWriteLate, CloseLate, SessionCloseLate DEF Application
<1>2. ASSUME NEW e \in Ends, WriterStep(e) PROVE LateInv'
  BY <1>2, ReserveLate, WriteDataLate DEF WriterStep
<1>3. ASSUME NEW e \in Ends, ReaderStep(e) PROVE LateInv'
  BY <1>3, ReadLate, SendAdjustLate DEF ReaderStep
<1>4. ASSUME NEW e \in Ends, LoopStep(e) PROVE LateInv'
  BY <1>4, HandleDataLate, HandleEOFLate, HandleWindowAdjustLate, HandleCloseLate,
     InvalidChannelLate, ConnErrorLate, BufferEOFLate, MarkClosedLate,
     ReleaseWriterLate, DropAllLate, LoopExitLate DEF LoopStep, Handle
<1>5. CASE UNCHANGED vars
  BY <1>5, QuietStep DEF vars, Sticky, Drains, Ending
<1> QED  BY <1>1, <1>2, <1>3, <1>4, <1>5 DEF Next

(* "invalid channel" never answers an EOF, a window adjustment or a Close:   *)
(* when it kills a session, the peer has written data after its end mark.    *)
THEOREM LateDataOnly == Spec /\ []WritesFitWord => []OnlyLateDataKills
<1>1. Init => LateInv
  BY InitLate
<1>2. WritesFitWord /\ IInv /\ LateInv /\ [Next]_vars => LateInv'
  BY NextLate
<1>3. LateInv => OnlyLateDataKills
  BY DEF LateInv
<1> QED  BY <1>1, <1>2, <1>3, Invariance, PTL DEF Spec
=============================================================================
