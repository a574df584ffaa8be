-------------------------- MODULE ServingInvariant --------------------------
(***************************************************************************)
(* The inductive invariant of Serving: what has come is first what a loop  *)
(* has taken, then what has been handed to a loop that has not gone on,    *)
(* then what nobody has asked for; in Go what waits to be accepted.        *)
(***************************************************************************)
EXTENDS Serving

QueueType(W, V) ==
    [q: Seq(V), waiters: Seq(W), closed: BOOLEAN, handed: Seq(W \X (V \cup {Undefined}))]

Shape ==
    /\ setting \in Settings
    /\ listener \in {"new", "failed", "listening", "closing", "closed"}
    /\ pending \in QueueType(Loops, Clients)
    /\ accepted \subseteq Clients /\ backlog \in Seq(Clients)
    /\ closer \in 0..1 /\ errs \in {"none", "there", "taken"}
    /\ serve \in [Loops -> {"ready", "waiting", "returned"}]
    /\ conn \in [Clients -> {"none", "dialing", "up", "rejected", "crashed", "unanswered", "gone"}]
    /\ made \in Seq(Clients) /\ served \in Seq(Clients)
    /\ incoming \in [Clients \X Sides -> QueueType(Clients \X Sides, Nat \ {0})]
    /\ closeCh \in [Clients \X Sides -> 0..1]
    /\ respond \in [Clients \X Sides -> {"none", "ready", "waiting", "returned"}]
    /\ opened \in [Clients \X Sides -> Nat]
    /\ dispatched \in [Clients \X Sides -> Seq(Nat \ {0})]

(* Taken, then the first n that are handed, then q, are what came, in this *)
(* order; who was handed something later found the queue closed.           *)
InLine(q, handed, closed, taken, came, n) ==
    /\ \A i \in 1 .. Len(handed) :
          handed[i][2] = IF i <= n THEN came[Len(taken) + i] ELSE Undefined
    /\ n < Len(handed) => closed
    /\ Len(came) = Len(taken) + n + Len(q)
    /\ \A i \in 1 .. Len(taken) : taken[i] = came[i]
    /\ \A i \in 1 .. Len(q) : q[i] = came[Len(taken) + n + i]

Line(queue, taken, came) ==
    /\ queue.waiters = <<>> \/ queue.q = <<>>
    /\ \E n \in 0 .. Len(queue.handed) :
          InLine(queue.q, queue.handed, queue.closed, taken, came, n)

Idle(queue) == queue.handed = <<>> /\ queue.waiters = <<>>

Distinct(s) == \A i, j \in 1 .. Len(s) : s[i] = s[j] => i = j

(* A queue of sessions is closed when the listener is, which nobody is      *)
(* connected to any more.                                                   *)
PendingInv ==
    /\ pending.closed => listener = "closed" /\ Up = {}
    /\ IF JavaScript THEN Line(pending, served, made) /\ backlog = <<>>
       ELSE Idle(pending) /\ pending.q = <<>>

Came(e) == [n \in 1..opened[e] |-> n]

(* A queue of channels is never closed; in Go nobody waits at it. *)
IncomingInv(e) ==
    /\ ~incoming[e].closed
    /\ Line(incoming[e], dispatched[e], Came(e))
    /\ Go(e[2]) => Idle(incoming[e])

(* Who has been connected comes once. *)
ComesOnce ==
    /\ Distinct(made) /\ Distinct(backlog)
    /\ \A i \in 1 .. Len(made), j \in 1 .. Len(backlog) : made[i] # backlog[j]
    /\ \A i \in 1 .. Len(made) : conn[made[i]] \notin {"none", "dialing"}
    /\ \A i \in 1 .. Len(backlog) : conn[backlog[i]] \notin {"none", "dialing"}

(* In Go a session that was made has been served or waits to be accepted; *)
(* over tcp the last one only.                                            *)
AcceptedInv ==
    /\ \A i \in 1 .. Len(served) : served[i] \notin accepted
    /\ \A i \in 1 .. Len(served) : \E j \in 1 .. Len(made) : served[i] = made[j]
    /\ \A c \in accepted : \E j \in 1 .. Len(made) : c = made[j]
    /\ Distinct(served)

OneAtATime ==
    /\ \A i \in 1 .. Len(served) : served[i] = made[i]
    /\ \/ accepted = {} /\ Len(made) = Len(served)
       \/ Len(made) = Len(served) + 1 /\ accepted = {made[Len(made)]}

ServingInv ==
    /\ Shape /\ PendingInv /\ ComesOnce
    /\ \A e \in Clients \X Sides : IncomingInv(e)
    /\ ~JavaScript => AcceptedInv
    /\ setting.listener = "goTcp" => OneAtATime
=============================================================================
