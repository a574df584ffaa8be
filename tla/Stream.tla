------------------------------- MODULE Stream -------------------------------
(***************************************************************************)
(* What golang/mux/api.go promises of a Channel: "an ordered, reliable,    *)
(* flow-controlled, duplex stream".  A byte is identified with its offset  *)
(* in the stream of the end that wrote it, so the stream an end writes is  *)
(* 1, 2, 3, ... and the other end must read a prefix of it.                *)
(***************************************************************************)
EXTENDS Integers, Sequences

CONSTANT Capacity  \* how far a writer may run ahead of the other end's reader

Ends == {"opener", "acceptor"}

Other(e) == IF e = "opener" THEN "acceptor" ELSE "opener"

VARIABLES sent,    \* number of bytes each end has put on the stream
          fin,     \* offset at which an end ended its stream, -1 before that
          got,     \* the bytes each end has read
          broken,  \* the transport under an end has failed
          eof      \* an end has been told that there is nothing more to read

vars == <<sent, fin, got, broken, eof>>

Init ==
    /\ sent = [e \in Ends |-> 0]
    /\ fin = [e \in Ends |-> -1]
    /\ got = [e \in Ends |-> <<>>]
    /\ broken = [e \in Ends |-> FALSE]
    /\ eof = [e \in Ends |-> FALSE]

(* The writer stays within the capacity the reader has granted. *)
Send(e) ==
    /\ \E n \in 1 .. Capacity[Other(e)] + Len(got[Other(e)]) - sent[e] :
          sent' = [sent EXCEPT ![e] = @ + n]
    /\ UNCHANGED <<fin, got, broken, eof>>

(* CloseWrite or Close: the first one fixes where the stream ends. *)
Finish(e) ==
    /\ fin[e] = -1
    /\ fin' = [fin EXCEPT ![e] = sent[e]]
    /\ UNCHANGED <<sent, got, broken, eof>>

(* The next bytes of the other end's stream, in order and without a gap. *)
Deliver(e) ==
    /\ \E n \in 1 .. sent[Other(e)] - Len(got[e]) :
          got' = [got EXCEPT ![e] = @ \o [i \in 1 .. n |-> Len(@) + i]]
    /\ UNCHANGED <<sent, fin, broken, eof>>

(* End of stream, only once every byte sent before the end has been read,  *)
(* unless the transport broke.                                             *)
SignalEOF(e) ==
    /\ ~eof[e]
    /\ \/ broken[e]
       \/ fin[Other(e)] # -1 /\ fin[Other(e)] <= Len(got[e])
    /\ eof' = [eof EXCEPT ![e] = TRUE]
    /\ UNCHANGED <<sent, fin, got, broken>>

Break(e) ==
    /\ ~broken[e]
    /\ broken' = [broken EXCEPT ![e] = TRUE]
    /\ UNCHANGED <<sent, fin, got, eof>>

Next ==
    \E e \in Ends :
        Send(e) \/ Finish(e) \/ Deliver(e) \/ SignalEOF(e) \/ Break(e)

Spec == Init /\ [][Next]_vars
=============================================================================
