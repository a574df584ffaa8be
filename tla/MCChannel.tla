----------------------------- MODULE MCChannel ------------------------------
(* Instances of Channel for TLC. *)
EXTENDS ChannelInvariant

Both(a, b) == [e \in Ends |-> IF e = "opener" THEN a ELSE b]

OneEach == Both(1, 1)

(* The opener sends more than the acceptor's window holds. *)
NarrowWindow == Both(1, 2)
Bulk == Both(3, 0)

OneByte == Both(1, 0)

NoOne == {}
OpenerOnly == {"opener"}
=============================================================================
