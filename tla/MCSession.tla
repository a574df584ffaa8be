----------------------------- MODULE MCSession ------------------------------
(* Instances of Session for TLC. *)
EXTENDS Session

Both(a, b) == [e \in Ends |-> IF e = "client" THEN a ELSE b]

OneByClient == Both(1, 0)
OneEach == Both(1, 1)
TwoByClient == Both(2, 0)

Setting(acceptable, opens, mayClose, habits) ==
    [acceptable |-> acceptable, opens |-> opens, mayClose |-> mayClose, habits |-> habits]

(* Both ends' packet sizes are accepted, or those of one end only. *)
PerhapsRefused == {Ends, {"server"}, {"client"}}

(* Opens that cross, or follow each other, while the client may close. *)
Crossing == {Setting(a, OneEach, {"client"}, {}) : a \in PerhapsRefused}

(* Two Opens while the session lives; and one that either end may end, also *)
(* by what it writes after Close.                                           *)
Busy == {Setting(Ends, TwoByClient, {}, {})}
Ending == {Setting(a, OneByClient, Ends, {"writeLate"}) : a \in PerhapsRefused}
BusyOrEnding == Busy \cup Ending

(* One Open, and either end may close the session. *)
OneOpen == {Setting(Ends, OneByClient, Ends, {})}

(* An acceptor that closes a channel as soon as it has it. *)
ClosesEarly == {Setting(Ends, TwoByClient, {}, {"closeEarly"})}
=============================================================================
