------------------------------ MODULE MCJsMux -------------------------------
(* Instances of JsMux: the settings a run goes through. *)
EXTENDS JsMux

By(a, b) == [e \in Ends |-> IF e = "a" THEN a ELSE b]
Pairs == [Ends -> {"mux", "qmux"}]
MixedPairs == {p \in Pairs : p["a"] # p["b"]}

(* One channel on which a writes more than the window takes. *)
Data == {[impl |-> p, acceptable |-> Ends, opens |-> By(1, 0), bytes |-> By(3, 0),
          lengths |-> {0, 1}, closers |-> {}, habits |-> {"closeWrite"}] : p \in Pairs}

(* Two channels that are opened and closed one after the other or together. *)
Numbers == {[impl |-> p, acceptable |-> Ends, opens |-> By(2, 0), bytes |-> By(0, 0),
             lengths |-> {}, closers |-> {}, habits |-> {}] : p \in MixedPairs}

(* Channels closed twice, a session closed, a connection that breaks. *)
Abrupt == {[impl |-> p, acceptable |-> Ends, opens |-> By(1, 0), bytes |-> By(0, 0),
            lengths |-> {1}, closers |-> {"b"},
            habits |-> {"closeTwice", "cutShort"}] : p \in MixedPairs}

(* An end that announces a packet size the other refuses. *)
Refused == {[impl |-> p, acceptable |-> {"b"}, opens |-> By(1, 1), bytes |-> By(0, 0),
             lengths |-> {}, closers |-> Ends, habits |-> {}] : p \in MixedPairs}

AllSettings == Data \cup Numbers \cup Abrupt \cup Refused
=============================================================================
