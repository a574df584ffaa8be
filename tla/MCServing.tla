------------------------------ MODULE MCServing ------------------------------
(* Instances of Serving: listeners, and who dials them. *)
EXTENDS Serving

To(client, server) == [s \in Sides |-> IF s = "client" THEN client ELSE server]

(* Sessions: two clients dial, the listener is closed, connections end. *)
Listeners ==
    {[listener |-> l, dialers |-> Clients, dial |-> "tcp", client |-> "qrpc",
      opens |-> To(0, 0), closes |-> 2] : l \in {"tcp", "goTcp", "goWs"}}
    \cup {[listener |-> "ws", dialers |-> Clients, dial |-> d, client |-> "rpc",
           opens |-> To(0, 0), closes |-> 1] : d \in {"nodeWs", "browser", "mux"}}

(* Channels: those that are opened to both ends of one connection. *)
Channels ==
    {[listener |-> l, dialers |-> {1}, dial |-> "tcp", client |-> c, opens |-> To(2, 2),
      closes |-> 1] : l \in {"tcp", "goTcp"}, c \in {"qrpc", "rpc", "go"}}

AllSettings == Listeners \cup Channels
=============================================================================
