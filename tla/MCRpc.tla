------------------------------- MODULE MCRpc --------------------------------
(* Instances of Rpc: the calls, the handlers and the paths of a run. *)
EXTENDS Rpc

Does(decodes, outcome) == [decodes |-> decodes, outcome |-> outcome]

Pair(caller, responder) == [s \in Sides |-> IF s = "caller" THEN caller ELSE responder]

JavaScript == {Pair("rpc", "rpc"), Pair("qrpc", "qrpc")}
Golang == {Pair("go", "go"), Pair("go", "rpc"), Pair("rpc", "go")}

(* One call of a handler that is bound under its first word. *)
OneCall(impl, handler, given, closers) ==
    [impl |-> impl, binds |-> <<[path |-> <<"f", Slash>>, handler |-> handler]>>,
     ids |-> {}, methods |-> <<>>,
     path |-> <<<<Slash, "f", Slash, "g">>>>, given |-> <<given>>,
     big |-> FALSE, nothing |-> FALSE, wanted |-> TRUE, mock |-> FALSE,
     closers |-> closers]

(* What handlers do, with and without arguments. *)
Answers ==
    {OneCall(impl, Does(d, o), g, {}) :
        impl \in JavaScript \cup Golang, d \in BOOLEAN, g \in BOOLEAN,
        o \in {"value", "error", "hijack"}}

(* A value that spans data messages, and a path that is bound twice. *)
Spans ==
    {[OneCall(impl, Does(TRUE, o), TRUE, {}) EXCEPT !.big = TRUE] :
        impl \in Golang, o \in {"value", "hijack"}}

(* Handlers that give nothing, and replies that nobody wants. *)
Nothings ==
    {[OneCall(impl, Does(TRUE, o), TRUE, {}) EXCEPT !.nothing = TRUE] :
        impl \in JavaScript \cup Golang, o \in {"value", "hijack"}}

Unwanted ==
    {[OneCall(impl, Does(TRUE, o), TRUE, {}) EXCEPT !.wanted = FALSE, !.nothing = n] :
        impl \in {Pair("go", "go"), Pair("go", "rpc")}, o \in {"value", "hijack"},
        n \in BOOLEAN}

Twice ==
    {[OneCall(Pair("go", "go"), Does(TRUE, "value"), TRUE, {}) EXCEPT
        !.binds = Append(@, [path |-> <<"f", Slash, "g">>, handler |-> Does(FALSE, "error")])]}

(* Sessions that end during a call. *)
Endings ==
    {OneCall(impl, Does(TRUE, "value"), TRUE, Sides) :
        impl \in JavaScript \cup {Pair("go", "go")}}
    \cup {OneCall(impl, Does(TRUE, o), TRUE, {"responder"}) :
            impl \in JavaScript, o \in {"error", "hijack"}}
    \cup {[OneCall(Pair("go", "rpc"), Does(TRUE, "value"), TRUE, {"caller"}) EXCEPT
                !.wanted = FALSE]}

(* Over MockSessions, as in the demo of qrpc. *)
Mocked ==
    {[s EXCEPT !.mock = TRUE] :
        s \in {OneCall(Pair("qrpc", "qrpc"), Does(TRUE, o), TRUE, closers) :
                  o \in {"value", "error", "hijack", "string"}, closers \in {{}, Sides}}}

(* Exported functions that throw. *)
Throws == {OneCall(Pair("qrpc", "qrpc"), Does(TRUE, o), TRUE, {}) : o \in Thrown}

(* An object that is registered and disposed of, a method and none. *)
ObjectCall(mount, method) ==
    [impl |-> Pair("qrpc", "qrpc"),
     binds |-> <<[path |-> <<"f">>, handler |-> Does(TRUE, "value")],
                 [path |-> mount, handler |-> Does(FALSE, "manager")]>>,
     ids |-> {"o"},
     methods |-> [m \in {<<"m">>} |-> Does(TRUE, "value")],
     path |-> <<PathOf(mount, "o") \o <<Slash, method>>>>, given |-> <<TRUE>>,
     big |-> FALSE, nothing |-> FALSE, wanted |-> TRUE, mock |-> FALSE,
     closers |-> {}]

Objects ==
    {ObjectCall(mount, method) :
        mount \in {<<Slash>>, <<"objs">>, <<Slash, "objs">>, <<"objs", Slash, "v1">>},
        method \in {"m", "n"}}

(* A call in Go whose handler returns an error. *)
ErrorInGo == {OneCall(Pair("go", "go"), Does(TRUE, "error"), TRUE, {})}

AllSettings == Answers \cup Spans \cup Nothings \cup Unwanted \cup Twice \cup Endings
    \cup Throws \cup Objects \cup Mocked
=============================================================================
