------------------------------- MODULE Serving -------------------------------
(***************************************************************************)
(* Listeners, the loops that accept, and who dials: what lies between a    *)
(* connection that is made and a channel that is answered.  A server       *)
(* listens, and its loops accept sessions; at each end of a session a loop *)
(* accepts the channels that the other end opens. The listener is one of   *)
(*   "tcp", "ws"    TCPListener, WebsocketListener of qmux_node.ts, served *)
(*                  by Server of qrpc.ts                                   *)
(*   "goTcp", "goWs" golang/mux/transport/listeners.go, served by Server   *)
(*                  of golang/rpc                                          *)
(* In JavaScript both waits are a queue whose shift gives a promise: what  *)
(* has been resolved is handed to the waiter, which goes on later.         *)
(***************************************************************************)
EXTENDS Integers, Sequences, FiniteSets, SequencesExt

CONSTANTS
    Settings,   \* the settings to check, each a member of AnySetting
    Clients,    \* who dials
    Loops       \* loops that accept from the listener

Sides == {"client", "server"}

(* What is given from the start: the listener; who dials, and how; the loop at *)
(* their end, which runs if channels are opened to it; how many are opened to  *)
(* each end of a connection; and how often the listener is closed.             *)
AnySetting ==
    [listener: {"tcp", "ws", "goTcp", "goWs"}, dialers: SUBSET Clients,
     dial: {"tcp", "nodeWs", "browser", "mux"}, client: {"qrpc", "rpc", "go"},
     opens: [Sides -> Nat], closes: 0..2]

ASSUME SettingsAssumption == Settings \subseteq AnySetting
ASSUME NamesAssumption == IsFiniteSet(Clients) /\ IsFiniteSet(Loops)

VARIABLES
    setting,     \* chosen once
    listener,    \* "new", "failed" (it threw), "listening", "closing" or "closed"
    pending,     \* listener.pending: sessions that wait for accept
    accepted,    \* Go: sessions whose goroutine waits to hand them to Accept
    backlog,     \* Go: connections that the listener's goroutine has not taken
    closer,      \* Go: values in the channel closer of the listener
    errs,        \* Go: "none", "there", or "taken": the error of the listener's Accept
    closes,      \* calls of the listener's close, in order: what became of each
    serve,       \* the serve loops: "ready", "waiting" or "returned"
    conn,        \* what became of each dial
    made,        \* sessions in the order they were made
    served,      \* sessions in the order the serve loops have taken them
    incoming,    \* session.incoming at each end
    closeCh,     \* Go: values in closeCh of the session at each end
    respond,     \* the loops at the ends: "none", "ready", "waiting" or "returned"
    opened,      \* channels that have been opened to each end
    dispatched   \* channels that the loop at each end has taken, in order

listening == <<listener, pending, accepted, backlog, closer, errs, closes>>
sessions == <<made, served, serve>>
channels == <<incoming, closeCh, respond, opened, dispatched>>
vars == <<setting, listening, sessions, conn, channels>>

JavaScript == setting.listener \in {"tcp", "ws"}

Go(side) == IF side = "client" THEN setting.client = "go" ELSE ~JavaScript

-----------------------------------------------------------------------------
(* queue: what is pushed and not taken, who waits, and what has been handed *)
(* to whom                                                                  *)

Undefined == 0

(* What is accepted is a session. *)
ASSUME ClientsAssumption == Undefined \notin Clients

NewQueue == [q |-> <<>>, waiters |-> <<>>, closed |-> FALSE, handed |-> <<>>]

Hand(queue, who, value) == [queue EXCEPT !.handed = Append(@, <<who, value>>)]

(* Slip: who waits is not looked for. *)
PushOnly(queue, value) == [queue EXCEPT !.q = Append(@, value)]

(* push throws if the queue is closed: no connection comes once it is. *)
Push(queue, value) ==
    CASE queue.closed -> queue
      [] ~queue.closed /\ queue.waiters # <<>> ->
            Hand([queue EXCEPT !.waiters = Tail(@)], Head(queue.waiters), value)
      [] OTHER -> [queue EXCEPT !.q = Append(@, value)]

(* Slip: the newest instead of the oldest. *)
Pop(queue, who) ==
    CASE queue.closed -> Hand(queue, who, Undefined)
      [] ~queue.closed /\ queue.q # <<>> ->
            Hand([queue EXCEPT !.q = Front(@)], who, Last(queue.q))
      [] OTHER -> [queue EXCEPT !.waiters = Append(@, who)]

(* A closed queue gives undefined, whatever is left in it. *)
Shift(queue, who) ==
    CASE queue.closed -> Hand(queue, who, Undefined)
      [] ~queue.closed /\ queue.q # <<>> ->
            Hand([queue EXCEPT !.q = Tail(@)], who, Head(queue.q))
      [] OTHER -> [queue EXCEPT !.waiters = Append(@, who)]

(* Slip: those who wait are not told. *)
CloseSilently(queue) == [queue EXCEPT !.closed = TRUE]

CloseQueue(queue) ==
    IF queue.closed THEN queue
    ELSE [queue EXCEPT !.closed = TRUE,
                       !.handed = @ \o [i \in DOMAIN queue.waiters |->
                                           <<queue.waiters[i], Undefined>>]]

-----------------------------------------------------------------------------
(* Dialling: what the promise comes to. *)

(* Nobody listens for "error": it ends the process. *)
DialTCP(ok) == IF ok THEN "up" ELSE "crashed"

DialWebsocketNode(ok) == IF ok THEN "up" ELSE "rejected"

DialWebsocket(ok) == IF ok THEN "up" ELSE "rejected"

(* The handler of errors is commented out: the promise stays as it is. *)
Dial(ok) == IF ok THEN "up" ELSE "unanswered"

Dialled(ok) ==
    CASE setting.dial = "tcp" -> DialTCP(ok)
      [] setting.dial = "nodeWs" -> DialWebsocketNode(ok)
      [] setting.dial = "browser" -> DialWebsocket(ok)
      [] setting.dial = "mux" -> Dial(ok)

Up == {c \in Clients : conn[c] = "up"}

(* Connections end, and the sessions at both their ends: in Go closeCh is told, *)
(* in JavaScript nothing closes incoming.                                       *)
Gone(cs) ==
    /\ conn' = [c \in Clients |-> IF c \in cs THEN "gone" ELSE conn[c]]
    /\ closeCh' = [e \in DOMAIN closeCh |-> IF e[1] \in cs /\ Go(e[2]) THEN 1 ELSE closeCh[e]]

Init ==
    /\ setting \in Settings
    /\ listener = "new" /\ pending = NewQueue
    /\ accepted = {} /\ backlog = <<>> /\ closer = 0 /\ errs = "none" /\ closes = <<>>
    /\ serve = [l \in Loops |-> "ready"]
    /\ conn = [c \in Clients |-> "none"]
    /\ made = <<>> /\ served = <<>>
    /\ incoming = [e \in Clients \X Sides |-> NewQueue]
    /\ closeCh = [e \in Clients \X Sides |-> 0]
    /\ respond = [e \in Clients \X Sides |-> "none"]
    /\ opened = [e \in Clients \X Sides |-> 0]
    /\ dispatched = [e \in Clients \X Sides |-> <<>>]

-----------------------------------------------------------------------------
(* The listener *)

(* "error" throws out of its handler; else "listening" resolves listen. *)
ListenTCP == setting.listener = "tcp" /\ listener' \in {"listening", "failed"}

ListenWebsocket == setting.listener = "ws" /\ listener' \in {"listening", "failed"}

ListenGo == ~JavaScript /\ listener' = "listening"

Listen ==
    /\ listener = "new"
    /\ ListenTCP \/ ListenWebsocket \/ ListenGo
    /\ UNCHANGED <<setting, pending, accepted, backlog, closer, errs, closes,
                   sessions, conn, channels>>

StartsDial(c) ==
    /\ c \in setting.dialers /\ conn[c] = "none"
    /\ conn' = [conn EXCEPT ![c] = "dialing"]
    /\ UNCHANGED <<setting, listening, sessions, channels>>

(* "connection": a session over it is pushed, which an accept may wait for. In *)
(* Go the connection is there before anybody accepts it.                       *)
Connection(c) ==
    /\ conn[c] = "dialing" /\ listener = "listening"
    /\ conn' = [conn EXCEPT ![c] = Dialled(TRUE)]
    /\ IF JavaScript
       THEN /\ made' = Append(made, c)
            /\ pending' = Push(pending, c)
            /\ UNCHANGED backlog
       ELSE backlog' = Append(backlog, c) /\ UNCHANGED <<made, pending>>
    /\ UNCHANGED <<setting, listener, accepted, closer, errs, closes, served, serve, channels>>

DialFails(c) ==
    /\ conn[c] = "dialing" /\ listener # "listening"
    /\ conn' = [conn EXCEPT ![c] = Dialled(FALSE)]
    /\ UNCHANGED <<setting, listening, sessions, channels>>

(* The goroutine of listenNet takes the next connection once Accept has taken *)
(* the one before; that of ListenWS starts one for every connection.          *)
TakeConnection ==
    /\ backlog # <<>> /\ listener = "listening"
    /\ setting.listener = "goWs" \/ (accepted = {} /\ errs = "none")
    /\ backlog' = Tail(backlog)
    /\ made' = Append(made, Head(backlog))
    /\ accepted' = accepted \cup {Head(backlog)}
    /\ UNCHANGED <<setting, listener, pending, closer, errs, closes, served, serve,
                   conn, channels>>

(* net.Server.close: no more connections are taken. A second call is told of *)
(* an error.                                                                 *)
CloseTCP ==
    /\ setting.listener = "tcp" /\ listener # "new" /\ listener # "failed"
    /\ listener' = IF listener = "listening" THEN "closing" ELSE listener
    /\ closes' = Append(closes, IF listener = "listening" THEN "waits" ELSE "waitsToFail")
    /\ UNCHANGED <<pending, conn, closeCh, accepted, backlog, closer>>

(* WebSocket.Server.close also terminates every client. *)
CloseWebsocket ==
    /\ setting.listener = "ws" /\ listener = "listening"
    /\ closes' = Append(closes, "waits")
    /\ listener' = "closing"
    /\ Gone(Up)
    /\ UNCHANGED <<pending, accepted, backlog, closer>>

(* closer takes one value: a call that finds it there waits. The connections *)
(* that nobody has taken are reset.                                          *)
CloseGo ==
    /\ ~JavaScript /\ listener \in {"listening", "closed"}
    /\ IF closer = 0
       THEN /\ closer' = 1
            /\ listener' = "closed"
            /\ closes' = Append(closes, "returned")
            /\ Gone(ToSet(backlog) \cap Up)
            /\ backlog' = <<>>
       ELSE /\ closes' = Append(closes, "blocked")
            /\ UNCHANGED <<closer, listener, conn, closeCh, backlog>>
    /\ UNCHANGED <<pending, accepted>>

CloseListener ==
    /\ Len(closes) < setting.closes
    /\ CloseTCP \/ CloseWebsocket \/ CloseGo
    /\ UNCHANGED <<setting, errs, sessions, incoming, respond, opened, dispatched>>

(* "close", once every connection has gone: the queue is closed and the *)
(* callers of close are told.                                           *)
Closed ==
    /\ Up = {} /\ \E i \in DOMAIN closes : closes[i] \in {"waits", "waitsToFail"}
    /\ listener' = "closed"
    /\ pending' = CloseQueue(pending)
    /\ closes' = [i \in DOMAIN closes |->
                     CASE closes[i] = "waits" -> "returned"
                       [] closes[i] = "waitsToFail" -> "rejected"
                       [] OTHER -> closes[i]]
    /\ UNCHANGED <<setting, accepted, backlog, closer, errs, sessions, conn, channels>>

(* Whatever error Accept of the net.Listener gives, its goroutine ends; who *)
(* serves HTTP does not pass that on.                                       *)
StopsAccepting ==
    /\ setting.listener = "goTcp" /\ accepted = {} /\ errs = "none"
    /\ errs' = "there"
    /\ UNCHANGED <<setting, listener, pending, accepted, backlog, closer, closes,
                   sessions, conn, channels>>

(* Once it is closed, Accept fails. *)
AcceptFails == listener = "closed" /\ StopsAccepting

(* It may fail before: who dials then is still connected, and in nobody's hands. *)
AcceptBreaks == listener = "listening" /\ StopsAccepting

-----------------------------------------------------------------------------
(* Serving: who accepts sessions *)

(* listener.accept is pending.shift. *)
ServeAccepts(l) ==
    /\ JavaScript /\ serve[l] = "ready" /\ listener \notin {"new", "failed"}
    /\ pending' = Shift(pending, l)
    /\ serve' = [serve EXCEPT ![l] = "waiting"]
    /\ UNCHANGED <<setting, listener, accepted, backlog, closer, errs, closes, made, served,
                   conn, channels>>

(* Promises go on in the order in which they were resolved. Server.serve starts *)
(* serveAPI for the session and accepts again, or returns.                      *)
ServeGoesOn ==
    /\ pending.handed # <<>>
    /\ LET l == Head(pending.handed)[1]
           c == Head(pending.handed)[2]
       IN  IF c = Undefined
           THEN serve' = [serve EXCEPT ![l] = "returned"] /\ UNCHANGED <<served, respond>>
           ELSE /\ serve' = [serve EXCEPT ![l] = "ready"]
                /\ served' = Append(served, c)
                /\ respond' = [respond EXCEPT ![<<c, "server">>] = "ready"]
    /\ pending' = [pending EXCEPT !.handed = Tail(@)]
    /\ UNCHANGED <<setting, listener, accepted, backlog, closer, errs, closes, made, conn,
                   incoming, closeCh, opened, dispatched>>

(* Serve in Go, which accepts whichever there is: a session, or the end. A *)
(* call of close that waits at closer goes on when its value is taken.     *)
ServeGo(l) ==
    /\ ~JavaScript /\ serve[l] = "ready" /\ listener # "new"
    /\ \/ \E c \in accepted :
             /\ accepted' = accepted \ {c}
             /\ served' = Append(served, c)
             /\ respond' = [respond EXCEPT ![<<c, "server">>] = "ready"]
             /\ UNCHANGED <<serve, closer, errs, closes>>
       \/ /\ closer = 1
          /\ serve' = [serve EXCEPT ![l] = "returned"]
          /\ \/ /\ \A i \in DOMAIN closes : closes[i] # "blocked"
                /\ closer' = 0 /\ UNCHANGED closes
             \/ \E i \in DOMAIN closes :
                   /\ closes[i] = "blocked"
                   /\ closes' = [closes EXCEPT ![i] = "returned"] /\ UNCHANGED closer
          /\ UNCHANGED <<accepted, served, respond, errs>>
       \/ /\ errs = "there"
          /\ serve' = [serve EXCEPT ![l] = "returned"]
          /\ errs' = "taken"
          /\ UNCHANGED <<accepted, served, respond, closer, closes>>
    /\ UNCHANGED <<setting, listener, pending, backlog, made, conn, incoming, closeCh,
                   opened, dispatched>>

-----------------------------------------------------------------------------
(* Sessions: who accepts channels *)

(* The session at an end takes in a channel that the other end opens. *)
Opens(e) ==
    /\ e[1] \in Up /\ opened[e] < setting.opens[e[2]]
    /\ e[1] \in ToSet(made)
    /\ opened' = [opened EXCEPT ![e] = @ + 1]
    /\ incoming' = [incoming EXCEPT ![e] = Push(@, opened[e] + 1)]
    /\ UNCHANGED <<setting, listening, sessions, conn, closeCh, respond, dispatched>>

Ends(c) ==
    /\ c \in Up
    /\ Gone({c})
    /\ UNCHANGED <<setting, listening, sessions, incoming, respond, opened, dispatched>>

(* Who has dialled serves what is called at its end. *)
Responds(c) ==
    /\ conn[c] = "up" /\ respond[<<c, "client">>] = "none" /\ setting.opens["client"] > 0
    /\ respond' = [respond EXCEPT ![<<c, "client">>] = "ready"]
    /\ UNCHANGED <<setting, listening, sessions, conn, incoming, closeCh, opened, dispatched>>

(* session.accept is incoming.shift. *)
RespondAccepts(e) ==
    /\ respond[e] = "ready" /\ ~Go(e[2])
    /\ incoming' = [incoming EXCEPT ![e] = Shift(@, e)]
    /\ respond' = [respond EXCEPT ![e] = "waiting"]
    /\ UNCHANGED <<setting, listening, sessions, conn, closeCh, opened, dispatched>>

(* Slip: one channel is taken and no more. *)
ServesOne(ch) == "returned"

(* What the loop of an end does after it was given what it waited for. *)
ServerGoesOn(ch) == IF ch = Undefined THEN "returned" ELSE "ready"

ClientGoesOn(ch) == IF ch = Undefined THEN "returned" ELSE "ready"

PeerGoesOn(ch) == "ready"

RespondGoesOn(e) ==
    /\ incoming[e].handed # <<>>
    /\ LET ch == Head(incoming[e].handed)[2] IN
       /\ incoming' = [incoming EXCEPT ![e].handed = Tail(@)]
       /\ dispatched' = [dispatched EXCEPT ![e] = IF ch = Undefined THEN @ ELSE Append(@, ch)]
       /\ respond' = [respond EXCEPT ![e] =
             CASE e[2] = "server" -> ServerGoesOn(ch)
               [] e[2] = "client" /\ setting.client = "qrpc" -> ClientGoesOn(ch)
               [] OTHER -> PeerGoesOn(ch)]
    /\ UNCHANGED <<setting, listening, sessions, conn, closeCh, opened>>

(* Respond in Go, which accepts whichever there is: a channel, or the end. *)
RespondGo(e) ==
    /\ respond[e] = "ready" /\ Go(e[2])
    /\ \/ /\ incoming[e].q # <<>>
          /\ incoming' = [incoming EXCEPT ![e].q = Tail(@)]
          /\ dispatched' = [dispatched EXCEPT ![e] = Append(@, Head(incoming[e].q))]
          /\ UNCHANGED <<closeCh, respond>>
       \/ /\ closeCh[e] = 1
          /\ closeCh' = [closeCh EXCEPT ![e] = 0]
          /\ respond' = [respond EXCEPT ![e] = "returned"]
          /\ UNCHANGED <<incoming, dispatched>>
    /\ UNCHANGED <<setting, listening, sessions, conn, opened>>

Application ==
    \/ Listen \/ CloseListener \/ AcceptBreaks
    \/ \E c \in Clients : StartsDial(c) \/ Ends(c) \/ Responds(c)
    \/ \E e \in Clients \X Sides : Opens(e)

Runs ==
    \/ TakeConnection \/ Closed \/ AcceptFails \/ ServeGoesOn
    \/ \E c \in Clients : Connection(c) \/ DialFails(c)
    \/ \E l \in Loops : ServeAccepts(l) \/ ServeGo(l)
    \/ \E e \in Clients \X Sides : RespondAccepts(e) \/ RespondGoesOn(e) \/ RespondGo(e)

Next == Application \/ Runs

Spec == Init /\ [][Next]_vars

(* The event loops turn and goroutines run; nothing is asked of applications, *)
(* nor that Accept of an open listener ever fails.                             *)
FairSpec == Spec /\ WF_vars(Runs)

-----------------------------------------------------------------------------
(* Properties *)

Values(queue) == [i \in DOMAIN queue.handed |-> queue.handed[i][2]]

(* Every variable has its type; a queue that somebody waits at is empty. *)
TypeOK ==
    /\ setting \in Settings
    /\ listener \in {"new", "failed", "listening", "closing", "closed"}
    /\ accepted \subseteq Clients /\ closer \in 0..1 /\ errs \in {"none", "there", "taken"}
    /\ serve \in [Loops -> {"ready", "waiting", "returned"}]
    /\ conn \in [Clients -> {"none", "dialing", "up", "rejected", "crashed", "unanswered", "gone"}]
    /\ \A e \in Clients \X Sides :
        /\ respond[e] \in {"none", "ready", "waiting", "returned"} /\ closeCh[e] \in 0..1
        /\ incoming[e].waiters = <<>> \/ incoming[e].q = <<>>
    /\ pending.waiters = <<>> \/ pending.q = <<>>

(* Every session is served, and every channel answered, once and in the order *)
(* they came, whether a loop waited for them or not and however many loops    *)
(* share a listener; over HTTP in Go sessions have no order. What the queue   *)
(* of a listener drops when it closes has lost its connection by then.        *)
EachOnceInOrder ==
    /\ pending.closed => \A i \in DOMAIN pending.q : pending.q[i] \notin Up
    /\ JavaScript /\ ~pending.closed => served \o Values(pending) \o pending.q = made
    /\ setting.listener = "goTcp" => served = SubSeq(made, 1, Len(served))
    /\ \A i, j \in DOMAIN served : served[i] = served[j] => i = j
    /\ \A e \in Clients \X Sides :
        dispatched[e] \o Values(incoming[e]) \o incoming[e].q = [n \in 1..opened[e] |-> n]

(* A dial comes to something; that of mux/transport never hears of an error. *)
DialsSettle ==
    \A c \in Clients :
        conn[c] = "dialing" /\ listener # "new" ~>
            conn[c] \in {"up", "gone", "rejected", "crashed"}
                \/ (conn[c] = "unanswered" /\ setting.dial = "mux")

(* Whoever is connected is served while the connection lives; in Go closing *)
(* the listener strands the sessions that were about to be accepted, and an *)
(* error of Accept all that come after it.                                  *)
SessionsServed ==
    \A c \in Clients :
        conn[c] = "up" ~>
            \/ c \in ToSet(served)
            \/ conn[c] = "gone"
            \/ ~JavaScript /\ (listener = "closed" \/ errs # "none")

(* Every channel that an end takes in is answered, also when the session has *)
(* ended meanwhile; in Go the end may come first.                            *)
ChannelsAnswered ==
    \A e \in Clients \X Sides :
        \A n \in 1..2 :
            opened[e] >= n /\ respond[e] # "none" ~>
                Len(dispatched[e]) >= n \/ (Go(e[2]) /\ conn[e[1]] = "gone")

(* From the dial to the channel: who dials comes to be served, and whoever   *)
(* opens a channel to an end is answered there.                               *)
EveryoneServed == DialsSettle /\ SessionsServed /\ ChannelsAnswered

(* Once the listener has closed, its loops return: in JavaScript all of them; *)
(* in Go two, as there are two values, one over HTTP.                         *)
ServeReturns ==
    \A l \in Loops :
        listener = "closed" ~>
            \/ serve[l] = "returned"
            \/ setting.listener = "goWs" /\ \E k \in Loops : serve[k] = "returned"

(* close of a listener returns once its connections have gone; in Go a second *)
(* one waits for an Accept that takes the value of the first.                 *)
CloseReturns ==
    \A i \in 1..2 :
        Len(closes) >= i ~>
            \/ Len(closes) >= i /\ closes[i] \in {"returned", "rejected"}
            \/ Up # {}
            \/ ~JavaScript /\ i > 1 /\ \A l \in Loops : serve[l] = "returned"

(* Respond in Go returns when its session ends; the loops in JavaScript look *)
(* for that, or not, but it never comes.                                     *)
RespondReturns ==
    \A e \in Clients \X Sides :
        respond[e] # "none" /\ conn[e[1]] = "gone" ~> respond[e] = "returned" \/ ~Go(e[2])

(* Who waits for a listener or a session learns of its end: the loops that   *)
(* accept sessions, those that accept channels, and close itself.             *)
EveryoneReturns == ServeReturns /\ CloseReturns /\ RespondReturns
=============================================================================
