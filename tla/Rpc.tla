-------------------------------- MODULE Rpc ---------------------------------
(***************************************************************************)
(* Remote calls: the callers at one end of a session, the responders at    *)
(* the other. An end runs golang/rpc ("go"), javascript/rpc ("rpc", which  *)
(* speaks the same JSON), or both run javascript/legacy/qrpc ("qrpc",      *)
(* msgpack), whose handlers are exported functions and the objects of an   *)
(* ObjectManager.                                                          *)
(* Each call has a channel of its own, which does what JsMux and Channel   *)
(* show of theirs: data in order, a Close that the peer answers, and the   *)
(* end of reads: in JavaScript for who is shut down, in Go once the buffer *)
(* is empty; or it is one of the pairs of MockSession (qrpc/demo), which   *)
(* have no wire. In JavaScript an action is what runs between awaits, in   *)
(* Go one message, written or taken in, or one Read.                       *)
(***************************************************************************)
EXTENDS Integers, Sequences, FiniteSets

CONSTANTS
    Settings,  \* the settings to check, each a member of AnySetting
    Calls,     \* the calls that are made
    MaxRaw     \* bound: what a handler writes to a channel it has hijacked

Sides == {"caller", "responder"}

Other(s) == IF s = "caller" THEN "responder" ELSE "caller"

(* What a handler may be: it decodes the arguments or not, and then gives   *)
(* return a value or an Error, throws (by the type of what is thrown),      *)
(* hijacks the channel, or is an ObjectManager.                             *)
Thrown == {"string", "undefined", "object", "null", "number"}

Outcomes == {"value", "error", "hijack", "manager"} \cup Thrown

AnyHandler == [decodes: BOOLEAN, outcome: Outcomes]

(* What is given from the start: the code at each end; the binds the server  *)
(* makes, in order, an ObjectManager's mount among them; the objects and what *)
(* their methods do; the path of each call that is made and whether it has   *)
(* arguments; whether a value is too big for one data message; whether what  *)
(* handlers give is nothing (undefined, nil) and whether a caller in Go wants *)
(* the reply; whether the sessions are MockSessions; the ends that may close  *)
(* the session.                                                               *)
IsSetting(s) ==
    /\ s.impl \in [Sides -> {"rpc", "qrpc", "go"}]
    /\ s.big \in BOOLEAN /\ s.nothing \in BOOLEAN /\ s.wanted \in BOOLEAN
    /\ s.impl["caller"] = "qrpc" <=> s.impl["responder"] = "qrpc"
    /\ s.mock \in BOOLEAN /\ (s.mock => s.impl["caller"] = "qrpc")
    /\ IsFiniteSet(s.ids)
    /\ s.binds \in Seq([path: Seq(STRING), handler: AnyHandler])
    /\ \A i \in DOMAIN s.binds :
          s.binds[i].handler.outcome \in Thrown \cup {"manager"} => s.impl["responder"] = "qrpc"
    /\ \A m \in DOMAIN s.methods : s.methods[m] \in AnyHandler
    /\ DOMAIN s.path \subseteq Calls /\ s.given \in [DOMAIN s.path -> BOOLEAN]
    /\ s.closers \subseteq Sides

ASSUME SettingsAssumption == (\A s \in Settings : IsSetting(s)) /\ MaxRaw \in Nat

VARIABLES
    setting,   \* chosen once
    binds,     \* what the server has yet to bind
    bound,     \* handlers of the RespondMux or API: [path, handler] in order
    mountPath, \* ObjectManager.mountPath
    objects,   \* what ObjectManager.values has of each id
    incoming,  \* calls whose channels wait for accept
    ended,     \* the session has been closed at a side
    dead,      \* the session's loop has thrown at a side
    call       \* each call: its caller, its responder and its channel

vars == <<setting, binds, bound, mountPath, objects, incoming, ended, dead, call>>

Qrpc == setting.impl["caller"] = "qrpc"

Mock == setting.mock

Go(s) == setting.impl[s] = "go"

-----------------------------------------------------------------------------
(* Paths: sequences of words and slashes *)

Slash == "/"

StartsWith(path, p) == Len(p) <= Len(path) /\ SubSeq(path, 1, Len(p)) = p

Slashes(path) == {i \in DOMAIN path : path[i] = Slash}

(* Slip: the path of the object ends at the first slash. *)
FirstSlash(path) == CHOOSE i \in Slashes(path) : \A j \in Slashes(path) : i <= j

LastSlash(path) == CHOOSE i \in Slashes(path) : \A j \in Slashes(path) : j <= i

AfterLastSlash(path) ==
    IF Slashes(path) = {} THEN path ELSE SubSeq(path, LastSlash(path) + 1, Len(path))

(* The constructor of Call drops one slash at the front. *)
Destination(path) == IF path # <<>> /\ Head(path) = Slash THEN Tail(path) ELSE path

ObjectPath(path) ==
    LET d == Destination(path)
    IN  IF Slashes(d) = {} THEN <<Slash>> ELSE SubSeq(d, 1, LastSlash(d) - 1)

Method(path) == AfterLastSlash(Destination(path))

(* ManagedObject.path *)
PathOf(mount, id) == mount \o <<Slash, id>>

(* ObjectManager.object: path.replace takes out the first place where the *)
(* mount path is found.                                                   *)
ObjectId(mount, path) ==
    LET places == {i \in DOMAIN path : StartsWith(SubSeq(path, i, Len(path)), mount)}
        at == CHOOSE i \in places : \A j \in places : i <= j
        rest == IF places = {} THEN path
                ELSE SubSeq(path, 1, at - 1) \o SubSeq(path, at + Len(mount), Len(path))
    IN  Destination(rest)

(* bind keeps the place of a path that is bound already. *)
Bind(list, p, h) ==
    IF \E i \in DOMAIN list : list[i].path = p
    THEN [i \in DOMAIN list |->
             IF list[i].path = p THEN [path |-> p, handler |-> h] ELSE list[i]]
    ELSE Append(list, [path |-> p, handler |-> h])

(* In Go a path that ends in a slash stands for all that begin with it. *)
Matches(list, path) ==
    {i \in DOMAIN list :
        LET p == list[i].path
        IN  path = p \/ (StartsWith(path, p) /\ (Go("responder") => p[Len(p)] = Slash))}

Missing == [decodes |-> FALSE, outcome |-> "error"]

(* The first that was bound in JavaScript, any in Go. *)
Handlers(list, path) ==
    LET found == Matches(list, path)
    IN  IF found = {} THEN {Missing}
        ELSE {list[i].handler :
                i \in {j \in found : Go("responder") \/ \A k \in found : j <= k}}

Registered(id) == id \in setting.ids /\ objects[id] = "registered"

(* Export of an object: a handler for each of its methods. *)
Export(method) ==
    IF method \in DOMAIN setting.methods THEN setting.methods[method] ELSE Missing

(* ObjectManager.serveRPC *)
ObjectHandler(path) ==
    LET id == AfterLastSlash(ObjectPath(path))
    IN  IF id # <<>> /\ Registered(Head(id)) THEN Export(Method(path)) ELSE Missing

Dispatched(path) ==
    {IF h.outcome = "manager" THEN ObjectHandler(path) ELSE h :
        h \in Handlers(bound, Destination(path))}
-----------------------------------------------------------------------------
(* What is written: frames, of a size and a body, in data messages *)

Value(kind, error, hijacked) == [kind |-> kind, error |-> error, hijacked |-> hijacked]

Plain(kind) == Value(kind, FALSE, FALSE)

Part(part, size, value) == [part |-> part, size |-> size, value |-> value]

SizePart(n) == Part("size", n, Plain("none"))
BodyPart(v) == Part("body", 0, v)
RawPart(n) == Part("raw", n, Plain("none"))
MorePart == Part("more", 0, Plain("none"))

Close == <<Part("close", 0, Plain("none"))>>

(* The units a body takes: two if it spans data messages, and none for the *)
(* JSON of undefined in JavaScript, whose frame is then empty.             *)
Units(s, v) ==
    CASE Go(s) /\ setting.big /\ v.kind = "value" -> 2
      [] setting.impl[s] = "rpc" /\ v.kind = "undefined" -> 0
      [] OTHER -> 1

(* FrameCodec.encode writes the size and the body one after the other. *)
TwoWrites(n, v) == <<<<SizePart(n)>>>> \o (IF n = 0 THEN <<>> ELSE <<<<BodyPart(v)>>>>)

(* frameEncoder writes both at once, as much as a message may carry. *)
OneWrite(n, v) ==
    <<<<SizePart(n), BodyPart(v)>>>> \o (IF n = 1 THEN <<>> ELSE <<<<MorePart>>>>)

(* The messages of a frame. *)
Frame(s, v) == IF Go(s) THEN OneWrite(Units(s, v), v) ELSE TwoWrites(Units(s, v), v)

IsError(outcome) == outcome \notin {"value", "hijack"}

(* What follows the header: null with an error, or what the handler gave. *)
Answer(outcome) ==
    Plain(CASE IsError(outcome) -> "null"
            [] ~IsError(outcome) /\ setting.nothing -> "undefined"
            [] OTHER -> "value")

(* Slip: a hijacked call is answered like one that returns. *)
ReplyPlain(outcome) ==
    Frame("responder", Value("header", IsError(outcome), FALSE))
        \o Frame("responder", Answer(outcome))

(* The frames of one reply. *)
Reply(outcome) ==
    Frame("responder", Value("header", IsError(outcome), outcome = "hijack"))
        \o Frame("responder", Answer(outcome))

(* How often exportFunc calls return: the cases of its switch on what was *)
(* thrown fall through, and null and undefined have no message.           *)
Returns(outcome) ==
    CASE outcome = "string" -> 4
      [] outcome = "object" -> 2
      [] outcome = "null" -> 0
      [] OTHER -> 1

-----------------------------------------------------------------------------
(* A call and its channel *)

(* out: messages sent and not delivered; in: parts delivered and not read;    *)
(* finishing: the loop has answered Close and not yet closed the channel;     *)
(* gone: the channel has been shut down; late: data was sent after Close;     *)
(* phase, size, count and values: the decoder of a side; ran: the handler;    *)
(* replies: what calls of return have yet to write; listed: the MockSessions  *)
(* that have the channel in their list.                                       *)
NewCall ==
    LET Each(x) == [s \in Sides |-> x] IN
    [stage |-> "idle", todo |-> <<>>, error |-> FALSE, hijacked |-> FALSE,
     reply |-> "none", responder |-> "none", ran |-> "none", replies |-> <<>>,
     listed |-> {},
     out |-> Each(<<>>), in |-> Each(<<>>),
     sentClose |-> Each(FALSE), finishing |-> Each(FALSE), gone |-> Each(FALSE),
     late |-> Each(FALSE),
     phase |-> Each("none"), size |-> Each(0), count |-> Each(0), values |-> Each(<<>>),
     raw |-> 0, got |-> <<>>]

(* MockChannel: what is written is in the other's buf at once, unless that has *)
(* been closed, which nobody hears of.                                         *)
MockWritten(c, s, parts) ==
    IF c.gone[Other(s)] THEN c ELSE [c EXCEPT !.in[Other(s)] = @ \o parts]

MockClosed(c, s) == [c EXCEPT !.gone[s] = TRUE, !.in[s] = <<>>]

(* What is written after the session has ended is swallowed. *)
Written(c, s, message) ==
    CASE Mock -> MockWritten(c, s, message)
      [] ~Mock /\ (ended[s] \/ ended[Other(s)]) -> c
      [] OTHER -> [c EXCEPT !.out[s] = Append(@, message), !.late[s] = @ \/ c.sentClose[s]]

(* A write of a JavaScript channel that has sent Close, also in answer, throws; *)
(* Write in Go fails only once the channel has been closed, MockChannel's never *)
(* does.                                                                        *)
CannotWrite(c, s) == IF Go(s) THEN c.gone[s] ELSE c.sentClose[s]

(* What has arrived can still be read in Go. *)
ShutDown(c, s) ==
    [c EXCEPT !.gone[s] = TRUE, !.finishing[s] = FALSE,
              !.sentClose[s] = @ \/ Go(s), !.in[s] = IF Go(s) THEN @ ELSE <<>>]

SendClose(c, s) == [Written(c, s, Close) EXCEPT !.sentClose[s] = TRUE]

(* Slip: close does not wait for the Close of the other end. *)
CloseAtOnce(c, s) == ShutDown(IF c.sentClose[s] THEN c ELSE SendClose(c, s), s)

(* Slip: who has sent Close does nothing when the answer comes. *)
CloseOnly(c, s) == IF c.sentClose[s] THEN c ELSE SendClose(c, s)

(* Channel.close, in JavaScript up to its await. *)
CloseChannel(c, s) ==
    CASE Mock -> MockClosed(c, s)
      [] ~Mock /\ ~c.sentClose[s] -> SendClose(c, s)
      [] ~Mock /\ c.sentClose[s] -> IF Go(s) THEN c ELSE ShutDown(c, s)

Put(i, c) == call' = [call EXCEPT ![i] = c]

Only(i, c) ==
    Put(i, c) /\ UNCHANGED <<setting, binds, bound, mountPath, objects, incoming, ended, dead>>

(* A RespondMux or API without handlers, and what will be bound. *)
NothingBound == bound = <<>> /\ binds = setting.binds

(* An ObjectManager that is mounted nowhere and has no objects. *)
NothingManaged == mountPath = <<Slash>> /\ objects = [id \in setting.ids |-> "new"]

Init ==
    /\ setting \in Settings
    /\ NothingBound
    /\ NothingManaged
    /\ incoming = <<>>
    /\ ended = [s \in Sides |-> FALSE]
    /\ dead = [s \in Sides |-> FALSE]
    /\ call = [i \in Calls |-> NewCall]

-----------------------------------------------------------------------------
(* The session: what its loops do with a message of a call's channel *)

Busy(s) == \E i \in Calls : call[i].finishing[s]

Arrived(i, s) == call[i].out[Other(s)] # <<>> /\ ~ended[s] /\ ~dead[s] /\ ~Busy(s)

(* A Close is answered, unless it is the answer; in Go the channel is then *)
(* closed by Finish.                                                       *)
Deliver(i, s) ==
    LET c == call[i]
        message == Head(c.out[Other(s)])
        rest == [c EXCEPT !.out[Other(s)] = Tail(@)]
    IN  /\ Arrived(i, s) /\ ~c.gone[s]
        /\ Only(i, IF message = Close
                   THEN [CloseChannel(rest, s) EXCEPT !.finishing[s] = Go(s)]
                   ELSE [rest EXCEPT !.in[s] = @ \o message])

Finish(i, s) ==
    /\ call[i].finishing[s]
    /\ Only(i, ShutDown(call[i], s))

(* A message for a channel that is no longer listed: the loop throws in *)
(* JavaScript, in Go it ends the session.                               *)
InvalidChannel(i, s) ==
    /\ Arrived(i, s) /\ call[i].gone[s]
    /\ dead' = [dead EXCEPT ![s] = TRUE]
    /\ ended' = [ended EXCEPT ![s] = Go(s)]
    /\ call' = [j \in Calls |->
          LET c == [call[j] EXCEPT !.out[Other(s)] = IF j = i THEN Tail(@) ELSE @]
          IN  IF Go(s) THEN ShutDown(c, s) ELSE c]
    /\ UNCHANGED <<setting, binds, bound, mountPath, objects, incoming>>

(* Session.close: every channel is shut down. In JavaScript nothing closes the *)
(* queue that accept waits at.                                                 *)
Ends(s) ==
    /\ ~ended[s] /\ ~Mock
    /\ ended' = [ended EXCEPT ![s] = TRUE]
    /\ call' = [i \in Calls |-> ShutDown(call[i], s)]
    /\ UNCHANGED <<setting, binds, bound, mountPath, objects, incoming, dead>>

(* MockSession.close: it and its pair close the channels in their lists. *)
MockEnds(s) ==
    /\ Mock /\ ~ended[s]
    /\ ended' = [t \in Sides |-> TRUE]
    /\ call' = [i \in Calls |->
          [call[i] EXCEPT
              !.gone = [t \in Sides |-> @[t] \/ t \in call[i].listed],
              !.in = [t \in Sides |-> IF t \in call[i].listed THEN <<>> ELSE @[t]]]]
    /\ UNCHANGED <<setting, binds, bound, mountPath, objects, incoming, dead>>

EndSession(s) == s \in setting.closers /\ (Ends(s) \/ MockEnds(s))

LoopEnds(s) == ended[Other(s)] /\ ~dead[s] /\ Ends(s)

-----------------------------------------------------------------------------
(* Decoding: FrameCodec.readLoop, which reads whatever is asked for, and *)
(* frameDecoder.Decode, which reads when it is called                    *)

(* Slip: the caller's codec reads a frame too many, or reads for ever. *)
ReadThree(s) == IF s = "caller" THEN 3 ELSE -1

ReadAll(s) == -1

ReadLimit(s) == IF s = "caller" THEN 2 ELSE -1

(* A new FrameCodec reads from the start, asked or not. *)
Reading(c, s) == [c EXCEPT !.phase[s] = "size"]

(* decode resolves with the oldest value; it waits while there is none. *)
HasValue(c, s) == c.values[s] # <<>>

Decoded(c, s) == [c EXCEPT !.values[s] = Tail(@)]

Decodes(c, s) ==
    Go(s) => /\ c.values[s] = <<>>
             /\ IF s = "caller" THEN c.stage \in {"header", "reply"}
                ELSE c.responder \in {"frame", "args"}

(* Sizes that bytes may stand for which are not a size. *)
Junk == 0..2

ReadSize(i, s) ==
    LET c == call[i] IN
    /\ c.phase[s] = "size" /\ c.in[s] # <<>> /\ Decodes(c, s)
    /\ \E n \in IF Head(c.in[s]).part = "size" THEN {Head(c.in[s]).size} ELSE Junk :
        Only(i, [c EXCEPT !.in[s] = Tail(@), !.size[s] = n, !.phase[s] = "body"])

(* A read of length 0 takes all there is in mux, nothing in qmux; a Read in *)
(* Go takes what there is.                                                  *)
Taken(c, s) ==
    CASE Go(s) /\ c.size[s] > Len(c.in[s]) -> Len(c.in[s])
      [] setting.impl[s] = "rpc" /\ c.size[s] = 0 -> Len(c.in[s])
      [] OTHER -> c.size[s]

BodyHere(c, s) ==
    IF Go(s) THEN c.size[s] = 0 \/ c.in[s] # <<>>
    ELSE ~c.gone[s] /\ Taken(c, s) <= Len(c.in[s])

Whole(parts, size) ==
    /\ parts # <<>> /\ Len(parts) = size
    /\ parts[1].part = "body" /\ \A k \in 2..Len(parts) : parts[k].part = "more"

(* decode gives the value of a whole body; of anything else it throws in Go, *)
(* and in JavaScript makes some value or throws, which ends the readLoop.    *)
Decodings(s, parts, size) ==
    CASE Whole(parts, size) -> {parts[1].value}
      [] ~Whole(parts, size) /\ Go(s) -> {Plain(IF size = 0 THEN "EOF" ELSE "throws")}
      [] parts = <<>> /\ setting.impl[s] = "rpc" -> {Plain("throws")}
      [] OTHER -> {Plain("throws"), Plain("junk")}

ReadBody(i, s) ==
    LET c == call[i]
        n == Taken(c, s)
        read == [c EXCEPT !.in[s] = SubSeq(@, n + 1, Len(@)), !.count[s] = @ + 1]
    IN  /\ c.phase[s] = "body" /\ BodyHere(c, s)
        /\ \E v \in Decodings(s, SubSeq(c.in[s], 1, n), c.size[s]) :
            Only(i,
                IF v.kind = "throws" /\ ~Go(s) THEN [read EXCEPT !.phase[s] = "stopped"]
                ELSE [read EXCEPT
                        !.values[s] = Append(@, v),
                        !.phase[s] = IF ~Go(s) /\ read.count[s] = ReadLimit(s)
                                     THEN "stopped" ELSE "size"])

(* The channel has been shut down: the readLoop returns, and whoever waits in *)
(* decode is not told; Decode in Go returns io.EOF.                           *)
ReadEnd(i, s) ==
    LET c == call[i] IN
    /\ c.gone[s] /\ c.phase[s] \in {"size", "body"}
    /\ Go(s) => Decodes(c, s) /\ c.in[s] = <<>> /\ ~(c.phase[s] = "body" /\ c.size[s] = 0)
    /\ Only(i, IF Go(s) THEN [c EXCEPT !.values[s] = <<Plain("EOF")>>, !.phase[s] = "size"]
               ELSE [c EXCEPT !.phase[s] = "stopped"])

ReadLoop(i, s) == ReadSize(i, s) \/ ReadBody(i, s) \/ ReadEnd(i, s)

(* What Decode in Go returns as an error. *)
Failed(v) == v.kind \in {"throws", "EOF"}

-----------------------------------------------------------------------------
(* The caller *)

(* call up to session.open, of which nobody tells who calls in JavaScript once *)
(* the session has been closed (JsMux); Open in Go cannot write then.          *)
Call(i) ==
    /\ i \in DOMAIN setting.path
    /\ call[i].stage = "idle"
    /\ Only(i, [call[i] EXCEPT
          !.stage = IF ended["caller"] /\ ~Mock /\ ~Go("caller") THEN "hanging" ELSE "opening"])

(* What CallProxy makes of the arguments of a method: none is undefined. *)
Params(given) == IF given THEN "args" ELSE "undefined"

(* The frames of a call. *)
Request(i) ==
    Frame("caller", Plain("call")) \o Frame("caller", Plain(Params(setting.given[i])))

(* MockSession.open and accept: whoever comes first waits for the other, and *)
(* the channel is listed for who comes second. Neither looks at closed.      *)
Meet(i) ==
    /\ Mock /\ call[i].stage = "opening"
    /\ \E second \in Sides :
          Only(i, [Reading(Reading(call[i], "caller"), "responder") EXCEPT
                !.stage = "writing", !.responder = "frame", !.listed = {second},
                !.todo = Request(i)])

Opened(i) ==
    /\ call[i].stage = "opening" /\ ~Mock
    /\ \A s \in Sides : ~ended[s] /\ ~dead[s]
    /\ incoming' = Append(incoming, i)
    /\ Put(i, [Reading(call[i], "caller") EXCEPT
          !.stage = "writing", !.responder = "incoming",
          !.todo = Request(i)])
    /\ UNCHANGED <<setting, binds, bound, mountPath, objects, ended, dead>>

OpenFails(i) ==
    /\ call[i].stage = "opening" /\ ended["caller"] /\ ~Mock
    /\ Only(i, [call[i] EXCEPT !.stage = "failed"])

(* A call in Go that fails closes its channel. *)
Fails(c) ==
    [(IF Go("caller") THEN CloseChannel(c, "caller") ELSE c) EXCEPT !.stage = "failed"]

(* Slip: nothing can be written that has no JSON. *)
CallerWritesOrThrows(i) ==
    LET c == call[i] IN
    /\ c.stage = "writing"
    /\ Only(i,
         IF CannotWrite(c, "caller") \/ Head(c.todo) = <<SizePart(0)>> THEN Fails(c)
         ELSE [Written(c, "caller", Head(c.todo)) EXCEPT
                 !.todo = Tail(@),
                 !.stage = IF Len(c.todo) = 1 THEN "header" ELSE "writing"])

CallerWrites(i) ==
    LET c == call[i] IN
    /\ c.stage = "writing"
    /\ Only(i,
         IF CannotWrite(c, "caller") THEN Fails(c)
         ELSE [Written(c, "caller", Head(c.todo)) EXCEPT
                 !.todo = Tail(@),
                 !.stage = IF Len(c.todo) = 1 THEN "header" ELSE "writing"])

(* qrpc and Go close the channel as soon as the header has an error. *)
GotHeader(i) ==
    LET c == call[i]
        header == Head(c.values["caller"])
        noted == [Decoded(c, "caller") EXCEPT !.error = header.error,
                                                !.hijacked = header.hijacked]
    IN  /\ c.stage = "header" /\ HasValue(c, "caller")
        /\ Only(i, CASE Go("caller") /\ Failed(header) -> Fails(noted)
                     [] Go("caller") /\ ~Failed(header) /\ header.error ->
                          [CloseChannel(noted, "caller") EXCEPT !.stage = "rejected"]
                     [] Qrpc /\ header.error ->
                          [CloseChannel(noted, "caller") EXCEPT !.stage = "rejecting"]
                     [] OTHER -> [noted EXCEPT !.stage = "reply"])

(* Decode in Go: into the reply, or, where none is wanted, into bytes, which *)
(* null is and some JSON strings are, and where io.EOF is no error.          *)
Received(value) ==
    CASE value.kind = "throws" -> {"failed"}
      [] value.kind = "EOF" -> IF setting.wanted THEN {"failed"} ELSE {"returned"}
      [] value.kind = "value" /\ ~setting.wanted -> {"failed", "returned"}
      [] OTHER -> {"returned"}

(* Call in Go closes the channel as it returns, whatever it returns, unless *)
(* it is hijacked.                                                          *)
GotReply(i) ==
    LET c == call[i]
        value == Head(c.values["caller"])
        noted == [Decoded(c, "caller") EXCEPT !.reply = value.kind]
        left == IF c.hijacked THEN noted ELSE CloseChannel(noted, "caller")
    IN  /\ c.stage = "reply" /\ HasValue(c, "caller")
        /\ \E stage \in (IF Go("caller") THEN Received(value)
                        ELSE {IF c.hijacked THEN "returned" ELSE "closing"}) :
              Only(i, [left EXCEPT !.stage = stage])

(* close returns when the channel has been shut down. *)
CallerClosed(i) ==
    /\ call[i].stage \in {"closing", "rejecting"} /\ call[i].gone["caller"]
    /\ Only(i, [call[i] EXCEPT
          !.stage = IF @ = "closing" THEN "returned" ELSE "rejected"])

(* The application reads from the channel of a hijacked call. *)
TakeRaw(i) ==
    LET c == call[i] IN
    /\ c.stage = "returned" /\ c.hijacked /\ c.in["caller"] # <<>>
    /\ Go("caller") \/ c.phase["caller"] = "stopped"
    /\ Only(i, [c EXCEPT !.in["caller"] = Tail(@), !.got = Append(@, Head(c.in["caller"]))])

-----------------------------------------------------------------------------
(* The server *)

(* bind and handle. *)
BindNext ==
    /\ binds # <<>> /\ Head(binds).handler.outcome # "manager"
    /\ bound' = Bind(bound, Head(binds).path, Head(binds).handler)
    /\ binds' = Tail(binds)
    /\ UNCHANGED <<setting, mountPath, objects, incoming, ended, dead, call>>

(* The ObjectManager is bound like a handler, and notes where. *)
Mount ==
    /\ binds # <<>> /\ Head(binds).handler.outcome = "manager"
    /\ mountPath' = Head(binds).path
    /\ bound' = Bind(bound, Head(binds).path, Head(binds).handler)
    /\ binds' = Tail(binds)
    /\ UNCHANGED <<setting, objects, incoming, ended, dead, call>>

(* Under a new uuid4. *)
Register(id) ==
    /\ objects[id] = "new"
    /\ objects' = [objects EXCEPT ![id] = "registered"]
    /\ UNCHANGED <<setting, binds, bound, mountPath, incoming, ended, dead, call>>

Dispose(id) ==
    /\ objects[id] = "registered"
    /\ objects' = [objects EXCEPT ![id] = "disposed"]
    /\ UNCHANGED <<setting, binds, bound, mountPath, incoming, ended, dead, call>>

(* Peer.respond, serveAPI and Server.Respond: the loop that accepts, and the *)
(* responder that it starts, with a codec of its own.                        *)
Accept ==
    /\ incoming # <<>>
    /\ incoming' = Tail(incoming)
    /\ Put(Head(incoming), [Reading(call[Head(incoming)], "responder") EXCEPT
          !.responder = "frame"])
    /\ UNCHANGED <<setting, binds, bound, mountPath, objects, ended, dead>>

(* In JavaScript every call of return writes up to its first await at once. *)
Return(c, outcome) ==
    LET n == Returns(outcome)
        hijack == outcome = "hijack"
        first == [k \in 1..n |-> Head(Reply(outcome))]
        later == [hijack |-> hijack, todo |-> Tail(Reply(outcome))]
        stage == IF hijack THEN "hijacking" ELSE "done"
    IN  CASE Go("responder") ->
              [c EXCEPT !.replies = <<[hijack |-> hijack, todo |-> Reply(outcome)]>>,
                        !.responder = stage]
          [] ~Go("responder") /\ CannotWrite(c, "responder") -> [c EXCEPT !.responder = "done"]
          [] OTHER ->
              [(CASE Mock -> MockWritten(c, "responder", [k \in 1..n |-> Head(first[k])])
                  [] ~Mock /\ (ended["caller"] \/ ended["responder"]) -> c
                  [] OTHER -> [c EXCEPT !.out["responder"] = @ \o first]) EXCEPT
                 !.replies = [k \in 1..n |-> later], !.responder = stage]

(* Respond once it has the call: it finds the handler and runs it. In Go it *)
(* closes the channel when it returns.                                      *)
Dispatch(i) ==
    LET c == call[i]
        noted == Decoded(c, "responder")
    IN  /\ c.responder = "frame" /\ HasValue(c, "responder")
        /\ IF Go("responder") /\ Failed(Head(c.values["responder"]))
           THEN Only(i, [CloseChannel(noted, "responder") EXCEPT !.responder = "done"])
           ELSE \E h \in Dispatched(setting.path[i]) :
                  LET run == [noted EXCEPT !.ran = h.outcome] IN
                  Only(i, IF h.decodes THEN [run EXCEPT !.responder = "args"]
                          ELSE Return(run, h.outcome))

(* A handler in Go that cannot decode its arguments returns the error. *)
GotArgs(i) ==
    LET c == call[i]
        noted == Decoded(c, "responder")
    IN  /\ c.responder = "args" /\ HasValue(c, "responder")
        /\ Only(i, IF Go("responder") /\ Failed(Head(c.values["responder"]))
                   THEN Return([noted EXCEPT !.ran = "error"], "error")
                   ELSE Return(noted, c.ran))

(* The conn answers writes in order, so concurrent returns take turns; who *)
(* has written all closes the channel, or hands it to the handler. A write *)
(* that fails ends the reply; in Go the channel is closed all the same.    *)
ResponderWrites(i) ==
    LET c == call[i]
        task == Head(c.replies)
        others == [c EXCEPT !.replies = Tail(@)]
    IN  /\ c.replies # <<>>
        /\ Only(i,
             CASE task.todo = <<>> /\ task.hijack -> [others EXCEPT !.responder = "hijacked"]
               [] task.todo = <<>> /\ ~task.hijack -> CloseChannel(others, "responder")
               [] task.todo # <<>> /\ CannotWrite(c, "responder") ->
                    IF Go("responder")
                    THEN [CloseChannel(others, "responder") EXCEPT !.responder = "done"]
                    ELSE others
               [] OTHER ->
                    [Written(others, "responder", Head(task.todo)) EXCEPT
                        !.replies = Append(@, [task EXCEPT !.todo = Tail(@)])])

(* What a handler does with the channel it has hijacked; in Go the channel is *)
(* closed when the handler returns.                                           *)
HijackWrites(i) ==
    LET c == call[i] IN
    /\ c.responder = "hijacked" /\ c.raw < MaxRaw /\ ~CannotWrite(c, "responder")
    /\ Only(i, [Written(c, "responder", <<RawPart(c.raw + 1)>>) EXCEPT !.raw = @ + 1])

HijackCloses(i) ==
    /\ call[i].responder = "hijacked"
    /\ Only(i, [CloseChannel(call[i], "responder") EXCEPT !.responder = "done"])

Application ==
    \/ BindNext \/ Mount
    \/ \E id \in setting.ids : Register(id) \/ Dispose(id)
    \/ \E i \in Calls : Call(i) \/ TakeRaw(i) \/ HijackWrites(i) \/ HijackCloses(i)
    \/ \E s \in Sides : EndSession(s)

Runs ==
    \/ Accept
    \/ \E s \in Sides : LoopEnds(s)
    \/ \E i \in Calls :
        \/ Meet(i) \/ Opened(i) \/ OpenFails(i) \/ CallerWrites(i)
        \/ GotHeader(i) \/ GotReply(i) \/ CallerClosed(i)
        \/ Dispatch(i) \/ GotArgs(i) \/ ResponderWrites(i)
        \/ \E s \in Sides : Deliver(i, s) \/ Finish(i, s) \/ InvalidChannel(i, s) \/ ReadLoop(i, s)

Next == Application \/ Runs

Spec == Init /\ [][Next]_vars

(* Something that can go on does, handlers among it; nothing else is asked of *)
(* the applications.                                                          *)
FairSpec == Spec /\ WF_vars(Runs)

-----------------------------------------------------------------------------
(* Properties *)

Threw == \E i \in Calls : Returns(call[i].ran) > 1

Over == (\E s \in Sides : ended[s] \/ dead[s]) \/ \E i \in Calls : Returns(call[i].ran) # 1

(* Every variable has its type, and the caller's codec never decodes more than *)
(* the two frames of a reply.                                                  *)
TypeOK ==
    /\ setting \in Settings
    /\ DOMAIN objects = setting.ids
    /\ ended \in [Sides -> BOOLEAN] /\ dead \in [Sides -> BOOLEAN]
    /\ \A i \in Calls :
        /\ call[i].stage \in {"idle", "opening", "hanging", "writing", "header", "reply",
                              "closing", "rejecting", "returned", "rejected", "failed"}
        /\ call[i].responder \in {"none", "incoming", "frame", "args", "done",
                                  "hijacking", "hijacked"}
        /\ \A s \in Sides : call[i].phase[s] \in {"none", "size", "body", "stopped"}
        /\ call[i].count["caller"] <= 2 /\ call[i].raw <= MaxRaw
        /\ Len(call[i].replies) <= 4

Cut(i) ==
    setting.big /\ Go("caller") /\ Go("responder") /\ call[i].ran \in {"value", "hijack"}

(* The handler in JavaScript gave undefined, and its frame is empty. *)
Emptied(i) ==
    /\ setting.nothing /\ setting.impl["responder"] = "rpc"
    /\ call[i].ran \in {"value", "hijack"}

(* What a call returns is the answer of the handler of its path: the value,  *)
(* that it was hijacked, or the error, however the two codecs and the frames *)
(* of its reply interleave. Functions that throw are left out, and what is   *)
(* made of no frame: the io.EOF that Call in Go takes for a reply it does    *)
(* not want, at the end of the session or of the empty frame of undefined,   *)
(* and what JavaScript takes for that frame when raw data is there to read.  *)
AnswerIsHandlers ==
    \A i \in Calls :
        LET c == call[i] IN
        c.stage \in {"returned", "rejected"} /\ Returns(c.ran) = 1 =>
            /\ c.ran # "none"
            /\ c.hijacked = (c.ran = "hijack")
            /\ c.error = (c.ran \notin {"value", "hijack"})
            /\ c.stage = "returned" =>
                  \/ c.reply = Answer(c.ran).kind
                  \/ /\ c.reply = "EOF" /\ Go("caller") /\ ~setting.wanted
                     /\ ended["caller"] \/ Emptied(i)
                  \/ c.reply = "junk" /\ Emptied(i) /\ ~Go("caller")
            /\ c.stage = "rejected" => c.error /\ (Qrpc \/ Go("caller"))

(* A call fails without an answer only when the session ended; when the     *)
(* responder answered, and its Close came, before the arguments had been    *)
(* written; or in Go, when the value of a reply spans data messages and     *)
(* frameDecoder has taken the first for the whole, when the value is wanted *)
(* and its frame is that of undefined, or when it is not wanted and there   *)
(* is one, which may not decode into the bytes that are thrown away.        *)
FailsOnlyWhen ==
    \A i \in Calls :
        LET c == call[i] IN
        c.stage = "failed" =>
            \/ ended["caller"]
            \/ c.sentClose["responder"] /\ c.todo # <<>>
            \/ Cut(i) /\ c.reply = "throws"
            \/ Go("caller") /\ setting.wanted /\ Emptied(i) /\ c.reply = "EOF"
            \/ Go("caller") /\ ~setting.wanted /\ c.ran \in {"value", "hijack"} /\ c.reply = "value"

(* No call makes the loop of its session end, unless a function threw and   *)
(* its return closed the channel twice, or Go, whose Write does not know of *)
(* Close, wrote while its loop answered the peer's: the rest of a reply     *)
(* whose error has made the caller close, the arguments of a call that is   *)
(* answered already, or what a handler still sends.                         *)
LoopsSurvive ==
    \A s \in Sides :
        dead[s] => Threw \/ \E i \in Calls : call[i].late[Other(s)]

(* "Close signals end of channel use.  No data may be sent after this call"  *)
(* (mux/api.go 29), and a channel is closed for an end that has sent and     *)
(* received Close (spec/qmux.md 108): nothing follows on the wire.           *)
NothingAfterClose == \A i \in Calls : \A s \in Sides : ~call[i].late[s]

(* The caller's codec takes only two frames: what the handler writes to a *)
(* hijacked channel reaches the application, all of it and in order, if    *)
(* the reply itself has not been cut, and is not that of undefined, which  *)
(* JavaScript reads all there is for.                                      *)
HijackedOut ==
    \A i \in Calls :
        LET c == call[i] IN
        ~(Emptied(i) /\ ~Go("caller")) =>
            /\ c.got = [n \in 1..Len(c.got) |-> RawPart(n)]
            /\ c.hijacked /\ ~c.gone["caller"] /\ ~Cut(i) =>
                   \/ c.values["caller"] = <<>>
                   \/ c.values["caller"][1].kind = Answer("hijack").kind
                   \/ c.values["caller"][1].kind = "EOF" /\ Emptied(i)

(* A call through the handle of an object finds the object, and its method,  *)
(* from when it is registered until it is disposed of, if the manager is     *)
(* mounted by then and nothing else that is bound is a prefix of the path. A *)
(* mount path that begins with a slash and another character is never found. *)
HandleReaches ==
    [][\A i \in DOMAIN setting.path : \A id \in setting.ids : \A m \in DOMAIN setting.methods :
        LET mounts == {j \in DOMAIN bound : bound[j].handler.outcome = "manager"}
        IN  /\ setting.path[i] = PathOf(mountPath, id) \o <<Slash>> \o m
            /\ call[i].ran = "none" /\ call'[i].ran # "none"
            /\ mounts # {} /\ Matches(bound, Destination(setting.path[i])) \subseteq mounts
            /\ mountPath = <<Slash>> \/ Head(mountPath) # Slash
            => /\ call'[i].ran = IF Registered(id) THEN setting.methods[m].outcome ELSE "error"
               /\ ObjectId(mountPath, PathOf(mountPath, id)) = <<id>>]_vars

(* Every call ends, while the session lives: with an answer, or because it  *)
(* was answered before it had been written. Left out are functions that     *)
(* throw, a call without arguments of a handler that decodes them, and a    *)
(* handler that gives undefined: JSON of undefined is empty and ends the    *)
(* codec that reads it, at the responder and at the caller.                 *)
CallerEnds ==
    \A i \in Calls :
        (call[i].stage = "opening") ~>
            \/ call[i].stage \in {"returned", "rejected", "failed"}
            \/ Over
            \/ /\ \A s \in Sides : setting.impl[s] = "rpc"
               /\ Emptied(i) \/ (call[i].responder = "args" /\ ~setting.given[i])

(* A call that has an answer, and was not hijacked, leaves nothing behind at *)
(* the caller: its channel is shut down, and both ends have sent Close; Go   *)
(* and MockChannel do not wait for the Close of the responder.               *)
AnsweredIsClosed ==
    \A i \in Calls :
        LET c == call[i] IN
        c.stage \in {"returned", "rejected"} /\ ~c.hijacked =>
            \/ Go("caller") /\ c.sentClose["caller"]
            \/ /\ c.gone["caller"]
               /\ Mock \/ c.sentClose["responder"] \/ \E s \in Sides : ended[s] \/ dead[s]

(* The responder's channel is shut down after its reply, unless the caller  *)
(* has closed it first: qrpc and Go do so on an error, and JavaScript then  *)
(* throws in its next write.                                                *)
ResponderEnds ==
    \A i \in Calls :
        (call[i].responder = "done") ~>
            \/ call[i].gone["responder"]
            \/ Over
            \/ call[i].error /\ ~Go("responder") /\ (Qrpc \/ Go("caller"))

(* A call comes to its end at both ends: with an answer, and then with its   *)
(* channel closed on either side, whatever the frames of the reply and the   *)
(* arguments, a hijack or an error find the other end doing.                 *)
CallsEnd == CallerEnds /\ []AnsweredIsClosed /\ ResponderEnds
=============================================================================
