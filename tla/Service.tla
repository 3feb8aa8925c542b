------------------------------ MODULE Service ------------------------------
(***************************************************************************)
(* The service side in one process: registerService and the request        *)
(* dispatcher of lib/dbus.js, Service (lib/service.js), the call of a      *)
(* method (lib/service_interface.js) and src/object_handler.cc.  Services  *)
(* on one bus type share one libdbus connection, hence its unique name and *)
(* its table of object paths.  The connection may be lost; then only the   *)
(* Bus its signals are routed to reconnects, see BusLifecycle.             *)
(*                                                                         *)
(* A request of a client is a path and what the dispatcher finds there.    *)
(* The handler of a method is user code: it answers at once, later, more   *)
(* than once, or never.  An exception nobody catches ends the process.     *)
(***************************************************************************)
EXTENDS Naturals, Sequences, FiniteSets, SequencesExt

CONSTANTS Services,    \* the services the user's code registers
          Unnamed,     \* those registered without a service name
          Paths,       \* object paths
          Conns,       \* libdbus connections, each with a unique name of its own
          Requests,    \* requests of clients
          MaxAnswers,  \* bound: how often a handler answers one request
          None

ASSUME UnnamedAssumption == Unnamed \subseteq Services
ASSUME NoneAssumption == None \notin Services \cup Conns
ASSUME MaxAnswersAssumption == MaxAnswers \in Nat

VARIABLES
    known,       \* the services registered so far
    serviceMap,  \* the services in serviceMap, in the order of its keys
    state,       \* of each connection; "noticed": Disconnected was dispatched
    conn,        \* the connection of service.bus, or null
    route,       \* DBus.signalHandlers: connection -> the service of the Bus
    named,       \* the services whose bus name was requested
    inUse,       \* registerService has returned it, not disconnected since
    objects,     \* service.objects
    created,     \* the paths createObject has returned an object for
    table,       \* libdbus's object path table of each connection
    request,     \* what each request asks for
    arrivedOn,   \* the connection of its message, kept without a reference
    stage,       \* where each request stands
    servedBy,    \* the service whose handler was called
    answers,     \* how often the handler has answered
    replies,     \* how many replies were sent
    refs,        \* references to the DBusMessage of each request
    usedDead,    \* what was freed when a reply function used it
    crashed      \* what ended the process: a null pointer in native code, or an
                 \* exception that reached the event loop

connVars == <<state, conn, route>>
userVars == <<known, serviceMap, named, inUse, objects, created, table, connVars>>
requestVars ==
    <<request, arrivedOn, stage, servedBy, answers, replies, refs, usedDead>>
vars == <<userVars, requestVars, crashed>>

(***************************************************************************)
(* What a request finds in the object: no such interface, no such method,  *)
(* another number of arguments, or a method.  "no header": it does not say *)
(* which interface it is for, as the protocol allows.  A client may set    *)
(* the NO_REPLY_EXPECTED flag.                                             *)
(***************************************************************************)
Found == {"no header", "no interface", "no method", "bad arguments", "method"}
Request == [path : Paths, found : Found, noReply : BOOLEAN]
Stages == {"none", "dispatching", "dispatched"}
States == {"unused", "up", "lost", "noticed"}
Throwers == {"none", "native", "dispatcher", "handler", "reconnect"}

ASSUME NoRequestAssumption == None \notin Request

TypeOK ==
    /\ known \subseteq Services
    /\ serviceMap \in Seq(Services)
    /\ state \in [Conns -> States]
    /\ conn \in [Services -> Conns \cup {None}]
    /\ route \in [Conns -> Services \cup {None}]
    /\ named \subseteq Services
    /\ inUse \subseteq Services
    /\ objects \in [Services -> SUBSET Paths]
    /\ created \in [Services -> SUBSET Paths]
    /\ table \in [Conns -> SUBSET Paths]
    /\ request \in [Requests -> Request \cup {None}]
    /\ arrivedOn \in [Requests -> Conns \cup {None}]
    /\ stage \in [Requests -> Stages]
    /\ servedBy \in [Requests -> Services \cup {None}]
    /\ answers \in [Requests -> 0..MaxAnswers]
    /\ replies \in [Requests -> Nat]
    /\ refs \in [Requests -> Nat]
    /\ usedDead \in [Requests -> SUBSET {"message", "connection"}]
    /\ crashed \in Throwers

Init ==
    /\ known = {}
    /\ serviceMap = <<>>
    /\ state = [c \in Conns |-> "unused"]
    /\ conn = [s \in Services |-> None]
    /\ route = [c \in Conns |-> None]
    /\ named = {}
    /\ inUse = {}
    /\ objects = [s \in Services |-> {}]
    /\ created = [s \in Services |-> {}]
    /\ table = [c \in Conns |-> {}]
    /\ request = [r \in Requests |-> None]
    /\ arrivedOn = [r \in Requests |-> None]
    /\ stage = [r \in Requests |-> "none"]
    /\ servedBy = [r \in Requests |-> None]
    /\ answers = [r \in Requests |-> 0]
    /\ replies = [r \in Requests |-> 0]
    /\ refs = [r \in Requests |-> 0]
    /\ usedDead = [r \in Requests |-> {}]
    /\ crashed = "none"

Running == crashed = "none"

-----------------------------------------------------------------------------
(* The connections.                                                        *)

\* dbus_bus_get: the connection that is up, or a new one.
Gets(c) ==
    \/ state[c] = "up"
    \/ state[c] = "unused" /\ \A d \in Conns : state[d] # "up"

\* The Bus constructor of service s.
Connect(s, c) ==
    /\ Gets(c)
    /\ state' = [state EXCEPT ![c] = "up"]
    /\ conn' = [conn EXCEPT ![s] = c]
    /\ route' = [route EXCEPT ![c] = s]

\* The last reference of connection c is gone: libdbus drops its own after
\* Disconnected was dispatched, and no Bus holds one.
Finalized(c) == state[c] = "noticed" /\ \A s \in Services : conn[s] # c

\* The daemon is gone.  Messages received before are still dispatched.
Lose(c) ==
    /\ Running
    /\ state[c] = "up"
    /\ state' = [state EXCEPT ![c] = "lost"]
    /\ UNCHANGED <<known, serviceMap, conn, route, named, inUse, objects, created,
                   table, requestVars, crashed>>

-----------------------------------------------------------------------------
(* Registering services and objects.                                       *)

\* Seeded fault: all services are stored under the key of the bus alone.
StoredByBus(s) == <<s>>

\* serviceMap[serviceHash] = service.  Every service without a name is stored
\* under the key "undefined" and replaces the one before.
Stored(s) ==
    IF s \in Unnamed /\ \E u \in Unnamed : Contains(serviceMap, u)
    THEN [i \in DOMAIN serviceMap |->
            IF serviceMap[i] \in Unnamed THEN s ELSE serviceMap[i]]
    ELSE Append(serviceMap, s)

\* registerService for a name that is in the map returns the service there.
RegisterAgain(s) ==
    /\ Running
    /\ s \notin Unnamed
    /\ Contains(serviceMap, s)
    /\ inUse' = inUse \cup {s}
    /\ UNCHANGED <<known, serviceMap, connVars, named, objects, created, table,
                   requestVars, crashed>>

\* registerService: a Bus of its own, the map, then the name.  What requestName
\* reports about the owner of the name is ignored.
Register(s) ==
    /\ Running
    /\ s \notin known
    /\ known' = known \cup {s}
    /\ \E c \in Conns : Connect(s, c)
    /\ serviceMap' = Stored(s)
    /\ named' = IF s \in Unnamed THEN named ELSE named \cup {s}
    /\ inUse' = inUse \cup {s}
    /\ UNCHANGED <<objects, created, table, requestVars, crashed>>

\* requestName throws; the service stays in the map.
RegisterThrows(s) ==
    /\ Running
    /\ s \notin Unnamed \cup known
    /\ known' = known \cup {s}
    /\ \E c \in Conns : Connect(s, c)
    /\ serviceMap' = Stored(s)
    /\ UNCHANGED <<named, inUse, objects, created, table, requestVars,
                   crashed>>

\* Seeded fault: what libdbus says of a path that is taken is not looked at.
RegistersTaken(s, p) == conn[s] # None

\* RegisterObjectPath throws when the path is taken or the connection is null.
Registers(s, p) == conn[s] # None /\ p \notin table[conn[s]]

\* createObject stores the object, then registers its path.
CreateObject(s, p) ==
    /\ Running
    /\ s \in inUse
    /\ objects' = [objects EXCEPT ![s] = @ \cup {p}]
    /\ IF Registers(s, p)
       THEN /\ table' = [table EXCEPT ![conn[s]] = @ \cup {p}]
            /\ created' = [created EXCEPT ![s] = @ \cup {p}]
       ELSE UNCHANGED <<table, created>>
    /\ UNCHANGED <<known, serviceMap, connVars, named, inUse, requestVars, crashed>>

\* Seeded fault: the path stays registered.
RemoveObjectKeepsPath(s, p) ==
    /\ Running
    /\ conn[s] # None
    /\ p \in created[s]
    /\ objects' = [objects EXCEPT ![s] = @ \ {p}]
    /\ created' = [created EXCEPT ![s] = @ \ {p}]
    /\ UNCHANGED <<known, serviceMap, connVars, named, inUse, table, requestVars,
                   crashed>>

\* removeObject unregisters the path on the connection the service has now, where
\* it need not be registered, then forgets the object.  (On a disconnected service
\* it throws before it changes anything.)
RemoveObject(s, p) ==
    /\ Running
    /\ conn[s] # None
    /\ p \in created[s]
    /\ table' = [table EXCEPT ![conn[s]] = @ \ {p}]
    /\ objects' = [objects EXCEPT ![s] = @ \ {p}]
    /\ created' = [created EXCEPT ![s] = @ \ {p}]
    /\ UNCHANGED <<known, serviceMap, connVars, named, inUse, requestVars, crashed>>

\* Service.disconnect: only the Bus; map, objects and table are left alone.  The
\* route goes whosever it is.
Disconnect(s) ==
    /\ Running
    /\ conn[s] # None
    /\ conn' = [conn EXCEPT ![s] = None]
    /\ route' = [route EXCEPT ![conn[s]] = None]
    /\ inUse' = inUse \ {s}
    /\ UNCHANGED <<known, serviceMap, state, named, objects, created, table,
                   requestVars, crashed>>

-----------------------------------------------------------------------------
(* Replies.                                                                *)

\* What a reply to r would use after it was freed.
Dead(r) ==
    (IF refs'[r] = 0 THEN {"message"} ELSE {})
        \cup (IF Finalized(arrivedOn'[r]) THEN {"connection"} ELSE {})

\* SendErrorMessageReply reads the message and sends, whatever its flags.
SendError(r) ==
    /\ replies' = [replies EXCEPT ![r] = @ + 1]
    /\ usedDead' = [usedDead EXCEPT ![r] = @ \cup Dead(r)]

\* SendMessageReply reads the flag from the message; a client that wants no
\* reply gets none, and the connection is not used.
SendReturn(r) ==
    IF request[r].noReply
    THEN /\ usedDead' = [usedDead EXCEPT ![r] = @ \cup (Dead(r) \ {"connection"})]
         /\ UNCHANGED replies
    ELSE SendError(r)

SendNothing == UNCHANGED <<replies, usedDead>>

-----------------------------------------------------------------------------
(* Requests.  While MessageHandler runs, libdbus holds a reference; what    *)
(* the handler and its ticks do happens before EndDispatch.                 *)

Idle == \A r \in Requests : stage[r] # "dispatching"

\* Seeded fault: the message is not referenced.
KeptNever(noReply) == 0

\* MessageHandler's own reference, kept for the reply.
Kept(noReply) == IF noReply THEN 0 ELSE 1

\* The dispatcher reads bus.connection.uniqueName of the services in turn, and
\* stops at one of this connection, or at a disconnected one, whose connection is
\* null.
StopsAt(c, i) ==
    /\ i \in DOMAIN serviceMap
    /\ conn[serviceMap[i]] \in {c, None}
    /\ \A j \in 1..(i - 1) : conn[serviceMap[j]] \notin {c, None}

\* The service at i cannot be asked for its name, or has not created the object.
Throws(q, i) ==
    conn[serviceMap[i]] = None \/ q.path \notin objects[serviceMap[i]]

\* Seeded fault: after the UnknownMethod reply the call goes on to the check of
\* the arguments and replies again.
ErrorRepliesTwice(r, q) ==
    /\ q.found \in {"no method", "bad arguments"}
    /\ replies' = [replies EXCEPT ![r] = @ + 2]
    /\ UNCHANGED usedDead

\* ServiceInterface.call replies itself when it finds no method or a wrong number
\* of arguments.
ErrorReplies(r, q) ==
    /\ q.found \in {"no method", "bad arguments"}
    /\ SendError(r)

\* A message for a registered path arrives and goes to the first service of the
\* map that has the connection, which must have the object.  One without an interface
\* ends the process before: MessageHandler makes a string of the null pointer.
Dispatch(r, q, c) ==
    /\ Running
    /\ Idle
    /\ request[r] = None
    /\ state[c] \in {"up", "lost"}
    /\ q.path \in table[c]
    /\ request' = [request EXCEPT ![r] = q]
    /\ arrivedOn' = [arrivedOn EXCEPT ![r] = c]
    /\ stage' = [stage EXCEPT ![r] = "dispatching"]
    /\ refs' = [refs EXCEPT ![r] = 1 + Kept(q.noReply)]
    /\ \/ /\ q.found = "no header"
          /\ crashed' = "native"
          /\ SendNothing
          /\ UNCHANGED servedBy
       \/ /\ q.found # "no header"
          /\ \A i \in DOMAIN serviceMap : ~StopsAt(c, i)
          /\ SendNothing
          /\ UNCHANGED <<servedBy, crashed>>
       \/ \E i \in DOMAIN serviceMap :
          /\ q.found # "no header"
          /\ StopsAt(c, i)
          /\ \/ /\ Throws(q, i)
                /\ crashed' = "dispatcher"
                /\ SendNothing
                /\ UNCHANGED servedBy
             \/ /\ ~Throws(q, i)
                /\ q.found = "no interface"
                /\ SendNothing
                /\ UNCHANGED <<servedBy, crashed>>
             \/ /\ ~Throws(q, i)
                /\ ErrorReplies(r, q)
                /\ UNCHANGED <<servedBy, crashed>>
             \/ /\ ~Throws(q, i)
                /\ q.found = "method"
                /\ servedBy' = [servedBy EXCEPT ![r] = serviceMap[i]]
                /\ SendNothing
                /\ UNCHANGED crashed
    /\ UNCHANGED <<userVars, answers>>

\* The handler of r throws, before or after it answered.
HandlerThrows(r) ==
    /\ Running
    /\ stage[r] = "dispatching"
    /\ servedBy[r] # None
    /\ crashed' = "handler"
    /\ UNCHANGED <<userVars, requestVars>>

\* Seeded fault: MessageHandler drops a reference, too.
EndDispatchReleasesTwice(r) ==
    /\ Running
    /\ stage[r] = "dispatching"
    /\ stage' = [stage EXCEPT ![r] = "dispatched"]
    /\ refs' = [refs EXCEPT ![r] = @ - 2]
    /\ UNCHANGED <<userVars, request, arrivedOn, servedBy, answers, replies,
                   usedDead, crashed>>

\* MessageHandler returns, and libdbus drops its reference.
EndDispatch(r) ==
    /\ Running
    /\ stage[r] = "dispatching"
    /\ stage' = [stage EXCEPT ![r] = "dispatched"]
    /\ refs' = [refs EXCEPT ![r] = @ - 1]
    /\ UNCHANGED <<userVars, request, arrivedOn, servedBy, answers, replies,
                   usedDead, crashed>>

\* The handler of r calls its callback with (err, value): an error when the
\* first argument is set.
Answer(r, first) ==
    /\ Running
    /\ servedBy[r] # None
    /\ answers[r] < MaxAnswers
    /\ answers' = [answers EXCEPT ![r] = @ + 1]
    /\ UNCHANGED <<userVars, request, arrivedOn, stage, servedBy, refs, crashed>>
    /\ IF first THEN SendError(r) ELSE SendReturn(r)

\* Disconnected is dispatched after all messages of connection c: the Bus it is
\* routed to reconnects, or throws when it cannot; names and object paths stay
\* behind.
DispatchDisconnected(c) ==
    /\ Running
    /\ Idle
    /\ state[c] = "lost"
    /\ \/ /\ route[c] = None
          /\ state' = [state EXCEPT ![c] = "noticed"]
          /\ UNCHANGED <<conn, route, crashed>>
       \/ /\ route[c] # None
          /\ \E d \in Conns :
                /\ Gets(d)
                /\ state' = [state EXCEPT ![c] = "noticed", ![d] = "up"]
                /\ conn' = [conn EXCEPT ![route[c]] = d]
                /\ route' = [route EXCEPT ![c] = None, ![d] = route[c]]
          /\ UNCHANGED crashed
       \/ /\ route[c] # None
          /\ \A d \in Conns : state[d] # "up"
          /\ crashed' = "reconnect"
          /\ UNCHANGED connVars
    /\ UNCHANGED <<known, serviceMap, named, inUse, objects, created, table,
                   requestVars>>

-----------------------------------------------------------------------------
Next ==
    \/ \E c \in Conns : Lose(c) \/ DispatchDisconnected(c)
    \/ \E s \in Services :
        \/ Register(s) \/ RegisterThrows(s) \/ RegisterAgain(s)
        \/ Disconnect(s)
        \/ \E p \in Paths : CreateObject(s, p) \/ RemoveObject(s, p)
    \/ \E r \in Requests :
        \/ \E q \in Request, c \in Conns : Dispatch(r, q, c)
        \/ HandlerThrows(r)
        \/ EndDispatch(r)
        \/ \E first \in BOOLEAN : Answer(r, first)

Spec == Init /\ [][Next]_vars

-----------------------------------------------------------------------------
(* Properties.                                                             *)

\* The dispatcher never throws while one service has the connection of a request
\* and no service of the map is disconnected: whatever was created, removed, could
\* not be registered, or was lost and reconnected, a registered path has its object.
CrashOnlyIfShared ==
    crashed = "dispatcher" =>
        \/ \E i \in DOMAIN serviceMap : conn[serviceMap[i]] = None
        \/ \E s, t \in known :
            s # t /\ conn[s] # None /\ objects[t] # {} /\ conn[t] \in {conn[s], None}

\* A request that expects a reply gets one for each answer of its handler, and a
\* request without a handler gets at most one.
OneReplyEach ==
    \A r \in Requests : request[r] # None =>
        IF servedBy[r] = None THEN replies[r] <= 1
        ELSE IF request[r].noReply THEN replies[r] <= answers[r]
        ELSE replies[r] = answers[r]

\* A service whose name the process has requested stays in the map of the
\* dispatcher, at one place: whatever is registered, fails, or is replaced.
NamedIsMapped ==
    \A s \in named : Cardinality({i \in DOMAIN serviceMap : serviceMap[i] = s}) = 1

\* The message of a request is live whenever a reply is made from it, however
\* late the handler answers, if the client expects the reply; and the connection
\* that it points to is, unless it was lost and every Bus has left it.
LiveIfExpected ==
    \A r \in Requests :
        /\ "message" \in usedDead[r] => servedBy[r] # None /\ request[r].noReply
        /\ "connection" \in usedDead[r] => servedBy[r] # None /\ Finalized(arrivedOn[r])

\* README.md on createObject: "Create an object that is exposed over DBus".  A
\* request to an object of a connected service reaches its method.
ObjectsAreExposed ==
    crashed = "dispatcher" =>
        \E s \in Services : Contains(serviceMap, s) /\ conn[s] = None

\* What createObject has returned stays registered on the connection of its service
\* until it is removed there, whatever other services create, remove and disconnect.
\* Only a loss ends it: reconnect registers no paths on the new connection.
StaysExposed ==
    (\A c \in Conns : state[c] \in {"unused", "up"}) =>
        \A s \in Services : conn[s] # None => created[s] \subseteq table[conn[s]]
=============================================================================
