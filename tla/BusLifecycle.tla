---------------------------- MODULE BusLifecycle ----------------------------
(***************************************************************************)
(* Bus objects and the libdbus connections under them: the Bus constructor,*)
(* disconnect and reconnect (lib/bus.js), the signal dispatcher of         *)
(* lib/dbus.js, GetBus and ReleaseBus (src/dbus.cc), Init, UnInit, the     *)
(* wakeup and the dispatch loop of src/connection.cc.                      *)
(*                                                                         *)
(* dbus_bus_get shares one connection per bus type in the process.  Every  *)
(* GetBus makes a BusObject with a uv_async handle of its own, and takes   *)
(* over the connection's wakeup; libdbus then frees the previous handle.   *)
(* Signals are routed to Bus objects by the unique name of the connection. *)
(* Of pending calls only their timers show here: they are referenced.      *)
(*                                                                         *)
(* libdbus and the daemon are external: connections are shared weakly,     *)
(* libdbus holds one reference until it has processed the synthesized      *)
(* Disconnected signal, and the last reference finalizes the connection.   *)
(* A daemon that lets dbus_bus_get register is not lost before Init.       *)
(***************************************************************************)
EXTENDS Naturals, Sequences, FiniteSets, SequencesExt

CONSTANTS Buses,        \* Bus objects of the JavaScript side
          Conns,        \* libdbus connections
          Handles,      \* native BusObjects, each with its uv_async handle
          Names,        \* unique names the daemons give out
          Types,        \* system and session
          BusType,      \* bus.name
          ConnType,     \* the bus type a connection is opened for
          NamesReused,  \* may a restarted daemon give out a name again?
          MaxInbox,     \* bound: messages queued in a connection
          Callers,      \* bound: Bus objects that remote operations are started on
          None

ASSUME NoneAssumption == None \notin Buses \cup Conns \cup Handles \cup Names
ASSUME TypesAssumption ==
    BusType \in [Buses -> Types] /\ ConnType \in [Conns -> Types]
ASSUME BoundsAssumption == MaxInbox \in Nat /\ NamesReused \in BOOLEAN

VARIABLES
    lib,         \* the native side, see Lib below
    connection,  \* bus.connection: a BusObject or null
    made,        \* the Bus objects constructed so far
    route,       \* DBus.signalHandlers: unique name -> Bus
    inbox,       \* messages received by each connection, not dispatched
    loopOn,      \* the connection whose dispatch loop is on the stack
    timed,       \* connections with the uv_timer of a pending call running
    last         \* the last signal dispatched: whence, to whom, how often

vars == <<lib, connection, made, route, inbox, loopOn, timed, last>>

(***************************************************************************)
(* The native side.  For a connection: its state, unique name, reference   *)
(* count, the BusObject whose uv_async is the wakeup, and the number of    *)
(* signal filters.  For a BusObject: its connection, the state of its      *)
(* uv_async, how often it was released.  "closed" is a handle that was     *)
(* given to uv_close; its memory is freed shortly after.                   *)
(***************************************************************************)
Lib == [shared : [Types -> Conns \cup {None}],
        state : [Conns -> {"unused", "up", "down", "gone"}],
        name : [Conns -> Names \cup {None}],
        refs : [Conns -> Nat],
        wake : [Conns -> Handles \cup {None}],
        filters : [Conns -> Nat],
        of : [Handles -> Conns \cup {None}],
        loop : [Handles -> {"unused", "active", "unref", "closed"}],
        released : [Handles -> Nat],
        woken : SUBSET Handles]

Messages == {"signal", "Disconnected"}

TypeOK ==
    /\ lib \in Lib
    /\ connection \in [Buses -> Handles \cup {None}]
    /\ made \subseteq Buses
    /\ route \in [Names -> Buses \cup {None}]
    /\ inbox \in [Conns -> Seq(Messages)]
    /\ loopOn \in Conns \cup {None}
    /\ timed \subseteq Conns
    /\ last \in [from : Conns \cup {None}, to : Buses \cup {None}]

Init ==
    /\ lib = [shared |-> [t \in Types |-> None],
              state |-> [c \in Conns |-> "unused"],
              name |-> [c \in Conns |-> None],
              refs |-> [c \in Conns |-> 0],
              wake |-> [c \in Conns |-> None],
              filters |-> [c \in Conns |-> 0],
              of |-> [h \in Handles |-> None],
              loop |-> [h \in Handles |-> "unused"],
              released |-> [h \in Handles |-> 0],
              woken |-> {}]
    /\ connection = [b \in Buses |-> None]
    /\ made = {}
    /\ route = [n \in Names |-> None]
    /\ inbox = [c \in Conns |-> <<>>]
    /\ loopOn = None
    /\ timed = {}
    /\ last = [from |-> None, to |-> None]

NameOf(h) == lib.name[lib.of[h]]
Unused(s) == {h \in Handles : s.loop[h] = "unused"}

-----------------------------------------------------------------------------
(* The native operations, as operators on the native state s.              *)

\* connection_loop_close, called by libdbus: the handle of h is closed.
CloseLoop(s, h) ==
    IF h = None THEN s
    ELSE [s EXCEPT !.loop[h] = "closed", !.woken = @ \ {h}]

\* dbus_connection_unref; the last one finalizes the connection.  One too many
\* works on freed memory; nothing is left to change then.
Unref(s, c) ==
    CASE s.refs[c] = 0 -> s
      [] s.refs[c] = 1 ->
            CloseLoop([s EXCEPT !.refs[c] = 0, !.state[c] = "gone"], s.wake[c])
      [] OTHER -> [s EXCEPT !.refs[c] = @ - 1]

\* uv_unref of the handle of h.  On a closed handle, whose memory may serve
\* another uv_async by now, it does nothing or unrefs that one.
UvUnref(s, h) ==
    IF s.loop[h] # "closed" THEN {[s EXCEPT !.loop[h] = "unref"]}
    ELSE {s} \cup {[s EXCEPT !.loop[g] = "unref"] :
                        g \in {x \in Handles : s.loop[x] = "active"}}

\* Seeded faults: no uv_unref; a second unref.
UnInitKeepsRef(s, h) ==
    {Unref([s EXCEPT !.released[h] = @ + 1], s.of[h])}

UnInitUnrefsTwice(s, h) ==
    {Unref(Unref([u EXCEPT !.released[h] = @ + 1], s.of[h]), s.of[h]) :
        u \in UvUnref(s, h)}

\* ReleaseBus: the results of Connection::UnInit on h.
UnInit(s, h) ==
    {Unref([u EXCEPT !.released[h] = @ + 1], s.of[h]) : u \in UvUnref(s, h)}

\* The name is held by no other client of that daemon, or, unless the daemon
\* restarted, by no client so far.
FreshName(s, c, n) ==
    \A d \in Conns : ConnType[d] = ConnType[c] /\ s.name[d] = n =>
        NamesReused /\ s.state[d] # "up"

\* Seeded faults: the wakeup function is only set for the first BusObject that
\* the process makes; its data pointer is the connection, not the handle; the
\* handle is unreferenced like a uv_poll.
AttachFirstOnly(s, h, c) ==
    LET open == CloseLoop(s, s.wake[c])
    IN  [open EXCEPT !.refs[c] = @ + 1,
                     !.wake[c] = IF \E g \in Handles : s.of[g] # None
                                 THEN None ELSE h,
                     !.filters[c] = @ + 1,
                     !.of[h] = c,
                     !.loop[h] = "active"]

AttachWakesConnection(s, h, c) ==
    LET open == CloseLoop(s, s.wake[c])
    IN  [open EXCEPT !.refs[c] = @ + 1,
                     !.wake[c] = c,
                     !.filters[c] = @ + 1,
                     !.of[h] = c,
                     !.loop[h] = "active"]

AttachUnreferenced(s, h, c) ==
    LET open == CloseLoop(s, s.wake[c])
    IN  [open EXCEPT !.refs[c] = @ + 1,
                     !.wake[c] = h,
                     !.filters[c] = @ + 1,
                     !.of[h] = c,
                     !.loop[h] = "unref"]

\* dbus_bus_get's reference and Connection::Init of a new BusObject h on c: the
\* wakeup moves to h, and one more filter is added.
Attach(s, h, c) ==
    LET open == CloseLoop(s, s.wake[c])
    IN  [open EXCEPT !.refs[c] = @ + 1,
                     !.wake[c] = h,
                     !.filters[c] = @ + 1,
                     !.of[h] = c,
                     !.loop[h] = "active"]

\* A new connection c, registered as n, which libdbus references and shares.
Open(s, c, n) ==
    [s EXCEPT !.shared[ConnType[c]] = c,
              !.state[c] = "up",
              !.name[c] = n,
              !.refs[c] = 1]

\* GetBus for bus type t: the shared connection, or a new one.
GetBus(s, t) ==
    IF s.shared[t] # None
    THEN {[lib |-> Attach(s, h, s.shared[t]), handle |-> h] : h \in Unused(s)}
    ELSE UNION {{[lib |-> Attach(Open(s, c, n), h, c), handle |-> h] :
                    n \in {x \in Names : FreshName(s, c, x)}, h \in Unused(s)} :
                c \in {d \in Conns : ConnType[d] = t /\ s.state[d] = "unused"}}

RegisteredAs(r) == r.lib.name[r.lib.of[r.handle]]

\* dbus_bus_get blocks until a new connection is registered, and may receive more
\* than the reply: box with what is queued when Init sets the wakeup function of
\* the connection of h, on the native state s.
Greeted(box, s, h) ==
    IF h # None /\ lib.state[s.of[h]] = "unused"
    THEN {box, [box EXCEPT ![s.of[h]] = <<"signal">>]}
    ELSE {box}

(***************************************************************************)
(* Bus.reconnect of b: the route is deleted and the BusObject released if  *)
(* there is one; then getBus succeeds, or throws when it must connect and  *)
(* cannot, and leaves bus.connection as it was.                            *)
(***************************************************************************)
Released(b) ==
    IF connection[b] = None THEN {lib} ELSE UnInit(lib, connection[b])

RouteWithout(b) ==
    IF connection[b] = None THEN route
    ELSE [route EXCEPT ![NameOf(connection[b])] = None]

\* Seeded fault: the new connection is not registered in signalHandlers.
ReconnectOutcomesUnrouted(b) ==
    UNION {{[lib |-> r.lib, handle |-> r.handle, route |-> RouteWithout(b)] :
                r \in GetBus(s, BusType[b])} : s \in Released(b)}

\* Seeded fault: without a break, the bus type is not the one of bus.name.
ReconnectOutcomesFallThrough(b) ==
    UNION {{[lib |-> r.lib, handle |-> r.handle,
             route |-> [RouteWithout(b) EXCEPT ![RegisteredAs(r)] = b]] :
                r \in UNION {GetBus(s, t) : t \in Types}} : s \in Released(b)}

ReconnectOutcomes(b) ==
    UNION {{[lib |-> r.lib, handle |-> r.handle,
             route |-> [RouteWithout(b) EXCEPT ![RegisteredAs(r)] = b]] :
                r \in GetBus(s, BusType[b])}
           \cup
           (IF s.shared[BusType[b]] # None THEN {}
            ELSE {[lib |-> s, handle |-> connection[b],
                   route |-> RouteWithout(b)]}) :
           s \in Released(b)}

-----------------------------------------------------------------------------
(* Operations of the user's code.                                          *)

\* Bound: the supply of BusObjects left to the user's code; the others are for
\* the reconnects that the loss of connections may cause.
Spare ==
    Cardinality(Unused(lib)) >
        Cardinality({c \in Conns : lib.state[c] \in {"unused", "up"}
                                   \/ Contains(inbox[c], "Disconnected")})

\* DBus.getBus: the Bus constructor.
NewBus(b) ==
    /\ b \notin made
    /\ Spare
    /\ \E r \in GetBus(lib, BusType[b]) :
        /\ lib' = r.lib
        /\ connection' = [connection EXCEPT ![b] = r.handle]
        /\ route' = [route EXCEPT ![RegisteredAs(r)] = b]
        /\ inbox' \in Greeted(inbox, r.lib, r.handle)
    /\ made' = made \cup {b}
    /\ UNCHANGED <<loopOn, timed, last>>

\* Seeded fault: the route stays.
DisconnectKeepsRoute(b) ==
    /\ connection[b] # None
    /\ lib' \in UnInit(lib, connection[b])
    /\ connection' = [connection EXCEPT ![b] = None]
    /\ UNCHANGED <<made, route, inbox, loopOn, timed, last>>

\* Bus.disconnect.  (A second one throws before it changes anything.)
Disconnect(b) ==
    /\ connection[b] # None
    /\ route' = [route EXCEPT ![NameOf(connection[b])] = None]
    /\ lib' \in UnInit(lib, connection[b])
    /\ connection' = [connection EXCEPT ![b] = None]
    /\ UNCHANGED <<made, inbox, loopOn, timed, last>>

\* Bus.reconnect, called by the user.  A third release of one BusObject after
\* two failed reconnects shows nothing new and is left out.
Reconnect(b) ==
    /\ b \in made
    /\ Spare
    /\ connection[b] # None => lib.released[connection[b]] < 2
    /\ \E o \in ReconnectOutcomes(b) :
        /\ lib' = o.lib
        /\ connection' = [connection EXCEPT ![b] = o.handle]
        /\ route' = o.route
        /\ inbox' \in Greeted(inbox, o.lib, o.handle)
    /\ UNCHANGED <<made, loopOn, timed, last>>

\* A remote operation on b starts: libdbus times the pending call, and timeout_add
\* starts a uv_timer.
StartCall(b) ==
    /\ b \in Callers
    /\ connection[b] # None
    /\ lib.state[lib.of[connection[b]]] = "up"
    /\ timed' = timed \cup {lib.of[connection[b]]}
    /\ UNCHANGED <<lib, connection, made, route, inbox, loopOn, last>>

-----------------------------------------------------------------------------
(* The daemon, libdbus and the event loop.                                 *)

\* connection_wakeup: uv_async_send on the current handle of c.
Wakeup(c) == [lib EXCEPT !.woken = @ \cup ({lib.wake[c]} \ {None})]

\* A signal is received, by the watches or inside a call that blocks.
Receive(c) ==
    /\ lib.state[c] = "up"
    /\ Len(inbox[c]) < MaxInbox
    /\ inbox' = [inbox EXCEPT ![c] = Append(@, "signal")]
    /\ lib' = Wakeup(c)
    /\ UNCHANGED <<connection, made, route, loopOn, timed, last>>

\* The daemon or the socket is gone: libdbus stops sharing the connection and
\* queues Disconnected behind what was received.
Lose(c) ==
    /\ lib.state[c] = "up"
    /\ inbox' = [inbox EXCEPT ![c] = Append(@, "Disconnected")]
    /\ lib' = [Wakeup(c) EXCEPT !.state[c] = "down",
                                !.shared[ConnType[c]] = None]
    /\ UNCHANGED <<connection, made, route, loopOn, timed, last>>

\* The pending calls of c are answered, have timed out or were given up, or another
\* Init drops their timers.  Disconnect ends none of them.
EndCalls(c) ==
    /\ c \in timed
    /\ timed' = timed \ {c}
    /\ UNCHANGED <<lib, connection, made, route, inbox, loopOn, last>>

\* connection_loop_handle enters its dispatch loop.
EnterLoop(h) ==
    /\ loopOn = None
    /\ h \in lib.woken
    /\ lib' = [lib EXCEPT !.woken = @ \ {h}]
    /\ loopOn' = lib.of[h]
    /\ UNCHANGED <<connection, made, route, inbox, timed, last>>

\* signal_filter and the dispatcher of lib/dbus.js: the Bus that is registered
\* under the connection's name emits the signal to its interfaces.
DispatchSignal ==
    /\ loopOn # None
    /\ inbox[loopOn] # <<>>
    /\ Head(inbox[loopOn]) = "signal"
    /\ inbox' = [inbox EXCEPT ![loopOn] = Tail(@)]
    /\ last' = [from |-> loopOn, to |-> route[lib.name[loopOn]]]
    /\ UNCHANGED <<lib, connection, made, route, loopOn, timed>>

\* Disconnected comes the same way, makes that Bus reconnect, and then libdbus
\* drops its reference.  When the reconnect throws, the process only survives
\* with an uncaughtException handler; the model lets it.
DispatchDisconnected ==
    /\ loopOn # None
    /\ inbox[loopOn] # <<>>
    /\ Head(inbox[loopOn]) = "Disconnected"
    /\ LET b == route[lib.name[loopOn]]
           box == [inbox EXCEPT ![loopOn] = Tail(@)]
       IN  \/ /\ b = None
              /\ lib' = Unref(lib, loopOn)
              /\ inbox' = box
              /\ UNCHANGED <<connection, route>>
           \/ /\ b # None
              /\ \E o \in ReconnectOutcomes(b) :
                    /\ lib' = Unref(o.lib, loopOn)
                    /\ connection' = [connection EXCEPT ![b] = o.handle]
                    /\ route' = o.route
                    /\ inbox' \in Greeted(box, o.lib, o.handle)
    /\ UNCHANGED <<made, loopOn, timed, last>>

\* Seeded fault: dispatch is called once, not until nothing is left.
LeaveLoopEarly ==
    /\ loopOn # None
    /\ loopOn' = None
    /\ UNCHANGED <<lib, connection, made, route, inbox, timed, last>>

\* Nothing is left to dispatch.
LeaveLoop ==
    /\ loopOn # None
    /\ inbox[loopOn] = <<>>
    /\ loopOn' = None
    /\ UNCHANGED <<lib, connection, made, route, inbox, timed, last>>

-----------------------------------------------------------------------------
Next ==
    \/ \E b \in Buses : NewBus(b) \/ Disconnect(b) \/ Reconnect(b) \/ StartCall(b)
    \/ \E c \in Conns : Receive(c) \/ Lose(c) \/ EndCalls(c)
    \/ \E h \in Handles : EnterLoop(h)
    \/ DispatchSignal
    \/ DispatchDisconnected
    \/ LeaveLoop

Spec == Init /\ [][Next]_vars

(***************************************************************************)
(* The event loop runs as long as a handle is active and referenced, the   *)
(* uv_async of a BusObject or the uv_timer of a pending call, and then     *)
(* serves every uv_async that was sent; a dispatch loop runs to its end.   *)
(***************************************************************************)
Handled == \E h \in Handles : lib.loop[h] = "active"
Alive == Handled \/ timed # {}

Fairness ==
    /\ \A h \in Handles : WF_vars(Alive /\ EnterLoop(h))
    /\ WF_vars(DispatchSignal \/ DispatchDisconnected \/ LeaveLoop)

FairSpec == Spec /\ Fairness

-----------------------------------------------------------------------------
(* Properties.                                                             *)

\* Bus b holds a BusObject it has not released.
Holds(b) == connection[b] # None /\ lib.released[connection[b]] = 0
ConnOf(b) == lib.of[connection[b]]

\* No BusObject was released twice, as failed reconnects make possible.
NoDoubleRelease == \A h \in Handles : lib.released[h] <= 1

\* DBus.signalHandlers only names Bus objects that hold a connection of that
\* name: nothing is emitted on a disconnected Bus, nor on one whose reconnect
\* failed, whatever other Bus shares the connection.
RouteOwner ==
    \A n \in Names : route[n] # None =>
        Holds(route[n]) /\ NameOf(connection[route[n]]) = n

\* README.md on disconnect: "Node isn't kept running".  Without a connected Bus
\* nothing but a call in flight keeps the event loop alive, for its uv_timer, which
\* disconnect leaves referenced: no uv_async does.
Disconnected == \A b \in Buses : connection[b] = None
NodeMayExit == Disconnected /\ Alive => timed # {}

\* A connected Bus keeps the event loop alive, calls in flight or not: through loss
\* and reconnect, unless a connection has had a second BusObject or a failed
\* reconnect led to a double release, whose uv_unref may hit the handle of another.
KeepsRunning ==
    /\ NoDoubleRelease
    /\ \A c \in Conns : lib.filters[c] <= 1
    /\ \E b \in Buses : Holds(b)
    => Handled

\* Neither a Bus nor the dispatch loop, with messages to dispatch, is left with
\* a finalized connection, unless a failed reconnect led to a double release.
NoDangling ==
    NoDoubleRelease =>
        /\ \A b \in Buses : Holds(b) => lib.state[ConnOf(b)] # "gone"
        /\ loopOn # None /\ inbox[loopOn] # <<>> => lib.state[loopOn] # "gone"

\* What connection c has received waits for a wakeup that nobody has sent: it is
\* not dispatched before the next message.
Asleep(c) ==
    /\ inbox[c] # <<>>
    /\ loopOn # c
    /\ lib.wake[c] \notin lib.woken

\* Init ran on connection c, for a new BusObject.
InitOn(c) == \E h \in Handles : lib.of[h] = None /\ lib'.of[h] = c

\* Only Init loses wakeups: by closing the uv_async that was sent, or by setting the
\* wakeup function after messages were received.  No release, disconnect, loss,
\* dispatch, nor Init on another connection does, unless it finalizes this one.
OnlyInitLosesWakeups ==
    [][\A c \in Conns :
        Asleep(c)' => Asleep(c) \/ InitOn(c) \/ lib'.state[c] = "gone"]_vars

\* When Disconnected has been dispatched, the Bus of the connection has left it,
\* or its reconnect failed; unless the connection was shared, or the daemons
\* gave its name to a second one.
LostIsNoticed ==
    \A b \in Buses :
        Holds(b) /\ lib.state[ConnOf(b)] # "up" =>
            \/ Contains(inbox[ConnOf(b)], "Disconnected")
            \/ lib.filters[ConnOf(b)] > 1
            \/ \E c \in Conns \ {ConnOf(b)} : lib.name[c] = lib.name[ConnOf(b)]

\* What a connection has received, and was woken for, is dispatched, unless the event
\* loop ends or the Init of a second BusObject loses the wakeup.
SignalsDispatched ==
    \A c \in Conns :
        inbox[c] # <<>> /\ ~Asleep(c) ~>
            inbox[c] = <<>> \/ ~Alive \/ (Asleep(c) /\ lib.filters[c] > 1)

\* A signal goes to a Bus of the daemon it came from, after any reconnect, unless
\* both daemons gave out the same name.
SignalFromOwnDaemon ==
    last.to # None =>
        \/ ConnType[last.from] = BusType[last.to]
        \/ \E c \in Conns :
            ConnType[c] # ConnType[last.from] /\ lib.name[c] = lib.name[last.from]

\* README.md on disconnect: "makes this bus, and all of its children [...]
\* unusable", this bus only: the others keep getting their signals.
Hears(b) == Holds(b) /\ route[NameOf(connection[b])] = b
DisconnectIsLocal ==
    [][\A b \in Buses :
        connection[b] # None /\ connection'[b] = None =>
            \A d \in Buses \ {b} : Hears(d) => Hears(d)']_vars

=============================================================================
