----------------------------- MODULE Interfaces -----------------------------
(***************************************************************************)
(* Interfaces of remote objects and their signal subscriptions on one Bus: *)
(* getInterface, introspect, registerSignalHandler, getUniqueServiceName,  *)
(* addSignalFilter, the signal dispatcher, disconnect and reconnect of     *)
(* lib/bus.js, Interface.init (lib/interface.js), AddSignalFilter          *)
(* (src/dbus.cc).                                                          *)
(*                                                                         *)
(* Retrieving an interface takes two remote calls (Introspect to the       *)
(* service, GetNameOwner to the daemon) and two ticks; reconnect starts    *)
(* GetNameOwner calls for every interface in the cache, and may come       *)
(* between any two of these steps.  How one remote call is answered is the *)
(* subject of PendingCall; here an answer comes, or is forgotten with the  *)
(* connection.  getBus of a reconnect succeeds (see BusLifecycle).         *)
(* The Bus is the only one on its connection.                              *)
(***************************************************************************)
EXTENDS Naturals, Sequences, SequencesExt

CONSTANTS Requests,     \* calls of getInterface, and the Interface each creates
          Keys,         \* service name, object path and interface name
          Hashes,       \* object path and interface name
          HashOf,       \* the hash of each key
          Signalling,   \* the keys whose interface has signals
          MaxLosses,    \* bound: losses of the connection
          MaxRenewals,  \* bound: calls of reconnect by the user's code
          None

ASSUME KeysAssumption == HashOf \in [Keys -> Hashes] /\ Signalling \subseteq Keys
ASSUME NoneAssumption == None \notin Requests \cup Keys
ASSUME BoundsAssumption == MaxLosses \in Nat /\ MaxRenewals \in Nat

VARIABLES
    connected,   \* bus.connection !== null
    up,          \* the libdbus connection of the bus is up
    losses,      \* how often it was lost
    renewals,    \* how often the user's code called reconnect
    reinit,      \* that connection was given to Init a second time
    rules,       \* keys whose match rule the daemon has for that connection
    refused,     \* keys whose match rule it refused when it was last asked for
    interfaces,  \* bus.interfaces: Interface objects in the order of their keys
    handlers,    \* bus.signalHandlers
    target,      \* the key each request asks for
    stage,       \* where each request stands
    owners,      \* GetNameOwner calls that were not answered, in order
    ticks,       \* process.nextTick queue
    answered,    \* how often the callback of each request was called
    overtaken,   \* requests in a tick when the rules of a connection were lost
    aborted      \* AddSignalFilter ended the process

busVars == <<connected, up, losses, renewals, reinit>>
vars == <<busVars, rules, refused, interfaces, handlers, target, stage, owners, ticks,
          answered, overtaken, aborted>>

(***************************************************************************)
(* "stuck": an exception in a callback of the native code has ended the    *)
(* request, or its connection was lost with the answer; its callback will  *)
(* not be called.  "threw": getInterface threw to its caller.              *)
(***************************************************************************)
Stages == {"idle", "introspecting", "orphaned", "registering", "ticking", "done",
           "stuck", "threw"}

\* A registration: of which Interface, for getInterface or for reconnect, and
\* whether the connection it was sent on has been replaced.
Registration == [iface : Requests, getting : BOOLEAN, old : BOOLEAN]
Tick == [kind : {"cached", "refused", "filtered", "init"}, req : Requests]

TypeOK ==
    /\ connected \in BOOLEAN /\ up \in BOOLEAN /\ aborted \in BOOLEAN
    /\ reinit \in BOOLEAN
    /\ losses \in 0..MaxLosses /\ renewals \in 0..MaxRenewals
    /\ rules \subseteq Keys /\ refused \subseteq Keys
    /\ interfaces \in Seq(Requests)
    /\ handlers \in [Hashes -> Requests \cup {None}]
    /\ target \in [Requests -> Keys \cup {None}]
    /\ stage \in [Requests -> Stages]
    /\ owners \in Seq(Registration)
    /\ ticks \in Seq(Tick)
    /\ answered \in [Requests -> 0..1]   \* called back once, though reconnect
                                        \* registers the same objects again
    /\ overtaken \subseteq Requests

Init ==
    /\ connected = TRUE /\ up = TRUE /\ reinit = FALSE /\ aborted = FALSE
    /\ losses = 0 /\ renewals = 0
    /\ rules = {} /\ refused = {}
    /\ interfaces = <<>>
    /\ handlers = [h \in Hashes |-> None]
    /\ target = [r \in Requests |-> None]
    /\ stage = [r \in Requests |-> "idle"]
    /\ owners = <<>>
    /\ ticks = <<>>
    /\ answered = [r \in Requests |-> 0]
    /\ overtaken = {}

\* The Interface objects in the cache, for key k and for any key.
CachedFor(k) == {r \in ToSet(interfaces) : target[r] = k}
Cached == ToSet(interfaces)

\* Seeded fault: the name of the service is left out of the name in the cache.
StoredByHash(r) ==
    LET same == {i \in DOMAIN interfaces :
                    HashOf[target[interfaces[i]]] = HashOf[target[r]]}
    IN  IF same = {} THEN Append(interfaces, r)
        ELSE [i \in DOMAIN interfaces |-> IF i \in same THEN r ELSE interfaces[i]]

\* interfaces[serviceName + ':' + objectPath + ':' + interfaceName] = iface.
Stored(r) ==
    IF CachedFor(target[r]) = {} THEN Append(interfaces, r)
    ELSE [i \in DOMAIN interfaces |->
            IF target[interfaces[i]] = target[r] THEN r ELSE interfaces[i]]

MoveTo(r, s) == stage' = [stage EXCEPT ![r] = s]
Queue(kind, r) == ticks' = Append(ticks, [kind |-> kind, req |-> r])
CallBack(r) == answered' = [answered EXCEPT ![r] = @ + 1] /\ MoveTo(r, "done")

\* registerSignalHandler of Interface r up to its GetNameOwner call.
Registering(r, getting) == [iface |-> r, getting |-> getting, old |-> FALSE]

-----------------------------------------------------------------------------
(* Operations of the user's code, which may run between any two ticks.     *)

\* Bus.getInterface: from the cache, or by introspection, which fails in a tick
\* on a disconnected bus and throws on a lost connection.
GetInterface(r, k) ==
    /\ ~aborted
    /\ stage[r] = "idle"
    /\ target' = [target EXCEPT ![r] = k]
    /\ \/ CachedFor(k) # {} /\ MoveTo(r, "ticking") /\ Queue("cached", r)
       \/ /\ CachedFor(k) = {}
          /\ \/ ~connected /\ MoveTo(r, "ticking") /\ Queue("refused", r)
             \/ connected /\ up /\ MoveTo(r, "introspecting") /\ UNCHANGED ticks
             \/ connected /\ ~up /\ MoveTo(r, "threw") /\ UNCHANGED ticks
    /\ UNCHANGED <<busVars, rules, refused, interfaces, handlers, owners, answered,
                   overtaken, aborted>>

\* Bus.disconnect.  Remote calls in flight are left alone.
Disconnect ==
    /\ ~aborted
    /\ connected
    /\ connected' = FALSE
    /\ UNCHANGED <<up, losses, renewals, reinit, rules, refused, interfaces,
                   handlers, target, stage, owners, ticks, answered, overtaken,
                   aborted>>

\* Seeded faults: the new connection gets no registrations; they call the callback
\* of getInterface again.
ReregistrationsMissing == <<>>
ReregistrationsCallBack ==
    [i \in DOMAIN interfaces |-> Registering(interfaces[i], TRUE)]

\* reconnect registers every interface of the cache again, with signals or not.
Reregistrations == [i \in DOMAIN interfaces |-> Registering(interfaces[i], FALSE)]

\* Calls in flight on a connection that reconnect replaces.
Orphaned == [i \in DOMAIN owners |-> [owners[i] EXCEPT !.old = TRUE]]
OrphanedStages ==
    [r \in Requests |-> IF stage[r] = "introspecting" THEN "orphaned" ELSE stage[r]]

\* Bus.reconnect, called by the user's code.  A connection that is up is shared and
\* initialized again, with its rules and its calls in flight; otherwise a new one
\* starts with neither, and the old one may still dispatch what it has received.
Reconnect ==
    /\ ~aborted
    /\ renewals < MaxRenewals
    /\ renewals' = renewals + 1
    /\ connected' = TRUE
    /\ up' = TRUE
    /\ \/ /\ up
          /\ owners' = owners \o Reregistrations
          /\ overtaken' = overtaken \ Cached
          /\ reinit' = TRUE
          /\ UNCHANGED <<rules, refused, stage>>
       \/ /\ ~up
          /\ reinit' = FALSE
          /\ rules' = {} /\ refused' = {}
          /\ owners' = Orphaned \o Reregistrations
          /\ stage' = OrphanedStages
          /\ overtaken' = {t.req : t \in ToSet(ticks)}
    /\ UNCHANGED <<losses, interfaces, handlers, target, ticks, answered, aborted>>

-----------------------------------------------------------------------------
(* Ticks.                                                                  *)

\* Seeded fault: Interface.init does not pass its callback on.
FilteredEnds(t) == Tail(ticks)

\* The tick of addSignalFilter calls back, and Interface.init queues its callback.
Filtered(t) == Append(Tail(ticks), [t EXCEPT !.kind = "init"])

\* "init": getInterface's callback of Interface.init stores the interface and calls
\* back.  "cached" and "refused" only call back.
RunTick ==
    /\ ~aborted
    /\ ticks # <<>>
    /\ LET t == Head(ticks)
       IN  IF t.kind = "filtered"
           THEN /\ ticks' = Filtered(t)
                /\ UNCHANGED <<interfaces, stage, answered>>
           ELSE /\ ticks' = Tail(ticks)
                /\ CallBack(t.req)
                /\ interfaces' = IF t.kind = "init" THEN Stored(t.req)
                                 ELSE interfaces
    /\ UNCHANGED <<busVars, rules, refused, handlers, target, owners, overtaken,
                   aborted>>

-----------------------------------------------------------------------------
(* Answers of the service and the daemon, dispatched by the event loop.    *)

Idle == ~aborted /\ ticks = <<>>

\* Introspect of r is answered.  Without an answer that parses, or without the
\* interface, the callback gets an error.  Interface.init of one with signals
\* registers, which throws if there is no connection to call on.
Introspected(r, found) ==
    /\ Idle
    /\ stage[r] \in {"introspecting", "orphaned"}
    /\ \/ ~found /\ CallBack(r) /\ UNCHANGED <<owners, ticks>>
       \/ /\ found
          /\ target[r] \notin Signalling
          /\ MoveTo(r, "ticking") /\ Queue("init", r)
          /\ UNCHANGED <<owners, answered>>
       \/ /\ found
          /\ target[r] \in Signalling
          /\ connected /\ up
          /\ MoveTo(r, "registering")
          /\ owners' = Append(owners, Registering(r, TRUE))
          /\ UNCHANGED <<ticks, answered>>
       \/ /\ found
          /\ target[r] \in Signalling
          /\ ~(connected /\ up)
          /\ MoveTo(r, "stuck")
          /\ UNCHANGED <<owners, ticks, answered>>
    /\ UNCHANGED <<busVars, rules, refused, interfaces, handlers, target,
                   overtaken, aborted>>

\* The daemon answers in order; what the replaced connection had queued may come
\* any time.
Answerable(i) == owners[i].old \/ \A j \in 1..(i - 1) : owners[j].old

\* Seeded faults: the first handler of a hash is kept; the rule is only added
\* when the signals are enabled the first time.
HandlerKept(h, r) == IF handlers[h] = None THEN r ELSE handlers[h]
RuleAddedOnce(k, accepted) ==
    IF accepted /\ rules = {} THEN {k} ELSE rules

\* signalHandlers[signalHash] = interfaceObj.
Handler(h, r) == r

\* What AddSignalFilter of key k leaves the daemon with: it takes the rule, or refuses
\* it, at a limit on rules for one.  (The general rule, which the first call adds, is
\* not needed by any interface; that it is refused shows in the same way.)
RulesWith(k, accepted) == IF accepted THEN rules \cup {k} ELSE rules

\* GetNameOwner of the i-th call is answered, with an error or not: the handler
\* is set and the rule is asked for on the connection the bus has by now.  Without
\* one AddSignalFilter aborts; on a lost one, or when it is refused, it throws, and
\* the callback it was given is not called.
OwnerKnown(i, accepted) ==
    /\ Idle
    /\ Answerable(i)
    /\ accepted => connected /\ up
    /\ owners' = RemoveAt(owners, i)
    /\ LET r == owners[i].iface
           k == target[r]
       IN  /\ handlers' = [handlers EXCEPT ![HashOf[k]] = Handler(HashOf[k], r)]
           /\ aborted' = ~connected
           /\ rules' = RulesWith(k, accepted)
           /\ refused' = IF accepted THEN refused \ {k}
                         ELSE IF connected /\ up THEN refused \cup {k} ELSE refused
           /\ IF ~owners[i].getting THEN UNCHANGED <<stage, ticks>>
              ELSE IF accepted
                   THEN MoveTo(r, "ticking") /\ Queue("filtered", r)
                   ELSE MoveTo(r, "stuck") /\ UNCHANGED ticks
    /\ UNCHANGED <<busVars, interfaces, target, answered, overtaken>>

\* The transport is lost.
Lose ==
    /\ up
    /\ losses < MaxLosses
    /\ up' = FALSE
    /\ losses' = losses + 1
    /\ UNCHANGED <<connected, renewals, reinit, rules, refused, interfaces, handlers,
                   target, stage, owners, ticks, answered, overtaken, aborted>>

\* A lost connection gives up a call: its callback is not called.
ForgetIntrospect(r) ==
    /\ stage[r] = "orphaned" \/ (stage[r] = "introspecting" /\ ~up)
    /\ MoveTo(r, "stuck")
    /\ UNCHANGED <<busVars, rules, refused, interfaces, handlers, target, owners,
                   ticks, answered, overtaken, aborted>>

ForgetOwner(i) ==
    /\ owners[i].old \/ ~up
    /\ owners' = RemoveAt(owners, i)
    /\ IF owners[i].getting THEN MoveTo(owners[i].iface, "stuck")
       ELSE UNCHANGED stage
    /\ UNCHANGED <<busVars, rules, refused, interfaces, handlers, target, ticks,
                   answered, overtaken, aborted>>

\* Disconnected, behind everything else the connection has received, reaches a
\* Bus that still is connected, and reconnects it.
DispatchDisconnected ==
    /\ Idle
    /\ connected /\ ~up
    /\ \A i \in DOMAIN owners : ~owners[i].getting
    /\ \A r \in Requests : stage[r] # "introspecting"
    /\ up' = TRUE /\ reinit' = FALSE
    /\ rules' = {} /\ refused' = {}
    /\ owners' = Reregistrations
    /\ overtaken' = {}
    /\ UNCHANGED <<connected, losses, renewals, interfaces, handlers, target, stage,
                   ticks, answered, aborted>>

\* A signal of key k arrives: the Interface object that emits it, if any.
Hears(k) == IF connected /\ up /\ k \in rules THEN handlers[HashOf[k]] ELSE None

-----------------------------------------------------------------------------
Next ==
    \/ \E r \in Requests :
        \/ \E k \in Keys : GetInterface(r, k)
        \/ \E found \in BOOLEAN : Introspected(r, found)
        \/ ForgetIntrospect(r)
    \/ \E i \in DOMAIN owners :
        \/ \E accepted \in BOOLEAN : OwnerKnown(i, accepted)
        \/ ForgetOwner(i)
    \/ Disconnect
    \/ Reconnect
    \/ DispatchDisconnected
    \/ RunTick
    \/ Lose

Spec == Init /\ [][Next]_vars

(***************************************************************************)
(* While the bus is connected its event loop runs: ticks are drained, what *)
(* was received is dispatched.  A remote call on a connection that is up   *)
(* is answered, by its timeout at the latest (CallAnswered of PendingCall), *)
(* as long as that connection was not initialized a second time, which may *)
(* leave it without a watch or a timer (EventLoop).                        *)
(***************************************************************************)
Answering == connected /\ ~reinit

Fairness ==
    /\ WF_vars(RunTick)
    /\ WF_vars(Answering /\ \E i \in DOMAIN owners, accepted \in BOOLEAN :
                    OwnerKnown(i, accepted))
    /\ \A r \in Requests :
        WF_vars(Answering /\ \E found \in BOOLEAN : Introspected(r, found))

FairSpec == Spec /\ Fairness

-----------------------------------------------------------------------------
(* Properties.                                                             *)

Usable == connected /\ up /\ ~aborted

\* While the bus is connected, the daemon has the match rule of every interface
\* of the cache that has signals, or a call that will ask for it is in flight:
\* through losses, reconnects and concurrent getInterface calls.  The exceptions:
\* the daemon refused the rule; the getInterface of the interface was in its last
\* ticks when the user's code reconnected a lost bus, so it was not in the cache
\* yet when that was gone through.
RuleKept ==
    Usable => \A r \in Cached : target[r] \in Signalling =>
        \/ target[r] \in rules
        \/ \E c \in ToSet(owners) : target[c.iface] = target[r] /\ ~c.old
        \/ target[r] \in refused
        \/ r \in overtaken

\* Of several Interface objects for one key the one in the cache, which later
\* calls of getInterface hand out, gets the signals, when nothing is in flight.
\* The exceptions: those of RuleKept, a refused rule because the handler is set
\* before it is asked for; an interface of another service with the same path and
\* name; the user's code called reconnect, whose registration of an older Interface
\* object may overtake a newer one.
LatestHears ==
    Usable /\ Idle /\ owners = <<>> /\ renewals = 0 =>
        \A r \in Cached : target[r] \in Signalling =>
            \/ Hears(target[r]) = r
            \/ target[r] \in refused
            \/ r \in overtaken
            \/ \E q \in Requests :
                  /\ target[q] \notin {None, target[r]}
                  /\ HashOf[target[q]] = HashOf[target[r]]

\* A call of getInterface whose remote call is in flight on the connection the
\* bus has, or that waits for a tick, is answered while that connection stays and
\* is not initialized again, unless the daemon refuses the rule of its interface.
Asking(r) ==
    \/ stage[r] \in {"introspecting", "ticking"}
    \/ \E c \in ToSet(owners) : c.iface = r /\ c.getting /\ ~c.old

Retrieved == \A r \in Requests : Asking(r) ~>
    \/ answered[r] > 0
    \/ stage[r] = "stuck" /\ target[r] \in refused
    \/ ~Usable \/ reinit

\* After a reconnect of a lost bus the rule of every interface with signals comes back,
\* unless the daemon refuses it.
Resubscribed ==
    \A r \in Requests : Usable /\ r \in Cached /\ target[r] \in Signalling ~>
        \/ target[r] \in rules \cup refused \/ r \in overtaken
        \/ ~Usable \/ reinit

\* The promise to the callers of getInterface, and how a request's stage and the cache
\* map to it.
RetrievalState(r) ==
    CASE stage[r] = "idle" -> "idle"
      [] stage[r] = "threw" -> "refused"
      [] stage[r] = "done" -> "answered"
      [] stage[r] = "stuck" -> "given up"
      [] OTHER -> "asked"

OneOf(S) == IF S = {} THEN None ELSE CHOOSE r \in S : TRUE

Contract == INSTANCE RetrievalContract WITH
    wanted <- target,
    state <- [r \in Requests |-> RetrievalState(r)],
    answers <- answered,
    object <- [k \in Keys |-> OneOf(CachedFor(k))]

\* Retrieval implements the contract, whatever is lost, replaced and registered again
\* in between: a request that was given up stays so, and no Interface object leaves the
\* cache but for a newer one of its key.
KeepsContract == Contract!Spec
=============================================================================
