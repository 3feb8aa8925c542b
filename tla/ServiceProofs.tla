--------------------------- MODULE ServiceProofs ---------------------------
(***************************************************************************)
(* Safety of Service for any services, paths, requests and answers.  What  *)
(* the user's code registers and creates does not depend on requests, so   *)
(* its invariant UserInv comes first: as long as messages of a connection  *)
(* are dispatched, a path registered there has its object, and a named     *)
(* service has one place in the map.  RequestInv, on top of it, counts     *)
(* replies and the references to messages.                                 *)
(***************************************************************************)
EXTENDS Service, FiniteSetTheorems, TLAPS

UserTypes ==
    /\ known \subseteq Services
    /\ serviceMap \in Seq(Services)
    /\ state \in [Conns -> States]
    /\ conn \in [Services -> Conns \cup {None}]
    /\ route \in [Conns -> Services \cup {None}]
    /\ named \subseteq Services
    /\ inUse \subseteq Services
    /\ objects \in [Services -> SUBSET Paths]
    /\ created \in [Services -> SUBSET Paths]
    /\ table \in [Conns -> SUBSET Paths]

\* An unused connection has no paths and no service, and a route leads to a service
\* that has the connection.
Linked ==
    /\ \A c \in Conns : state[c] = "unused" =>
        table[c] = {} /\ \A s \in Services : conn[s] # c
    /\ \A c \in Conns : route[c] # None => conn[route[c]] = c
    /\ \A s \in Services \ known : conn[s] = None

\* A path that is registered on a connection whose messages are dispatched has been
\* created by a service that still has its object, and has not left for another
\* connection.
Exposed ==
    /\ \A c \in Conns : state[c] \in {"up", "lost"} =>
        \A p \in table[c] : \E s \in known : p \in created[s] /\ conn[s] \in {c, None}
    /\ \A s \in Services : created[s] \subseteq objects[s]

\* The map has registered services only, and each named one at one place.
Mapped ==
    /\ known # {} => serviceMap # <<>>
    /\ \A i \in DOMAIN serviceMap : serviceMap[i] \in known
    /\ named \subseteq known \ Unnamed
    /\ \A s \in named : \E i \in DOMAIN serviceMap : serviceMap[i] = s
    /\ \A i, j \in DOMAIN serviceMap :
        serviceMap[i] = serviceMap[j] /\ serviceMap[i] \in named => i = j

UserInv == UserTypes /\ Linked /\ Exposed /\ Mapped

RequestTypes ==
    /\ request \in [Requests -> Request \cup {None}]
    /\ arrivedOn \in [Requests -> Conns \cup {None}]
    /\ stage \in [Requests -> Stages]
    /\ servedBy \in [Requests -> Services \cup {None}]
    /\ answers \in [Requests -> 0..MaxAnswers]
    /\ replies \in [Requests -> Nat]
    /\ refs \in [Requests -> Nat]
    /\ usedDead \in [Requests -> SUBSET {"message", "connection"}]
    /\ crashed \in Throwers

\* A request that was not dispatched has left no trace, one without a handler was
\* not answered, and a message is held by libdbus while MessageHandler runs and by
\* the reference kept for the reply.
HeldFor(r) ==
    /\ request[r] = None <=> stage[r] = "none"
    /\ request[r] = None => servedBy[r] = None /\ replies[r] = 0 /\ usedDead[r] = {}
    /\ request[r] # None => arrivedOn[r] \in Conns
    /\ servedBy[r] = None => answers[r] = 0
    /\ stage[r] = "dispatching" => refs[r] = 1 + Kept(request[r].noReply)
    /\ stage[r] = "dispatched" => refs[r] = Kept(request[r].noReply)

Held == \A r \in Requests : HeldFor(r)

RequestInv ==
    RequestTypes /\ Held /\ OneReplyEach /\ LiveIfExpected /\ CrashOnlyIfShared

-----------------------------------------------------------------------------
(* Services and objects.                                                   *)

\* A service that was never registered is stored once, without the services with
\* names losing their places.
LEMMA StoredOnce ==
    ASSUME UserInv, NEW s \in Services \ known
    PROVE  /\ Stored(s) \in Seq(Services)
           /\ Stored(s) # <<>>
           /\ \A i \in DOMAIN Stored(s) : Stored(s)[i] \in known \cup {s}
           /\ s \notin Unnamed => \E i \in DOMAIN Stored(s) : Stored(s)[i] = s
           /\ \A t \in named : \E i \in DOMAIN Stored(s) : Stored(s)[i] = t
           /\ \A i, j \in DOMAIN Stored(s) :
                Stored(s)[i] = Stored(s)[j]
                /\ Stored(s)[i] \in (named \cup {s}) \ Unnamed => i = j
<1>1. /\ serviceMap \in Seq(Services) /\ Len(serviceMap) \in Nat
      /\ DOMAIN serviceMap = 1..Len(serviceMap)
      /\ \A i \in 1..Len(serviceMap) : serviceMap[i] \in Services /\ serviceMap[i] \in known
      /\ named \subseteq known \ Unnamed
      /\ \A t \in named : \E i \in 1..Len(serviceMap) : serviceMap[i] = t
      /\ \A i, j \in 1..Len(serviceMap) :
            serviceMap[i] = serviceMap[j] /\ serviceMap[i] \in named => i = j
  BY DEF UserInv, UserTypes, Mapped
<1>2. CASE Stored(s) = Append(serviceMap, s)
  <2>1. /\ Stored(s) \in Seq(Services) /\ Stored(s) # <<>>
        /\ DOMAIN Stored(s) = 1..(Len(serviceMap) + 1)
        /\ \A i \in 1..Len(serviceMap) : Stored(s)[i] = serviceMap[i]
        /\ Stored(s)[Len(serviceMap) + 1] = s
    BY <1>1, <1>2
  <2>2. \A i \in DOMAIN Stored(s) : Stored(s)[i] \in known \cup {s}
    BY <1>1, <2>1
  <2>3. \A t \in named : \E i \in DOMAIN Stored(s) : Stored(s)[i] = t
    BY <1>1, <2>1
  <2>4. ASSUME NEW i \in DOMAIN Stored(s), NEW j \in DOMAIN Stored(s),
               Stored(s)[i] = Stored(s)[j], Stored(s)[i] \in (named \cup {s}) \ Unnamed
        PROVE  i = j
    BY <1>1, <2>1, <2>4
  <2>5. Len(serviceMap) + 1 \in DOMAIN Stored(s)
    BY <1>1, <2>1
  <2> QED BY <2>1, <2>2, <2>3, <2>4, <2>5
<1>3. CASE Stored(s) # Append(serviceMap, s)
  <2>1. /\ s \in Unnamed /\ \E u \in Unnamed : Contains(serviceMap, u)
        /\ Stored(s) = [i \in DOMAIN serviceMap |->
                            IF serviceMap[i] \in Unnamed THEN s ELSE serviceMap[i]]
    BY <1>3 DEF Stored
  <2>2. serviceMap # <<>>
    BY <1>1, <2>1 DEF Contains
  <2>3. /\ DOMAIN Stored(s) = 1..Len(serviceMap)
        /\ \A i \in 1..Len(serviceMap) :
            Stored(s)[i] = IF serviceMap[i] \in Unnamed THEN s ELSE serviceMap[i]
        /\ Stored(s) \in [1..Len(serviceMap) -> Services]
    BY <1>1, <2>1
  <2>4. Stored(s) \in Seq(Services) /\ Stored(s) # <<>>
    BY <1>1, <2>2, <2>3
  <2>5. \A i \in DOMAIN Stored(s) : Stored(s)[i] \in known \cup {s}
    BY <1>1, <2>3
  <2>6. \A t \in named : \E i \in DOMAIN Stored(s) : Stored(s)[i] = t
    BY <1>1, <2>3
  <2>7. ASSUME NEW i \in DOMAIN Stored(s), NEW j \in DOMAIN Stored(s),
               Stored(s)[i] = Stored(s)[j], Stored(s)[i] \in (named \cup {s}) \ Unnamed
        PROVE  i = j
    <3>1. Stored(s)[i] \in named /\ Stored(s)[i] # s
      BY <1>1, <2>1, <2>7
    <3>2. serviceMap[i] = Stored(s)[i] /\ serviceMap[j] = Stored(s)[j]
      BY <2>3, <2>7, <3>1
    <3> QED BY <1>1, <2>3, <2>7, <3>1, <3>2
  <2> QED BY <2>1, <2>4, <2>5, <2>6, <2>7
<1> QED BY <1>2, <1>3

\* Nothing was registered at first.
LEMMA InitUser == Init => UserInv
BY NoneAssumption DEF Init, UserInv, UserTypes, Linked, Exposed, Mapped, States

\* A new service gets the connection that is up, or a new one.
LEMMA ConnectLinks ==
    ASSUME UserTypes, Linked, Exposed, NEW s \in Services \ known, NEW c \in Conns,
           Connect(s, c), known' = known \cup {s}, UNCHANGED <<objects, created, table>>
    PROVE  /\ state' \in [Conns -> States]
           /\ conn' \in [Services -> Conns \cup {None}]
           /\ route' \in [Conns -> Services \cup {None}]
           /\ Linked' /\ Exposed'
<1> USE NoneAssumption
<1>1. /\ state[c] \in {"up", "unused"} /\ conn[s] = None /\ s \in Services
      /\ state' = [state EXCEPT ![c] = "up"]
      /\ conn' = [conn EXCEPT ![s] = c]
      /\ route' = [route EXCEPT ![c] = s]
  BY DEF Connect, Gets, Linked
<1>2. /\ state' \in [Conns -> States] /\ state'[c] = "up"
      /\ \A d \in Conns \ {c} : state'[d] = state[d]
      /\ conn' \in [Services -> Conns \cup {None}] /\ conn'[s] = c
      /\ \A t \in Services \ {s} : conn'[t] = conn[t]
      /\ route' \in [Conns -> Services \cup {None}] /\ route'[c] = s
      /\ \A d \in Conns \ {c} : route'[d] = route[d]
  BY <1>1 DEF UserTypes, States
<1>3. Linked'
  <2>1. \A d \in Conns : state'[d] = "unused" =>
            table'[d] = {} /\ \A t \in Services : conn'[t] # d
    BY <1>2 DEF Linked
  <2>2. ASSUME NEW d \in Conns, route'[d] # None PROVE conn'[route'[d]] = d
    <3>1. CASE d = c
      BY <1>2, <3>1
    <3>2. CASE d # c
      <4>1. route'[d] = route[d] /\ conn[route[d]] = d /\ route[d] \in Services
        BY <1>2, <2>2, <3>2 DEF Linked, UserTypes
      <4>2. route[d] # s
        BY <1>1, <4>1
      <4> QED BY <1>2, <4>1, <4>2
    <3> QED BY <3>1, <3>2
  <2>3. \A t \in Services \ known' : conn'[t] = None
    BY <1>2 DEF Linked
  <2> QED BY <2>1, <2>2, <2>3 DEF Linked
<1>4. Exposed'
  <2>1. ASSUME NEW d \in Conns, state'[d] \in {"up", "lost"}, NEW p \in table'[d]
        PROVE  \E t \in known' : p \in created'[t] /\ conn'[t] \in {d, None}
    <3>1. state[d] \in {"up", "lost"} /\ p \in table[d]
      BY <1>1, <1>2, <2>1 DEF Linked
    <3>2. PICK t \in known : p \in created[t] /\ conn[t] \in {d, None}
      BY <3>1 DEF Exposed
    <3>3. t \in Services \ {s}
      BY <3>2 DEF UserTypes
    <3> QED BY <1>2, <3>2, <3>3
  <2> QED BY <2>1 DEF Exposed
<1> QED BY <1>2, <1>3, <1>4

\* Registering a service, whether its name can be requested or not.
LEMMA RegisterUser ==
    ASSUME UserInv, NEW s \in Services, Register(s) \/ RegisterThrows(s)
    PROVE  UserInv'
<1>1. /\ UserTypes /\ Linked /\ Exposed /\ Mapped /\ s \notin known
      /\ known' = known \cup {s}
      /\ serviceMap' = Stored(s)
      /\ named' = named \/ (named' = named \cup {s} /\ s \notin Unnamed)
      /\ inUse' = inUse \/ inUse' = inUse \cup {s}
      /\ UNCHANGED <<objects, created, table>>
  BY DEF UserInv, Register, RegisterThrows
<1>2. PICK c \in Conns : Connect(s, c)
  BY DEF Register, RegisterThrows
<1>3. /\ serviceMap' \in Seq(Services) /\ serviceMap' # <<>>
      /\ \A i \in DOMAIN serviceMap' : serviceMap'[i] \in known \cup {s}
      /\ s \notin Unnamed => \E i \in DOMAIN serviceMap' : serviceMap'[i] = s
      /\ \A t \in named : \E i \in DOMAIN serviceMap' : serviceMap'[i] = t
      /\ \A i, j \in DOMAIN serviceMap' :
            serviceMap'[i] = serviceMap'[j]
            /\ serviceMap'[i] \in (named \cup {s}) \ Unnamed => i = j
  BY <1>1, StoredOnce
<1>4. /\ state' \in [Conns -> States]
      /\ conn' \in [Services -> Conns \cup {None}]
      /\ route' \in [Conns -> Services \cup {None}]
      /\ Linked' /\ Exposed'
  BY <1>1, <1>2, ConnectLinks
<1>5. UserTypes'
  BY <1>1, <1>3, <1>4 DEF UserTypes
<1>6. Mapped'
  BY <1>1, <1>3 DEF Mapped
<1> QED BY <1>4, <1>5, <1>6 DEF UserInv

\* The Bus that Disconnected is routed to leaves the connection, on which nothing
\* more is dispatched.
LEMMA DisconnectedUser ==
    ASSUME UserInv, NEW c \in Conns, DispatchDisconnected(c)
    PROVE  UserInv'
<1> USE NoneAssumption
<1>1. /\ UserTypes /\ Linked /\ Exposed /\ Mapped /\ state[c] = "lost"
      /\ UNCHANGED <<known, serviceMap, named, inUse, objects, created, table>>
  BY DEF UserInv, DispatchDisconnected
<1>2. CASE UNCHANGED connVars
  BY <1>1, <1>2 DEF connVars, UserInv, UserTypes, Linked, Exposed, Mapped
<1>3. CASE state' = [state EXCEPT ![c] = "noticed"] /\ UNCHANGED <<conn, route>>
  <2>1. UserTypes' /\ Linked' /\ Exposed'
    BY <1>1, <1>3 DEF UserTypes, States, Linked, Exposed
  <2> QED BY <1>1, <2>1 DEF UserInv, Mapped
<1>4. ASSUME NEW d \in Conns, Gets(d), route[c] # None,
             state' = [state EXCEPT ![c] = "noticed", ![d] = "up"],
             conn' = [conn EXCEPT ![route[c]] = d],
             route' = [route EXCEPT ![c] = None, ![d] = route[c]]
      PROVE  UserInv'
  <2> DEFINE b == route[c]
  <2>1. /\ b \in Services /\ b # None /\ conn[b] = c /\ d # c /\ state[d] \in {"up", "unused"}
    BY <1>1, <1>4 DEF UserTypes, Linked, Gets
  <2>2. /\ state' \in [Conns -> States] /\ state'[c] = "noticed" /\ state'[d] = "up"
        /\ \A e \in Conns \ {c, d} : state'[e] = state[e]
        /\ conn' \in [Services -> Conns \cup {None}] /\ conn'[b] = d
        /\ \A t \in Services \ {b} : conn'[t] = conn[t]
        /\ route' \in [Conns -> Services \cup {None}] /\ route'[c] = None /\ route'[d] = b
        /\ \A e \in Conns \ {c, d} : route'[e] = route[e]
    <3>1. /\ state' \in [Conns -> States] /\ state'[c] = "noticed" /\ state'[d] = "up"
          /\ \A e \in Conns \ {c, d} : state'[e] = state[e]
      BY <1>1, <1>4, <2>1 DEF UserTypes, States
    <3>2. /\ conn' \in [Services -> Conns \cup {None}] /\ conn'[b] = d
          /\ \A t \in Services \ {b} : conn'[t] = conn[t]
      BY <1>1, <1>4, <2>1 DEF UserTypes
    <3>3. /\ route' \in [Conns -> Services \cup {None}] /\ route'[c] = None /\ route'[d] = b
          /\ \A e \in Conns \ {c, d} : route'[e] = route[e]
      BY <1>1, <1>4, <2>1 DEF UserTypes
    <3> QED BY <3>1, <3>2, <3>3
  <2>3. UserTypes'
    BY <1>1, <2>2 DEF UserTypes
  <2>4. Linked'
    <3>1. \A e \in Conns : state'[e] = "unused" =>
              table'[e] = {} /\ \A t \in Services : conn'[t] # e
      BY <1>1, <2>1, <2>2 DEF Linked
    <3>2. ASSUME NEW e \in Conns, route'[e] # None PROVE conn'[route'[e]] = e
      <4>1. CASE e = d
        BY <2>2, <4>1
      <4>2. CASE e # d
        <5>1. e # c /\ route'[e] = route[e] /\ conn[route[e]] = e /\ route[e] \in Services
          BY <1>1, <2>2, <3>2, <4>2 DEF Linked, UserTypes
        <5>2. route[e] # b
          BY <2>1, <5>1
        <5> QED BY <2>2, <5>1, <5>2
      <4> QED BY <4>1, <4>2
    <3>3. b \in known
      BY <1>1, <2>1 DEF Linked
    <3>4. \A t \in Services \ known' : conn'[t] = None
      BY <1>1, <2>2, <3>3 DEF Linked
    <3> QED BY <3>1, <3>2, <3>4 DEF Linked
  <2>5. Exposed'
    <3>1. ASSUME NEW e \in Conns, state'[e] \in {"up", "lost"}, NEW p \in table'[e]
          PROVE  \E t \in known' : p \in created'[t] /\ conn'[t] \in {e, None}
      <4>1. e # c /\ state[e] \in {"up", "lost"} /\ p \in table[e]
        BY <1>1, <2>1, <2>2, <3>1 DEF Linked
      <4>2. PICK t \in known : p \in created[t] /\ conn[t] \in {e, None}
        BY <1>1, <4>1 DEF Exposed
      <4>3. t \in Services \ {b}
        BY <1>1, <2>1, <4>1, <4>2 DEF UserTypes
      <4> QED BY <1>1, <2>2, <4>2, <4>3
    <3> QED BY <1>1, <3>1 DEF Exposed
  <2>6. Mapped'
    BY <1>1 DEF Mapped
  <2> QED BY <2>3, <2>4, <2>5, <2>6 DEF UserInv
<1> QED BY <1>2, <1>3, <1>4 DEF DispatchDisconnected

\* An object is created or removed on the connection that its service has.
LEMMA ObjectUser ==
    ASSUME UserInv, NEW s \in Services, NEW p \in Paths,
           CreateObject(s, p) \/ RemoveObject(s, p)
    PROVE  UserInv'
<1> USE NoneAssumption
<1>1. /\ UserTypes /\ Linked /\ Exposed /\ Mapped
      /\ UNCHANGED <<known, serviceMap, state, conn, route, named, inUse>>
  BY DEF UserInv, CreateObject, RemoveObject, connVars
<1>2. Mapped'
  BY <1>1 DEF Mapped
<1>3. CASE /\ objects' = [objects EXCEPT ![s] = objects[s] \cup {p}]
           /\ UNCHANGED <<table, created>>
  <2>1. UserTypes' /\ Linked'
    BY <1>1, <1>3 DEF UserTypes, Linked
  <2>2. Exposed'
    BY <1>1, <1>3 DEF UserTypes, Exposed
  <2> QED BY <1>2, <2>1, <2>2 DEF UserInv
<1>4. CASE /\ conn[s] # None
           /\ objects' = [objects EXCEPT ![s] = objects[s] \cup {p}]
           /\ table' = [table EXCEPT ![conn[s]] = table[conn[s]] \cup {p}]
           /\ created' = [created EXCEPT ![s] = created[s] \cup {p}]
  <2>1. conn[s] \in Conns /\ s \in known /\ state[conn[s]] # "unused"
    BY <1>1, <1>4 DEF UserTypes, Linked
  <2>2. /\ table' \in [Conns -> SUBSET Paths] /\ created' \in [Services -> SUBSET Paths]
        /\ objects' \in [Services -> SUBSET Paths]
        /\ table'[conn[s]] = table[conn[s]] \cup {p}
        /\ \A c \in Conns \ {conn[s]} : table'[c] = table[c]
        /\ \A t \in Services : created[t] \subseteq created'[t]
        /\ p \in created'[s]
    BY <1>1, <1>4, <2>1 DEF UserTypes
  <2>3. UserTypes'
    BY <1>1, <2>2 DEF UserTypes
  <2>4. Linked'
    BY <1>1, <2>1, <2>2 DEF Linked
  <2>5. ASSUME NEW c \in Conns, state'[c] \in {"up", "lost"}, NEW q \in table'[c]
        PROVE  \E t \in known' : q \in created'[t] /\ conn'[t] \in {c, None}
    <3>1. CASE c = conn[s] /\ q = p
      BY <1>1, <2>1, <2>2, <3>1
    <3>2. CASE q \in table[c]
      <4>1. PICK t \in known : q \in created[t] /\ conn[t] \in {c, None}
        BY <1>1, <2>5, <3>2 DEF Exposed
      <4>2. t \in Services
        BY <1>1 DEF UserTypes
      <4> QED BY <1>1, <2>2, <4>1, <4>2
    <3> QED BY <2>2, <2>5, <3>1, <3>2
  <2>6. \A t \in Services : created'[t] \subseteq objects'[t]
    BY <1>1, <1>4 DEF UserTypes, Exposed
  <2> QED BY <1>2, <2>3, <2>4, <2>5, <2>6 DEF UserInv, Exposed
<1>5. CASE /\ conn[s] # None
           /\ objects' = [objects EXCEPT ![s] = objects[s] \ {p}]
           /\ table' = [table EXCEPT ![conn[s]] = table[conn[s]] \ {p}]
           /\ created' = [created EXCEPT ![s] = created[s] \ {p}]
  <2>1. conn[s] \in Conns
    BY <1>1, <1>5 DEF UserTypes
  <2>2. /\ table' \in [Conns -> SUBSET Paths] /\ created' \in [Services -> SUBSET Paths]
        /\ objects' \in [Services -> SUBSET Paths]
        /\ table'[conn[s]] = table[conn[s]] \ {p}
        /\ \A c \in Conns \ {conn[s]} : table'[c] = table[c]
        /\ \A t \in Services \ {s} : created'[t] = created[t]
        /\ created'[s] = created[s] \ {p}
    BY <1>1, <1>5, <2>1 DEF UserTypes
  <2>3. UserTypes'
    BY <1>1, <2>2 DEF UserTypes
  <2>4. Linked'
    BY <1>1, <2>1, <2>2 DEF Linked
  <2>5. ASSUME NEW c \in Conns, state'[c] \in {"up", "lost"}, NEW q \in table'[c]
        PROVE  \E t \in known' : q \in created'[t] /\ conn'[t] \in {c, None}
    <3>1. q \in table[c] /\ (c = conn[s] => q # p)
      BY <2>1, <2>2
    <3>2. PICK t \in known : q \in created[t] /\ conn[t] \in {c, None}
      BY <1>1, <2>5, <3>1 DEF Exposed
    <3>3. t \in Services
      BY <1>1 DEF UserTypes
    <3>4. t = s => c = conn[s]
      BY <1>5, <3>2
    <3>5. q \in created'[t]
      BY <2>2, <3>1, <3>2, <3>3, <3>4
    <3> QED BY <1>1, <3>2, <3>5
  <2>6. \A t \in Services : created'[t] \subseteq objects'[t]
    BY <1>1, <1>5 DEF UserTypes, Exposed
  <2> QED BY <1>2, <2>3, <2>4, <2>5, <2>6 DEF UserInv, Exposed
<1> QED BY <1>3, <1>4, <1>5 DEF CreateObject, Registers, RemoveObject

LEMMA NextUser == UserInv /\ [Next]_vars => UserInv'
<1> SUFFICES ASSUME UserInv, [Next]_vars PROVE UserInv'
  OBVIOUS
<1> USE NoneAssumption
<1>1. ASSUME NEW s \in Services, Register(s) \/ RegisterThrows(s) PROVE UserInv'
  BY <1>1, RegisterUser
<1>2. ASSUME NEW c \in Conns, DispatchDisconnected(c) PROVE UserInv'
  BY <1>2, DisconnectedUser
<1>3. ASSUME NEW s \in Services, RegisterAgain(s) PROVE UserInv'
  BY <1>3 DEF RegisterAgain, connVars, UserInv, UserTypes, Linked, Exposed, Mapped
<1>4. ASSUME NEW s \in Services, Disconnect(s) PROVE UserInv'
  <2>1. /\ UserTypes /\ Linked /\ Exposed /\ Mapped /\ conn[s] \in Conns
        /\ conn' = [conn EXCEPT ![s] = None]
        /\ route' = [route EXCEPT ![conn[s]] = None]
        /\ inUse' = inUse \ {s}
        /\ UNCHANGED <<known, serviceMap, state, named, objects, created, table>>
    BY <1>4 DEF Disconnect, UserInv, UserTypes
  <2>2. UserTypes'
    BY <2>1 DEF UserTypes
  <2>3. Linked'
    <3>1. /\ \A t \in Services : conn'[t] = IF t = s THEN None ELSE conn[t]
          /\ \A c \in Conns : route'[c] = IF c = conn[s] THEN None ELSE route[c]
      BY <2>1 DEF UserTypes
    <3>2. \A c \in Conns : route'[c] # None => conn'[route'[c]] = c
      BY <2>1, <3>1 DEF UserTypes, Linked
    <3> QED BY <2>1, <3>1, <3>2 DEF Linked
  <2>4. Exposed'
    <3>1. \A t \in known : conn'[t] \in {conn[t], None}
      BY <2>1 DEF UserTypes
    <3> QED BY <2>1, <3>1 DEF Exposed
  <2>5. Mapped'
    BY <2>1 DEF Mapped
  <2> QED BY <2>2, <2>3, <2>4, <2>5 DEF UserInv
<1>5. ASSUME NEW s \in Services, NEW p \in Paths, CreateObject(s, p) \/ RemoveObject(s, p)
      PROVE  UserInv'
  BY <1>5, ObjectUser
<1>6. ASSUME NEW c \in Conns, Lose(c) PROVE UserInv'
  <2>1. /\ UserTypes /\ Linked /\ Exposed /\ Mapped /\ state[c] = "up"
        /\ state' = [state EXCEPT ![c] = "lost"]
        /\ UNCHANGED <<known, serviceMap, conn, route, named, inUse, objects, created, table>>
    BY <1>6 DEF Lose, UserInv
  <2>2. UserTypes' /\ Linked' /\ Exposed'
    BY <2>1 DEF UserTypes, States, Linked, Exposed
  <2> QED BY <2>1, <2>2 DEF UserInv, Mapped
<1>7. ASSUME UNCHANGED userVars PROVE UserInv'
  BY <1>7 DEF userVars, connVars, UserInv, UserTypes, Linked, Exposed, Mapped
<1>8. ASSUME NEW r \in Requests, NEW q \in Request, NEW c \in Conns, Dispatch(r, q, c)
      PROVE  UserInv'
  BY <1>7, <1>8 DEF Dispatch
<1>9. ASSUME NEW r \in Requests, HandlerThrows(r) \/ EndDispatch(r) PROVE UserInv'
  BY <1>7, <1>9 DEF HandlerThrows, EndDispatch
<1>10. ASSUME NEW r \in Requests, NEW first \in BOOLEAN, Answer(r, first) PROVE UserInv'
  BY <1>7, <1>10 DEF Answer
<1>11. CASE UNCHANGED vars
  BY <1>7, <1>11 DEF vars
<1> QED
  BY <1>1, <1>2, <1>3, <1>4, <1>5, <1>6, <1>8, <1>9, <1>10, <1>11 DEF Next

THEOREM UserInvariant == Spec => []UserInv
BY InitUser, NextUser, PTL DEF Spec

\* A service whose name was requested stays in the map at one place, for any
\* services with and without names.
THEOREM NamedAreMapped == Spec => []NamedIsMapped
<1>1. UserInv => NamedIsMapped
  <2> SUFFICES ASSUME UserInv, NEW s \in named
               PROVE  Cardinality({i \in DOMAIN serviceMap : serviceMap[i] = s}) = 1
    BY DEF NamedIsMapped
  <2>1. PICK i \in DOMAIN serviceMap : serviceMap[i] = s
    BY DEF UserInv, Mapped
  <2>2. {j \in DOMAIN serviceMap : serviceMap[j] = s} = {i}
    BY <2>1 DEF UserInv, Mapped
  <2> QED BY <2>2, FS_Singleton
<1> QED BY <1>1, UserInvariant, PTL

-----------------------------------------------------------------------------
(* Requests.                                                               *)

\* No request was dispatched at first.
LEMMA InitRequest == Init => RequestInv
<1> SUFFICES ASSUME Init PROVE RequestInv
  OBVIOUS
<1>1. RequestTypes
  <2>1. /\ request \in [Requests -> Request \cup {None}]
        /\ arrivedOn \in [Requests -> Conns \cup {None}]
        /\ servedBy \in [Requests -> Services \cup {None}]
    BY DEF Init
  <2>2. stage \in [Requests -> Stages]
    BY DEF Init, Stages
  <2>3. answers \in [Requests -> 0..MaxAnswers]
    <3>1. 0 \in 0..MaxAnswers
      BY MaxAnswersAssumption
    <3> QED BY <3>1 DEF Init
  <2>4. replies \in [Requests -> Nat] /\ refs \in [Requests -> Nat]
    BY DEF Init
  <2>5. usedDead \in [Requests -> SUBSET {"message", "connection"}] /\ crashed \in Throwers
    BY DEF Init, Throwers
  <2> QED BY <2>1, <2>2, <2>3, <2>4, <2>5 DEF RequestTypes
<1>2. Held
  BY DEF Init, Held, HeldFor
<1>3. OneReplyEach
  BY DEF Init, OneReplyEach
<1>4. LiveIfExpected /\ CrashOnlyIfShared
  BY DEF Init, LiveIfExpected, CrashOnlyIfShared
<1> QED BY <1>1, <1>2, <1>3, <1>4 DEF RequestInv

\* A connection that was finalized is never used by a Bus again.
LEMMA StaysFinalized ==
    ASSUME UserInv, [Next]_vars, NEW c \in Conns, Finalized(c)
    PROVE  Finalized(c)'
<1> USE NoneAssumption
<1>1. /\ UserTypes /\ Linked /\ state[c] = "noticed" /\ \A s \in Services : conn[s] # c
  BY DEF UserInv, Finalized
<1>2. ASSUME UNCHANGED <<state, conn>> PROVE Finalized(c)'
  BY <1>1, <1>2 DEF Finalized
<1>3. ASSUME NEW s \in Services, Register(s) \/ RegisterThrows(s) PROVE Finalized(c)'
  <2>1. PICK d \in Conns : Connect(s, d)
    BY <1>3 DEF Register, RegisterThrows
  <2>2. d # c
    BY <1>1, <2>1 DEF Connect, Gets
  <2> QED BY <1>1, <2>1, <2>2 DEF Connect, Finalized, UserTypes
<1>4. ASSUME NEW s \in Services, Disconnect(s) PROVE Finalized(c)'
  <2>1. state' = state /\ conn' = [conn EXCEPT ![s] = None]
    BY <1>4 DEF Disconnect
  <2>2. \A t \in Services : conn'[t] # c
    BY <1>1, <2>1 DEF UserTypes
  <2> QED BY <1>1, <2>1, <2>2 DEF Finalized
<1>5. ASSUME NEW d \in Conns, Lose(d) PROVE Finalized(c)'
  BY <1>1, <1>5 DEF Lose, Finalized, UserTypes
<1>6. ASSUME NEW d \in Conns, DispatchDisconnected(d) PROVE Finalized(c)'
  <2>1. CASE UNCHANGED connVars
    BY <1>2, <2>1 DEF connVars
  <2>2. CASE state' = [state EXCEPT ![d] = "noticed"] /\ UNCHANGED conn
    BY <1>1, <2>2 DEF Finalized, UserTypes
  <2>3. ASSUME NEW e \in Conns, Gets(e),
               state' = [state EXCEPT ![d] = "noticed", ![e] = "up"],
               conn' = [conn EXCEPT ![route[d]] = e]
        PROVE  Finalized(c)'
    <3>1. e # c
      BY <1>1, <2>3 DEF Gets
    <3>2. state'[c] = "noticed"
      BY <1>1, <2>3, <3>1 DEF UserTypes
    <3>3. \A t \in Services : conn'[t] # c
      BY <1>1, <2>3, <3>1 DEF UserTypes
    <3> QED BY <3>2, <3>3 DEF Finalized
  <2> QED BY <1>6, <2>1, <2>2, <2>3 DEF DispatchDisconnected
<1>7. ASSUME NEW s \in Services, NEW p \in Paths, CreateObject(s, p) \/ RemoveObject(s, p)
      PROVE  Finalized(c)'
  BY <1>2, <1>7 DEF CreateObject, RemoveObject, connVars
<1>8. ASSUME UNCHANGED userVars PROVE Finalized(c)'
  BY <1>2, <1>8 DEF userVars, connVars
<1>9. ASSUME NEW r \in Requests, NEW q \in Request, NEW d \in Conns, Dispatch(r, q, d)
      PROVE  Finalized(c)'
  BY <1>8, <1>9 DEF Dispatch
<1>10. ASSUME NEW r \in Requests, NEW first \in BOOLEAN, Answer(r, first)
       PROVE  Finalized(c)'
  BY <1>8, <1>10 DEF Answer
<1>11. CASE UNCHANGED vars
  BY <1>8, <1>11 DEF vars
<1>12. ASSUME NEW s \in Services, RegisterAgain(s) PROVE Finalized(c)'
  BY <1>2, <1>12 DEF RegisterAgain, connVars
<1>13. ASSUME NEW r \in Requests, HandlerThrows(r) \/ EndDispatch(r) PROVE Finalized(c)'
  BY <1>8, <1>13 DEF HandlerThrows, EndDispatch
<1> QED
  BY <1>3, <1>4, <1>5, <1>6, <1>7, <1>9, <1>10, <1>11, <1>12, <1>13 DEF Next

\* A reply function sends one reply, or none to a NO_REPLY request, and uses what is
\* dead for that request.
LEMMA SendsOne ==
    ASSUME RequestTypes, NEW r \in Requests, SendError(r) \/ SendReturn(r)
    PROVE  /\ replies' \in [Requests -> Nat]
           /\ \A q \in Requests \ {r} : replies'[q] = replies[q]
           /\ replies'[r] \in {replies[r], replies[r] + 1}
           /\ ~request[r].noReply => replies'[r] = replies[r] + 1
           /\ usedDead' \in [Requests -> SUBSET {"message", "connection"}]
           /\ \A q \in Requests \ {r} : usedDead'[q] = usedDead[q]
           /\ usedDead'[r] \subseteq usedDead[r] \cup Dead(r)
<1>1. Dead(r) \subseteq {"message", "connection"}
  BY DEF Dead
<1>2. ASSUME SendError(r)
      PROVE  /\ replies' = [replies EXCEPT ![r] = replies[r] + 1]
             /\ usedDead' = [usedDead EXCEPT ![r] = usedDead[r] \cup Dead(r)]
  BY <1>2 DEF SendError
<1>3. CASE SendError(r)
  BY <1>1, <1>2, <1>3 DEF RequestTypes
<1>4. CASE request[r].noReply /\ UNCHANGED replies
           /\ usedDead' = [usedDead EXCEPT ![r] = usedDead[r] \cup (Dead(r) \ {"connection"})]
  BY <1>1, <1>4 DEF RequestTypes
<1> QED BY <1>3, <1>4 DEF SendReturn

\* The service whose method is called is one of the map; a dispatcher that throws
\* has met a disconnected service, or misses the object of another one.
LEMMA Dispatched ==
    ASSUME UserInv, RequestTypes, NEW r \in Requests, NEW q \in Request, NEW c \in Conns,
           Dispatch(r, q, c)
    PROVE  /\ crashed' \in Throwers
           /\ CrashOnlyIfShared'
           /\ \/ SendNothing /\ UNCHANGED servedBy
              \/ SendError(r) /\ UNCHANGED servedBy
              \/ SendNothing /\ \E s \in Services : servedBy' = [servedBy EXCEPT ![r] = s]
<1> USE NoneAssumption
<1>1. /\ UserTypes /\ Exposed /\ Mapped /\ UNCHANGED userVars /\ crashed = "none"
      /\ state[c] \in {"up", "lost"} /\ q.path \in table[c]
  BY DEF Dispatch, UserInv, Running
<1>2. PICK t \in known : q.path \in created[t] /\ conn[t] \in {c, None}
  BY <1>1 DEF Exposed
<1>3. t \in Services /\ q.path \in objects[t]
  BY <1>1, <1>2 DEF UserTypes, Exposed
<1>4. CASE SendNothing /\ UNCHANGED servedBy /\ crashed' \in {crashed, "native"}
  BY <1>1, <1>4 DEF Throwers, CrashOnlyIfShared
<1>5. ASSUME NEW i \in DOMAIN serviceMap, StopsAt(c, i), Throws(q, i),
             crashed' = "dispatcher", SendNothing, UNCHANGED servedBy
      PROVE  /\ crashed' \in Throwers /\ CrashOnlyIfShared'
             /\ SendNothing /\ UNCHANGED servedBy
  <2>1. UNCHANGED <<known, serviceMap, conn, objects>>
    BY <1>1 DEF userVars, connVars
  <2>2. serviceMap[i] \in known /\ conn[serviceMap[i]] \in {c, None}
    BY <1>1, <1>5 DEF Mapped, StopsAt
  <2>3. CASE conn[serviceMap[i]] = None
    BY <1>5, <2>1, <2>3 DEF Throwers, CrashOnlyIfShared
  <2>4. CASE conn[serviceMap[i]] = c /\ q.path \notin objects[serviceMap[i]]
    <3>1. /\ serviceMap[i] # t /\ conn[serviceMap[i]] # None /\ objects[t] # {}
          /\ conn[t] \in {conn[serviceMap[i]], None}
      BY <1>2, <1>3, <2>4
    <3>2. CrashOnlyIfShared'
      BY <1>2, <2>1, <2>2, <3>1 DEF CrashOnlyIfShared
    <3> QED BY <1>5, <3>2 DEF Throwers
  <2> QED BY <1>5, <2>2, <2>3, <2>4 DEF Throws
<1>6. ASSUME NEW i \in DOMAIN serviceMap, ErrorReplies(r, q), UNCHANGED <<servedBy, crashed>>
      PROVE  /\ crashed' \in Throwers /\ CrashOnlyIfShared'
             /\ SendError(r) /\ UNCHANGED servedBy
  BY <1>1, <1>6 DEF Throwers, CrashOnlyIfShared, ErrorReplies
<1>7. ASSUME NEW i \in DOMAIN serviceMap, servedBy' = [servedBy EXCEPT ![r] = serviceMap[i]],
             SendNothing, UNCHANGED crashed
      PROVE  /\ crashed' \in Throwers /\ CrashOnlyIfShared' /\ SendNothing
             /\ \E s \in Services : servedBy' = [servedBy EXCEPT ![r] = s]
  <2>1. serviceMap[i] \in Services
    BY <1>1 DEF UserTypes
  <2> QED BY <1>1, <1>7, <2>1 DEF Throwers, CrashOnlyIfShared
<1> QED BY <1>4, <1>5, <1>6, <1>7 DEF Dispatch

LEMMA DispatchRequest ==
    ASSUME UserInv, RequestInv, NEW r \in Requests, NEW q \in Request, NEW c \in Conns,
           Dispatch(r, q, c)
    PROVE  RequestInv'
<1> USE NoneAssumption, NoRequestAssumption
<1>1. /\ RequestTypes /\ Held /\ OneReplyEach /\ LiveIfExpected
      /\ request[r] = None /\ q # None /\ state[c] # "noticed"
      /\ request' = [request EXCEPT ![r] = q]
      /\ arrivedOn' = [arrivedOn EXCEPT ![r] = c]
      /\ stage' = [stage EXCEPT ![r] = "dispatching"]
      /\ refs' = [refs EXCEPT ![r] = 1 + Kept(q.noReply)]
      /\ UNCHANGED <<userVars, answers>>
  BY DEF RequestInv, Dispatch
<1>2. /\ stage[r] = "none" /\ servedBy[r] = None /\ answers[r] = 0 /\ replies[r] = 0
      /\ usedDead[r] = {}
  BY <1>1 DEF Held, HeldFor
<1>3. /\ crashed' \in Throwers /\ CrashOnlyIfShared'
      /\ \/ SendNothing /\ UNCHANGED servedBy
         \/ SendError(r) /\ UNCHANGED servedBy
         \/ SendNothing /\ \E s \in Services : servedBy' = [servedBy EXCEPT ![r] = s]
  BY <1>1, Dispatched
<1>4. Kept(q.noReply) \in {0, 1}
  BY DEF Kept
<1>5. /\ request' \in [Requests -> Request \cup {None}]
      /\ arrivedOn' \in [Requests -> Conns \cup {None}]
      /\ stage' \in [Requests -> Stages]
      /\ refs' \in [Requests -> Nat]
      /\ answers' \in [Requests -> 0..MaxAnswers]
      /\ \A p \in Requests \ {r} :
            /\ request'[p] = request[p] /\ stage'[p] = stage[p] /\ refs'[p] = refs[p]
            /\ answers'[p] = answers[p] /\ arrivedOn'[p] = arrivedOn[p]
      /\ request'[r] = q /\ stage'[r] = "dispatching" /\ refs'[r] = 1 + Kept(q.noReply)
      /\ answers'[r] = 0 /\ refs'[r] # 0 /\ arrivedOn'[r] = c
  BY <1>1, <1>2, <1>4 DEF RequestTypes, Stages
<1>6. /\ servedBy' \in [Requests -> Services \cup {None}]
      /\ \A p \in Requests \ {r} : servedBy'[p] = servedBy[p]
  BY <1>1, <1>3 DEF RequestTypes
<1>7. /\ replies' \in [Requests -> Nat]
      /\ \A p \in Requests \ {r} : replies'[p] = replies[p]
      /\ replies'[r] \in {0, 1}
      /\ servedBy'[r] # None => replies'[r] = 0
      /\ usedDead' \in [Requests -> SUBSET {"message", "connection"}]
      /\ \A p \in Requests \ {r} : usedDead'[p] = usedDead[p]
      /\ usedDead'[r] = {}
  <2>1. CASE SendNothing
    BY <1>1, <1>2, <2>1 DEF SendNothing, RequestTypes
  <2>2. CASE SendError(r) /\ UNCHANGED servedBy
    <3>1. /\ replies' \in [Requests -> Nat]
          /\ \A p \in Requests \ {r} : replies'[p] = replies[p]
          /\ replies'[r] \in {replies[r], replies[r] + 1}
          /\ usedDead' \in [Requests -> SUBSET {"message", "connection"}]
          /\ \A p \in Requests \ {r} : usedDead'[p] = usedDead[p]
          /\ usedDead'[r] \subseteq usedDead[r] \cup Dead(r)
      BY <1>1, <2>2, SendsOne
    <3>2. Dead(r) = {}
      BY <1>1, <1>5 DEF Dead, Finalized
    <3> QED BY <1>2, <2>2, <3>1, <3>2
  <2> QED BY <1>3, <2>1, <2>2
<1>8. RequestTypes'
  BY <1>3, <1>5, <1>6, <1>7 DEF RequestTypes
<1>9. Held'
  <2>1. ASSUME NEW p \in Requests \ {r} PROVE HeldFor(p)'
    BY <1>1, <1>5, <1>6, <1>7, <2>1 DEF Held, HeldFor
  <2>2. HeldFor(r)'
    BY <1>1, <1>5, <1>6, <1>7 DEF HeldFor
  <2> QED BY <2>1, <2>2 DEF Held
<1>10. OneReplyEach'
  BY <1>1, <1>5, <1>6, <1>7 DEF OneReplyEach
<1>11. LiveIfExpected'
  <2>1. UNCHANGED <<state, conn>>
    BY <1>1 DEF userVars, connVars
  <2>2. ASSUME NEW p \in Requests \ {r}
        PROVE  /\ "message" \in usedDead'[p] => servedBy'[p] # None /\ request'[p].noReply
               /\ "connection" \in usedDead'[p] =>
                    servedBy'[p] # None /\ Finalized(arrivedOn[p])' /\ arrivedOn'[p] = arrivedOn[p]
    BY <1>1, <1>5, <1>6, <1>7, <2>1 DEF LiveIfExpected, Finalized
  <2> QED BY <1>5, <1>7, <2>1, <2>2 DEF LiveIfExpected, Finalized
<1> QED BY <1>3, <1>8, <1>9, <1>10, <1>11 DEF RequestInv

LEMMA EndDispatchRequest ==
    ASSUME RequestInv, NEW r \in Requests, EndDispatch(r)
    PROVE  RequestInv'
<1>1. /\ RequestTypes /\ Held /\ OneReplyEach /\ LiveIfExpected /\ crashed = "none"
      /\ stage[r] = "dispatching"
      /\ stage' = [stage EXCEPT ![r] = "dispatched"]
      /\ refs' = [refs EXCEPT ![r] = refs[r] - 1]
      /\ UNCHANGED <<userVars, request, arrivedOn, servedBy, answers, replies, usedDead,
                     crashed>>
  BY DEF RequestInv, EndDispatch, Running
<1>2. refs[r] - 1 = Kept(request[r].noReply) /\ Kept(request[r].noReply) \in Nat
  BY <1>1 DEF Held, HeldFor, Kept, RequestTypes
<1>3. RequestTypes'
  BY <1>1, <1>2 DEF RequestTypes, Stages
<1>4. Held'
  <2>1. ASSUME NEW p \in Requests \ {r} PROVE HeldFor(p)'
    BY <1>1, <2>1 DEF Held, HeldFor, RequestTypes
  <2>2. HeldFor(r)'
    BY <1>1, <1>2 DEF Held, HeldFor, RequestTypes
  <2> QED BY <2>1, <2>2 DEF Held
<1>5. OneReplyEach' /\ CrashOnlyIfShared'
  BY <1>1 DEF OneReplyEach, CrashOnlyIfShared
<1>6. LiveIfExpected'
  BY <1>1 DEF LiveIfExpected, Finalized, userVars, connVars
<1> QED BY <1>3, <1>4, <1>5, <1>6 DEF RequestInv

LEMMA AnswerRequest ==
    ASSUME RequestInv, NEW r \in Requests, NEW first \in BOOLEAN, Answer(r, first)
    PROVE  RequestInv'
<1> USE MaxAnswersAssumption
<1>1. /\ RequestTypes /\ Held /\ OneReplyEach /\ LiveIfExpected /\ crashed = "none"
      /\ servedBy[r] # None /\ answers[r] < MaxAnswers
      /\ answers' = [answers EXCEPT ![r] = answers[r] + 1]
      /\ UNCHANGED <<userVars, request, arrivedOn, stage, servedBy, refs, crashed>>
      /\ SendError(r) \/ SendReturn(r)
  BY DEF RequestInv, Answer, Running
<1>2. /\ replies' \in [Requests -> Nat]
      /\ \A q \in Requests \ {r} : replies'[q] = replies[q]
      /\ replies'[r] \in {replies[r], replies[r] + 1}
      /\ ~request[r].noReply => replies'[r] = replies[r] + 1
      /\ usedDead' \in [Requests -> SUBSET {"message", "connection"}]
      /\ \A q \in Requests \ {r} : usedDead'[q] = usedDead[q]
      /\ usedDead'[r] \subseteq usedDead[r] \cup Dead(r)
  BY <1>1, SendsOne
<1>3. /\ request[r] # None /\ stage[r] # "none" /\ stage[r] \in Stages
      /\ answers[r] \in Nat /\ replies[r] \in Nat
  BY <1>1 DEF Held, HeldFor, RequestTypes
<1>4. /\ answers' \in [Requests -> 0..MaxAnswers]
      /\ \A q \in Requests \ {r} : answers'[q] = answers[q]
      /\ answers'[r] = answers[r] + 1
  BY <1>1, <1>3 DEF RequestTypes
<1>5. RequestTypes'
  BY <1>1, <1>2, <1>4 DEF RequestTypes
<1>6. Held'
  <2>1. ASSUME NEW p \in Requests \ {r} PROVE HeldFor(p)'
    BY <1>1, <1>2, <1>4, <2>1 DEF Held, HeldFor
  <2>2. HeldFor(r)'
    BY <1>1, <1>2, <1>3, <1>4 DEF Held, HeldFor
  <2> QED BY <2>1, <2>2 DEF Held
<1>7. OneReplyEach'
  <2>1. ASSUME NEW q \in Requests \ {r}, request'[q] # None
        PROVE  IF servedBy'[q] = None THEN replies'[q] <= 1
               ELSE IF request'[q].noReply THEN replies'[q] <= answers'[q]
               ELSE replies'[q] = answers'[q]
    BY <1>1, <1>2, <1>4, <2>1 DEF OneReplyEach
  <2>2. IF request[r].noReply THEN replies[r] <= answers[r] ELSE replies[r] = answers[r]
    BY <1>1, <1>3 DEF OneReplyEach
  <2>3. IF request'[r].noReply THEN replies'[r] <= answers'[r]
        ELSE replies'[r] = answers'[r]
    BY <1>1, <1>2, <1>3, <1>4, <2>2
  <2>4. servedBy'[r] # None
    BY <1>1
  <2> QED BY <2>1, <2>3, <2>4 DEF OneReplyEach
<1>8. LiveIfExpected'
  <2>1. refs[r] = 0 => request[r].noReply
    BY <1>1, <1>3 DEF Held, HeldFor, Kept, Stages
  <2>2. UNCHANGED <<state, conn, servedBy, request, arrivedOn, refs>>
    BY <1>1 DEF userVars, connVars
  <2>3. \A q \in Requests : Finalized(arrivedOn[q]) <=> Finalized(arrivedOn[q])'
    BY <2>2 DEF Finalized
  <2>4. /\ "message" \in Dead(r) => refs[r] = 0
        /\ "connection" \in Dead(r) => Finalized(arrivedOn[r])
    BY <2>2 DEF Dead
  <2> QED BY <1>1, <1>2, <2>1, <2>2, <2>3, <2>4 DEF LiveIfExpected
<1>9. CrashOnlyIfShared'
  BY <1>1 DEF CrashOnlyIfShared
<1> QED BY <1>5, <1>6, <1>7, <1>8, <1>9 DEF RequestInv

\* Steps that leave the requests alone; a throw ends the process.
LEMMA QuietRequest ==
    ASSUME UserInv, RequestInv, [Next]_vars, UNCHANGED requestVars, crashed = "none",
           crashed' \in Throwers \ {"dispatcher"}
    PROVE  RequestInv'
<1>1. /\ RequestTypes /\ Held /\ OneReplyEach /\ LiveIfExpected
      /\ UNCHANGED <<request, arrivedOn, stage, servedBy, answers, replies, refs, usedDead>>
  BY DEF RequestInv, requestVars
<1>2. RequestTypes' /\ Held' /\ OneReplyEach' /\ CrashOnlyIfShared'
  BY <1>1 DEF RequestTypes, Held, HeldFor, OneReplyEach, CrashOnlyIfShared
<1>3. ASSUME NEW r \in Requests, "connection" \in usedDead[r]
      PROVE  Finalized(arrivedOn[r])'
  <2>1. arrivedOn[r] \in Conns /\ Finalized(arrivedOn[r])
    BY <1>1, <1>3 DEF RequestTypes, Held, HeldFor, LiveIfExpected
  <2>2. PICK c \in Conns : c = arrivedOn[r] /\ Finalized(c)
    BY <2>1
  <2>3. Finalized(c)'
    BY <2>2, StaysFinalized
  <2> QED BY <1>1, <2>2, <2>3
<1>4. LiveIfExpected'
  BY <1>1, <1>3 DEF LiveIfExpected
<1> QED BY <1>2, <1>4 DEF RequestInv

\* Every step preserves what is said of requests.
LEMMA NextRequest == UserInv /\ RequestInv /\ [Next]_vars => RequestInv'
<1> SUFFICES ASSUME UserInv, RequestInv, [Next]_vars PROVE RequestInv'
  OBVIOUS
<1>1. ASSUME UNCHANGED requestVars, UNCHANGED crashed, crashed = "none" PROVE RequestInv'
  BY <1>1, QuietRequest DEF Throwers
<1>2. ASSUME NEW s \in Services,
             Register(s) \/ RegisterThrows(s) \/ RegisterAgain(s) \/ Disconnect(s)
      PROVE  RequestInv'
  BY <1>1, <1>2 DEF Register, RegisterThrows, RegisterAgain, Disconnect, Running
<1>3. ASSUME NEW s \in Services, NEW p \in Paths, CreateObject(s, p) \/ RemoveObject(s, p)
      PROVE  RequestInv'
  BY <1>1, <1>3 DEF CreateObject, RemoveObject, Running
<1>4. ASSUME NEW c \in Conns, Lose(c) \/ DispatchDisconnected(c) PROVE RequestInv'
  <2>1. /\ UNCHANGED requestVars /\ crashed = "none" /\ crashed' \in {"none", "reconnect"}
    BY <1>4 DEF Lose, DispatchDisconnected, Running
  <2> QED BY <2>1, QuietRequest DEF Throwers
<1>5. ASSUME NEW r \in Requests, HandlerThrows(r) PROVE RequestInv'
  BY <1>5, QuietRequest DEF HandlerThrows, Running, Throwers
<1>6. ASSUME NEW r \in Requests, NEW q \in Request, NEW c \in Conns, Dispatch(r, q, c)
      PROVE  RequestInv'
  BY <1>6, DispatchRequest
<1>7. ASSUME NEW r \in Requests, EndDispatch(r) PROVE RequestInv'
  BY <1>7, EndDispatchRequest
<1>8. ASSUME NEW r \in Requests, NEW first \in BOOLEAN, Answer(r, first) PROVE RequestInv'
  BY <1>8, AnswerRequest
<1>9. CASE UNCHANGED vars
  <2>1. UNCHANGED <<userVars, requestVars, crashed>>
    BY <1>9 DEF vars
  <2>2. RequestTypes' /\ Held' /\ OneReplyEach' /\ LiveIfExpected' /\ CrashOnlyIfShared'
    BY <2>1 DEF userVars, connVars, requestVars, RequestInv, RequestTypes, Held, HeldFor,
                OneReplyEach, LiveIfExpected, Finalized, CrashOnlyIfShared
  <2> QED BY <2>2 DEF RequestInv
<1> QED BY <1>2, <1>3, <1>4, <1>5, <1>6, <1>7, <1>8, <1>9 DEF Next

-----------------------------------------------------------------------------
(* Before any connection is lost there is at most one, and what services    *)
(* have created is registered there, each path by one of them.              *)
Calm == \A c \in Conns : state[c] \in {"unused", "up"}

SoleOwner ==
    Calm =>
        /\ \A c, d \in Conns : state[c] = "up" /\ state[d] = "up" => c = d
        /\ \A s \in Services : created[s] # {} => \E c \in Conns : state[c] = "up"
        /\ \A s \in Services, c \in Conns : state[c] = "up" => created[s] \subseteq table[c]
        /\ \A s, t \in Services : s # t => created[s] \cap created[t] = {}

\* A Bus that gets a connection gets the one there is, or the first.
LEMMA ConnectKeepsSole ==
    ASSUME UserInv, SoleOwner, NEW s \in Services, NEW c \in Conns, Connect(s, c),
           UNCHANGED <<created, table>>
    PROVE  SoleOwner'
<1> SUFFICES ASSUME Calm' PROVE SoleOwner'
  BY DEF SoleOwner
<1>1. state \in [Conns -> States] /\ state' = [state EXCEPT ![c] = "up"] /\ Gets(c)
  BY DEF UserInv, UserTypes, Connect
<1>2. \A d \in Conns : state'[d] = IF d = c THEN "up" ELSE state[d]
  BY <1>1
<1>3. Calm
  BY <1>1, <1>2 DEF Calm, Gets
<1>4. CASE state[c] = "up"
  BY <1>2, <1>3, <1>4 DEF SoleOwner
<1>5. CASE \A d \in Conns : state[d] # "up"
  BY <1>2, <1>3, <1>5 DEF SoleOwner
<1> QED BY <1>1, <1>4, <1>5 DEF Gets

\* createObject and removeObject change both sides alike.
LEMMA ObjectKeepsSole ==
    ASSUME UserInv, SoleOwner, NEW s \in Services, NEW p \in Paths,
           CreateObject(s, p) \/ RemoveObject(s, p)
    PROVE  SoleOwner'
<1> SUFFICES ASSUME Calm PROVE SoleOwner'
  BY DEF SoleOwner, Calm, CreateObject, RemoveObject, connVars
<1>1. /\ state \in [Conns -> States] /\ conn \in [Services -> Conns \cup {None}]
      /\ created \in [Services -> SUBSET Paths] /\ table \in [Conns -> SUBSET Paths]
      /\ state' = state /\ conn' = conn
  BY DEF UserInv, UserTypes, CreateObject, RemoveObject, connVars
<1>2. /\ \A c, d \in Conns : state[c] = "up" /\ state[d] = "up" => c = d
      /\ \A t \in Services, c \in Conns : state[c] = "up" => created[t] \subseteq table[c]
      /\ \A t, u \in Services : t # u => created[t] \cap created[u] = {}
      /\ \A t \in Services : created[t] # {} => \E c \in Conns : state[c] = "up"
  BY DEF SoleOwner
<1>3. conn[s] # None => conn[s] \in Conns /\ state[conn[s]] = "up"
  BY <1>1 DEF UserInv, Linked, Calm
<1>4. CASE UNCHANGED <<created, table>>
  BY <1>1, <1>2, <1>4 DEF SoleOwner
<1>5. CASE /\ Registers(s, p)
           /\ table' = [table EXCEPT ![conn[s]] = @ \cup {p}]
           /\ created' = [created EXCEPT ![s] = @ \cup {p}]
  <2>1. conn[s] \in Conns /\ state[conn[s]] = "up" /\ p \notin table[conn[s]]
    BY <1>3, <1>5 DEF Registers
  <2>2. /\ \A t \in Services : created'[t] = IF t = s THEN created[t] \cup {p} ELSE created[t]
        /\ \A c \in Conns : state[c] = "up" => table'[c] = table[c] \cup {p}
    BY <1>1, <1>2, <1>5, <2>1
  <2>3. \A t \in Services : p \notin created[t]
    BY <1>2, <2>1
  <2>4. \A t \in Services, c \in Conns : state[c] = "up" => created'[t] \subseteq table'[c]
    BY <1>2, <2>2
  <2>5. ASSUME NEW t \in Services, NEW u \in Services, t # u
        PROVE  created'[t] \cap created'[u] = {}
    <3>1. created[t] \cap created[u] = {} /\ p \notin created[t] /\ p \notin created[u]
      BY <1>2, <2>3, <2>5
    <3>2. /\ created'[t] = IF t = s THEN created[t] \cup {p} ELSE created[t]
          /\ created'[u] = IF u = s THEN created[u] \cup {p} ELSE created[u]
      BY <2>2
    <3> QED BY <2>5, <3>1, <3>2
  <2> QED BY <1>1, <1>2, <2>1, <2>4, <2>5 DEF SoleOwner
<1>6. CASE RemoveObject(s, p)
  <2>1. /\ conn[s] \in Conns /\ state[conn[s]] = "up" /\ p \in created[s]
        /\ table' = [table EXCEPT ![conn[s]] = @ \ {p}]
        /\ created' = [created EXCEPT ![s] = @ \ {p}]
    BY <1>3, <1>6 DEF RemoveObject
  <2>2. /\ \A t \in Services : created'[t] = IF t = s THEN created[t] \ {p} ELSE created[t]
        /\ \A c \in Conns : state[c] = "up" => table'[c] = table[c] \ {p}
    BY <1>1, <1>2, <2>1
  <2>3. \A t \in Services : t # s => p \notin created[t]
    BY <1>2, <2>1
  <2> QED BY <1>1, <1>2, <2>1, <2>2, <2>3 DEF SoleOwner
<1> QED BY <1>4, <1>5, <1>6 DEF CreateObject

LEMMA InitSole == Init => SoleOwner
BY DEF Init, SoleOwner

LEMMA NextSole == UserInv /\ SoleOwner /\ [Next]_vars => SoleOwner'
<1> SUFFICES ASSUME UserInv, SoleOwner, [Next]_vars PROVE SoleOwner'
  OBVIOUS
<1>1. CASE UNCHANGED <<state, created, table>>
  BY <1>1 DEF SoleOwner, Calm
<1>2. ASSUME NEW s \in Services, Register(s) \/ RegisterThrows(s) PROVE SoleOwner'
  BY <1>2, ConnectKeepsSole DEF Register, RegisterThrows
<1>3. ASSUME NEW s \in Services, RegisterAgain(s) \/ Disconnect(s) PROVE SoleOwner'
  BY <1>1, <1>3 DEF RegisterAgain, Disconnect, connVars
<1>4. ASSUME NEW s \in Services, NEW p \in Paths, CreateObject(s, p) \/ RemoveObject(s, p)
      PROVE  SoleOwner'
  BY <1>4, ObjectKeepsSole
<1>5. ASSUME NEW c \in Conns, Lose(c) PROVE SoleOwner'
  <2>1. state'[c] = "lost"
    BY <1>5 DEF Lose, UserInv, UserTypes
  <2> QED BY <2>1 DEF SoleOwner, Calm
<1>6. ASSUME NEW c \in Conns, DispatchDisconnected(c) PROVE SoleOwner'
  <2>1. state \in [Conns -> States] /\ state[c] = "lost"
    BY <1>6 DEF DispatchDisconnected, UserInv, UserTypes
  <2>2. CASE state'[c] \in {"lost", "noticed"}
    BY <2>2 DEF SoleOwner, Calm
  <2>3. state'[c] \in {"lost", "noticed"}
    BY <1>6, <2>1 DEF DispatchDisconnected, Gets, connVars
  <2> QED BY <2>2, <2>3
<1>7. ASSUME NEW r \in Requests,
             \/ \E q \in Request, c \in Conns : Dispatch(r, q, c)
             \/ HandlerThrows(r) \/ EndDispatch(r)
             \/ \E first \in BOOLEAN : Answer(r, first)
      PROVE  SoleOwner'
  BY <1>1, <1>7 DEF Dispatch, HandlerThrows, EndDispatch, Answer, userVars, connVars
<1>8. CASE UNCHANGED vars
  BY <1>1, <1>8 DEF vars, userVars, connVars
<1> QED BY <1>2, <1>3, <1>4, <1>5, <1>6, <1>7, <1>8 DEF Next

\* Until a connection is lost, the objects of every connected service are registered on
\* its connection, whatever other services create, remove or fail to register.
THEOREM ObjectsStayExposed == Spec => []StaysExposed
<1>1. ASSUME UserInv, SoleOwner, Calm, NEW s \in Services, conn[s] # None
      PROVE  created[s] \subseteq table[conn[s]]
  <2>1. conn[s] \in Conns /\ state[conn[s]] = "up"
    BY <1>1 DEF UserInv, UserTypes, Linked, Calm
  <2> QED BY <1>1, <2>1 DEF SoleOwner
<1>2. UserInv /\ SoleOwner => StaysExposed
  BY <1>1 DEF StaysExposed, Calm
<1> QED BY <1>2, InitUser, NextUser, InitSole, NextSole, PTL DEF Spec

-----------------------------------------------------------------------------
(* The theorems about requests.                                             *)

\* Both invariants hold in every reachable state.
THEOREM RequestInvariant == Spec => [](UserInv /\ RequestInv)
BY InitUser, NextUser, InitRequest, NextRequest, PTL DEF Spec

\* Type correctness: no message is released more often than it was referenced.
THEOREM TypeCorrect == Spec => []TypeOK
<1>1. UserInv /\ RequestInv => TypeOK
  BY DEF UserInv, UserTypes, RequestInv, RequestTypes, TypeOK
<1> QED BY <1>1, RequestInvariant, PTL

\* One reply for each answer of a handler, for any number of requests.
THEOREM RepliesAreOwed == Spec => []OneReplyEach
<1>1. RequestInv => OneReplyEach
  BY DEF RequestInv
<1> QED BY <1>1, RequestInvariant, PTL

\* No reply to a request that expects one is made from a freed message, and none on
\* a freed connection that was not lost and left.
THEOREM ExpectedIsLive == Spec => []LiveIfExpected
<1>1. RequestInv => LiveIfExpected
  BY DEF RequestInv
<1> QED BY <1>1, RequestInvariant, PTL

\* The dispatcher throws only when services share a connection or one of the map is
\* disconnected, for any loss of connections.
THEOREM CrashesOnlyIfShared == Spec => []CrashOnlyIfShared
<1>1. RequestInv => CrashOnlyIfShared
  BY DEF RequestInv
<1> QED BY <1>1, RequestInvariant, PTL
=============================================================================
