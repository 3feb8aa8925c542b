--------------------------- MODULE BusLifecycleProofs ---------------------------
(***************************************************************************)
(* Safety of BusLifecycle for any Bus objects, connections, handles, names *)
(* and bus types.  Bus.reconnect releases a BusObject, gets another one    *)
(* and is called inside a dispatch loop, so the invariant is stated of any *)
(* native state s, connections con of the Bus objects, routes rt and       *)
(* inboxes box: the states between two calls of one reconnect keep it too. *)
(***************************************************************************)
EXTENDS BusLifecycle, FiniteSetTheorems, TLAPS

\* The handles on connection c that were not released, and whether none of its
\* handles was released twice.
Live(s, c) == {h \in Handles : s.of[h] = c /\ s.released[h] = 0}
OnceReleased(s, c) == \A h \in Handles : s.of[h] = c => s.released[h] <= 1

\* The reference libdbus holds: until it has dispatched Disconnected.
LibRef(s, c, box) ==
    IF s.state[c] = "up" \/ Contains(box[c], "Disconnected") THEN 1 ELSE 0

HandlesInv(s) ==
    /\ \A h \in Handles : s.of[h] = None <=> s.loop[h] = "unused"
    /\ \A h \in Handles : s.of[h] = None => s.released[h] = 0 /\ h \notin s.woken
    /\ \A c \in Conns : s.wake[c] # None => s.of[s.wake[c]] = c
    /\ \A h \in Handles : s.loop[h] = "active" => s.released[h] = 0

\* A Bus has a BusObject of its own, on a connection of its type, and no BusObject
\* is forgotten before it is released.
HeldInv(s, con) ==
    /\ \A b \in Buses : con[b] # None =>
        s.of[con[b]] # None /\ ConnType[s.of[con[b]]] = BusType[b]
    /\ \A b, d \in Buses : con[b] # None /\ con[b] = con[d] => b = d
    /\ \A h \in Handles : s.of[h] # None /\ s.released[h] = 0 =>
        \E b \in Buses : con[b] = h

\* Disconnected is the last message of a connection, which is shared no longer then;
\* every BusObject on a connection adds a filter.
ConnsInv(s, box) ==
    /\ \A c \in Conns : s.state[c] = "unused" <=> s.name[c] = None
    /\ \A c \in Conns : s.state[c] = "unused" =>
        box[c] = <<>> /\ s.refs[c] = 0 /\ \A h \in Handles : s.of[h] # c
    /\ \A h \in Handles : s.of[h] # None => s.filters[s.of[h]] >= 1
    /\ \A h, g \in Handles : s.of[h] # None /\ s.of[h] = s.of[g] /\ h # g =>
        s.filters[s.of[h]] > 1
    /\ \A t \in Types : s.shared[t] # None =>
        /\ ConnType[s.shared[t]] = t
        /\ s.state[s.shared[t]] \in {"up", "gone"}
        /\ ~Contains(box[s.shared[t]], "Disconnected")
    /\ \A c \in Conns : s.state[c] = "up" => ~Contains(box[c], "Disconnected")
    /\ \A c \in Conns : \A i \in 1..Len(box[c]) :
        box[c][i] = "Disconnected" => i = Len(box[c])

\* A connection is referenced by libdbus and by every BusObject not released, and
\* by more when a reference is about to be dropped.
Balanced(s, c, box, more) ==
    /\ IsFiniteSet(Live(s, c))
    /\ OnceReleased(s, c) =>
        /\ s.refs[c] = Cardinality(Live(s, c)) + LibRef(s, c, box) + more
        /\ s.state[c] = "gone" => s.refs[c] = 0
        /\ box[c] # <<>> => LibRef(s, c, box) = 1
        /\ \A t \in Types : s.shared[t] = c => s.state[c] = "up"

\* While each connection has had one BusObject and none was released twice, a
\* BusObject not released keeps the loop alive.
Calm(s) ==
    /\ \A h \in Handles : s.released[h] <= 1
    /\ \A c \in Conns : s.filters[c] <= 1

CalmInv(s) ==
    Calm(s) => \A h \in Handles : s.of[h] # None /\ s.released[h] = 0 => s.loop[h] = "active"

HoldsOn(s, con, b, c) ==
    con[b] # None /\ s.released[con[b]] = 0 /\ s.of[con[b]] = c

RouteInv(s, con, rt) ==
    \A n \in Names : rt[n] # None =>
        \E c \in Conns : HoldsOn(s, con, rt[n], c) /\ s.name[c] = n

\* Another connection has the name of c.
SharedName(s, c) == \E d \in Conns \ {c} : s.name[d] = s.name[c]

\* The only Bus of a connection has the route of its name, and Disconnected will
\* come or has made it leave.
NoticeInv(s, con, rt, box) ==
    \A b \in Buses, c \in Conns : HoldsOn(s, con, b, c) =>
        \/ s.filters[c] > 1
        \/ SharedName(s, c)
        \/ /\ rt[s.name[c]] = b
           /\ s.state[c] = "up" \/ Contains(box[c], "Disconnected")

Shape(s, con, rt, box) ==
    /\ s \in Lib
    /\ con \in [Buses -> Handles \cup {None}]
    /\ rt \in [Names -> Buses \cup {None}]
    /\ box \in [Conns -> Seq(Messages)]

Sound(s, con, rt, box) ==
    /\ Shape(s, con, rt, box)
    /\ HandlesInv(s)
    /\ HeldInv(s, con)
    /\ ConnsInv(s, box)
    /\ \A c \in Conns : Balanced(s, c, box, 0)
    /\ CalmInv(s)
    /\ RouteInv(s, con, rt)
    /\ NoticeInv(s, con, rt, box)

\* What the actions add: only constructed Bus objects have a connection, and the loop
\* and the last signal have to do with connections that were opened.
LoopInv ==
    /\ made \subseteq Buses
    /\ \A b \in Buses : connection[b] # None => b \in made
    /\ loopOn \in Conns \cup {None}
    /\ loopOn # None => lib.state[loopOn] # "unused"
    /\ timed \subseteq Conns
    /\ last \in [from : Conns \cup {None}, to : Buses \cup {None}]
    /\ last.to # None => last.from # None /\ lib.state[last.from] # "unused"

IInv == Sound(lib, connection, route, inbox) /\ LoopInv /\ SignalFromOwnDaemon

-----------------------------------------------------------------------------
(* What the native operations do to each field.                            *)

\* Only a uv_async is closed.
LEMMA CloseLoopFields ==
    ASSUME NEW s \in Lib, NEW h \in Handles \cup {None}
    PROVE  LET u == CloseLoop(s, h) IN
           /\ u \in Lib
           /\ u.shared = s.shared /\ u.state = s.state /\ u.name = s.name /\ u.refs = s.refs
           /\ u.wake = s.wake /\ u.filters = s.filters /\ u.of = s.of
           /\ u.released = s.released
           /\ \A g \in Handles : u.loop[g] = IF g = h THEN "closed" ELSE s.loop[g]
           /\ u.woken \subseteq s.woken /\ s.woken \ {h} \subseteq u.woken
<1> USE NoneAssumption
<1>1. CASE h = None
  BY <1>1 DEF CloseLoop, Lib
<1>2. CASE h # None
  BY <1>2 DEF CloseLoop, Lib
<1> QED BY <1>1, <1>2

\* A reference is dropped; the last one finalizes the connection and closes the
\* handle of its wakeup.
LEMMA UnrefFields ==
    ASSUME NEW s \in Lib, NEW c \in Conns
    PROVE  LET u == Unref(s, c) IN
           /\ u \in Lib
           /\ u.shared = s.shared /\ u.name = s.name /\ u.wake = s.wake
           /\ u.filters = s.filters /\ u.of = s.of /\ u.released = s.released
           /\ \A d \in Conns \ {c} : u.state[d] = s.state[d] /\ u.refs[d] = s.refs[d]
           /\ u.woken \subseteq s.woken /\ s.woken \ {s.wake[c]} \subseteq u.woken
           /\ u.woken = s.woken \/ u.state[c] = "gone"
           /\ \/ s.refs[c] = 0 /\ u = s
              \/ /\ s.refs[c] = 1 /\ u.refs[c] = 0 /\ u.state[c] = "gone"
                 /\ \A g \in Handles :
                        u.loop[g] = IF g = s.wake[c] THEN "closed" ELSE s.loop[g]
              \/ /\ s.refs[c] > 1 /\ u.refs[c] = s.refs[c] - 1
                 /\ u.state = s.state /\ u.loop = s.loop
<1>1. s.refs[c] \in Nat /\ s.wake[c] \in Handles \cup {None}
  BY DEF Lib
<1>2. CASE s.refs[c] = 0
  BY <1>2 DEF Unref
<1>3. CASE s.refs[c] = 1
  <2> DEFINE v == [s EXCEPT !.refs[c] = 0, !.state[c] = "gone"]
  <2>1. /\ v \in Lib /\ v.shared = s.shared /\ v.name = s.name /\ v.wake = s.wake
        /\ v.filters = s.filters /\ v.of = s.of /\ v.released = s.released
        /\ v.loop = s.loop /\ v.woken = s.woken
        /\ v.refs[c] = 0 /\ v.state[c] = "gone"
        /\ \A d \in Conns \ {c} : v.state[d] = s.state[d] /\ v.refs[d] = s.refs[d]
    BY DEF Lib
  <2>2. Unref(s, c) = CloseLoop(v, s.wake[c])
    BY <1>3 DEF Unref
  <2> HIDE DEF v
  <2> QED BY <1>1, <1>3, <2>1, <2>2, CloseLoopFields
<1>4. CASE s.refs[c] > 1
  <2>1. Unref(s, c) = [s EXCEPT !.refs[c] = s.refs[c] - 1]
    BY <1>1, <1>4 DEF Unref
  <2> QED BY <1>1, <1>4, <2>1 DEF Lib
<1> QED BY <1>1, <1>2, <1>3, <1>4

\* What uv_unref on the handle h may do to the handles.
Unreffed(s, h, loop) ==
    /\ loop \in [Handles -> {"unused", "active", "unref", "closed"}]
    /\ s.loop[h] # "closed" => loop[h] = "unref"
    /\ s.loop[h] = "closed" => loop[h] = "closed"
    /\ s.loop[h] # "closed" => \A g \in Handles \ {h} : loop[g] = s.loop[g]
    /\ \A g \in Handles \ {h} :
        \/ loop[g] = s.loop[g]
        \/ s.loop[g] = "active" /\ loop[g] = "unref"

LEMMA UvUnrefFields ==
    ASSUME NEW s \in Lib, NEW h \in Handles, NEW w \in UvUnref(s, h)
    PROVE  /\ w \in Lib
           /\ w.shared = s.shared /\ w.state = s.state /\ w.name = s.name
           /\ w.refs = s.refs /\ w.wake = s.wake /\ w.filters = s.filters
           /\ w.of = s.of /\ w.woken = s.woken /\ w.released = s.released
           /\ Unreffed(s, h, w.loop)
<1>1. CASE s.loop[h] # "closed"
  <2>1. w = [s EXCEPT !.loop[h] = "unref"]
    BY <1>1 DEF UvUnref
  <2> QED BY <1>1, <2>1 DEF Lib, Unreffed
<1>2. CASE s.loop[h] = "closed"
  <2>1. CASE w = s
    BY <1>2, <2>1 DEF Lib, Unreffed
  <2>2. ASSUME NEW g \in Handles, s.loop[g] = "active", w = [s EXCEPT !.loop[g] = "unref"]
        PROVE  /\ w \in Lib
               /\ w.shared = s.shared /\ w.state = s.state /\ w.name = s.name
               /\ w.refs = s.refs /\ w.wake = s.wake /\ w.filters = s.filters
               /\ w.of = s.of /\ w.woken = s.woken /\ w.released = s.released
               /\ Unreffed(s, h, w.loop)
    BY <1>2, <2>2 DEF Lib, Unreffed
  <2>3. w = s \/ \E g \in Handles : s.loop[g] = "active" /\ w = [s EXCEPT !.loop[g] = "unref"]
    BY <1>2 DEF UvUnref
  <2> QED BY <1>2, <2>1, <2>2, <2>3
<1> QED BY <1>1, <1>2

\* UnInit: uv_unref and the release, then the reference.
LEMMA UnInitFields ==
    ASSUME NEW s \in Lib, NEW h \in Handles, NEW u \in UnInit(s, h)
    PROVE  \E v \in Lib :
           /\ u = Unref(v, s.of[h])
           /\ v.shared = s.shared /\ v.state = s.state /\ v.name = s.name
           /\ v.refs = s.refs /\ v.wake = s.wake /\ v.filters = s.filters
           /\ v.of = s.of /\ v.woken = s.woken
           /\ v.released = [s.released EXCEPT ![h] = s.released[h] + 1]
           /\ Unreffed(s, h, v.loop)
<1>1. PICK w \in UvUnref(s, h) :
            u = Unref([w EXCEPT !.released[h] = w.released[h] + 1], s.of[h])
  BY DEF UnInit
<1>2. /\ w \in Lib
      /\ w.shared = s.shared /\ w.state = s.state /\ w.name = s.name /\ w.refs = s.refs
      /\ w.wake = s.wake /\ w.filters = s.filters /\ w.of = s.of /\ w.woken = s.woken
      /\ w.released = s.released
      /\ Unreffed(s, h, w.loop)
  BY UvUnrefFields
<1> DEFINE v == [w EXCEPT !.released[h] = w.released[h] + 1]
<1>3. /\ v \in Lib
      /\ v.shared = w.shared /\ v.state = w.state /\ v.name = w.name /\ v.refs = w.refs
      /\ v.wake = w.wake /\ v.filters = w.filters /\ v.of = w.of /\ v.woken = w.woken
      /\ v.loop = w.loop /\ v.released = [w.released EXCEPT ![h] = w.released[h] + 1]
  BY <1>2 DEF Lib
<1>4. u = Unref(v, s.of[h])
  BY <1>1
<1> HIDE DEF v
<1> QED BY <1>2, <1>3, <1>4

\* Attach: the wakeup of connection c moves to the new handle h.
LEMMA AttachFields ==
    ASSUME NEW s \in Lib, NEW h \in Handles, NEW c \in Conns
    PROVE  LET u == Attach(s, h, c) IN
           /\ u \in Lib
           /\ u.shared = s.shared /\ u.state = s.state /\ u.name = s.name
           /\ u.released = s.released
           /\ u.refs[c] = s.refs[c] + 1 /\ u.wake[c] = h
           /\ u.filters[c] = s.filters[c] + 1
           /\ \A d \in Conns \ {c} : /\ u.refs[d] = s.refs[d] /\ u.wake[d] = s.wake[d]
                                     /\ u.filters[d] = s.filters[d]
           /\ u.of[h] = c /\ u.loop[h] = "active"
           /\ \A g \in Handles \ {h} :
                /\ u.of[g] = s.of[g]
                /\ u.loop[g] = s.loop[g] \/ (u.loop[g] = "closed" /\ g = s.wake[c])
           /\ u.woken \subseteq s.woken /\ s.woken \ {s.wake[c]} \subseteq u.woken
<1> DEFINE w == CloseLoop(s, s.wake[c])
           u == Attach(s, h, c)
<1>1. s.wake[c] \in Handles \cup {None}
  BY DEF Lib
<1>2. /\ w \in Lib
      /\ w.shared = s.shared /\ w.state = s.state /\ w.name = s.name /\ w.refs = s.refs
      /\ w.wake = s.wake /\ w.filters = s.filters /\ w.of = s.of /\ w.released = s.released
      /\ \A g \in Handles : w.loop[g] = IF g = s.wake[c] THEN "closed" ELSE s.loop[g]
      /\ w.woken \subseteq s.woken /\ s.woken \ {s.wake[c]} \subseteq w.woken
  BY <1>1, CloseLoopFields
<1>3. u = [w EXCEPT !.refs[c] = w.refs[c] + 1, !.wake[c] = h,
                    !.filters[c] = w.filters[c] + 1, !.of[h] = c, !.loop[h] = "active"]
  BY DEF Attach
<1> HIDE DEF w, u
<1>4. /\ u.shared = w.shared /\ u.state = w.state /\ u.name = w.name
      /\ u.released = w.released /\ u.woken = w.woken
      /\ u.refs = [w.refs EXCEPT ![c] = w.refs[c] + 1]
      /\ u.wake = [w.wake EXCEPT ![c] = h]
      /\ u.filters = [w.filters EXCEPT ![c] = w.filters[c] + 1]
      /\ u.of = [w.of EXCEPT ![h] = c]
      /\ u.loop = [w.loop EXCEPT ![h] = "active"]
  BY <1>2, <1>3 DEF Lib
<1>5. w.refs[c] + 1 \in Nat /\ w.filters[c] + 1 \in Nat
  BY <1>2 DEF Lib
<1>6. u \in Lib
  BY <1>2, <1>3, <1>5 DEF Lib
<1>7. /\ u.refs[c] = w.refs[c] + 1 /\ u.wake[c] = h /\ u.filters[c] = w.filters[c] + 1
      /\ \A d \in Conns \ {c} : /\ u.refs[d] = w.refs[d] /\ u.wake[d] = w.wake[d]
                                /\ u.filters[d] = w.filters[d]
      /\ u.of[h] = c /\ u.loop[h] = "active"
      /\ \A g \in Handles \ {h} : u.of[g] = w.of[g] /\ u.loop[g] = w.loop[g]
  BY <1>2, <1>4 DEF Lib
<1>8. \A g \in Handles \ {h} :
        u.loop[g] = s.loop[g] \/ (u.loop[g] = "closed" /\ g = s.wake[c])
  BY <1>2, <1>7
<1>9. u = Attach(s, h, c)
  BY DEF u
<1>10. /\ u.shared = s.shared /\ u.state = s.state /\ u.name = s.name
       /\ u.released = s.released
       /\ u.woken \subseteq s.woken /\ s.woken \ {s.wake[c]} \subseteq u.woken
       /\ u.refs[c] = s.refs[c] + 1 /\ u.wake[c] = h /\ u.filters[c] = s.filters[c] + 1
       /\ \A d \in Conns \ {c} : /\ u.refs[d] = s.refs[d] /\ u.wake[d] = s.wake[d]
                                 /\ u.filters[d] = s.filters[d]
       /\ u.of[h] = c /\ u.loop[h] = "active"
       /\ \A g \in Handles \ {h} : u.of[g] = s.of[g]
  BY <1>2, <1>4, <1>7
<1> QED BY <1>6, <1>8, <1>9, <1>10

\* A new connection is up, shared and referenced by libdbus.
LEMMA OpenFields ==
    ASSUME NEW s \in Lib, NEW c \in Conns, NEW n \in Names
    PROVE  LET u == Open(s, c, n) IN
           /\ u \in Lib
           /\ u.wake = s.wake /\ u.filters = s.filters /\ u.of = s.of /\ u.loop = s.loop
           /\ u.released = s.released /\ u.woken = s.woken
           /\ u.state[c] = "up" /\ u.name[c] = n /\ u.refs[c] = 1
           /\ u.shared[ConnType[c]] = c
           /\ \A d \in Conns \ {c} : /\ u.state[d] = s.state[d] /\ u.name[d] = s.name[d]
                                     /\ u.refs[d] = s.refs[d]
           /\ \A t \in Types \ {ConnType[c]} : u.shared[t] = s.shared[t]
<1>1. ConnType[c] \in Types
  BY TypesAssumption
<1> QED BY <1>1 DEF Open, Lib

-----------------------------------------------------------------------------
(* What the native operations preserve.                                    *)

\* The balance of a connection only depends on its own fields.
LEMMA BalancedSame ==
    ASSUME NEW s, NEW u, NEW c, NEW box, NEW box2, NEW more,
           u.of = s.of, u.released = s.released, u.refs[c] = s.refs[c],
           u.state[c] = s.state[c], box2[c] = box[c],
           \A t \in Types : u.shared[t] = c => s.shared[t] = c,
           Balanced(s, c, box, more)
    PROVE  Balanced(u, c, box2, more)
<1>1. Live(u, c) = Live(s, c) /\ LibRef(u, c, box2) = LibRef(s, c, box)
      /\ OnceReleased(u, c) = OnceReleased(s, c)
  BY DEF Live, LibRef, OnceReleased
<1> QED BY <1>1 DEF Balanced

\* A connection with a BusObject released twice has had two, if some Bus holds one.
LEMMA HeldTwice ==
    ASSUME NEW s \in Lib, NEW con, NEW box, NEW b \in Buses, NEW c \in Conns,
           con[b] \in Handles \cup {None},
           ConnsInv(s, box), HoldsOn(s, con, b, c), ~OnceReleased(s, c)
    PROVE  s.filters[c] > 1
<1>1. PICK h \in Handles : s.of[h] = c /\ ~(s.released[h] <= 1)
  BY DEF OnceReleased
<1>2. con[b] \in Handles /\ s.of[con[b]] = c /\ con[b] # h /\ c # None
  BY <1>1, NoneAssumption DEF HoldsOn, Lib
<1> QED BY <1>1, <1>2 DEF ConnsInv

\* Dropping a reference that is not accounted for leaves a sound state: the last one
\* is dropped when no BusObject is left.
LEMMA UnrefSound ==
    ASSUME NEW s, NEW con, NEW rt, NEW box, NEW c \in Conns,
           Shape(s, con, rt, box), HandlesInv(s), HeldInv(s, con), ConnsInv(s, box),
           \A d \in Conns \ {c} : Balanced(s, d, box, 0), Balanced(s, c, box, 1),
           CalmInv(s), RouteInv(s, con, rt), NoticeInv(s, con, rt, box),
           s.state[c] # "unused"
    PROVE  Sound(Unref(s, c), con, rt, box)
<1> DEFINE u == Unref(s, c)
<1>1. s \in Lib /\ c # None
  BY NoneAssumption DEF Shape
<1>2. /\ u \in Lib
      /\ u.shared = s.shared /\ u.name = s.name /\ u.wake = s.wake
      /\ u.filters = s.filters /\ u.of = s.of /\ u.released = s.released
      /\ \A d \in Conns \ {c} : u.state[d] = s.state[d] /\ u.refs[d] = s.refs[d]
      /\ u.woken \subseteq s.woken
      /\ \/ s.refs[c] = 0 /\ u = s
         \/ /\ s.refs[c] = 1 /\ u.refs[c] = 0 /\ u.state[c] = "gone"
            /\ \A g \in Handles :
                   u.loop[g] = IF g = s.wake[c] THEN "closed" ELSE s.loop[g]
         \/ /\ s.refs[c] > 1 /\ u.refs[c] = s.refs[c] - 1
            /\ u.state = s.state /\ u.loop = s.loop
  BY <1>1, UnrefFields
<1> HIDE DEF u
<1>3. /\ Live(u, c) = Live(s, c) /\ OnceReleased(u, c) = OnceReleased(s, c)
      /\ \A b, d : HoldsOn(u, con, b, d) <=> HoldsOn(s, con, b, d)
  BY <1>2 DEF Live, OnceReleased, HoldsOn
<1>4. /\ IsFiniteSet(Live(s, c)) /\ Cardinality(Live(s, c)) \in Nat
      /\ s.refs[c] \in Nat /\ LibRef(s, c, box) \in {0, 1}
  BY <1>1, FS_CardinalityType DEF Balanced, LibRef, Lib
<1>5. ASSUME OnceReleased(s, c), s.refs[c] = 1
      PROVE  Live(s, c) = {} /\ LibRef(s, c, box) = 0
  <2>1. Cardinality(Live(s, c)) = 0 /\ LibRef(s, c, box) = 0
    BY <1>4, <1>5 DEF Balanced
  <2> QED BY <1>4, <2>1, FS_EmptySet
<1>6. \A g \in Handles : u.loop[g] = s.loop[g] \/ (u.loop[g] = "closed" /\ g = s.wake[c])
  BY <1>2
<1>7. Shape(u, con, rt, box)
  BY <1>2 DEF Shape
<1>8. HandlesInv(u)
  BY <1>1, <1>2, <1>6, NoneAssumption DEF HandlesInv
<1>9. HeldInv(u, con)
  BY <1>2 DEF HeldInv
<1>10. ConnsInv(u, box)
  <2>1. \A d \in Conns : u.state[d] = s.state[d] \/ (d = c /\ u.state[d] = "gone")
    BY <1>2
  <2>2. \A d \in Conns : (s.state[d] = "unused" <=> u.state[d] = "unused")
                         /\ (u.state[d] = "up" => s.state[d] = "up")
    BY <2>1
  <2>3. \A d \in Conns : u.state[d] = "unused" => u.refs[d] = s.refs[d]
    BY <1>2, <2>2
  <2>4. \A t \in Types : s.shared[t] # None => s.shared[t] \in Conns
    BY <1>1 DEF Lib
  <2> QED BY <1>2, <2>1, <2>2, <2>3, <2>4 DEF ConnsInv
<1>11. ASSUME NEW d \in Conns
       PROVE  Balanced(u, d, box, 0)
  <2>1. CASE d # c
    BY <1>2, <2>1, BalancedSame
  <2>2. CASE d = c
    <3>1. SUFFICES ASSUME OnceReleased(s, c)
                   PROVE  /\ u.refs[c] = Cardinality(Live(s, c)) + LibRef(u, c, box) + 0
                          /\ u.state[c] = "gone" => u.refs[c] = 0
                          /\ box[c] # <<>> => LibRef(u, c, box) = 1
                          /\ \A t \in Types : u.shared[t] = c => u.state[c] = "up"
      BY <1>3, <1>4, <2>2 DEF Balanced
    <3>2. /\ s.refs[c] = Cardinality(Live(s, c)) + LibRef(s, c, box) + 1
          /\ s.state[c] = "gone" => s.refs[c] = 0
          /\ box[c] # <<>> => LibRef(s, c, box) = 1
          /\ \A t \in Types : s.shared[t] = c => s.state[c] = "up"
      BY <3>1 DEF Balanced
    <3>3. s.refs[c] # 0
      BY <1>4, <3>2
    <3>4. CASE s.refs[c] = 1
      <4>1. Cardinality(Live(s, c)) = 0 /\ LibRef(s, c, box) = 0
        BY <1>4, <3>2, <3>4
      <4>2. u.refs[c] = 0 /\ u.state[c] = "gone"
        BY <1>2, <3>4
      <4>3. s.state[c] # "up" /\ ~Contains(box[c], "Disconnected")
        BY <4>1 DEF LibRef
      <4>4. LibRef(u, c, box) = 0
        BY <4>2, <4>3 DEF LibRef
      <4> QED BY <1>2, <3>2, <4>1, <4>2, <4>3, <4>4
    <3>5. CASE s.refs[c] > 1
      <4>1. u.refs[c] = s.refs[c] - 1 /\ u.state = s.state
        BY <1>2, <3>5
      <4>2. LibRef(u, c, box) = LibRef(s, c, box)
        BY <4>1 DEF LibRef
      <4> QED BY <1>2, <1>4, <3>2, <3>3, <4>1, <4>2
    <3> QED BY <1>4, <3>3, <3>4, <3>5
  <2> QED BY <2>1, <2>2
<1>12. CalmInv(u)
  <2>1. SUFFICES ASSUME Calm(s), NEW h \in Handles, s.of[h] # None, s.released[h] = 0
                 PROVE  u.loop[h] = "active"
    BY <1>2 DEF CalmInv, Calm
  <2>2. s.loop[h] = "active" /\ OnceReleased(s, c)
    BY <2>1 DEF CalmInv, Calm, OnceReleased
  <2>3. ASSUME s.refs[c] = 1 PROVE h # s.wake[c]
    BY <1>1, <1>5, <2>1, <2>2, <2>3, NoneAssumption DEF HandlesInv, Live
  <2> QED BY <1>2, <2>2, <2>3
<1>13. RouteInv(u, con, rt)
  BY <1>2, <1>3 DEF RouteInv
<1>14. NoticeInv(u, con, rt, box)
  <2>1. SUFFICES ASSUME NEW b \in Buses, NEW d \in Conns, HoldsOn(s, con, b, d),
                        ~(s.filters[d] > 1), ~SharedName(s, d)
                 PROVE  rt[s.name[d]] = b
                        /\ (u.state[d] = "up" \/ Contains(box[d], "Disconnected"))
    BY <1>2, <1>3 DEF NoticeInv, SharedName
  <2>2. rt[s.name[d]] = b /\ (s.state[d] = "up" \/ Contains(box[d], "Disconnected"))
    BY <2>1 DEF NoticeInv
  <2>3. CASE u.state[d] = s.state[d]
    BY <2>2, <2>3
  <2>4. CASE u.state[d] # s.state[d]
    <3>1. d = c /\ s.refs[c] = 1
      BY <1>2, <2>4
    <3>2. OnceReleased(s, c)
      BY <1>1, <2>1, <3>1, HeldTwice DEF Shape
    <3>3. con[b] \in Live(s, c)
      BY <2>1, <3>1, NoneAssumption DEF HoldsOn, Live, Shape
    <3> QED BY <1>5, <3>1, <3>2, <3>3
  <2> QED BY <2>3, <2>4
<1> QED BY <1>7, <1>8, <1>9, <1>10, <1>11, <1>12, <1>13, <1>14 DEF Sound, u

\* What a Bus with a BusObject has.
LEMMA HeldFacts ==
    ASSUME NEW s, NEW con, NEW rt, NEW box, NEW b \in Buses,
           Sound(s, con, rt, box), con[b] # None
    PROVE  /\ con[b] \in Handles /\ s.of[con[b]] \in Conns
           /\ ConnType[s.of[con[b]]] = BusType[b]
           /\ s.state[s.of[con[b]]] # "unused"
           /\ s.name[s.of[con[b]]] \in Names
           /\ s.loop[con[b]] # "unused"
<1>1. s \in Lib /\ con[b] \in Handles
  BY DEF Sound, Shape
<1>2. s.of[con[b]] \in Conns /\ ConnType[s.of[con[b]]] = BusType[b]
  BY <1>1 DEF Sound, HeldInv, Lib
<1>3. s.state[s.of[con[b]]] # "unused" /\ s.loop[con[b]] # "unused"
  BY <1>1, <1>2, NoneAssumption DEF Sound, ConnsInv, HandlesInv
<1>4. s.name[s.of[con[b]]] # None
  BY <1>2, <1>3 DEF Sound, ConnsInv
<1> QED BY <1>1, <1>2, <1>3, <1>4 DEF Lib

\* Two Bus objects with BusObjects on a connection: it has more than one filter.
LEMMA TwoHolders ==
    ASSUME NEW s, NEW con, NEW rt, NEW box, NEW b \in Buses, NEW d \in Buses, NEW c \in Conns,
           Sound(s, con, rt, box), b # d, con[b] # None, con[d] # None,
           s.of[con[b]] = c, s.of[con[d]] = c
    PROVE  s.filters[c] > 1
<1>1. con[b] # con[d] /\ con[b] \in Handles /\ con[d] \in Handles
  BY DEF Sound, Shape, HeldInv
<1> QED BY <1>1, NoneAssumption DEF Sound, ConnsInv

\* Bus.disconnect and Bus.reconnect release the BusObject of b when its route is
\* deleted: the balance stays, and whoever else is on the connection is exempt.
LEMMA ReleaseSound ==
    ASSUME NEW s, NEW con, NEW rt, NEW box, NEW b \in Buses,
           Sound(s, con, rt, box), con[b] # None, NEW u \in UnInit(s, con[b])
    PROVE  /\ Sound(u, con, [rt EXCEPT ![s.name[s.of[con[b]]]] = None], box)
           /\ u.shared = s.shared /\ u.name = s.name /\ u.filters = s.filters
           /\ u.of = s.of
           /\ u.released = [s.released EXCEPT ![con[b]] = s.released[con[b]] + 1]
<1> DEFINE h == con[b]
           c == s.of[con[b]]
           rt2 == [rt EXCEPT ![s.name[s.of[con[b]]]] = None]
<1>1. /\ s \in Lib /\ h \in Handles /\ c \in Conns /\ s.name[c] \in Names
      /\ s.state[c] # "unused" /\ s.loop[h] # "unused" /\ h # None /\ c # None
  <2>1. s \in Lib
    BY DEF Sound, Shape
  <2>2. /\ con[b] \in Handles /\ s.of[con[b]] \in Conns
        /\ s.state[s.of[con[b]]] # "unused" /\ s.name[s.of[con[b]]] \in Names
        /\ s.loop[con[b]] # "unused"
    BY HeldFacts
  <2> QED BY <2>1, <2>2, NoneAssumption
<1>2. PICK v \in Lib :
           /\ u = Unref(v, c)
           /\ v.shared = s.shared /\ v.state = s.state /\ v.name = s.name
           /\ v.refs = s.refs /\ v.wake = s.wake /\ v.filters = s.filters
           /\ v.of = s.of /\ v.woken = s.woken
           /\ v.released = [s.released EXCEPT ![h] = s.released[h] + 1]
           /\ Unreffed(s, h, v.loop)
  BY <1>1, UnInitFields
<1>3. /\ h = con[b] /\ c = s.of[h] /\ rt \in [Names -> Buses \cup {None}]
      /\ rt2 \in [Names -> Buses \cup {None}]
      /\ rt2[s.name[c]] = None /\ \A n \in Names \ {s.name[c]} : rt2[n] = rt[n]
  BY <1>1 DEF Sound, Shape
<1> HIDE DEF h, c, rt2
<1>4. /\ \A g \in Handles : s.released[g] \in Nat
      /\ v.released[h] = s.released[h] + 1
      /\ \A g \in Handles \ {h} : v.released[g] = s.released[g]
  BY <1>1, <1>2 DEF Lib
<1>5. Shape(v, con, rt2, box)
  BY <1>2, <1>3 DEF Sound, Shape
<1>6. HandlesInv(v)
  <2>1. \A g \in Handles : /\ v.loop[g] = "unused" <=> s.loop[g] = "unused"
                           /\ v.loop[g] = "active" => s.loop[g] = "active" /\ g # h
    BY <1>1, <1>2 DEF Unreffed
  <2> QED BY <1>1, <1>2, <1>3, <1>4, <2>1 DEF Sound, HandlesInv
<1>7. HeldInv(v, con)
  <2>1. \A g \in Handles : v.released[g] = 0 => s.released[g] = 0
    BY <1>4
  <2> QED BY <1>2, <2>1 DEF Sound, HeldInv
<1>8. ConnsInv(v, box)
  BY <1>2 DEF Sound, ConnsInv
<1>9. \A d \in Conns \ {c} : Balanced(v, d, box, 0)
  <2>1. TAKE d \in Conns \ {c}
  <2>2. Live(v, d) = Live(s, d) /\ OnceReleased(v, d) = OnceReleased(s, d)
        /\ LibRef(v, d, box) = LibRef(s, d, box)
    BY <1>2, <1>3, <1>4 DEF Live, OnceReleased, LibRef
  <2>3. Balanced(s, d, box, 0)
    BY DEF Sound
  <2> QED BY <1>2, <2>2, <2>3 DEF Balanced
<1>10. Balanced(v, c, box, 1)
  <2>1. Balanced(s, c, box, 0) /\ IsFiniteSet(Live(s, c))
    BY <1>1 DEF Sound, Balanced
  <2>2. Live(v, c) = Live(s, c) \ {h}
    BY <1>2, <1>4 DEF Live
  <2>3. IsFiniteSet(Live(v, c))
    BY <2>1, <2>2, FS_Subset
  <2>4. ASSUME OnceReleased(v, c)
        PROVE  OnceReleased(s, c) /\ h \in Live(s, c)
    <3>1. s.released[h] + 1 <= 1 /\ s.released[h] \in Nat
      BY <1>1, <1>2, <1>3, <1>4, <2>4 DEF OnceReleased
    <3>2. s.released[h] = 0
      BY <3>1
    <3> QED BY <1>1, <1>2, <1>3, <1>4, <2>4, <3>2 DEF OnceReleased, Live
  <2>5. ASSUME h \in Live(s, c)
        PROVE  Cardinality(Live(s, c)) = Cardinality(Live(v, c)) + 1
               /\ Cardinality(Live(s, c)) \in Nat /\ Cardinality(Live(v, c)) \in Nat
    <3>1. Cardinality(Live(v, c)) = Cardinality(Live(s, c)) - 1
      BY <2>1, <2>2, <2>5, FS_RemoveElement
    <3> QED BY <2>1, <2>3, <3>1, FS_CardinalityType
  <2>6. LibRef(v, c, box) = LibRef(s, c, box) /\ LibRef(s, c, box) \in {0, 1}
    BY <1>2 DEF LibRef
  <2> QED BY <1>2, <2>1, <2>3, <2>4, <2>5, <2>6 DEF Balanced
<1>11. CalmInv(v)
  <2>1. SUFFICES ASSUME Calm(v), NEW g \in Handles, s.of[g] # None, v.released[g] = 0
                 PROVE  v.loop[g] = "active"
    BY <1>2 DEF CalmInv
  <2>2. \A x \in Handles : s.released[x] <= 1
    <3> TAKE x \in Handles
    <3>1. v.released[x] <= 1
      BY <2>1 DEF Calm
    <3> QED BY <1>4, <3>1
  <2>3. Calm(s)
    BY <1>2, <2>1, <2>2 DEF Calm
  <2>4. s.released[h] = 0
    <3>1. v.released[h] <= 1 /\ v.released[h] = s.released[h] + 1 /\ s.released[h] \in Nat
      BY <1>1, <1>4, <2>1 DEF Calm
    <3> QED BY <3>1
  <2>5. g # h /\ s.released[g] = 0
    BY <1>1, <1>4, <2>1, <2>4
  <2>6. s.loop[g] = "active" /\ s.loop[h] = "active"
    BY <1>1, <1>3, <2>1, <2>3, <2>4, <2>5 DEF Sound, CalmInv
  <2> QED BY <1>2, <2>5, <2>6 DEF Unreffed
<1>12. ASSUME NEW d \in Buses, NEW e \in Conns
       PROVE  HoldsOn(v, con, d, e) => HoldsOn(s, con, d, e) /\ d # b
  <2>1. SUFFICES ASSUME HoldsOn(v, con, d, e)
                 PROVE  HoldsOn(s, con, d, e) /\ d # b
    OBVIOUS
  <2>2. con[d] \in Handles /\ con[d] # h
    <3>1. con[d] \in Handles
      BY <2>1 DEF HoldsOn, Sound, Shape
    <3> QED BY <1>1, <1>4, <2>1, <3>1 DEF HoldsOn
  <2> QED BY <1>2, <1>3, <1>4, <2>1, <2>2 DEF HoldsOn
<1>13. ASSUME NEW d \in Buses, NEW e \in Conns, d # b, HoldsOn(s, con, d, e)
       PROVE  HoldsOn(v, con, d, e)
  <2>1. con[d] \in Handles /\ con[d] # h
    BY <1>1, <1>3, <1>13 DEF HoldsOn, Sound, Shape, HeldInv
  <2> QED BY <1>2, <1>4, <1>13, <2>1 DEF HoldsOn
<1>14. RouteInv(v, con, rt2)
  <2>1. SUFFICES ASSUME NEW n \in Names, rt2[n] # None
                 PROVE  \E e \in Conns : HoldsOn(v, con, rt2[n], e) /\ v.name[e] = n
    BY DEF RouteInv
  <2>2. n # s.name[c] /\ rt2[n] = rt[n] /\ rt[n] \in Buses
    BY <1>3, <2>1
  <2>3. PICK e \in Conns : HoldsOn(s, con, rt[n], e) /\ s.name[e] = n
    BY <2>1, <2>2 DEF Sound, RouteInv
  <2>4. rt[n] # b
    BY <1>3, <2>2, <2>3 DEF HoldsOn
  <2> QED BY <1>2, <1>13, <2>2, <2>3, <2>4
<1>15. NoticeInv(v, con, rt2, box)
  <2>1. SUFFICES ASSUME NEW d \in Buses, NEW e \in Conns, HoldsOn(v, con, d, e),
                        ~(s.filters[e] > 1), ~SharedName(s, e)
                 PROVE  rt2[s.name[e]] = d
                        /\ (s.state[e] = "up" \/ Contains(box[e], "Disconnected"))
    BY <1>2 DEF NoticeInv, SharedName
  <2>2. HoldsOn(s, con, d, e) /\ d # b
    BY <1>12, <2>1
  <2>3. rt[s.name[e]] = d /\ (s.state[e] = "up" \/ Contains(box[e], "Disconnected"))
    BY <2>1, <2>2 DEF Sound, NoticeInv
  <2>4. e # c
    BY <1>1, <1>3, <2>1, <2>2, TwoHolders DEF HoldsOn
  <2>5. s.name[e] # s.name[c]
    BY <1>1, <2>1, <2>4 DEF SharedName
  <2>6. s.name[e] \in Names
    BY <2>2, HeldFacts DEF HoldsOn
  <2> QED BY <1>3, <2>3, <2>5, <2>6
<1>16. Sound(u, con, rt2, box)
  BY <1>1, <1>2, <1>5, <1>6, <1>7, <1>8, <1>9, <1>10, <1>11, <1>14, <1>15, UnrefSound
<1>17. u.shared = v.shared /\ u.name = v.name /\ u.filters = v.filters /\ u.of = v.of
       /\ u.released = v.released
  BY <1>1, <1>2, UnrefFields
<1> QED BY <1>2, <1>3, <1>16, <1>17 DEF h, c, rt2

\* A Bus may forget a BusObject it has released.
LEMMA DropSound ==
    ASSUME NEW s, NEW con, NEW rt, NEW box, NEW b \in Buses,
           Sound(s, con, rt, box), con[b] # None, s.released[con[b]] # 0
    PROVE  Sound(s, [con EXCEPT ![b] = None], rt, box)
<1> DEFINE con2 == [con EXCEPT ![b] = None]
<1>1. /\ con \in [Buses -> Handles \cup {None}] /\ con2 \in [Buses -> Handles \cup {None}]
      /\ con2[b] = None /\ \A d \in Buses \ {b} : con2[d] = con[d]
  BY DEF Sound, Shape
<1> HIDE DEF con2
<1>2. Shape(s, con2, rt, box)
  BY <1>1 DEF Sound, Shape
<1>3. HeldInv(s, con2)
  BY <1>1 DEF Sound, HeldInv
<1>4. ASSUME NEW d \in Buses, NEW c \in Conns
      PROVE  HoldsOn(s, con2, d, c) <=> HoldsOn(s, con, d, c)
  BY <1>1 DEF HoldsOn
<1>5. RouteInv(s, con2, rt)
  BY <1>4 DEF Sound, RouteInv, Shape
<1>6. NoticeInv(s, con2, rt, box)
  BY <1>4 DEF Sound, NoticeInv
<1> QED BY <1>2, <1>3, <1>5, <1>6 DEF Sound, con2

\* libdbus opens and shares a connection when none of the bus type is shared.
LEMMA OpenSound ==
    ASSUME NEW s, NEW con, NEW rt, NEW box, NEW c \in Conns, NEW n \in Names,
           Sound(s, con, rt, box), s.state[c] = "unused", s.shared[ConnType[c]] = None
    PROVE  Sound(Open(s, c, n), con, rt, box)
<1> DEFINE u == Open(s, c, n)
<1>1. /\ s \in Lib /\ ConnType[c] \in Types /\ c # None /\ n # None
      /\ box[c] = <<>> /\ s.refs[c] = 0 /\ \A h \in Handles : s.of[h] # c
  BY NoneAssumption, TypesAssumption DEF Sound, Shape, ConnsInv
<1>2. /\ u \in Lib
      /\ u.wake = s.wake /\ u.filters = s.filters /\ u.of = s.of /\ u.loop = s.loop
      /\ u.released = s.released /\ u.woken = s.woken
  BY <1>1, OpenFields
<1>3. /\ u.state[c] = "up" /\ u.name[c] = n /\ u.refs[c] = 1 /\ u.shared[ConnType[c]] = c
      /\ \A d \in Conns \ {c} : /\ u.state[d] = s.state[d] /\ u.name[d] = s.name[d]
                                /\ u.refs[d] = s.refs[d]
      /\ \A t \in Types \ {ConnType[c]} : u.shared[t] = s.shared[t]
  BY <1>1, OpenFields
<1> HIDE DEF u
<1>4. ~Contains(box[c], "Disconnected")
  <2>1. Len(box[c]) = 0
    BY <1>1
  <2> QED BY <2>1 DEF Contains
<1>5. Shape(u, con, rt, box)
  BY <1>2 DEF Sound, Shape
<1>6. HandlesInv(u) /\ HeldInv(u, con) /\ CalmInv(u)
  BY <1>2 DEF Sound, HandlesInv, HeldInv, CalmInv, Calm
<1>7. ConnsInv(u, box)
  <2>1. \A d \in Conns : (u.state[d] = "unused" <=> u.name[d] = None)
                         /\ (u.state[d] = "unused" => d # c)
    BY <1>1, <1>3 DEF Sound, ConnsInv
  <2>2. \A t \in Types : s.shared[t] # c
    BY <1>1 DEF Sound, ConnsInv, Lib
  <2>3. \A t \in Types : u.shared[t] # None =>
            /\ ConnType[u.shared[t]] = t
            /\ u.state[u.shared[t]] \in {"up", "gone"}
            /\ ~Contains(box[u.shared[t]], "Disconnected")
    <3> TAKE t \in Types
    <3>1. CASE t = ConnType[c]
      BY <1>3, <1>4, <3>1
    <3>2. CASE t # ConnType[c] /\ s.shared[t] # None
      <4>1. s.shared[t] \in Conns \ {c} /\ u.shared[t] = s.shared[t]
        BY <1>1, <1>3, <2>2, <3>2 DEF Lib
      <4> QED BY <1>3, <3>2, <4>1 DEF Sound, ConnsInv
    <3>3. CASE t # ConnType[c] /\ s.shared[t] = None
      BY <1>3, <3>3
    <3> QED BY <3>1, <3>2, <3>3
  <2>4. \A d \in Conns : u.state[d] = "up" => ~Contains(box[d], "Disconnected")
    BY <1>3, <1>4 DEF Sound, ConnsInv
  <2> QED BY <1>2, <1>3, <2>1, <2>3, <2>4 DEF Sound, ConnsInv
<1>8. ASSUME NEW d \in Conns
      PROVE  Balanced(u, d, box, 0)
  <2>1. CASE d # c
    <3>1. Balanced(s, d, box, 0)
      BY DEF Sound
    <3>2. \A t \in Types : u.shared[t] = d => s.shared[t] = d
      BY <1>3, <2>1
    <3>3. /\ u.of = s.of /\ u.released = s.released
          /\ u.refs[d] = s.refs[d] /\ u.state[d] = s.state[d]
      BY <1>2, <1>3, <2>1
    <3> QED BY <3>1, <3>2, <3>3, BalancedSame
  <2>2. CASE d = c
    <3>1. Live(u, c) = {}
      BY <1>1, <1>2 DEF Live
    <3>2. LibRef(u, c, box) = 1
      BY <1>3 DEF LibRef
    <3> QED BY <1>1, <1>3, <2>2, <3>1, <3>2, FS_EmptySet DEF Balanced
  <2> QED BY <2>1, <2>2
<1>9. ASSUME NEW b \in Buses, NEW d \in Conns, HoldsOn(u, con, b, d)
      PROVE  HoldsOn(s, con, b, d) /\ d # c
  BY <1>1, <1>2, <1>9 DEF HoldsOn, Sound, Shape
<1>10. RouteInv(u, con, rt)
  <2>1. SUFFICES ASSUME NEW m \in Names, rt[m] # None
                 PROVE  \E d \in Conns : HoldsOn(u, con, rt[m], d) /\ u.name[d] = m
    BY DEF RouteInv
  <2>2. PICK d \in Conns : HoldsOn(s, con, rt[m], d) /\ s.name[d] = m
    BY <2>1 DEF Sound, RouteInv
  <2>3. HoldsOn(u, con, rt[m], d) /\ rt[m] \in Buses
    BY <1>2, <2>1, <2>2 DEF HoldsOn, Sound, Shape
  <2> QED BY <1>3, <1>9, <2>2, <2>3
<1>11. NoticeInv(u, con, rt, box)
  <2>1. SUFFICES ASSUME NEW b \in Buses, NEW d \in Conns, HoldsOn(u, con, b, d),
                        ~(u.filters[d] > 1), ~SharedName(u, d)
                 PROVE  rt[u.name[d]] = b
                        /\ (u.state[d] = "up" \/ Contains(box[d], "Disconnected"))
    BY DEF NoticeInv
  <2>2. HoldsOn(s, con, b, d) /\ d # c /\ u.name[d] = s.name[d] /\ u.state[d] = s.state[d]
    BY <1>3, <1>9, <2>1
  <2>3. s.name[d] \in Names /\ s.name[c] = None
    <3>1. s.name[d] \in Names
      BY <2>2, HeldFacts DEF HoldsOn
    <3> QED BY <3>1 DEF Sound, ConnsInv
  <2>4. ~SharedName(s, d)
    BY <1>3, <2>1, <2>2, <2>3, NoneAssumption DEF SharedName
  <2> QED BY <1>2, <2>1, <2>2, <2>4 DEF Sound, NoticeInv
<1> QED BY <1>5, <1>6, <1>7, <1>8, <1>10, <1>11 DEF Sound, u

\* A new BusObject of b on the shared connection: every other Bus on it is exempt
\* from then on, b has the route.
LEMMA AttachSound ==
    ASSUME NEW s, NEW con, NEW rt, NEW box, NEW b \in Buses, NEW h \in Unused(s),
           NEW c \in Conns,
           Sound(s, con, rt, box), s.shared[BusType[b]] = c,
           con[b] = None \/ s.released[con[b]] # 0
    PROVE  Sound(Attach(s, h, c), [con EXCEPT ![b] = h], [rt EXCEPT ![s.name[c]] = b], box)
<1> DEFINE u == Attach(s, h, c)
           con2 == [con EXCEPT ![b] = h]
           rt2 == [rt EXCEPT ![s.name[c]] = b]
<1>1. /\ s \in Lib /\ h \in Handles /\ s.loop[h] = "unused" /\ c # None /\ h # None
      /\ b # None /\ BusType[b] \in Types
  BY NoneAssumption, TypesAssumption DEF Sound, Shape, Unused
<1>2. /\ u \in Lib
      /\ u.shared = s.shared /\ u.state = s.state /\ u.name = s.name
      /\ u.released = s.released
      /\ u.refs[c] = s.refs[c] + 1 /\ u.wake[c] = h
      /\ u.filters[c] = s.filters[c] + 1
      /\ \A d \in Conns \ {c} : /\ u.refs[d] = s.refs[d] /\ u.wake[d] = s.wake[d]
                                /\ u.filters[d] = s.filters[d]
      /\ u.of[h] = c /\ u.loop[h] = "active"
      /\ \A g \in Handles \ {h} :
           /\ u.of[g] = s.of[g]
           /\ u.loop[g] = s.loop[g] \/ (u.loop[g] = "closed" /\ g = s.wake[c])
      /\ u.woken \subseteq s.woken
  <2>1. s \in Lib /\ h \in Handles
    BY <1>1
  <2> QED BY <2>1, AttachFields
<1> HIDE DEF u
<1>3. /\ s.of[h] = None /\ s.released[h] = 0 /\ h \notin s.woken
  BY <1>1 DEF Sound, HandlesInv
<1>4. /\ ConnType[c] = BusType[b] /\ s.state[c] \in {"up", "gone"}
      /\ ~Contains(box[c], "Disconnected")
      /\ OnceReleased(s, c) => s.state[c] = "up"
  <2>1. Balanced(s, c, box, 0)
    BY DEF Sound
  <2> QED BY <1>1, <2>1 DEF Sound, ConnsInv, Balanced
<1>5. s.name[c] \in Names
  BY <1>1, <1>4 DEF Sound, ConnsInv, Lib
<1>6. /\ con \in [Buses -> Handles \cup {None}] /\ con2 \in [Buses -> Handles \cup {None}]
      /\ con2[b] = h /\ \A d \in Buses \ {b} : con2[d] = con[d]
      /\ rt \in [Names -> Buses \cup {None}] /\ rt2 \in [Names -> Buses \cup {None}]
      /\ rt2[s.name[c]] = b /\ \A n \in Names \ {s.name[c]} : rt2[n] = rt[n]
  BY <1>1, <1>5 DEF Sound, Shape
<1> HIDE DEF con2, rt2
<1>7. /\ u.of[h] = c /\ \A g \in Handles \ {h} : u.of[g] = s.of[g]
      /\ u.wake[c] = h /\ \A d \in Conns \ {c} : u.wake[d] = s.wake[d]
      /\ u.refs[c] = s.refs[c] + 1 /\ \A d \in Conns \ {c} : u.refs[d] = s.refs[d]
      /\ u.filters[c] = s.filters[c] + 1
      /\ \A d \in Conns \ {c} : u.filters[d] = s.filters[d]
      /\ \A d \in Conns : s.filters[d] \in Nat /\ s.refs[d] \in Nat
      /\ \A d \in Conns : s.wake[d] \in Handles \cup {None}
      /\ \A g \in Handles : s.of[g] \in Conns \cup {None}
  BY <1>1, <1>2 DEF Lib
<1>8. /\ \A g \in Handles : s.of[g] # None => g # h
      /\ \A d \in Buses : con[d] # h
  BY <1>1, <1>3 DEF Sound, HeldInv
<1>9. Shape(u, con2, rt2, box)
  BY <1>2, <1>6 DEF Sound, Shape
<1>10. HandlesInv(u)
  <2>1. \A g \in Handles \ {h} : (s.of[g] = None <=> s.loop[g] = "unused")
                                 /\ (g = s.wake[c] => s.of[g] = c)
    BY <1>1, NoneAssumption DEF Sound, HandlesInv
  <2>2. \A g \in Handles : u.of[g] = None <=> u.loop[g] = "unused"
    BY <1>1, <1>2, <1>7, <2>1
  <2>3. \A g \in Handles : u.of[g] = None => u.released[g] = 0 /\ g \notin u.woken
    BY <1>1, <1>2, <1>7 DEF Sound, HandlesInv
  <2>4. \A d \in Conns : u.wake[d] # None => u.of[u.wake[d]] = d
    BY <1>1, <1>7, <1>8, NoneAssumption DEF Sound, HandlesInv
  <2>5. \A g \in Handles : u.loop[g] = "active" => u.released[g] = 0
    BY <1>1, <1>2, <1>3 DEF Sound, HandlesInv
  <2> QED BY <2>2, <2>3, <2>4, <2>5 DEF HandlesInv
<1>11. HeldInv(u, con2)
  <2>1. \A d \in Buses : con2[d] # None =>
            u.of[con2[d]] # None /\ ConnType[u.of[con2[d]]] = BusType[d]
    <3> TAKE d \in Buses
    <3>1. CASE d = b
      BY <1>1, <1>4, <1>6, <1>7, <3>1
    <3>2. CASE d # b /\ con[d] # None
      <4>1. con[d] \in Handles \ {h} /\ con2[d] = con[d]
        BY <1>6, <1>8, <3>2
      <4> QED BY <1>7, <3>2, <4>1 DEF Sound, HeldInv
    <3>3. CASE d # b /\ con[d] = None
      BY <1>6, <3>3
    <3> QED BY <3>1, <3>2, <3>3
  <2>2. \A d, e \in Buses : con2[d] # None /\ con2[d] = con2[e] => d = e
    BY <1>6, <1>8 DEF Sound, HeldInv
  <2>3. \A g \in Handles : u.of[g] # None /\ u.released[g] = 0 =>
            \E d \in Buses : con2[d] = g
    <3>1. SUFFICES ASSUME NEW g \in Handles, u.of[g] # None, u.released[g] = 0
                   PROVE  \E d \in Buses : con2[d] = g
      OBVIOUS
    <3>2. CASE g = h
      BY <1>6, <3>2
    <3>3. CASE g # h
      <4>1. PICK d \in Buses : con[d] = g
        BY <1>2, <1>7, <3>1, <3>3 DEF Sound, HeldInv
      <4>2. d # b
        BY <1>2, <3>1, <4>1, NoneAssumption
      <4> QED BY <1>6, <4>1, <4>2
    <3> QED BY <3>2, <3>3
  <2> QED BY <2>1, <2>2, <2>3 DEF HeldInv
<1>12. ConnsInv(u, box)
  <2>1. \A d \in Conns : u.state[d] = "unused" =>
            box[d] = <<>> /\ u.refs[d] = 0 /\ \A g \in Handles : u.of[g] # d
    <3>1. SUFFICES ASSUME NEW d \in Conns, s.state[d] = "unused"
                   PROVE  box[d] = <<>> /\ u.refs[d] = 0 /\ \A g \in Handles : u.of[g] # d
      BY <1>2
    <3>2. d # c
      BY <1>4, <3>1
    <3> QED BY <1>7, <3>1, <3>2 DEF Sound, ConnsInv
  <2>2. \A g \in Handles : u.of[g] # None => u.filters[u.of[g]] >= 1
    BY <1>1, <1>7 DEF Sound, ConnsInv
  <2>3. ASSUME NEW x \in Handles, NEW y \in Handles, u.of[x] # None, u.of[x] = u.of[y], x # y
        PROVE  u.filters[u.of[x]] > 1
    <3>1. CASE u.of[x] = c
      <4>1. PICK g \in Handles \ {h} : s.of[g] = c
        BY <1>7, <2>3, <3>1
      <4>2. s.filters[c] >= 1
        BY <1>1, <4>1 DEF Sound, ConnsInv
      <4> QED BY <1>7, <3>1, <4>2
    <3>2. CASE u.of[x] # c
      <4>1. x # h /\ y # h /\ s.of[x] = u.of[x] /\ s.of[y] = u.of[x] /\ u.of[x] \in Conns \ {c}
        BY <1>7, <2>3, <3>2
      <4>2. s.filters[s.of[x]] > 1
        BY <2>3, <4>1 DEF Sound, ConnsInv
      <4> QED BY <1>7, <4>1, <4>2
    <3> QED BY <3>1, <3>2
  <2> QED BY <1>2, <2>1, <2>2, <2>3 DEF Sound, ConnsInv
<1>13. ASSUME NEW d \in Conns
       PROVE  Balanced(u, d, box, 0)
  <2>1. Balanced(s, d, box, 0)
    BY DEF Sound
  <2>2. CASE d # c
    <3>1. Live(u, d) = Live(s, d) /\ OnceReleased(u, d) = OnceReleased(s, d)
          /\ LibRef(u, d, box) = LibRef(s, d, box)
      BY <1>1, <1>2, <1>3, <1>7, <2>2, NoneAssumption DEF Live, OnceReleased, LibRef
    <3> QED BY <1>2, <1>7, <2>1, <2>2, <3>1 DEF Balanced
  <2>3. CASE d = c
    <3>1. Live(u, c) = Live(s, c) \cup {h} /\ h \notin Live(s, c)
      BY <1>1, <1>2, <1>3, <1>7 DEF Live
    <3>2. IsFiniteSet(Live(s, c))
      BY <2>1, <2>3 DEF Balanced
    <3>3. /\ IsFiniteSet(Live(u, c))
          /\ Cardinality(Live(u, c)) = Cardinality(Live(s, c)) + 1
      BY <3>1, <3>2, FS_AddElement
    <3>4. Cardinality(Live(s, c)) \in Nat /\ LibRef(s, c, box) \in {0, 1}
      BY <3>2, FS_CardinalityType DEF LibRef
    <3>5. OnceReleased(u, c) => OnceReleased(s, c)
      BY <1>2, <1>3, <1>7 DEF OnceReleased
    <3>6. LibRef(u, c, box) = LibRef(s, c, box)
      BY <1>2 DEF LibRef
    <3>7. s.shared[BusType[b]] = c /\ BusType[b] \in Types
      BY <1>1
    <3> QED BY <1>2, <1>7, <2>1, <2>3, <3>3, <3>4, <3>5, <3>6, <3>7 DEF Balanced
  <2> QED BY <2>2, <2>3
<1>14. CalmInv(u)
  <2>1. SUFFICES ASSUME Calm(u), NEW g \in Handles, u.of[g] # None, u.released[g] = 0
                 PROVE  u.loop[g] = "active"
    BY DEF CalmInv
  <2>2. s.filters[c] = 0
    <3>1. u.filters[c] <= 1
      BY <2>1 DEF Calm
    <3> QED BY <1>7, <3>1
  <2>3. \A d \in Conns : s.filters[d] <= 1
    BY <1>7, <2>1, <2>2 DEF Calm
  <2>4. Calm(s)
    BY <1>2, <2>1, <2>3 DEF Calm
  <2>5. s.wake[c] = None
    <3>1. SUFFICES ASSUME s.wake[c] # None PROVE FALSE
      OBVIOUS
    <3>2. s.wake[c] \in Handles /\ s.of[s.wake[c]] = c
      BY <1>7, <3>1 DEF Sound, HandlesInv
    <3>3. s.filters[c] >= 1
      BY <1>1, <3>2 DEF Sound, ConnsInv
    <3> QED BY <2>2, <3>3
  <2>6. CASE g = h
    BY <1>2, <2>6
  <2>7. CASE g # h
    BY <1>2, <1>7, <2>1, <2>4, <2>5, <2>7, NoneAssumption DEF Sound, CalmInv
  <2> QED BY <2>6, <2>7
<1>15. /\ \A e \in Conns : ~HoldsOn(s, con, b, e)
       /\ HoldsOn(u, con2, b, c)
       /\ \A e \in Conns : HoldsOn(u, con2, b, e) => e = c
  BY <1>1, <1>2, <1>3, <1>6, <1>7 DEF HoldsOn
<1>16. ASSUME NEW d \in Buses \ {b}, NEW e \in Conns
       PROVE  HoldsOn(u, con2, d, e) <=> HoldsOn(s, con, d, e)
  <2>1. CASE con[d] = None
    BY <1>6, <2>1 DEF HoldsOn
  <2>2. CASE con[d] # None
    <3>1. con[d] \in Handles \ {h}
      BY <1>6, <1>8, <2>2
    <3> QED BY <1>2, <1>6, <1>7, <3>1 DEF HoldsOn
  <2> QED BY <2>1, <2>2
<1>17. RouteInv(u, con2, rt2)
  <2>1. SUFFICES ASSUME NEW n \in Names, rt2[n] # None
                 PROVE  \E e \in Conns : HoldsOn(u, con2, rt2[n], e) /\ u.name[e] = n
    BY DEF RouteInv
  <2>2. CASE n = s.name[c]
    BY <1>2, <1>6, <1>15, <2>2
  <2>3. CASE n # s.name[c]
    <3>1. rt2[n] = rt[n] /\ rt[n] \in Buses
      BY <1>6, <2>1, <2>3
    <3>2. PICK e \in Conns : HoldsOn(s, con, rt[n], e) /\ s.name[e] = n
      BY <2>1, <3>1 DEF Sound, RouteInv
    <3>3. rt[n] # b
      BY <1>15, <3>2
    <3> QED BY <1>2, <1>16, <3>1, <3>2, <3>3
  <2> QED BY <2>2, <2>3
<1>18. NoticeInv(u, con2, rt2, box)
  <2>1. SUFFICES ASSUME NEW d \in Buses, NEW e \in Conns, HoldsOn(u, con2, d, e),
                        ~(u.filters[e] > 1), ~SharedName(s, e)
                 PROVE  rt2[s.name[e]] = d
                        /\ (s.state[e] = "up" \/ Contains(box[e], "Disconnected"))
    BY <1>2 DEF NoticeInv, SharedName
  <2>2. ASSUME e = c PROVE s.filters[c] = 0
    BY <1>7, <2>1, <2>2
  <2>3. \A g \in Handles : e = c => s.of[g] # c
    <3>1. SUFFICES ASSUME NEW g \in Handles, e = c, s.of[g] = c PROVE FALSE
      OBVIOUS
    <3>2. s.filters[c] >= 1
      BY <1>1, <3>1 DEF Sound, ConnsInv
    <3> QED BY <2>2, <3>1, <3>2
  <2>4. CASE d = b
    <3>1. e = c
      BY <1>15, <2>1, <2>4
    <3>2. OnceReleased(s, c)
      BY <2>3, <3>1 DEF OnceReleased
    <3> QED BY <1>4, <1>6, <2>4, <3>1, <3>2
  <2>5. CASE d # b
    <3>1. HoldsOn(s, con, d, e)
      BY <1>16, <2>1, <2>5
    <3>2. e # c
      BY <1>6, <2>3, <3>1 DEF HoldsOn
    <3>3. ~(s.filters[e] > 1)
      BY <1>7, <2>1, <3>2
    <3>4. rt[s.name[e]] = d /\ (s.state[e] = "up" \/ Contains(box[e], "Disconnected"))
      BY <2>1, <3>1, <3>3 DEF Sound, NoticeInv
    <3>5. s.name[e] \in Names
      BY <3>1, HeldFacts DEF HoldsOn
    <3>6. s.name[e] # s.name[c]
      BY <2>1, <3>2 DEF SharedName
    <3> QED BY <1>6, <3>4, <3>5, <3>6
  <2> QED BY <2>4, <2>5
<1> QED BY <1>9, <1>10, <1>11, <1>12, <1>13, <1>14, <1>17, <1>18 DEF Sound, u, con2, rt2

\* What stays once a connection was opened.
Grows(s, u) ==
    \A c \in Conns : s.state[c] # "unused" =>
        /\ u.state[c] # "unused" /\ u.name[c] = s.name[c]
        /\ u.filters[c] >= s.filters[c]

\* GetBus for b, which holds no BusObject: b gets a new one, on a connection that has
\* not been lost, and the route of its name.
LEMMA GetBusSound ==
    ASSUME NEW s, NEW con, NEW rt, NEW box, NEW b \in Buses,
           Sound(s, con, rt, box), con[b] = None \/ s.released[con[b]] # 0,
           NEW r \in GetBus(s, BusType[b])
    PROVE  /\ Sound(r.lib, [con EXCEPT ![b] = r.handle],
                    [rt EXCEPT ![RegisteredAs(r)] = b], box)
           /\ r.handle \in Handles /\ s.of[r.handle] = None
           /\ r.lib.of[r.handle] \in Conns
           /\ ~Contains(box[r.lib.of[r.handle]], "Disconnected")
           /\ \A g \in Handles \ {r.handle} : r.lib.of[g] = s.of[g]
           /\ r.lib.released = s.released
           /\ s.state[r.lib.of[r.handle]] = "unused"
                => r.lib.state[r.lib.of[r.handle]] = "up"
           /\ Grows(s, r.lib)
<1>1. s \in Lib /\ BusType[b] \in Types
  BY TypesAssumption DEF Sound, Shape
<1>2. ASSUME NEW h \in Unused(s), NEW c \in Conns, NEW w \in Lib,
             Sound(w, con, rt, box), w.shared[BusType[b]] = c,
             w.released = s.released, w.of = s.of, w.loop = s.loop, Grows(s, w),
             s.state[c] = "unused" => w.state[c] = "up",
             r = [lib |-> Attach(w, h, c), handle |-> h]
      PROVE  /\ Sound(r.lib, [con EXCEPT ![b] = r.handle],
                      [rt EXCEPT ![RegisteredAs(r)] = b], box)
             /\ r.handle \in Handles /\ s.of[r.handle] = None
             /\ r.lib.of[r.handle] \in Conns
             /\ ~Contains(box[r.lib.of[r.handle]], "Disconnected")
             /\ \A g \in Handles \ {r.handle} : r.lib.of[g] = s.of[g]
             /\ r.lib.released = s.released
             /\ s.state[r.lib.of[r.handle]] = "unused"
                  => r.lib.state[r.lib.of[r.handle]] = "up"
             /\ Grows(s, r.lib)
  <2> DEFINE u == Attach(w, h, c)
  <2>1. h \in Handles /\ h \in Unused(w) /\ r.lib = u /\ r.handle = h
    BY <1>2 DEF Unused
  <2>2. s.of[h] = None
    BY <2>1, <1>2 DEF Sound, HandlesInv, Unused
  <2>3. ~Contains(box[c], "Disconnected")
    BY <1>1, <1>2, NoneAssumption DEF Sound, ConnsInv
  <2>4. Sound(u, [con EXCEPT ![b] = h], [rt EXCEPT ![w.name[c]] = b], box)
    <3>1. con[b] = None \/ w.released[con[b]] # 0
      BY <1>2
    <3> QED BY <1>2, <2>1, <3>1, AttachSound
  <2>5. /\ u.name = w.name /\ u.state = w.state /\ u.released = w.released
        /\ u.filters[c] = w.filters[c] + 1
        /\ \A d \in Conns \ {c} : u.filters[d] = w.filters[d]
        /\ u.of[h] = c /\ \A g \in Handles \ {h} : u.of[g] = w.of[g]
    BY <2>1, <1>2, AttachFields
  <2>6. RegisteredAs(r) = w.name[c]
    BY <2>1, <2>5 DEF RegisteredAs
  <2>7. Grows(s, u)
    <3>1. \A d \in Conns : w.filters[d] \in Nat /\ s.filters[d] \in Nat
                           /\ u.filters[d] >= w.filters[d]
      BY <1>1, <1>2, <2>5 DEF Lib
    <3>2. \A d \in Conns : u.filters[d] \in Nat
      BY <1>2, <2>5, <3>1
    <3> QED BY <1>2, <2>5, <3>1, <3>2 DEF Grows
  <2> HIDE DEF u
  <2> QED BY <1>2, <2>1, <2>2, <2>3, <2>4, <2>5, <2>6, <2>7
<1>3. CASE s.shared[BusType[b]] # None
  <2>1. PICK h \in Unused(s) : r = [lib |-> Attach(s, h, s.shared[BusType[b]]), handle |-> h]
    BY <1>3 DEF GetBus
  <2>2. s.shared[BusType[b]] \in Conns /\ Grows(s, s)
    BY <1>1, <1>3 DEF Grows, Lib
  <2>3. s.state[s.shared[BusType[b]]] # "unused"
    BY <1>1, <1>3 DEF Sound, ConnsInv
  <2> QED BY <1>1, <1>2, <2>1, <2>2, <2>3
<1>4. CASE s.shared[BusType[b]] = None
  <2>1. PICK c \in {d \in Conns : ConnType[d] = BusType[b] /\ s.state[d] = "unused"} :
            r \in {[lib |-> Attach(Open(s, c, n), h, c), handle |-> h] :
                    n \in {x \in Names : FreshName(s, c, x)}, h \in Unused(s)}
    BY <1>4 DEF GetBus
  <2>2. PICK n \in Names, h \in Unused(s) :
            r = [lib |-> Attach(Open(s, c, n), h, c), handle |-> h]
    BY <2>1
  <2> DEFINE w == Open(s, c, n)
  <2>3. Sound(w, con, rt, box)
    BY <1>4, <2>1, OpenSound
  <2>4. /\ w \in Lib
        /\ w.filters = s.filters /\ w.of = s.of /\ w.loop = s.loop
        /\ w.released = s.released
        /\ w.shared[ConnType[c]] = c /\ w.state[c] = "up"
        /\ \A d \in Conns \ {c} : w.state[d] = s.state[d] /\ w.name[d] = s.name[d]
    <3>1. s \in Lib /\ c \in Conns /\ n \in Names
      BY <1>1, <2>1, <2>2
    <3> QED BY <3>1, OpenFields
  <2> HIDE DEF w
  <2>5. w.shared[BusType[b]] = c
    BY <1>1, <2>1, <2>4 DEF Lib
  <2>6. Grows(s, w)
    <3>1. \A d \in Conns : s.filters[d] \in Nat
      BY <1>1 DEF Lib
    <3> QED BY <1>1, <2>1, <2>4, <3>1 DEF Grows, Lib
  <2>7. r = [lib |-> Attach(w, h, c), handle |-> h]
    BY <2>2 DEF w
  <2> QED BY <1>2, <2>1, <2>3, <2>4, <2>5, <2>6, <2>7
<1> QED BY <1>3, <1>4

\* Bus.reconnect of b, whether it succeeds or throws: a sound state; b is on a connection
\* that has not been lost, or on none, and no other Bus gains one.
LEMMA ReconnectSound ==
    ASSUME Sound(lib, connection, route, inbox), NEW b \in Buses,
           NEW o \in ReconnectOutcomes(b)
    PROVE  /\ Sound(o.lib, [connection EXCEPT ![b] = o.handle], o.route, inbox)
           /\ Grows(lib, o.lib)
           /\ \A d \in Buses \ {b}, c \in Conns :
                HoldsOn(o.lib, [connection EXCEPT ![b] = o.handle], d, c)
                => HoldsOn(lib, connection, d, c)
           /\ \A c \in Conns : HoldsOn(o.lib, [connection EXCEPT ![b] = o.handle], b, c)
                => ~Contains(inbox[c], "Disconnected")
           /\ \A g \in Handles : g # connection[b] => o.lib.released[g] = lib.released[g]
           /\ o.handle \in Handles \cup {None}
           /\ o.handle # None =>
                /\ o.lib.of[o.handle] \in Conns
                /\ lib.state[o.lib.of[o.handle]] = "unused"
                    => o.lib.state[o.lib.of[o.handle]] = "up"
<1> DEFINE con2 == [connection EXCEPT ![b] = o.handle]
<1>1. /\ lib \in Lib /\ connection \in [Buses -> Handles \cup {None}]
      /\ \A c \in Conns : lib.filters[c] \in Nat
  BY DEF Sound, Shape, Lib
<1>2. PICK s \in Released(b) :
        \/ \E r \in GetBus(s, BusType[b]) :
            o = [lib |-> r.lib, handle |-> r.handle,
                 route |-> [RouteWithout(b) EXCEPT ![RegisteredAs(r)] = b]]
        \/ /\ s.shared[BusType[b]] = None
           /\ o = [lib |-> s, handle |-> connection[b], route |-> RouteWithout(b)]
  BY DEF ReconnectOutcomes
<1>3. /\ Sound(s, connection, RouteWithout(b), inbox)
      /\ s.shared = lib.shared /\ s.of = lib.of /\ Grows(lib, s)
      /\ \A c \in Conns : s.state[c] = "unused" <=> lib.state[c] = "unused"
      /\ connection[b] # None => s.released[connection[b]] # 0 /\ lib.of[connection[b]] # None
      /\ \A g \in Handles : g # connection[b] => s.released[g] = lib.released[g]
  <2>1. CASE connection[b] = None
    <3>1. s = lib /\ RouteWithout(b) = route
      BY <1>2, <2>1 DEF Released, RouteWithout
    <3> QED BY <1>1, <2>1, <3>1 DEF Grows
  <2>2. CASE connection[b] # None
    <3>1. /\ s \in UnInit(lib, connection[b])
          /\ RouteWithout(b) = [route EXCEPT ![lib.name[lib.of[connection[b]]]] = None]
      BY <1>2, <2>2 DEF Released, RouteWithout, NameOf
    <3>2. /\ Sound(s, connection, RouteWithout(b), inbox)
          /\ s.shared = lib.shared /\ s.name = lib.name /\ s.filters = lib.filters
          /\ s.of = lib.of
          /\ s.released =
                [lib.released EXCEPT ![connection[b]] = lib.released[connection[b]] + 1]
      <4>1. /\ Sound(s, connection,
                     [route EXCEPT ![lib.name[lib.of[connection[b]]]] = None], inbox)
            /\ s.shared = lib.shared /\ s.name = lib.name /\ s.filters = lib.filters
            /\ s.of = lib.of
            /\ s.released =
                [lib.released EXCEPT ![connection[b]] = lib.released[connection[b]] + 1]
        <5>1. s \in UnInit(lib, connection[b])
          BY <3>1
        <5> QED BY <2>2, <5>1, ReleaseSound
      <4> QED BY <3>1, <4>1
    <3>3. connection[b] \in Handles /\ lib.of[connection[b]] # None
      BY <1>1, <2>2 DEF Sound, HeldInv
    <3>4. lib.released[connection[b]] \in Nat /\ lib.released \in [Handles -> Nat]
      BY <1>1, <3>3 DEF Lib
    <3>5. \A c \in Conns : s.state[c] = "unused" <=> lib.state[c] = "unused"
      BY <3>2 DEF Sound, ConnsInv
    <3>6. Grows(lib, s)
      BY <1>1, <3>2, <3>5 DEF Grows
    <3> QED BY <3>2, <3>3, <3>4, <3>5, <3>6
  <2> QED BY <2>1, <2>2
<1>4. s \in Lib
  BY <1>3 DEF Sound, Shape
<1>5. ASSUME NEW r \in GetBus(s, BusType[b]),
             o = [lib |-> r.lib, handle |-> r.handle,
                  route |-> [RouteWithout(b) EXCEPT ![RegisteredAs(r)] = b]]
      PROVE  /\ Sound(o.lib, con2, o.route, inbox) /\ Grows(lib, o.lib)
             /\ o.handle \in Handles /\ lib.of[o.handle] = None
             /\ o.lib.released = s.released
             /\ \A g \in Handles \ {o.handle} : o.lib.of[g] = lib.of[g]
             /\ o.lib.of[o.handle] \in Conns
             /\ ~Contains(inbox[o.lib.of[o.handle]], "Disconnected")
             /\ lib.state[o.lib.of[o.handle]] = "unused"
                    => o.lib.state[o.lib.of[o.handle]] = "up"
  <2>1. connection[b] = None \/ s.released[connection[b]] # 0
    BY <1>3
  <2>2. /\ Sound(r.lib, [connection EXCEPT ![b] = r.handle],
                 [RouteWithout(b) EXCEPT ![RegisteredAs(r)] = b], inbox)
        /\ r.handle \in Handles /\ s.of[r.handle] = None
        /\ r.lib.of[r.handle] \in Conns
        /\ ~Contains(inbox[r.lib.of[r.handle]], "Disconnected")
        /\ \A g \in Handles \ {r.handle} : r.lib.of[g] = s.of[g]
        /\ r.lib.released = s.released
        /\ s.state[r.lib.of[r.handle]] = "unused"
             => r.lib.state[r.lib.of[r.handle]] = "up"
        /\ Grows(s, r.lib)
    BY <1>3, <2>1, GetBusSound
  <2>3. Grows(lib, r.lib)
    <3>1. \A c \in Conns : s.filters[c] \in Nat /\ r.lib.filters[c] \in Nat
      BY <1>4, <2>2 DEF Sound, Shape, Lib
    <3> QED BY <1>1, <1>3, <2>2, <3>1 DEF Grows
  <2> QED BY <1>3, <1>5, <2>2, <2>3
<1>6. CASE \E r \in GetBus(s, BusType[b]) :
            o = [lib |-> r.lib, handle |-> r.handle,
                 route |-> [RouteWithout(b) EXCEPT ![RegisteredAs(r)] = b]]
  <2>1. /\ Sound(o.lib, con2, o.route, inbox) /\ Grows(lib, o.lib)
        /\ o.handle \in Handles /\ lib.of[o.handle] = None
        /\ o.lib.released = s.released
        /\ \A g \in Handles \ {o.handle} : o.lib.of[g] = lib.of[g]
        /\ o.lib.of[o.handle] \in Conns
        /\ ~Contains(inbox[o.lib.of[o.handle]], "Disconnected")
        /\ lib.state[o.lib.of[o.handle]] = "unused"
               => o.lib.state[o.lib.of[o.handle]] = "up"
    BY <1>5, <1>6
  <2>2. con2[b] = o.handle /\ \A d \in Buses \ {b} : con2[d] = connection[d]
    BY <1>1
  <2> HIDE DEF con2
  <2>3. ASSUME NEW d \in Buses \ {b}, NEW c \in Conns, HoldsOn(o.lib, con2, d, c)
        PROVE  HoldsOn(lib, connection, d, c)
    <3>1. connection[d] \in Handles /\ lib.of[connection[d]] # None
      BY <1>1, <2>2, <2>3 DEF HoldsOn, Sound, HeldInv
    <3>2. connection[d] # o.handle /\ connection[d] # connection[b]
      BY <2>1, <3>1, NoneAssumption DEF Sound, HeldInv
    <3> QED BY <1>3, <2>1, <2>2, <2>3, <3>1, <3>2 DEF HoldsOn
  <2>4. \A c \in Conns : HoldsOn(o.lib, con2, b, c) => ~Contains(inbox[c], "Disconnected")
    BY <2>1, <2>2 DEF HoldsOn
  <2> QED BY <1>3, <2>1, <2>3, <2>4 DEF con2
<1>7. CASE /\ s.shared[BusType[b]] = None
           /\ o = [lib |-> s, handle |-> connection[b], route |-> RouteWithout(b)]
  <2>1. con2 = connection /\ o.lib = s /\ o.handle = connection[b]
        /\ o.route = RouteWithout(b)
    BY <1>1, <1>7
  <2>2. ASSUME NEW d \in Buses \ {b}, NEW c \in Conns, HoldsOn(s, connection, d, c)
        PROVE  HoldsOn(lib, connection, d, c)
    <3>1. connection[d] \in Handles /\ connection[d] # connection[b]
      BY <1>1, <2>2 DEF HoldsOn, Sound, HeldInv
    <3> QED BY <1>3, <2>2, <3>1 DEF HoldsOn
  <2>3. \A c \in Conns : ~HoldsOn(s, connection, b, c)
    BY <1>3 DEF HoldsOn
  <2>4. connection[b] # None =>
            lib.of[connection[b]] \in Conns /\ lib.state[lib.of[connection[b]]] # "unused"
    <3>1. connection[b] # None =>
            connection[b] \in Handles /\ lib.of[connection[b]] \in Conns
      BY <1>1, <1>3 DEF Lib
    <3> QED BY <1>1, <3>1 DEF Sound, ConnsInv
  <2> QED BY <1>1, <1>3, <1>7, <2>1, <2>2, <2>3, <2>4
<1> QED BY <1>2, <1>6, <1>7

-----------------------------------------------------------------------------
(* The inboxes.                                                            *)

\* Disconnected, if it is there, is the last message.
Ends(q) == \A i \in 1..Len(q) : q[i] = "Disconnected" => i = Len(q)

LEMMA AppendMessage ==
    ASSUME NEW q \in Seq(Messages), NEW m \in Messages
    PROVE  /\ Append(q, m) \in Seq(Messages) /\ Append(q, m) # <<>>
           /\ Contains(Append(q, m), "Disconnected")
                <=> Contains(q, "Disconnected") \/ m = "Disconnected"
           /\ ~Contains(q, "Disconnected") => Ends(Append(q, m))
<1> DEFINE p == Append(q, m)
<1>1. /\ p \in Seq(Messages) /\ Len(q) \in Nat /\ Len(p) = Len(q) + 1
      /\ p[Len(q) + 1] = m /\ \A i \in 1..Len(q) : p[i] = q[i]
  OBVIOUS
<1> HIDE DEF p
<1>2. p # <<>>
  BY <1>1
<1>3. \A i \in 1..Len(p) : i \in 1..Len(q) \/ i = Len(q) + 1
  BY <1>1
<1>4. (\A i \in 1..Len(q) : i \in 1..Len(p)) /\ Len(q) + 1 \in 1..Len(p)
  BY <1>1
<1>5. Contains(p, "Disconnected") <=> Contains(q, "Disconnected") \/ m = "Disconnected"
  BY <1>1, <1>3, <1>4 DEF Contains
<1>6. ~Contains(q, "Disconnected") => Ends(p)
  BY <1>1, <1>3 DEF Contains, Ends
<1> QED BY <1>1, <1>2, <1>5, <1>6 DEF p

LEMMA TailMessage ==
    ASSUME NEW q \in Seq(Messages), q # <<>>
    PROVE  /\ Tail(q) \in Seq(Messages)
           /\ Contains(q, "Disconnected")
                <=> Head(q) = "Disconnected" \/ Contains(Tail(q), "Disconnected")
           /\ Ends(q) => Ends(Tail(q))
           /\ Ends(q) /\ Head(q) = "Disconnected" => Tail(q) = <<>>
<1> DEFINE p == Tail(q)
<1>1. /\ p \in Seq(Messages) /\ Len(q) \in Nat /\ Len(q) > 0 /\ Len(p) = Len(q) - 1
      /\ Head(q) = q[1] /\ \A i \in 1..Len(p) : p[i] = q[i + 1]
  OBVIOUS
<1> HIDE DEF p
<1>2. Len(p) = 0 => p = <<>>
  <2>1. p \in Seq(Messages)
    BY <1>1
  <2> QED BY <2>1
<1>3. /\ \A i \in 1..Len(p) : i + 1 \in 1..Len(q)
      /\ \A i \in 1..Len(q) : i = 1 \/ (i - 1 \in 1..Len(p) /\ i - 1 + 1 = i)
      /\ 1 \in 1..Len(q)
  BY <1>1
<1>4. Contains(q, "Disconnected") => Head(q) = "Disconnected" \/ Contains(p, "Disconnected")
  <2>1. SUFFICES ASSUME NEW i \in 1..Len(q), q[i] = "Disconnected", Head(q) # "Disconnected"
                 PROVE  Contains(p, "Disconnected")
    BY DEF Contains
  <2>2. i - 1 \in 1..Len(p) /\ p[i - 1] = q[i]
    BY <1>1, <1>3, <2>1
  <2> QED BY <2>1, <2>2 DEF Contains
<1>5. Head(q) = "Disconnected" \/ Contains(p, "Disconnected") => Contains(q, "Disconnected")
  BY <1>1, <1>3 DEF Contains
<1>6. Ends(q) => Ends(p)
  <2>1. SUFFICES ASSUME Ends(q), NEW i \in 1..Len(p), p[i] = "Disconnected"
                 PROVE  i = Len(p)
    BY DEF Ends
  <2>2. i + 1 = Len(q)
    BY <1>1, <1>3, <2>1 DEF Ends
  <2> QED BY <1>1, <2>2
<1>7. Ends(q) /\ Head(q) = "Disconnected" => Len(q) = 1
  BY <1>1, <1>3 DEF Ends
<1> QED BY <1>1, <1>2, <1>4, <1>5, <1>6, <1>7 DEF p

\* A signal comes or goes.
LEMMA InboxSound ==
    ASSUME NEW s, NEW con, NEW rt, NEW box, NEW c \in Conns,
           NEW box2 \in [Conns -> Seq(Messages)],
           Sound(s, con, rt, box), s.state[c] # "unused",
           \A d \in Conns \ {c} : box2[d] = box[d],
           Contains(box2[c], "Disconnected") <=> Contains(box[c], "Disconnected"),
           Ends(box2[c]),
           OnceReleased(s, c) /\ box2[c] # <<>> => LibRef(s, c, box) = 1
    PROVE  Sound(s, con, rt, box2)
<1>1. \A d \in Conns : Contains(box2[d], "Disconnected") <=> Contains(box[d], "Disconnected")
  OBVIOUS
<1>2. Shape(s, con, rt, box2)
  BY DEF Sound, Shape
<1>3. ConnsInv(s, box2)
  <2>1. \A d \in Conns : \A i \in 1..Len(box2[d]) :
            box2[d][i] = "Disconnected" => i = Len(box2[d])
    BY DEF Sound, ConnsInv, Ends
  <2>2. \A t \in Types : s.shared[t] # None => s.shared[t] \in Conns
    BY DEF Sound, Shape, Lib
  <2>3. \A d \in Conns : s.state[d] = "unused" => box2[d] = box[d]
    OBVIOUS
  <2> QED BY <1>1, <2>1, <2>2, <2>3 DEF Sound, ConnsInv
<1>4. ASSUME NEW d \in Conns PROVE Balanced(s, d, box2, 0)
  <2>1. LibRef(s, d, box2) = LibRef(s, d, box) /\ Balanced(s, d, box, 0)
    BY <1>1 DEF LibRef, Sound
  <2> QED BY <2>1 DEF Balanced
<1>5. NoticeInv(s, con, rt, box2)
  BY <1>1 DEF Sound, NoticeInv
<1> QED BY <1>2, <1>3, <1>4, <1>5 DEF Sound

\* A connection that was opened by this step may have received a signal.
LEMMA GreetedSound ==
    ASSUME NEW s, NEW con, NEW rt, NEW box, NEW h \in Handles \cup {None},
           Sound(s, con, rt, box),
           h # None => s.of[h] \in Conns,
           h # None /\ lib.state[s.of[h]] = "unused" =>
                s.state[s.of[h]] = "up" /\ box[s.of[h]] = <<>>,
           NEW box2 \in Greeted(box, s, h)
    PROVE  Sound(s, con, rt, box2)
<1>1. CASE box2 = box
  BY <1>1
<1>2. CASE box2 # box
  <2>1. /\ h # None /\ lib.state[s.of[h]] = "unused"
        /\ box2 = [box EXCEPT ![s.of[h]] = <<"signal">>]
    BY <1>2 DEF Greeted
  <2>2. PICK c \in Conns : c = s.of[h]
    BY <2>1
  <2>3. s.state[c] = "up" /\ box[c] = <<>> /\ box \in [Conns -> Seq(Messages)]
    BY <2>1, <2>2 DEF Sound, Shape
  <2>4. PICK q : q = <<"signal">>
    OBVIOUS
  <2>5. /\ q \in Seq(Messages) /\ Ends(q) /\ ~Contains(q, "Disconnected")
    <3>1. q \in Seq(Messages) /\ Len(q) = 1 /\ q[1] = "signal"
      BY <2>4 DEF Messages
    <3>2. \A i \in 1..Len(q) : q[i] # "Disconnected"
      BY <3>1
    <3> QED BY <3>1, <3>2 DEF Ends, Contains
  <2>6. ~Contains(box[c], "Disconnected")
    BY <2>2, <2>3 DEF Sound, ConnsInv
  <2>7. box2[c] = q /\ \A d \in Conns \ {c} : box2[d] = box[d]
    BY <2>1, <2>2, <2>3, <2>4
  <2>8. box2 = [box EXCEPT ![c] = q]
    BY <2>1, <2>2, <2>4
  <2>9. box2 \in [Conns -> Seq(Messages)]
    BY <2>3, <2>5, <2>8
  <2>10. LibRef(s, c, box) = 1
    BY <2>3 DEF LibRef
  <2> QED BY <2>3, <2>5, <2>6, <2>7, <2>9, <2>10, InboxSound
<1> QED BY <1>1, <1>2

\* A uv_async is sent or served.
LEMMA WokenSound ==
    ASSUME NEW s, NEW con, NEW rt, NEW box, NEW u \in Lib,
           Sound(s, con, rt, box),
           u.shared = s.shared, u.state = s.state, u.name = s.name, u.refs = s.refs,
           u.wake = s.wake, u.filters = s.filters, u.of = s.of, u.loop = s.loop,
           u.released = s.released, \A h \in u.woken : s.of[h] # None
    PROVE  Sound(u, con, rt, box)
<1>1. Shape(u, con, rt, box) /\ HandlesInv(u) /\ HeldInv(u, con) /\ ConnsInv(u, box)
  BY DEF Sound, Shape, HandlesInv, HeldInv, ConnsInv
<1>2. \A c \in Conns : Balanced(u, c, box, 0)
  <2> TAKE c \in Conns
  <2>1. Balanced(s, c, box, 0)
    BY DEF Sound
  <2> QED BY <2>1, BalancedSame
<1>3. CalmInv(u) /\ RouteInv(u, con, rt) /\ NoticeInv(u, con, rt, box)
  BY DEF Sound, CalmInv, Calm, RouteInv, NoticeInv, HoldsOn, SharedName
<1> QED BY <1>1, <1>2, <1>3 DEF Sound

\* A connection is lost: libdbus keeps its reference for the Disconnected it queues.
LEMMA LoseSound ==
    ASSUME NEW s, NEW con, NEW rt, NEW box, NEW c \in Conns, NEW u \in Lib,
           NEW box2 \in [Conns -> Seq(Messages)],
           Sound(s, con, rt, box), s.state[c] = "up",
           u.name = s.name, u.refs = s.refs, u.wake = s.wake, u.filters = s.filters,
           u.of = s.of, u.loop = s.loop, u.released = s.released, u.woken = s.woken,
           u.state[c] = "down", \A d \in Conns \ {c} : u.state[d] = s.state[d],
           u.shared[ConnType[c]] = None,
           \A t \in Types \ {ConnType[c]} : u.shared[t] = s.shared[t],
           box2[c] = Append(box[c], "Disconnected"),
           \A d \in Conns \ {c} : box2[d] = box[d]
    PROVE  Sound(u, con, rt, box2)
<1>1. /\ ~Contains(box[c], "Disconnected") /\ box[c] \in Seq(Messages)
      /\ \A t \in Types : s.shared[t] = c => t = ConnType[c]
      /\ \A t \in Types : s.shared[t] \in Conns \cup {None}
  BY NoneAssumption DEF Sound, Shape, ConnsInv, Lib
<1>2. /\ Contains(box2[c], "Disconnected") /\ Ends(box2[c])
      /\ box2[c] # <<>>
  <2>1. "Disconnected" \in Messages
    BY DEF Messages
  <2>2. /\ Append(box[c], "Disconnected") # <<>>
        /\ Contains(Append(box[c], "Disconnected"), "Disconnected")
        /\ Ends(Append(box[c], "Disconnected"))
    BY <1>1, <2>1, AppendMessage
  <2> QED BY <2>2
<1>3. \A t \in Types : u.shared[t] # None => u.shared[t] = s.shared[t] /\ u.shared[t] # c
                                             /\ u.shared[t] \in Conns
  BY <1>1
<1>4. Shape(u, con, rt, box2) /\ HandlesInv(u) /\ HeldInv(u, con) /\ CalmInv(u)
      /\ RouteInv(u, con, rt)
  BY DEF Sound, Shape, HandlesInv, HeldInv, CalmInv, Calm, RouteInv, HoldsOn
<1>5. ConnsInv(u, box2)
  <2>1. \A d \in Conns : \A i \in 1..Len(box2[d]) :
            box2[d][i] = "Disconnected" => i = Len(box2[d])
    BY <1>2 DEF Sound, ConnsInv, Ends
  <2>2. \A d \in Conns : /\ u.state[d] = "unused" <=> s.state[d] = "unused"
                         /\ u.state[d] \in {"unused", "up"} => box2[d] = box[d] /\ d # c
    OBVIOUS
  <2>3. \A t \in Types : u.shared[t] # None =>
            /\ ConnType[u.shared[t]] = t
            /\ u.state[u.shared[t]] \in {"up", "gone"}
            /\ ~Contains(box2[u.shared[t]], "Disconnected")
    BY <1>3 DEF Sound, ConnsInv
  <2>4. \A d \in Conns : u.state[d] = "up" => ~Contains(box2[d], "Disconnected")
    BY <2>2 DEF Sound, ConnsInv
  <2> QED BY <2>1, <2>2, <2>3, <2>4 DEF Sound, ConnsInv
<1>6. ASSUME NEW d \in Conns PROVE Balanced(u, d, box2, 0)
  <2>1. Balanced(s, d, box, 0)
    BY DEF Sound
  <2>2. CASE d # c
    <3>1. \A t \in Types : u.shared[t] = d => s.shared[t] = d
      BY <1>3, NoneAssumption
    <3>2. u.refs[d] = s.refs[d] /\ u.state[d] = s.state[d] /\ box2[d] = box[d]
      BY <2>2
    <3> QED BY <2>1, <3>1, <3>2, BalancedSame
  <2>3. CASE d = c
    <3>1. LibRef(u, c, box2) = 1 /\ LibRef(s, c, box) = 1
      BY <1>2 DEF LibRef
    <3>2. Live(u, c) = Live(s, c) /\ OnceReleased(u, c) = OnceReleased(s, c)
      BY DEF Live, OnceReleased
    <3>3. \A t \in Types : u.shared[t] # c
      BY <1>3, NoneAssumption
    <3> QED BY <2>1, <2>3, <3>1, <3>2, <3>3 DEF Balanced
  <2> QED BY <2>2, <2>3
<1>7. NoticeInv(u, con, rt, box2)
  <2>1. ASSUME NEW d \in Conns, s.state[d] = "up" \/ Contains(box[d], "Disconnected")
        PROVE  u.state[d] = "up" \/ Contains(box2[d], "Disconnected")
    BY <1>2, <2>1
  <2> QED BY <2>1 DEF Sound, NoticeInv, HoldsOn, SharedName
<1> QED BY <1>4, <1>5, <1>6, <1>7 DEF Sound

\* Disconnected has been dispatched, and whoever is still on the connection is exempt:
\* libdbus drops its reference.
LEMMA DroppedSound ==
    ASSUME NEW s, NEW con, NEW rt, NEW box, NEW c \in Conns,
           NEW box2 \in [Conns -> Seq(Messages)],
           Sound(s, con, rt, box), box[c] # <<>>, Head(box[c]) = "Disconnected",
           box2[c] = Tail(box[c]), \A d \in Conns \ {c} : box2[d] = box[d],
           \A b \in Buses : HoldsOn(s, con, b, c) => s.filters[c] > 1 \/ SharedName(s, c)
    PROVE  Sound(Unref(s, c), con, rt, box2)
<1>1. box[c] \in Seq(Messages) /\ Ends(box[c])
  BY DEF Sound, Shape, ConnsInv, Ends
<1>2. Contains(box[c], "Disconnected") /\ box2[c] = <<>>
  BY <1>1, TailMessage
<1>3. ~Contains(box2[c], "Disconnected")
  <2>1. Len(box2[c]) = 0
    <3>1. box2[c] = <<>>
      BY <1>2
    <3>2. \A q : q = <<>> => Len(q) = 0
      OBVIOUS
    <3> QED BY <3>1, <3>2, Zenon
  <2> QED BY <2>1 DEF Contains
<1>4. s.state[c] # "up" /\ s.state[c] # "unused"
  BY <1>2 DEF Sound, ConnsInv
<1>5. Shape(s, con, rt, box2)
  BY DEF Sound, Shape
<1>6. ConnsInv(s, box2)
  <2>1. \A d \in Conns : \A i \in 1..Len(box2[d]) :
            box2[d][i] = "Disconnected" => i = Len(box2[d])
    <3> TAKE d \in Conns
    <3>1. CASE d = c
      <4>1. Len(box2[d]) = 0
        BY <1>2, <3>1
      <4> QED BY <4>1
    <3>2. CASE d # c
      BY <3>2 DEF Sound, ConnsInv
    <3> QED BY <3>1, <3>2
  <2>2. \A d \in Conns : s.state[d] = "unused" => box2[d] = box[d]
    BY <1>4
  <2>3. \A d \in Conns : Contains(box2[d], "Disconnected") => Contains(box[d], "Disconnected")
    BY <1>3
  <2>4. \A t \in Types : s.shared[t] # None => s.shared[t] \in Conns
    BY DEF Sound, Shape, Lib
  <2> QED BY <2>1, <2>2, <2>3, <2>4 DEF Sound, ConnsInv
<1>7. \A d \in Conns \ {c} : Balanced(s, d, box2, 0)
  <2> TAKE d \in Conns \ {c}
  <2>1. Balanced(s, d, box, 0)
    BY DEF Sound
  <2> QED BY <2>1, BalancedSame
<1>8. Balanced(s, c, box2, 1)
  <2>1. LibRef(s, c, box) = 1 /\ LibRef(s, c, box2) = 0 /\ Balanced(s, c, box, 0)
    BY <1>2, <1>3, <1>4 DEF LibRef, Sound
  <2>2. Cardinality(Live(s, c)) \in Nat
    BY <2>1, FS_CardinalityType DEF Balanced
  <2> QED BY <1>2, <2>1, <2>2 DEF Balanced
<1>9. NoticeInv(s, con, rt, box2)
  <2>1. ASSUME NEW b \in Buses, NEW d \in Conns \ {c}, HoldsOn(s, con, b, d)
        PROVE  \/ s.filters[d] > 1
               \/ SharedName(s, d)
               \/ rt[s.name[d]] = b /\ (s.state[d] = "up" \/ Contains(box2[d], "Disconnected"))
    BY <2>1 DEF Sound, NoticeInv
  <2> QED BY <2>1 DEF NoticeInv
<1>10. HandlesInv(s) /\ HeldInv(s, con) /\ CalmInv(s) /\ RouteInv(s, con, rt)
  BY DEF Sound
<1> QED BY <1>4, <1>5, <1>6, <1>7, <1>8, <1>9, <1>10, UnrefSound

-----------------------------------------------------------------------------
(* The steps.                                                              *)

LEMMA GrowsNames ==
    ASSUME NEW s, NEW u, NEW con, NEW rt, NEW box, NEW con2, NEW rt2, NEW box2,
           Sound(s, con, rt, box), Sound(u, con2, rt2, box2),
           u.name = s.name, u.filters = s.filters
    PROVE  Grows(s, u)
<1>1. \A c \in Conns : s.filters[c] \in Nat /\ (u.state[c] = "unused" <=> s.state[c] = "unused")
  BY DEF Sound, Shape, Lib, ConnsInv
<1> QED BY <1>1 DEF Grows

\* No step changes the names that the last signal is judged by.
LEMMA LoopKept ==
    ASSUME IInv, Grows(lib, lib'), UNCHANGED <<loopOn, timed, last>>,
           made' \subseteq Buses, \A b \in Buses : connection'[b] # None => b \in made'
    PROVE  LoopInv' /\ SignalFromOwnDaemon'
<1>1. LoopInv'
  BY DEF IInv, LoopInv, Grows
<1>2. ASSUME last.to # None, NEW c \in Conns,
             ConnType[c] # ConnType[last.from], lib.name[c] = lib.name[last.from]
      PROVE  lib'.name[c] = lib'.name[last.from]
  <2>1. last.from \in Conns /\ lib.state[last.from] # "unused"
    BY <1>2 DEF IInv, LoopInv
  <2>2. lib.state[c] # "unused"
    BY <1>2, <2>1 DEF IInv, Sound, ConnsInv
  <2> QED BY <1>2, <2>1, <2>2 DEF Grows
<1> QED BY <1>1, <1>2 DEF IInv, SignalFromOwnDaemon

LEMMA InitIInv == Init => IInv
<1> SUFFICES ASSUME Init PROVE IInv
  OBVIOUS
<1>1. /\ lib \in Lib /\ Shape(lib, connection, route, inbox)
  BY DEF Init, Shape, Lib
<1>2. /\ \A c \in Conns : /\ lib.state[c] = "unused" /\ lib.name[c] = None
                          /\ lib.refs[c] = 0 /\ lib.wake[c] = None
                          /\ lib.filters[c] = 0 /\ inbox[c] = <<>>
      /\ \A h \in Handles : lib.of[h] = None /\ lib.loop[h] = "unused" /\ lib.released[h] = 0
      /\ \A t \in Types : lib.shared[t] = None
      /\ lib.woken = {} /\ loopOn = None /\ timed = {} /\ made = {} /\ last = [from |-> None, to |-> None]
      /\ \A b \in Buses : connection[b] = None
      /\ \A n \in Names : route[n] = None
  BY DEF Init
<1>3. HandlesInv(lib) /\ HeldInv(lib, connection) /\ CalmInv(lib)
      /\ RouteInv(lib, connection, route) /\ NoticeInv(lib, connection, route, inbox)
  BY <1>2 DEF HandlesInv, HeldInv, CalmInv, RouteInv, NoticeInv, HoldsOn
<1>4. \A c \in Conns : Len(inbox[c]) = 0 /\ ~Contains(inbox[c], "Disconnected")
  <2>1. \A q : q = <<>> => Len(q) = 0
    OBVIOUS
  <2>2. \A c \in Conns : Len(inbox[c]) = 0
    BY <1>2, <2>1, Zenon
  <2> QED BY <2>2 DEF Contains
<1>5. ConnsInv(lib, inbox)
  <2>1. \A c \in Conns : \A i \in 1..Len(inbox[c]) :
            inbox[c][i] = "Disconnected" => i = Len(inbox[c])
    <3> TAKE c \in Conns
    <3>1. Len(inbox[c]) = 0
      BY <1>4
    <3> QED BY <3>1
  <2> QED BY <1>2, <1>4, <2>1, NoneAssumption DEF ConnsInv
<1>6. \A c \in Conns : Balanced(lib, c, inbox, 0)
  <2> TAKE c \in Conns
  <2>1. Live(lib, c) = {} /\ LibRef(lib, c, inbox) = 0
    BY <1>2, <1>4, NoneAssumption DEF Live, LibRef
  <2>2. \A t \in Types : lib.shared[t] # c
    BY <1>2, NoneAssumption
  <2> QED BY <1>2, <2>1, <2>2, FS_EmptySet DEF Balanced
<1> QED BY <1>1, <1>2, <1>3, <1>5, <1>6 DEF IInv, Sound, LoopInv, SignalFromOwnDaemon

LEMMA NewBusKeeps ==
    ASSUME IInv, NEW b \in Buses, NewBus(b)
    PROVE  IInv'
<1>1. PICK r \in GetBus(lib, BusType[b]) :
        /\ lib' = r.lib
        /\ connection' = [connection EXCEPT ![b] = r.handle]
        /\ route' = [route EXCEPT ![RegisteredAs(r)] = b]
        /\ inbox' \in Greeted(inbox, r.lib, r.handle)
  BY DEF NewBus
<1>2. Sound(lib, connection, route, inbox) /\ connection[b] = None
  BY DEF NewBus, IInv, LoopInv
<1>3. /\ Sound(r.lib, [connection EXCEPT ![b] = r.handle],
               [route EXCEPT ![RegisteredAs(r)] = b], inbox)
      /\ Grows(lib, r.lib) /\ r.handle \in Handles /\ r.lib.of[r.handle] \in Conns
      /\ lib.state[r.lib.of[r.handle]] = "unused"
            => r.lib.state[r.lib.of[r.handle]] = "up"
  BY <1>2, GetBusSound
<1>4. Sound(lib', connection', route', inbox') /\ Grows(lib, lib')
  <2>1. \A c \in Conns : lib.state[c] = "unused" => inbox[c] = <<>>
    BY <1>2 DEF Sound, ConnsInv
  <2>2. Sound(r.lib, [connection EXCEPT ![b] = r.handle],
              [route EXCEPT ![RegisteredAs(r)] = b], inbox')
    BY <1>1, <1>3, <2>1, GreetedSound
  <2> QED BY <1>1, <1>3, <2>2
<1>5. \A d \in Buses : connection'[d] # None => d \in made'
  BY <1>1, <1>2 DEF NewBus, IInv, LoopInv, Sound, Shape
<1>6. LoopInv' /\ SignalFromOwnDaemon'
  BY <1>4, <1>5, LoopKept DEF NewBus, IInv, LoopInv
<1> QED BY <1>4, <1>6 DEF IInv

LEMMA DisconnectKeeps ==
    ASSUME IInv, NEW b \in Buses, Disconnect(b)
    PROVE  IInv'
<1> DEFINE rt2 == [route EXCEPT ![lib.name[lib.of[connection[b]]]] = None]
<1>1. /\ connection[b] # None /\ lib' \in UnInit(lib, connection[b])
      /\ connection' = [connection EXCEPT ![b] = None] /\ route' = rt2
      /\ UNCHANGED <<made, inbox, loopOn, timed, last>>
  BY DEF Disconnect, NameOf
<1>2. Sound(lib, connection, route, inbox) /\ connection \in [Buses -> Handles \cup {None}]
  BY DEF IInv, Sound, Shape
<1>3. /\ Sound(lib', connection, rt2, inbox)
      /\ lib'.name = lib.name /\ lib'.filters = lib.filters
      /\ lib'.released =
            [lib.released EXCEPT ![connection[b]] = lib.released[connection[b]] + 1]
  <2>1. ASSUME NEW u \in UnInit(lib, connection[b])
        PROVE  /\ Sound(u, connection, rt2, inbox)
               /\ u.name = lib.name /\ u.filters = lib.filters
               /\ u.released =
                    [lib.released EXCEPT ![connection[b]] = lib.released[connection[b]] + 1]
    <3>1. connection[b] # None
      BY <1>1
    <3> QED BY <1>2, <2>1, <3>1, ReleaseSound
  <2> QED BY <1>1, <2>1
<1>4. lib'.released[connection[b]] # 0
  <2>1. connection[b] \in Handles
    BY <1>1, <1>2
  <2>2. lib.released[connection[b]] \in Nat /\ lib.released \in [Handles -> Nat]
    BY <1>2, <2>1 DEF Sound, Shape, Lib
  <2> QED BY <1>3, <2>1, <2>2
<1>5. Sound(lib', [connection EXCEPT ![b] = None], rt2, inbox)
  BY <1>1, <1>3, <1>4, DropSound
<1>6. Sound(lib', connection', route', inbox')
  BY <1>1, <1>5
<1>7. Grows(lib, lib')
  BY <1>2, <1>3, GrowsNames
<1>8. \A d \in Buses : connection'[d] # None => d \in made'
  BY <1>1, <1>2 DEF IInv, LoopInv
<1>9. LoopInv' /\ SignalFromOwnDaemon'
  BY <1>1, <1>7, <1>8, LoopKept DEF IInv, LoopInv
<1> QED BY <1>6, <1>9 DEF IInv

LEMMA ReconnectKeeps ==
    ASSUME IInv, NEW b \in Buses, Reconnect(b)
    PROVE  IInv'
<1>1. PICK o \in ReconnectOutcomes(b) :
        /\ lib' = o.lib
        /\ connection' = [connection EXCEPT ![b] = o.handle]
        /\ route' = o.route
        /\ inbox' \in Greeted(inbox, o.lib, o.handle)
  BY DEF Reconnect
<1>2. Sound(lib, connection, route, inbox)
  BY DEF IInv
<1>3. /\ Sound(o.lib, [connection EXCEPT ![b] = o.handle], o.route, inbox)
      /\ Grows(lib, o.lib) /\ o.handle \in Handles \cup {None}
      /\ o.handle # None =>
            /\ o.lib.of[o.handle] \in Conns
            /\ lib.state[o.lib.of[o.handle]] = "unused"
                => o.lib.state[o.lib.of[o.handle]] = "up"
  BY <1>2, ReconnectSound
<1>4. Sound(lib', connection', route', inbox') /\ Grows(lib, lib')
  <2>1. \A c \in Conns : lib.state[c] = "unused" => inbox[c] = <<>>
    BY <1>2 DEF Sound, ConnsInv
  <2>2. Sound(o.lib, [connection EXCEPT ![b] = o.handle], o.route, inbox')
    BY <1>1, <1>3, <2>1, GreetedSound
  <2> QED BY <1>1, <1>3, <2>2
<1>5. \A d \in Buses : connection'[d] # None => d \in made'
  BY <1>1, <1>2 DEF Reconnect, IInv, LoopInv, Sound, Shape
<1>6. LoopInv' /\ SignalFromOwnDaemon'
  BY <1>4, <1>5, LoopKept DEF Reconnect, IInv, LoopInv
<1> QED BY <1>4, <1>6 DEF IInv

\* connection_wakeup changes nothing but what was sent.
LEMMA WakeupSound ==
    ASSUME Sound(lib, connection, route, inbox), NEW c \in Conns
    PROVE  /\ Sound(Wakeup(c), connection, route, inbox)
           /\ Wakeup(c) = [lib EXCEPT !.woken = lib.woken \cup ({lib.wake[c]} \ {None})]
           /\ Wakeup(c) \in Lib
           /\ Wakeup(c).state = lib.state /\ Wakeup(c).shared = lib.shared
           /\ Wakeup(c).name = lib.name /\ Wakeup(c).filters = lib.filters
<1> DEFINE u == Wakeup(c)
           W == lib.woken \cup ({lib.wake[c]} \ {None})
<1>1. lib \in Lib /\ lib.wake[c] \in Handles \cup {None}
  BY DEF Sound, Shape, Lib
<1>2. u = [lib EXCEPT !.woken = W]
  BY DEF Wakeup
<1>3. W \subseteq Handles /\ \A h \in W : lib.of[h] # None
  <2>1. \A h \in lib.woken : h \in Handles /\ lib.of[h] # None
    BY <1>1 DEF Sound, HandlesInv, Lib
  <2>2. lib.wake[c] # None => lib.wake[c] \in Handles /\ lib.of[lib.wake[c]] # None
    BY <1>1, NoneAssumption DEF Sound, HandlesInv
  <2> QED BY <2>1, <2>2
<1> HIDE DEF W, u
<1>4. /\ u \in Lib /\ u.woken = W
      /\ u.shared = lib.shared /\ u.state = lib.state /\ u.name = lib.name
      /\ u.refs = lib.refs /\ u.wake = lib.wake /\ u.filters = lib.filters
      /\ u.of = lib.of /\ u.loop = lib.loop /\ u.released = lib.released
  BY <1>1, <1>2, <1>3 DEF Lib
<1>5. Sound(u, connection, route, inbox)
  BY <1>3, <1>4, WokenSound
<1> QED BY <1>2, <1>4, <1>5 DEF u, W

LEMMA ReceiveKeeps ==
    ASSUME IInv, NEW c \in Conns, Receive(c)
    PROVE  IInv'
<1>1. /\ lib.state[c] = "up" /\ inbox' = [inbox EXCEPT ![c] = Append(inbox[c], "signal")]
      /\ lib' = Wakeup(c) /\ UNCHANGED <<connection, made, route, loopOn, timed, last>>
  BY DEF Receive
<1>2. Sound(lib, connection, route, inbox) /\ inbox \in [Conns -> Seq(Messages)]
      /\ "signal" \in Messages
  BY DEF IInv, Sound, Shape, Messages
<1>3. /\ Sound(lib', connection, route, inbox)
      /\ lib'.state = lib.state /\ lib'.name = lib.name /\ lib'.filters = lib.filters
  BY <1>1, <1>2, WakeupSound
<1>4. /\ inbox'[c] = Append(inbox[c], "signal") /\ \A d \in Conns \ {c} : inbox'[d] = inbox[d]
      /\ inbox[c] \in Seq(Messages) /\ ~Contains(inbox[c], "Disconnected")
  BY <1>1, <1>2 DEF Sound, ConnsInv
<1>5. /\ inbox'[c] \in Seq(Messages) /\ Ends(inbox'[c])
      /\ ~Contains(inbox'[c], "Disconnected")
  BY <1>2, <1>4, AppendMessage
<1>6. inbox' \in [Conns -> Seq(Messages)]
  BY <1>1, <1>2, <1>4, <1>5
<1>7. LibRef(lib', c, inbox) = 1 /\ lib'.state[c] # "unused"
  BY <1>1, <1>3 DEF LibRef
<1>8. Sound(lib', connection, route, inbox')
  BY <1>3, <1>4, <1>5, <1>6, <1>7, InboxSound
<1>9. Grows(lib, lib')
  BY <1>2, <1>3, GrowsNames
<1>10. LoopInv' /\ SignalFromOwnDaemon'
  BY <1>1, <1>9, LoopKept DEF IInv, LoopInv
<1> QED BY <1>1, <1>8, <1>10 DEF IInv

LEMMA LoseKeeps ==
    ASSUME IInv, NEW c \in Conns, Lose(c)
    PROVE  IInv'
<1> DEFINE w == Wakeup(c)
<1>1. /\ lib.state[c] = "up" /\ inbox' = [inbox EXCEPT ![c] = Append(inbox[c], "Disconnected")]
      /\ lib' = [w EXCEPT !.state[c] = "down", !.shared[ConnType[c]] = None]
      /\ UNCHANGED <<connection, made, route, loopOn, timed, last>>
  BY DEF Lose
<1>2. Sound(lib, connection, route, inbox) /\ inbox \in [Conns -> Seq(Messages)]
      /\ "Disconnected" \in Messages /\ ConnType[c] \in Types
  BY TypesAssumption DEF IInv, Sound, Shape, Messages
<1>3. /\ Sound(w, connection, route, inbox) /\ w \in Lib
      /\ w.state = lib.state /\ w.name = lib.name /\ w.filters = lib.filters
  BY <1>2, WakeupSound
<1> HIDE DEF w
<1>4. /\ lib' \in Lib
      /\ lib'.name = w.name /\ lib'.refs = w.refs /\ lib'.wake = w.wake
      /\ lib'.filters = w.filters /\ lib'.of = w.of /\ lib'.loop = w.loop
      /\ lib'.released = w.released /\ lib'.woken = w.woken
      /\ lib'.state[c] = "down" /\ \A d \in Conns \ {c} : lib'.state[d] = w.state[d]
      /\ lib'.shared[ConnType[c]] = None
      /\ \A t \in Types \ {ConnType[c]} : lib'.shared[t] = w.shared[t]
  BY <1>1, <1>2, <1>3 DEF Lib
<1>5. /\ inbox'[c] = Append(inbox[c], "Disconnected")
      /\ \A d \in Conns \ {c} : inbox'[d] = inbox[d] /\ inbox[c] \in Seq(Messages)
  BY <1>1, <1>2
<1>6. inbox' \in [Conns -> Seq(Messages)]
  <2>1. Append(inbox[c], "Disconnected") \in Seq(Messages)
    BY <1>2, AppendMessage
  <2> QED BY <1>1, <1>2, <2>1
<1>7. Sound(lib', connection, route, inbox')
  <2>1. w.state[c] = "up"
    BY <1>1, <1>3
  <2> QED BY <1>3, <1>4, <1>5, <1>6, <2>1, LoseSound, SMTT(60)
<1>8. Grows(lib, lib')
  <2>1. lib'.name = lib.name /\ lib'.filters = lib.filters
    BY <1>3, <1>4
  <2> QED BY <1>2, <1>7, <2>1, GrowsNames
<1>9. LoopInv' /\ SignalFromOwnDaemon'
  BY <1>1, <1>8, LoopKept DEF IInv, LoopInv
<1> QED BY <1>1, <1>7, <1>9 DEF IInv

LEMMA EnterLoopKeeps ==
    ASSUME IInv, NEW h \in Handles, EnterLoop(h)
    PROVE  IInv'
<1>1. /\ h \in lib.woken /\ lib' = [lib EXCEPT !.woken = lib.woken \ {h}]
      /\ loopOn' = lib.of[h] /\ UNCHANGED <<connection, made, route, inbox, timed, last>>
  BY DEF EnterLoop
<1>2. Sound(lib, connection, route, inbox) /\ lib \in Lib
  BY DEF IInv, Sound, Shape
<1>3. /\ lib' \in Lib /\ lib'.woken = lib.woken \ {h}
      /\ lib'.shared = lib.shared /\ lib'.state = lib.state /\ lib'.name = lib.name
      /\ lib'.refs = lib.refs /\ lib'.wake = lib.wake /\ lib'.filters = lib.filters
      /\ lib'.of = lib.of /\ lib'.loop = lib.loop /\ lib'.released = lib.released
  BY <1>1, <1>2 DEF Lib
<1>4. \A g \in lib.woken : g \in Handles /\ lib.of[g] # None
  BY <1>2 DEF Sound, HandlesInv, Lib
<1>5. Sound(lib', connection, route, inbox)
  BY <1>2, <1>3, <1>4, WokenSound
<1>6. lib.of[h] \in Conns /\ lib.state[lib.of[h]] # "unused"
  BY <1>1, <1>2, <1>4, NoneAssumption DEF Sound, ConnsInv, Lib
<1>7. LoopInv'
  BY <1>1, <1>3, <1>6 DEF IInv, LoopInv
<1>8. SignalFromOwnDaemon'
  BY <1>1, <1>3 DEF IInv, SignalFromOwnDaemon
<1> QED BY <1>1, <1>5, <1>7, <1>8 DEF IInv

LEMMA LeaveLoopKeeps ==
    ASSUME IInv, LeaveLoop
    PROVE  IInv'
<1>1. LoopInv' /\ SignalFromOwnDaemon'
  BY DEF IInv, LoopInv, LeaveLoop, SignalFromOwnDaemon
<1> QED BY <1>1 DEF IInv, LeaveLoop

LEMMA DispatchSignalKeeps ==
    ASSUME IInv, DispatchSignal
    PROVE  IInv'
<1> DEFINE c == loopOn
<1>1. /\ c # None /\ inbox[c] # <<>> /\ Head(inbox[c]) = "signal"
      /\ inbox' = [inbox EXCEPT ![c] = Tail(inbox[c])]
      /\ last' = [from |-> c, to |-> route[lib.name[c]]]
      /\ UNCHANGED <<lib, connection, made, route, loopOn, timed>>
  BY DEF DispatchSignal
<1>2. /\ Sound(lib, connection, route, inbox) /\ inbox \in [Conns -> Seq(Messages)]
      /\ c \in Conns /\ lib.state[c] # "unused"
      /\ route \in [Names -> Buses \cup {None}]
  BY <1>1 DEF IInv, Sound, Shape, LoopInv
<1> HIDE DEF c
<1>3. /\ inbox'[c] = Tail(inbox[c]) /\ \A d \in Conns \ {c} : inbox'[d] = inbox[d]
      /\ inbox[c] \in Seq(Messages) /\ Ends(inbox[c])
  BY <1>1, <1>2 DEF Sound, ConnsInv, Ends
<1>4. /\ inbox'[c] \in Seq(Messages) /\ Ends(inbox'[c])
      /\ Contains(inbox'[c], "Disconnected") <=> Contains(inbox[c], "Disconnected")
  BY <1>1, <1>3, TailMessage
<1>5. inbox' \in [Conns -> Seq(Messages)]
  BY <1>1, <1>2, <1>3, <1>4
<1>6. OnceReleased(lib, c) => LibRef(lib, c, inbox) = 1
  BY <1>1, <1>2 DEF Sound, Balanced
<1>7. Sound(lib, connection, route, inbox')
  BY <1>2, <1>3, <1>4, <1>5, <1>6, InboxSound
<1>8. lib.name[c] \in Names
  BY <1>2 DEF Sound, Shape, ConnsInv, Lib
<1>9. LoopInv'
  BY <1>1, <1>2, <1>8, NoneAssumption DEF IInv, LoopInv
<1>10. SignalFromOwnDaemon'
  <2>1. SUFFICES ASSUME route[lib.name[c]] # None, ConnType[c] # BusType[route[lib.name[c]]]
                 PROVE  \E d \in Conns : ConnType[d] # ConnType[c] /\ lib.name[d] = lib.name[c]
    BY <1>1 DEF SignalFromOwnDaemon
  <2> DEFINE b == route[lib.name[c]]
  <2>2. PICK d \in Conns : HoldsOn(lib, connection, b, d) /\ lib.name[d] = lib.name[c]
    BY <1>2, <1>8, <2>1 DEF Sound, RouteInv
  <2>3. b \in Buses
    BY <1>2, <1>8, <2>1
  <2>4. ConnType[d] = BusType[b]
    BY <1>2, <2>2, <2>3 DEF HoldsOn, Sound, HeldInv
  <2> QED BY <2>1, <2>2, <2>4
<1> QED BY <1>1, <1>7, <1>9, <1>10 DEF IInv

LEMMA DispatchDisconnectedKeeps ==
    ASSUME IInv, DispatchDisconnected
    PROVE  IInv'
<1> DEFINE c == loopOn
           b == route[lib.name[loopOn]]
           box == [inbox EXCEPT ![loopOn] = Tail(inbox[loopOn])]
<1>1. /\ c # None /\ inbox[c] # <<>> /\ Head(inbox[c]) = "Disconnected"
      /\ UNCHANGED <<made, loopOn, timed, last>>
  BY DEF DispatchDisconnected
<1>2. \/ b = None /\ lib' = Unref(lib, c) /\ inbox' = box /\ UNCHANGED <<connection, route>>
      \/ b # None /\ \E o \in ReconnectOutcomes(b) :
            /\ lib' = Unref(o.lib, c)
            /\ connection' = [connection EXCEPT ![b] = o.handle]
            /\ route' = o.route
            /\ inbox' \in Greeted(box, o.lib, o.handle)
  BY DEF DispatchDisconnected
<1>3. /\ Sound(lib, connection, route, inbox) /\ inbox \in [Conns -> Seq(Messages)]
      /\ c \in Conns /\ lib.state[c] # "unused"
      /\ route \in [Names -> Buses \cup {None}] /\ lib \in Lib
      /\ connection \in [Buses -> Handles \cup {None}]
  BY <1>1 DEF IInv, Sound, Shape, LoopInv
<1>4. lib.name[c] \in Names
  BY <1>3 DEF Sound, ConnsInv, Lib
<1>5. b = route[lib.name[c]] /\ b \in Buses \cup {None}
  BY <1>3, <1>4
<1>0. box = [inbox EXCEPT ![c] = Tail(inbox[c])]
  OBVIOUS
<1> HIDE DEF c, b, box
<1>6. /\ box[c] = Tail(inbox[c]) /\ \A d \in Conns \ {c} : box[d] = inbox[d]
      /\ inbox[c] \in Seq(Messages)
  BY <1>0, <1>3
<1>7. box[c] \in Seq(Messages) /\ Contains(inbox[c], "Disconnected")
  BY <1>1, <1>6, TailMessage
<1>8. box \in [Conns -> Seq(Messages)]
  BY <1>0, <1>3, <1>7
<1>9. ASSUME NEW d \in Buses, HoldsOn(lib, connection, d, c), d # b
      PROVE  lib.filters[c] > 1 \/ SharedName(lib, c)
  BY <1>3, <1>5, <1>9 DEF Sound, NoticeInv
<1>10. CASE b = None /\ lib' = Unref(lib, c) /\ inbox' = box /\ UNCHANGED <<connection, route>>
  <2>1. \A d \in Buses : HoldsOn(lib, connection, d, c)
            => lib.filters[c] > 1 \/ SharedName(lib, c)
    BY <1>9, <1>10, NoneAssumption
  <2>2. Sound(Unref(lib, c), connection, route, box)
    BY <1>1, <1>3, <1>6, <1>8, <2>1, DroppedSound
  <2>3. lib'.name = lib.name /\ lib'.filters = lib.filters
    BY <1>3, <1>10, UnrefFields
  <2>4. Sound(lib', connection', route', inbox')
    BY <1>10, <2>2
  <2>5. Grows(lib, lib')
    BY <1>3, <2>3, <2>4, GrowsNames
  <2>6. LoopInv' /\ SignalFromOwnDaemon'
    BY <1>1, <1>10, <2>5, LoopKept DEF IInv, LoopInv
  <2> QED BY <2>4, <2>6 DEF IInv
<1>11. ASSUME b # None, NEW o \in ReconnectOutcomes(b), lib' = Unref(o.lib, c),
              connection' = [connection EXCEPT ![b] = o.handle], route' = o.route,
              inbox' \in Greeted(box, o.lib, o.handle)
       PROVE  IInv'
  <2> DEFINE con2 == [connection EXCEPT ![b] = o.handle]
  <2>1. b \in Buses
    BY <1>5, <1>11
  <2>2. /\ Sound(o.lib, con2, o.route, inbox) /\ Grows(lib, o.lib)
        /\ \A d \in Buses \ {b}, e \in Conns :
                HoldsOn(o.lib, con2, d, e) => HoldsOn(lib, connection, d, e)
        /\ \A e \in Conns : HoldsOn(o.lib, con2, b, e) => ~Contains(inbox[e], "Disconnected")
        /\ o.handle \in Handles \cup {None}
        /\ o.handle # None =>
              /\ o.lib.of[o.handle] \in Conns
              /\ lib.state[o.lib.of[o.handle]] = "unused"
                    => o.lib.state[o.lib.of[o.handle]] = "up"
    BY <1>3, <1>11, <2>1, ReconnectSound
  <2>3. connection' = con2
    BY <1>11
  <2>4. \A d \in Buses : connection'[d] # None => d \in made \/ d = b
    BY <1>3, <2>3 DEF IInv, LoopInv
  <2> HIDE DEF con2
  <2>5. o.lib \in Lib
    BY <2>2 DEF Sound, Shape
  <2>6. SharedName(lib, c) => SharedName(o.lib, c)
    <3>1. SUFFICES ASSUME NEW d \in Conns \ {c}, lib.name[d] = lib.name[c]
                   PROVE  o.lib.name[d] = o.lib.name[c]
      BY DEF SharedName
    <3>2. lib.state[d] # "unused"
      BY <1>3, <3>1 DEF Sound, ConnsInv
    <3> QED BY <1>3, <2>2, <3>1, <3>2 DEF Grows
  <2>7. lib.filters[c] > 1 => o.lib.filters[c] > 1
    <3>1. o.lib.filters[c] \in Nat /\ lib.filters[c] \in Nat /\ o.lib.filters[c] >= lib.filters[c]
      BY <1>3, <2>2, <2>5 DEF Grows, Lib
    <3> QED BY <3>1
  <2>8. \A d \in Buses : HoldsOn(o.lib, con2, d, c)
            => o.lib.filters[c] > 1 \/ SharedName(o.lib, c)
    BY <1>3, <1>7, <1>9, <2>2, <2>6, <2>7
  <2>9. Sound(Unref(o.lib, c), con2, o.route, box)
    BY <1>1, <1>3, <1>6, <1>8, <2>2, <2>8, DroppedSound
  <2>10. lib'.name = o.lib.name /\ lib'.filters = o.lib.filters
    BY <1>3, <1>11, <2>5, UnrefFields
  <2>11. Sound(lib', connection', route', inbox')
    <3>1. /\ lib'.of = o.lib.of
          /\ \A e \in Conns \ {c} : lib'.state[e] = o.lib.state[e]
      BY <1>3, <1>11, <2>5, UnrefFields
    <3>2. inbox' \in Greeted(box, lib', o.handle)
      BY <1>11, <3>1 DEF Greeted
    <3>3. Sound(lib', con2, o.route, box)
      BY <1>11, <2>9
    <3>4. \A e \in Conns : lib.state[e] = "unused" => e # c /\ box[e] = <<>>
      BY <1>3, <1>6 DEF Sound, ConnsInv
    <3>5. Sound(lib', con2, o.route, inbox')
      BY <2>2, <3>1, <3>2, <3>3, <3>4, GreetedSound
    <3> QED BY <1>11, <2>3, <3>5
  <2>12. Grows(o.lib, lib')
    BY <2>2, <2>10, <2>11, GrowsNames
  <2>13. Grows(lib, lib')
    <3>1. \A d \in Conns : /\ lib.filters[d] \in Nat /\ o.lib.filters[d] \in Nat
                           /\ lib'.filters[d] = o.lib.filters[d]
      BY <1>3, <2>5, <2>10 DEF Lib
    <3> QED BY <2>2, <2>12, <3>1 DEF Grows
  <2>14. connection[b] # None
    <3>1. PICK e \in Conns : HoldsOn(lib, connection, b, e)
      BY <1>3, <1>4, <1>5, <1>11 DEF Sound, RouteInv
    <3> QED BY <3>1 DEF HoldsOn
  <2>15. \A d \in Buses : connection'[d] # None => d \in made'
    BY <1>1, <2>1, <2>4, <2>14 DEF IInv, LoopInv
  <2>16. LoopInv' /\ SignalFromOwnDaemon'
    BY <1>1, <2>13, <2>15, LoopKept DEF IInv, LoopInv
  <2> QED BY <2>11, <2>16 DEF IInv
<1> QED BY <1>2, <1>10, <1>11

\* Timers of pending calls only show in timed.
LEMMA CallsKeep ==
    ASSUME IInv, (\E b \in Buses : StartCall(b)) \/ (\E c \in Conns : EndCalls(c))
    PROVE  IInv'
<1>1. timed' \subseteq Conns
  <2>1. CASE \E c \in Conns : EndCalls(c)
    BY <2>1 DEF EndCalls, IInv, LoopInv
  <2>2. ASSUME NEW b \in Buses, StartCall(b) PROVE timed' \subseteq Conns
    <3>1. connection[b] \in Handles /\ lib.of[connection[b]] \in Conns
      BY <2>2, HeldFacts DEF StartCall, IInv
    <3> QED BY <2>2, <3>1 DEF StartCall, IInv, LoopInv
  <2> QED BY <2>1, <2>2
<1>2. UNCHANGED <<lib, connection, made, route, inbox, loopOn, last>>
  BY DEF StartCall, EndCalls
<1> QED BY <1>1, <1>2 DEF IInv, LoopInv, SignalFromOwnDaemon

LEMMA NextIInv == IInv /\ [Next]_vars => IInv'
<1> SUFFICES ASSUME IInv, [Next]_vars PROVE IInv'
  OBVIOUS
<1>1. ASSUME NEW b \in Buses, NewBus(b) PROVE IInv'
  BY <1>1, NewBusKeeps
<1>2. ASSUME NEW b \in Buses, Disconnect(b) PROVE IInv'
  BY <1>2, DisconnectKeeps
<1>3. ASSUME NEW b \in Buses, Reconnect(b) PROVE IInv'
  BY <1>3, ReconnectKeeps
<1>4. ASSUME NEW c \in Conns, Receive(c) PROVE IInv'
  BY <1>4, ReceiveKeeps
<1>5. ASSUME NEW c \in Conns, Lose(c) PROVE IInv'
  BY <1>5, LoseKeeps
<1>6. ASSUME NEW h \in Handles, EnterLoop(h) PROVE IInv'
  BY <1>6, EnterLoopKeeps
<1>7. CASE DispatchSignal
  BY <1>7, DispatchSignalKeeps
<1>8. CASE DispatchDisconnected
  BY <1>8, DispatchDisconnectedKeeps
<1>9. CASE LeaveLoop
  BY <1>9, LeaveLoopKeeps
<1>10. CASE UNCHANGED vars
  BY <1>10 DEF IInv, LoopInv, SignalFromOwnDaemon, vars
<1>11. CASE (\E b \in Buses : StartCall(b)) \/ (\E c \in Conns : EndCalls(c))
  BY <1>11, CallsKeep
<1> QED BY <1>1, <1>2, <1>3, <1>4, <1>5, <1>6, <1>7, <1>8, <1>9, <1>10, <1>11 DEF Next

-----------------------------------------------------------------------------
(* The theorems.                                                           *)

\* The inductive invariant, of every reachable state.
THEOREM Invariant == Spec => []IInv
BY InitIInv, NextIInv, PTL DEF Spec

\* The native side, the Bus objects and the queues keep their types: in particular
\* Disconnected and signals are all that is dispatched.
THEOREM TypeCorrect == Spec => []TypeOK
<1>1. IInv => TypeOK
  BY DEF IInv, Sound, Shape, LoopInv, TypeOK
<1> QED BY <1>1, Invariant, PTL

\* DBus.signalHandlers only names Bus objects that hold a connection of that name,
\* through disconnects, failed reconnects and shared connections.
THEOREM RoutesToOwners == Spec => []RouteOwner
<1>1. ASSUME IInv, NEW n \in Names, route[n] # None
      PROVE  Holds(route[n]) /\ NameOf(connection[route[n]]) = n
  <2>1. PICK c \in Conns : HoldsOn(lib, connection, route[n], c) /\ lib.name[c] = n
    BY <1>1 DEF IInv, Sound, RouteInv
  <2> QED BY <2>1 DEF HoldsOn, Holds, NameOf
<1>2. IInv => RouteOwner
  BY <1>1 DEF RouteOwner
<1> QED BY <1>2, Invariant, PTL

\* Without a connected Bus no uv_async is referenced, however often handles were closed
\* by the next GetBus or unreferenced twice: only calls in flight keep Node running.
THEOREM NodeExits == Spec => []NodeMayExit
<1>1. ASSUME IInv, NEW h \in Handles, lib.loop[h] = "active"
      PROVE  \E b \in Buses : connection[b] # None
  <2>1. lib.released[h] = 0 /\ lib.of[h] # None
    BY <1>1 DEF IInv, Sound, HandlesInv
  <2>2. PICK b \in Buses : connection[b] = h
    BY <1>1, <2>1 DEF IInv, Sound, HeldInv
  <2> QED BY <1>1, <2>2, NoneAssumption
<1>2. IInv => NodeMayExit
  BY <1>1 DEF NodeMayExit, Disconnected, Alive, Handled
<1> QED BY <1>2, Invariant, PTL

\* A connected Bus keeps the event loop alive, unless a connection had a second
\* BusObject or a BusObject was released twice.
THEOREM StaysRunning == Spec => []KeepsRunning
<1>1. ASSUME IInv, NoDoubleRelease, \A c \in Conns : lib.filters[c] <= 1,
             NEW b \in Buses, Holds(b)
      PROVE  Handled
  <2>1. Calm(lib)
    BY <1>1 DEF NoDoubleRelease, Calm
  <2>2. connection[b] \in Handles /\ lib.of[connection[b]] # None
    BY <1>1 DEF IInv, Sound, Shape, HeldInv, Holds
  <2>3. lib.loop[connection[b]] = "active"
    BY <1>1, <2>1, <2>2 DEF IInv, Sound, CalmInv, Holds
  <2> QED BY <2>2, <2>3 DEF Handled
<1>2. IInv => KeepsRunning
  BY <1>1 DEF KeepsRunning
<1> QED BY <1>2, Invariant, PTL

\* Neither a Bus nor a dispatch loop with messages left is on a finalized connection:
\* the reference counts account for both, unless a BusObject was released twice.
THEOREM NothingDangles == Spec => []NoDangling
<1>1. ASSUME IInv, NoDoubleRelease, NEW c \in Conns
      PROVE  /\ OnceReleased(lib, c) /\ Balanced(lib, c, inbox, 0)
             /\ Cardinality(Live(lib, c)) \in Nat /\ IsFiniteSet(Live(lib, c))
             /\ LibRef(lib, c, inbox) \in {0, 1}
             /\ lib.state[c] = "gone" => Live(lib, c) = {} /\ LibRef(lib, c, inbox) = 0
  <2>1. OnceReleased(lib, c) /\ Balanced(lib, c, inbox, 0) /\ LibRef(lib, c, inbox) \in {0, 1}
    BY <1>1 DEF IInv, Sound, NoDoubleRelease, OnceReleased, LibRef
  <2>2. Cardinality(Live(lib, c)) \in Nat /\ IsFiniteSet(Live(lib, c))
    BY <2>1, FS_CardinalityType DEF Balanced
  <2>3. ASSUME lib.state[c] = "gone"
        PROVE  Cardinality(Live(lib, c)) = 0 /\ LibRef(lib, c, inbox) = 0
    <3>1. 0 = Cardinality(Live(lib, c)) + LibRef(lib, c, inbox) + 0
      BY <2>1, <2>3 DEF Balanced
    <3> QED BY <2>1, <2>2, <3>1
  <2>4. lib.state[c] = "gone" => Live(lib, c) = {}
    BY <2>2, <2>3, FS_EmptySet
  <2> QED BY <2>1, <2>2, <2>3, <2>4
<1>2. ASSUME IInv, NoDoubleRelease, NEW b \in Buses, Holds(b)
      PROVE  lib.state[ConnOf(b)] # "gone"
  <2>1. connection[b] \in Handles /\ ConnOf(b) \in Conns
    BY <1>2, HeldFacts DEF IInv, Holds, ConnOf
  <2>2. connection[b] \in Live(lib, ConnOf(b))
    BY <1>2, <2>1 DEF Live, ConnOf, Holds
  <2> QED BY <1>1, <1>2, <2>1, <2>2
<1>3. ASSUME IInv, NoDoubleRelease, loopOn # None, inbox[loopOn] # <<>>
      PROVE  lib.state[loopOn] # "gone"
  <2>1. loopOn \in Conns
    BY <1>3 DEF IInv, LoopInv
  <2>2. LibRef(lib, loopOn, inbox) = 1
    BY <1>1, <1>3, <2>1 DEF Balanced
  <2> QED BY <1>1, <1>3, <2>1, <2>2
<1>4. IInv => NoDangling
  BY <1>2, <1>3 DEF NoDangling
<1> QED BY <1>4, Invariant, PTL

\* Once Disconnected was dispatched, no Bus is left on the lost connection, unless
\* reconnect failed, the connection was shared or its name was given out twice.
THEOREM LossIsNoticed == Spec => []LostIsNoticed
<1>1. ASSUME IInv, NEW b \in Buses, Holds(b), lib.state[ConnOf(b)] # "up"
      PROVE  \/ Contains(inbox[ConnOf(b)], "Disconnected")
             \/ lib.filters[ConnOf(b)] > 1
             \/ \E c \in Conns \ {ConnOf(b)} : lib.name[c] = lib.name[ConnOf(b)]
  <2>1. ConnOf(b) \in Conns
    BY <1>1, HeldFacts DEF IInv, Holds, ConnOf
  <2>2. HoldsOn(lib, connection, b, ConnOf(b))
    BY <1>1 DEF Holds, HoldsOn, ConnOf
  <2> QED BY <1>1, <2>1, <2>2 DEF IInv, Sound, NoticeInv, SharedName
<1>2. IInv => LostIsNoticed
  BY <1>1 DEF LostIsNoticed
<1> QED BY <1>2, Invariant, PTL

\* A signal goes to a Bus of the daemon it came from, unless both daemons gave out the
\* same unique name.
THEOREM SignalsStayApart == Spec => []SignalFromOwnDaemon
<1>1. IInv => SignalFromOwnDaemon
  BY DEF IInv
<1> QED BY <1>1, Invariant, PTL

-----------------------------------------------------------------------------
(***************************************************************************)
(* Wakeups.  A native operation that takes s to u keeps what the uv_async  *)
(* handles were sent, but for the handle of a connection that it runs Init *)
(* on or finalizes; and a connection that is up has a handle to send.      *)
(***************************************************************************)
InitRan(s, u, c) == \E h \in Handles : s.of[h] = None /\ u.of[h] = c

Advances(s, u) ==
    /\ \A h \in Handles : s.of[h] # None => u.of[h] = s.of[h]
    /\ \A c \in Conns : s.state[c] = "gone" => u.state[c] = "gone"
    /\ \A c \in Conns : s.wake[c] # None => u.wake[c] # None
    /\ \A c \in Conns : u.state[c] = "up" => s.state[c] = "up" \/ u.wake[c] # None
    /\ \A c \in Conns : s.wake[c] \in s.woken =>
        u.wake[c] \in u.woken \/ InitRan(s, u, c) \/ u.state[c] = "gone"

WakesApart(s) == \A c \in Conns : s.wake[c] # None => s.of[s.wake[c]] = c

WakeInv == \A c \in Conns : lib.state[c] = "up" => lib.wake[c] # None

\* Two operations in a row.
LEMMA AdvancesTrans ==
    ASSUME NEW s, NEW u, NEW w, Advances(s, u), Advances(u, w)
    PROVE  Advances(s, w)
<1>1. ASSUME NEW c \in Conns, InitRan(s, u, c) \/ InitRan(u, w, c) PROVE InitRan(s, w, c)
  <2>1. CASE InitRan(s, u, c)
    <3>1. PICK h \in Handles : s.of[h] = None /\ u.of[h] = c
      BY <2>1 DEF InitRan
    <3>2. w.of[h] = c
      BY <3>1, NoneAssumption DEF Advances
    <3> QED BY <3>1, <3>2 DEF InitRan
  <2>2. CASE InitRan(u, w, c)
    <3>1. PICK h \in Handles : u.of[h] = None /\ w.of[h] = c
      BY <2>2 DEF InitRan
    <3>2. s.of[h] = None
      BY <3>1 DEF Advances
    <3> QED BY <3>1, <3>2 DEF InitRan
  <2> QED BY <1>1, <2>1, <2>2
<1>2. /\ \A h \in Handles : s.of[h] # None => w.of[h] = s.of[h]
      /\ \A c \in Conns : s.state[c] = "gone" => w.state[c] = "gone"
      /\ \A c \in Conns : s.wake[c] # None => w.wake[c] # None
      /\ \A c \in Conns : w.state[c] = "up" => s.state[c] = "up" \/ w.wake[c] # None
  BY DEF Advances
<1>3. ASSUME NEW c \in Conns, s.wake[c] \in s.woken
      PROVE  w.wake[c] \in w.woken \/ InitRan(s, w, c) \/ w.state[c] = "gone"
  BY <1>1, <1>3 DEF Advances
<1> QED BY <1>2, <1>3 DEF Advances

\* A handle that was sent wakes one connection.
LEMMA WokenApart ==
    ASSUME NEW s \in Lib, WakesApart(s), NEW c \in Conns, NEW d \in Conns \ {c},
           s.wake[d] \in s.woken
    PROVE  s.wake[d] \in s.woken \ {s.wake[c]}
<1>1. s.wake[d] \in Handles /\ s.wake[d] # None
  BY NoneAssumption DEF Lib
<1> QED BY <1>1 DEF WakesApart

\* Dropping a reference only closes the handle of a connection that is gone then.
LEMMA UnrefAdvances ==
    ASSUME NEW s \in Lib, WakesApart(s), NEW c \in Conns
    PROVE  Advances(s, Unref(s, c))
<1>1. PICK u : u = Unref(s, c)
  OBVIOUS
<1>2. /\ u.wake = s.wake /\ u.of = s.of
      /\ \A d \in Conns \ {c} : u.state[d] = s.state[d]
      /\ s.woken \ {s.wake[c]} \subseteq u.woken
      /\ u.woken = s.woken \/ u.state[c] = "gone"
      /\ u.state[c] = s.state[c] \/ u.state[c] = "gone"
  BY <1>1, UnrefFields
<1>3. ASSUME NEW d \in Conns, s.wake[d] \in s.woken
      PROVE  u.wake[d] \in u.woken \/ u.state[d] = "gone"
  <2>1. CASE d = c
    BY <1>2, <1>3, <2>1
  <2>2. CASE d # c
    BY <1>2, <1>3, <2>2, WokenApart
  <2> QED BY <2>1, <2>2
<1>4. Advances(s, u)
  BY <1>2, <1>3 DEF Advances
<1> QED BY <1>1, <1>4

\* UnInit sends nothing and closes nothing else.
LEMMA UnInitAdvances ==
    ASSUME NEW s \in Lib, WakesApart(s), NEW h \in Handles, s.of[h] \in Conns,
           NEW u \in UnInit(s, h)
    PROVE  Advances(s, u)
<1>1. PICK v \in Lib :
        /\ u = Unref(v, s.of[h])
        /\ v.shared = s.shared /\ v.state = s.state /\ v.name = s.name
        /\ v.refs = s.refs /\ v.wake = s.wake /\ v.filters = s.filters
        /\ v.of = s.of /\ v.woken = s.woken
        /\ v.released = [s.released EXCEPT ![h] = s.released[h] + 1]
        /\ Unreffed(s, h, v.loop)
  BY UnInitFields
<1>2. Advances(s, v) /\ WakesApart(v)
  BY <1>1 DEF Advances, WakesApart
<1>3. Advances(v, u)
  BY <1>1, <1>2, UnrefAdvances
<1> QED BY <1>2, <1>3, AdvancesTrans

\* Init moves the wakeup of its connection only, which is open before or just opened.
LEMMA AttachAdvances ==
    ASSUME NEW s \in Lib, NEW w \in Lib, WakesApart(s), NEW c \in Conns, NEW h \in Handles,
           s.of[h] = None, w.wake = s.wake, w.of = s.of, w.woken = s.woken,
           \A d \in Conns \ {c} : w.state[d] = s.state[d],
           s.state[c] = "gone" => w.state[c] = "gone"
    PROVE  Advances(s, Attach(w, h, c))
<1>1. PICK u : u = Attach(w, h, c)
  OBVIOUS
<1>2. /\ u.state = w.state /\ u.wake[c] = h /\ u.of[h] = c
      /\ \A d \in Conns \ {c} : u.wake[d] = w.wake[d]
      /\ \A g \in Handles \ {h} : u.of[g] = w.of[g]
      /\ w.woken \ {w.wake[c]} \subseteq u.woken
  BY <1>1, AttachFields
<1>3. InitRan(s, u, c) /\ h # None
  BY <1>2, NoneAssumption DEF InitRan
<1>4. ASSUME NEW d \in Conns, s.wake[d] \in s.woken
      PROVE  u.wake[d] \in u.woken \/ InitRan(s, u, d)
  <2>1. CASE d = c
    BY <1>3, <2>1
  <2>2. CASE d # c
    BY <1>2, <1>4, <2>2, WokenApart
  <2> QED BY <2>1, <2>2
<1>5. Advances(s, u)
  BY <1>2, <1>3, <1>4 DEF Advances
<1> QED BY <1>1, <1>5

LEMMA GetBusAdvances ==
    ASSUME NEW s \in Lib, HandlesInv(s), NEW t \in Types, NEW r \in GetBus(s, t)
    PROVE  Advances(s, r.lib)
<1>1. WakesApart(s) /\ \A h \in Unused(s) : h \in Handles /\ s.of[h] = None
  BY DEF HandlesInv, WakesApart, Unused
<1>2. CASE s.shared[t] # None
  <2>1. PICK h \in Unused(s) : r = [lib |-> Attach(s, h, s.shared[t]), handle |-> h]
    BY <1>2 DEF GetBus
  <2>2. PICK c \in Conns : c = s.shared[t]
    BY <1>2 DEF Lib
  <2>3. Advances(s, Attach(s, h, c))
    BY <1>1, AttachAdvances
  <2> QED BY <2>1, <2>2, <2>3
<1>3. CASE s.shared[t] = None
  <2>1. PICK c \in {d \in Conns : ConnType[d] = t /\ s.state[d] = "unused"} :
            r \in {[lib |-> Attach(Open(s, c, n), h, c), handle |-> h] :
                    n \in {x \in Names : FreshName(s, c, x)}, h \in Unused(s)}
    BY <1>3 DEF GetBus
  <2>2. PICK n \in Names, h \in Unused(s) :
            r = [lib |-> Attach(Open(s, c, n), h, c), handle |-> h]
    BY <2>1
  <2>3. PICK w : w = Open(s, c, n)
    OBVIOUS
  <2>4. /\ w \in Lib /\ w.wake = s.wake /\ w.of = s.of /\ w.woken = s.woken
        /\ \A d \in Conns \ {c} : w.state[d] = s.state[d]
    BY <2>1, <2>3, OpenFields
  <2>5. Advances(s, Attach(w, h, c))
    BY <1>1, <2>1, <2>4, AttachAdvances
  <2> QED BY <2>2, <2>3, <2>5
<1> QED BY <1>2, <1>3

LEMMA ReconnectAdvances ==
    ASSUME Sound(lib, connection, route, inbox), NEW b \in Buses,
           NEW o \in ReconnectOutcomes(b)
    PROVE  Advances(lib, o.lib)
<1>1. PICK s \in Released(b) :
        (\E r \in GetBus(s, BusType[b]) : o.lib = r.lib) \/ o.lib = s
  <2>1. PICK s \in Released(b) :
        \/ \E r \in GetBus(s, BusType[b]) :
            o = [lib |-> r.lib, handle |-> r.handle,
                 route |-> [RouteWithout(b) EXCEPT ![RegisteredAs(r)] = b]]
        \/ /\ s.shared[BusType[b]] = None
           /\ o = [lib |-> s, handle |-> connection[b], route |-> RouteWithout(b)]
    BY DEF ReconnectOutcomes
  <2>2. ASSUME NEW r \in GetBus(s, BusType[b]),
               o = [lib |-> r.lib, handle |-> r.handle,
                    route |-> [RouteWithout(b) EXCEPT ![RegisteredAs(r)] = b]]
        PROVE  o.lib = r.lib
    BY <2>2
  <2> QED BY <2>1, <2>2
<1>2. lib \in Lib /\ HandlesInv(lib) /\ WakesApart(lib) /\ BusType[b] \in Types
  BY TypesAssumption DEF Sound, Shape, HandlesInv, WakesApart
<1>3. s \in Lib /\ HandlesInv(s) /\ Advances(lib, s)
  <2>1. CASE connection[b] = None
    <3>1. s = lib
      BY <2>1 DEF Released
    <3> QED BY <1>2, <3>1 DEF Advances
  <2>2. CASE connection[b] # None
    <3>1. s \in UnInit(lib, connection[b])
      BY <2>2 DEF Released
    <3>2. connection[b] \in Handles /\ lib.of[connection[b]] \in Conns
      BY <2>2, HeldFacts
    <3>3. Advances(lib, s)
      BY <1>2, <3>1, <3>2, UnInitAdvances
    <3>4. Sound(s, connection,
                [route EXCEPT ![lib.name[lib.of[connection[b]]]] = None], inbox)
      BY <2>2, <3>1, ReleaseSound
    <3> QED BY <3>3, <3>4 DEF Sound, Shape
  <2> QED BY <2>1, <2>2
<1>4. ASSUME NEW r \in GetBus(s, BusType[b]), o.lib = r.lib PROVE Advances(lib, o.lib)
  <2>1. Advances(s, r.lib)
    BY <1>2, <1>3, GetBusAdvances
  <2> QED BY <1>3, <1>4, <2>1, AdvancesTrans
<1> QED BY <1>1, <1>3, <1>4

\* What each step does to wakeups: only the dispatch loop takes one.
LEMMA StepAdvances ==
    ASSUME IInv, WakeInv, Next
    PROVE  Advances(lib, lib') \/ \E h \in Handles : EnterLoop(h)
<1>1. /\ Sound(lib, connection, route, inbox) /\ lib \in Lib /\ HandlesInv(lib)
      /\ WakesApart(lib) /\ BusType \in [Buses -> Types]
  BY TypesAssumption DEF IInv, Sound, Shape, HandlesInv, WakesApart
<1>2. ASSUME NEW b \in Buses, NewBus(b) PROVE Advances(lib, lib')
  <2>1. PICK r \in GetBus(lib, BusType[b]) : lib' = r.lib
    BY <1>2 DEF NewBus
  <2> QED BY <1>1, <2>1, GetBusAdvances
<1>3. ASSUME NEW b \in Buses, Disconnect(b) PROVE Advances(lib, lib')
  <2>1. connection[b] \in Handles /\ lib.of[connection[b]] \in Conns
    BY <1>1, <1>3, HeldFacts DEF Disconnect
  <2> QED BY <1>1, <1>3, <2>1, UnInitAdvances DEF Disconnect
<1>4. ASSUME NEW b \in Buses, Reconnect(b) PROVE Advances(lib, lib')
  <2>1. PICK o \in ReconnectOutcomes(b) : lib' = o.lib
    BY <1>4 DEF Reconnect
  <2> QED BY <1>1, <2>1, ReconnectAdvances
<1>5. ASSUME NEW c \in Conns PROVE Advances(lib, Wakeup(c))
  <2>1. PICK W : W = lib.woken \cup ({lib.wake[c]} \ {None})
    OBVIOUS
  <2>2. PICK u : u = [lib EXCEPT !.woken = W]
    OBVIOUS
  <2>3. /\ u.of = lib.of /\ u.state = lib.state /\ u.wake = lib.wake /\ u.woken = W
    BY <1>1, <2>2 DEF Lib
  <2>4. Advances(lib, u)
    BY <2>1, <2>3 DEF Advances
  <2>5. u = Wakeup(c)
    BY <2>1, <2>2 DEF Wakeup
  <2> QED BY <2>4, <2>5
<1>6. ASSUME NEW c \in Conns, Lose(c) PROVE Advances(lib, lib')
  <2>1. PICK w : w = Wakeup(c)
    OBVIOUS
  <2>2. w \in Lib /\ w.state = lib.state
    BY <1>1, <2>1, WakeupSound
  <2>3. lib' = [w EXCEPT !.state[c] = "down", !.shared[ConnType[c]] = None]
    BY <1>6, <2>1 DEF Lose
  <2>4. /\ lib'.of = w.of /\ lib'.wake = w.wake /\ lib'.woken = w.woken
        /\ lib'.state = [w.state EXCEPT ![c] = "down"]
    BY <2>2, <2>3 DEF Lib
  <2>5. lib.state[c] = "up" /\ w.state \in [Conns -> {"unused", "up", "down", "gone"}]
    BY <1>6, <2>2 DEF Lose, Lib
  <2>6. /\ \A d \in Conns : w.state[d] = "gone" => lib'.state[d] = "gone"
        /\ \A d \in Conns : lib'.state[d] = "up" => w.state[d] = "up"
    BY <2>2, <2>4, <2>5
  <2>7. Advances(w, lib')
    BY <2>4, <2>6 DEF Advances
  <2>8. Advances(lib, w)
    BY <1>5, <2>1
  <2> QED BY <2>7, <2>8, AdvancesTrans
<1>7. CASE DispatchDisconnected
  <2>1. loopOn \in Conns
    BY <1>7 DEF DispatchDisconnected, IInv, LoopInv
  <2>2. CASE lib' = Unref(lib, loopOn)
    BY <1>1, <2>1, <2>2, UnrefAdvances
  <2>3. ASSUME NEW b, b = route[lib.name[loopOn]], b # None, NEW o \in ReconnectOutcomes(b),
               lib' = Unref(o.lib, loopOn)
        PROVE  Advances(lib, lib')
    <3>1. lib.state[loopOn] # "unused"
      BY <2>1, NoneAssumption DEF IInv, LoopInv
    <3>2. lib.name[loopOn] \in Names
      BY <1>1, <2>1, <3>1 DEF Sound, ConnsInv, Lib
    <3>3. b \in Buses
      BY <1>1, <2>3, <3>2 DEF Sound, Shape
    <3>4. Advances(lib, o.lib)
      BY <1>1, <2>3, <3>3, ReconnectAdvances
    <3>5. Sound(o.lib, [connection EXCEPT ![b] = o.handle], o.route, inbox)
      BY <1>1, <2>3, <3>3, ReconnectSound
    <3>6. o.lib \in Lib /\ WakesApart(o.lib)
      BY <3>5 DEF Sound, Shape, HandlesInv, WakesApart
    <3>7. Advances(o.lib, lib')
      BY <2>1, <2>3, <3>6, UnrefAdvances
    <3> QED BY <3>4, <3>7, AdvancesTrans
  <2> QED BY <1>7, <2>2, <2>3 DEF DispatchDisconnected
<1>8. ASSUME lib' = lib PROVE Advances(lib, lib')
  BY <1>8 DEF Advances
<1>9. ASSUME NEW c \in Conns, Receive(c) PROVE Advances(lib, lib')
  BY <1>5, <1>9 DEF Receive
<1>10. CASE DispatchSignal \/ LeaveLoop \/ (\E b \in Buses : StartCall(b))
            \/ (\E c \in Conns : EndCalls(c))
  BY <1>8, <1>10 DEF DispatchSignal, LeaveLoop, StartCall, EndCalls
<1> QED BY <1>2, <1>3, <1>4, <1>6, <1>7, <1>9, <1>10 DEF Next

\* A connection that is up has had an Init, and keeps a handle to send.
LEMMA NextWakeInv == IInv /\ WakeInv /\ [Next]_vars => WakeInv'
<1> SUFFICES ASSUME IInv, WakeInv, [Next]_vars PROVE WakeInv'
  OBVIOUS
<1>1. CASE Advances(lib, lib')
  BY <1>1 DEF Advances, WakeInv
<1>2. ASSUME NEW h \in Handles, EnterLoop(h) PROVE WakeInv'
  <2>1. lib' = [lib EXCEPT !.woken = lib.woken \ {h}] /\ lib \in Lib
    BY <1>2 DEF EnterLoop, IInv, Sound, Shape
  <2>2. lib'.state = lib.state /\ lib'.wake = lib.wake
    BY <2>1 DEF Lib
  <2> QED BY <2>2 DEF WakeInv
<1>3. CASE UNCHANGED vars
  BY <1>3 DEF vars, WakeInv
<1> QED BY <1>1, <1>2, <1>3, StepAdvances

\* A step that keeps the inbox and the loop of c, or runs Init on c, leaves c asleep only
\* if it was, or by Init, or finalized.
LEMMA StaysAwake ==
    ASSUME Advances(lib, lib'), NEW c \in Conns, Asleep(c)', loopOn' = loopOn,
           inbox'[c] = inbox[c] \/ InitOn(c)
    PROVE  Asleep(c) \/ InitOn(c) \/ lib'.state[c] = "gone"
<1>1. InitRan(lib, lib', c) <=> InitOn(c)
  BY DEF InitRan, InitOn
<1> QED BY <1>1 DEF Advances, Asleep

\* A signal received before Init is on the connection Init ran on.
LEMMA GreetedByInit ==
    ASSUME IInv, Advances(lib, lib'), NEW box, NEW h \in Handles \cup {None}, NEW u,
           lib'.of = u.of, inbox' \in Greeted(box, u, h), NEW c \in Conns,
           inbox'[c] # box[c], box \in [Conns -> Seq(Messages)]
    PROVE  InitOn(c)
<1>1. /\ h # None /\ lib.state[u.of[h]] = "unused"
      /\ inbox' = [box EXCEPT ![u.of[h]] = <<"signal">>]
  BY DEF Greeted
<1>2. c = u.of[h]
  BY <1>1
<1>3. lib.of[h] = None
  <2>1. lib.of[h] # c
    BY <1>1, <1>2 DEF IInv, Sound, ConnsInv
  <2> QED BY <1>1, <1>2, <2>1 DEF Advances
<1> QED BY <1>1, <1>2, <1>3 DEF InitOn

\* No step but Init loses a wakeup.
LEMMA StepAwake ==
    ASSUME IInv, WakeInv, Next, NEW c \in Conns, Asleep(c)'
    PROVE  Asleep(c) \/ InitOn(c) \/ lib'.state[c] = "gone"
<1>1. /\ Sound(lib, connection, route, inbox) /\ inbox \in [Conns -> Seq(Messages)]
      /\ lib \in Lib
  BY DEF IInv, Sound, Shape
<1>2. ASSUME NEW b \in Buses, NewBus(b)
      PROVE  Asleep(c) \/ InitOn(c) \/ lib'.state[c] = "gone"
  <2>1. PICK r \in GetBus(lib, BusType[b]) :
            lib' = r.lib /\ inbox' \in Greeted(inbox, r.lib, r.handle)
    BY <1>2 DEF NewBus
  <2>2. connection[b] = None
    BY <1>2 DEF NewBus, IInv, LoopInv
  <2>3. r.handle \in Handles
    BY <1>1, <2>1, <2>2, GetBusSound
  <2>4. BusType[b] \in Types /\ HandlesInv(lib)
    BY <1>1, TypesAssumption DEF Sound
  <2>5. Advances(lib, lib')
    BY <1>1, <2>1, <2>4, GetBusAdvances
  <2>6. inbox'[c] = inbox[c] \/ InitOn(c)
    BY <1>1, <2>1, <2>3, <2>5, GreetedByInit
  <2>7. loopOn' = loopOn
    BY <1>2 DEF NewBus
  <2> QED BY <2>5, <2>6, <2>7, StaysAwake
<1>3. ASSUME NEW b \in Buses, Reconnect(b)
      PROVE  Asleep(c) \/ InitOn(c) \/ lib'.state[c] = "gone"
  <2>1. PICK o \in ReconnectOutcomes(b) :
            lib' = o.lib /\ inbox' \in Greeted(inbox, o.lib, o.handle)
    BY <1>3 DEF Reconnect
  <2>2. o.handle \in Handles \cup {None}
    BY <1>1, <2>1, ReconnectSound
  <2>3. Advances(lib, lib')
    BY <1>1, <2>1, ReconnectAdvances
  <2>4. inbox'[c] = inbox[c] \/ InitOn(c)
    BY <1>1, <2>1, <2>2, <2>3, GreetedByInit
  <2>5. loopOn' = loopOn
    BY <1>3 DEF Reconnect
  <2> QED BY <2>3, <2>4, <2>5, StaysAwake
<1>4. CASE DispatchDisconnected
  <2>1. loopOn' = loopOn /\ loopOn \in Conns /\ c # loopOn
    BY <1>4 DEF DispatchDisconnected, Asleep, IInv, LoopInv
  <2>2. PICK box : box = [inbox EXCEPT ![loopOn] = Tail(inbox[loopOn])]
    OBVIOUS
  <2>3. box[c] = inbox[c]
    BY <1>1, <2>1, <2>2
  <2>4. box \in [Conns -> Seq(Messages)]
    <3>1. inbox[loopOn] # <<>> /\ inbox[loopOn] \in Seq(Messages)
      BY <1>1, <1>4, <2>1 DEF DispatchDisconnected
    <3>2. Tail(inbox[loopOn]) \in Seq(Messages)
      BY <3>1
    <3> QED BY <1>1, <2>1, <2>2, <3>2
  <2>5. Advances(lib, lib')
    <3>1. ~ \E h \in Handles : EnterLoop(h)
      BY <1>4, <2>1, NoneAssumption DEF EnterLoop
    <3> QED BY <3>1, StepAdvances
  <2>6. inbox'[c] = inbox[c] \/ InitOn(c)
    <3>1. CASE inbox' = box
      BY <2>3, <3>1
    <3>2. ASSUME NEW b, b = route[lib.name[loopOn]], b # None,
                 NEW o \in ReconnectOutcomes(b), lib' = Unref(o.lib, loopOn),
                 inbox' \in Greeted(box, o.lib, o.handle)
          PROVE  inbox'[c] = inbox[c] \/ InitOn(c)
      <4>1. lib.state[loopOn] # "unused"
        BY <2>1, NoneAssumption DEF IInv, LoopInv
      <4>2. lib.name[loopOn] \in Names
        BY <1>1, <2>1, <4>1 DEF Sound, ConnsInv, Lib
      <4>3. b \in Buses
        BY <1>1, <3>2, <4>2 DEF Sound, Shape
      <4>4. /\ o.handle \in Handles \cup {None}
            /\ Sound(o.lib, [connection EXCEPT ![b] = o.handle], o.route, inbox)
        BY <1>1, <3>2, <4>3, ReconnectSound
      <4>5. o.lib \in Lib
        BY <4>4 DEF Sound, Shape
      <4>6. lib'.of = o.lib.of
        BY <2>1, <3>2, <4>5, UnrefFields
      <4> QED BY <2>3, <2>4, <2>5, <3>2, <4>4, <4>6, GreetedByInit
    <3> QED BY <1>4, <2>2, <3>1, <3>2 DEF DispatchDisconnected
  <2> QED BY <2>1, <2>5, <2>6, StaysAwake
<1>5. ASSUME NEW d \in Conns, Receive(d) \/ Lose(d)
      PROVE  Asleep(c)
  <2>1. /\ lib'.woken = Wakeup(d).woken /\ lib'.wake = Wakeup(d).wake
        /\ loopOn' = loopOn
        /\ \A e \in Conns \ {d} : inbox'[e] = inbox[e]
    <3>1. PICK w : w = Wakeup(d) /\ w \in Lib
      BY <1>1, WakeupSound
    <3>2. CASE Receive(d)
      BY <1>1, <3>1, <3>2 DEF Receive
    <3>3. CASE Lose(d)
      <4>1. lib' = [w EXCEPT !.state[d] = "down", !.shared[ConnType[d]] = None]
        BY <3>1, <3>3 DEF Lose
      <4>2. lib'.woken = w.woken /\ lib'.wake = w.wake
        BY <3>1, <4>1 DEF Lib
      <4> QED BY <1>1, <3>1, <3>3, <4>2 DEF Lose
    <3> QED BY <1>5, <3>2, <3>3
  <2>2. /\ Wakeup(d).wake = lib.wake
        /\ Wakeup(d).woken = lib.woken \cup ({lib.wake[d]} \ {None})
    BY <1>1 DEF Wakeup, Lib
  <2>3. lib.wake[d] # None
    BY <1>5 DEF WakeInv, Receive, Lose
  <2>4. c # d
    BY <2>1, <2>2, <2>3 DEF Asleep
  <2> QED BY <2>1, <2>2, <2>4 DEF Asleep
<1>6. ASSUME NEW h \in Handles, EnterLoop(h) PROVE Asleep(c)
  <2>1. /\ h \in lib.woken /\ lib' = [lib EXCEPT !.woken = lib.woken \ {h}]
        /\ loopOn = None /\ loopOn' = lib.of[h] /\ inbox' = inbox
    BY <1>6 DEF EnterLoop
  <2>2. lib'.woken = lib.woken \ {h} /\ lib'.wake = lib.wake
    BY <1>1, <2>1 DEF Lib
  <2>3. lib.wake[c] # h
    <3>1. lib.wake[c] = h => lib.of[h] = c
      BY NoneAssumption DEF IInv, Sound, HandlesInv
    <3> QED BY <2>1, <3>1 DEF Asleep
  <2> QED BY <2>1, <2>2, <2>3, NoneAssumption DEF Asleep
<1>7. CASE DispatchSignal
  <2>1. c # loopOn /\ loopOn' = loopOn /\ lib' = lib
    BY <1>7 DEF DispatchSignal, Asleep
  <2>2. inbox'[c] = inbox[c]
    BY <1>1, <1>7, <2>1 DEF DispatchSignal
  <2> QED BY <2>1, <2>2 DEF Asleep
<1>8. CASE LeaveLoop
  BY <1>8 DEF LeaveLoop, Asleep
<1>9. ASSUME NEW b \in Buses, Disconnect(b)
      PROVE  Asleep(c) \/ InitOn(c) \/ lib'.state[c] = "gone"
  <2>1. connection[b] \in Handles /\ lib.of[connection[b]] \in Conns /\ WakesApart(lib)
    BY <1>1, <1>9, HeldFacts DEF Disconnect, Sound, HandlesInv, WakesApart
  <2>2. Advances(lib, lib')
    BY <1>1, <1>9, <2>1, UnInitAdvances DEF Disconnect
  <2>3. inbox'[c] = inbox[c] /\ loopOn' = loopOn
    BY <1>9 DEF Disconnect
  <2> QED BY <2>2, <2>3, StaysAwake
<1>10. CASE (\E b \in Buses : StartCall(b)) \/ (\E d \in Conns : EndCalls(d))
  BY <1>10 DEF StartCall, EndCalls, Asleep
<1> QED BY <1>2, <1>3, <1>4, <1>5, <1>6, <1>7, <1>8, <1>9, <1>10 DEF Next

\* What was received only waits without a wakeup after an Init on that connection: no
\* release, disconnect, loss or dispatch, nor an Init on another connection, loses one.
THEOREM WakeupsAreKept == Spec => OnlyInitLosesWakeups
<1>1. Init => WakeInv
  BY DEF Init, WakeInv
<1>2. Spec => [](IInv /\ WakeInv)
  BY <1>1, InitIInv, NextIInv, NextWakeInv, PTL DEF Spec
<1>3. IInv /\ WakeInv /\ [Next]_vars =>
        [\A c \in Conns :
            Asleep(c)' => Asleep(c) \/ InitOn(c) \/ lib'.state[c] = "gone"]_vars
  BY StepAwake
<1> QED BY <1>2, <1>3, PTL DEF Spec, OnlyInitLosesWakeups
=============================================================================
