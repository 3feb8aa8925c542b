--------------------------- MODULE InterfacesProofs ---------------------------
(***************************************************************************)
(* Safety of Interfaces for any number of requests, keys, losses and       *)
(* reconnects: getInterface calls back at most once, the match rules of    *)
(* the cache are kept, and the latest Interface object hears its signals.  *)
(***************************************************************************)
EXTENDS Interfaces, TLAPS

\* A tick that will store the Interface of its request in the cache.
Storing(t) == t.kind \in {"filtered", "init"}

\* A request that was called back is done, one that was not made has no key.
RequestsInv ==
    /\ \A r \in Requests : answered[r] = IF stage[r] = "done" THEN 1 ELSE 0
    /\ \A r \in Requests : stage[r] = "idle" <=> target[r] = None

\* Where a request stands tells the only place that may call it back: one tick, or one
\* GetNameOwner call in flight.
TicksInv ==
    /\ \A i \in DOMAIN ticks : stage[ticks[i].req] = "ticking"
    /\ \A i, j \in DOMAIN ticks : ticks[i].req = ticks[j].req => i = j

OwnersInv ==
    /\ \A i \in DOMAIN owners : stage[owners[i].iface] # "idle"
    /\ \A i \in DOMAIN owners :
        owners[i].getting => stage[owners[i].iface] = "registering"
    /\ \A i, j \in DOMAIN owners :
        owners[i].getting /\ owners[j].getting /\ owners[i].iface = owners[j].iface => i = j

\* The cache has one Interface for a key, each of which was called back.
CacheInv ==
    /\ \A i \in DOMAIN interfaces : stage[interfaces[i]] = "done"
    /\ \A i, j \in DOMAIN interfaces :
        target[interfaces[i]] = target[interfaces[j]] => i = j

\* The rule of r is with the daemon or was refused, or a call that will ask for it is in
\* flight.
Kept(r) ==
    \/ target[r] \in rules \cup refused
    \/ \E i \in DOMAIN owners : target[owners[i].iface] = target[r] /\ ~owners[i].old
    \/ r \in overtaken

RuleInv ==
    up /\ ~aborted =>
        /\ \A i \in DOMAIN interfaces :
            target[interfaces[i]] \in Signalling => Kept(interfaces[i])
        /\ \A i \in DOMAIN ticks :
            Storing(ticks[i]) /\ target[ticks[i].req] \in Signalling => Kept(ticks[i].req)

\* An interface of another service has the path and name of that of r.
Clash(r) ==
    \E q \in Requests : /\ target[q] \notin {None, target[r]}
                        /\ HashOf[target[q]] = HashOf[target[r]]

\* What may keep r from hearing its signals though it is the latest.
Excused(r) == Clash(r) \/ target[r] \in refused

Settled(r) == handlers[HashOf[target[r]]] = r /\ target[r] \in rules

\* Before the first reconnect of the user's code: the registrations that a lost
\* connection caused come before those of getInterface, so that a handler that is set
\* stays or its successor is about to be stored.
OrderInv ==
    /\ \A i \in DOMAIN owners : ~owners[i].old
    /\ \A i, j \in DOMAIN owners : i < j /\ owners[i].getting => owners[j].getting
    /\ \A i \in DOMAIN owners :
        ~owners[i].getting /\ target[owners[i].iface] \in Signalling =>
            \E j \in DOMAIN interfaces : interfaces[j] = owners[i].iface
    /\ \A i, j \in DOMAIN ticks : Storing(ticks[i]) /\ Storing(ticks[j]) => i = j
    /\ \A i \in DOMAIN ticks :
        Storing(ticks[i]) /\ target[ticks[i].req] \in Signalling =>
            \A j \in DOMAIN owners : owners[j].getting

LatestInv ==
    Usable =>
        /\ \A i \in DOMAIN interfaces :
            target[interfaces[i]] \in Signalling /\ ~Excused(interfaces[i]) =>
                \/ Settled(interfaces[i])
                \/ \E j \in DOMAIN owners : ~owners[j].getting /\ owners[j].iface = interfaces[i]
                \/ \E j \in DOMAIN ticks :
                    Storing(ticks[j]) /\ target[ticks[j].req] = target[interfaces[i]]
        /\ \A i \in DOMAIN ticks :
            /\ Storing(ticks[i])
            /\ target[ticks[i].req] \in Signalling
            /\ ~Excused(ticks[i].req)
            => Settled(ticks[i].req)

IInv ==
    /\ TypeOK
    /\ RequestsInv
    /\ TicksInv
    /\ OwnersInv
    /\ CacheInv
    /\ RuleInv
    /\ renewals = 0 => OrderInv /\ LatestInv

-----------------------------------------------------------------------------
(* Sequences.                                                              *)

\* p has elements of q, in their order.
Picks(p, q, f) ==
    /\ f \in [DOMAIN p -> DOMAIN q]
    /\ \A i \in DOMAIN p : p[i] = q[f[i]]
    /\ \A i, j \in DOMAIN p : i < j => f[i] < f[j]
    /\ \A i, j \in DOMAIN p : f[i] = f[j] => i = j

LEMMA AppendTo ==
    ASSUME NEW S, NEW q \in Seq(S), NEW m \in S
    PROVE  /\ Append(q, m) \in Seq(S)
           /\ DOMAIN Append(q, m) = DOMAIN q \cup {Len(q) + 1}
           /\ Append(q, m)[Len(q) + 1] = m /\ Len(q) + 1 \notin DOMAIN q
           /\ \A i \in DOMAIN q : Append(q, m)[i] = q[i] /\ i < Len(q) + 1
OBVIOUS

LEMMA TailOf ==
    ASSUME NEW S, NEW q \in Seq(S), q # <<>>
    PROVE  /\ 1 \in DOMAIN q /\ Head(q) = q[1] /\ q[1] \in S
           /\ Tail(q) \in Seq(S)
           /\ \E f : Picks(Tail(q), q, f) /\ \A i \in DOMAIN Tail(q) : f[i] # 1
           /\ \A j \in DOMAIN q \ {1} : \E i \in DOMAIN Tail(q) : Tail(q)[i] = q[j]
<1> DEFINE p == Tail(q)
           f == [i \in DOMAIN p |-> i + 1]
<1>1. /\ p \in Seq(S) /\ Len(q) \in Nat /\ Len(q) > 0 /\ Len(p) = Len(q) - 1
      /\ DOMAIN p = 1..Len(p) /\ DOMAIN q = 1..Len(q)
      /\ Head(q) = q[1] /\ \A i \in DOMAIN p : p[i] = q[i + 1]
  OBVIOUS
<1>2. 1 \in DOMAIN q /\ q[1] \in S
  BY <1>1
<1> HIDE DEF p
<1>3. Picks(p, q, f)
  BY <1>1 DEF Picks
<1>4. \A i \in DOMAIN p : f[i] # 1
  BY <1>1
<1>5. \A j \in DOMAIN q \ {1} : \E i \in DOMAIN p : p[i] = q[j]
  <2> TAKE j \in DOMAIN q \ {1}
  <2>1. j - 1 \in DOMAIN p /\ p[j - 1] = q[j]
    BY <1>1
  <2> QED BY <2>1
<1> HIDE DEF f
<1> QED BY <1>1, <1>2, <1>3, <1>4, <1>5 DEF p

LEMMA Removing ==
    ASSUME NEW S, NEW q \in Seq(S), NEW k \in DOMAIN q
    PROVE  /\ RemoveAt(q, k) \in Seq(S)
           /\ \E f : Picks(RemoveAt(q, k), q, f) /\ \A i \in DOMAIN RemoveAt(q, k) : f[i] # k
           /\ \A j \in DOMAIN q \ {k} : \E i \in DOMAIN RemoveAt(q, k) : RemoveAt(q, k)[i] = q[j]
<1> DEFINE a == SubSeq(q, 1, k - 1)
           b == SubSeq(q, k + 1, Len(q))
           p == RemoveAt(q, k)
           f == [i \in DOMAIN p |-> IF i < k THEN i ELSE i + 1]
<1>1. Len(q) \in Nat /\ DOMAIN q = 1..Len(q) /\ k \in 1..Len(q) /\ k \in Nat
  OBVIOUS
<1>2. /\ a \in Seq(S) /\ Len(a) = k - 1 /\ \A i \in 1..(k - 1) : a[i] = q[i]
  BY <1>1
<1>3. /\ b \in Seq(S) /\ Len(b) = Len(q) - k
      /\ \A i \in 1..(Len(q) - k) : b[i] = q[k + i]
  BY <1>1
<1>4. p = a \o b
  BY DEF RemoveAt
<1> HIDE DEF a, b, p
<1>5. /\ p \in Seq(S) /\ Len(p) = Len(q) - 1 /\ DOMAIN p = 1..(Len(q) - 1)
      /\ \A i \in 1..(k - 1) : p[i] = a[i]
      /\ \A i \in k..(Len(q) - 1) : p[i] = b[i - (k - 1)]
  <2>1. /\ p \in Seq(S) /\ Len(p) = Len(a) + Len(b)
        /\ \A i \in 1..(Len(a) + Len(b)) :
              p[i] = IF i <= Len(a) THEN a[i] ELSE b[i - Len(a)]
    <3>1. a \in Seq(S) /\ b \in Seq(S)
      BY <1>2, <1>3
    <3>2. /\ a \o b \in Seq(S) /\ Len(a \o b) = Len(a) + Len(b)
          /\ \A i \in 1..(Len(a) + Len(b)) :
                (a \o b)[i] = IF i <= Len(a) THEN a[i] ELSE b[i - Len(a)]
      BY <3>1
    <3> QED BY <1>4, <3>2
  <2>2. Len(a) + Len(b) = Len(q) - 1 /\ Len(p) \in Nat
    BY <1>1, <1>2, <1>3
  <2>3. DOMAIN p = 1..Len(p)
    BY <2>1
  <2> QED BY <1>1, <1>2, <2>1, <2>2, <2>3
<1>6. \A i \in DOMAIN p : p[i] = q[IF i < k THEN i ELSE i + 1]
  <2> TAKE i \in DOMAIN p
  <2>1. CASE i < k
    BY <1>1, <1>2, <1>5, <2>1
  <2>2. CASE ~(i < k)
    <3>1. i \in k..(Len(q) - 1) /\ i - (k - 1) \in 1..(Len(q) - k) /\ k + (i - (k - 1)) = i + 1
      BY <1>1, <1>5, <2>2
    <3> QED BY <1>3, <1>5, <2>2, <3>1
  <2> QED BY <2>1, <2>2
<1>7. Picks(p, q, f)
  BY <1>1, <1>5, <1>6 DEF Picks
<1>8. \A i \in DOMAIN p : f[i] # k
  BY <1>1, <1>5
<1>9. \A j \in DOMAIN q \ {k} : \E i \in DOMAIN p : p[i] = q[j]
  <2> TAKE j \in DOMAIN q \ {k}
  <2>1. CASE j < k
    <3>1. j \in DOMAIN p /\ p[j] = q[j]
      BY <1>1, <1>5, <1>6, <2>1
    <3> QED BY <3>1
  <2>2. CASE ~(j < k)
    <3>1. j - 1 \in DOMAIN p /\ ~(j - 1 < k) /\ j - 1 + 1 = j
      BY <1>1, <1>5, <2>2
    <3>2. p[j - 1] = q[j]
      BY <1>6, <3>1
    <3> QED BY <3>1, <3>2
  <2> QED BY <2>1, <2>2
<1> HIDE DEF f
<1> QED BY <1>5, <1>7, <1>8, <1>9 DEF p

LEMMA Joining ==
    ASSUME NEW S, NEW p \in Seq(S), NEW q \in Seq(S)
    PROVE  /\ p \o q \in Seq(S)
           /\ \A i \in DOMAIN p : i \in DOMAIN (p \o q) /\ (p \o q)[i] = p[i]
           /\ \A i \in DOMAIN q : Len(p) + i \in DOMAIN (p \o q) /\ (p \o q)[Len(p) + i] = q[i]
           /\ \A i \in DOMAIN (p \o q) :
                i \in DOMAIN p \/ (i - Len(p) \in DOMAIN q /\ (p \o q)[i] = q[i - Len(p)])
<1>1. /\ p \o q \in Seq(S) /\ Len(p \o q) = Len(p) + Len(q)
      /\ Len(p) \in Nat /\ Len(q) \in Nat
      /\ DOMAIN p = 1..Len(p) /\ DOMAIN q = 1..Len(q)
      /\ DOMAIN (p \o q) = 1..(Len(p) + Len(q))
  OBVIOUS
<1>2. \A i \in 1..(Len(p) + Len(q)) :
        (p \o q)[i] = IF i <= Len(p) THEN p[i] ELSE q[i - Len(p)]
  OBVIOUS
<1> QED BY <1>1, <1>2

-----------------------------------------------------------------------------
(* The steps.                                                              *)

\* The elements of the queues and of the cache.
LEMMA Elements ==
    ASSUME TypeOK
    PROVE  /\ \A i \in DOMAIN ticks : ticks[i] \in Tick /\ ticks[i].req \in Requests
           /\ \A i \in DOMAIN owners : /\ owners[i] \in Registration
                                       /\ owners[i].iface \in Requests
                                       /\ owners[i].getting \in BOOLEAN
                                       /\ owners[i].old \in BOOLEAN
           /\ \A i \in DOMAIN interfaces : interfaces[i] \in Requests
<1>1. /\ \A i \in DOMAIN ticks : ticks[i] \in Tick
      /\ \A i \in DOMAIN owners : owners[i] \in Registration
      /\ \A i \in DOMAIN interfaces : interfaces[i] \in Requests
  BY DEF TypeOK
<1> QED BY <1>1 DEF Tick, Registration

LEMMA InitIInv == Init => IInv
<1> SUFFICES ASSUME Init PROVE IInv
  OBVIOUS
<1>1. TypeOK
  <2>1. 0 \in 0..MaxLosses /\ 0 \in 0..MaxRenewals /\ 0 \in 0..1 /\ "idle" \in Stages
    BY BoundsAssumption DEF Stages
  <2>2. /\ interfaces \in Seq(Requests) /\ owners \in Seq(Registration) /\ ticks \in Seq(Tick)
    BY DEF Init
  <2>3. /\ answered \in [Requests -> 0..1] /\ stage \in [Requests -> Stages]
        /\ target \in [Requests -> Keys \cup {None}]
        /\ handlers \in [Hashes -> Requests \cup {None}]
    BY <2>1 DEF Init
  <2> QED BY <2>1, <2>2, <2>3 DEF Init, TypeOK
<1>2. DOMAIN ticks = {} /\ DOMAIN owners = {} /\ DOMAIN interfaces = {}
  BY DEF Init
<1>3. RequestsInv
  BY DEF Init, RequestsInv
<1> QED BY <1>1, <1>2, <1>3
        DEF IInv, TicksInv, OwnersInv, CacheInv, RuleInv, OrderInv, LatestInv

\* A tick for r joins the queue; r waits for nothing else.
Ticked(r, kind) ==
    /\ ticks' \in Seq(Tick)
    /\ \A i \in DOMAIN ticks : i \in DOMAIN ticks' /\ ticks'[i] = ticks[i]
    /\ \E n \in DOMAIN ticks' \ DOMAIN ticks :
        /\ ticks'[n] = [kind |-> kind, req |-> r]
        /\ \A i \in DOMAIN ticks' : i \in DOMAIN ticks \/ i = n

LEMMA Queued ==
    ASSUME TypeOK, NEW r \in Requests, NEW kind \in {"cached", "refused", "filtered", "init"},
           Queue(kind, r)
    PROVE  Ticked(r, kind)
<1> DEFINE m == [kind |-> kind, req |-> r]
<1>1. ticks' = Append(ticks, m) /\ ticks \in Seq(Tick) /\ m \in Tick
  BY DEF TypeOK, Queue, Tick
<1> HIDE DEF m
<1>2. /\ Append(ticks, m) \in Seq(Tick)
      /\ DOMAIN Append(ticks, m) = DOMAIN ticks \cup {Len(ticks) + 1}
      /\ Append(ticks, m)[Len(ticks) + 1] = m /\ Len(ticks) + 1 \notin DOMAIN ticks
      /\ \A i \in DOMAIN ticks : Append(ticks, m)[i] = ticks[i]
  BY <1>1, AppendTo
<1>3. \E n \in DOMAIN ticks' \ DOMAIN ticks :
        ticks'[n] = m /\ \A i \in DOMAIN ticks' : i \in DOMAIN ticks \/ i = n
  BY <1>1, <1>2
<1> QED BY <1>1, <1>2, <1>3 DEF Ticked, m

LEMMA TickedOnce ==
    ASSUME TypeOK, TicksInv, NEW r \in Requests, NEW kind, Ticked(r, kind),
           stage[r] # "ticking", stage' = [stage EXCEPT ![r] = "ticking"]
    PROVE  TicksInv'
<1>1. PICK n \in DOMAIN ticks' \ DOMAIN ticks :
        /\ ticks'[n] = [kind |-> kind, req |-> r]
        /\ \A i \in DOMAIN ticks' : i \in DOMAIN ticks \/ i = n
  BY DEF Ticked
<1>2. \A i \in DOMAIN ticks : ticks[i].req \in Requests \ {r}
  BY Elements DEF TicksInv
<1>3. stage'[r] = "ticking" /\ \A q \in Requests \ {r} : stage'[q] = stage[q]
  BY DEF TypeOK
<1>4. \A i \in DOMAIN ticks : ticks'[i] = ticks[i]
  BY DEF Ticked
<1> QED BY <1>1, <1>2, <1>3, <1>4 DEF TicksInv

LEMMA GetInterfaceKeeps ==
    ASSUME IInv, NEW r \in Requests, NEW k \in Keys, GetInterface(r, k)
    PROVE  IInv'
<1>1. /\ ~aborted /\ stage[r] = "idle" /\ target[r] = None /\ k # None
      /\ target' = [target EXCEPT ![r] = k]
      /\ UNCHANGED <<busVars, rules, refused, interfaces, handlers, owners, answered, overtaken,
                     aborted>>
      /\ TypeOK
  BY NoneAssumption DEF GetInterface, IInv, RequestsInv
<1>2. PICK s \in {"ticking", "introspecting", "threw"} :
        /\ stage' = [stage EXCEPT ![r] = s]
        /\ \/ ticks' = ticks /\ s # "ticking"
           \/ s = "ticking" /\ \E kind \in {"cached", "refused"} : Queue(kind, r)
  BY DEF GetInterface, MoveTo
<1>3. /\ target'[r] = k /\ \A q \in Requests \ {r} : target'[q] = target[q]
      /\ stage'[r] = s /\ \A q \in Requests \ {r} : stage'[q] = stage[q]
      /\ s \in Stages
  BY <1>1, <1>2 DEF TypeOK, Stages
<1>4. \/ ticks' = ticks /\ s # "ticking"
      \/ s = "ticking" /\ \E kind \in {"cached", "refused"} : Ticked(r, kind)
  BY <1>1, <1>2, Queued
<1>5. /\ ticks' \in Seq(Tick)
      /\ \A i \in DOMAIN ticks : i \in DOMAIN ticks' /\ ticks'[i] = ticks[i]
      /\ \A i \in DOMAIN ticks' : Storing(ticks'[i]) => i \in DOMAIN ticks
  BY <1>1, <1>4 DEF Ticked, Storing, TypeOK
<1>6. /\ \A i \in DOMAIN ticks : ticks[i].req \in Requests \ {r}
      /\ \A i \in DOMAIN owners : owners[i].iface \in Requests \ {r}
      /\ \A i \in DOMAIN interfaces : interfaces[i] \in Requests \ {r}
  BY <1>1, Elements DEF IInv, TicksInv, OwnersInv, CacheInv
<1>7. TypeOK'
  BY <1>1, <1>2, <1>3, <1>5 DEF TypeOK, busVars
<1>8. RequestsInv'
  BY <1>1, <1>3 DEF IInv, RequestsInv
<1>9. TicksInv'
  <2>1. CASE ticks' = ticks
    BY <1>3, <1>6, <2>1 DEF IInv, TicksInv
  <2>2. ASSUME s = "ticking", NEW kind, Ticked(r, kind) PROVE TicksInv'
    BY <1>1, <1>2, <2>2, TickedOnce DEF IInv
  <2> QED BY <1>4, <2>1, <2>2
<1>10. OwnersInv' /\ CacheInv'
  BY <1>1, <1>3, <1>6 DEF IInv, OwnersInv, CacheInv
<1>11. \A x \in Requests \ {r} : (Kept(x) => Kept(x)') /\ (Excused(x) => Excused(x)')
                                 /\ (Settled(x) => Settled(x)')
  BY <1>1, <1>3, <1>6 DEF Kept, Clash, Excused, Settled
<1>12. RuleInv'
  BY <1>1, <1>3, <1>5, <1>6, <1>11 DEF IInv, RuleInv, busVars
<1>13. OrderInv => OrderInv'
  BY <1>1, <1>3, <1>5, <1>6 DEF OrderInv
<1>14. LatestInv => LatestInv'
  <2>1. SUFFICES ASSUME LatestInv, Usable'
                 PROVE  LatestInv'
    BY DEF LatestInv
  <2>2. Usable
    BY <1>1, <2>1 DEF Usable, busVars
  <2>3. ASSUME NEW i \in DOMAIN interfaces', (target[interfaces[i]] \in Signalling)',
               ~Excused(interfaces[i])'
        PROVE  \/ Settled(interfaces[i])'
               \/ (\E j \in DOMAIN owners : ~owners[j].getting /\ owners[j].iface = interfaces[i])'
               \/ (\E j \in DOMAIN ticks :
                    Storing(ticks[j]) /\ target[ticks[j].req] = target[interfaces[i]])'
    BY <1>1, <1>3, <1>5, <1>6, <1>11, <2>1, <2>2, <2>3 DEF LatestInv
  <2>4. ASSUME NEW i \in DOMAIN ticks', Storing(ticks[i])',
               (target[ticks[i].req] \in Signalling)', ~Excused(ticks[i].req)'
        PROVE  Settled(ticks[i].req)'
    BY <1>1, <1>3, <1>5, <1>6, <1>11, <2>1, <2>2, <2>4 DEF LatestInv
  <2> QED BY <2>3, <2>4 DEF LatestInv
<1> QED BY <1>1, <1>7, <1>8, <1>9, <1>10, <1>12, <1>13, <1>14 DEF IInv, busVars

\* Introspect of r was answered or given up: r waits for nothing else in any queue.
LEMMA IntrospectingIsOnly ==
    ASSUME TypeOK, TicksInv, OwnersInv, CacheInv, NEW r \in Requests,
           stage[r] \in {"introspecting", "orphaned"},
           NEW s \in Stages \ {"idle"}, stage' = [stage EXCEPT ![r] = s]
    PROVE  /\ stage' \in [Requests -> Stages]
           /\ stage'[r] = s /\ \A q \in Requests \ {r} : stage'[q] = stage[q]
           /\ \A i \in DOMAIN ticks : ticks[i].req \in Requests \ {r}
           /\ \A i \in DOMAIN owners :
                /\ owners[i].iface \in Requests
                /\ owners[i].getting => owners[i].iface # r
                /\ stage'[owners[i].iface] # "idle"
           /\ UNCHANGED interfaces => CacheInv' \/ target' # target
           /\ UNCHANGED ticks => TicksInv'
           /\ UNCHANGED owners => OwnersInv'
<1>1. /\ stage' \in [Requests -> Stages]
      /\ stage'[r] = s /\ \A q \in Requests \ {r} : stage'[q] = stage[q]
  BY DEF TypeOK
<1>2. /\ \A i \in DOMAIN ticks : ticks[i].req \in Requests \ {r}
      /\ \A i \in DOMAIN interfaces : interfaces[i] \in Requests \ {r}
  BY Elements DEF TicksInv, CacheInv
<1>3. \A i \in DOMAIN owners :
        /\ owners[i].iface \in Requests
        /\ owners[i].getting => owners[i].iface # r
        /\ stage'[owners[i].iface] # "idle"
  BY <1>1, Elements DEF OwnersInv
<1>4. UNCHANGED interfaces => CacheInv' \/ target' # target
  BY <1>1, <1>2 DEF CacheInv
<1>5. UNCHANGED ticks => TicksInv'
  BY <1>1, <1>2 DEF TicksInv
<1>6. UNCHANGED owners => OwnersInv'
  BY <1>1, <1>3 DEF OwnersInv
<1> QED BY <1>1, <1>2, <1>3, <1>4, <1>5, <1>6

\* What the rest of the invariant speaks of is unchanged.
LEMMA RestKept ==
    ASSUME IInv,
           UNCHANGED <<busVars, rules, refused, interfaces, handlers, target, owners, ticks,
                       overtaken, aborted>>
    PROVE  RuleInv' /\ (renewals' = 0 => OrderInv' /\ LatestInv')
BY DEF IInv, RuleInv, OrderInv, LatestInv, Kept, Clash, Excused, Settled, Usable, Storing,
       busVars

LEMMA IntrospectedKeeps ==
    ASSUME IInv, NEW r \in Requests, NEW found \in BOOLEAN, Introspected(r, found)
    PROVE  IInv'
<1>1. /\ ~aborted /\ ticks = <<>> /\ DOMAIN ticks = {}
      /\ stage[r] \in {"introspecting", "orphaned"}
      /\ UNCHANGED <<busVars, rules, refused, interfaces, handlers, target, overtaken, aborted>>
      /\ TypeOK /\ RequestsInv /\ TicksInv /\ OwnersInv /\ CacheInv
  BY DEF Introspected, Idle, IInv
<1>2. target[r] \in Keys
  BY <1>1 DEF TypeOK, RequestsInv
<1>3. CASE CallBack(r) /\ UNCHANGED <<owners, ticks>>
  <2>1. stage' = [stage EXCEPT ![r] = "done"] /\ "done" \in Stages \ {"idle"}
        /\ answered' = [answered EXCEPT ![r] = answered[r] + 1]
    BY <1>3 DEF CallBack, MoveTo, Stages
  <2>2. /\ stage' \in [Requests -> Stages] /\ stage'[r] = "done"
        /\ \A q \in Requests \ {r} : stage'[q] = stage[q]
        /\ CacheInv' /\ TicksInv' /\ OwnersInv'
    BY <1>1, <1>3, <2>1, IntrospectingIsOnly
  <2>3. answered' = [answered EXCEPT ![r] = 1]
    <3>1. answered[r] = 0
      BY <1>1 DEF RequestsInv
    <3>2. answered[r] + 1 = 1
      BY <3>1
    <3> QED BY <2>1, <3>2
  <2>4. TypeOK'
    BY <1>1, <1>3, <2>2, <2>3 DEF TypeOK, busVars
  <2>5. RequestsInv'
    BY <1>1, <2>2, <2>3 DEF RequestsInv, TypeOK
  <2> QED BY <1>1, <1>3, <2>2, <2>4, <2>5, RestKept DEF IInv
<1>4. CASE MoveTo(r, "stuck") /\ UNCHANGED <<owners, ticks, answered>>
  <2>1. stage' = [stage EXCEPT ![r] = "stuck"] /\ "stuck" \in Stages \ {"idle"}
    BY <1>4 DEF MoveTo, Stages
  <2>2. /\ stage' \in [Requests -> Stages] /\ stage'[r] = "stuck"
        /\ \A q \in Requests \ {r} : stage'[q] = stage[q]
        /\ CacheInv' /\ TicksInv' /\ OwnersInv'
    BY <1>1, <1>4, <2>1, IntrospectingIsOnly
  <2>3. TypeOK'
    BY <1>1, <1>4, <2>2 DEF TypeOK, busVars
  <2>4. RequestsInv'
    BY <1>1, <1>4, <2>2 DEF RequestsInv, TypeOK
  <2> QED BY <1>1, <1>4, <2>2, <2>3, <2>4, RestKept DEF IInv
<1>5. CASE /\ target[r] \notin Signalling
           /\ MoveTo(r, "ticking") /\ Queue("init", r)
           /\ UNCHANGED <<owners, answered>>
  <2>1. stage' = [stage EXCEPT ![r] = "ticking"] /\ "ticking" \in Stages \ {"idle"}
    BY <1>5 DEF MoveTo, Stages
  <2>2. /\ stage' \in [Requests -> Stages] /\ stage'[r] = "ticking"
        /\ \A q \in Requests \ {r} : stage'[q] = stage[q]
        /\ CacheInv' /\ OwnersInv'
    BY <1>1, <1>5, <2>1, IntrospectingIsOnly
  <2>3. Ticked(r, "init")
    BY <1>1, <1>5, Queued
  <2>4. ticks' \in Seq(Tick) /\ \A i, j \in DOMAIN ticks' : i = j /\ ticks'[i].req = r
    BY <1>1, <2>3 DEF Ticked
  <2>5. TypeOK'
    BY <1>1, <1>5, <2>2, <2>4 DEF TypeOK, busVars
  <2>6. RequestsInv'
    BY <1>1, <1>5, <2>2 DEF RequestsInv, TypeOK
  <2>7. TicksInv'
    BY <1>1, <2>1, <2>3, TickedOnce
  <2>8. RuleInv'
    BY <1>1, <1>5, <2>4 DEF IInv, RuleInv, Kept, busVars
  <2>9. renewals' = 0 => OrderInv'
    BY <1>1, <1>5, <2>4 DEF IInv, OrderInv, busVars
  <2>10. renewals' = 0 => LatestInv'
    BY <1>1, <1>5, <2>4 DEF IInv, LatestInv, Usable, Clash, Excused, Settled, busVars
  <2> QED BY <2>2, <2>5, <2>6, <2>7, <2>8, <2>9, <2>10 DEF IInv
<1>6. CASE /\ MoveTo(r, "registering")
           /\ owners' = Append(owners, Registering(r, TRUE))
           /\ UNCHANGED <<ticks, answered>>
  <2> DEFINE n == Len(owners) + 1
  <2>1. stage' = [stage EXCEPT ![r] = "registering"] /\ "registering" \in Stages \ {"idle"}
    BY <1>6 DEF MoveTo, Stages
  <2>2. /\ stage' \in [Requests -> Stages] /\ stage'[r] = "registering"
        /\ \A q \in Requests \ {r} : stage'[q] = stage[q]
        /\ CacheInv' /\ TicksInv'
        /\ \A i \in DOMAIN owners :
                /\ owners[i].iface \in Requests
                /\ owners[i].getting => owners[i].iface # r
                /\ stage'[owners[i].iface] # "idle"
    BY <1>1, <1>6, <2>1, IntrospectingIsOnly
  <2>3. /\ Registering(r, TRUE) \in Registration
        /\ Registering(r, TRUE).iface = r /\ Registering(r, TRUE).getting = TRUE
        /\ Registering(r, TRUE).old = FALSE
    BY DEF Registering, Registration
  <2>4. /\ owners' \in Seq(Registration) /\ DOMAIN owners' = DOMAIN owners \cup {n}
        /\ owners'[n].iface = r /\ owners'[n].getting = TRUE /\ owners'[n].old = FALSE
        /\ n \notin DOMAIN owners
        /\ \A i \in DOMAIN owners : owners'[i] = owners[i] /\ i < n
        /\ \A i \in DOMAIN owners : ~(n < i)
    <3>1. owners \in Seq(Registration)
      BY <1>1 DEF TypeOK
    <3> DEFINE m == Registering(r, TRUE)
    <3>2. m \in Registration /\ owners' = Append(owners, m)
      BY <1>6, <2>3
    <3>3. m.iface = r /\ m.getting = TRUE /\ m.old = FALSE
      BY <2>3
    <3> HIDE DEF m
    <3>4. /\ owners' \in Seq(Registration) /\ DOMAIN owners' = DOMAIN owners \cup {n}
          /\ owners'[n] = m /\ n \notin DOMAIN owners
          /\ \A i \in DOMAIN owners : owners'[i] = owners[i] /\ i < n
      BY <3>1, <3>2, AppendTo
    <3>5. \A i \in DOMAIN owners : ~(n < i)
      BY <3>1
    <3> QED BY <3>3, <3>4, <3>5
  <2> HIDE DEF n
  <2>5. TypeOK'
    BY <1>1, <1>6, <2>2, <2>4 DEF TypeOK, busVars
  <2>6. RequestsInv'
    BY <1>1, <1>6, <2>2 DEF RequestsInv, TypeOK
  <2>7. OwnersInv'
    BY <1>1, <2>2, <2>4 DEF OwnersInv
  <2>8. \A x : Kept(x) => Kept(x)'
    BY <1>1, <2>2, <2>4 DEF Kept
  <2>9. RuleInv'
    BY <1>1, <1>6, <2>8 DEF IInv, RuleInv, busVars
  <2>10. renewals' = 0 => OrderInv'
    <3> SUFFICES ASSUME renewals' = 0 PROVE OrderInv'
      OBVIOUS
    <3>1. OrderInv
      BY <1>1 DEF IInv, busVars
    <3>2. \A i \in DOMAIN owners' : (i \in DOMAIN owners /\ owners'[i] = owners[i]) \/ i = n
      BY <2>4
    <3>3. \A i \in DOMAIN owners' : ~owners'[i].old
      BY <2>4, <3>1, <3>2 DEF OrderInv
    <3>4. ASSUME NEW i \in DOMAIN owners', NEW j \in DOMAIN owners', i < j,
                 owners'[i].getting
          PROVE  owners'[j].getting
      <4>1. CASE j = n
        BY <2>4, <4>1
      <4>2. CASE j # n
        <5>1. j \in DOMAIN owners /\ owners'[j] = owners[j] /\ ~(n < j)
          BY <2>4, <3>2, <4>2
        <5>2. i \in DOMAIN owners /\ owners'[i] = owners[i]
          BY <3>2, <3>4, <5>1
        <5> QED BY <3>1, <3>4, <5>1, <5>2 DEF OrderInv
      <4> QED BY <4>1, <4>2
    <3>5. \A i \in DOMAIN owners' :
            ~owners'[i].getting /\ target'[owners'[i].iface] \in Signalling =>
                \E j \in DOMAIN interfaces' : interfaces'[j] = owners'[i].iface
      BY <1>1, <2>4, <3>1, <3>2 DEF OrderInv
    <3>6. DOMAIN ticks' = {}
      BY <1>1, <1>6
    <3> QED BY <3>3, <3>4, <3>5, <3>6 DEF OrderInv
  <2>11. renewals' = 0 => LatestInv'
    <3>1. \A x : (Settled(x)' <=> Settled(x)) /\ (Excused(x)' <=> Excused(x))
      BY <1>1 DEF Settled, Clash, Excused
    <3> SUFFICES ASSUME renewals' = 0, Usable' PROVE LatestInv'
      BY DEF LatestInv
    <3>2. LatestInv /\ Usable /\ DOMAIN ticks' = {}
      BY <1>1, <1>6 DEF IInv, Usable, busVars
    <3>3. ASSUME NEW i \in DOMAIN interfaces, target[interfaces[i]] \in Signalling,
                 ~Excused(interfaces[i])
          PROVE  \/ Settled(interfaces[i])
                 \/ \E j \in DOMAIN owners' : /\ ~owners'[j].getting
                                              /\ owners'[j].iface = interfaces[i]
      <4>1. \/ Settled(interfaces[i])
            \/ \E j \in DOMAIN owners : ~owners[j].getting /\ owners[j].iface = interfaces[i]
        BY <1>1, <3>2, <3>3 DEF LatestInv
      <4> QED BY <2>4, <4>1
    <3>4. interfaces' = interfaces /\ target' = target
      BY <1>1
    <3> QED BY <3>1, <3>2, <3>3, <3>4 DEF LatestInv
  <2> QED BY <2>2, <2>5, <2>6, <2>7, <2>9, <2>10, <2>11 DEF IInv
<1> QED BY <1>3, <1>4, <1>5, <1>6 DEF Introspected

LEMMA ForgetIntrospectKeeps ==
    ASSUME IInv, NEW r \in Requests, ForgetIntrospect(r)
    PROVE  IInv'
<1>1. /\ stage[r] \in {"introspecting", "orphaned"}
      /\ stage' = [stage EXCEPT ![r] = "stuck"]
      /\ UNCHANGED <<busVars, rules, refused, interfaces, handlers, target, owners, ticks, answered,
                     overtaken, aborted>>
      /\ "stuck" \in Stages \ {"idle"}
      /\ TypeOK /\ RequestsInv /\ TicksInv /\ OwnersInv /\ CacheInv
  BY DEF ForgetIntrospect, MoveTo, Stages, IInv
<1>2. /\ stage' \in [Requests -> Stages] /\ stage'[r] = "stuck"
      /\ \A q \in Requests \ {r} : stage'[q] = stage[q]
      /\ CacheInv' /\ TicksInv' /\ OwnersInv'
  BY <1>1, IntrospectingIsOnly
<1>3. TypeOK'
  BY <1>1, <1>2 DEF TypeOK, busVars
<1>4. RequestsInv'
  BY <1>1, <1>2 DEF RequestsInv, TypeOK
<1> QED BY <1>1, <1>2, <1>3, <1>4, RestKept DEF IInv

LEMMA DisconnectKeeps == ASSUME IInv, Disconnect PROVE IInv'
BY DEF Disconnect, IInv, TypeOK, RequestsInv, TicksInv, OwnersInv, CacheInv, RuleInv, Kept,
       OrderInv, LatestInv, Usable

LEMMA LoseKeeps == ASSUME IInv, Lose PROVE IInv'
<1>1. losses' \in 0..MaxLosses
  BY BoundsAssumption DEF Lose, IInv, TypeOK
<1>2. TypeOK'
  BY <1>1 DEF Lose, IInv, TypeOK
<1> QED BY <1>2 DEF Lose, IInv, RequestsInv, TicksInv, OwnersInv, CacheInv, RuleInv, OrderInv,
                    LatestInv, Usable

\* A call left the queue of GetNameOwner calls; the others stay, in their order.
Removed(k) ==
    /\ owners' \in Seq(Registration)
    /\ \A j \in DOMAIN owners \ {k} : \E i \in DOMAIN owners' : owners'[i] = owners[j]
    /\ \E f : /\ \A i \in DOMAIN owners' : /\ f[i] \in DOMAIN owners \ {k}
                                           /\ owners'[i] = owners[f[i]]
              /\ \A i, j \in DOMAIN owners' : i < j => f[i] < f[j]
              /\ \A i, j \in DOMAIN owners' : f[i] = f[j] => i = j

LEMMA RemovedOwner ==
    ASSUME TypeOK, NEW k \in DOMAIN owners, owners' = RemoveAt(owners, k)
    PROVE  Removed(k)
<1>1. owners \in Seq(Registration)
  BY DEF TypeOK
<1>2. /\ owners' \in Seq(Registration)
      /\ \E f : Picks(owners', owners, f) /\ \A i \in DOMAIN owners' : f[i] # k
      /\ \A j \in DOMAIN owners \ {k} : \E i \in DOMAIN owners' : owners'[i] = owners[j]
  BY <1>1, Removing
<1>3. PICK f : Picks(owners', owners, f) /\ \A i \in DOMAIN owners' : f[i] # k
  BY <1>2
<1>4. /\ \A i \in DOMAIN owners' : f[i] \in DOMAIN owners \ {k} /\ owners'[i] = owners[f[i]]
      /\ \A i, j \in DOMAIN owners' : i < j => f[i] < f[j]
      /\ \A i, j \in DOMAIN owners' : f[i] = f[j] => i = j
  BY <1>3 DEF Picks
<1> QED BY <1>2, <1>4 DEF Removed

\* The k-th call was answered or given up: its request is not waited for elsewhere.
LEMMA WaitingIsOnly ==
    ASSUME TypeOK, RequestsInv, OwnersInv, CacheInv, NEW k \in DOMAIN owners, Removed(k),
           NEW r, r = owners[k].iface,
           NEW s \in Stages \ {"idle", "done"},
           \/ owners[k].getting /\ stage' = [stage EXCEPT ![r] = s]
           \/ ~owners[k].getting /\ stage' = stage,
           UNCHANGED <<interfaces, target, answered>>
    PROVE  /\ r \in Requests /\ target[r] \in Keys
           /\ stage' \in [Requests -> Stages]
           /\ \A q \in Requests \ {r} : stage'[q] = stage[q]
           /\ OwnersInv' /\ CacheInv' /\ RequestsInv'
<1>1. r \in Requests /\ target[r] \in Keys /\ stage[r] # "idle"
      /\ (owners[k].getting => stage[r] = "registering")
  BY Elements DEF OwnersInv, RequestsInv, TypeOK
<1>2. /\ stage' \in [Requests -> Stages]
      /\ \A q \in Requests \ {r} : stage'[q] = stage[q]
      /\ stage'[r] = stage[r] \/ (owners[k].getting /\ stage'[r] = s)
  BY <1>1 DEF TypeOK
<1>3. \A q \in Requests : (stage'[q] = "idle" <=> stage[q] = "idle")
                          /\ (stage'[q] = "done" <=> stage[q] = "done")
  BY <1>1, <1>2
<1>4. RequestsInv'
  BY <1>3 DEF RequestsInv
<1>5. CacheInv'
  BY <1>3, Elements DEF CacheInv
<1>6. PICK f : /\ \A i \in DOMAIN owners' : /\ f[i] \in DOMAIN owners \ {k}
                                            /\ owners'[i] = owners[f[i]]
               /\ \A i, j \in DOMAIN owners' : f[i] = f[j] => i = j
  BY DEF Removed
<1>7. \A i \in DOMAIN owners' : stage'[owners'[i].iface] # "idle"
  BY <1>3, <1>6, Elements DEF OwnersInv
<1>8. \A i \in DOMAIN owners' : owners'[i].getting => stage'[owners'[i].iface] = "registering"
  <2> SUFFICES ASSUME NEW i \in DOMAIN owners', owners'[i].getting
               PROVE  stage'[owners'[i].iface] = "registering"
    OBVIOUS
  <2> DEFINE q == owners[f[i]].iface
  <2>1. /\ f[i] \in DOMAIN owners /\ f[i] # k /\ owners[f[i]].getting
        /\ owners'[i].iface = q /\ q \in Requests /\ stage[q] = "registering"
    BY <1>6, Elements DEF OwnersInv
  <2>2. q = r => ~owners[k].getting
    BY <2>1 DEF OwnersInv
  <2> QED BY <1>2, <2>1, <2>2
<1>9. \A i, j \in DOMAIN owners' :
        owners'[i].getting /\ owners'[j].getting /\ owners'[i].iface = owners'[j].iface => i = j
  BY <1>6 DEF OwnersInv
<1>10. OwnersInv'
  BY <1>7, <1>8, <1>9 DEF OwnersInv
<1> QED BY <1>1, <1>2, <1>4, <1>5, <1>10

\* The order of the queue does not suffer when a call leaves it.
LEMMA RemovedOrder ==
    ASSUME OrderInv, NEW k \in DOMAIN owners, Removed(k), UNCHANGED <<interfaces, target>>
    PROVE  /\ \A i \in DOMAIN owners' : ~owners'[i].old
           /\ \A i, j \in DOMAIN owners' : i < j /\ owners'[i].getting => owners'[j].getting
           /\ \A i \in DOMAIN owners' :
                ~owners'[i].getting /\ target'[owners'[i].iface] \in Signalling =>
                    \E j \in DOMAIN interfaces' : interfaces'[j] = owners'[i].iface
<1>1. PICK f : /\ \A i \in DOMAIN owners' : /\ f[i] \in DOMAIN owners \ {k}
                                            /\ owners'[i] = owners[f[i]]
               /\ \A i, j \in DOMAIN owners' : i < j => f[i] < f[j]
  BY DEF Removed
<1>2. \A i \in DOMAIN owners' : ~owners'[i].old
  BY <1>1 DEF OrderInv
<1>3. \A i, j \in DOMAIN owners' : i < j /\ owners'[i].getting => owners'[j].getting
  BY <1>1 DEF OrderInv
<1>4. \A i \in DOMAIN owners' :
        ~owners'[i].getting /\ target[owners'[i].iface] \in Signalling =>
            \E j \in DOMAIN interfaces : interfaces[j] = owners'[i].iface
  BY <1>1 DEF OrderInv
<1> QED BY <1>2, <1>3, <1>4

\* The first call is the one the daemon answers, unless a connection was replaced.
LEMMA FirstAnswered ==
    ASSUME TypeOK, OrderInv, NEW k \in DOMAIN owners, Answerable(k)
    PROVE  k = 1 /\ (owners[k].getting => \A j \in DOMAIN owners : owners[j].getting)
<1>1. /\ owners \in Seq(Registration) /\ Len(owners) \in Nat
      /\ DOMAIN owners = 1..Len(owners) /\ k \in 1..Len(owners)
  BY DEF TypeOK
<1>2. k = 1
  <2> SUFFICES ASSUME k # 1 PROVE FALSE
    OBVIOUS
  <2>1. 1 \in 1..(k - 1) /\ 1 \in DOMAIN owners
    BY <1>1
  <2> QED BY <2>1 DEF Answerable, OrderInv
<1>3. ASSUME owners[k].getting, NEW j \in DOMAIN owners PROVE owners[j].getting
  <2>1. j = 1 \/ 1 < j
    BY <1>1
  <2> QED BY <1>2, <1>3, <2>1 DEF OrderInv
<1> QED BY <1>2, <1>3

LEMMA OwnerKnownKeeps ==
    ASSUME IInv, NEW k \in DOMAIN owners, NEW accepted \in BOOLEAN, OwnerKnown(k, accepted)
    PROVE  IInv'
<1>0. PICK r, key : r = owners[k].iface /\ key = target[r]
  OBVIOUS
<1>1. /\ ~aborted /\ ticks = <<>> /\ DOMAIN ticks = {} /\ Answerable(k)
      /\ handlers' = [handlers EXCEPT ![HashOf[key]] = r]
      /\ aborted' = ~connected
      /\ accepted => connected /\ up
      /\ rules' = IF accepted THEN rules \cup {key} ELSE rules
      /\ refused' = IF accepted THEN refused \ {key}
                    ELSE IF connected /\ up THEN refused \cup {key} ELSE refused
      /\ UNCHANGED <<busVars, interfaces, target, answered, overtaken>>
      /\ TypeOK /\ RequestsInv /\ TicksInv /\ OwnersInv /\ CacheInv
  BY <1>0 DEF OwnerKnown, Idle, IInv, Handler, RulesWith
<1>2. Removed(k)
  BY <1>1, RemovedOwner DEF OwnerKnown
<1>3. PICK s \in {"ticking", "stuck"} :
        /\ \/ owners[k].getting /\ stage' = [stage EXCEPT ![r] = s]
           \/ ~owners[k].getting /\ stage' = stage
        /\ \/ ticks' = ticks /\ ~(owners[k].getting /\ accepted)
           \/ owners[k].getting /\ accepted /\ s = "ticking" /\ Queue("filtered", r)
  BY <1>0 DEF OwnerKnown, MoveTo
<1>4. /\ r \in Requests /\ key \in Keys
      /\ stage' \in [Requests -> Stages]
      /\ \A q \in Requests \ {r} : stage'[q] = stage[q]
      /\ OwnersInv' /\ CacheInv' /\ RequestsInv'
  <2>1. s \in Stages \ {"idle", "done"}
    BY <1>3 DEF Stages
  <2>2. UNCHANGED <<interfaces, target, answered>>
    BY <1>1
  <2>3. \/ owners[k].getting /\ stage' = [stage EXCEPT ![r] = s]
        \/ ~owners[k].getting /\ stage' = stage
    BY <1>3
  <2>4. r \in Requests /\ target[r] \in Keys
        /\ stage' \in [Requests -> Stages]
        /\ (\A q \in Requests \ {r} : stage'[q] = stage[q])
        /\ OwnersInv' /\ CacheInv' /\ RequestsInv'
    BY <1>0, <1>1, <1>2, <2>1, <2>2, <2>3, WaitingIsOnly
  <2> QED BY <1>0, <2>4
<1>5. \/ ticks' = ticks /\ ~(owners[k].getting /\ accepted)
      \/ owners[k].getting /\ accepted /\ Ticked(r, "filtered")
  BY <1>1, <1>3, <1>4, Queued
<1>6. /\ ticks' \in Seq(Tick)
      /\ \A i, j \in DOMAIN ticks' : /\ i = j /\ ticks'[i].req = r
                                     /\ accepted /\ owners[k].getting
  <2>1. CASE ticks' = ticks
    <3>1. ticks' \in Seq(Tick) /\ DOMAIN ticks' = {}
      BY <1>1, <2>1 DEF TypeOK
    <3> QED BY <3>1
  <2>2. CASE owners[k].getting /\ accepted /\ Ticked(r, "filtered")
    BY <1>1, <2>2 DEF Ticked
  <2> QED BY <1>5, <2>1, <2>2
<1>7. TypeOK'
  <2>1. HashOf[key] \in Hashes
    BY <1>4, KeysAssumption
  <2>2. handlers' \in [Hashes -> Requests \cup {None}]
    BY <1>1, <1>4, <2>1 DEF TypeOK
  <2>3. rules' \subseteq Keys /\ refused' \subseteq Keys /\ aborted' \in BOOLEAN
    BY <1>1, <1>4 DEF TypeOK
  <2>4. owners' \in Seq(Registration)
    BY <1>2 DEF Removed
  <2> QED BY <1>1, <1>4, <1>6, <2>2, <2>3, <2>4 DEF TypeOK, busVars
<1>8. TicksInv'
  <2>1. CASE ticks' = ticks
    BY <1>1, <2>1 DEF TicksInv
  <2>2. CASE owners[k].getting /\ Ticked(r, "filtered") /\ ticks' # ticks
    <3>1. stage' = [stage EXCEPT ![r] = "ticking"]
      BY <1>3, <2>2
    <3>2. stage[r] # "ticking"
      BY <1>0, <1>1, <2>2 DEF OwnersInv
    <3> QED BY <1>1, <1>4, <2>2, <3>1, <3>2, TickedOnce
  <2> QED BY <1>5, <2>1, <2>2
<1>9. RuleInv'
  <2> SUFFICES ASSUME up', ~aborted' PROVE RuleInv'
    BY DEF RuleInv
  <2>1. /\ connected /\ up /\ RuleInv
        /\ key \in rules' \cup refused'
        /\ rules \cup refused \subseteq rules' \cup refused'
    BY <1>1 DEF busVars, IInv
  <2>2. \A x : Kept(x) => Kept(x)'
    <3> SUFFICES ASSUME NEW x, Kept(x) PROVE Kept(x)'
      OBVIOUS
    <3>1. CASE target[x] \in rules \cup refused \/ x \in overtaken
      BY <1>1, <2>1, <3>1 DEF Kept
    <3>2. ASSUME NEW i \in DOMAIN owners,
                 target[owners[i].iface] = target[x], ~owners[i].old
          PROVE  Kept(x)'
      <4>1. CASE i = k
        BY <1>0, <1>1, <2>1, <3>2, <4>1 DEF Kept
      <4>2. CASE i # k
        <5>1. PICK j \in DOMAIN owners' : owners'[j] = owners[i]
          BY <1>2, <4>2 DEF Removed
        <5> QED BY <1>1, <3>2, <5>1 DEF Kept
      <4> QED BY <4>1, <4>2
    <3> QED BY <3>1, <3>2 DEF Kept
  <2>3. Kept(r)'
    BY <1>0, <1>1, <2>1 DEF Kept
  <2> QED BY <1>1, <1>6, <2>1, <2>2, <2>3 DEF RuleInv
<1>10. ASSUME OrderInv PROVE OrderInv'
  <2>1. owners[k].getting => \A j \in DOMAIN owners : owners[j].getting
    BY <1>1, <1>10, FirstAnswered
  <2>2. /\ \A i \in DOMAIN owners' : ~owners'[i].old
        /\ \A i, j \in DOMAIN owners' : i < j /\ owners'[i].getting => owners'[j].getting
        /\ \A i \in DOMAIN owners' :
             ~owners'[i].getting /\ target'[owners'[i].iface] \in Signalling =>
                 \E j \in DOMAIN interfaces' : interfaces'[j] = owners'[i].iface
    <3>1. UNCHANGED <<interfaces, target>>
      BY <1>1
    <3> QED BY <1>2, <1>10, <3>1, RemovedOrder
  <2>3. owners[k].getting => \A j \in DOMAIN owners' : owners'[j].getting
    BY <1>2, <2>1 DEF Removed
  <2> QED BY <1>6, <2>2, <2>3 DEF OrderInv
<1>11. ASSUME OrderInv, LatestInv PROVE LatestInv'
  <2> SUFFICES ASSUME Usable' PROVE LatestInv'
    BY DEF LatestInv
  <2>1. Usable /\ connected /\ up /\ rules \subseteq rules'
    BY <1>1 DEF Usable, busVars
  <2>2. handlers'[HashOf[key]] = r
        /\ \A h \in Hashes \ {HashOf[key]} : handlers'[h] = handlers[h]
    BY <1>1, <1>4, KeysAssumption DEF TypeOK
  <2>3. accepted => Settled(r)'
    BY <1>0, <1>1, <2>2 DEF Settled
  <2>4. ASSUME NEW x, (~Excused(x))'
        PROVE  /\ ~Clash(x)
               /\ target[x] # key => ~Excused(x)
               /\ target[x] = key => accepted
    BY <1>1, <2>1, <2>4 DEF Clash, Excused
  <2>5. ASSUME NEW i \in DOMAIN interfaces, target[interfaces[i]] \in Signalling,
               (~Excused(interfaces[i]))'
        PROVE  \/ Settled(interfaces[i])'
               \/ \E j \in DOMAIN owners' : /\ ~owners'[j].getting
                                            /\ owners'[j].iface = interfaces[i]
               \/ \E j \in DOMAIN ticks' : /\ Storing(ticks'[j])
                                           /\ target[ticks'[j].req] = target[interfaces[i]]
    <3>0. PICK x : x = interfaces[i] /\ interfaces'[i] = x
      BY <1>1
    <3>1. /\ x \in Requests /\ target[x] \in Signalling
          /\ target[x] \in Keys /\ HashOf[target[x]] \in Hashes
      BY <1>1, <2>5, <3>0, Elements, KeysAssumption
    <3> SUFFICES \/ Settled(x)'
                 \/ \E j \in DOMAIN owners' : ~owners'[j].getting /\ owners'[j].iface = x
                 \/ \E j \in DOMAIN ticks' :
                      Storing(ticks'[j]) /\ target[ticks'[j].req] = target[x]
      BY <3>0 DEF Settled
    <3>2. (~Excused(x))'
      BY <2>5, <3>0 DEF Excused, Clash
    <3>3. /\ ~Clash(x)
          /\ target[x] # key => ~Excused(x)
          /\ target[x] = key => accepted
      BY <2>4, <3>2
    <3>4. CASE target[x] = key
      <4>1. accepted
        BY <3>4, <3>3
      <4>2. CASE ~owners[k].getting
        <5>1. PICK j \in DOMAIN interfaces : interfaces[j] = r
          BY <1>0, <1>11, <3>1, <3>4, <4>2 DEF OrderInv
        <5>2. j = i /\ r = x
          BY <1>0, <1>1, <3>0, <3>4, <5>1 DEF CacheInv
        <5> QED BY <2>3, <4>1, <5>2
      <4>3. CASE owners[k].getting
        <5>1. Ticked(r, "filtered")
          BY <1>5, <4>1, <4>3
        <5> QED BY <1>0, <3>4, <5>1 DEF Ticked, Storing
      <4> QED BY <4>2, <4>3
    <3>5. CASE target[x] # key
      <4>1. \/ Settled(x)
            \/ \E j \in DOMAIN owners : ~owners[j].getting /\ owners[j].iface = x
        BY <1>1, <1>11, <2>1, <3>0, <3>1, <3>5, <3>3 DEF LatestInv
      <4>2. CASE Settled(x)
        <5>1. HashOf[target[x]] # HashOf[key]
          BY <1>0, <1>4, <3>5, <3>3, NoneAssumption DEF Clash
        <5> QED BY <1>1, <2>1, <2>2, <3>1, <4>2, <5>1 DEF Settled
      <4>3. ASSUME NEW j \in DOMAIN owners, ~owners[j].getting, owners[j].iface = x
            PROVE  \E n \in DOMAIN owners' : ~owners'[n].getting /\ owners'[n].iface = x
        <5>1. j # k
          BY <1>0, <3>5, <4>3
        <5> QED BY <1>2, <4>3, <5>1 DEF Removed
      <4> QED BY <4>1, <4>2, <4>3
    <3> QED BY <3>4, <3>5
  <2>6. interfaces' = interfaces /\ target' = target
    BY <1>1
  <2> QED BY <1>6, <2>3, <2>5, <2>6 DEF LatestInv
<1> QED BY <1>1, <1>4, <1>7, <1>8, <1>9, <1>10, <1>11 DEF IInv, busVars

LEMMA ForgetOwnerKeeps ==
    ASSUME IInv, NEW k \in DOMAIN owners, ForgetOwner(k)
    PROVE  IInv'
<1>0. PICK r : r = owners[k].iface
  OBVIOUS
<1>1. /\ owners[k].old \/ ~up
      /\ UNCHANGED <<busVars, rules, refused, interfaces, handlers, target, ticks, answered,
                     overtaken, aborted>>
      /\ TypeOK /\ RequestsInv /\ TicksInv /\ OwnersInv /\ CacheInv
  BY DEF ForgetOwner, IInv
<1>2. Removed(k)
  BY <1>1, RemovedOwner DEF ForgetOwner
<1>3. \/ owners[k].getting /\ stage' = [stage EXCEPT ![r] = "stuck"]
      \/ ~owners[k].getting /\ stage' = stage
  BY <1>0 DEF ForgetOwner, MoveTo
<1>4. /\ r \in Requests
      /\ stage' \in [Requests -> Stages]
      /\ \A q \in Requests \ {r} : stage'[q] = stage[q]
      /\ OwnersInv' /\ CacheInv' /\ RequestsInv'
  <2>1. "stuck" \in Stages \ {"idle", "done"}
    BY DEF Stages
  <2>2. UNCHANGED <<interfaces, target, answered>>
    BY <1>1
  <2>3. r \in Requests /\ target[r] \in Keys
        /\ stage' \in [Requests -> Stages]
        /\ (\A q \in Requests \ {r} : stage'[q] = stage[q])
        /\ OwnersInv' /\ CacheInv' /\ RequestsInv'
    BY <1>0, <1>1, <1>2, <1>3, <2>1, <2>2, WaitingIsOnly
  <2> QED BY <2>3
<1>5. TypeOK'
  <2>1. owners' \in Seq(Registration)
    BY <1>2 DEF Removed
  <2> QED BY <1>1, <1>4, <2>1 DEF TypeOK, busVars
<1>6. TicksInv'
  <2>1. \A i \in DOMAIN ticks : stage'[ticks[i].req] = "ticking"
    <3> SUFFICES ASSUME NEW i \in DOMAIN ticks PROVE stage'[ticks[i].req] = "ticking"
      OBVIOUS
    <3>1. ticks[i].req \in Requests /\ stage[ticks[i].req] = "ticking"
      BY <1>1, Elements DEF TicksInv
    <3>2. stage' # stage => stage[r] = "registering"
      BY <1>0, <1>1, <1>3 DEF OwnersInv
    <3> QED BY <1>4, <3>1, <3>2
  <2> QED BY <1>1, <2>1 DEF TicksInv
<1>7. RuleInv'
  <2> SUFFICES ASSUME up', ~aborted' PROVE RuleInv'
    BY DEF RuleInv
  <2>1. RuleInv /\ up /\ ~aborted /\ owners[k].old
    BY <1>1 DEF IInv, busVars
  <2>2. ASSUME NEW x, Kept(x) PROVE Kept(x)'
    <3>1. \A i \in DOMAIN owners : ~owners[i].old =>
            \E j \in DOMAIN owners' : owners'[j] = owners[i]
      BY <1>2, <2>1 DEF Removed
    <3> QED BY <1>1, <2>2, <3>1 DEF Kept
  <2> QED BY <1>1, <2>1, <2>2 DEF RuleInv
<1>8. ASSUME OrderInv PROVE OrderInv' /\ LatestInv'
  <2>1. UNCHANGED <<interfaces, target, ticks>>
    BY <1>1
  <2>2. /\ \A i \in DOMAIN owners' : ~owners'[i].old
        /\ \A i, j \in DOMAIN owners' : i < j /\ owners'[i].getting => owners'[j].getting
        /\ \A i \in DOMAIN owners' :
             ~owners'[i].getting /\ target'[owners'[i].iface] \in Signalling =>
                 \E j \in DOMAIN interfaces' : interfaces'[j] = owners'[i].iface
    BY <1>2, <1>8, <2>1, RemovedOrder
  <2>3. \A j \in DOMAIN owners' : \E i \in DOMAIN owners : owners'[j] = owners[i]
    BY <1>2 DEF Removed
  <2>4. OrderInv'
    BY <1>8, <2>1, <2>2, <2>3 DEF OrderInv
  <2>5. ~up'
    BY <1>1, <1>8 DEF OrderInv, busVars
  <2> QED BY <2>4, <2>5 DEF LatestInv, Usable
<1> QED BY <1>1, <1>4, <1>5, <1>6, <1>7, <1>8 DEF IInv, busVars

\* reconnect registers each Interface of the cache.
LEMMA Reregistered ==
    ASSUME TypeOK
    PROVE  /\ Reregistrations \in Seq(Registration)
           /\ DOMAIN Reregistrations = DOMAIN interfaces
           /\ \A i \in DOMAIN interfaces : /\ Reregistrations[i].iface = interfaces[i]
                                           /\ ~Reregistrations[i].getting
                                           /\ ~Reregistrations[i].old
<1> DEFINE q == [i \in DOMAIN interfaces |-> Registering(interfaces[i], FALSE)]
<1>1. q = Reregistrations
  BY DEF Reregistrations
<1>2. /\ interfaces \in Seq(Requests) /\ Len(interfaces) \in Nat
      /\ DOMAIN interfaces = 1..Len(interfaces)
  BY DEF TypeOK
<1>3. \A r \in Requests : /\ Registering(r, FALSE) \in Registration
                          /\ Registering(r, FALSE).iface = r
                          /\ ~Registering(r, FALSE).getting
                          /\ ~Registering(r, FALSE).old
  BY DEF Registering, Registration
<1>4. \A i \in DOMAIN interfaces : q[i] \in Registration
  BY <1>3, Elements
<1>5. q \in Seq(Registration)
  <2>1. q \in [1..Len(interfaces) -> Registration]
    BY <1>2, <1>4
  <2> HIDE DEF q
  <2> QED BY <1>2, <2>1
<1>6. \A i \in DOMAIN interfaces : /\ q[i].iface = interfaces[i]
                                   /\ ~q[i].getting
                                   /\ ~q[i].old
  BY <1>3, Elements
<1>7. DOMAIN q = DOMAIN interfaces
  OBVIOUS
<1> HIDE DEF q
<1> QED BY <1>1, <1>5, <1>6, <1>7

\* The calls in flight on a connection that is replaced are the same, but old.
LEMMA OrphanedCalls ==
    ASSUME TypeOK
    PROVE  /\ Orphaned \in Seq(Registration)
           /\ DOMAIN Orphaned = DOMAIN owners
           /\ \A i \in DOMAIN owners : /\ Orphaned[i].iface = owners[i].iface
                                       /\ Orphaned[i].getting = owners[i].getting
<1> DEFINE q == [i \in DOMAIN owners |-> [owners[i] EXCEPT !.old = TRUE]]
<1>1. q = Orphaned
  BY DEF Orphaned
<1>2. /\ owners \in Seq(Registration) /\ Len(owners) \in Nat
      /\ DOMAIN owners = 1..Len(owners)
  BY DEF TypeOK
<1>3. \A c \in Registration : /\ [c EXCEPT !.old = TRUE] \in Registration
                              /\ [c EXCEPT !.old = TRUE].iface = c.iface
                              /\ [c EXCEPT !.old = TRUE].getting = c.getting
  BY DEF Registration
<1>4. \A i \in DOMAIN owners : /\ q[i] \in Registration
                               /\ q[i].iface = owners[i].iface
                               /\ q[i].getting = owners[i].getting
  BY <1>3, Elements
<1>5. q \in [1..Len(owners) -> Registration] /\ DOMAIN q = DOMAIN owners
  BY <1>2, <1>4
<1> HIDE DEF q
<1>6. q \in Seq(Registration)
  BY <1>2, <1>5
<1> QED BY <1>1, <1>4, <1>5, <1>6

\* The registrations of a reconnect follow the calls p that are in flight.
LEMMA RegisteredAgain ==
    ASSUME TypeOK, OwnersInv, CacheInv, NEW p \in Seq(Registration), DOMAIN p = DOMAIN owners,
           \A i \in DOMAIN owners : /\ p[i].iface = owners[i].iface
                                    /\ p[i].getting = owners[i].getting,
           owners' = p \o Reregistrations,
           stage' \in [Requests -> Stages],
           \A q \in Requests : (stage'[q] = "idle" <=> stage[q] = "idle")
                               /\ (stage'[q] = "registering" <=> stage[q] = "registering")
    PROVE  /\ owners' \in Seq(Registration)
           /\ \A i \in DOMAIN p : i \in DOMAIN owners' /\ owners'[i] = p[i]
           /\ \A i \in DOMAIN interfaces :
                \E j \in DOMAIN owners' : owners'[j].iface = interfaces[i] /\ ~owners'[j].old
           /\ OwnersInv'
<1> DEFINE R == Reregistrations
<1>1. /\ R \in Seq(Registration) /\ DOMAIN R = DOMAIN interfaces
      /\ \A i \in DOMAIN interfaces : R[i].iface = interfaces[i] /\ ~R[i].getting /\ ~R[i].old
  BY Reregistered
<1>2. owners' = p \o R
  OBVIOUS
<1> HIDE DEF R
<1>3. /\ p \o R \in Seq(Registration)
      /\ \A i \in DOMAIN p : i \in DOMAIN (p \o R) /\ (p \o R)[i] = p[i]
      /\ \A i \in DOMAIN R : Len(p) + i \in DOMAIN (p \o R) /\ (p \o R)[Len(p) + i] = R[i]
      /\ \A i \in DOMAIN (p \o R) :
            i \in DOMAIN p \/ (i - Len(p) \in DOMAIN R /\ (p \o R)[i] = R[i - Len(p)])
  BY <1>1, Joining
<1>4. \A i \in DOMAIN interfaces :
        \E j \in DOMAIN owners' : owners'[j].iface = interfaces[i] /\ ~owners'[j].old
  <2> TAKE i \in DOMAIN interfaces
  <2>1. /\ Len(p) + i \in DOMAIN owners' /\ owners'[Len(p) + i] = R[i]
        /\ R[i].iface = interfaces[i] /\ ~R[i].old
    BY <1>1, <1>2, <1>3
  <2> QED BY <2>1
<1>5. \A i \in DOMAIN owners' :
        \/ i \in DOMAIN owners /\ owners'[i].iface = owners[i].iface
                               /\ owners'[i].getting = owners[i].getting
        \/ /\ ~owners'[i].getting
           /\ \E j \in DOMAIN interfaces : owners'[i].iface = interfaces[j]
  <2> SUFFICES ASSUME NEW i \in DOMAIN owners'
               PROVE  \/ i \in DOMAIN owners /\ owners'[i].iface = owners[i].iface
                                             /\ owners'[i].getting = owners[i].getting
                      \/ /\ ~owners'[i].getting
                         /\ \E j \in DOMAIN interfaces : owners'[i].iface = interfaces[j]
    OBVIOUS
  <2>1. CASE i \in DOMAIN p
    BY <1>2, <1>3, <2>1
  <2>2. CASE i \notin DOMAIN p
    BY <1>1, <1>2, <1>3, <2>2
  <2> QED BY <2>1, <2>2
<1>6. OwnersInv'
  <2>1. \A i \in DOMAIN owners' : stage'[owners'[i].iface] # "idle"
    <3> SUFFICES ASSUME NEW i \in DOMAIN owners' PROVE stage'[owners'[i].iface] # "idle"
      OBVIOUS
    <3>1. \A j \in DOMAIN owners : owners[j].iface \in Requests /\ stage[owners[j].iface] # "idle"
      BY Elements DEF OwnersInv
    <3>2. \A j \in DOMAIN interfaces : interfaces[j] \in Requests /\ stage[interfaces[j]] # "idle"
      BY Elements DEF CacheInv
    <3>3. owners'[i].iface \in Requests /\ stage[owners'[i].iface] # "idle"
      BY <1>5, <3>1, <3>2
    <3> QED BY <3>3
  <2>2. \A i \in DOMAIN owners' :
          owners'[i].getting => stage'[owners'[i].iface] = "registering"
    <3> SUFFICES ASSUME NEW i \in DOMAIN owners', owners'[i].getting
                 PROVE  stage'[owners'[i].iface] = "registering"
      OBVIOUS
    <3>1. /\ i \in DOMAIN owners /\ owners'[i].iface = owners[i].iface
          /\ owners[i].getting
      BY <1>5
    <3>2. owners[i].iface \in Requests /\ stage[owners[i].iface] = "registering"
      BY <3>1, Elements DEF OwnersInv
    <3> QED BY <3>1, <3>2
  <2>3. \A i, j \in DOMAIN owners' :
          owners'[i].getting /\ owners'[j].getting /\ owners'[i].iface = owners'[j].iface => i = j
    BY <1>5 DEF OwnersInv
  <2> QED BY <2>1, <2>2, <2>3 DEF OwnersInv
<1> QED BY <1>2, <1>3, <1>4, <1>6

LEMMA ReconnectKeeps == ASSUME IInv, Reconnect PROVE IInv'
<1>1. /\ renewals < MaxRenewals /\ renewals' = renewals + 1 /\ ~aborted
      /\ connected' = TRUE /\ up' = TRUE
      /\ UNCHANGED <<losses, interfaces, handlers, target, ticks, answered, aborted>>
      /\ TypeOK /\ RequestsInv /\ TicksInv /\ OwnersInv /\ CacheInv /\ RuleInv
  BY DEF Reconnect, IInv
<1>2. renewals' \in 0..MaxRenewals /\ renewals' # 0
  BY <1>1, BoundsAssumption DEF TypeOK
<1>3. /\ stage' \in [Requests -> Stages]
      /\ \A q \in Requests : \/ stage'[q] = stage[q]
                             \/ stage[q] = "introspecting" /\ stage'[q] = "orphaned"
  <2>1. OrphanedStages \in [Requests -> Stages]
        /\ \A q \in Requests : \/ OrphanedStages[q] = stage[q]
                               \/ stage[q] = "introspecting" /\ OrphanedStages[q] = "orphaned"
    BY <1>1 DEF OrphanedStages, TypeOK, Stages
  <2>2. stage' = stage \/ stage' = OrphanedStages
    BY DEF Reconnect
  <2> QED BY <1>1, <2>1, <2>2 DEF TypeOK
<1>4. \A q \in Requests : /\ stage'[q] = "idle" <=> stage[q] = "idle"
                          /\ stage'[q] = "registering" <=> stage[q] = "registering"
  BY <1>3
<1>5. PICK p \in Seq(Registration) :
        /\ DOMAIN p = DOMAIN owners
        /\ \A i \in DOMAIN owners : /\ p[i].iface = owners[i].iface
                                    /\ p[i].getting = owners[i].getting
                                    /\ up => p[i].old = owners[i].old
        /\ owners' = p \o Reregistrations
  <2>1. CASE up
    <3>1. owners \in Seq(Registration) /\ owners' = owners \o Reregistrations
      BY <1>1, <2>1 DEF TypeOK, Reconnect
    <3> QED BY <3>1
  <2>2. CASE ~up
    <3>1. owners' = Orphaned \o Reregistrations
      BY <2>2 DEF Reconnect
    <3> QED BY <1>1, <2>2, <3>1, OrphanedCalls
  <2> QED BY <2>1, <2>2
<1>6. /\ owners' \in Seq(Registration)
      /\ \A i \in DOMAIN p : i \in DOMAIN owners' /\ owners'[i] = p[i]
      /\ \A i \in DOMAIN interfaces :
            \E j \in DOMAIN owners' : owners'[j].iface = interfaces[i] /\ ~owners'[j].old
      /\ OwnersInv'
  BY <1>1, <1>3, <1>4, <1>5, RegisteredAgain
<1>7. /\ rules' \subseteq Keys /\ refused' \subseteq Keys /\ overtaken' \subseteq Requests
      /\ reinit' \in BOOLEAN
  <2>1. {t.req : t \in ToSet(ticks)} \subseteq Requests
    BY <1>1, Elements DEF ToSet
  <2> QED BY <1>1, <2>1 DEF Reconnect, TypeOK
<1>8. TypeOK'
  BY <1>1, <1>2, <1>3, <1>6, <1>7 DEF TypeOK
<1>9. RequestsInv'
  BY <1>1, <1>3, <1>4 DEF RequestsInv
<1>10. TicksInv'
  BY <1>1, <1>3, Elements DEF TicksInv
<1>11. CacheInv'
  BY <1>1, <1>3, Elements DEF CacheInv
<1>12. RuleInv'
  <2>1. \A i \in DOMAIN interfaces : Kept(interfaces[i])'
    BY <1>1, <1>6 DEF Kept
  <2>2. ASSUME NEW i \in DOMAIN ticks, Storing(ticks[i]), target[ticks[i].req] \in Signalling
        PROVE  Kept(ticks[i].req)'
    <3>1. CASE up
      <4>1. Kept(ticks[i].req)
        BY <1>1, <2>2, <3>1 DEF RuleInv
      <4>2. ticks[i].req \notin Cached
        BY <1>1 DEF TicksInv, CacheInv, Cached, ToSet
      <4>3. rules' = rules /\ refused' = refused /\ overtaken' = overtaken \ Cached
        BY <3>1 DEF Reconnect
      <4>4. \A j \in DOMAIN owners : ~owners[j].old =>
              j \in DOMAIN owners' /\ owners'[j].iface = owners[j].iface /\ ~owners'[j].old
        BY <1>5, <1>6, <3>1
      <4> QED BY <1>1, <4>1, <4>2, <4>3, <4>4 DEF Kept
    <3>2. CASE ~up
      <4>1. ticks[i].req \in overtaken'
        BY <3>2 DEF Reconnect, ToSet
      <4> QED BY <1>1, <4>1 DEF Kept
    <3> QED BY <3>1, <3>2
  <2> QED BY <1>1, <2>1, <2>2 DEF RuleInv
<1> QED BY <1>2, <1>6, <1>8, <1>9, <1>10, <1>11, <1>12 DEF IInv

LEMMA DispatchDisconnectedKeeps == ASSUME IInv, DispatchDisconnected PROVE IInv'
<1>1. /\ ~aborted /\ ticks = <<>> /\ DOMAIN ticks = {}
      /\ up' = TRUE /\ reinit' = FALSE /\ rules' = {} /\ refused' = {} /\ overtaken' = {}
      /\ UNCHANGED <<connected, losses, renewals, interfaces, handlers, target, stage, ticks,
                     answered, aborted>>
      /\ TypeOK /\ RequestsInv /\ TicksInv /\ OwnersInv /\ CacheInv
  BY DEF DispatchDisconnected, Idle, IInv
<1>2. /\ owners' \in Seq(Registration) /\ DOMAIN owners' = DOMAIN interfaces
      /\ \A i \in DOMAIN interfaces : /\ owners'[i].iface = interfaces[i]
                                      /\ ~owners'[i].getting
                                      /\ ~owners'[i].old
  BY <1>1, Reregistered DEF DispatchDisconnected
<1>3. TypeOK'
  BY <1>1, <1>2 DEF TypeOK
<1>4. RequestsInv' /\ TicksInv' /\ CacheInv'
  BY <1>1 DEF RequestsInv, TicksInv, CacheInv
<1>5. OwnersInv'
  BY <1>1, <1>2 DEF OwnersInv, CacheInv
<1>6. RuleInv'
  BY <1>1, <1>2 DEF RuleInv, Kept
<1>7. OrderInv'
  BY <1>1, <1>2 DEF OrderInv
<1>8. LatestInv'
  BY <1>1, <1>2 DEF LatestInv
<1> QED BY <1>3, <1>4, <1>5, <1>6, <1>7, <1>8 DEF IInv

\* The cache after r was stored: r takes the place of the Interface of its key, if there
\* is one; the others stay.
LEMMA StoredOne ==
    ASSUME TypeOK, CacheInv, NEW r \in Requests
    PROVE  /\ Stored(r) \in Seq(Requests)
           /\ \A i \in DOMAIN Stored(r) :
                \/ Stored(r)[i] = r
                \/ \E j \in DOMAIN interfaces : /\ Stored(r)[i] = interfaces[j]
                                                /\ target[interfaces[j]] # target[r]
           /\ \A j \in DOMAIN interfaces :
                target[interfaces[j]] # target[r] =>
                    \E i \in DOMAIN Stored(r) : Stored(r)[i] = interfaces[j]
           /\ \E i \in DOMAIN Stored(r) : Stored(r)[i] = r
           /\ \A i, j \in DOMAIN Stored(r) : target[Stored(r)[i]] = target[Stored(r)[j]] => i = j
<1>1. /\ interfaces \in Seq(Requests) /\ Len(interfaces) \in Nat
      /\ DOMAIN interfaces = 1..Len(interfaces)
      /\ \A i \in DOMAIN interfaces : interfaces[i] \in Requests
      /\ \A i, j \in DOMAIN interfaces :
            target[interfaces[i]] = target[interfaces[j]] => i = j
  BY Elements DEF TypeOK, CacheInv
<1>2. CASE CachedFor(target[r]) = {}
  <2> DEFINE q == Append(interfaces, r)
             n == Len(interfaces) + 1
  <2>1. \A i \in DOMAIN interfaces : target[interfaces[i]] # target[r]
    BY <1>2 DEF CachedFor, ToSet
  <2>2. /\ q \in Seq(Requests) /\ DOMAIN q = DOMAIN interfaces \cup {n}
        /\ q[n] = r /\ n \notin DOMAIN interfaces
        /\ \A i \in DOMAIN interfaces : q[i] = interfaces[i]
    BY <1>1, AppendTo
  <2>3. Stored(r) = q
    BY <1>2 DEF Stored
  <2> HIDE DEF q, n
  <2> QED BY <1>1, <2>1, <2>2, <2>3
<1>3. CASE CachedFor(target[r]) # {}
  <2> DEFINE q == [i \in DOMAIN interfaces |->
                     IF target[interfaces[i]] = target[r] THEN r ELSE interfaces[i]]
  <2>1. Stored(r) = q
    BY <1>3 DEF Stored
  <2>2. q \in Seq(Requests) /\ DOMAIN q = DOMAIN interfaces
    <3>1. q \in [1..Len(interfaces) -> Requests]
      BY <1>1
    <3> HIDE DEF q
    <3> QED BY <1>1, <3>1
  <2>3. \A i \in DOMAIN interfaces :
          /\ target[interfaces[i]] = target[r] => q[i] = r
          /\ target[interfaces[i]] # target[r] => q[i] = interfaces[i]
    OBVIOUS
  <2> HIDE DEF q
  <2>4. \E i \in DOMAIN q : q[i] = r
    <3>1. PICK i \in DOMAIN interfaces : target[interfaces[i]] = target[r]
      BY <1>3 DEF CachedFor, ToSet
    <3> QED BY <2>2, <2>3, <3>1
  <2> QED BY <1>1, <2>1, <2>2, <2>3, <2>4
<1> QED BY <1>2, <1>3

\* The tick of addSignalFilter is followed by the one of Interface.init, for the same
\* request.
LEMMA Refiled ==
    ASSUME TypeOK, ticks # <<>>, Head(ticks).kind = "filtered", ticks' = Filtered(Head(ticks))
    PROVE  /\ ticks' \in Seq(Tick)
           /\ \E g : /\ \A i \in DOMAIN ticks' :
                            /\ g[i] \in DOMAIN ticks
                            /\ ticks'[i].req = ticks[g[i]].req
                            /\ Storing(ticks'[i]) <=> Storing(ticks[g[i]])
                     /\ \A i, j \in DOMAIN ticks' : g[i] = g[j] => i = j
           /\ \A j \in DOMAIN ticks : \E i \in DOMAIN ticks' :
                /\ ticks'[i].req = ticks[j].req
                /\ Storing(ticks'[i]) <=> Storing(ticks[j])
<1> DEFINE p == Tail(ticks)
           m == [Head(ticks) EXCEPT !.kind = "init"]
           n == Len(p) + 1
<1>1. ticks \in Seq(Tick)
  BY DEF TypeOK
<1>2. /\ 1 \in DOMAIN ticks /\ Head(ticks) = ticks[1] /\ ticks[1] \in Tick
      /\ p \in Seq(Tick)
      /\ \E f : Picks(p, ticks, f) /\ \A i \in DOMAIN p : f[i] # 1
      /\ \A j \in DOMAIN ticks \ {1} : \E i \in DOMAIN p : p[i] = ticks[j]
  BY <1>1, TailOf
<1>3. m \in Tick /\ m.req = ticks[1].req /\ m.kind = "init"
  BY <1>2 DEF Tick
<1>4. Storing(m) /\ Storing(ticks[1])
  BY <1>2, <1>3 DEF Storing
<1>5. ticks' = Append(p, m)
  BY DEF Filtered
<1> HIDE DEF m, p
<1>6. /\ ticks' \in Seq(Tick) /\ DOMAIN ticks' = DOMAIN p \cup {n}
      /\ ticks'[n] = m /\ n \notin DOMAIN p
      /\ \A i \in DOMAIN p : ticks'[i] = p[i]
  <2>1. p \in Seq(Tick) /\ m \in Tick
    BY <1>2, <1>3
  <2>2. /\ Append(p, m) \in Seq(Tick)
        /\ DOMAIN Append(p, m) = DOMAIN p \cup {n}
        /\ Append(p, m)[n] = m /\ n \notin DOMAIN p
        /\ \A i \in DOMAIN p : Append(p, m)[i] = p[i]
    BY <2>1, AppendTo
  <2> QED BY <1>5, <2>2
<1> HIDE DEF n
<1>7. PICK f : Picks(p, ticks, f) /\ \A i \in DOMAIN p : f[i] # 1
  BY <1>2
<1>8. /\ \A i \in DOMAIN p : f[i] \in DOMAIN ticks /\ f[i] # 1 /\ p[i] = ticks[f[i]]
      /\ \A i, j \in DOMAIN p : f[i] = f[j] => i = j
  BY <1>7 DEF Picks
<1>9. PICK g : g[n] = 1 /\ \A i \in DOMAIN p : g[i] = f[i]
  <2> DEFINE g == [i \in DOMAIN ticks' |-> IF i = n THEN 1 ELSE f[i]]
  <2>1. g[n] = 1 /\ \A i \in DOMAIN p : g[i] = f[i]
    BY <1>6
  <2> HIDE DEF g
  <2> QED BY <2>1
<1>10. \A i \in DOMAIN ticks' : /\ g[i] \in DOMAIN ticks
                                /\ ticks'[i].req = ticks[g[i]].req
                                /\ Storing(ticks'[i]) <=> Storing(ticks[g[i]])
  <2> TAKE i \in DOMAIN ticks'
  <2>1. CASE i = n
    BY <1>2, <1>3, <1>4, <1>6, <1>9, <2>1
  <2>2. CASE i \in DOMAIN p
    <3>1. g[i] \in DOMAIN ticks /\ ticks'[i] = ticks[g[i]]
      BY <1>6, <1>8, <1>9, <2>2
    <3> QED BY <3>1
  <2> QED BY <1>6, <2>1, <2>2
<1>11. \A i, j \in DOMAIN ticks' : g[i] = g[j] => i = j
  BY <1>6, <1>8, <1>9
<1>12. \A j \in DOMAIN ticks : \E i \in DOMAIN ticks' :
        /\ ticks'[i].req = ticks[j].req
        /\ Storing(ticks'[i]) <=> Storing(ticks[j])
  <2> TAKE j \in DOMAIN ticks
  <2>1. CASE j = 1
    BY <1>3, <1>4, <1>6, <2>1
  <2>2. CASE j # 1
    <3>1. PICK i \in DOMAIN p : p[i] = ticks[j]
      BY <1>2, <2>2
    <3>2. i \in DOMAIN ticks' /\ ticks'[i] = ticks[j]
      BY <1>6, <3>1
    <3> QED BY <3>2
  <2> QED BY <2>1, <2>2
<1> QED BY <1>6, <1>10, <1>11, <1>12

LEMMA FilteredKeeps ==
    ASSUME IInv, RunTick, Head(ticks).kind = "filtered"
    PROVE  IInv'
<1>1. /\ ticks # <<>> /\ ticks' = Filtered(Head(ticks))
      /\ UNCHANGED <<busVars, rules, refused, interfaces, handlers, target, stage, owners, answered,
                     overtaken, aborted>>
      /\ TypeOK /\ RequestsInv /\ TicksInv /\ OwnersInv /\ CacheInv /\ RuleInv
  BY DEF RunTick, IInv
<1>2. /\ ticks' \in Seq(Tick)
      /\ \E g : /\ \A i \in DOMAIN ticks' :
                       /\ g[i] \in DOMAIN ticks
                       /\ ticks'[i].req = ticks[g[i]].req
                       /\ Storing(ticks'[i]) <=> Storing(ticks[g[i]])
                /\ \A i, j \in DOMAIN ticks' : g[i] = g[j] => i = j
      /\ \A j \in DOMAIN ticks : \E i \in DOMAIN ticks' :
           /\ ticks'[i].req = ticks[j].req
           /\ Storing(ticks'[i]) <=> Storing(ticks[j])
  BY <1>1, Refiled
<1>3. PICK g : /\ \A i \in DOMAIN ticks' :
                       /\ g[i] \in DOMAIN ticks
                       /\ ticks'[i].req = ticks[g[i]].req
                       /\ Storing(ticks'[i]) <=> Storing(ticks[g[i]])
               /\ \A i, j \in DOMAIN ticks' : g[i] = g[j] => i = j
  BY <1>2
<1>4. TypeOK' /\ RequestsInv' /\ OwnersInv' /\ CacheInv'
  BY <1>1, <1>2 DEF TypeOK, RequestsInv, OwnersInv, CacheInv, busVars
<1>5. TicksInv'
  BY <1>1, <1>3 DEF TicksInv
<1>6. \A x : /\ Kept(x)' <=> Kept(x)
             /\ Excused(x)' <=> Excused(x)
             /\ Settled(x)' <=> Settled(x)
  BY <1>1 DEF Kept, Clash, Excused, Settled
<1>7. RuleInv'
  BY <1>1, <1>3, <1>6 DEF RuleInv, busVars
<1>8. OrderInv => OrderInv'
  BY <1>1, <1>3 DEF OrderInv
<1>9. LatestInv => LatestInv'
  <2> SUFFICES ASSUME LatestInv, Usable' PROVE LatestInv'
    BY DEF LatestInv
  <2>1. Usable
    BY <1>1 DEF Usable, busVars
  <2>2. ASSUME NEW i \in DOMAIN interfaces, target[interfaces[i]] \in Signalling,
               ~Excused(interfaces[i])
        PROVE  \/ Settled(interfaces[i])
               \/ \E j \in DOMAIN owners : ~owners[j].getting /\ owners[j].iface = interfaces[i]
               \/ \E j \in DOMAIN ticks' :
                    Storing(ticks'[j]) /\ target[ticks'[j].req] = target[interfaces[i]]
    BY <1>2, <2>1, <2>2 DEF LatestInv
  <2>3. ASSUME NEW i \in DOMAIN ticks', Storing(ticks'[i]),
               target[ticks'[i].req] \in Signalling, ~Excused(ticks'[i].req)
        PROVE  Settled(ticks'[i].req)
    BY <1>3, <2>1, <2>3 DEF LatestInv
  <2> QED BY <1>1, <1>6, <2>2, <2>3 DEF LatestInv
<1> QED BY <1>1, <1>4, <1>5, <1>7, <1>8, <1>9 DEF IInv, busVars

LEMMA CalledBackKeeps ==
    ASSUME IInv, RunTick, Head(ticks).kind # "filtered"
    PROVE  IInv'
<1>1. PICK r, t : t = Head(ticks) /\ r = t.req
  OBVIOUS
<1>2. /\ ticks # <<>> /\ ticks' = Tail(ticks)
      /\ answered' = [answered EXCEPT ![r] = answered[r] + 1]
      /\ stage' = [stage EXCEPT ![r] = "done"]
      /\ interfaces' = IF t.kind = "init" THEN Stored(r) ELSE interfaces
      /\ UNCHANGED <<busVars, rules, refused, handlers, target, owners, overtaken, aborted>>
      /\ TypeOK /\ RequestsInv /\ TicksInv /\ OwnersInv /\ CacheInv /\ RuleInv
  BY <1>1 DEF RunTick, CallBack, MoveTo, IInv
<1>3. /\ 1 \in DOMAIN ticks /\ t = ticks[1] /\ t \in Tick
      /\ ticks' \in Seq(Tick)
      /\ \E f : Picks(ticks', ticks, f) /\ \A i \in DOMAIN ticks' : f[i] # 1
      /\ \A j \in DOMAIN ticks \ {1} : \E i \in DOMAIN ticks' : ticks'[i] = ticks[j]
  <2>1. ticks \in Seq(Tick)
    BY <1>2 DEF TypeOK
  <2> QED BY <1>1, <1>2, <2>1, TailOf
<1>4. PICK f : Picks(ticks', ticks, f) /\ \A i \in DOMAIN ticks' : f[i] # 1
  BY <1>3
<1>5. /\ \A i \in DOMAIN ticks' : f[i] \in DOMAIN ticks /\ f[i] # 1 /\ ticks'[i] = ticks[f[i]]
      /\ \A i, j \in DOMAIN ticks' : f[i] = f[j] => i = j
  BY <1>4 DEF Picks
<1>6. /\ r \in Requests /\ stage[r] = "ticking" /\ answered[r] = 0
      /\ \A i \in DOMAIN ticks : i # 1 => ticks[i].req # r
      /\ t.kind = "init" <=> Storing(t)
  <2>1. r \in Requests /\ stage[r] = "ticking" /\ \A i \in DOMAIN ticks : i # 1 => ticks[i].req # r
    BY <1>1, <1>2, <1>3, Elements DEF TicksInv
  <2>2. answered[r] = 0
    BY <1>2, <2>1 DEF RequestsInv
  <2>3. t.kind = "init" <=> Storing(t)
    BY <1>1 DEF Storing
  <2> QED BY <2>1, <2>2, <2>3
<1>7. /\ stage' \in [Requests -> Stages] /\ stage'[r] = "done"
      /\ \A q \in Requests \ {r} : stage'[q] = stage[q]
      /\ answered' \in [Requests -> 0..1] /\ answered'[r] = 1
      /\ \A q \in Requests \ {r} : answered'[q] = answered[q]
  <2>1. "done" \in Stages /\ answered[r] + 1 = 1
    BY <1>6 DEF Stages
  <2>2. answered' = [answered EXCEPT ![r] = 1]
    BY <1>2, <2>1
  <2> QED BY <1>2, <1>6, <2>1, <2>2 DEF TypeOK
<1>8. /\ interfaces' \in Seq(Requests)
      /\ \A i \in DOMAIN interfaces' :
            \/ interfaces'[i] = r /\ Storing(t)
            \/ \E j \in DOMAIN interfaces :
                  /\ interfaces'[i] = interfaces[j]
                  /\ Storing(t) => target[interfaces[j]] # target[r]
      /\ \A j \in DOMAIN interfaces :
            \/ Storing(t) /\ target[interfaces[j]] = target[r]
            \/ \E i \in DOMAIN interfaces' : interfaces'[i] = interfaces[j]
      /\ \A i, j \in DOMAIN interfaces' :
            target[interfaces'[i]] = target[interfaces'[j]] => i = j
  <2>1. CASE Storing(t)
    <3>1. interfaces' = Stored(r)
      BY <1>2, <1>6, <2>1
    <3>2. /\ Stored(r) \in Seq(Requests)
          /\ \A i \in DOMAIN Stored(r) :
                \/ Stored(r)[i] = r
                \/ \E j \in DOMAIN interfaces : /\ Stored(r)[i] = interfaces[j]
                                                /\ target[interfaces[j]] # target[r]
          /\ \A j \in DOMAIN interfaces :
                target[interfaces[j]] # target[r] =>
                    \E i \in DOMAIN Stored(r) : Stored(r)[i] = interfaces[j]
          /\ \A i, j \in DOMAIN Stored(r) :
                target[Stored(r)[i]] = target[Stored(r)[j]] => i = j
      BY <1>2, <1>6, StoredOne
    <3> QED BY <2>1, <3>1, <3>2
  <2>2. CASE ~Storing(t)
    <3>1. interfaces' = interfaces
      BY <1>2, <1>6, <2>2
    <3> QED BY <1>2, <2>2, <3>1 DEF TypeOK, CacheInv
  <2> QED BY <2>1, <2>2
<1>9. TypeOK'
  BY <1>2, <1>3, <1>7, <1>8 DEF TypeOK, busVars
<1>10. RequestsInv'
  BY <1>2, <1>6, <1>7 DEF RequestsInv
<1>11. TicksInv'
  <2>1. \A i \in DOMAIN ticks' : stage'[ticks'[i].req] = "ticking"
    <3> SUFFICES ASSUME NEW i \in DOMAIN ticks' PROVE stage'[ticks'[i].req] = "ticking"
      OBVIOUS
    <3>1. /\ f[i] \in DOMAIN ticks /\ ticks'[i] = ticks[f[i]]
          /\ ticks[f[i]].req \in Requests \ {r} /\ stage[ticks[f[i]].req] = "ticking"
      BY <1>2, <1>5, <1>6, Elements DEF TicksInv
    <3> QED BY <1>7, <3>1
  <2>2. \A i, j \in DOMAIN ticks' : ticks'[i].req = ticks'[j].req => i = j
    BY <1>2, <1>5 DEF TicksInv
  <2> QED BY <2>1, <2>2 DEF TicksInv
<1>12. OwnersInv'
  <2>1. \A i \in DOMAIN owners :
          /\ owners[i].iface \in Requests
          /\ stage'[owners[i].iface] # "idle"
          /\ owners[i].getting => stage'[owners[i].iface] = "registering"
    BY <1>2, <1>6, <1>7, Elements DEF OwnersInv
  <2> QED BY <1>2, <2>1 DEF OwnersInv
<1>13. CacheInv'
  <2>1. \A j \in DOMAIN interfaces : stage'[interfaces[j]] = "done"
    BY <1>2, <1>7, Elements DEF CacheInv
  <2>2. \A i \in DOMAIN interfaces' : stage'[interfaces'[i]] = "done"
    BY <1>7, <1>8, <2>1
  <2> QED BY <1>2, <1>8, <2>2 DEF CacheInv
<1>14. \A x : /\ Kept(x)' <=> Kept(x)
              /\ Excused(x)' <=> Excused(x)
              /\ Settled(x)' <=> Settled(x)
  BY <1>2 DEF Kept, Clash, Excused, Settled
<1>15. RuleInv'
  <2> SUFFICES ASSUME up', ~aborted' PROVE RuleInv'
    BY DEF RuleInv
  <2>1. up /\ ~aborted
    BY <1>2 DEF busVars
  <2>2. \A i \in DOMAIN interfaces' :
          target[interfaces'[i]] \in Signalling => Kept(interfaces'[i])
    <3> SUFFICES ASSUME NEW i \in DOMAIN interfaces', target[interfaces'[i]] \in Signalling
                 PROVE  Kept(interfaces'[i])
      OBVIOUS
    <3>1. CASE interfaces'[i] = r /\ Storing(t)
      BY <1>1, <1>2, <1>3, <2>1, <3>1 DEF RuleInv
    <3>2. ASSUME NEW j \in DOMAIN interfaces, interfaces'[i] = interfaces[j]
          PROVE  Kept(interfaces'[i])
      BY <1>2, <2>1, <3>2 DEF RuleInv
    <3> QED BY <1>8, <3>1, <3>2
  <2>3. \A i \in DOMAIN ticks' :
          Storing(ticks'[i]) /\ target[ticks'[i].req] \in Signalling => Kept(ticks'[i].req)
    BY <1>2, <1>5, <2>1 DEF RuleInv
  <2> QED BY <1>2, <1>14, <2>2, <2>3 DEF RuleInv
<1>16. ASSUME OrderInv PROVE OrderInv'
  <2>1. \A i \in DOMAIN owners :
          ~owners[i].getting /\ target[owners[i].iface] \in Signalling =>
              \E j \in DOMAIN interfaces' : interfaces'[j] = owners[i].iface
    <3> SUFFICES ASSUME NEW i \in DOMAIN owners, ~owners[i].getting,
                        target[owners[i].iface] \in Signalling
                 PROVE  \E j \in DOMAIN interfaces' : interfaces'[j] = owners[i].iface
      OBVIOUS
    <3>1. PICK j \in DOMAIN interfaces : interfaces[j] = owners[i].iface
      BY <1>16 DEF OrderInv
    <3>2. ~(Storing(t) /\ target[interfaces[j]] = target[r])
      BY <1>1, <1>3, <1>16, <3>1 DEF OrderInv
    <3> QED BY <1>8, <3>1, <3>2
  <2>2. \A i, j \in DOMAIN ticks' : Storing(ticks'[i]) /\ Storing(ticks'[j]) => i = j
    BY <1>5, <1>16 DEF OrderInv
  <2>3. \A i \in DOMAIN ticks' :
          Storing(ticks'[i]) /\ target[ticks'[i].req] \in Signalling =>
              \A j \in DOMAIN owners : owners[j].getting
    BY <1>5, <1>16 DEF OrderInv
  <2> QED BY <1>2, <1>16, <2>1, <2>2, <2>3 DEF OrderInv
<1>17. ASSUME LatestInv PROVE LatestInv'
  <2> SUFFICES ASSUME Usable' PROVE LatestInv'
    BY DEF LatestInv
  <2>1. Usable
    BY <1>2 DEF Usable, busVars
  <2>2. ASSUME NEW i \in DOMAIN interfaces', target[interfaces'[i]] \in Signalling,
               ~Excused(interfaces'[i])
        PROVE  \/ Settled(interfaces'[i])
               \/ \E j \in DOMAIN owners : ~owners[j].getting /\ owners[j].iface = interfaces'[i]
               \/ \E j \in DOMAIN ticks' :
                    Storing(ticks'[j]) /\ target[ticks'[j].req] = target[interfaces'[i]]
    <3>1. CASE interfaces'[i] = r /\ Storing(t)
      BY <1>1, <1>3, <1>17, <2>1, <2>2, <3>1 DEF LatestInv
    <3>2. ASSUME NEW m \in DOMAIN interfaces, interfaces'[i] = interfaces[m],
                 Storing(t) => target[interfaces[m]] # target[r]
          PROVE  \/ Settled(interfaces'[i])
                 \/ \E j \in DOMAIN owners : /\ ~owners[j].getting
                                             /\ owners[j].iface = interfaces'[i]
                 \/ \E j \in DOMAIN ticks' :
                      Storing(ticks'[j]) /\ target[ticks'[j].req] = target[interfaces'[i]]
      <4>1. \A j \in DOMAIN ticks :
              Storing(ticks[j]) /\ target[ticks[j].req] = target[interfaces[m]] => j # 1
        BY <1>1, <1>3, <3>2
      <4>2. \A j \in DOMAIN ticks : j # 1 => \E n \in DOMAIN ticks' : ticks'[n] = ticks[j]
        BY <1>3
      <4>3. \/ Settled(interfaces[m])
            \/ \E j \in DOMAIN owners : ~owners[j].getting /\ owners[j].iface = interfaces[m]
            \/ \E j \in DOMAIN ticks :
                 Storing(ticks[j]) /\ target[ticks[j].req] = target[interfaces[m]]
        BY <1>17, <2>1, <2>2, <3>2 DEF LatestInv
      <4> QED BY <3>2, <4>1, <4>2, <4>3
    <3> QED BY <1>8, <3>1, <3>2
  <2>3. ASSUME NEW i \in DOMAIN ticks', Storing(ticks'[i]),
               target[ticks'[i].req] \in Signalling, ~Excused(ticks'[i].req)
        PROVE  Settled(ticks'[i].req)
    BY <1>5, <1>17, <2>1, <2>3 DEF LatestInv
  <2> QED BY <1>2, <1>14, <2>2, <2>3 DEF LatestInv
<1> QED BY <1>2, <1>9, <1>10, <1>11, <1>12, <1>13, <1>15, <1>16, <1>17 DEF IInv, busVars

LEMMA RunTickKeeps == ASSUME IInv, RunTick PROVE IInv'
BY FilteredKeeps, CalledBackKeeps

-----------------------------------------------------------------------------
(* The specification.                                                      *)

LEMMA NextIInv == ASSUME IInv, [Next]_vars PROVE IInv'
<1>1. CASE UNCHANGED vars
  BY <1>1 DEF IInv, TypeOK, RequestsInv, TicksInv, OwnersInv, CacheInv, RuleInv, OrderInv,
              LatestInv, Kept, Clash, Excused, Settled, Usable, vars, busVars
<1>2. ASSUME NEW r \in Requests, NEW k \in Keys, GetInterface(r, k) PROVE IInv'
  BY <1>2, GetInterfaceKeeps
<1>3. ASSUME NEW r \in Requests, NEW found \in BOOLEAN, Introspected(r, found) PROVE IInv'
  BY <1>3, IntrospectedKeeps
<1>4. ASSUME NEW r \in Requests, ForgetIntrospect(r) PROVE IInv'
  BY <1>4, ForgetIntrospectKeeps
<1>5. ASSUME NEW i \in DOMAIN owners, NEW accepted \in BOOLEAN, OwnerKnown(i, accepted)
      PROVE  IInv'
  BY <1>5, OwnerKnownKeeps
<1>6. ASSUME NEW i \in DOMAIN owners, ForgetOwner(i) PROVE IInv'
  BY <1>6, ForgetOwnerKeeps
<1> QED BY <1>1, <1>2, <1>3, <1>4, <1>5, <1>6, DisconnectKeeps, ReconnectKeeps,
           DispatchDisconnectedKeeps, RunTickKeeps, LoseKeeps DEF Next

\* The inductive invariant, for any number of requests, keys, losses and reconnects.
THEOREM Invariant == Spec => []IInv
BY InitIInv, NextIInv, PTL DEF Spec

\* The queues and tables keep their types; in particular getInterface calls back at most
\* once, though a reconnect registers the same Interface objects again (lib/bus.js).
THEOREM TypeCorrect == Spec => []TypeOK
<1>1. IInv => TypeOK
  BY DEF IInv
<1> QED BY <1>1, Invariant, PTL

\* The daemon has the match rule of every cached interface with signals, or refused it, or
\* a call that will ask for it is in flight, or the interface was in its last ticks when the
\* user's code reconnected a lost bus.
THEOREM RulesKept == Spec => []RuleKept
<1>1. IInv => RuleKept
  <2> SUFFICES ASSUME IInv, Usable, NEW r \in Cached, target[r] \in Signalling
               PROVE  \/ target[r] \in rules
                      \/ \E c \in ToSet(owners) : target[c.iface] = target[r] /\ ~c.old
                      \/ target[r] \in refused
                      \/ r \in overtaken
    BY DEF RuleKept
  <2>1. PICK i \in DOMAIN interfaces : interfaces[i] = r
    BY DEF Cached, ToSet
  <2>2. Kept(r)
    BY <2>1 DEF IInv, RuleInv, Usable
  <2> QED BY <2>2 DEF Kept, ToSet
<1> QED BY <1>1, Invariant, PTL

\* When nothing is in flight, before a reconnect by the user's code, the Interface in the
\* cache is the one that hears its signals, unless the daemon refused its rule, or another
\* service has its path and name.
THEOREM LatestInterfaceHears == Spec => []LatestHears
<1>1. IInv => LatestHears
  <2> SUFFICES ASSUME IInv, Usable, Idle, owners = <<>>, renewals = 0,
                      NEW r \in Cached, target[r] \in Signalling
               PROVE  \/ Hears(target[r]) = r
                      \/ r \in overtaken
                      \/ Excused(r)
    BY DEF LatestHears, Clash, Excused
  <2>1. PICK i \in DOMAIN interfaces : interfaces[i] = r
    BY DEF Cached, ToSet
  <2>2. LatestInv /\ DOMAIN owners = {} /\ DOMAIN ticks = {}
    BY DEF IInv, Idle
  <2>3. Settled(r) \/ Excused(r)
    BY <2>1, <2>2 DEF LatestInv
  <2> QED BY <2>3 DEF Settled, Hears, Usable
<1> QED BY <1>1, Invariant, PTL

-----------------------------------------------------------------------------
(* The refinement: Interfaces implements RetrievalContract.                *)

\* The state of a request in the contract, from its stage.
Placed(s) ==
    CASE s = "idle" -> "idle"
      [] s = "threw" -> "refused"
      [] s = "done" -> "answered"
      [] s = "stuck" -> "given up"
      [] OTHER -> "asked"

States == [r \in Requests |-> RetrievalState(r)]
Objects == [k \in Keys |-> OneOf(CachedFor(k))]

LEMMA StatesFrom == States = [r \in Requests |-> Placed(stage[r])]
BY DEF States, RetrievalState, Placed

\* A request moves to another stage, and in the contract to the state of that stage.
LEMMA MovesOne ==
    ASSUME stage \in [Requests -> Stages], NEW r \in Requests, NEW s \in Stages,
           stage' = [stage EXCEPT ![r] = s]
    PROVE  /\ States[r] = Placed(stage[r])
           /\ States' = [States EXCEPT ![r] = Placed(s)]
<1>1. /\ States = [q \in Requests |-> Placed(stage[q])]
      /\ States' = [q \in Requests |-> Placed(stage'[q])]
  BY StatesFrom DEF States, RetrievalState, Placed
<1>2. stage'[r] = s /\ \A q \in Requests \ {r} : stage'[q] = stage[q]
  OBVIOUS
<1> QED BY <1>1, <1>2

\* What has the same place for the contract is a stutter.
LEMMA StatesSame ==
    ASSUME \A r \in Requests : Placed(stage'[r]) = Placed(stage[r])
    PROVE  States' = States
<1>1. /\ States = [q \in Requests |-> Placed(stage[q])]
      /\ States' = [q \in Requests |-> Placed(stage'[q])]
  BY StatesFrom DEF States, RetrievalState, Placed
<1> QED BY <1>1

\* The objects only depend on what is cached, for which keys.
LEMMA ObjectsSame ==
    ASSUME UNCHANGED interfaces,
           \A i \in DOMAIN interfaces : target'[interfaces[i]] = target[interfaces[i]]
    PROVE  Objects' = Objects
<1>1. \A k : CachedFor(k)' = CachedFor(k)
  BY DEF CachedFor, ToSet
<1> QED BY <1>1 DEF Objects

\* Storing the Interface of r makes it the object of its key, and leaves the others.
LEMMA ObjectStored ==
    ASSUME TypeOK, CacheInv, NEW r \in Requests, target[r] \in Keys,
           interfaces' = Stored(r), UNCHANGED target
    PROVE  Objects' = [Objects EXCEPT ![target[r]] = r]
<1>1. /\ \A i \in DOMAIN interfaces' :
            \/ interfaces'[i] = r
            \/ \E j \in DOMAIN interfaces : /\ interfaces'[i] = interfaces[j]
                                            /\ target[interfaces[j]] # target[r]
      /\ \A j \in DOMAIN interfaces :
            target[interfaces[j]] # target[r] =>
                \E i \in DOMAIN interfaces' : interfaces'[i] = interfaces[j]
      /\ \E i \in DOMAIN interfaces' : interfaces'[i] = r
  BY StoredOne
<1>2. \A k : k # target[r] => CachedFor(k)' = CachedFor(k)
  BY <1>1 DEF CachedFor, ToSet
<1>3. CachedFor(target[r])' = {r}
  BY <1>1 DEF CachedFor, ToSet
<1>4. OneOf({r}) = r
  BY DEF OneOf
<1> QED BY <1>2, <1>3, <1>4 DEF Objects

\* Which step of the contract a change of stage is, with the cache as it was.
LEMMA IsAnswer ==
    ASSUME TypeOK, NEW r \in Requests, Placed(stage[r]) = "asked",
           stage' = [stage EXCEPT ![r] = "done"],
           answered' = [answered EXCEPT ![r] = answered[r] + 1],
           UNCHANGED <<interfaces, target>>
    PROVE  Contract!Answer(r)
<1>1. States[r] = "asked" /\ States' = [States EXCEPT ![r] = "answered"]
  <2>1. "done" \in Stages /\ Placed("done") = "answered" /\ stage \in [Requests -> Stages]
    BY DEF Stages, Placed, TypeOK
  <2> QED BY <2>1, MovesOne
<1>2. Objects' = Objects
  BY ObjectsSame
<1> QED BY <1>1, <1>2 DEF Contract!Answer, Contract!CallBack, States, Objects

LEMMA IsGivenUp ==
    ASSUME TypeOK, NEW r \in Requests, Placed(stage[r]) = "asked",
           stage' = [stage EXCEPT ![r] = "stuck"],
           UNCHANGED <<interfaces, target, answered>>
    PROVE  Contract!GiveUp(r)
<1>1. States[r] = "asked" /\ States' = [States EXCEPT ![r] = "given up"]
  <2>1. "stuck" \in Stages /\ Placed("stuck") = "given up" /\ stage \in [Requests -> Stages]
    BY DEF Stages, Placed, TypeOK
  <2> QED BY <2>1, MovesOne
<1>2. Objects' = Objects
  BY ObjectsSame
<1> QED BY <1>1, <1>2 DEF Contract!GiveUp, States, Objects

\* A request goes on waiting, for something else.
LEMMA IsWaiting ==
    ASSUME TypeOK, NEW r \in Requests, Placed(stage[r]) = "asked",
           NEW s \in {"ticking", "registering"}, stage' = [stage EXCEPT ![r] = s],
           UNCHANGED <<interfaces, target, answered>>
    PROVE  UNCHANGED Contract!vars
<1>1. \A q \in Requests : Placed(stage'[q]) = Placed(stage[q])
  BY DEF Placed, TypeOK
<1>2. States' = States
  BY <1>1, StatesSame
<1>3. Objects' = Objects
  BY ObjectsSame
<1> QED BY <1>2, <1>3 DEF Contract!vars, States, Objects

LEMMA IsStutter ==
    ASSUME UNCHANGED <<stage, interfaces, target, answered>>
    PROVE  UNCHANGED Contract!vars
<1>1. States' = States
  BY StatesSame
<1>2. Objects' = Objects
  BY ObjectsSame
<1> QED BY <1>1, <1>2 DEF Contract!vars, States, Objects

LEMMA InitContract == Init => Contract!Init
<1> SUFFICES ASSUME Init PROVE Contract!Init
  OBVIOUS
<1>1. States = [r \in Requests |-> "idle"]
  BY DEF Init, States, RetrievalState
<1>2. \A k : CachedFor(k) = {}
  BY DEF Init, CachedFor, ToSet
<1>3. Objects = [k \in Keys |-> None]
  BY <1>2 DEF Objects, OneOf
<1> QED BY <1>1, <1>3 DEF Init, Contract!Init, States, Objects

LEMMA GetInterfaceAsks ==
    ASSUME IInv, NEW r \in Requests, NEW k \in Keys, GetInterface(r, k)
    PROVE  Contract!Ask(r, k)
<1>1. /\ stage[r] = "idle" /\ target' = [target EXCEPT ![r] = k]
      /\ UNCHANGED <<interfaces, answered>>
      /\ TypeOK
  BY DEF GetInterface, IInv
<1>2. PICK s \in {"ticking", "introspecting", "threw"} : stage' = [stage EXCEPT ![r] = s]
  BY DEF GetInterface, MoveTo
<1>3. States[r] = "idle" /\ \E p \in {"asked", "refused"} : States' = [States EXCEPT ![r] = p]
  <2>1. s \in Stages /\ Placed(s) \in {"asked", "refused"} /\ Placed("idle") = "idle"
        /\ stage \in [Requests -> Stages]
    BY <1>1 DEF Stages, Placed, TypeOK
  <2>2. States[r] = "idle" /\ States' = [States EXCEPT ![r] = Placed(s)]
    BY <1>1, <1>2, <2>1, MovesOne
  <2> QED BY <2>1, <2>2
<1>4. Objects' = Objects
  <2>1. \A i \in DOMAIN interfaces : interfaces[i] \in Requests \ {r}
    BY <1>1, Elements DEF IInv, CacheInv
  <2>2. \A i \in DOMAIN interfaces : target'[interfaces[i]] = target[interfaces[i]]
    BY <1>1, <2>1 DEF TypeOK
  <2> QED BY <1>1, <2>2, ObjectsSame
<1> QED BY <1>1, <1>3, <1>4 DEF Contract!Ask, States, Objects

LEMMA RunTickAnswers ==
    ASSUME IInv, RunTick
    PROVE  [Contract!Next]_Contract!vars
<1>1. CASE Head(ticks).kind = "filtered"
  <2>1. UNCHANGED <<stage, interfaces, target, answered>>
    BY <1>1 DEF RunTick
  <2> QED BY <2>1, IsStutter
<1>2. CASE Head(ticks).kind # "filtered"
  <2>1. PICK r, t : t = Head(ticks) /\ r = t.req
    OBVIOUS
  <2>2. /\ answered' = [answered EXCEPT ![r] = answered[r] + 1]
        /\ stage' = [stage EXCEPT ![r] = "done"]
        /\ interfaces' = IF t.kind = "init" THEN Stored(r) ELSE interfaces
        /\ target' = target
        /\ TypeOK /\ RequestsInv /\ CacheInv
    BY <1>2, <2>1 DEF RunTick, CallBack, MoveTo, IInv
  <2>3. r \in Requests /\ stage[r] = "ticking"
    <3>1. ticks \in Seq(Tick) /\ ticks # <<>> /\ TicksInv
      BY DEF RunTick, IInv, TypeOK
    <3>2. 1 \in DOMAIN ticks /\ Head(ticks) = ticks[1]
      BY <3>1, TailOf
    <3> QED BY <2>1, <2>2, <3>1, <3>2, Elements DEF TicksInv
  <2>4. Placed(stage[r]) = "asked" /\ target[r] \in Keys
    BY <2>2, <2>3 DEF Placed, RequestsInv, TypeOK
  <2>5. CASE t.kind = "init"
    <3>1. Objects' = [Objects EXCEPT ![target[r]] = r]
      <4>1. interfaces' = Stored(r)
        BY <2>2, <2>5
      <4> QED BY <2>2, <2>3, <2>4, <4>1, ObjectStored
    <3>2. States[r] = "asked" /\ States' = [States EXCEPT ![r] = "answered"]
      <4>1. "done" \in Stages /\ Placed("done") = "answered" /\ stage \in [Requests -> Stages]
        BY <2>2 DEF Stages, Placed, TypeOK
      <4> QED BY <2>2, <2>3, <2>4, <4>1, MovesOne
    <3>3. Contract!Provide(r)
      BY <2>2, <3>1, <3>2 DEF Contract!Provide, Contract!CallBack, States, Objects
    <3> QED BY <2>3, <3>3 DEF Contract!Next
  <2>6. CASE t.kind # "init"
    <3>1. Contract!Answer(r)
      BY <2>2, <2>3, <2>4, <2>6, IsAnswer
    <3> QED BY <2>3, <3>1 DEF Contract!Next
  <2> QED BY <2>5, <2>6
<1> QED BY <1>1, <1>2

LEMMA NextContract ==
    ASSUME IInv, [Next]_vars
    PROVE  [Contract!Next]_Contract!vars
<1>0. TypeOK /\ OwnersInv
  BY DEF IInv
<1>1. ASSUME NEW r \in Requests, NEW k \in Keys, GetInterface(r, k)
      PROVE  [Contract!Next]_Contract!vars
  BY <1>1, GetInterfaceAsks DEF Contract!Next
<1>2. ASSUME NEW r \in Requests, NEW found \in BOOLEAN, Introspected(r, found)
      PROVE  [Contract!Next]_Contract!vars
  <2>1. Placed(stage[r]) = "asked" /\ UNCHANGED <<interfaces, target>>
    BY <1>2 DEF Introspected, Placed
  <2>2. \/ /\ stage' = [stage EXCEPT ![r] = "done"]
           /\ answered' = [answered EXCEPT ![r] = answered[r] + 1]
        \/ /\ \E s \in {"ticking", "registering"} : stage' = [stage EXCEPT ![r] = s]
           /\ UNCHANGED answered
        \/ stage' = [stage EXCEPT ![r] = "stuck"] /\ UNCHANGED answered
    BY <1>2 DEF Introspected, CallBack, MoveTo
  <2> QED BY <1>0, <2>1, <2>2, IsAnswer, IsWaiting, IsGivenUp DEF Contract!Next
<1>3. ASSUME NEW r \in Requests, ForgetIntrospect(r)
      PROVE  [Contract!Next]_Contract!vars
  <2>1. /\ Placed(stage[r]) = "asked" /\ stage' = [stage EXCEPT ![r] = "stuck"]
        /\ UNCHANGED <<interfaces, target, answered>>
    BY <1>3 DEF ForgetIntrospect, MoveTo, Placed
  <2> QED BY <1>0, <2>1, IsGivenUp DEF Contract!Next
<1>4. ASSUME NEW i \in DOMAIN owners,
             (\E accepted \in BOOLEAN : OwnerKnown(i, accepted)) \/ ForgetOwner(i)
      PROVE  [Contract!Next]_Contract!vars
  <2>1. PICK r : r = owners[i].iface
    OBVIOUS
  <2>2. UNCHANGED <<interfaces, target, answered>>
    BY <1>4 DEF OwnerKnown, ForgetOwner
  <2>3. \/ UNCHANGED stage
        \/ owners[i].getting /\ stage' = [stage EXCEPT ![r] = "ticking"]
        \/ owners[i].getting /\ stage' = [stage EXCEPT ![r] = "stuck"]
    BY <1>4, <2>1 DEF OwnerKnown, ForgetOwner, MoveTo
  <2>4. r \in Requests /\ (owners[i].getting => Placed(stage[r]) = "asked")
    BY <1>0, <2>1, Elements DEF OwnersInv, Placed
  <2>5. CASE UNCHANGED stage
    BY <2>2, <2>5, IsStutter
  <2>6. CASE owners[i].getting /\ stage' = [stage EXCEPT ![r] = "ticking"]
    BY <1>0, <2>2, <2>4, <2>6, IsWaiting
  <2>7. CASE owners[i].getting /\ stage' = [stage EXCEPT ![r] = "stuck"]
    <3>1. Contract!GiveUp(r)
      BY <1>0, <2>2, <2>4, <2>7, IsGivenUp
    <3> QED BY <2>4, <3>1 DEF Contract!Next
  <2> QED BY <2>3, <2>5, <2>6, <2>7
<1>5. CASE Reconnect
  <2>1. UNCHANGED <<interfaces, target, answered>>
    BY <1>5 DEF Reconnect
  <2>2. stage' = stage \/ stage' = OrphanedStages
    BY <1>5 DEF Reconnect
  <2>3. \A q \in Requests : Placed(stage'[q]) = Placed(stage[q])
    BY <2>2 DEF OrphanedStages, Placed
  <2>4. States' = States /\ Objects' = Objects
    BY <2>1, <2>3, StatesSame, ObjectsSame
  <2> QED BY <2>1, <2>4 DEF Contract!vars, States, Objects
<1>6. CASE RunTick
  BY <1>6, RunTickAnswers
<1>7. CASE Disconnect \/ DispatchDisconnected \/ Lose \/ UNCHANGED vars
  <2>1. UNCHANGED <<stage, interfaces, target, answered>>
    BY <1>7 DEF Disconnect, DispatchDisconnected, Lose, vars
  <2> QED BY <2>1, IsStutter
<1> QED BY <1>1, <1>2, <1>3, <1>4, <1>5, <1>6, <1>7 DEF Next

\* getInterface keeps its promise to its callers: each step of the code, with its
\* losses, reconnects and late answers, is a step of the contract or a stutter.
THEOREM ImplementsContract == Spec => KeepsContract
BY InitContract, NextContract, Invariant, PTL DEF Spec, KeepsContract, Contract!Spec
=============================================================================
