-------------------------- MODULE EventLoopProofs --------------------------
(***************************************************************************)
(* Safety of EventLoop for any watches, timeouts and number of Inits.  The *)
(* inductive invariant adds to the properties why the toggles never open a *)
(* second uv_poll on a descriptor: only the first Init opens any, for the  *)
(* watches that were enabled then, and until a second one they only go.    *)
(***************************************************************************)
EXTENDS EventLoop, TLAPS

\* Before the first Init libdbus has nothing but the watches enabled at the start.
NotYetInit == inits = 0 => /\ enabled = AtStart
                           /\ data = {}
                           /\ due = {}

\* Until a second Init only watches that were enabled at the start are watched.
StartedAtInit == inits <= 1 => data \subseteq AtStart

IInv == TypeOK /\ HandlesAreOwned /\ DueIsTimed /\ NotYetInit /\ StartedAtInit

\* A uv handle per watch or timeout that points to one is all there is to count:
\* what WatchAdd and the like compute is again 0 or 1.
LEMMA PollsOwned ==
    ASSUME IInv, NEW more \in SUBSET Watches, NEW less \in SUBSET Watches,
           more \cap (data \ less) = {}, less \subseteq data,
           data' = (data \ less) \cup more,
           polls' = [w \in Watches |-> polls[w] + (IF w \in more THEN 1 ELSE 0)
                                                - (IF w \in less THEN 1 ELSE 0)]
    PROVE  /\ data' \subseteq Watches
           /\ polls' \in [Watches -> Nat]
           /\ \A w \in Watches : polls'[w] = IF w \in data' THEN 1 ELSE 0
<1>1. data \subseteq Watches /\ polls \in [Watches -> Nat]
      /\ \A w \in Watches : polls[w] = IF w \in data THEN 1 ELSE 0
  BY DEF IInv, TypeOK, HandlesAreOwned
<1>2. \A w \in Watches : polls'[w] = IF w \in data' THEN 1 ELSE 0
  BY <1>1
<1>3. polls' \in [Watches -> Nat]
  BY <1>2
<1> QED BY <1>1, <1>2, <1>3

\* Removing timeouts closes the uv_timer of each that has one.
LEMMA TimersRemoved ==
    ASSUME IInv, NEW ts \in SUBSET Timeouts, TimeoutRemove(ts)
    PROVE  /\ tdata' = tdata \ ts
           /\ timers' \in [Timeouts -> Nat]
           /\ \A t \in Timeouts : timers'[t] = IF t \in tdata' THEN 1 ELSE 0
BY DEF IInv, TypeOK, HandlesAreOwned, TimeoutRemove

\* Adding timeouts starts a uv_timer for each that has none.
LEMMA TimersAdded ==
    ASSUME IInv, NEW ts \in SUBSET Timeouts, TimeoutAdd(ts)
    PROVE  /\ tdata' = tdata \cup ts
           /\ timers' \in [Timeouts -> Nat]
           /\ \A t \in Timeouts : timers'[t] = IF t \in tdata' THEN 1 ELSE 0
BY DEF IInv, TypeOK, HandlesAreOwned, TimeoutAdd

\* Before Init nothing is watched.
LEMMA InitIInv == Init => IInv
BY WatchesAssumption, MaxInitsAssumption
DEF Init, IInv, TypeOK, HandlesAreOwned, DueIsTimed, NotYetInit, StartedAtInit

(***************************************************************************)
(* Every step preserves the invariant.                                     *)
(***************************************************************************)
LEMMA NextIInv == IInv /\ [Next]_vars => IInv'
<1> SUFFICES ASSUME IInv, [Next]_vars PROVE IInv'
  OBVIOUS
<1> USE WatchesAssumption, MaxInitsAssumption
<1>a. /\ TypeOK
      /\ data \subseteq enabled /\ enabled \subseteq Watches
      /\ tdata \subseteq due /\ due \subseteq Timeouts
  BY DEF IInv, TypeOK, HandlesAreOwned
<1>1. ASSUME NEW w \in Watches, EnableWatch(w) PROVE IInv'
  <2>1. /\ data' = (data \ {}) \cup (IF w \in data THEN {} ELSE {})
        /\ polls' = polls
    BY <1>1, <1>a DEF EnableWatch, Ignores
  <2> QED BY <1>1, <1>a, <2>1
    DEF EnableWatch, IInv, TypeOK, HandlesAreOwned, DueIsTimed, NotYetInit,
        StartedAtInit, timeoutVars
<1>2. ASSUME NEW w \in Watches, DisableWatch(w) PROVE IInv'
  <2>1. CASE w \notin data
    BY <1>2, <2>1, <1>a
    DEF DisableWatch, Ignores, IInv, TypeOK, HandlesAreOwned, DueIsTimed,
        NotYetInit, StartedAtInit, timeoutVars
  <2>2. CASE w \in data
    <3>1. /\ data' = data \ {w}
          /\ polls' = [v \in Watches |-> polls[v] - IF v \in {w} \cap data THEN 1 ELSE 0]
      BY <1>2, <2>2 DEF DisableWatch, Ignores, WatchRemove
    <3>2. polls \in [Watches -> Nat]
      BY <1>a DEF TypeOK
    <3>3. polls' = [v \in Watches |-> polls[v] + (IF v \in {} THEN 1 ELSE 0)
                                               - (IF v \in {w} THEN 1 ELSE 0)]
      BY <3>1, <3>2, <2>2
    <3>4. /\ data' \subseteq Watches
          /\ polls' \in [Watches -> Nat]
          /\ \A v \in Watches : polls'[v] = IF v \in data' THEN 1 ELSE 0
      <4>1. /\ {} \in SUBSET Watches /\ {w} \in SUBSET Watches
            /\ {} \cap (data \ {w}) = {} /\ {w} \subseteq data
            /\ data' = (data \ {w}) \cup {}
        BY <3>1, <2>2
      <4> QED BY <4>1, <3>3, PollsOwned
    <3> QED BY <1>2, <1>a, <3>1, <3>4
      DEF DisableWatch, IInv, TypeOK, HandlesAreOwned, DueIsTimed,
          NotYetInit, StartedAtInit, timeoutVars
  <2> QED BY <2>1, <2>2
<1>3. ASSUME NEW t \in Timeouts, StartTimeout(t) PROVE IInv'
  <2>1. /\ tdata' = tdata \cup {t}
        /\ timers' \in [Timeouts -> Nat]
        /\ \A s \in Timeouts : timers'[s] = IF s \in tdata' THEN 1 ELSE 0
    BY <1>3, TimersAdded DEF StartTimeout
  <2> QED BY <1>3, <1>a, <2>1
    DEF StartTimeout, IInv, TypeOK, HandlesAreOwned, DueIsTimed, NotYetInit,
        StartedAtInit, watchVars
<1>4. ASSUME NEW t \in Timeouts, StopTimeout(t) PROVE IInv'
  <2>1. /\ tdata' = tdata \ {t}
        /\ timers' \in [Timeouts -> Nat]
        /\ \A s \in Timeouts : timers'[s] = IF s \in tdata' THEN 1 ELSE 0
    BY <1>4, TimersRemoved DEF StopTimeout
  <2> QED BY <1>4, <1>a, <2>1
    DEF StopTimeout, IInv, TypeOK, HandlesAreOwned, DueIsTimed, NotYetInit,
        StartedAtInit, watchVars
<1>5. ASSUME NEW t \in Timeouts, RestartTimeout(t) PROVE IInv'
  <2>1. /\ timers \in [Timeouts -> Nat]
        /\ \A s \in Timeouts : timers[s] = IF s \in tdata THEN 1 ELSE 0
    BY DEF IInv, TypeOK, HandlesAreOwned
  <2>2. /\ tdata' = tdata \cup {t}
        /\ timers' \in [Timeouts -> Nat]
        /\ \A s \in Timeouts : timers'[s] = IF s \in tdata' THEN 1 ELSE 0
    BY <1>5, <2>1 DEF RestartTimeout
  <2> QED BY <1>5, <1>a, <2>2
    DEF RestartTimeout, IInv, TypeOK, HandlesAreOwned, DueIsTimed, NotYetInit,
        StartedAtInit, watchVars
<1>6. ASSUME NEW t \in Timeouts, TimerFires(t) PROVE IInv'
  <2>1. /\ tdata' = tdata \ {t}
        /\ timers' \in [Timeouts -> Nat]
        /\ \A s \in Timeouts : timers'[s] = IF s \in tdata' THEN 1 ELSE 0
    BY <1>6, TimersRemoved DEF TimerFires
  <2> QED BY <1>6, <1>a, <2>1
    DEF TimerFires, IInv, TypeOK, HandlesAreOwned, DueIsTimed, NotYetInit,
        StartedAtInit, watchVars
<1>7. CASE FirstInit
  <2>1. /\ data = {} /\ due = {} /\ enabled = AtStart
        /\ inits' = 1 /\ MaxInits \in Nat \ {0}
    BY <1>7 DEF FirstInit, IInv, NotYetInit
  <2>2. /\ data' = (data \ {}) \cup enabled
        /\ polls' = [w \in Watches |-> polls[w] + (IF w \in enabled THEN 1 ELSE 0)]
    BY <1>7, <1>a, <2>1 DEF FirstInit, WatchAdd, Addable
  <2>3. polls' = [w \in Watches |-> polls[w] + (IF w \in enabled THEN 1 ELSE 0)
                                             - (IF w \in {} THEN 1 ELSE 0)]
    BY <2>2, <1>a DEF TypeOK
  <2>4. /\ data' \subseteq Watches
        /\ polls' \in [Watches -> Nat]
        /\ \A w \in Watches : polls'[w] = IF w \in data' THEN 1 ELSE 0
    <3>1. /\ {} \in SUBSET Watches /\ enabled \in SUBSET Watches
          /\ enabled \cap (data \ {}) = {} /\ {} \subseteq data
      BY <2>1, <1>a
    <3> QED BY <3>1, <2>2, <2>3, PollsOwned
  <2>5. /\ tdata' = tdata \cup due
        /\ timers' \in [Timeouts -> Nat]
        /\ \A t \in Timeouts : timers'[t] = IF t \in tdata' THEN 1 ELSE 0
    BY <1>7, <1>a, TimersAdded DEF FirstInit
  <2> QED BY <1>7, <1>a, <2>1, <2>2, <2>4, <2>5
    DEF FirstInit, IInv, TypeOK, HandlesAreOwned, DueIsTimed, NotYetInit,
        StartedAtInit
<1>8. CASE ReinitAddFirst
  <2>1. inits' = inits + 1 /\ inits \in 1..(MaxInits - 1) /\ inits' \in 0..MaxInits
        /\ inits' > 1
    BY <1>8 DEF ReinitAddFirst
  <2>2. polls' = [w \in Watches |-> polls[w] + (IF w \in {} THEN 1 ELSE 0)
                                             - (IF w \in data THEN 1 ELSE 0)]
    BY <1>8, <1>a DEF ReinitAddFirst, TypeOK
  <2>3. /\ data' = {}
        /\ polls' \in [Watches -> Nat]
        /\ \A w \in Watches : polls'[w] = IF w \in data' THEN 1 ELSE 0
    <3>1. /\ {} \in SUBSET Watches /\ data \in SUBSET Watches
          /\ {} \cap (data \ data) = {} /\ data \subseteq data
          /\ data' = {} /\ data' = (data \ data) \cup {}
      BY <1>8, <1>a DEF ReinitAddFirst
    <3> QED BY <3>1, <2>2, PollsOwned
  <2>4. /\ tdata' = tdata \ due
        /\ timers' \in [Timeouts -> Nat]
        /\ \A t \in Timeouts : timers'[t] = IF t \in tdata' THEN 1 ELSE 0
    BY <1>8, <1>a, TimersRemoved DEF ReinitAddFirst
  <2> QED BY <1>8, <1>a, <2>1, <2>3, <2>4
    DEF ReinitAddFirst, IInv, TypeOK, HandlesAreOwned, DueIsTimed, NotYetInit,
        StartedAtInit
<1>9. CASE ReinitRemoveFirst
  <2>1. inits' = inits + 1 /\ inits \in 1..(MaxInits - 1) /\ inits' \in 0..MaxInits
        /\ inits' > 1
    BY <1>9 DEF ReinitRemoveFirst
  <2>2. /\ data' = (data \ data) \cup enabled
        /\ polls' \in [Watches -> Nat]
        /\ \A w \in Watches : polls'[w] = IF w \in data' THEN 1 ELSE 0
    BY <1>9, <1>a, PollsOwned DEF ReinitRemoveFirst
  <2>3. /\ timers \in [Timeouts -> Nat]
        /\ \A t \in Timeouts : timers[t] = IF t \in tdata THEN 1 ELSE 0
    BY DEF IInv, TypeOK, HandlesAreOwned
  <2>4. /\ tdata' = due
        /\ timers' \in [Timeouts -> Nat]
        /\ \A t \in Timeouts : timers'[t] = IF t \in tdata' THEN 1 ELSE 0
    BY <1>9, <2>3 DEF ReinitRemoveFirst
  <2> QED BY <1>9, <1>a, <2>1, <2>2, <2>4
    DEF ReinitRemoveFirst, IInv, TypeOK, HandlesAreOwned, DueIsTimed, NotYetInit,
        StartedAtInit
<1>10. CASE Finalize
  <2>1. /\ data' = (data \ data) \cup {}
        /\ polls' = [w \in Watches |-> polls[w] - (IF w \in Watches \cap data THEN 1 ELSE 0)]
    BY <1>10, <1>a DEF Finalize, WatchRemove
  <2>2. polls' = [w \in Watches |-> polls[w] + (IF w \in {} THEN 1 ELSE 0)
                                             - (IF w \in data THEN 1 ELSE 0)]
    BY <2>1, <1>a DEF TypeOK
  <2>3. /\ data' = {}
        /\ polls' \in [Watches -> Nat]
        /\ \A w \in Watches : polls'[w] = IF w \in data' THEN 1 ELSE 0
    <3>1. /\ {} \in SUBSET Watches /\ data \in SUBSET Watches
          /\ {} \cap (data \ data) = {} /\ data \subseteq data
      BY <1>a
    <3> QED BY <3>1, <2>1, <2>2, PollsOwned
  <2>4. /\ tdata' = tdata \ Timeouts
        /\ timers' \in [Timeouts -> Nat]
        /\ \A t \in Timeouts : timers'[t] = IF t \in tdata' THEN 1 ELSE 0
    BY <1>10, TimersRemoved DEF Finalize
  <2>5. /\ inits' = inits /\ inits > 0 /\ open' = FALSE /\ expired' = expired
        /\ enabled' = {} /\ due' = {} /\ tdata' = {}
    BY <1>10, <1>a, <2>4 DEF Finalize
  <2>6. TypeOK'
    BY <1>a, <2>3, <2>4, <2>5 DEF TypeOK
  <2>7. HandlesAreOwned'
    BY <2>3, <2>4, <2>5 DEF HandlesAreOwned
  <2>8. DueIsTimed' /\ NotYetInit' /\ StartedAtInit'
    BY <2>3, <2>5 DEF DueIsTimed, NotYetInit, StartedAtInit
  <2> QED BY <2>6, <2>7, <2>8 DEF IInv
<1>11. CASE UNCHANGED vars
  BY <1>11
  DEF vars, watchVars, timeoutVars, IInv, TypeOK, HandlesAreOwned, DueIsTimed,
      NotYetInit, StartedAtInit
<1> QED
  BY <1>1, <1>2, <1>3, <1>4, <1>5, <1>6, <1>7, <1>8, <1>9, <1>10, <1>11 DEF Next

\* The invariant holds in every reachable state.
THEOREM Invariant == Spec => []IInv
BY InitIInv, NextIInv, PTL DEF Spec

\* Type correctness, of every count of uv handles too: none is closed twice.
THEOREM TypeCorrect == Spec => []TypeOK
<1>1. IInv => TypeOK
  BY DEF IInv
<1> QED BY <1>1, Invariant, PTL

\* A uv handle is open exactly while the watch or timeout it works on is wanted
\* and points to it.
THEOREM HandlesOwned == Spec => []HandlesAreOwned
<1>1. IInv => HandlesAreOwned
  BY DEF IInv
<1> QED BY <1>1, Invariant, PTL

\* Every pending call that waits has a timer, until a second Init.
THEOREM PendingIsTimed == Spec => []DueIsTimed
<1>1. IInv => DueIsTimed
  BY DEF IInv
<1> QED BY <1>1, Invariant, PTL

\* Never two uv_poll on a descriptor, until a second Init.
THEOREM OnePoll == Spec => []OnePollPerFd
<1>1. IInv => OnePollPerFd
  <2> SUFFICES ASSUME IInv, inits <= 1
               PROVE  /\ \A w \in Watches : polls[w] <= 1
                      /\ \A w, v \in Watches :
                            polls[w] > 0 /\ polls[v] > 0 /\ Fd[w] = Fd[v] => w = v
    BY DEF OnePollPerFd
  <2>1. \A w \in Watches : polls[w] = IF w \in data THEN 1 ELSE 0
    BY DEF IInv, HandlesAreOwned
  <2>2. \A w \in Watches : polls[w] > 0 => w \in AtStart
    BY <2>1 DEF IInv, StartedAtInit
  <2> QED BY <2>1, <2>2, WatchesAssumption
<1> QED BY <1>1, Invariant, PTL
=============================================================================
