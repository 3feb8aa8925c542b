----------------------------- MODULE EventLoop -----------------------------
(***************************************************************************)
(* How src/connection.cc puts the watches and timeouts of one libdbus      *)
(* connection on the libuv loop: watch_add, watch_remove, watch_handle     *)
(* (the toggle function), watcher_handle and watcher_close, timeout_add,   *)
(* timeout_remove, timeout_toggled, timer_handle and timer_close, and the  *)
(* two set_..._functions calls of Init.                                    *)
(*                                                                         *)
(* The data pointer of a watch or timeout is its uv handle, or null.  The  *)
(* free function libdbus calls when the pointer is replaced closes the     *)
(* handle.  When libdbus adds, toggles or removes a watch is external, and *)
(* so is the order of "add to the new functions" and "remove from the old  *)
(* ones" when Init runs again on a shared connection: both are modelled.   *)
(***************************************************************************)
EXTENDS Integers, FiniteSets

CONSTANTS Watches,      \* of the connection's socket, e.g. to read and to write
          Fd,           \* the file descriptor of each watch
          AtStart,      \* the watches that are enabled at the first Init
          Timeouts,     \* of pending calls
          MaxInits      \* bound: Connection::Init calls on the connection

ASSUME WatchesAssumption ==
    /\ AtStart \subseteq Watches
    /\ DOMAIN Fd = Watches
    /\ \A w, v \in AtStart : Fd[w] = Fd[v] => w = v
ASSUME MaxInitsAssumption == MaxInits \in Nat

VARIABLES
    inits,     \* Connection::Init calls so far
    open,      \* the connection is not finalized
    enabled,   \* the watches libdbus wants to have watched
    data,      \* the watches with a uv_poll as their data
    polls,     \* open uv_poll handles of each watch
    due,       \* the timeouts libdbus waits for
    tdata,     \* the timeouts with a uv_timer as their data
    timers,    \* running uv_timer handles of each timeout
    expired    \* the timeouts that were handled

watchVars == <<enabled, data, polls>>
timeoutVars == <<due, tdata, timers, expired>>
vars == <<inits, open, watchVars, timeoutVars>>

TypeOK ==
    /\ inits \in 0..MaxInits
    /\ open \in BOOLEAN
    /\ enabled \subseteq Watches
    /\ data \subseteq Watches
    /\ polls \in [Watches -> Nat]
    /\ due \subseteq Timeouts
    /\ tdata \subseteq Timeouts
    /\ timers \in [Timeouts -> Nat]
    /\ expired \subseteq Timeouts

Init ==
    /\ inits = 0
    /\ open = TRUE
    /\ enabled = AtStart
    /\ data = {}
    /\ polls = [w \in Watches |-> 0]
    /\ due = {}
    /\ tdata = {}
    /\ timers = [t \in Timeouts |-> 0]
    /\ expired = {}

-----------------------------------------------------------------------------
(* Watches.  WatchAdd and WatchRemove call watch_add and watch_remove for    *)
(* each watch of a set ws, while libdbus has the watches of on enabled.      *)

\* watch_add does nothing for a watch that is disabled or has a uv_poll.
Addable(ws, on) == (ws \cap on) \ data

\* A new uv_poll is started and becomes the data.
WatchAdd(ws, on) ==
    LET new == Addable(ws, on)
    IN  /\ data' = data \cup new
        /\ polls' = [w \in Watches |-> polls[w] + IF w \in new THEN 1 ELSE 0]

\* Seeded faults: watcher_close is called for a watch without a uv_poll, too; it
\* does not close the uv_poll.
WatchRemoveUnchecked(ws) ==
    /\ data' = data \ ws
    /\ polls' = [w \in Watches |-> polls[w] - IF w \in ws THEN 1 ELSE 0]

WatchRemoveKeepsPoll(ws) ==
    /\ data' = data \ ws
    /\ UNCHANGED polls

\* watch_remove resets the data, so libdbus calls watcher_close.
WatchRemove(ws) ==
    /\ data' = data \ ws
    /\ polls' = [w \in Watches |->
                    polls[w] - IF w \in ws \cap data THEN 1 ELSE 0]

\* Seeded fault: watch_handle does not check the data first.
IgnoresNothing(w) == FALSE

\* watch_handle returns at once for a watch without data.
Ignores(w) == w \notin data

\* libdbus enables a watch and calls watch_handle.
EnableWatch(w) ==
    /\ open /\ inits > 0
    /\ w \notin enabled
    /\ enabled' = enabled \cup {w}
    /\ IF Ignores(w)
       THEN UNCHANGED <<data, polls>>
       ELSE WatchAdd({w}, enabled')
    /\ UNCHANGED <<inits, open, timeoutVars>>

\* libdbus disables a watch and calls watch_handle.
DisableWatch(w) ==
    /\ open /\ inits > 0
    /\ w \in enabled
    /\ enabled' = enabled \ {w}
    /\ IF Ignores(w) THEN UNCHANGED <<data, polls>>
       ELSE WatchRemove({w})
    /\ UNCHANGED <<inits, open, timeoutVars>>

-----------------------------------------------------------------------------
(* Timeouts.                                                               *)

\* timeout_add: a one-shot uv_timer, unless the timeout has one.
TimeoutAdd(ts) ==
    /\ tdata' = tdata \cup ts
    /\ timers' = [t \in Timeouts |->
                    IF t \in ts \ tdata THEN timers[t] + 1 ELSE timers[t]]

\* Seeded fault: timer_close leaves the uv_timer running.
TimeoutRemoveKeepsTimer(ts) ==
    /\ tdata' = tdata \ ts
    /\ UNCHANGED timers

\* timeout_remove resets the data, so libdbus calls timer_close, which stops
\* and closes the uv_timer.
TimeoutRemove(ts) ==
    /\ tdata' = tdata \ ts
    /\ timers' = [t \in Timeouts |-> IF t \in ts \cap tdata THEN 0 ELSE timers[t]]

\* CallMethod's pending call gets a timeout.
StartTimeout(t) ==
    /\ open /\ inits > 0
    /\ t \notin due \cup expired
    /\ due' = due \cup {t}
    /\ TimeoutAdd({t})
    /\ UNCHANGED <<inits, open, watchVars, expired>>

\* The reply arrived, or the pending call was given up.
StopTimeout(t) ==
    /\ open
    /\ t \in due
    /\ due' = due \ {t}
    /\ TimeoutRemove({t})
    /\ UNCHANGED <<inits, open, watchVars, expired>>

\* Seeded fault: timeout_toggled returns early for a timeout without data, as
\* watch_handle does.
RestartTimeoutIgnored(t) ==
    /\ open
    /\ t \in due
    /\ TimeoutRemove({t})
    /\ UNCHANGED <<inits, open, watchVars, due, expired>>

\* libdbus toggles the timeout off and on, to restart it: timeout_toggled.
RestartTimeout(t) ==
    /\ open
    /\ t \in due
    /\ tdata' = tdata \cup {t}
    /\ timers' = [timers EXCEPT ![t] = IF t \in tdata THEN 1 ELSE @ + 1]
    /\ UNCHANGED <<inits, open, watchVars, due, expired>>

\* A uv_timer fires: timer_handle.  libdbus removes the timeout of a pending
\* call from within dbus_timeout_handle.
TimerFires(t) ==
    /\ timers[t] > 0
    /\ expired' = expired \cup {t}
    /\ due' = due \ {t}
    /\ TimeoutRemove({t})
    /\ UNCHANGED <<inits, open, watchVars>>

-----------------------------------------------------------------------------
\* The first Connection::Init: every watch and timeout is added.
FirstInit ==
    /\ open /\ inits = 0 /\ MaxInits > 0
    /\ inits' = 1
    /\ WatchAdd(Watches, enabled)
    /\ TimeoutAdd(due)
    /\ UNCHANGED <<open, enabled, due, expired>>

\* Init again, for a second Bus: libdbus adds all to the new functions, which
\* ignore what has data, and then removes all from the old ones ...
ReinitAddFirst ==
    /\ open /\ inits \in 1..(MaxInits - 1)
    /\ inits' = inits + 1
    /\ data' = {}
    /\ polls' = [w \in Watches |-> polls[w] - IF w \in data THEN 1 ELSE 0]
    /\ TimeoutRemove(due)
    /\ UNCHANGED <<open, enabled, due, expired>>

\* ... or the other way round, which makes new handles for all of them.
ReinitRemoveFirst ==
    /\ open /\ inits \in 1..(MaxInits - 1)
    /\ inits' = inits + 1
    /\ data' = enabled
    /\ polls' = [w \in Watches |-> polls[w]
                    + (IF w \in enabled THEN 1 ELSE 0)
                    - (IF w \in data THEN 1 ELSE 0)]
    /\ tdata' = due
    /\ timers' = [t \in Timeouts |-> timers[t]
                    + (IF t \in due THEN 1 ELSE 0)
                    - (IF t \in tdata THEN 1 ELSE 0)]
    /\ UNCHANGED <<open, enabled, due, expired>>

\* The last reference to the connection is gone: libdbus removes everything.
Finalize ==
    /\ open /\ inits > 0
    /\ open' = FALSE
    /\ WatchRemove(Watches)
    /\ TimeoutRemove(Timeouts)
    /\ enabled' = {}
    /\ due' = {}
    /\ UNCHANGED <<inits, expired>>

Next ==
    \/ FirstInit
    \/ ReinitAddFirst
    \/ ReinitRemoveFirst
    \/ Finalize
    \/ \E w \in Watches : EnableWatch(w) \/ DisableWatch(w)
    \/ \E t \in Timeouts :
        StartTimeout(t) \/ StopTimeout(t) \/ RestartTimeout(t) \/ TimerFires(t)

Spec == Init /\ [][Next]_vars

-----------------------------------------------------------------------------
(* Properties.                                                             *)

\* "two watches for one filehandler, this crashes libuv": at most one uv_poll is
\* open on a file descriptor, however libdbus toggles its two watches, as long
\* as Init has run once.
OnePollPerFd ==
    inits <= 1 =>
        /\ \A w \in Watches : polls[w] <= 1
        /\ \A w, v \in Watches : polls[w] > 0 /\ polls[v] > 0 /\ Fd[w] = Fd[v] =>
            w = v

\* A uv handle is open exactly as long as a watch or timeout that libdbus wants
\* and has not freed points to it: no callback works on a freed DBusWatch or
\* DBusTimeout, not after any toggle, second Init or finalization.
HandlesAreOwned ==
    /\ \A w \in Watches : polls[w] = IF w \in data THEN 1 ELSE 0
    /\ \A t \in Timeouts : timers[t] = IF t \in tdata THEN 1 ELSE 0
    /\ data \subseteq enabled /\ tdata \subseteq due

\* A pending call that waits has a running timer, unless a second Init dropped it.
DueIsTimed == inits <= 1 => due \subseteq tdata
=============================================================================
