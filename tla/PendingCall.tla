---------------------------- MODULE PendingCall ----------------------------
(***************************************************************************)
(* The life of a client's remote operation, from the JavaScript call to    *)
(* its callback: lib/interface.js (the generated methods and the property  *)
(* accessors), Bus.callMethod (lib/bus.js) and CallMethod, method_callback *)
(* and method_free (src/dbus.cc), over one libdbus connection.             *)
(*                                                                         *)
(* JavaScript is single threaded: the user's code calls operations, the    *)
(* nextTick queue is drained before the next native event, and the event   *)
(* loop then fires timers or dispatches the messages libdbus has queued.   *)
(* A callback frame entered from dispatch stays on the stack while user    *)
(* code and ticks run, which is when reference counts matter.              *)
(*                                                                         *)
(* Another Bus may get the same connection; Init then runs on it again,    *)
(* and EventLoop shows that the timers of pending calls may go with that.  *)
(*                                                                         *)
(* libdbus is external: the pending-reply table, the reference counts of a *)
(* DBusPendingCall, its timer and the incoming queue are modelled by what  *)
(* CallMethod and method_callback rely on.  Allocation failures are not.   *)
(***************************************************************************)
EXTENDS Naturals, Sequences

CONSTANTS Calls,     \* remote operations the user's code may start
          NoCall,    \* no callback frame on the stack
          TimeoutOf, \* the timeout each operation is called with, see below
          BadArguments   \* may the user pass arguments CallMethod rejects?

\* -1, which generated methods pass when they get no option; a number of
\* milliseconds; or 2147483647, for which libdbus arms no timer.
TimeoutOptions == {"default", "finite", "infinite"}

ASSUME NoCallAssumption == NoCall \notin Calls
ASSUME TimeoutAssumption == TimeoutOf \in [Calls -> TimeoutOptions]
ASSUME BadArgumentsAssumption == BadArguments \in BOOLEAN

VARIABLES
    connected,  \* bus.connection !== null
    up,         \* the libdbus transport is connected to the daemon
    shared,     \* a second Init has run on the connection
    phase,      \* where each operation stands on the JavaScript side
    ticks,      \* process.nextTick queue, of operations
    table,      \* in libdbus's table of pending replies
    timer,      \* the timeout of the pending reply is armed
    refs,       \* reference count of the DBusPendingCall
    data,       \* the DBusAsyncData given to set_notify
    owed,       \* the service has the request and has not replied
    incoming,   \* libdbus's queue of received or synthesized messages
    running,    \* the operation whose callback method_callback is calling
    fired,      \* how often the user's callback was called
    outcome     \* what it was last called with

native == <<table, timer, refs, data, owed>>
vars == <<connected, up, shared, phase, ticks, table, timer, refs, data, owed,
          incoming, running, fired, outcome>>

(***************************************************************************)
(* "tick": a generated method waits for its tick.  "refusing": an accessor *)
(* found the bus disconnected and its error waits for its tick.  "sent":   *)
(* CallMethod registered a pending call.  "done": the callback was called. *)
(* "threw": CallMethod threw to the user's code; no callback is called.    *)
(***************************************************************************)
Phases == {"idle", "tick", "refusing", "sent", "done", "threw"}
Queued == {"tick", "refusing"}
Outcomes == {"none", "result", "error"}

\* A reply of the service (or an error reply), or libdbus's own NoReply error.
Message == [call : Calls, kind : {"return", "error", "noreply"}]

TypeOK ==
    /\ connected \in BOOLEAN
    /\ up \in BOOLEAN
    /\ shared \in BOOLEAN
    /\ phase \in [Calls -> Phases]
    /\ ticks \in Seq(Calls)
    /\ table \in [Calls -> BOOLEAN]
    /\ timer \in [Calls -> BOOLEAN]
    /\ refs \in [Calls -> Nat]
    /\ data \in [Calls -> {"none", "live", "freed"}]
    /\ owed \in [Calls -> BOOLEAN]
    /\ incoming \in Seq(Message)
    /\ running \in Calls \cup {NoCall}
    /\ fired \in [Calls -> Nat]
    /\ outcome \in [Calls -> Outcomes]

Init ==
    /\ connected = TRUE
    /\ up = TRUE
    /\ shared = FALSE
    /\ phase = [c \in Calls |-> "idle"]
    /\ ticks = <<>>
    /\ table = [c \in Calls |-> FALSE]
    /\ timer = [c \in Calls |-> FALSE]
    /\ refs = [c \in Calls |-> 0]
    /\ data = [c \in Calls |-> "none"]
    /\ owed = [c \in Calls |-> FALSE]
    /\ incoming = <<>>
    /\ running = NoCall
    /\ fired = [c \in Calls |-> 0]
    /\ outcome = [c \in Calls |-> "none"]

-----------------------------------------------------------------------------
(* Native CallMethod (src/dbus.cc).                                        *)

\* The callback of operation c is called with outcome o, and c is finished.
CallBack(c, o) ==
    /\ phase' = [phase EXCEPT ![c] = "done"]
    /\ fired' = [fired EXCEPT ![c] = @ + 1]
    /\ outcome' = [outcome EXCEPT ![c] = o]

\* Seeded fault: every timeout reaches libdbus as 2147483647.
RegisterForEver(c) ==
    /\ up
    /\ phase' = [phase EXCEPT ![c] = "sent"]
    /\ table' = [table EXCEPT ![c] = TRUE]
    /\ refs' = [refs EXCEPT ![c] = 2]
    /\ data' = [data EXCEPT ![c] = "live"]
    /\ owed' = [owed EXCEPT ![c] = TRUE]
    /\ UNCHANGED timer

\* CallMethod succeeds: send_with_reply made a pending call with one reference
\* for the table and one for us, set_notify gave it the callback data, and the
\* flush wrote the request out.  The timeout is passed through; libdbus puts its
\* own default for -1.
Register(c) ==
    /\ up
    /\ phase' = [phase EXCEPT ![c] = "sent"]
    /\ table' = [table EXCEPT ![c] = TRUE]
    /\ timer' = [timer EXCEPT ![c] = TimeoutOf[c] # "infinite"]
    /\ refs' = [refs EXCEPT ![c] = 2]
    /\ data' = [data EXCEPT ![c] = "live"]
    /\ owed' = [owed EXCEPT ![c] = TRUE]

\* n references to the pending call of c are dropped; dropping the last one
\* finalizes it, which runs method_free.
Release(c, n) ==
    /\ refs' = [refs EXCEPT ![c] = @ - n]
    /\ data' = [data EXCEPT ![c] = IF refs[c] = n THEN "freed" ELSE @]

-----------------------------------------------------------------------------
(* Operations of the user's code.                                          *)

\* A generated method: everything happens in a later tick.
CallMethod(c) ==
    /\ phase[c] = "idle"
    /\ phase' = [phase EXCEPT ![c] = "tick"]
    /\ ticks' = Append(ticks, c)
    /\ UNCHANGED <<connected, up, shared, native, incoming, running, fired,
                   outcome>>

\* An accessor takes no options, and its timeout is never the infinite one.
Accessor(c) == phase[c] = "idle" /\ TimeoutOf[c] # "infinite"

\* getProperty, setProperty, getProperties or introspect on a disconnected bus.
AccessRefused(c) ==
    /\ Accessor(c)
    /\ ~connected
    /\ phase' = [phase EXCEPT ![c] = "refusing"]
    /\ ticks' = Append(ticks, c)
    /\ UNCHANGED <<connected, up, shared, native, incoming, running, fired,
                   outcome>>

\* The same accessors on a connected bus call CallMethod at once.
AccessSent(c) ==
    /\ Accessor(c)
    /\ connected
    /\ Register(c)
    /\ UNCHANGED <<connected, up, shared, ticks, incoming, running, fired,
                   outcome>>

\* CallMethod throws when the transport is gone (send_with_reply makes no
\* pending call) or the arguments make no valid message.
CanThrow == ~up \/ BadArguments

\* The accessors have no try/catch: the user's code gets the exception.
AccessThrows(c) ==
    /\ Accessor(c)
    /\ connected
    /\ CanThrow
    /\ phase' = [phase EXCEPT ![c] = "threw"]
    /\ UNCHANGED <<connected, up, shared, ticks, native, incoming, running,
                   fired, outcome>>

\* Bus.disconnect.  Pending calls are left alone.
Disconnect ==
    /\ connected
    /\ connected' = FALSE
    /\ UNCHANGED <<up, shared, phase, ticks, native, incoming, running, fired,
                   outcome>>

\* getBus of another Bus object of the bus type: Init sets the watch, timeout and
\* wakeup functions of the connection again, and every timer may be dropped.
Share ==
    /\ up
    /\ ~shared
    /\ shared' = TRUE
    /\ timer' \in {timer, [c \in Calls |-> FALSE]}
    /\ UNCHANGED <<connected, up, phase, ticks, table, refs, data, owed, incoming,
                   running, fired, outcome>>

-----------------------------------------------------------------------------
(* The nextTick queue.                                                     *)

\* Seeded faults: the early return after the callback is missing, so the call
\* goes on, throws on the null connection and its catch calls back again; the
\* connection is not looked at again in the tick.
TickFailsOn(c) ==
    /\ phase[c] = "refusing" \/ ~connected
    /\ phase' = [phase EXCEPT ![c] = "done"]
    /\ fired' = [fired EXCEPT ![c] = @ + 2]
    /\ outcome' = [outcome EXCEPT ![c] = "error"]
    /\ UNCHANGED native

TickSendsBlindly(c) ==
    /\ phase[c] = "tick"
    /\ Register(c)
    /\ UNCHANGED <<fired, outcome>>

\* The tick finds the bus disconnected, or was queued with an error.
TickFails(c) ==
    /\ phase[c] = "refusing" \/ ~connected
    /\ CallBack(c, "error")
    /\ UNCHANGED native

\* The tick calls CallMethod.
TickSends(c) ==
    /\ phase[c] = "tick"
    /\ connected
    /\ Register(c)
    /\ UNCHANGED <<fired, outcome>>

\* The tick's call throws and its catch hands the exception to the callback.
TickCatches(c) ==
    /\ phase[c] = "tick"
    /\ connected
    /\ CanThrow
    /\ CallBack(c, "error")
    /\ UNCHANGED native

RunTick ==
    /\ ticks # <<>>
    /\ ticks' = Tail(ticks)
    /\ LET c == Head(ticks) IN TickFails(c) \/ TickSends(c) \/ TickCatches(c)
    /\ UNCHANGED <<connected, up, shared, incoming, running>>

-----------------------------------------------------------------------------
(* libdbus and the event loop.                                             *)

Idle == running = NoCall /\ ticks = <<>>

\* The reply of the service is read, which may happen inside any native call
\* that flushes.  A pending call that gets its reply loses its timer.
Arrive(c, kind) ==
    /\ up
    /\ owed[c]
    /\ owed' = [owed EXCEPT ![c] = FALSE]
    /\ timer' = [timer EXCEPT ![c] = FALSE]
    /\ incoming' = Append(incoming, [call |-> c, kind |-> kind])
    /\ UNCHANGED <<connected, up, shared, phase, ticks, table, refs, data,
                   running, fired, outcome>>

\* The timer fires: libdbus queues a NoReply error; the reply may still come.
Timeout(c) ==
    /\ Idle
    /\ timer[c]
    /\ timer' = [timer EXCEPT ![c] = FALSE]
    /\ incoming' = Append(incoming, [call |-> c, kind |-> "noreply"])
    /\ UNCHANGED <<connected, up, shared, phase, ticks, table, refs, data, owed,
                   running, fired, outcome>>

\* The transport is lost, with every reply that was not read yet.
Drop ==
    /\ up
    /\ up' = FALSE
    /\ owed' = [c \in Calls |-> FALSE]
    /\ UNCHANGED <<connected, shared, phase, ticks, table, timer, refs, data,
                   incoming, running, fired, outcome>>

\* libdbus then gives up a pending call: its reference in the table goes and
\* the notify function is not called.  (The code in this repository does not
\* rely on either answer, so both this and Timeout may follow a Drop.)
Forget(c) ==
    /\ ~up
    /\ table[c]
    /\ \A i \in DOMAIN incoming : incoming[i].call # c
    /\ table' = [table EXCEPT ![c] = FALSE]
    /\ timer' = [timer EXCEPT ![c] = FALSE]
    /\ Release(c, 1)
    /\ UNCHANGED <<connected, up, shared, phase, ticks, owed, incoming,
                   running, fired, outcome>>

\* A message that answers no pending call is dropped: signal_filter only wants
\* signals.
DispatchStale ==
    /\ Idle
    /\ incoming # <<>>
    /\ ~table[Head(incoming).call]
    /\ incoming' = Tail(incoming)
    /\ UNCHANGED <<connected, up, shared, phase, ticks, native, running,
                   fired, outcome>>

\* Seeded faults: both early-return and normal path drop a reference; none does;
\* the reference of the stack is dropped too.
UnrefsTwice == 2
UnrefsNever == 0
UnrefsThrice == 3

\* References method_callback drops before it calls the user's callback.
Unrefs == 1

\* Seeded fault: the completed call stays in the table.
DispatchKeepsEntry ==
    /\ Idle
    /\ incoming # <<>>
    /\ LET m == Head(incoming)
           c == m.call
       IN  /\ table[c]
           /\ CallBack(c, IF m.kind = "return" THEN "result" ELSE "error")
           /\ running' = c
    /\ incoming' = Tail(incoming)
    /\ UNCHANGED <<connected, up, shared, ticks, native>>

\* dispatch completes a pending call: libdbus moves its reference from the
\* table to the stack and calls method_callback, which steals the reply, drops
\* our reference, decodes, and calls the user's callback.
DispatchReply ==
    /\ Idle
    /\ incoming # <<>>
    /\ LET m == Head(incoming)
           c == m.call
       IN  /\ table[c]
           /\ table' = [table EXCEPT ![c] = FALSE]
           /\ timer' = [timer EXCEPT ![c] = FALSE]
           /\ Release(c, Unrefs)
           /\ CallBack(c, IF m.kind = "return" THEN "result" ELSE "error")
           /\ running' = c
    /\ incoming' = Tail(incoming)
    /\ UNCHANGED <<connected, up, shared, ticks, owed>>

\* The callback and its ticks are over; libdbus drops the stack's reference and
\* the last reference runs method_free.
Return ==
    /\ running # NoCall
    /\ ticks = <<>>
    /\ Release(running, 1)
    /\ running' = NoCall
    /\ UNCHANGED <<connected, up, shared, phase, ticks, table, timer, owed,
                   incoming, fired, outcome>>

-----------------------------------------------------------------------------
Next ==
    \/ \E c \in Calls :
        \/ CallMethod(c)
        \/ AccessRefused(c)
        \/ AccessSent(c)
        \/ AccessThrows(c)
        \/ \E kind \in {"return", "error"} : Arrive(c, kind)
        \/ Timeout(c)
        \/ Forget(c)
    \/ Disconnect
    \/ Share
    \/ RunTick
    \/ Drop
    \/ DispatchStale
    \/ DispatchReply
    \/ Return

Spec == Init /\ [][Next]_vars

(***************************************************************************)
(* While the bus is connected its uv_async handle is referenced and the    *)
(* event loop runs: queued ticks, armed timers and queued messages are     *)
(* served.  Nothing is assumed of the user's code, the service or the      *)
(* daemon, nor of the loop once the bus is disconnected or another Bus has *)
(* taken over the wakeup of the connection (see KeepsRunning and           *)
(* SignalsDispatched of BusLifecycle).                                     *)
(***************************************************************************)
Served == connected /\ ~shared

Fairness ==
    /\ WF_vars(RunTick)
    /\ WF_vars(Return)
    /\ WF_vars(Served /\ (DispatchReply \/ DispatchStale))
    /\ \A c \in Calls : WF_vars(Served /\ Timeout(c))

FairSpec == Spec /\ Fairness

-----------------------------------------------------------------------------
(* Properties.                                                             *)

\* The callback of an operation is called at most once, whatever the order of
\* its reply, its timeout, the loss of the transport and disconnect.
CallBackOnce == \A c \in Calls : fired[c] <= 1

\* method_callback never uses callback data that method_free has deleted, not
\* even after its own unref and whatever the user's code does meanwhile, and
\* libdbus never holds a notify function whose data is gone.
LiveData ==
    /\ running # NoCall => data[running] = "live" /\ refs[running] > 0
    /\ \A c \in Calls : table[c] => data[c] = "live"

\* Once its callback has returned, an operation holds no pending call and no
\* callback data any more.
NoLeak ==
    \A c \in Calls : phase[c] = "done" /\ running # c =>
        refs[c] = 0 /\ data[c] # "live"

\* After Bus.disconnect nothing is sent, including the method calls that were
\* made before it and wait for their tick.
NoSendAfterDisconnect ==
    [][~connected =>
        \A c \in Calls : phase'[c] = "sent" => phase[c] = "sent"]_vars

\* While the bus stays connected on a connection of its own that is up, every
\* operation that was accepted is answered: by the service, or else by its timeout.
\* Only one called with the infinite timeout may wait for the service for ever; one
\* called without the option does not, against README.md ("This defaults to `-1`: don't
\* time out"), as libdbus has a default.
WaitsForService(c) == TimeoutOf[c] = "infinite" /\ phase[c] = "sent" /\ owed[c]

CallAnswered ==
    \A c \in Calls : phase[c] \in Queued \cup {"sent"} ~>
        phase[c] = "done" \/ WaitsForService(c) \/ ~connected \/ ~up \/ shared

\* The promise to the caller, and how an operation's state maps to it.
ContractState(c) ==
    CASE phase[c] = "idle" -> "idle"
      [] phase[c] = "threw" -> "refused"
      [] phase[c] = "done" -> outcome[c]
      [] OTHER -> "asked"

Contract == INSTANCE CallContract WITH
    state <- [c \in Calls |-> ContractState(c)],
    answers <- fired

\* The callback protocol implements the contract: requests are answered at most
\* once, after they were made, finally, and not after a refusal.
KeepsContract == Contract!Spec
=============================================================================
