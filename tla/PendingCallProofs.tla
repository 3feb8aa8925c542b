------------------------- MODULE PendingCallProofs -------------------------
(***************************************************************************)
(* Safety of PendingCall for any set of operations.  The inductive         *)
(* invariant says who holds the references of each pending call: the table *)
(* of pending replies, the caller until method_callback, and the stack     *)
(* while the callback runs; and that an operation waits for at most one    *)
(* tick.                                                                   *)
(***************************************************************************)
EXTENDS PendingCall, TLAPS

\* The holders of references to the pending call of c.
RefCount(c) ==
    (IF table[c] THEN 1 ELSE 0)
    + (IF phase[c] = "sent" THEN 1 ELSE 0)
    + (IF running = c THEN 1 ELSE 0)

RefsInv ==
    /\ \A c \in Calls : refs[c] = RefCount(c)
    /\ \A c \in Calls : table[c] => phase[c] = "sent"
    /\ running # NoCall => phase[running] = "done"
    /\ \A c \in Calls : data[c] = "live" <=> refs[c] > 0

FiredInv == \A c \in Calls : fired[c] = IF phase[c] = "done" THEN 1 ELSE 0

TicksInv ==
    /\ \A i \in DOMAIN ticks : phase[ticks[i]] \in Queued
    /\ \A i, j \in DOMAIN ticks : ticks[i] = ticks[j] => i = j

IInv == TypeOK /\ RefsInv /\ FiredInv /\ TicksInv

\* The invariant holds at first: nothing was called, nothing is held.
LEMMA InitIInv == Init => IInv
<1> SUFFICES ASSUME Init PROVE IInv
  OBVIOUS
<1>1. TypeOK
  <2>1. ticks \in Seq(Calls) /\ incoming \in Seq(Message)
    BY DEF Init
  <2>2. /\ connected \in BOOLEAN /\ up \in BOOLEAN /\ shared \in BOOLEAN
        /\ phase \in [Calls -> Phases] /\ table \in [Calls -> BOOLEAN]
        /\ timer \in [Calls -> BOOLEAN] /\ refs \in [Calls -> Nat]
    BY DEF Init, Phases
  <2>3. /\ data \in [Calls -> {"none", "live", "freed"}]
        /\ owed \in [Calls -> BOOLEAN] /\ running \in Calls \cup {NoCall}
        /\ fired \in [Calls -> Nat] /\ outcome \in [Calls -> Outcomes]
    BY DEF Init, Outcomes
  <2> QED BY <2>1, <2>2, <2>3 DEF TypeOK
<1>2. RefsInv /\ FiredInv
  BY NoCallAssumption DEF Init, RefsInv, FiredInv, RefCount
<1>3. TicksInv
  BY DEF Init, TicksInv
<1> QED BY <1>1, <1>2, <1>3 DEF IInv

(***************************************************************************)
(* The tick queue: an operation that is not queued can be appended, and    *)
(* the head leaves a queue without it.                                     *)
(***************************************************************************)
LEMMA AppendTick ==
    ASSUME IInv, NEW c \in Calls, phase[c] = "idle",
           NEW q \in Queued, phase' = [phase EXCEPT ![c] = q],
           ticks' = Append(ticks, c)
    PROVE  ticks' \in Seq(Calls) /\ TicksInv'
<1>1. /\ ticks \in Seq(Calls) /\ phase \in [Calls -> Phases]
      /\ \A i \in DOMAIN ticks : phase[ticks[i]] \in Queued
      /\ \A i, j \in DOMAIN ticks : ticks[i] = ticks[j] => i = j
      /\ "idle" \notin Queued
  BY DEF IInv, TypeOK, TicksInv, Queued
<1>2. /\ ticks' \in Seq(Calls)
      /\ DOMAIN ticks' = 1 .. Len(ticks) + 1
      /\ \A i \in 1 .. Len(ticks) : ticks'[i] = ticks[i]
      /\ ticks'[Len(ticks) + 1] = c
      /\ Len(ticks) \in Nat /\ DOMAIN ticks = 1 .. Len(ticks)
  BY <1>1
<1>3. \A i \in DOMAIN ticks : ticks[i] # c /\ ticks[i] \in Calls
  BY <1>1
<1>4. \A i \in DOMAIN ticks' : phase'[ticks'[i]] \in Queued
  BY <1>1, <1>2, <1>3
<1>5. \A i, j \in DOMAIN ticks' : ticks'[i] = ticks'[j] => i = j
  BY <1>1, <1>2, <1>3
<1> QED BY <1>2, <1>4, <1>5 DEF TicksInv

LEMMA HeadTick ==
    ASSUME IInv, ticks # <<>>
    PROVE  /\ Head(ticks) \in Calls
           /\ phase[Head(ticks)] \in Queued
           /\ Tail(ticks) \in Seq(Calls)
           /\ \A i \in DOMAIN Tail(ticks) :
                 /\ Tail(ticks)[i] \in Calls \ {Head(ticks)}
                 /\ phase[Tail(ticks)[i]] \in Queued
           /\ \A i, j \in DOMAIN Tail(ticks) :
                 Tail(ticks)[i] = Tail(ticks)[j] => i = j
<1>1. /\ ticks \in Seq(Calls) /\ Len(ticks) \in Nat \ {0}
      /\ \A i \in DOMAIN ticks : phase[ticks[i]] \in Queued
      /\ \A i, j \in DOMAIN ticks : ticks[i] = ticks[j] => i = j
  BY DEF IInv, TypeOK, TicksInv
<1>2. /\ Head(ticks) = ticks[1] /\ 1 \in DOMAIN ticks
      /\ DOMAIN ticks = 1 .. Len(ticks)
  BY <1>1
<1>3. /\ Tail(ticks) \in Seq(Calls)
      /\ DOMAIN Tail(ticks) = 1 .. Len(ticks) - 1
      /\ \A i \in 1 .. Len(ticks) - 1 :
            /\ Tail(ticks)[i] = ticks[i + 1]
            /\ i + 1 \in DOMAIN ticks
            /\ i + 1 # 1
  BY <1>1
<1>4. \A i \in DOMAIN Tail(ticks) : Tail(ticks)[i] # Head(ticks)
  BY <1>1, <1>2, <1>3
<1>5. \A i, j \in DOMAIN Tail(ticks) : Tail(ticks)[i] = Tail(ticks)[j] => i = j
  <2>1. SUFFICES ASSUME NEW i \in DOMAIN Tail(ticks),
                        NEW j \in DOMAIN Tail(ticks),
                        Tail(ticks)[i] = Tail(ticks)[j]
                 PROVE  i = j
    OBVIOUS
  <2>2. ticks[i + 1] = ticks[j + 1] /\ i \in Nat /\ j \in Nat
    BY <1>1, <1>3, <2>1
  <2>3. i + 1 = j + 1
    BY <1>1, <1>3, <2>2
  <2> QED BY <2>2, <2>3
<1> QED BY <1>1, <1>2, <1>3, <1>4, <1>5

(***************************************************************************)
(* Every step preserves the invariant.                                     *)
(***************************************************************************)
LEMMA NextIInv == IInv /\ [Next]_vars => IInv'
<1> SUFFICES ASSUME IInv, [Next]_vars PROVE IInv'
  OBVIOUS
<1> USE NoCallAssumption
<1>1. ASSUME NEW c \in Calls, CallMethod(c) PROVE IInv'
  <2>1. ticks' \in Seq(Calls) /\ TicksInv'
    BY <1>1, AppendTick DEF CallMethod, Queued
  <2> QED BY <1>1, <2>1
    DEF CallMethod, IInv, TypeOK, RefsInv, FiredInv, RefCount, Phases,
        native
<1>2. ASSUME NEW c \in Calls, AccessRefused(c) PROVE IInv'
  <2>1. ticks' \in Seq(Calls) /\ TicksInv'
    BY <1>2, AppendTick DEF AccessRefused, Accessor, Queued
  <2> QED BY <1>2, <2>1
    DEF AccessRefused, Accessor, IInv, TypeOK, RefsInv, FiredInv, RefCount, Phases,
        native
<1>3. ASSUME NEW c \in Calls, AccessSent(c) PROVE IInv'
  <2>1. TypeOK'
    BY <1>3 DEF AccessSent, Accessor, Register, IInv, TypeOK, Phases
  <2>2. RefsInv' /\ FiredInv'
    BY <1>3 DEF AccessSent, Accessor, Register, IInv, TypeOK, RefsInv,
                FiredInv, RefCount, Phases
  <2>3. TicksInv'
    BY <1>3 DEF AccessSent, Accessor, Register, IInv, TypeOK, TicksInv, Queued
  <2> QED BY <2>1, <2>2, <2>3 DEF IInv
<1>4. ASSUME NEW c \in Calls, AccessThrows(c) PROVE IInv'
  <2>1. TypeOK' /\ RefsInv' /\ FiredInv'
    BY <1>4 DEF AccessThrows, Accessor, IInv, TypeOK, RefsInv, FiredInv,
                RefCount, Phases, native
  <2>2. TicksInv'
    BY <1>4 DEF AccessThrows, Accessor, IInv, TypeOK, TicksInv, Queued
  <2> QED BY <2>1, <2>2 DEF IInv
<1>5. ASSUME NEW c \in Calls, NEW kind \in {"return", "error"},
             Arrive(c, kind)
      PROVE IInv'
  BY <1>5 DEF Arrive, IInv, TypeOK, RefsInv, FiredInv, TicksInv, RefCount,
              Message
<1>6. ASSUME NEW c \in Calls, Timeout(c) PROVE IInv'
  BY <1>6 DEF Timeout, IInv, TypeOK, RefsInv, FiredInv, TicksInv, RefCount,
              Message
<1>7. ASSUME NEW c \in Calls, Forget(c) PROVE IInv'
  <2>1. refs[c] = 2 /\ table[c] /\ phase[c] = "sent" /\ running # c
    BY <1>7 DEF Forget, IInv, TypeOK, RefsInv, RefCount
  <2>2. TypeOK' /\ RefsInv'
    BY <1>7, <2>1 DEF Forget, Release, IInv, TypeOK, RefsInv, RefCount
  <2>3. FiredInv' /\ TicksInv'
    BY <1>7 DEF Forget, IInv, FiredInv, TicksInv
  <2> QED BY <2>2, <2>3 DEF IInv
<1>8. CASE Disconnect
  BY <1>8 DEF Disconnect, IInv, TypeOK, RefsInv, FiredInv, TicksInv, RefCount, native
<1>9. CASE RunTick
  <2> DEFINE c == Head(ticks)
  <2>1. /\ c \in Calls /\ phase[c] \in Queued
        /\ ticks' = Tail(ticks) /\ ticks' \in Seq(Calls)
        /\ \A i \in DOMAIN ticks' :
              ticks'[i] \in Calls \ {c} /\ phase[ticks'[i]] \in Queued
        /\ \A i, j \in DOMAIN ticks' : ticks'[i] = ticks'[j] => i = j
    BY <1>9, HeadTick DEF RunTick
  <2>2. phase[c] # "sent" /\ phase[c] # "done" /\ ~table[c] /\ running # c
        /\ refs[c] = 0
    BY <2>1 DEF IInv, TypeOK, RefsInv, RefCount, Queued
  <2>3. CASE TickFails(c) \/ TickCatches(c)
    <3>1. /\ CallBack(c, "error") /\ UNCHANGED native
          /\ UNCHANGED <<connected, up, shared, incoming, running>>
      BY <1>9, <2>3 DEF TickFails, TickCatches, RunTick
    <3>2. TypeOK'
      BY <2>1, <3>1 DEF CallBack, IInv, TypeOK, Phases, Outcomes, native
    <3>3. RefsInv' /\ FiredInv'
      BY <2>1, <2>2, <3>1 DEF CallBack, IInv, TypeOK, RefsInv, FiredInv,
                              RefCount, native
    <3>4. TicksInv'
      BY <2>1, <3>1 DEF CallBack, IInv, TypeOK, TicksInv
    <3> QED BY <3>2, <3>3, <3>4 DEF IInv
  <2>4. CASE TickSends(c)
    <3>1. /\ Register(c) /\ UNCHANGED <<fired, outcome>>
          /\ UNCHANGED <<connected, up, shared, incoming, running>>
      BY <1>9, <2>4 DEF TickSends, RunTick
    <3>2. TypeOK'
      BY <2>1, <3>1 DEF Register, IInv, TypeOK, Phases
    <3>3. RefsInv' /\ FiredInv'
      BY <2>1, <2>2, <3>1 DEF Register, IInv, TypeOK, RefsInv, FiredInv,
                              RefCount
    <3>4. TicksInv'
      BY <2>1, <3>1 DEF Register, IInv, TypeOK, TicksInv
    <3> QED BY <3>2, <3>3, <3>4 DEF IInv
  <2> QED BY <1>9, <2>3, <2>4 DEF RunTick
<1>10. CASE Drop
  BY <1>10 DEF Drop, IInv, TypeOK, RefsInv, FiredInv, TicksInv, RefCount
<1>11. CASE DispatchStale
  BY <1>11 DEF DispatchStale, IInv, TypeOK, RefsInv, FiredInv, TicksInv,
               RefCount, native
<1>12. CASE DispatchReply
  <2> DEFINE m == Head(incoming)
  <2> DEFINE c == m.call
  <2>1. /\ m \in Message /\ c \in Calls
        /\ Tail(incoming) \in Seq(Message)
    <3>1. incoming \in Seq(Message) /\ incoming # <<>>
      BY <1>12 DEF DispatchReply, IInv, TypeOK
    <3>2. m \in Message /\ Tail(incoming) \in Seq(Message)
      BY <3>1
    <3> QED BY <3>2 DEF Message
  <2>2. /\ table[c] /\ phase[c] = "sent" /\ refs[c] = 2 /\ running = NoCall
        /\ data[c] = "live" /\ ticks = <<>> /\ fired[c] = 0
    <3>1. table[c] /\ running = NoCall /\ ticks = <<>>
      BY <1>12 DEF DispatchReply, Idle
    <3>2. phase[c] = "sent" /\ running # c
      BY <2>1, <3>1 DEF IInv, RefsInv
    <3>3. refs[c] = 2 /\ data[c] = "live" /\ fired[c] = 0
      BY <2>1, <3>1, <3>2 DEF IInv, RefsInv, FiredInv, RefCount
    <3> QED BY <3>1, <3>2, <3>3
  <2>3. /\ refs' = [refs EXCEPT ![c] = 1]
        /\ data' = data
        /\ table' = [table EXCEPT ![c] = FALSE]
        /\ phase' = [phase EXCEPT ![c] = "done"]
        /\ fired' = [fired EXCEPT ![c] = 1]
        /\ running' = c /\ ticks' = ticks
    BY <1>12, <2>1, <2>2 DEF DispatchReply, Release, Unrefs, CallBack, IInv,
                             TypeOK
  <2>4. TypeOK'
    <3>1. /\ timer' = [timer EXCEPT ![c] = FALSE]
          /\ outcome' = [outcome EXCEPT ![c] =
                            IF m.kind = "return" THEN "result" ELSE "error"]
          /\ incoming' = Tail(incoming)
          /\ UNCHANGED <<connected, up, shared, owed>>
      BY <1>12 DEF DispatchReply, CallBack
    <3> QED BY <2>1, <2>3, <3>1 DEF IInv, TypeOK, Phases, Outcomes
  <2>5. RefsInv'
    <3> HIDE DEF c
    <3>1. \A d \in Calls : refs'[d] = RefCount(d)'
      <4> SUFFICES ASSUME NEW d \in Calls PROVE refs'[d] = RefCount(d)'
        OBVIOUS
      <4>1. CASE d = c
        BY <2>1, <2>2, <2>3, <4>1 DEF IInv, TypeOK, RefCount
      <4>2. CASE d # c
        BY <2>1, <2>2, <2>3, <4>2 DEF IInv, TypeOK, RefsInv, RefCount
      <4> QED BY <4>1, <4>2
    <3>2. \A d \in Calls : data'[d] = "live" <=> refs'[d] > 0
      BY <2>1, <2>2, <2>3 DEF IInv, TypeOK, RefsInv
    <3>3. /\ \A d \in Calls : table'[d] => phase'[d] = "sent"
          /\ phase'[running'] = "done"
      BY <2>1, <2>2, <2>3 DEF IInv, TypeOK, RefsInv
    <3> QED BY <3>1, <3>2, <3>3 DEF RefsInv
  <2>6. FiredInv'
    BY <2>1, <2>2, <2>3 DEF IInv, TypeOK, FiredInv
  <2>7. TicksInv'
    BY <2>2, <2>3 DEF TicksInv
  <2> QED BY <2>4, <2>5, <2>6, <2>7 DEF IInv
<1>13. CASE Return
  <2>1. /\ running \in Calls /\ phase[running] = "done" /\ refs[running] = 1
        /\ ~table[running] /\ ticks' = ticks /\ phase' = phase
    <3>1. /\ running \in Calls /\ phase[running] = "done"
          /\ ~table[running] /\ ticks' = ticks /\ phase' = phase
      BY <1>13 DEF Return, IInv, TypeOK, RefsInv
    <3> QED BY <3>1 DEF IInv, RefsInv, RefCount
  <2>2. TypeOK'
    BY <1>13, <2>1 DEF Return, Release, IInv, TypeOK
  <2>3. RefsInv'
    BY <1>13, <2>1 DEF Return, Release, IInv, TypeOK, RefsInv, RefCount
  <2>4. FiredInv' /\ TicksInv'
    BY <1>13, <2>1 DEF Return, IInv, FiredInv, TicksInv
  <2> QED BY <2>2, <2>3, <2>4 DEF IInv
<1>14. CASE Share
  <2>1. timer' \in [Calls -> BOOLEAN]
    BY <1>14 DEF Share, IInv, TypeOK
  <2> QED BY <1>14, <2>1
    DEF Share, IInv, TypeOK, RefsInv, FiredInv, TicksInv, RefCount
<1>15. CASE UNCHANGED vars
  BY <1>15 DEF vars, IInv, TypeOK, RefsInv, FiredInv, TicksInv, RefCount
<1> QED BY <1>1, <1>2, <1>3, <1>4, <1>5, <1>6, <1>7, <1>8, <1>9, <1>10, <1>11,
           <1>12, <1>13, <1>14, <1>15 DEF Next

\* The reference counts, the callbacks and the tick queue stay consistent.
THEOREM IInvInvariant == Spec => []IInv
BY InitIInv, NextIInv, PTL DEF Spec

\* The state of every reachable configuration is well formed.
THEOREM TypeCorrect == Spec => []TypeOK
BY IInvInvariant, PTL DEF IInv

\* The callback of an operation is called at most once.
THEOREM CallsBackOnce == Spec => []CallBackOnce
<1>1. ASSUME IInv PROVE CallBackOnce
  <2> SUFFICES ASSUME NEW c \in Calls PROVE fired[c] <= 1
    BY DEF CallBackOnce
  <2>1. fired[c] = 0 \/ fired[c] = 1
    BY <1>1 DEF IInv, FiredInv
  <2> QED BY <2>1
<1> QED BY <1>1, IInvInvariant, PTL

\* method_callback and libdbus only ever reach callback data that is live.
THEOREM DataIsLive == Spec => []LiveData
<1>1. ASSUME IInv PROVE LiveData
  <2>1. \A c \in Calls : running = c \/ table[c] => refs[c] > 0
    BY <1>1 DEF IInv, RefsInv, RefCount
  <2>2. running # NoCall => running \in Calls
    BY <1>1 DEF IInv, TypeOK
  <2> QED BY <1>1, <2>1, <2>2 DEF IInv, RefsInv, LiveData
<1> QED BY <1>1, IInvInvariant, PTL

\* An answered operation whose callback has returned holds nothing.
THEOREM NothingLeaks == Spec => []NoLeak
<1>1. ASSUME IInv PROVE NoLeak
  <2> SUFFICES ASSUME NEW c \in Calls, phase[c] = "done", running # c
               PROVE  refs[c] = 0 /\ data[c] # "live"
    BY DEF NoLeak
  <2>1. refs[c] = 0
    BY <1>1 DEF IInv, RefsInv, RefCount
  <2> QED BY <1>1, <2>1 DEF IInv, RefsInv
<1> QED BY <1>1, IInvInvariant, PTL

\* Only an operation that finds the bus connected is sent.
LEMMA SendsConnected ==
    IInv /\ [Next]_vars =>
        [~connected => \A c \in Calls : phase'[c] = "sent" => phase[c] = "sent"]_vars
<1> SUFFICES ASSUME IInv, [Next]_vars, ~connected,
                    NEW d \in Calls, phase'[d] = "sent"
             PROVE  phase[d] = "sent"
  OBVIOUS
<1>1. phase \in [Calls -> Phases]
  BY DEF IInv, TypeOK
<1>2. ASSUME NEW c \in Calls, NEW q, q # "sent", phase' = [phase EXCEPT ![c] = q]
      PROVE  phase[d] = "sent"
  BY <1>1, <1>2
<1>3. CASE RunTick
  <2> DEFINE c == Head(ticks)
  <2>1. c \in Calls
    BY <1>3, HeadTick DEF RunTick
  <2>2. TickFails(c) \/ TickCatches(c)
    BY <1>3 DEF RunTick, TickSends
  <2> QED BY <1>2, <2>1, <2>2 DEF TickFails, TickCatches, CallBack
<1>4. CASE DispatchReply
  <2>1. incoming \in Seq(Message) /\ incoming # <<>>
    BY <1>4 DEF DispatchReply, IInv, TypeOK
  <2>2. Head(incoming) \in Message
    BY <2>1
  <2>3. Head(incoming).call \in Calls
    BY <2>2 DEF Message
  <2> QED BY <1>2, <1>4, <2>3 DEF DispatchReply, CallBack
<1>5. ASSUME NEW c \in Calls, CallMethod(c) \/ AccessRefused(c) PROVE phase[d] = "sent"
  BY <1>2, <1>5 DEF CallMethod, AccessRefused, Accessor
<1>6. CASE \/ UNCHANGED vars \/ Disconnect \/ Share \/ Drop \/ DispatchStale
           \/ Return
           \/ \E c \in Calls :
                \/ \E kind \in {"return", "error"} : Arrive(c, kind)
                \/ Timeout(c) \/ Forget(c)
  BY <1>6 DEF vars, Disconnect, Share, Drop, DispatchStale, Return, Arrive, Timeout,
              Forget
<1>7. ~ \E c \in Calls : AccessSent(c) \/ AccessThrows(c)
  BY DEF AccessSent, AccessThrows
<1> QED BY <1>3, <1>4, <1>5, <1>6, <1>7 DEF Next

\* Nothing is sent on a disconnected bus, not even by a call that was made before
\* disconnect and waits for its tick.
THEOREM SendsOnlyConnected == Spec => NoSendAfterDisconnect
BY SendsConnected, IInvInvariant, PTL DEF Spec, NoSendAfterDisconnect

-----------------------------------------------------------------------------
(***************************************************************************)
(* PendingCall implements CallContract.  A step changes what the contract  *)
(* sees of one operation at most: one that is idle is asked for or         *)
(* refused, one that was asked for is answered.                            *)
(***************************************************************************)
States == [c \in Calls |-> ContractState(c)]

\* A step that leaves phase, outcome and fired alone is a stutter.
LEMMA KeepsStates ==
    ASSUME UNCHANGED <<phase, outcome, fired>>
    PROVE  UNCHANGED Contract!vars
<1>1. \A c \in Calls : ContractState(c)' = ContractState(c)
  BY DEF ContractState
<1> QED BY <1>1 DEF Contract!vars

\* What a step that moves one operation c to phase q does to the states.
LEMMA MovesState ==
    ASSUME TypeOK, NEW c \in Calls, NEW q \in Phases,
           phase' = [phase EXCEPT ![c] = q],
           \A d \in Calls \ {c} : outcome'[d] = outcome[d]
    PROVE  States' = [States EXCEPT ![c] = ContractState(c)']
<1>1. phase \in [Calls -> Phases]
  BY DEF TypeOK
<1>2. \A d \in Calls \ {c} : phase'[d] = phase[d]
  BY <1>1
<1>3. \A d \in Calls \ {c} : ContractState(d)' = ContractState(d)
  BY <1>2 DEF ContractState
<1> QED BY <1>3 DEF States

\* An idle operation that is now on its way was asked for.
LEMMA AsksFor ==
    ASSUME TypeOK, NEW c \in Calls, phase[c] = "idle",
           NEW q \in Queued \cup {"sent"}, phase' = [phase EXCEPT ![c] = q],
           UNCHANGED <<outcome, fired>>
    PROVE  Contract!Next
<1>1. phase'[c] = q /\ q \in Phases
  BY DEF TypeOK, Queued, Phases
<1>2. States' = [States EXCEPT ![c] = ContractState(c)']
  BY <1>1, MovesState
<1>3. ContractState(c)' = "asked" /\ ContractState(c) = "idle"
  BY <1>1 DEF ContractState, Queued
<1>4. Contract!Ask(c)
  BY <1>2, <1>3 DEF Contract!Ask, States
<1> QED BY <1>4 DEF Contract!Next

\* The caller does not notice when a queued operation is sent.
LEMMA IsSent ==
    ASSUME TypeOK, NEW c \in Calls, phase[c] \in Queued,
           phase' = [phase EXCEPT ![c] = "sent"],
           UNCHANGED <<outcome, fired>>
    PROVE  UNCHANGED Contract!vars
<1>1. phase'[c] = "sent" /\ "sent" \in Phases
  BY DEF TypeOK, Phases
<1>2. States' = [States EXCEPT ![c] = ContractState(c)']
  BY <1>1, MovesState
<1>3. ContractState(c)' = "asked" /\ ContractState(c) = "asked"
  BY <1>1 DEF ContractState, Queued
<1>4. States' = States
  BY <1>2, <1>3 DEF States
<1> QED BY <1>4 DEF Contract!vars, States

\* An operation on its way whose callback is called is answered.
LEMMA IsAnswered ==
    ASSUME TypeOK, NEW c \in Calls, phase[c] \in Queued \cup {"sent"},
           NEW o \in {"result", "error"}, CallBack(c, o)
    PROVE  Contract!Next
<1>1. /\ phase'[c] = "done" /\ phase' = [phase EXCEPT ![c] = "done"]
      /\ outcome'[c] = o /\ fired' = [fired EXCEPT ![c] = @ + 1]
      /\ \A d \in Calls \ {c} : outcome'[d] = outcome[d]
      /\ "done" \in Phases
  BY DEF TypeOK, CallBack, Phases
<1>2. States' = [States EXCEPT ![c] = ContractState(c)']
  BY <1>1, MovesState
<1>3. ContractState(c)' = o /\ ContractState(c) = "asked"
  BY <1>1 DEF ContractState, Queued
<1>4. Contract!Answer(c, o)
  BY <1>1, <1>2, <1>3 DEF Contract!Answer, States
<1> QED BY <1>4 DEF Contract!Next, Contract!Outcomes

\* At first every operation is idle, also for the contract.
LEMMA InitContract == Init => Contract!Init
<1> SUFFICES ASSUME Init PROVE Contract!Init
  OBVIOUS
<1>1. \A c \in Calls : ContractState(c) = "idle"
  BY DEF Init, ContractState
<1> QED BY <1>1 DEF Init, Contract!Init

\* Every step of the protocol is a step of the contract, or does not show.
LEMMA NextContract == IInv /\ [Next]_vars => [Contract!Next]_(Contract!vars)
<1> SUFFICES ASSUME IInv, [Next]_vars
             PROVE  Contract!Next \/ UNCHANGED Contract!vars
  OBVIOUS
<1>0. TypeOK
  BY DEF IInv
<1>1. ASSUME NEW c \in Calls, CallMethod(c) PROVE Contract!Next
  BY <1>0, <1>1, AsksFor DEF CallMethod, Queued
<1>2. ASSUME NEW c \in Calls, AccessRefused(c) PROVE Contract!Next
  BY <1>0, <1>2, AsksFor DEF AccessRefused, Accessor, Queued
<1>3. ASSUME NEW c \in Calls, AccessSent(c) PROVE Contract!Next
  BY <1>0, <1>3, AsksFor DEF AccessSent, Accessor, Register
<1>4. ASSUME NEW c \in Calls, AccessThrows(c) PROVE Contract!Next
  <2>1. /\ phase'[c] = "threw" /\ "threw" \in Phases
        /\ phase' = [phase EXCEPT ![c] = "threw"]
        /\ UNCHANGED <<outcome, fired>>
    BY <1>0, <1>4 DEF AccessThrows, Accessor, TypeOK, Phases
  <2>2. States' = [States EXCEPT ![c] = ContractState(c)']
    BY <1>0, <2>1, MovesState
  <2>3. ContractState(c)' = "refused" /\ ContractState(c) = "idle"
    BY <1>4, <2>1 DEF AccessThrows, Accessor, ContractState
  <2>4. Contract!Refuse(c)
    BY <2>1, <2>2, <2>3 DEF Contract!Refuse, States
  <2> QED BY <2>4 DEF Contract!Next
<1>5. CASE RunTick
  <2> DEFINE c == Head(ticks)
  <2>1. c \in Calls /\ phase[c] \in Queued
    BY <1>5, HeadTick DEF RunTick
  <2>2. CASE TickFails(c) \/ TickCatches(c)
    <3>1. CallBack(c, "error")
      BY <2>2 DEF TickFails, TickCatches
    <3> QED BY <1>0, <2>1, <3>1, IsAnswered
  <2>3. CASE TickSends(c)
    <3>1. phase' = [phase EXCEPT ![c] = "sent"] /\ UNCHANGED <<outcome, fired>>
      BY <2>3 DEF TickSends, Register
    <3> QED BY <1>0, <2>1, <3>1, IsSent
  <2> QED BY <1>5, <2>2, <2>3 DEF RunTick
<1>6. CASE DispatchReply
  <2> DEFINE m == Head(incoming)
  <2>1. incoming \in Seq(Message) /\ incoming # <<>>
    BY <1>0, <1>6 DEF DispatchReply, TypeOK
  <2>2. m \in Message
    BY <2>1
  <2>3. m.call \in Calls /\ phase[m.call] = "sent"
    BY <1>6, <2>2 DEF DispatchReply, Message, IInv, RefsInv
  <2>4. PICK o \in {"result", "error"} : CallBack(m.call, o)
    BY <1>6 DEF DispatchReply
  <2> QED BY <1>0, <2>3, <2>4, IsAnswered
<1>7. CASE \/ UNCHANGED vars \/ Disconnect \/ Share \/ Drop \/ DispatchStale
           \/ Return
           \/ \E c \in Calls :
                \/ \E kind \in {"return", "error"} : Arrive(c, kind)
                \/ Timeout(c) \/ Forget(c)
  <2>1. UNCHANGED <<phase, outcome, fired>>
    BY <1>7 DEF vars, Disconnect, Share, Drop, DispatchStale, Return, Arrive,
                Timeout, Forget
  <2> QED BY <2>1, KeepsStates
<1> QED BY <1>1, <1>2, <1>3, <1>4, <1>5, <1>6, <1>7 DEF Next

\* The callback protocol keeps its promise to every caller, for any number of
\* operations: PendingCall implements CallContract.
THEOREM ImplementsContract == Spec => KeepsContract
BY InitContract, NextContract, IInvInvariant, PTL
DEF Spec, KeepsContract, Contract!Spec
=============================================================================
