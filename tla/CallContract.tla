---------------------------- MODULE CallContract ----------------------------
(***************************************************************************)
(* What node-dbus promises to the caller of a remote operation: README.md  *)
(* ("callback will be called with either an error or with the result").    *)
(* A request that was accepted is answered at most once, never before it   *)
(* was made, and the answer is final.  A request may instead be refused by *)
(* an exception thrown to the caller; its callback is then never called.   *)
(***************************************************************************)
EXTENDS Naturals

CONSTANT Calls

VARIABLES state,    \* where each request stands
          answers   \* how often the callback of each request was called

vars == <<state, answers>>

Outcomes == {"result", "error"}
States == {"idle", "asked", "refused"} \cup Outcomes

TypeOK ==
    /\ state \in [Calls -> States]
    /\ answers \in [Calls -> 0..1]

Init ==
    /\ state = [c \in Calls |-> "idle"]
    /\ answers = [c \in Calls |-> 0]

Ask(c) ==
    /\ state[c] = "idle"
    /\ state' = [state EXCEPT ![c] = "asked"]
    /\ UNCHANGED answers

Refuse(c) ==
    /\ state[c] = "idle"
    /\ state' = [state EXCEPT ![c] = "refused"]
    /\ UNCHANGED answers

Answer(c, o) ==
    /\ state[c] = "asked"
    /\ state' = [state EXCEPT ![c] = o]
    /\ answers' = [answers EXCEPT ![c] = @ + 1]

Next == \E c \in Calls :
    \/ Ask(c)
    \/ Refuse(c)
    \/ \E o \in Outcomes : Answer(c, o)

Spec == Init /\ [][Next]_vars
=============================================================================
