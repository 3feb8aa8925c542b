------------------------- MODULE RetrievalContract -------------------------
(***************************************************************************)
(* What a Bus promises to those who call getInterface (src/README.md:      *)
(* "Once retrieved, callback will be called with either an error or with   *)
(* an Interface").  A request is refused by an exception, or is called     *)
(* back once, or is given up and then never called back, not even by an    *)
(* answer that comes late.  What is asked for has one Interface object,    *)
(* which everybody is handed: it appears, and is replaced, only in the     *)
(* step that hands the new one to a request that asked for the same, and   *)
(* never disappears.                                                       *)
(***************************************************************************)
EXTENDS Naturals

CONSTANTS Requests,  \* calls of getInterface, and the Interface each may create
          Keys,      \* the interfaces asked for
          None

VARIABLES wanted,    \* the interface each request asks for
          state,     \* where each request stands
          answers,   \* how often the callback of each request was called
          object     \* the Interface object of each interface

vars == <<wanted, state, answers, object>>

Init ==
    /\ wanted = [r \in Requests |-> None]
    /\ state = [r \in Requests |-> "idle"]
    /\ answers = [r \in Requests |-> 0]
    /\ object = [k \in Keys |-> None]

\* getInterface returns, or throws.
Ask(r, k) ==
    /\ state[r] = "idle"
    /\ wanted' = [wanted EXCEPT ![r] = k]
    /\ \E s \in {"asked", "refused"} : state' = [state EXCEPT ![r] = s]
    /\ UNCHANGED <<answers, object>>

CallBack(r) ==
    /\ state[r] = "asked"
    /\ state' = [state EXCEPT ![r] = "answered"]
    /\ answers' = [answers EXCEPT ![r] = @ + 1]
    /\ UNCHANGED wanted

\* With an error, or the Interface object there is.
Answer(r) == CallBack(r) /\ UNCHANGED object

\* With a new Interface object, which from now on is the one of its key.
Provide(r) == CallBack(r) /\ object' = [object EXCEPT ![wanted[r]] = r]

GiveUp(r) ==
    /\ state[r] = "asked"
    /\ state' = [state EXCEPT ![r] = "given up"]
    /\ UNCHANGED <<wanted, answers, object>>

Next == \E r \in Requests :
    \/ \E k \in Keys : Ask(r, k)
    \/ Answer(r)
    \/ Provide(r)
    \/ GiveUp(r)

Spec == Init /\ [][Next]_vars
=============================================================================
