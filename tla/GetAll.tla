------------------------------- MODULE GetAll -------------------------------
(***************************************************************************)
(* org.freedesktop.DBus.Properties.GetAll of a service object: the GetAll  *)
(* method (lib/service_object.js), getProperties (service_interface.js)    *)
(* and ForEachAsync (lib/utils.js), which asks the getters of an interface *)
(* one after the other.                                                    *)
(*                                                                         *)
(* A getter is user code: it calls back in a later turn or, when it has    *)
(* the value at hand, at once, with an error or a value.  In ForEachAsync  *)
(* the inner function _next reads the constant ret, which has no value     *)
(* before the getter has returned: called earlier, _next throws a          *)
(* ReferenceError.                                                         *)
(***************************************************************************)
EXTENDS Naturals

CONSTANTS N,         \* properties of the interface, in the order of its keys
          Sync,      \* those whose getter may call back before it returns
          MaxCalls   \* bound: how often a getter calls back

Props == 1..N

ASSUME NAssumption == N \in Nat
ASSUME SyncAssumption == Sync \subseteq Props
ASSUME MaxCallsAssumption == MaxCalls \in Nat

VARIABLES
    started,     \* the request has been dispatched
    asked,       \* how often each getter was called
    answered,    \* how often each getter has called back
    failed,      \* the properties whose getter has reported an error
    properties,  \* the properties collected so far
    replies,     \* how often GetAll's callback was called
    result,      \* the properties of the last reply
    thrown       \* an exception was thrown to the event loop

vars == <<started, asked, answered, failed, properties, replies, result, thrown>>

TypeOK ==
    /\ started \in BOOLEAN
    /\ asked \in [Props -> Nat]
    /\ answered \in [Props -> Nat]
    /\ failed \subseteq Props
    /\ properties \subseteq Props
    /\ replies \in Nat
    /\ result \subseteq Props
    /\ thrown \in BOOLEAN

Init ==
    /\ started = FALSE
    /\ asked = [p \in Props |-> 0]
    /\ answered = [p \in Props |-> 0]
    /\ failed = {}
    /\ properties = {}
    /\ replies = 0
    /\ result = {}
    /\ thrown = FALSE

-----------------------------------------------------------------------------
\* Seeded fault: the iteration ends without a reply.
ProceedToNowhere(index) == UNCHANGED <<asked, replies, result, thrown>>

\* next(index): past the last property GetAll replies with what is collected;
\* a getter that calls back later is called; one that calls back at once makes
\* _next throw, and the exception leaves ForEachAsync.  (What that getter adds
\* to properties before, nobody will see.)
Proceed(index) ==
    \/ /\ index > N
       /\ replies' = replies + 1
       /\ result' = properties'
       /\ UNCHANGED <<asked, thrown>>
    \/ /\ index \in Props
       /\ asked' = [asked EXCEPT ![index] = @ + 1]
       /\ UNCHANGED <<replies, result, thrown>>
    \/ /\ index \in Sync
       /\ asked' = [asked EXCEPT ![index] = @ + 1]
       /\ thrown' = TRUE
       /\ UNCHANGED <<replies, result>>

\* The request for GetAll is dispatched.
Start ==
    /\ ~started
    /\ started' = TRUE
    /\ UNCHANGED <<answered, failed, properties>>
    /\ Proceed(1)

\* Seeded faults: the value is stored under the next name; without the return
\* after an error, a value is stored and next is called again.
AnswerStoresNext(p, ok) ==
    /\ ~thrown
    /\ answered[p] < asked[p] * MaxCalls
    /\ answered' = [answered EXCEPT ![p] = @ + 1]
    /\ properties' = IF ok THEN properties \cup {p + 1} ELSE properties
    /\ failed' = IF ok THEN failed ELSE failed \cup {p}
    /\ UNCHANGED started
    /\ Proceed(p + 1)

AnswerOn(p, ok) ==
    /\ ~thrown
    /\ answered[p] < asked[p] * MaxCalls
    /\ answered' = [answered EXCEPT ![p] = @ + 1]
    /\ properties' = properties \cup {p}
    /\ failed' = IF ok THEN failed ELSE failed \cup {p}
    /\ UNCHANGED started
    /\ IF ok THEN Proceed(p + 1)
       ELSE /\ asked' = IF p < N THEN [asked EXCEPT ![p + 1] = @ + 2] ELSE asked
            /\ replies' = IF p = N THEN replies + 2 ELSE replies
            /\ UNCHANGED <<result, thrown>>

\* The getter of p calls back: a value is stored, an error skips the property.
Answer(p, ok) ==
    /\ ~thrown
    /\ answered[p] < asked[p] * MaxCalls
    /\ answered' = [answered EXCEPT ![p] = @ + 1]
    /\ properties' = IF ok THEN properties \cup {p} ELSE properties
    /\ failed' = IF ok THEN failed ELSE failed \cup {p}
    /\ UNCHANGED started
    /\ Proceed(p + 1)

Next ==
    \/ Start
    \/ \E p \in Props, ok \in BOOLEAN : Answer(p, ok)

Spec == Init /\ [][Next]_vars

\* Requests are dispatched and every getter that was called calls back.
FirstAnswer(p) ==
    /\ answered[p] < asked[p]
    /\ \E ok \in BOOLEAN : Answer(p, ok)

FairSpec == Spec /\ WF_vars(Start) /\ \A p \in Props : WF_vars(FirstAnswer(p))

-----------------------------------------------------------------------------
(* Properties.                                                             *)

\* No getter has called back more often than it was called.
WellBehaved == \A p \in Props : answered[p] <= asked[p]

\* GetAll replies at most once, and after every getter has called back: the
\* reply has the value of each property whose getter did not fail.
OneCompleteReply ==
    WellBehaved /\ replies > 0 => replies = 1 /\ result = Props \ failed

\* The getters are called one at a time: none while another has not called back.
OneAtATime ==
    WellBehaved =>
        /\ \A p \in Props : asked[p] <= answered[p] + 1
        /\ \A p, q \in Props :
            asked[p] > answered[p] /\ asked[q] > answered[q] => p = q

\* GetAll is answered when every getter calls back, unless one does so at once.
GetAllAnswered == <>(replies > 0 \/ thrown)

\* test/client-property.test.js:26-28 gets all properties of the service of
\* test/service.js, whose getters call back at once: GetAll does not throw.
NeverThrows == ~thrown
=============================================================================
