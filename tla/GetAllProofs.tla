---------------------------- MODULE GetAllProofs ----------------------------
(***************************************************************************)
(* Safety of GetAll for any number of properties, any getters that call    *)
(* back at once, and any number of callbacks.  A getter that calls back    *)
(* twice makes the iteration run twice from there on; the properties speak *)
(* of getters that do not.  That no later step makes up for a second       *)
(* callback is what Spoiled keeps track of.                                *)
(***************************************************************************)
EXTENDS GetAll, TLAPS

\* Every callback of a getter asks the next one, the last one replies.
Chain ==
    /\ \A p \in Props : asked[p] = IF p = 1 THEN (IF started THEN 1 ELSE 0)
                                   ELSE answered[p - 1]
    /\ replies = IF N = 0 THEN (IF started THEN 1 ELSE 0) ELSE answered[N]

\* One pass through the properties that is under way: those before the one that
\* was asked last have called back, and have left a value or an error.
OnePass ==
    /\ \A p \in Props : asked[p] <= 1 /\ answered[p] <= asked[p]
    /\ \A p, q \in Props : p < q /\ asked[q] = 1 => answered[p] = 1
    /\ \A p \in Props : answered[p] = 1 => (p \in properties <=> p \notin failed)
    /\ \A p \in Props : answered[p] = 0 => p \notin properties \cup failed
    /\ replies > 0 => result = properties

\* A getter has called back twice though it and those before were called once.
Spoiled ==
    \E q \in Props : answered[q] >= 2 /\ \A r \in Props : r <= q => asked[r] <= 1

IInv == TypeOK /\ Chain /\ (OnePass \/ Spoiled)

\* Nothing was called at first.
LEMMA InitIInv == Init => IInv
<1> SUFFICES ASSUME Init PROVE IInv
  OBVIOUS
<1> USE NAssumption DEF Props
<1>1. TypeOK
  BY DEF Init, TypeOK
<1>2. Chain
  BY DEF Init, Chain
<1>3. OnePass
  BY DEF Init, OnePass
<1> QED BY <1>1, <1>2, <1>3 DEF IInv

\* What next(index) does, whichever of its branches it takes.
LEMMA Proceeds ==
    ASSUME NEW index \in 1..(N + 1), Proceed(index), TypeOK
    PROVE  /\ asked' = IF index = N + 1 THEN asked
                       ELSE [asked EXCEPT ![index] = asked[index] + 1]
           /\ replies' = IF index = N + 1 THEN replies + 1 ELSE replies
           /\ result' = IF index = N + 1 THEN properties' ELSE result
           /\ thrown \in BOOLEAN => thrown' \in BOOLEAN
<1> USE NAssumption, SyncAssumption DEF Props
<1>1. CASE index = N + 1
  BY <1>1 DEF Proceed
<1>2. CASE index # N + 1
  <2>1. index \in Props /\ ~(index > N)
    BY <1>2
  <2>2. thrown \in BOOLEAN => thrown' \in BOOLEAN
    BY <2>1 DEF Proceed
  <2> QED BY <1>2, <2>1, <2>2 DEF Proceed
<1> QED BY <1>1, <1>2

\* Start and Answer keep the types and the chain.
LEMMA StartIInv == ASSUME IInv, Start PROVE IInv'
<1> USE NAssumption DEF Props
<1>1. /\ TypeOK /\ Chain /\ (OnePass \/ Spoiled)
      /\ started = FALSE /\ started' = TRUE
      /\ answered' = answered /\ failed' = failed /\ properties' = properties
  BY DEF IInv, Start, TypeOK
<1>2. /\ asked' = IF N = 0 THEN asked ELSE [asked EXCEPT ![1] = asked[1] + 1]
      /\ replies' = IF N = 0 THEN replies + 1 ELSE replies
      /\ result' = IF N = 0 THEN properties ELSE result
      /\ thrown' \in BOOLEAN
  BY <1>1, Proceeds DEF Start, TypeOK
<1>3. /\ asked \in [Props -> Nat] /\ answered \in [Props -> Nat]
      /\ replies \in Nat /\ properties \subseteq Props /\ result \subseteq Props
      /\ failed \subseteq Props
  BY <1>1 DEF TypeOK
<1>4. TypeOK'
  BY <1>1, <1>2, <1>3 DEF TypeOK
<1>5. Chain'
  BY <1>1, <1>2, <1>3 DEF Chain
<1>6. \A p \in Props : asked'[p] = IF p = 1 THEN 1 ELSE asked[p]
  BY <1>1, <1>2, <1>3 DEF Chain
<1>7. CASE OnePass
  <2>1. \A p \in Props : asked'[p] <= 1 /\ answered'[p] <= asked'[p]
    BY <1>1, <1>3, <1>6, <1>7 DEF OnePass
  <2>2. \A p, q \in Props : p < q /\ asked'[q] = 1 => answered'[p] = 1
    BY <1>1, <1>3, <1>6, <1>7 DEF OnePass
  <2>3. replies' > 0 => result' = properties'
    BY <1>1, <1>2, <1>3, <1>7 DEF OnePass
  <2>4. OnePass'
    BY <1>1, <1>7, <2>1, <2>2, <2>3 DEF OnePass
  <2> QED BY <1>4, <1>5, <2>4 DEF IInv
<1>8. CASE Spoiled
  <2>1. PICK q \in Props : answered[q] >= 2 /\ \A r \in Props : r <= q => asked[r] <= 1
    BY <1>8 DEF Spoiled
  <2>2. answered'[q] >= 2 /\ \A r \in Props : r <= q => asked'[r] <= 1
    BY <1>1, <1>3, <1>6, <2>1
  <2>3. Spoiled'
    BY <2>2 DEF Spoiled
  <2> QED BY <1>4, <1>5, <2>3 DEF IInv
<1> QED BY <1>1, <1>7, <1>8

LEMMA AnswerIInv ==
    ASSUME IInv, NEW p \in Props, NEW ok \in BOOLEAN, Answer(p, ok)
    PROVE  IInv'
<1> USE NAssumption, MaxCallsAssumption DEF Props
<1>1. /\ TypeOK /\ Chain /\ (OnePass \/ Spoiled)
      /\ answered[p] < asked[p] * MaxCalls
      /\ answered' = [answered EXCEPT ![p] = answered[p] + 1]
      /\ properties' = IF ok THEN properties \cup {p} ELSE properties
      /\ failed' = IF ok THEN failed ELSE failed \cup {p}
      /\ started' = started
  BY DEF IInv, Answer
<1>2. /\ asked' = IF p = N THEN asked
                  ELSE [asked EXCEPT ![p + 1] = asked[p + 1] + 1]
      /\ replies' = IF p = N THEN replies + 1 ELSE replies
      /\ result' = IF p = N THEN properties' ELSE result
      /\ thrown' \in BOOLEAN
  <2>1. p + 1 \in 1..(N + 1) /\ Proceed(p + 1) /\ (p + 1 = N + 1 <=> p = N)
    BY DEF Answer
  <2>2. thrown \in BOOLEAN
    BY <1>1 DEF TypeOK
  <2> QED BY <1>1, <2>1, <2>2, Proceeds
<1>3. /\ asked \in [Props -> Nat] /\ answered \in [Props -> Nat]
      /\ replies \in Nat /\ properties \subseteq Props /\ result \subseteq Props
      /\ failed \subseteq Props /\ started \in BOOLEAN
  BY <1>1 DEF TypeOK
<1>4. TypeOK'
  <2>1. asked' \in [Props -> Nat] /\ answered' \in [Props -> Nat] /\ replies' \in Nat
    <3>1. answered' \in [Props -> Nat] /\ replies' \in Nat
      BY <1>1, <1>2, <1>3
    <3>2. CASE p = N
      BY <1>2, <1>3, <3>1, <3>2
    <3>3. CASE p # N
      <4>1. p + 1 \in Props /\ asked[p + 1] + 1 \in Nat
        BY <1>3, <3>3
      <4>2. [asked EXCEPT ![p + 1] = asked[p + 1] + 1] \in [Props -> Nat]
        BY <1>3, <4>1
      <4> QED BY <1>2, <3>1, <3>3, <4>2
    <3> QED BY <3>2, <3>3
  <2>2. properties' \subseteq Props /\ failed' \subseteq Props /\ result' \subseteq Props
    BY <1>1, <1>2, <1>3
  <2> QED BY <1>1, <1>2, <1>3, <2>1, <2>2 DEF TypeOK
<1>5. /\ \A q \in Props : answered'[q] = IF q = p THEN answered[p] + 1 ELSE answered[q]
      /\ \A q \in Props : asked'[q] = IF q = p + 1 THEN answered[p] + 1 ELSE asked[q]
      /\ asked[p] >= 1
  <2>1. asked[p] # 0
    BY <1>1, <1>3
  <2>2. p # N => asked[p + 1] = answered[p]
    BY <1>1, <1>3 DEF Chain
  <2> QED BY <1>1, <1>2, <1>3, <2>1, <2>2
<1>6. Chain'
  <2>1. \A q \in Props : asked'[q] = IF q = 1 THEN (IF started' THEN 1 ELSE 0)
                                     ELSE answered'[q - 1]
    BY <1>1, <1>3, <1>5 DEF Chain
  <2>2. N # 0 /\ replies = answered[N]
    BY <1>1 DEF Chain
  <2>3. replies' = answered'[N]
    BY <1>2, <1>3, <1>5, <2>2
  <2> QED BY <2>1, <2>2, <2>3 DEF Chain
<1>7. CASE OnePass /\ answered[p] = 0
  <2>1. asked[p] = 1 /\ \A q \in Props : q > p => asked[q] = 0
    BY <1>3, <1>5, <1>7 DEF OnePass
  <2>2. \A q \in Props : asked'[q] <= 1 /\ answered'[q] <= asked'[q]
    BY <1>3, <1>5, <1>7, <2>1 DEF OnePass
  <2>3. \A q, r \in Props : q < r /\ asked'[r] = 1 => answered'[q] = 1
    BY <1>3, <1>5, <1>7, <2>1 DEF OnePass
  <2>4. \A q \in Props : answered'[q] = 1 => (q \in properties' <=> q \notin failed')
    <3>1. p \notin properties \cup failed
      BY <1>7 DEF OnePass
    <3> QED BY <1>1, <1>3, <1>5, <1>7, <3>1 DEF OnePass
  <2>5. \A q \in Props : answered'[q] = 0 => q \notin properties' \cup failed'
    BY <1>1, <1>3, <1>5, <1>7 DEF OnePass
  <2>6. replies' > 0 => result' = properties'
    <3>1. replies = answered[N] /\ N \in Props
      BY <1>1 DEF Chain
    <3>2. p # N => replies = 0
      BY <1>3, <1>7, <2>1, <3>1 DEF OnePass
    <3> QED BY <1>2, <3>2
  <2>7. OnePass'
    BY <2>2, <2>3, <2>4, <2>5, <2>6 DEF OnePass
  <2> QED BY <1>4, <1>6, <2>7 DEF IInv
<1>8. CASE OnePass /\ answered[p] # 0
  <2>1. answered'[p] >= 2 /\ \A r \in Props : r <= p => asked'[r] <= 1
    BY <1>3, <1>5, <1>8 DEF OnePass
  <2>2. Spoiled'
    BY <2>1 DEF Spoiled
  <2> QED BY <1>4, <1>6, <2>2 DEF IInv
<1>9. CASE Spoiled
  <2>1. PICK q \in Props : answered[q] >= 2 /\ \A r \in Props : r <= q => asked[r] <= 1
    BY <1>9 DEF Spoiled
  <2>2. ASSUME p + 1 <= q, answered[p] >= 1 PROVE Spoiled'
    <3>1. answered'[p] >= 2 /\ \A r \in Props : r <= p => asked'[r] <= 1
      BY <1>3, <1>5, <2>1, <2>2
    <3> QED BY <3>1 DEF Spoiled
  <2>3. ASSUME ~(p + 1 <= q /\ answered[p] >= 1) PROVE Spoiled'
    <3>1. answered'[q] >= 2 /\ \A r \in Props : r <= q => asked'[r] <= 1
      BY <1>3, <1>5, <2>1, <2>3
    <3> QED BY <3>1 DEF Spoiled
  <2>4. Spoiled'
    BY <2>2, <2>3
  <2> QED BY <1>4, <1>6, <2>4 DEF IInv
<1> QED BY <1>1, <1>7, <1>8, <1>9

\* Every step preserves the invariant.
LEMMA NextIInv == IInv /\ [Next]_vars => IInv'
<1> SUFFICES ASSUME IInv, [Next]_vars PROVE IInv'
  OBVIOUS
<1>1. CASE Start
  BY <1>1, StartIInv
<1>2. ASSUME NEW p \in Props, NEW ok \in BOOLEAN, Answer(p, ok) PROVE IInv'
  BY <1>2, AnswerIInv
<1>3. CASE UNCHANGED vars
  BY <1>3 DEF vars, IInv, TypeOK, Chain, OnePass, Spoiled
<1> QED BY <1>1, <1>2, <1>3 DEF Next

\* The invariant holds in every reachable state.
THEOREM Invariant == Spec => []IInv
BY InitIInv, NextIInv, PTL DEF Spec

\* When no getter calls back more than once there is one pass.
LEMMA WellBehavedPass ==
    ASSUME IInv, WellBehaved
    PROVE  OnePass
<1>1. asked \in [Props -> Nat] /\ answered \in [Props -> Nat]
  BY DEF IInv, TypeOK
<1>2. ~Spoiled
  <2> SUFFICES ASSUME NEW q \in Props, answered[q] >= 2,
                      \A r \in Props : r <= q => asked[r] <= 1
               PROVE  FALSE
    BY DEF Spoiled
  <2>1. answered[q] <= asked[q] /\ asked[q] <= 1 /\ q <= q
    BY NAssumption DEF WellBehaved, Props
  <2> QED BY <1>1, <2>1
<1> QED BY <1>2 DEF IInv

\* Type correctness, for any number of properties.
THEOREM TypeCorrect == Spec => []TypeOK
<1>1. IInv => TypeOK
  BY DEF IInv
<1> QED BY <1>1, Invariant, PTL

\* GetAll replies at most once, and with the value of every property whose
\* getter did not fail, for any number of properties.
THEOREM CompleteReply == Spec => []OneCompleteReply
<1>1. ASSUME IInv, WellBehaved PROVE replies <= 1
  <2>1. OnePass
    BY <1>1, WellBehavedPass
  <2>2. asked \in [Props -> Nat] /\ answered \in [Props -> Nat]
    BY <1>1 DEF IInv, TypeOK
  <2>3. CASE N = 0
    BY <1>1, <2>3 DEF IInv, Chain
  <2>4. CASE N # 0
    <3>1. N \in Props /\ replies = answered[N]
      BY <1>1, <2>4, NAssumption DEF IInv, Chain, Props
    <3>2. asked[N] <= 1 /\ answered[N] <= asked[N]
      BY <3>1, <2>1 DEF OnePass
    <3> QED BY <2>2, <3>1, <3>2
  <2> QED BY <2>3, <2>4
<1>2. ASSUME IInv, WellBehaved, replies > 0 PROVE result = Props \ failed
  <2> USE NAssumption DEF Props
  <2>1. OnePass
    BY <1>2, WellBehavedPass
  <2>2. /\ asked \in [Props -> Nat] /\ answered \in [Props -> Nat]
        /\ properties \subseteq Props
        /\ result = properties
    BY <1>2, <2>1 DEF IInv, TypeOK, OnePass
  <2>3. \A p \in Props : answered[p] = 1
    <3>1. CASE N = 0
      BY <3>1
    <3>2. CASE N # 0
      <4>1. N \in Props /\ answered[N] > 0
        BY <1>2, <3>2 DEF IInv, Chain
      <4>2. asked[N] = 1 /\ answered[N] = 1
        BY <2>1, <2>2, <4>1 DEF OnePass
      <4> QED BY <2>1, <4>1, <4>2 DEF OnePass
    <3> QED BY <3>1, <3>2
  <2>4. \A p \in Props : p \in properties <=> p \notin failed
    BY <2>1, <2>3 DEF OnePass
  <2> QED BY <2>2, <2>4
<1>3. IInv => replies \in Nat
  BY DEF IInv, TypeOK
<1>4. IInv => OneCompleteReply
  BY <1>1, <1>2, <1>3 DEF OneCompleteReply
<1> QED BY <1>4, Invariant, PTL

\* Getters are asked one at a time.
THEOREM OneGetter == Spec => []OneAtATime
<1>1. IInv => OneAtATime
  <2> SUFFICES ASSUME IInv, WellBehaved
               PROVE  /\ \A p \in Props : asked[p] <= answered[p] + 1
                      /\ \A p, q \in Props :
                            asked[p] > answered[p] /\ asked[q] > answered[q] => p = q
    BY DEF OneAtATime
  <2>1. OnePass
    BY WellBehavedPass
  <2>2. asked \in [Props -> Nat] /\ answered \in [Props -> Nat]
    BY DEF IInv, TypeOK
  <2>3. \A p \in Props : asked[p] <= 1 /\ answered[p] <= asked[p]
    BY <2>1 DEF OnePass
  <2>4. \A p, q \in Props : asked[p] > answered[p] /\ asked[q] > answered[q] => ~(p < q)
    BY <2>1, <2>2, <2>3 DEF OnePass
  <2>5. \A p, q \in Props : p < q \/ q < p \/ p = q
    BY NAssumption DEF Props
  <2> QED BY <2>2, <2>3, <2>4, <2>5
<1> QED BY <1>1, Invariant, PTL
=============================================================================
