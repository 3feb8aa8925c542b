------------------------ MODULE IntrospectionProofs ------------------------
(***************************************************************************)
(* Safety of Introspection for any interfaces, members, types and argument *)
(* lists and any number of declarations.  The parser's result for a text   *)
(* is computed element by element, for any number of elements: induction   *)
(* over the natural numbers, as the fact that a set of them has a least    *)
(* one.  The texts of a function are joined in some order: that of the     *)
(* properties of a JavaScript object.  Nothing here depends on which.      *)
(***************************************************************************)
EXTENDS Introspection, FiniteSetTheorems, SequenceTheorems, WellFoundedInduction, TLAPS

-----------------------------------------------------------------------------
(* Induction, as a fact about sets.                                        *)

\* Each set of natural numbers but the empty one has a least element.
LEMMA Least ==
    ASSUME NEW S, S \subseteq Nat, S # {}
    PROVE  \E x \in S : \A y \in S : x <= y
<1>1. \E x \in S : \A y \in S : ~ (<<y, x>> \in OpToRel(<, Nat))
  BY NatLessThanWellFounded, WFMin, Zenon
<1>2. PICK x \in S : \A y \in S : ~ (<<y, x>> \in OpToRel(<, Nat))
  BY <1>1
<1>3. \A y \in S : ~ (y < x)
  BY <1>2, Zenon DEF OpToRel
<1> QED BY <1>3

\* What holds of 0 and with k < n of k + 1 holds up to n.
LEMMA UpTo ==
    ASSUME NEW n \in Nat, NEW S, 0 \in S,
           \A k \in 0..n : k < n /\ k \in S => k + 1 \in S
    PROVE  0..n \subseteq S
<1> SUFFICES ASSUME (0..n) \ S # {} PROVE FALSE
  OBVIOUS
<1>1. PICK x \in (0..n) \ S : \A y \in (0..n) \ S : x <= y
  <2>1. (0..n) \ S \subseteq Nat
    OBVIOUS
  <2> QED BY <2>1, Least
<1>2. x # 0 /\ x - 1 \in 0..n /\ x - 1 \in S /\ x - 1 < n
  BY <1>1
<1> QED BY <1>1, <1>2

-----------------------------------------------------------------------------
(* The parser.                                                             *)

\* f lists the states from p through the first n elements.
Runs(p, elements, n, f) ==
    f = [k \in 0..n |-> IF k = 0 THEN p ELSE StartElementHandler(f[k - 1], elements[k])]

\* There are such states: the recursive function of Parsed is defined.
LEMMA RunExists ==
    ASSUME NEW p, NEW s, NEW n \in Nat
    PROVE  \E f : Runs(p, s, n, f)
<1> DEFINE S == {k \in 0..n : \E f : Runs(p, s, k, f)}
<1>1. 0 \in S
  <2>1. Runs(p, s, 0, [k \in 0..0 |-> p])
    BY DEF Runs
  <2> QED BY <2>1
<1>2. ASSUME NEW k \in 0..n, k < n, k \in S
      PROVE  k + 1 \in S
  <2>1. PICK f : Runs(p, s, k, f)
    BY <1>2
  <2>2. PICK v : v = StartElementHandler(f[k], s[k + 1])
    OBVIOUS
  <2>3. PICK g : g = [j \in 0..(k + 1) |-> IF j = k + 1 THEN v ELSE f[j]]
    OBVIOUS
  <2>4. \A j \in 0..(k + 1) :
            g[j] = IF j = 0 THEN p ELSE StartElementHandler(g[j - 1], s[j])
    <3> SUFFICES ASSUME NEW j \in 0..(k + 1)
                 PROVE  g[j] = IF j = 0 THEN p ELSE StartElementHandler(g[j - 1], s[j])
      OBVIOUS
    <3>1. CASE j = k + 1
      <4>1. g[j] = v /\ j - 1 = k /\ j # 0 /\ g[k] = f[k]
        BY <3>1, <2>3
      <4> QED BY <4>1, <3>1, <2>2
    <3>2. CASE j # k + 1
      <4>1. j \in 0..k /\ g[j] = f[j] /\ (j # 0 => g[j - 1] = f[j - 1])
        BY <3>2, <2>3
      <4> QED BY <4>1, <2>1 DEF Runs
    <3> QED BY <3>1, <3>2
  <2>5. Runs(p, s, k + 1, g)
    <3>1. g = [j \in 0..(k + 1) |-> g[j]]
      BY <2>3
    <3> QED BY <3>1, <2>4 DEF Runs
  <2> QED BY <2>5, <1>2
<1>3. n \in S
  <2> HIDE DEF S
  <2>1. 0..n \subseteq S
    BY <1>1, <1>2, UpTo
  <2> QED BY <2>1
<1> QED BY <1>3

\* What the parser computes is the last of such states.
LEMMA ParsedRuns ==
    ASSUME NEW p, NEW s, Len(s) \in Nat
    PROVE  \E f : Runs(p, s, Len(s), f) /\ Parsed(p, s) = f[Len(s)]
<1>1. PICK f : f = CHOOSE g : Runs(p, s, Len(s), g)
  OBVIOUS
<1>2. Runs(p, s, Len(s), f)
  BY <1>1, RunExists
<1>3. Parsed(p, s) = f[Len(s)]
  BY <1>1 DEF Runs, Parsed
<1> QED BY <1>2, <1>3

\* The parser on no element, on one, and on elements after others.
LEMMA ParsedNone == ASSUME NEW p PROVE Parsed(p, <<>>) = p
BY ParsedRuns DEF Runs

LEMMA ParsedOne == ASSUME NEW p, NEW e PROVE Parsed(p, <<e>>) = StartElementHandler(p, e)
<1>1. PICK s : s = <<e>>
  OBVIOUS
<1>2. Len(s) = 1 /\ s[1] = e
  BY <1>1
<1>3. PICK f : Runs(p, s, 1, f) /\ Parsed(p, s) = f[1]
  BY <1>2, ParsedRuns
<1>4. f[0] = p /\ f[1] = StartElementHandler(f[0], s[1])
  BY <1>3 DEF Runs
<1> QED BY <1>1, <1>2, <1>3, <1>4

LEMMA ParsedConcat ==
    ASSUME NEW p, NEW U, NEW s \in Seq(U), NEW t \in Seq(U)
    PROVE  Parsed(p, s \o t) = Parsed(Parsed(p, s), t)
<1>0. PICK u, q, m, n : u = s \o t /\ q = Parsed(p, s) /\ m = Len(s) /\ n = Len(t)
  OBVIOUS
<1>1. /\ m \in Nat /\ n \in Nat /\ Len(u) = m + n
      /\ \A k \in 1..m : u[k] = s[k]
      /\ \A k \in 1..n : u[m + k] = t[k]
  BY <1>0
<1>2. PICK f : Runs(p, s, m, f) /\ q = f[m]
  BY <1>0, <1>1, ParsedRuns
<1>3. PICK g : Runs(q, t, n, g) /\ Parsed(q, t) = g[n]
  BY <1>0, <1>1, ParsedRuns
<1>4. PICK h : Runs(p, u, m + n, h) /\ Parsed(p, u) = h[m + n]
  BY <1>1, ParsedRuns
<1>5. h[m] = f[m]
  <2> DEFINE S == {k \in 0..m : h[k] = f[k]}
  <2>1. 0 \in S
    BY <1>1, <1>2, <1>4 DEF Runs
  <2>2. ASSUME NEW k \in 0..m, k < m, k \in S
        PROVE  k + 1 \in S
    <3>1. /\ f[k + 1] = StartElementHandler(f[k], s[k + 1])
          /\ h[k + 1] = StartElementHandler(h[k], u[k + 1])
      BY <1>1, <1>2, <1>4, <2>2 DEF Runs
    <3>2. u[k + 1] = s[k + 1]
      BY <1>1, <2>2
    <3> QED BY <3>1, <3>2, <2>2, <1>1
  <2>3. 0..m \subseteq S
    <3> HIDE DEF S
    <3> QED BY <1>1, <2>1, <2>2, UpTo
  <2> QED BY <2>3, <1>1
<1>6. h[m + n] = g[n]
  <2> DEFINE S == {k \in 0..n : h[m + k] = g[k]}
  <2>1. 0 \in S
    BY <1>1, <1>2, <1>3, <1>5 DEF Runs
  <2>2. ASSUME NEW k \in 0..n, k < n, k \in S
        PROVE  k + 1 \in S
    <3>1. g[k + 1] = StartElementHandler(g[k], t[k + 1])
      BY <1>1, <1>3, <2>2 DEF Runs
    <3>2. h[m + (k + 1)] = StartElementHandler(h[m + k], u[m + (k + 1)])
      <4>0. \A j \in 0..(m + n) : j # 0 => h[j] = StartElementHandler(h[j - 1], u[j])
        BY <1>4 DEF Runs
      <4>1. PICK j : j = m + (k + 1)
        OBVIOUS
      <4>2. j \in 0..(m + n) /\ j # 0 /\ j - 1 = m + k
        BY <4>1, <1>1, <2>2
      <4> QED BY <4>0, <4>1, <4>2
    <3>3. u[m + (k + 1)] = t[k + 1]
      BY <1>1, <2>2
    <3> QED BY <3>1, <3>2, <3>3, <2>2, <1>1
  <2>3. 0..n \subseteq S
    <3> HIDE DEF S
    <3> QED BY <1>1, <2>1, <2>2, UpTo
  <2> QED BY <2>3, <1>1
<1> QED BY <1>0, <1>3, <1>4, <1>6

-----------------------------------------------------------------------------
(* Single elements.                                                        *)

\* Where the parser is: in interface i, of which it has d, after the objects o.
At(o, i, d, c, m) == [class |-> c, interface |-> i, member |-> m, obj |-> With(o, i, d)]

\* What it has of an interface: methods, properties and signals.
Known(M, P, S) == [method |-> M, property |-> P, signal |-> S]

LEMMA WithSame == ASSUME NEW f, NEW x, NEW v PROVE With(f, x, v)[x] = v
BY DEF With

LEMMA WithExcept ==
    ASSUME NEW f, NEW x, NEW v, NEW w
    PROVE  [With(f, x, v) EXCEPT ![x] = w] = With(f, x, w)
BY DEF With

\* A function restricted to E grows by x.
LEMMA WithNext ==
    ASSUME NEW g, NEW E, NEW x
    PROVE  With(Restrict(g, E), x, g[x]) = Restrict(g, E \cup {x})
BY DEF With, Restrict

LEMMA RestrictNone == ASSUME NEW g PROVE Restrict(g, {}) = Absent
BY DEF Restrict, Absent

\* Steps within interface i: of a member, of a property, of an argument.
Entered(p, i, e, b, n) == [p EXCEPT !.obj[i] = e, !.class = b, !.member = n]
Classed(p, i, e, b) == [p EXCEPT !.obj[i] = e, !.class = b]
Extended(p, i, e) == [p EXCEPT !.obj[i] = e]

LEMMA AtEntered ==
    ASSUME NEW o, NEW i, NEW d, NEW e, NEW c, NEW m, NEW b, NEW n, NEW p, p = At(o, i, d, c, m)
    PROVE  Entered(p, i, e, b, n) = At(o, i, e, b, n)
<1>1. p.obj = With(o, i, d)
  BY DEF At
<1>2. PICK f : f = With(o, i, e)
  OBVIOUS
<1>3. [p.obj EXCEPT ![i] = e] = f
  BY <1>1, <1>2, WithExcept
<1>4. Entered(p, i, e, b, n) = [p EXCEPT !.obj = f, !.class = b, !.member = n]
  <2>1. Entered(p, i, e, b, n)
          = [p EXCEPT !.obj = [p.obj EXCEPT ![i] = e], !.class = b, !.member = n]
    BY DEF Entered
  <2> QED BY <2>1, <1>3
<1>5. PICK q : q = [p EXCEPT !.obj = f, !.class = b, !.member = n]
  OBVIOUS
<1>6. q = [class |-> b, interface |-> i, member |-> n, obj |-> f]
  BY <1>5 DEF At
<1> QED BY <1>2, <1>4, <1>5, <1>6 DEF At

LEMMA AtClassed ==
    ASSUME NEW o, NEW i, NEW d, NEW e, NEW c, NEW m, NEW b, NEW p, p = At(o, i, d, c, m)
    PROVE  Classed(p, i, e, b) = At(o, i, e, b, m)
<1>1. p.obj = With(o, i, d)
  BY DEF At
<1>2. PICK f : f = With(o, i, e)
  OBVIOUS
<1>3. [p.obj EXCEPT ![i] = e] = f
  BY <1>1, <1>2, WithExcept
<1>4. Classed(p, i, e, b) = [p EXCEPT !.obj = f, !.class = b]
  <2>1. Classed(p, i, e, b) = [p EXCEPT !.obj = [p.obj EXCEPT ![i] = e], !.class = b]
    BY DEF Classed
  <2> QED BY <2>1, <1>3
<1>5. PICK q : q = [p EXCEPT !.obj = f, !.class = b]
  OBVIOUS
<1>6. q = [class |-> b, interface |-> i, member |-> m, obj |-> f]
  BY <1>5 DEF At
<1> QED BY <1>2, <1>4, <1>5, <1>6 DEF At

LEMMA AtExtended ==
    ASSUME NEW o, NEW i, NEW d, NEW e, NEW c, NEW m, NEW p, p = At(o, i, d, c, m)
    PROVE  Extended(p, i, e) = At(o, i, e, c, m)
<1>1. p.obj = With(o, i, d)
  BY DEF At
<1>2. PICK f : f = With(o, i, e)
  OBVIOUS
<1>3. [p.obj EXCEPT ![i] = e] = f
  BY <1>1, <1>2, WithExcept
<1>4. Extended(p, i, e) = [p EXCEPT !.obj = f]
  <2>1. Extended(p, i, e) = [p EXCEPT !.obj = [p.obj EXCEPT ![i] = e]]
    BY DEF Extended
  <2> QED BY <2>1, <1>3
<1>5. PICK q : q = [p EXCEPT !.obj = f]
  OBVIOUS
<1>6. q = [class |-> c, interface |-> i, member |-> m, obj |-> f]
  BY <1>5 DEF At
<1> QED BY <1>2, <1>4, <1>5, <1>6 DEF At

\* A member is entered, without arguments; a property leaves the member as it was.
LEMMA MethodElement ==
    ASSUME NEW o, NEW i, NEW M, NEW P, NEW S, NEW c, NEW m, NEW x
    PROVE  StartElementHandler(At(o, i, Known(M, P, S), c, m), [tag |-> "method", name |-> x])
             = At(o, i, Known(With(M, x, [in |-> <<>>, out |-> <<>>]), P, S), "method", x)
<1>1. PICK p, e, d, n, N :
        /\ p = At(o, i, d, c, m) /\ d = Known(M, P, S)
        /\ e = [tag |-> "method", name |-> x]
        /\ n = Known(N, P, S) /\ N = With(M, x, [in |-> <<>>, out |-> <<>>])
  OBVIOUS
<1>2. p.obj[i] = d /\ p.interface = i
  BY <1>1, WithSame DEF At
<1>3. StartElementHandler(p, e) = Method(p, e) /\ e.name = x
  BY <1>1 DEF StartElementHandler
<1>4. [p.obj[i] EXCEPT !.method = N] = n
  BY <1>1, <1>2 DEF Known
<1>5. p.obj[i].method = M
  BY <1>1, <1>2 DEF Known
<1>6. Method(p, e) = Entered(p, i, n, "method", x)
  <2>1. Method(p, e)
          = [p EXCEPT !.obj[i] = [p.obj[i] EXCEPT !.method =
                            With(p.obj[i].method, e.name, [in |-> <<>>, out |-> <<>>])],
                      !.class = "method", !.member = e.name]
    BY <1>2 DEF Method
  <2>2. With(p.obj[i].method, e.name, [in |-> <<>>, out |-> <<>>]) = N
    BY <1>1, <1>3, <1>5
  <2> QED BY <2>1, <2>2, <1>3, <1>4 DEF Entered
<1>7. Method(p, e) = At(o, i, n, "method", x)
  BY <1>1, <1>6, AtEntered
<1> QED BY <1>1, <1>3, <1>7

LEMMA SignalElement ==
    ASSUME NEW o, NEW i, NEW M, NEW P, NEW S, NEW c, NEW m, NEW x
    PROVE  StartElementHandler(At(o, i, Known(M, P, S), c, m), [tag |-> "signal", name |-> x])
             = At(o, i, Known(M, P, With(S, x, <<>>)), "signal", x)
<1>1. PICK p, e, d, n, N :
        /\ p = At(o, i, d, c, m) /\ d = Known(M, P, S)
        /\ e = [tag |-> "signal", name |-> x]
        /\ n = Known(M, P, N) /\ N = With(S, x, <<>>)
  OBVIOUS
<1>2. p.obj[i] = d /\ p.interface = i
  BY <1>1, WithSame DEF At
<1>3. StartElementHandler(p, e) = Signal(p, e) /\ e.name = x
  BY <1>1 DEF StartElementHandler
<1>4. [p.obj[i] EXCEPT !.signal = N] = n
  BY <1>1, <1>2 DEF Known
<1>5. p.obj[i].signal = S
  BY <1>1, <1>2 DEF Known
<1>6. Signal(p, e) = Entered(p, i, n, "signal", x)
  <2>1. Signal(p, e)
          = [p EXCEPT !.obj[i] = [p.obj[i] EXCEPT !.signal =
                                     With(p.obj[i].signal, e.name, <<>>)],
                      !.class = "signal", !.member = e.name]
    BY <1>2 DEF Signal
  <2>2. With(p.obj[i].signal, e.name, <<>>) = N
    BY <1>1, <1>3, <1>5
  <2> QED BY <2>1, <2>2, <1>3, <1>4 DEF Entered
<1>7. Signal(p, e) = At(o, i, n, "signal", x)
  BY <1>1, <1>6, AtEntered
<1> QED BY <1>1, <1>3, <1>7

LEMMA PropertyElement ==
    ASSUME NEW o, NEW i, NEW M, NEW P, NEW S, NEW c, NEW m, NEW x, NEW t, NEW a
    PROVE  StartElementHandler(At(o, i, Known(M, P, S), c, m),
                               [tag |-> "property", name |-> x, type |-> t, access |-> a])
             = At(o, i, Known(M, With(P, x, [type |-> t, access |-> a]), S), "property", m)
<1>1. PICK p, e, d, n, N :
        /\ p = At(o, i, d, c, m) /\ d = Known(M, P, S)
        /\ e = [tag |-> "property", name |-> x, type |-> t, access |-> a]
        /\ n = Known(M, N, S) /\ N = With(P, x, [type |-> t, access |-> a])
  OBVIOUS
<1>2. p.obj[i] = d /\ p.interface = i
  BY <1>1, WithSame DEF At
<1>3. StartElementHandler(p, e) = Property(p, e) /\ e.name = x /\ e.type = t /\ e.access = a
  BY <1>1 DEF StartElementHandler
<1>4. [p.obj[i] EXCEPT !.property = N] = n
  BY <1>1, <1>2 DEF Known
<1>5. p.obj[i].property = P
  BY <1>1, <1>2 DEF Known
<1>6. Property(p, e) = Classed(p, i, n, "property")
  <2>1. Property(p, e)
          = [p EXCEPT !.obj[i] = [p.obj[i] EXCEPT !.property =
                    With(p.obj[i].property, e.name, [type |-> e.type, access |-> e.access])],
                      !.class = "property"]
    BY <1>2 DEF Property
  <2>2. With(p.obj[i].property, e.name, [type |-> e.type, access |-> e.access]) = N
    BY <1>1, <1>3, <1>5
  <2> QED BY <2>1, <2>2, <1>4 DEF Classed
<1>7. Property(p, e) = At(o, i, n, "property", m)
  BY <1>1, <1>6, AtClassed
<1> QED BY <1>1, <1>3, <1>7

\* An argument is added to the method it is in, on its side, or to the signal.
LEMMA InElement ==
    ASSUME NEW o, NEW i, NEW M, NEW P, NEW S, NEW x, NEW l, NEW k, NEW t
    PROVE  StartElementHandler(
             At(o, i, Known(With(M, x, [in |-> l, out |-> k]), P, S), "method", x),
             [tag |-> "arg", direction |-> "in", type |-> t])
             = At(o, i, Known(With(M, x, [in |-> Append(l, t), out |-> k]), P, S), "method", x)
<1>0. PICK v : v = Append(l, t)
  OBVIOUS
<1>1. PICK p, e, d, n, N, L :
        /\ p = At(o, i, d, "method", x) /\ d = Known(With(M, x, [in |-> l, out |-> k]), P, S)
        /\ e = [tag |-> "arg", direction |-> "in", type |-> t]
        /\ n = Known(N, P, S) /\ N = With(M, x, L) /\ L = [in |-> v, out |-> k]
  OBVIOUS
<1>2. p.obj[i] = d /\ p.interface = i /\ p.member = x /\ p.class = "method"
  BY <1>1, WithSame DEF At
<1>3. /\ e.type = t /\ e.direction = "in"
      /\ StartElementHandler(p, e) =
            [p EXCEPT !.obj[p.interface].method[p.member].in = Append(@, e.type)]
  BY <1>1, <1>2 DEF StartElementHandler, Arg
<1>4. d.method = With(M, x, [in |-> l, out |-> k])
  BY <1>1 DEF Known
<1>5. d.method[x] = [in |-> l, out |-> k]
  BY <1>4, WithSame
<1>6. [d.method[x] EXCEPT !.in = v] = L
  BY <1>1, <1>5
<1>7. [d.method EXCEPT ![x] = L] = N
  BY <1>1, <1>4, WithExcept
<1>8. [p.obj[i] EXCEPT !.method = N] = n
  BY <1>1, <1>2 DEF Known
<1>9. StartElementHandler(p, e) = Extended(p, i, n)
  <2>1. StartElementHandler(p, e)
          = [p EXCEPT !.obj[i] = [d EXCEPT !.method = [d.method EXCEPT ![x] =
                                     [d.method[x] EXCEPT !.in = Append(d.method[x].in, t)]]]]
    BY <1>2, <1>3
  <2>2. Append(d.method[x].in, t) = v
    BY <1>0, <1>5
  <2> QED BY <2>1, <2>2, <1>2, <1>6, <1>7, <1>8 DEF Extended
<1>10. Extended(p, i, n) = At(o, i, n, "method", x)
  BY <1>1, AtExtended
<1> QED BY <1>0, <1>1, <1>9, <1>10

LEMMA OutElement ==
    ASSUME NEW o, NEW i, NEW M, NEW P, NEW S, NEW x, NEW l, NEW k, NEW t
    PROVE  StartElementHandler(
             At(o, i, Known(With(M, x, [in |-> l, out |-> k]), P, S), "method", x),
             [tag |-> "arg", direction |-> "out", type |-> t])
             = At(o, i, Known(With(M, x, [in |-> l, out |-> Append(k, t)]), P, S), "method", x)
<1>0. PICK v : v = Append(k, t)
  OBVIOUS
<1>1. PICK p, e, d, n, N, L :
        /\ p = At(o, i, d, "method", x) /\ d = Known(With(M, x, [in |-> l, out |-> k]), P, S)
        /\ e = [tag |-> "arg", direction |-> "out", type |-> t]
        /\ n = Known(N, P, S) /\ N = With(M, x, L) /\ L = [in |-> l, out |-> v]
  OBVIOUS
<1>2. p.obj[i] = d /\ p.interface = i /\ p.member = x /\ p.class = "method"
  BY <1>1, WithSame DEF At
<1>3. /\ e.type = t /\ e.direction # "in"
      /\ StartElementHandler(p, e) =
            [p EXCEPT !.obj[p.interface].method[p.member].out = Append(@, e.type)]
  BY <1>1, <1>2 DEF StartElementHandler, Arg
<1>4. d.method = With(M, x, [in |-> l, out |-> k])
  BY <1>1 DEF Known
<1>5. d.method[x] = [in |-> l, out |-> k]
  BY <1>4, WithSame
<1>6. [d.method[x] EXCEPT !.out = v] = L
  BY <1>1, <1>5
<1>7. [d.method EXCEPT ![x] = L] = N
  BY <1>1, <1>4, WithExcept
<1>8. [p.obj[i] EXCEPT !.method = N] = n
  BY <1>1, <1>2 DEF Known
<1>9. StartElementHandler(p, e) = Extended(p, i, n)
  <2>1. StartElementHandler(p, e)
          = [p EXCEPT !.obj[i] = [d EXCEPT !.method = [d.method EXCEPT ![x] =
                                     [d.method[x] EXCEPT !.out = Append(d.method[x].out, t)]]]]
    BY <1>2, <1>3
  <2>2. Append(d.method[x].out, t) = v
    BY <1>0, <1>5
  <2> QED BY <2>1, <2>2, <1>2, <1>6, <1>7, <1>8 DEF Extended
<1>10. Extended(p, i, n) = At(o, i, n, "method", x)
  BY <1>1, AtExtended
<1> QED BY <1>0, <1>1, <1>9, <1>10

LEMMA SignalArgument ==
    ASSUME NEW o, NEW i, NEW M, NEW P, NEW S, NEW x, NEW l, NEW t
    PROVE  StartElementHandler(At(o, i, Known(M, P, With(S, x, l)), "signal", x),
                               [tag |-> "arg", direction |-> None, type |-> t])
             = At(o, i, Known(M, P, With(S, x, Append(l, t))), "signal", x)
<1>0. PICK v : v = Append(l, t)
  OBVIOUS
<1>1. PICK p, e, d, n, N :
        /\ p = At(o, i, d, "signal", x) /\ d = Known(M, P, With(S, x, l))
        /\ e = [tag |-> "arg", direction |-> None, type |-> t]
        /\ n = Known(M, P, N) /\ N = With(S, x, v)
  OBVIOUS
<1>2. p.obj[i] = d /\ p.interface = i /\ p.member = x /\ p.class = "signal"
  BY <1>1, WithSame DEF At
<1>3. /\ e.type = t
      /\ StartElementHandler(p, e) =
            [p EXCEPT !.obj[p.interface].signal[p.member] = Append(@, e.type)]
  BY <1>1, <1>2 DEF StartElementHandler, Arg
<1>4. d.signal = With(S, x, l)
  BY <1>1 DEF Known
<1>5. d.signal[x] = l
  BY <1>4, WithSame
<1>6. [d.signal EXCEPT ![x] = v] = N
  BY <1>1, <1>4, WithExcept
<1>7. [p.obj[i] EXCEPT !.signal = N] = n
  BY <1>1, <1>2 DEF Known
<1>8. StartElementHandler(p, e) = Extended(p, i, n)
  <2>1. StartElementHandler(p, e)
          = [p EXCEPT !.obj[i] = [d EXCEPT !.signal =
                                     [d.signal EXCEPT ![x] = Append(d.signal[x], t)]]]
    BY <1>2, <1>3
  <2>2. Append(d.signal[x], t) = v
    BY <1>0, <1>5
  <2> QED BY <2>1, <2>2, <1>2, <1>6, <1>7 DEF Extended
<1>9. Extended(p, i, n) = At(o, i, n, "signal", x)
  BY <1>1, AtExtended
<1> QED BY <1>0, <1>1, <1>8, <1>9

\* The start of an interface leaves the class and the member as they were.
LEMMA InterfaceElement ==
    ASSUME NEW c, NEW a, NEW b, NEW o, NEW i
    PROVE  StartElementHandler([class |-> c, interface |-> a, member |-> b, obj |-> o],
                               [tag |-> "interface", name |-> i])
             = At(o, i, Known(Absent, Absent, Absent), c, b)
<1>1. PICK p, e : /\ p = [class |-> c, interface |-> a, member |-> b, obj |-> o]
                  /\ e = [tag |-> "interface", name |-> i]
  OBVIOUS
<1>2. PICK n : n = With(o, i, Empty)
  OBVIOUS
<1>3. StartElementHandler(p, e) = [p EXCEPT !.obj = n, !.interface = i]
  BY <1>1, <1>2 DEF StartElementHandler, Interface
<1>4. PICK q : q = [p EXCEPT !.obj = n, !.interface = i]
  OBVIOUS
<1>5. q = [class |-> c, interface |-> i, member |-> b, obj |-> n]
  BY <1>1, <1>4
<1> QED BY <1>1, <1>2, <1>3, <1>4, <1>5 DEF At, Known, Empty

\* A node that is not the outermost one changes nothing.
LEMMA NodeElement ==
    ASSUME NEW p, p.class # "none", NEW x
    PROVE  StartElementHandler(p, [tag |-> "node", name |-> x]) = p
BY DEF StartElementHandler, Node

LEMMA RootElement ==
    ASSUME NEW x
    PROVE  StartElementHandler(Nothing, [tag |-> "node", name |-> x])
             = [class |-> "root", interface |-> None, member |-> None, obj |-> Absent]
<1>1. PICK q : q = [Nothing EXCEPT !.obj = Absent, !.class = "root"]
  OBVIOUS
<1>2. q = [class |-> "root", interface |-> None, member |-> None, obj |-> Absent]
  BY <1>1 DEF Nothing
<1> QED BY <1>1, <1>2 DEF StartElementHandler, Node, Nothing

-----------------------------------------------------------------------------
(* The texts of members.                                                   *)

\* The elements of a document.
Element ==
    [tag : {"node"}, name : Children \cup {None}]
    \cup [tag : {"interface"}, name : Interfaces]
    \cup [tag : {"method", "signal"}, name : Members]
    \cup [tag : {"property"}, name : Members, type : Types \cup {"undefined"},
          access : {"read", "readwrite"}]
    \cup [tag : {"arg"}, direction : {"in", "out", None}, type : Types \cup {"undefined"}]

\* The first k of a list.
First(list, k) == [j \in 1..k |-> list[j]]

LEMMA FirstNext ==
    ASSUME NEW T, NEW list \in Seq(T), NEW k \in 0..Len(list), k < Len(list)
    PROVE  First(list, k + 1) = Append(First(list, k), list[k + 1])
<1>1. First(list, k) \in Seq(T) /\ Len(First(list, k)) = k
  BY DEF First
<1>2. PICK s : s = First(list, k)
  OBVIOUS
<1>3. Append(s, list[k + 1]) = [j \in 1..(k + 1) |-> IF j <= k THEN s[j] ELSE list[k + 1]]
  BY <1>1, <1>2
<1>4. \A j \in 1..(k + 1) : (IF j <= k THEN s[j] ELSE list[k + 1]) = list[j]
  BY <1>2 DEF First
<1> QED BY <1>2, <1>3, <1>4 DEF First

LEMMA FirstAll ==
    ASSUME NEW T, NEW list \in Seq(T)
    PROVE  First(list, Len(list)) = list /\ First(list, 0) = <<>>
BY DEF First

LEMMA ArgumentsElements ==
    ASSUME NEW list \in Seq(Types \cup {None, List}), NEW direction \in {"in", "out", None}
    PROVE  /\ Arguments(list, direction) \in Seq(Element)
           /\ Len(Arguments(list, direction)) = Len(list)
           /\ \A k \in 1..Len(list) :
                 Arguments(list, direction)[k]
                   = [tag |-> "arg", direction |-> direction, type |-> TypeOf(list[k])]
<1>1. \A t : TypeOf(t) \in Types \cup {"undefined"}
  BY DEF TypeOf
<1>2. PICK a : a = [k \in 1..Len(list) |->
                      [tag |-> "arg", direction |-> direction, type |-> TypeOf(list[k])]]
  OBVIOUS
<1>3. Arguments(list, direction) = a
  BY <1>2 DEF Arguments
<1>4. \A k \in 1..Len(list) : a[k] \in Element
  BY <1>1, <1>2 DEF Element
<1>5. a \in Seq(Element) /\ Len(a) = Len(list)
  BY <1>2, <1>4
<1> QED BY <1>2, <1>3, <1>5

\* The arguments of a method, and those of a signal, are kept in their order.
LEMMA ArgumentsIn ==
    ASSUME NEW o, NEW i, NEW M, NEW P, NEW S, NEW x, NEW k, NEW list \in Seq(Types)
    PROVE  Parsed(At(o, i, Known(With(M, x, [in |-> <<>>, out |-> k]), P, S), "method", x),
                  Arguments(list, "in"))
             = At(o, i, Known(With(M, x, [in |-> list, out |-> k]), P, S), "method", x)
<1> DEFINE State(l) == At(o, i, Known(With(M, x, [in |-> l, out |-> k]), P, S), "method", x)
<1>1. PICK a, n : a = Arguments(list, "in") /\ n = Len(list)
  OBVIOUS
<1>2. /\ n \in Nat /\ Len(a) = n
      /\ \A j \in 1..n : a[j] = [tag |-> "arg", direction |-> "in", type |-> list[j]]
  <2>1. list \in Seq(Types \cup {None, List})
    OBVIOUS
  <2>2. \A j \in 1..Len(list) : TypeOf(list[j]) = list[j]
    BY DEF TypeOf
  <2> QED BY <1>1, <2>1, <2>2, ArgumentsElements
<1>3. PICK f : Runs(State(<<>>), a, n, f) /\ Parsed(State(<<>>), a) = f[n]
  BY <1>2, ParsedRuns
<1> DEFINE G == {j \in 0..n : f[j] = State(First(list, j))}
<1>4. 0 \in G
  BY <1>2, <1>3, FirstAll DEF Runs
<1>5. ASSUME NEW j \in 0..n, j < n, j \in G
      PROVE  j + 1 \in G
  <2>1. f[j + 1] = StartElementHandler(f[j], a[j + 1])
    BY <1>2, <1>3, <1>5 DEF Runs
  <2>2. f[j + 1] = State(Append(First(list, j), list[j + 1]))
    <3>1. a[j + 1] = [tag |-> "arg", direction |-> "in", type |-> list[j + 1]]
      BY <1>2, <1>5
    <3> QED BY <2>1, <3>1, <1>5, InElement
  <2>3. Append(First(list, j), list[j + 1]) = First(list, j + 1)
    BY <1>1, <1>5, FirstNext
  <2> QED BY <2>2, <2>3, <1>2, <1>5
<1>6. n \in G
  <2> HIDE DEF G
  <2>1. 0..n \subseteq G
    BY <1>2, <1>4, <1>5, UpTo
  <2> QED BY <2>1, <1>2
<1> QED BY <1>1, <1>3, <1>6, FirstAll

LEMMA ArgumentsOfSignal ==
    ASSUME NEW o, NEW i, NEW M, NEW P, NEW S, NEW x, NEW list \in Seq(Types)
    PROVE  Parsed(At(o, i, Known(M, P, With(S, x, <<>>)), "signal", x),
                  Arguments(list, None))
             = At(o, i, Known(M, P, With(S, x, list)), "signal", x)
<1> DEFINE State(l) == At(o, i, Known(M, P, With(S, x, l)), "signal", x)
<1>1. PICK a, n : a = Arguments(list, None) /\ n = Len(list)
  OBVIOUS
<1>2. /\ n \in Nat /\ Len(a) = n
      /\ \A j \in 1..n : a[j] = [tag |-> "arg", direction |-> None, type |-> list[j]]
  <2>1. list \in Seq(Types \cup {None, List})
    OBVIOUS
  <2>2. \A j \in 1..Len(list) : TypeOf(list[j]) = list[j]
    BY DEF TypeOf
  <2> QED BY <1>1, <2>1, <2>2, ArgumentsElements
<1>3. PICK f : Runs(State(<<>>), a, n, f) /\ Parsed(State(<<>>), a) = f[n]
  BY <1>2, ParsedRuns
<1> DEFINE G == {j \in 0..n : f[j] = State(First(list, j))}
<1>4. 0 \in G
  BY <1>2, <1>3, FirstAll DEF Runs
<1>5. ASSUME NEW j \in 0..n, j < n, j \in G
      PROVE  j + 1 \in G
  <2>1. f[j + 1] = StartElementHandler(f[j], a[j + 1])
    BY <1>2, <1>3, <1>5 DEF Runs
  <2>2. f[j + 1] = State(Append(First(list, j), list[j + 1]))
    <3>1. a[j + 1] = [tag |-> "arg", direction |-> None, type |-> list[j + 1]]
      BY <1>2, <1>5
    <3> QED BY <2>1, <3>1, <1>5, SignalArgument
  <2>3. Append(First(list, j), list[j + 1]) = First(list, j + 1)
    BY <1>1, <1>5, FirstNext
  <2> QED BY <2>2, <2>3, <1>2, <1>5
<1>6. n \in G
  <2> HIDE DEF G
  <2>1. 0..n \subseteq G
    BY <1>2, <1>4, <1>5, UpTo
  <2> QED BY <2>1, <1>2
<1> QED BY <1>1, <1>3, <1>6, FirstAll

\* What is declared of a method and of a property.
MethodTypes == [in : Lists, out : Types \cup {None, List}]
PropertyTypes ==
    {p \in [type : Types \cup {None}, access : {"read", "readwrite"}, setter : BOOLEAN] :
        p.access = Access(p.setter)}

\* What is described of a method and of a property.
OfMethod(v) ==
    [in |-> v.in, out |-> IF v.out = None THEN <<>> ELSE <<TypeOf(v.out)>>]
OfProperty(v) ==
    [type |-> TypeOf(v.type), access |-> IF v.setter THEN "readwrite" ELSE "read"]

LEMMA ElementSeq ==
    ASSUME NEW e \in Element
    PROVE  <<e>> \in Seq(Element)
OBVIOUS

\* The parser takes from the text of a member what is described of the member, and
\* nothing else changes in the interface.
LEMMA MethodParsed ==
    ASSUME NEW iface, NEW x \in Members, iface.method[x] \in MethodTypes
    PROVE  /\ MethodText(iface, x) \in Seq(Element)
           /\ \A o, i, M, P, S, c, m :
                Parsed(At(o, i, Known(M, P, S), c, m), MethodText(iface, x))
                  = At(o, i, Known(With(M, x, OfMethod(iface.method[x])), P, S), "method", x)
<1>1. PICK v, h, a, b :
        /\ v = iface.method[x] /\ h = <<[tag |-> "method", name |-> x]>>
        /\ a = Arguments(v.in, "in")
        /\ b = IF v.out = None THEN <<>> ELSE Arguments(<<v.out>>, "out")
  OBVIOUS
<1>2. v.in \in Seq(Types) /\ v.out \in Types \cup {None, List}
  BY <1>1, ListsAssumption DEF MethodTypes
<1>3. h \in Seq(Element)
  <2>1. [tag |-> "method", name |-> x] \in Element
    BY DEF Element
  <2> QED BY <1>1, <2>1, ElementSeq
<1>4. a \in Seq(Element)
  <2>1. v.in \in Seq(Types \cup {None, List})
    BY <1>2
  <2> QED BY <1>1, <2>1, ArgumentsElements
<1>5. b \in Seq(Element)
  <2>1. <<v.out>> \in Seq(Types \cup {None, List})
    BY <1>2
  <2>2. <<>> \in Seq(Element)
    OBVIOUS
  <2> QED BY <1>1, <2>1, <2>2, ArgumentsElements
<1>6. MethodText(iface, x) = (h \o a) \o b
  BY <1>1 DEF MethodText
<1>7. h \o a \in Seq(Element) /\ (h \o a) \o b \in Seq(Element)
  BY <1>3, <1>4, <1>5
<1>8. ASSUME NEW o, NEW i, NEW M, NEW P, NEW S, NEW c, NEW m
      PROVE  Parsed(At(o, i, Known(M, P, S), c, m), MethodText(iface, x))
               = At(o, i, Known(With(M, x, OfMethod(v)), P, S), "method", x)
  <2>1. PICK p, q, r, s :
          /\ p = At(o, i, Known(M, P, S), c, m)
          /\ q = At(o, i, Known(With(M, x, [in |-> <<>>, out |-> <<>>]), P, S), "method", x)
          /\ r = At(o, i, Known(With(M, x, [in |-> v.in, out |-> <<>>]), P, S), "method", x)
          /\ s = At(o, i, Known(With(M, x, OfMethod(v)), P, S), "method", x)
    OBVIOUS
  <2>2. Parsed(p, h) = q
    BY <1>1, <2>1, ParsedOne, MethodElement
  <2>3. Parsed(q, a) = r
    BY <1>1, <1>2, <2>1, ArgumentsIn
  <2>4. Parsed(r, b) = s
    <3>1. CASE v.out = None
      <4>1. OfMethod(v) = [in |-> v.in, out |-> <<>>]
        BY <3>1 DEF OfMethod
      <4> QED BY <4>1, <3>1, <1>1, <2>1, ParsedNone
    <3>2. CASE v.out # None
      <4>1. PICK t : t = TypeOf(v.out)
        OBVIOUS
      <4>2. b = <<[tag |-> "arg", direction |-> "out", type |-> t]>>
        BY <1>1, <3>2, <4>1 DEF Arguments
      <4>3. Append(<<>>, t) = <<t>>
        OBVIOUS
      <4>4. Parsed(r, b)
              = At(o, i, Known(With(M, x, [in |-> v.in, out |-> <<t>>]), P, S), "method", x)
        <5>1. PICK k : k = <<>>
          OBVIOUS
        <5>2. r = At(o, i, Known(With(M, x, [in |-> v.in, out |-> k]), P, S), "method", x)
          BY <2>1, <5>1
        <5>3. Parsed(r, b)
                = StartElementHandler(r, [tag |-> "arg", direction |-> "out", type |-> t])
          BY <4>2, ParsedOne
        <5>4. @ = At(o, i, Known(With(M, x, [in |-> v.in, out |-> Append(k, t)]), P, S),
                     "method", x)
          BY <5>2, OutElement
        <5> QED BY <5>1, <5>3, <5>4, <4>3
      <4>5. OfMethod(v) = [in |-> v.in, out |-> <<t>>]
        BY <3>2, <4>1 DEF OfMethod
      <4> QED BY <4>4, <4>5, <2>1
    <3> QED BY <3>1, <3>2
  <2>5. Parsed(p, h \o a) = r
    BY <2>2, <2>3, <1>3, <1>4, ParsedConcat
  <2>6. Parsed(p, (h \o a) \o b) = s
    <3>1. PICK u : u = h \o a
      OBVIOUS
    <3>2. u \in Seq(Element)
      BY <3>1, <1>7
    <3>3. Parsed(p, u \o b) = Parsed(Parsed(p, u), b)
      BY <3>2, <1>5, ParsedConcat
    <3> QED BY <3>1, <3>3, <2>4, <2>5
  <2> QED BY <2>1, <2>6, <1>6
<1> QED BY <1>1, <1>6, <1>7, <1>8

LEMMA PropertyParsed ==
    ASSUME NEW iface, NEW x \in Members, iface.property[x] \in PropertyTypes
    PROVE  /\ PropertyText(iface, x) \in Seq(Element)
           /\ \A o, i, M, P, S, c, m :
                Parsed(At(o, i, Known(M, P, S), c, m), PropertyText(iface, x))
                  = At(o, i, Known(M, With(P, x, OfProperty(iface.property[x])), S),
                       "property", m)
<1>1. PICK v, t, a, e :
        /\ v = iface.property[x] /\ t = TypeOf(v.type) /\ a = v.access
        /\ e = [tag |-> "property", name |-> x, type |-> t, access |-> a]
  OBVIOUS
<1>2. PropertyText(iface, x) = <<e>>
  BY <1>1 DEF PropertyText
<1>3. OfProperty(v) = [type |-> t, access |-> a] /\ a \in {"read", "readwrite"}
  BY <1>1 DEF OfProperty, PropertyTypes, Access
<1>4. e \in Element
  BY <1>1, <1>3 DEF Element, TypeOf
<1> QED BY <1>1, <1>2, <1>3, <1>4, ElementSeq, ParsedOne, PropertyElement

LEMMA SignalParsed ==
    ASSUME NEW iface, NEW x \in Members, iface.signal[x] \in Lists
    PROVE  /\ SignalText(iface, x) \in Seq(Element)
           /\ \A o, i, M, P, S, c, m :
                Parsed(At(o, i, Known(M, P, S), c, m), SignalText(iface, x))
                  = At(o, i, Known(M, P, With(S, x, iface.signal[x])), "signal", x)
<1>1. PICK v, h, a :
        /\ v = iface.signal[x] /\ h = <<[tag |-> "signal", name |-> x]>>
        /\ a = Arguments(v, None)
  OBVIOUS
<1>2. v \in Seq(Types)
  BY <1>1, ListsAssumption
<1>3. h \in Seq(Element)
  <2>1. [tag |-> "signal", name |-> x] \in Element
    BY DEF Element
  <2> QED BY <1>1, <2>1, ElementSeq
<1>4. a \in Seq(Element)
  <2>1. v \in Seq(Types \cup {None, List})
    BY <1>2
  <2> QED BY <1>1, <2>1, ArgumentsElements
<1>5. SignalText(iface, x) = h \o a /\ h \o a \in Seq(Element)
  BY <1>1, <1>3, <1>4 DEF SignalText
<1>6. ASSUME NEW o, NEW i, NEW M, NEW P, NEW S, NEW c, NEW m
      PROVE  Parsed(At(o, i, Known(M, P, S), c, m), h \o a)
               = At(o, i, Known(M, P, With(S, x, v)), "signal", x)
  <2>1. PICK p, q : /\ p = At(o, i, Known(M, P, S), c, m)
                    /\ q = At(o, i, Known(M, P, With(S, x, <<>>)), "signal", x)
    OBVIOUS
  <2>2. Parsed(p, h) = q
    BY <1>1, <2>1, ParsedOne, SignalElement
  <2>3. Parsed(q, a) = At(o, i, Known(M, P, With(S, x, v)), "signal", x)
    BY <1>1, <1>2, <2>1, ArgumentsOfSignal
  <2>4. Parsed(p, h \o a) = Parsed(Parsed(p, h), a)
    BY <1>3, <1>4, ParsedConcat
  <2> QED BY <2>1, <2>2, <2>3, <2>4
<1> QED BY <1>1, <1>5, <1>6

-----------------------------------------------------------------------------
(* Texts one after the other.                                              *)

\* f lists the concatenations of the first of seqs.
Flattened(seqs, n, f) ==
    f = [k \in 1..n |-> IF k = 1 THEN seqs[k] ELSE f[k - 1] \o seqs[k]]

LEMMA FlattenedExists ==
    ASSUME NEW seqs, NEW n \in Nat
    PROVE  \E f : Flattened(seqs, n, f)
<1> DEFINE S == {k \in 0..n : \E f : Flattened(seqs, k, f)}
<1>1. 0 \in S
  <2>1. Flattened(seqs, 0, [k \in 1..0 |-> seqs[k]])
    BY DEF Flattened
  <2> QED BY <2>1
<1>2. ASSUME NEW k \in 0..n, k < n, k \in S
      PROVE  k + 1 \in S
  <2>1. PICK f : Flattened(seqs, k, f)
    BY <1>2
  <2>2. PICK v : v = IF k = 0 THEN seqs[1] ELSE f[k] \o seqs[k + 1]
    OBVIOUS
  <2>3. PICK g : g = [j \in 1..(k + 1) |-> IF j = k + 1 THEN v ELSE f[j]]
    OBVIOUS
  <2>4. \A j \in 1..(k + 1) : g[j] = IF j = 1 THEN seqs[j] ELSE g[j - 1] \o seqs[j]
    <3> SUFFICES ASSUME NEW j \in 1..(k + 1)
                 PROVE  g[j] = IF j = 1 THEN seqs[j] ELSE g[j - 1] \o seqs[j]
      OBVIOUS
    <3>1. CASE j = k + 1
      <4>1. g[j] = v /\ j - 1 = k /\ (j = 1 <=> k = 0) /\ (k # 0 => g[k] = f[k])
        BY <3>1, <2>3
      <4> QED BY <4>1, <3>1, <2>2
    <3>2. CASE j # k + 1
      <4>1. j \in 1..k /\ g[j] = f[j] /\ (j # 1 => g[j - 1] = f[j - 1])
        BY <3>2, <2>3
      <4> QED BY <4>1, <2>1 DEF Flattened
    <3> QED BY <3>1, <3>2
  <2>5. Flattened(seqs, k + 1, g)
    <3>1. g = [j \in 1..(k + 1) |-> g[j]]
      BY <2>3
    <3> QED BY <3>1, <2>4 DEF Flattened
  <2> QED BY <2>5, <1>2
<1>3. n \in S
  <2> HIDE DEF S
  <2>1. 0..n \subseteq S
    BY <1>1, <1>2, UpTo
  <2> QED BY <2>1
<1> QED BY <1>3

\* A set of texts is joined in some order, each text once.
LEMMA OrderExists ==
    ASSUME NEW D, IsFiniteSet(D)
    PROVE  \E n \in Nat : /\ SetToSeq(D) \in [1..n -> D]
                          /\ \A x \in D : \E k \in 1..n : SetToSeq(D)[k] = x
                          /\ \A j, k \in 1..n : SetToSeq(D)[j] = SetToSeq(D)[k] => j = k
<1>1. PICK n : n = Cardinality(D) /\ n \in Nat /\ ExistsBijection(1..n, D)
  BY FS_CardinalityType
<1>2. \E f \in [1..n -> D] : IsInjective(f)
  BY <1>1 DEF ExistsBijection, Bijection, Injection, IsInjective
<1>3. PICK f : f = SetToSeq(D)
  OBVIOUS
<1>4. f \in [1..n -> D] /\ IsInjective(f)
  BY <1>1, <1>2, <1>3 DEF SetToSeq
<1>5. f \in Injection(1..n, D)
  BY <1>4 DEF Injection, IsInjective
<1>6. Cardinality(1..n) = n
  BY <1>1, FS_Interval
<1>7. f \in Surjection(1..n, D)
  BY <1>1, <1>5, <1>6, FS_Injection
<1>8. \A x \in D : \E k \in 1..n : f[k] = x
  BY <1>7 DEF Surjection
<1>9. \A j, k \in 1..n : f[j] = f[k] => j = k
  BY <1>4 DEF IsInjective
<1> QED BY <1>1, <1>3, <1>4, <1>8, <1>9

\* Induction over the texts that are joined: R relates the set of those that were
\* parsed to the state of the parser.
LEMMA ParsedJoined ==
    ASSUME NEW D, IsFiniteSet(D), NEW texts \in [D -> Seq(Element)], NEW p, NEW R,
           <<{}, p>> \in R,
           \A E, x, q : E \in SUBSET D /\ x \in D \ E /\ <<E, q>> \in R
                            => <<E \cup {x}, Parsed(q, texts[x])>> \in R
    PROVE  Joined(texts) \in Seq(Element) /\ <<D, Parsed(p, Joined(texts))>> \in R
<1>1. PICK n \in Nat : /\ SetToSeq(D) \in [1..n -> D]
                       /\ \A x \in D : \E k \in 1..n : SetToSeq(D)[k] = x
                       /\ \A j, k \in 1..n : SetToSeq(D)[j] = SetToSeq(D)[k] => j = k
  BY OrderExists
<1>2. PICK order : order = SetToSeq(D)
  OBVIOUS
<1>3. /\ order \in [1..n -> D]
      /\ \A x \in D : \E k \in 1..n : order[k] = x
      /\ \A j, k \in 1..n : order[j] = order[k] => j = k
  BY <1>1, <1>2
<1>4. PICK seqs : seqs = [k \in 1..n |-> texts[order[k]]]
  OBVIOUS
<1>5. Len(seqs) = n /\ \A k \in 1..n : seqs[k] = texts[order[k]] /\ seqs[k] \in Seq(Element)
  BY <1>3, <1>4
<1>6. Joined(texts) = FlattenSeq(seqs)
  <2>1. DOMAIN texts = D /\ DOMAIN order = 1..n
    BY <1>3
  <2> QED BY <2>1, <1>2, <1>4 DEF Joined
<1>7. CASE n = 0
  <2>1. D = {}
    BY <1>3, <1>7
  <2>2. FlattenSeq(seqs) = <<>>
    BY <1>4, <1>5, <1>7 DEF FlattenSeq
  <2>3. Parsed(p, <<>>) = p /\ <<>> \in Seq(Element)
    BY ParsedNone
  <2> QED BY <2>1, <2>2, <2>3, <1>6
<1>8. CASE n # 0
  <2>1. PICK f : f = CHOOSE g : Flattened(seqs, n, g)
    OBVIOUS
  <2>2. Flattened(seqs, n, f)
    BY <2>1, FlattenedExists
  <2>3. Joined(texts) = f[n]
    BY <2>1, <1>5, <1>6, <1>8 DEF Flattened, FlattenSeq
  <2> DEFINE Done(k) == {order[j] : j \in 1..k}
             S == {k \in 0..n : k = 0 \/ /\ f[k] \in Seq(Element)
                                         /\ <<Done(k), Parsed(p, f[k])>> \in R}
  <2>4. 0 \in S
    OBVIOUS
  <2>5. ASSUME NEW k \in 0..n, k < n, k \in S
        PROVE  k + 1 \in S
    <3>1. PICK x : x = order[k + 1]
      OBVIOUS
    <3>2. x \in D \ Done(k) /\ Done(k) \in SUBSET D /\ Done(k + 1) = Done(k) \cup {x}
      BY <3>1, <1>3, <2>5
    <3>3. seqs[k + 1] = texts[x] /\ texts[x] \in Seq(Element)
      BY <3>1, <1>5, <2>5
    <3>4. ASSUME k = 0
          PROVE  f[k + 1] \in Seq(Element) /\ <<Done(k + 1), Parsed(p, f[k + 1])>> \in R
      <4>1. f[k + 1] = texts[x]
        BY <3>3, <3>4, <2>2, <1>8 DEF Flattened
      <4>2. Done(0) = {}
        OBVIOUS
      <4>3. <<Done(k) \cup {x}, Parsed(p, texts[x])>> \in R
        BY <4>2, <3>2, <3>4
      <4> QED BY <4>1, <4>3, <3>2, <3>3
    <3>5. ASSUME k # 0
          PROVE  f[k + 1] \in Seq(Element) /\ <<Done(k + 1), Parsed(p, f[k + 1])>> \in R
      <4>1. f[k + 1] = f[k] \o texts[x]
        <5>1. \A j \in 1..n : j # 1 => f[j] = f[j - 1] \o seqs[j]
          BY <2>2 DEF Flattened
        <5>2. k + 1 \in 1..n /\ k + 1 # 1 /\ (k + 1) - 1 = k
          BY <2>5, <3>5
        <5> QED BY <5>1, <5>2, <3>3
      <4>2. f[k] \in Seq(Element) /\ <<Done(k), Parsed(p, f[k])>> \in R
        BY <2>5, <3>5
      <4>3. Parsed(p, f[k] \o texts[x]) = Parsed(Parsed(p, f[k]), texts[x])
        BY <4>2, <3>3, ParsedConcat
      <4>4. f[k + 1] \in Seq(Element)
        BY <4>1, <4>2, <3>3
      <4>5. <<Done(k) \cup {x}, Parsed(Parsed(p, f[k]), texts[x])>> \in R
        BY <4>2, <3>2
      <4> QED BY <4>1, <4>3, <4>4, <4>5, <3>2
    <3>6. f[k + 1] \in Seq(Element) /\ <<Done(k + 1), Parsed(p, f[k + 1])>> \in R
      BY <3>4, <3>5
    <3> QED BY <3>6, <2>5
  <2>6. n \in S
    <3> HIDE DEF S
    <3>1. 0..n \subseteq S
      BY <2>4, <2>5, UpTo
    <3> QED BY <3>1
  <2>7. Done(n) = D
    BY <1>3
  <2> QED BY <2>3, <2>6, <2>7, <1>8
<1> QED BY <1>7, <1>8

-----------------------------------------------------------------------------
(* Interfaces.                                                             *)

\* The functions from finitely many of D to R.
Finite(D, R) == UNION {[S -> R] : S \in {T \in SUBSET D : IsFiniteSet(T)}}

\* The declarations an interface may have.
Declarations ==
    [method : Finite(Members, MethodTypes), property : Finite(Members, PropertyTypes),
     signal : Finite(Members, Lists)]

LEMMA FiniteFunction ==
    ASSUME NEW D, NEW R, NEW f
    PROVE  f \in Finite(D, R) <=>
             DOMAIN f \subseteq D /\ IsFiniteSet(DOMAIN f) /\ f \in [DOMAIN f -> R]
BY DEF Finite

\* The classes of an element within an object, and the members it may be in.
Classes == {"root", "method", "property", "signal"}
Names == Members \cup {None}

\* The texts of the members of an interface, and what is described of them.
MethodTexts(d) == [x \in DOMAIN d.method |-> MethodText(d, x)]
PropertyTexts(d) == [x \in DOMAIN d.property |-> PropertyText(d, x)]
SignalTexts(d) == [x \in DOMAIN d.signal |-> SignalText(d, x)]

MethodsOf(d) == [x \in DOMAIN d.method |-> OfMethod(d.method[x])]
PropertiesOf(d) == [x \in DOMAIN d.property |-> OfProperty(d.property[x])]

\* The texts of all methods, all properties, all signals of an interface.
LEMMA MethodsParsed ==
    ASSUME NEW d \in Declarations, NEW o, NEW i, NEW P, NEW S,
           NEW c \in Classes, NEW m \in Names
    PROVE  /\ Joined(MethodTexts(d)) \in Seq(Element)
           /\ \E b \in Classes, n \in Names :
                Parsed(At(o, i, Known(Absent, P, S), c, m), Joined(MethodTexts(d)))
                  = At(o, i, Known(MethodsOf(d), P, S), b, n)
<1>1. PICK D, g : D = DOMAIN d.method /\ g = MethodsOf(d)
  OBVIOUS
<1>2. /\ D \subseteq Members /\ IsFiniteSet(D) /\ \A x \in D : d.method[x] \in MethodTypes
      /\ d.method = [x \in D |-> d.method[x]]
  BY <1>1, FiniteFunction DEF Declarations
<1>3. PICK texts : texts = [x \in D |-> MethodText(d, x)]
  OBVIOUS
<1>4. texts \in [D -> Seq(Element)]
  BY <1>2, <1>3, MethodParsed
<1> DEFINE State(E, b, n) == At(o, i, Known(Restrict(g, E), P, S), b, n)
           R == {<<E, State(E, b, n)>> : E \in SUBSET D, b \in Classes, n \in Names}
<1>5. /\ \A E \in SUBSET D, b \in Classes, n \in Names : <<E, State(E, b, n)>> \in R
      /\ \A E, q : <<E, q>> \in R =>
            E \in SUBSET D /\ \E b \in Classes, n \in Names : q = State(E, b, n)
  <2> HIDE DEF State
  <2> QED OBVIOUS
<1>6. State({}, c, m) = At(o, i, Known(Absent, P, S), c, m)
  BY RestrictNone
<1>7. ASSUME NEW E, NEW x, NEW q, E \in SUBSET D, x \in D \ E, <<E, q>> \in R
      PROVE  <<E \cup {x}, Parsed(q, texts[x])>> \in R
  <2>1. PICK b \in Classes, n \in Names : q = State(E, b, n)
    <3> HIDE DEF R, State
    <3> QED BY <1>5, <1>7
  <2>2. g[x] = OfMethod(d.method[x])
    BY <1>1, <1>2, <1>7 DEF MethodsOf
  <2>3. Parsed(q, texts[x]) = At(o, i, Known(With(Restrict(g, E), x, g[x]), P, S), "method", x)
    BY <2>1, <2>2, <1>2, <1>3, <1>7, MethodParsed
  <2>4. Parsed(q, texts[x]) = State(E \cup {x}, "method", x)
    BY <2>3, WithNext
  <2>5. E \cup {x} \in SUBSET D /\ "method" \in Classes /\ x \in Names
    BY <1>2, <1>7 DEF Classes, Names
  <2> HIDE DEF R, State
  <2> QED BY <2>4, <2>5, <1>5
<1>8. /\ Joined(texts) \in Seq(Element)
      /\ <<D, Parsed(State({}, c, m), Joined(texts))>> \in R
  <2>1. <<{}, State({}, c, m)>> \in R
    <3> HIDE DEF R, State
    <3> QED BY <1>5
  <2> HIDE DEF R, State
  <2> QED BY <2>1, <1>2, <1>4, <1>7, ParsedJoined
<1>9. \E b \in Classes, n \in Names : Parsed(State({}, c, m), Joined(texts)) = State(D, b, n)
  <2> HIDE DEF R, State
  <2> QED BY <1>5, <1>8
<1>10. Restrict(g, D) = g
  BY <1>1, <1>2 DEF MethodsOf, Restrict
<1>11. texts = MethodTexts(d)
  BY <1>1, <1>3 DEF MethodTexts
<1> QED BY <1>1, <1>11, <1>6, <1>8, <1>9, <1>10

LEMMA PropertiesParsed ==
    ASSUME NEW d \in Declarations, NEW o, NEW i, NEW M, NEW S,
           NEW c \in Classes, NEW m \in Names
    PROVE  /\ Joined(PropertyTexts(d)) \in Seq(Element)
           /\ \E b \in Classes, n \in Names :
                Parsed(At(o, i, Known(M, Absent, S), c, m), Joined(PropertyTexts(d)))
                  = At(o, i, Known(M, PropertiesOf(d), S), b, n)
<1>1. PICK D, g : D = DOMAIN d.property /\ g = PropertiesOf(d)
  OBVIOUS
<1>2. /\ D \subseteq Members /\ IsFiniteSet(D) /\ \A x \in D : d.property[x] \in PropertyTypes
      /\ d.property = [x \in D |-> d.property[x]]
  BY <1>1, FiniteFunction DEF Declarations
<1>3. PICK texts : texts = [x \in D |-> PropertyText(d, x)]
  OBVIOUS
<1>4. texts \in [D -> Seq(Element)]
  BY <1>2, <1>3, PropertyParsed
<1> DEFINE State(E, b, n) == At(o, i, Known(M, Restrict(g, E), S), b, n)
           R == {<<E, State(E, b, n)>> : E \in SUBSET D, b \in Classes, n \in Names}
<1>5. /\ \A E \in SUBSET D, b \in Classes, n \in Names : <<E, State(E, b, n)>> \in R
      /\ \A E, q : <<E, q>> \in R =>
            E \in SUBSET D /\ \E b \in Classes, n \in Names : q = State(E, b, n)
  <2> HIDE DEF State
  <2> QED OBVIOUS
<1>6. State({}, c, m) = At(o, i, Known(M, Absent, S), c, m)
  BY RestrictNone
<1>7. ASSUME NEW E, NEW x, NEW q, E \in SUBSET D, x \in D \ E, <<E, q>> \in R
      PROVE  <<E \cup {x}, Parsed(q, texts[x])>> \in R
  <2>1. PICK b \in Classes, n \in Names : q = State(E, b, n)
    <3> HIDE DEF R, State
    <3> QED BY <1>5, <1>7
  <2>2. g[x] = OfProperty(d.property[x])
    BY <1>1, <1>2, <1>7 DEF PropertiesOf
  <2>3. Parsed(q, texts[x])
          = At(o, i, Known(M, With(Restrict(g, E), x, g[x]), S), "property", n)
    BY <2>1, <2>2, <1>2, <1>3, <1>7, PropertyParsed
  <2>4. Parsed(q, texts[x]) = State(E \cup {x}, "property", n)
    BY <2>3, WithNext
  <2>5. E \cup {x} \in SUBSET D /\ "property" \in Classes /\ n \in Names
    BY <1>2, <1>7 DEF Classes, Names
  <2> HIDE DEF R, State
  <2> QED BY <2>4, <2>5, <1>5
<1>8. /\ Joined(texts) \in Seq(Element)
      /\ <<D, Parsed(State({}, c, m), Joined(texts))>> \in R
  <2>1. <<{}, State({}, c, m)>> \in R
    <3> HIDE DEF R, State
    <3> QED BY <1>5
  <2> HIDE DEF R, State
  <2> QED BY <2>1, <1>2, <1>4, <1>7, ParsedJoined
<1>9. \E b \in Classes, n \in Names : Parsed(State({}, c, m), Joined(texts)) = State(D, b, n)
  <2> HIDE DEF R, State
  <2> QED BY <1>5, <1>8
<1>10. Restrict(g, D) = g
  BY <1>1, <1>2 DEF PropertiesOf, Restrict
<1>11. texts = PropertyTexts(d)
  BY <1>1, <1>3 DEF PropertyTexts
<1> QED BY <1>1, <1>11, <1>6, <1>8, <1>9, <1>10

LEMMA SignalsParsed ==
    ASSUME NEW d \in Declarations, NEW o, NEW i, NEW M, NEW P,
           NEW c \in Classes, NEW m \in Names
    PROVE  /\ Joined(SignalTexts(d)) \in Seq(Element)
           /\ \E b \in Classes, n \in Names :
                Parsed(At(o, i, Known(M, P, Absent), c, m), Joined(SignalTexts(d)))
                  = At(o, i, Known(M, P, d.signal), b, n)
<1>1. PICK D, g : D = DOMAIN d.signal /\ g = d.signal
  OBVIOUS
<1>2. /\ D \subseteq Members /\ IsFiniteSet(D) /\ \A x \in D : d.signal[x] \in Lists
      /\ d.signal = [x \in D |-> d.signal[x]]
  BY <1>1, FiniteFunction DEF Declarations
<1>3. PICK texts : texts = [x \in D |-> SignalText(d, x)]
  OBVIOUS
<1>4. texts \in [D -> Seq(Element)]
  BY <1>2, <1>3, SignalParsed
<1> DEFINE State(E, b, n) == At(o, i, Known(M, P, Restrict(g, E)), b, n)
           R == {<<E, State(E, b, n)>> : E \in SUBSET D, b \in Classes, n \in Names}
<1>5. /\ \A E \in SUBSET D, b \in Classes, n \in Names : <<E, State(E, b, n)>> \in R
      /\ \A E, q : <<E, q>> \in R =>
            E \in SUBSET D /\ \E b \in Classes, n \in Names : q = State(E, b, n)
  <2> HIDE DEF State
  <2> QED OBVIOUS
<1>6. State({}, c, m) = At(o, i, Known(M, P, Absent), c, m)
  BY RestrictNone
<1>7. ASSUME NEW E, NEW x, NEW q, E \in SUBSET D, x \in D \ E, <<E, q>> \in R
      PROVE  <<E \cup {x}, Parsed(q, texts[x])>> \in R
  <2>1. PICK b \in Classes, n \in Names : q = State(E, b, n)
    <3> HIDE DEF R, State
    <3> QED BY <1>5, <1>7
  <2>2. g[x] = d.signal[x]
    BY <1>1, <1>2, <1>7
  <2>3. Parsed(q, texts[x]) = At(o, i, Known(M, P, With(Restrict(g, E), x, g[x])), "signal", x)
    BY <2>1, <2>2, <1>2, <1>3, <1>7, SignalParsed
  <2>4. Parsed(q, texts[x]) = State(E \cup {x}, "signal", x)
    BY <2>3, WithNext
  <2>5. E \cup {x} \in SUBSET D /\ "signal" \in Classes /\ x \in Names
    BY <1>2, <1>7 DEF Classes, Names
  <2> HIDE DEF R, State
  <2> QED BY <2>4, <2>5, <1>5
<1>8. /\ Joined(texts) \in Seq(Element)
      /\ <<D, Parsed(State({}, c, m), Joined(texts))>> \in R
  <2>1. <<{}, State({}, c, m)>> \in R
    <3> HIDE DEF R, State
    <3> QED BY <1>5
  <2> HIDE DEF R, State
  <2> QED BY <2>1, <1>2, <1>4, <1>7, ParsedJoined
<1>9. \E b \in Classes, n \in Names : Parsed(State({}, c, m), Joined(texts)) = State(D, b, n)
  <2> HIDE DEF R, State
  <2> QED BY <1>5, <1>8
<1>10. Restrict(g, D) = g
  BY <1>1, <1>2 DEF Restrict
<1>11. texts = SignalTexts(d)
  BY <1>1, <1>3 DEF SignalTexts
<1> QED BY <1>1, <1>11, <1>6, <1>8, <1>9, <1>10

\* The text of an interface describes it, whatever was parsed before: only the class
\* and the member of the state depend on that, and no element takes them from it.
LEMMA InterfaceParsed ==
    ASSUME NEW d \in Declarations, NEW i \in Interfaces, NEW o, NEW a,
           NEW c \in Classes, NEW m \in Names
    PROVE  /\ Text(i, d) \in Seq(Element)
           /\ \E b \in Classes, n \in Names :
                Parsed([class |-> c, interface |-> a, member |-> m, obj |-> o], Text(i, d))
                  = At(o, i, Described(d), b, n)
<1>1. PICK h, s, t, u, M, P :
        /\ h = <<[tag |-> "interface", name |-> i]>>
        /\ s = Joined(MethodTexts(d)) /\ M = MethodsOf(d)
        /\ t = Joined(PropertyTexts(d)) /\ P = PropertiesOf(d)
        /\ u = Joined(SignalTexts(d))
  OBVIOUS
<1>2. h \in Seq(Element)
  <2>1. [tag |-> "interface", name |-> i] \in Element
    BY DEF Element
  <2> QED BY <1>1, <2>1, ElementSeq
<1>3. PICK p0, p1 : /\ p0 = [class |-> c, interface |-> a, member |-> m, obj |-> o]
                    /\ p1 = At(o, i, Known(Absent, Absent, Absent), c, m)
  OBVIOUS
<1>4. Parsed(p0, h) = p1
  BY <1>1, <1>3, ParsedOne, InterfaceElement
<1>5. /\ s \in Seq(Element)
      /\ \E b \in Classes, n \in Names :
            Parsed(p1, s) = At(o, i, Known(M, Absent, Absent), b, n)
  BY <1>1, <1>3, MethodsParsed
<1>6. PICK b1 \in Classes, n1 \in Names :
        Parsed(p1, s) = At(o, i, Known(M, Absent, Absent), b1, n1)
  BY <1>5
<1>7. /\ t \in Seq(Element)
      /\ \E b \in Classes, n \in Names :
            Parsed(At(o, i, Known(M, Absent, Absent), b1, n1), t)
              = At(o, i, Known(M, P, Absent), b, n)
  BY <1>1, PropertiesParsed
<1>8. PICK b2 \in Classes, n2 \in Names :
        Parsed(Parsed(p1, s), t) = At(o, i, Known(M, P, Absent), b2, n2)
  BY <1>6, <1>7
<1>9. /\ u \in Seq(Element)
      /\ \E b \in Classes, n \in Names :
            Parsed(At(o, i, Known(M, P, Absent), b2, n2), u)
              = At(o, i, Known(M, P, d.signal), b, n)
  BY <1>1, SignalsParsed
<1>10. PICK b3 \in Classes, n3 \in Names :
        Parsed(Parsed(Parsed(p1, s), t), u) = At(o, i, Known(M, P, d.signal), b3, n3)
  BY <1>8, <1>9
<1>11. Known(M, P, d.signal) = Described(d)
  BY <1>1 DEF Known, Described, MethodsOf, PropertiesOf, OfMethod, OfProperty
<1>12. PICK v, w : v = h \o s /\ w = v \o t
  OBVIOUS
<1>13. v \in Seq(Element) /\ w \in Seq(Element)
  <2>1. v \in Seq(Element)
    BY <1>2, <1>5, <1>12
  <2> QED BY <2>1, <1>7, <1>12
<1>14. Text(i, d) = w \o u
  BY <1>1, <1>12 DEF Text, MethodTexts, PropertyTexts, SignalTexts
<1>15. Parsed(p0, w \o u) = Parsed(Parsed(Parsed(p1, s), t), u)
  <2>1. Parsed(p0, v) = Parsed(p1, s)
    BY <1>2, <1>4, <1>5, <1>12, ParsedConcat
  <2>2. Parsed(p0, w) = Parsed(Parsed(p0, v), t)
    <3>1. t \in Seq(Element) /\ v \in Seq(Element)
      BY <1>7, <1>13
    <3>2. Parsed(p0, v \o t) = Parsed(Parsed(p0, v), t)
      BY <3>1, ParsedConcat
    <3> QED BY <3>2, <1>12
  <2>3. Parsed(p0, w \o u) = Parsed(Parsed(p0, w), u)
    <3>1. u \in Seq(Element) /\ w \in Seq(Element)
      BY <1>9, <1>13
    <3> QED BY <3>1, ParsedConcat
  <2> QED BY <2>1, <2>2, <2>3
<1>16. w \o u \in Seq(Element)
  BY <1>9, <1>13
<1> QED BY <1>3, <1>10, <1>11, <1>14, <1>15, <1>16

-----------------------------------------------------------------------------
(* The document.                                                           *)

\* The nodes below the object change nothing.
LEMMA NodesParsed ==
    ASSUME NEW p, p.class # "none"
    PROVE  LET nodes == SetToSeq({[tag |-> "node", name |-> c] : c \in Children})
           IN  nodes \in Seq(Element) /\ Parsed(p, nodes) = p
<1> DEFINE F == {[tag |-> "node", name |-> c] : c \in Children}
<1>1. IsFiniteSet(F)
  <2>1. PICK g : g = [c \in Children |-> [tag |-> "node", name |-> c]]
    OBVIOUS
  <2>2. g \in Surjection(Children, F)
    BY <2>1 DEF Surjection
  <2> QED BY <2>2, FiniteAssumption, FS_Surjection
<1>2. F \subseteq Element
  BY DEF Element
<1>3. PICK n \in Nat : SetToSeq(F) \in [1..n -> F]
  <2> HIDE DEF F
  <2> QED BY <1>1, OrderExists
<1>4. PICK s : s = SetToSeq(F)
  OBVIOUS
<1>5. s \in Seq(Element) /\ Len(s) = n /\ \A k \in 1..n : s[k] \in F
  <2> HIDE DEF F
  <2> QED BY <1>2, <1>3, <1>4
<1>6. PICK f : Runs(p, s, n, f) /\ Parsed(p, s) = f[n]
  BY <1>5, ParsedRuns
<1> DEFINE S == {k \in 0..n : f[k] = p}
<1>7. 0 \in S
  BY <1>6 DEF Runs
<1>8. ASSUME NEW k \in 0..n, k < n, k \in S
      PROVE  k + 1 \in S
  <2>1. f[k + 1] = StartElementHandler(p, s[k + 1])
    BY <1>6, <1>8 DEF Runs
  <2>2. PICK e : e = s[k + 1]
    OBVIOUS
  <2>3. e \in F
    BY <2>2, <1>5, <1>8
  <2>4. PICK c : e = [tag |-> "node", name |-> c]
    BY <2>3
  <2> QED BY <1>8, <2>1, <2>2, <2>4, NodeElement
<1>9. n \in S
  <2> HIDE DEF S
  <2>1. 0..n \subseteq S
    BY <1>7, <1>8, UpTo
  <2> QED BY <2>1
<1> QED BY <1>4, <1>5, <1>6, <1>9

\* The texts of the interfaces, after the start of the object.
LEMMA InterfacesParsed ==
    ASSUME NEW g, NEW D, D \in SUBSET Interfaces, IsFiniteSet(D),
           \A i \in D : g[i] \in Declarations
    PROVE  LET text == Joined([i \in D |-> Text(i, g[i])])
           IN  /\ text \in Seq(Element)
               /\ \E c \in Classes, a \in Interfaces \cup {None}, b \in Names :
                    Parsed([class |-> "root", interface |-> None, member |-> None,
                            obj |-> Absent], text)
                      = [class |-> c, interface |-> a, member |-> b,
                         obj |-> [i \in D |-> Described(g[i])]]
<1>1. PICK h, p, In :
        /\ h = [i \in D |-> Described(g[i])]
        /\ p = [class |-> "root", interface |-> None, member |-> None, obj |-> Absent]
        /\ In = Interfaces \cup {None}
  OBVIOUS
<1>2. PICK texts : texts = [i \in D |-> Text(i, g[i])]
  OBVIOUS
<1> DEFINE State(E, c, a, b) ==
              [class |-> c, interface |-> a, member |-> b, obj |-> Restrict(h, E)]
           R == {<<E, State(E, c, a, b)>> :
                    E \in SUBSET D, c \in Classes, a \in In, b \in Names}
<1>3. /\ \A E \in SUBSET D, c \in Classes, a \in In, b \in Names :
            <<E, State(E, c, a, b)>> \in R
      /\ \A E, q : <<E, q>> \in R =>
            /\ E \in SUBSET D
            /\ \E c \in Classes, a \in In, b \in Names : q = State(E, c, a, b)
  <2> HIDE DEF State
  <2> QED OBVIOUS
<1>4. \A i \in D : /\ i \in Interfaces
                   /\ g[i] \in Declarations
                   /\ texts[i] = Text(i, g[i])
                   /\ h[i] = Described(g[i])
  BY <1>1, <1>2
<1>5. ASSUME NEW i \in D, NEW q, NEW o, NEW a, NEW c \in Classes, NEW b \in Names,
             q = [class |-> c, interface |-> a, member |-> b, obj |-> o]
      PROVE  /\ texts[i] \in Seq(Element)
             /\ \E c1 \in Classes, b1 \in Names : Parsed(q, texts[i]) = At(o, i, h[i], c1, b1)
  <2>1. PICK d : d = g[i]
    OBVIOUS
  <2>2. d \in Declarations /\ i \in Interfaces
    BY <2>1, <1>4
  <2>3. /\ Text(i, d) \in Seq(Element)
        /\ \E c1 \in Classes, b1 \in Names :
              Parsed(q, Text(i, d)) = At(o, i, Described(d), c1, b1)
    BY <2>2, <1>5, InterfaceParsed
  <2> QED BY <2>1, <2>3, <1>4
<1>6. <<{}, p>> \in R
  <2>1. p = State({}, "root", None, None)
    BY <1>1, RestrictNone
  <2>2. "root" \in Classes /\ None \in In /\ None \in Names /\ {} \in SUBSET D
    BY <1>1 DEF Classes, Names
  <2> HIDE DEF State, R
  <2> QED BY <2>1, <2>2, <1>3
<1>7. texts \in [D -> Seq(Element)]
  <2>1. \A i \in D : texts[i] \in Seq(Element)
    <3>1. "root" \in Classes /\ None \in Names
      BY DEF Classes, Names
    <3> QED BY <3>1, <1>5
  <2>2. DOMAIN texts = D /\ texts = [i \in D |-> texts[i]]
    BY <1>2
  <2> QED BY <2>1, <2>2
<1>8. ASSUME NEW E, NEW x, NEW q, E \in SUBSET D, x \in D \ E, <<E, q>> \in R
      PROVE  <<E \cup {x}, Parsed(q, texts[x])>> \in R
  <2>1. PICK c \in Classes, a \in In, b \in Names : q = State(E, c, a, b)
    <3> HIDE DEF R, State
    <3> QED BY <1>3, <1>8
  <2>2. PICK c1 \in Classes, b1 \in Names :
            Parsed(q, texts[x]) = At(Restrict(h, E), x, h[x], c1, b1)
    <3>1. PICK o : o = Restrict(h, E)
      OBVIOUS
    <3>2. q = [class |-> c, interface |-> a, member |-> b, obj |-> o]
      BY <2>1, <3>1
    <3>3. x \in D
      BY <1>8
    <3> QED BY <3>1, <3>2, <3>3, <1>5
  <2>3. Parsed(q, texts[x]) = State(E \cup {x}, c1, x, b1)
    BY <2>2, WithNext DEF At
  <2>4. E \cup {x} \in SUBSET D /\ x \in In
    BY <1>1, <1>4, <1>8
  <2> HIDE DEF R, State
  <2> QED BY <2>3, <2>4, <1>3
<1>9. Joined(texts) \in Seq(Element) /\ <<D, Parsed(p, Joined(texts))>> \in R
  <2> HIDE DEF R, State
  <2> QED BY <1>6, <1>7, <1>8, ParsedJoined
<1>10. PICK c \in Classes, a \in In, b \in Names : Parsed(p, Joined(texts)) = State(D, c, a, b)
  <2> HIDE DEF R, State
  <2> QED BY <1>3, <1>9
<1>11. Restrict(h, D) = h
  BY <1>1 DEF Restrict
<1>12. PICK text : text = Joined(texts)
  OBVIOUS
<1>13. Parsed(p, text) = [class |-> c, interface |-> a, member |-> b, obj |-> h]
  BY <1>10, <1>11, <1>12
<1>14. \E c1 \in Classes, a1 \in Interfaces \cup {None}, b1 \in Names :
            Parsed(p, text) = [class |-> c1, interface |-> a1, member |-> b1, obj |-> h]
  <2>1. a \in Interfaces \cup {None}
    BY <1>1
  <2> QED BY <1>13, <2>1
<1>15. text \in Seq(Element)
  BY <1>9, <1>12
<1> HIDE DEF State, R
<1> QED BY <1>1, <1>2, <1>12, <1>14, <1>15

\* The introspection data of an object (CreateObject of src/introspect.cc on the document of
\* updateIntrospection): each interface as the declarations its text was made of.
THEOREM DocumentParsed ==
    ASSUME NEW g, NEW D, D \in SUBSET Interfaces, IsFiniteSet(D),
           introspection = [i \in D |-> Text(i, g[i])],
           \A i \in D : g[i] \in Declarations
    PROVE  CreateObject(Document) = [i \in D |-> Described(g[i])]
<1>1. PICK h, root, nodes, joined, p :
        /\ h = [i \in D |-> Described(g[i])]
        /\ root = <<[tag |-> "node", name |-> None]>>
        /\ nodes = SetToSeq({[tag |-> "node", name |-> c] : c \in Children})
        /\ joined = Joined([i \in D |-> Text(i, g[i])])
        /\ p = [class |-> "root", interface |-> None, member |-> None, obj |-> Absent]
  OBVIOUS
<1>2. root \in Seq(Element) /\ Parsed(Nothing, root) = p
  <2>1. [tag |-> "node", name |-> None] \in Element
    BY DEF Element
  <2> QED BY <1>1, <2>1, ElementSeq, ParsedOne, RootElement
<1>3. /\ joined \in Seq(Element)
      /\ \E c \in Classes, a \in Interfaces \cup {None}, b \in Names :
            Parsed(p, joined) = [class |-> c, interface |-> a, member |-> b, obj |-> h]
  BY <1>1, InterfacesParsed
<1>4. PICK q : Parsed(p, joined) = q /\ q.class \in Classes /\ q.obj = h
  BY <1>3
<1>5. nodes \in Seq(Element) /\ Parsed(q, nodes) = q
  <2>1. q.class # "none"
    BY <1>4 DEF Classes
  <2> QED BY <2>1, <1>1, NodesParsed
<1>6. PICK u : u = root \o joined
  OBVIOUS
<1>7. u \in Seq(Element)
  BY <1>2, <1>3, <1>6
<1>8. Document = u \o nodes
  BY <1>1, <1>6 DEF Document
<1>9. Parsed(Nothing, u \o nodes) = q
  <2>1. Parsed(Nothing, u \o nodes) = Parsed(Parsed(Nothing, u), nodes)
    BY <1>5, <1>7, ParsedConcat
  <2>2. Parsed(Nothing, root \o joined) = Parsed(Parsed(Nothing, root), joined)
    BY <1>2, <1>3, ParsedConcat
  <2> QED BY <2>1, <2>2, <1>2, <1>4, <1>5, <1>6
<1> QED BY <1>1, <1>4, <1>8, <1>9 DEF CreateObject

-----------------------------------------------------------------------------
(* The inductive invariant.  A text, and what a client has seen, is that of an *)
(* interface as it was at some time: declarations d.                            *)

\* What a client keeps of d.
Kept(d) ==
    [method |-> [m \in DOMAIN d.method |-> Len(d.method[m].in)], property |-> PropertiesOf(d)]

\* Interface i has what d has, as it is in d unless it was declared again.
Older(i, d) ==
    /\ \A m \in DOMAIN d.method :
          /\ m \in DOMAIN interfaces[i].method
          /\ <<"method", i, m>> \notin redeclared =>
                interfaces[i].method[m] = d.method[m]
    /\ \A p \in DOMAIN d.property :
          /\ p \in DOMAIN interfaces[i].property
          /\ <<"property", i, p>> \notin redeclared =>
                interfaces[i].property[p] = d.property[p]

\* Interfaces are created one by one, and so are their members.
Created == interfaces \in Finite(Interfaces, Declarations)

\* The text of interface i is that of d, which is how i is now but for later changes.
Describes(i, d) ==
    /\ introspection[i] = Text(i, d)
    /\ Older(i, d)
    /\ i \notin outdated => d = interfaces[i]

Texts ==
    /\ introspection = [i \in DOMAIN interfaces |-> introspection[i]]
    /\ \A i \in DOMAIN interfaces : \E d \in Declarations : Describes(i, d)

Seen ==
    seen # None =>
        \A i \in DOMAIN seen :
            /\ i \in DOMAIN interfaces
            /\ \E d \in Declarations : seen[i] = Kept(d) /\ Older(i, d)

Noted ==
    /\ outdated \subseteq DOMAIN interfaces
    /\ redeclared \subseteq {"method", "property"} \X (DOMAIN interfaces) \X Members
    /\ changes \in 0..MaxChanges

IInv == Created /\ Texts /\ Seen /\ Noted

\* One more of finitely many, and another one in the place of one.
LEMMA WithFinite ==
    ASSUME NEW D, NEW R, NEW f \in Finite(D, R), NEW x \in D, NEW v \in R,
           NEW w, w = With(f, x, v)
    PROVE  w \in Finite(D, R)
<1>1. /\ DOMAIN w = DOMAIN f \cup {x}
      /\ \A y \in DOMAIN f \cup {x} : w[y] = IF y = x THEN v ELSE f[y]
      /\ w = [y \in DOMAIN f \cup {x} |-> w[y]]
  BY DEF With
<1>2. DOMAIN f \subseteq D /\ IsFiniteSet(DOMAIN f) /\ f \in [DOMAIN f -> R]
  BY FiniteFunction
<1>3. IsFiniteSet(DOMAIN w) /\ DOMAIN w \subseteq D
  BY <1>1, <1>2, FS_AddElement
<1>4. \A y \in DOMAIN w : w[y] \in R
  BY <1>1, <1>2
<1>5. w \in [DOMAIN w -> R]
  BY <1>1, <1>4
<1> QED BY <1>3, <1>5, FiniteFunction

LEMMA ExceptFinite ==
    ASSUME NEW D, NEW R, NEW f \in Finite(D, R), NEW x \in DOMAIN f, NEW v \in R
    PROVE  /\ [f EXCEPT ![x] = v] \in Finite(D, R)
           /\ DOMAIN [f EXCEPT ![x] = v] = DOMAIN f
           /\ \A y \in DOMAIN f : [f EXCEPT ![x] = v][y] = IF y = x THEN v ELSE f[y]
<1>1. PICK w : w = [f EXCEPT ![x] = v]
  OBVIOUS
<1>2. DOMAIN f \subseteq D /\ IsFiniteSet(DOMAIN f) /\ f \in [DOMAIN f -> R]
  BY FiniteFunction
<1>3. /\ w \in [DOMAIN f -> R] /\ DOMAIN w = DOMAIN f
      /\ \A y \in DOMAIN f : w[y] = IF y = x THEN v ELSE f[y]
  BY <1>1, <1>2
<1>4. w \in Finite(D, R)
  BY <1>2, <1>3, FiniteFunction
<1> QED BY <1>1, <1>3, <1>4

LEMMA NoMembers ==
    /\ Empty \in Declarations
    /\ \A D, R : Absent \in Finite(D, R)
<1>1. \A D, R : Absent \in Finite(D, R)
  <2> SUFFICES ASSUME NEW D, NEW R PROVE Absent \in Finite(D, R)
    OBVIOUS
  <2>1. DOMAIN Absent = {} /\ Absent \in [{} -> R] /\ IsFiniteSet({})
    BY FS_EmptySet DEF Absent
  <2> QED BY <2>1, FiniteFunction
<1> QED BY <1>1 DEF Empty, Declarations

\* Declarations with other methods, properties or signals.
LEMMA Declared ==
    ASSUME NEW d \in Declarations
    PROVE  /\ \A M \in Finite(Members, MethodTypes) :
                 [d EXCEPT !.method = M]
                   = [method |-> M, property |-> d.property, signal |-> d.signal]
           /\ \A P \in Finite(Members, PropertyTypes) :
                 [d EXCEPT !.property = P]
                   = [method |-> d.method, property |-> P, signal |-> d.signal]
           /\ \A S \in Finite(Members, Lists) :
                 [d EXCEPT !.signal = S]
                   = [method |-> d.method, property |-> d.property, signal |-> S]
BY DEF Declarations

-----------------------------------------------------------------------------
(* The steps.                                                              *)

\* A step keeps the members of interface i, but for those declared again.
Keeps(i) ==
    /\ \A m \in DOMAIN interfaces[i].method :
          /\ m \in DOMAIN interfaces'[i].method
          /\ <<"method", i, m>> \notin redeclared' =>
                interfaces'[i].method[m] = interfaces[i].method[m]
    /\ \A p \in DOMAIN interfaces[i].property :
          /\ p \in DOMAIN interfaces'[i].property
          /\ <<"property", i, p>> \notin redeclared' =>
                interfaces'[i].property[p] = interfaces[i].property[p]

LEMMA StaysOlder ==
    ASSUME NEW i, NEW d, Older(i, d), Keeps(i), redeclared \subseteq redeclared'
    PROVE  Older(i, d)'
BY DEF Older, Keeps

\* What a client has seen stays so in every other step.
LEMMA StaysSeen ==
    ASSUME Seen, UNCHANGED seen, redeclared \subseteq redeclared',
           \A i \in DOMAIN interfaces : i \in DOMAIN interfaces' /\ Keeps(i)
    PROVE  Seen'
<1> SUFFICES ASSUME seen # None, NEW i \in DOMAIN seen
             PROVE  /\ i \in DOMAIN interfaces'
                    /\ \E d \in Declarations : seen[i] = Kept(d) /\ Older(i, d)'
  BY DEF Seen, Kept, PropertiesOf, OfProperty, TypeOf
<1>1. i \in DOMAIN interfaces
  BY DEF Seen
<1>2. PICK d \in Declarations : seen[i] = Kept(d) /\ Older(i, d)
  BY DEF Seen
<1> QED BY <1>1, <1>2, StaysOlder

\* A declaration of a method, a property or a signal of interface i, that becomes e.
LEMMA DeclareStep ==
    ASSUME IInv, NEW i, Declare(i), NEW e \in Declarations,
           interfaces' = [interfaces EXCEPT ![i] = e], Keeps(i),
           redeclared \subseteq redeclared',
           redeclared' \subseteq {"method", "property"} \X (DOMAIN interfaces) \X Members
    PROVE  IInv'
<1>1. i \in DOMAIN interfaces /\ interfaces \in Finite(Interfaces, Declarations)
  BY DEF Declare, IInv, Created
<1>2. /\ interfaces' \in Finite(Interfaces, Declarations)
      /\ DOMAIN interfaces' = DOMAIN interfaces
      /\ \A j \in DOMAIN interfaces : interfaces'[j] = IF j = i THEN e ELSE interfaces[j]
  BY <1>1, ExceptFinite
<1>3. \A j \in DOMAIN interfaces : Keeps(j)
  BY <1>2 DEF Keeps
<1>4. Texts'
  <2>1. \A j \in DOMAIN interfaces : \E d \in Declarations : Describes(j, d)'
    <3> SUFFICES ASSUME NEW j \in DOMAIN interfaces
                 PROVE  \E d \in Declarations : Describes(j, d)'
      OBVIOUS
    <3>1. PICK d \in Declarations : Describes(j, d)
      BY DEF IInv, Texts
    <3>2. Older(j, d)'
      BY <3>1, <1>3, StaysOlder DEF Describes
    <3>3. introspection'[j] = Text(j, d)
      BY <3>1 DEF Describes, Declare
    <3>4. j \notin outdated' => d = interfaces'[j]
      BY <3>1, <1>2 DEF Describes, Declare
    <3> QED BY <3>2, <3>3, <3>4 DEF Describes
  <2>2. /\ introspection' = introspection
        /\ introspection = [j \in DOMAIN interfaces |-> introspection[j]]
    BY DEF IInv, Texts, Declare
  <2> QED BY <2>1, <2>2, <1>2 DEF Texts
<1>5. Seen'
  <2>1. UNCHANGED seen
    BY DEF Declare
  <2> QED BY <2>1, <1>2, <1>3, StaysSeen DEF IInv
<1>6. Noted'
  <2>1. outdated' \subseteq DOMAIN interfaces'
    BY <1>1, <1>2 DEF IInv, Noted, Declare
  <2>2. changes' \in 0..MaxChanges
    BY FiniteAssumption DEF IInv, Noted, Declare
  <2> QED BY <2>1, <2>2, <1>2 DEF Noted
<1> QED BY <1>2, <1>4, <1>5, <1>6 DEF IInv, Created

\* At first there is no interface.
LEMMA InitStep == ASSUME Init PROVE IInv
<1>1. interfaces \in Finite(Interfaces, Declarations) /\ DOMAIN interfaces = {}
  BY NoMembers DEF Init, Absent
<1>2. introspection = [i \in DOMAIN interfaces |-> introspection[i]]
  BY <1>1 DEF Init, Absent
<1> QED BY <1>1, <1>2, FiniteAssumption DEF Init, IInv, Created, Texts, Seen, Noted

\* A member that is new is in no text and in nothing that was seen; one that is not is
\* declared again.
LEMMA AddMethodStep ==
    ASSUME IInv, NEW i, NEW m \in Members, NEW in \in Lists,
           NEW out \in Types \cup {None, List}, AddMethod(i, m, in, out)
    PROVE  IInv'
<1>1. PICK d, v, M :
        /\ d = interfaces[i]
        /\ v = [in |-> in, out |-> out]
        /\ M = With(d.method, m, v)
  OBVIOUS
<1>2. Declare(i) /\ Redeclare("method", i, m)
  BY DEF AddMethod
<1>3. i \in DOMAIN interfaces /\ d \in Declarations
  BY <1>1, <1>2, FiniteFunction DEF Declare, IInv, Created
<1>4. v \in MethodTypes /\ d.method \in Finite(Members, MethodTypes)
  BY <1>1, <1>3 DEF MethodTypes, Declarations
<1>5. /\ M \in Finite(Members, MethodTypes)
      /\ DOMAIN M = DOMAIN d.method \cup {m}
      /\ \A n \in DOMAIN d.method : M[n] = IF n = m THEN v ELSE d.method[n]
  <2>1. PICK f : f = d.method
    OBVIOUS
  <2>2. f \in Finite(Members, MethodTypes) /\ v \in MethodTypes /\ M = With(f, m, v)
    BY <1>1, <1>4, <2>1
  <2>3. M \in Finite(Members, MethodTypes)
    BY <2>2, WithFinite
  <2>4. /\ DOMAIN M = DOMAIN f \cup {m}
        /\ \A n \in DOMAIN f : M[n] = IF n = m THEN v ELSE f[n]
    BY <2>2 DEF With
  <2> QED BY <2>1, <2>3, <2>4
<1>6. PICK e : e = [d EXCEPT !.method = M]
  OBVIOUS
<1>7. e = [method |-> M, property |-> d.property, signal |-> d.signal]
  BY <1>3, <1>5, <1>6, Declared
<1>8. e \in Declarations
  BY <1>3, <1>5, <1>7 DEF Declarations
<1>9. interfaces' = [interfaces EXCEPT ![i] = e]
  BY <1>1, <1>6 DEF AddMethod
<1>10. interfaces'[i] = e
  BY <1>3, <1>9
<1>11. redeclared' = IF m \in DOMAIN d.method THEN redeclared \cup {<<"method", i, m>>}
                     ELSE redeclared
  BY <1>1, <1>2 DEF Redeclare
<1>12. Keeps(i)
  <2>1. e.method = M /\ e.property = d.property
    BY <1>7
  <2>2. \A n \in DOMAIN d.method : <<"method", i, n>> \notin redeclared' => n # m
    BY <1>11
  <2> QED BY <2>1, <2>2, <1>1, <1>5, <1>10 DEF Keeps
<1>13. /\ redeclared \subseteq redeclared'
       /\ redeclared' \subseteq {"method", "property"} \X (DOMAIN interfaces) \X Members
  <2>1. redeclared \subseteq {"method", "property"} \X (DOMAIN interfaces) \X Members
    BY DEF IInv, Noted
  <2>2. <<"method", i, m>> \in {"method", "property"} \X (DOMAIN interfaces) \X Members
    BY <1>3
  <2> QED BY <2>1, <2>2, <1>11
<1> QED BY <1>2, <1>8, <1>9, <1>12, <1>13, DeclareStep

LEMMA AddPropertyStep ==
    ASSUME IInv, NEW i, NEW p \in Members, NEW type \in Types \cup {None},
           NEW setter \in BOOLEAN, AddProperty(i, p, type, setter)
    PROVE  IInv'
<1>1. PICK d, v, P :
        /\ d = interfaces[i]
        /\ v = [type |-> type, access |-> Access(setter), setter |-> setter]
        /\ P = With(d.property, p, v)
  OBVIOUS
<1>2. Declare(i) /\ Redeclare("property", i, p)
  BY DEF AddProperty
<1>3. i \in DOMAIN interfaces /\ d \in Declarations
  BY <1>1, <1>2, FiniteFunction DEF Declare, IInv, Created
<1>4. v \in PropertyTypes /\ d.property \in Finite(Members, PropertyTypes)
  BY <1>1, <1>3 DEF PropertyTypes, Access, Declarations
<1>5. /\ P \in Finite(Members, PropertyTypes)
      /\ DOMAIN P = DOMAIN d.property \cup {p}
      /\ \A n \in DOMAIN d.property : P[n] = IF n = p THEN v ELSE d.property[n]
  <2>1. PICK f : f = d.property
    OBVIOUS
  <2>2. f \in Finite(Members, PropertyTypes) /\ v \in PropertyTypes /\ P = With(f, p, v)
    BY <1>1, <1>4, <2>1
  <2>3. P \in Finite(Members, PropertyTypes)
    BY <2>2, WithFinite
  <2>4. /\ DOMAIN P = DOMAIN f \cup {p}
        /\ \A n \in DOMAIN f : P[n] = IF n = p THEN v ELSE f[n]
    BY <2>2 DEF With
  <2> QED BY <2>1, <2>3, <2>4
<1>6. PICK e : e = [d EXCEPT !.property = P]
  OBVIOUS
<1>7. e = [method |-> d.method, property |-> P, signal |-> d.signal]
  BY <1>3, <1>5, <1>6, Declared
<1>8. e \in Declarations
  BY <1>3, <1>5, <1>7 DEF Declarations
<1>9. interfaces' = [interfaces EXCEPT ![i] = e]
  BY <1>1, <1>6 DEF AddProperty
<1>10. interfaces'[i] = e
  BY <1>3, <1>9
<1>11. redeclared' = IF p \in DOMAIN d.property THEN redeclared \cup {<<"property", i, p>>}
                     ELSE redeclared
  BY <1>1, <1>2 DEF Redeclare
<1>12. Keeps(i)
  <2>1. e.method = d.method /\ e.property = P
    BY <1>7
  <2>2. \A n \in DOMAIN d.property : <<"property", i, n>> \notin redeclared' => n # p
    BY <1>11
  <2> QED BY <2>1, <2>2, <1>1, <1>5, <1>10 DEF Keeps
<1>13. /\ redeclared \subseteq redeclared'
       /\ redeclared' \subseteq {"method", "property"} \X (DOMAIN interfaces) \X Members
  <2>1. redeclared \subseteq {"method", "property"} \X (DOMAIN interfaces) \X Members
    BY DEF IInv, Noted
  <2>2. <<"property", i, p>> \in {"method", "property"} \X (DOMAIN interfaces) \X Members
    BY <1>3
  <2> QED BY <2>1, <2>2, <1>11
<1> QED BY <1>2, <1>8, <1>9, <1>12, <1>13, DeclareStep

LEMMA AddSignalStep ==
    ASSUME IInv, NEW i, NEW s \in Members, NEW types \in Lists, AddSignal(i, s, types)
    PROVE  IInv'
<1>1. PICK d, S : d = interfaces[i] /\ S = With(d.signal, s, types)
  OBVIOUS
<1>2. Declare(i) /\ UNCHANGED redeclared
  BY DEF AddSignal
<1>3. i \in DOMAIN interfaces /\ d \in Declarations
  BY <1>1, <1>2, FiniteFunction DEF Declare, IInv, Created
<1>4. S \in Finite(Members, Lists)
  <2>1. d.signal \in Finite(Members, Lists)
    BY <1>3 DEF Declarations
  <2> QED BY <2>1, <1>1, WithFinite
<1>5. PICK e : e = [d EXCEPT !.signal = S]
  OBVIOUS
<1>6. e = [method |-> d.method, property |-> d.property, signal |-> S]
  BY <1>3, <1>4, <1>5, Declared
<1>7. e \in Declarations
  BY <1>3, <1>4, <1>6 DEF Declarations
<1>8. interfaces' = [interfaces EXCEPT ![i] = e]
  BY <1>1, <1>5 DEF AddSignal
<1>9. Keeps(i)
  <2>1. interfaces'[i] = e /\ e.method = d.method /\ e.property = d.property
    BY <1>3, <1>6, <1>8
  <2> QED BY <2>1, <1>1 DEF Keeps
<1>10. redeclared' \subseteq {"method", "property"} \X (DOMAIN interfaces) \X Members
  BY <1>2 DEF IInv, Noted
<1> QED BY <1>2, <1>7, <1>8, <1>9, <1>10, DeclareStep

\* The text of interface i is made anew: with createInterface or update.
LEMMA UpdateStep ==
    ASSUME IInv, NEW i, interfaces' \in Finite(Interfaces, Declarations),
           DOMAIN interfaces' = DOMAIN interfaces \cup {i},
           \A j \in DOMAIN interfaces : interfaces'[j] = interfaces[j],
           introspection' = [j \in DOMAIN interfaces' |->
                                IF j = i THEN Text(i, interfaces'[i]) ELSE introspection[j]],
           outdated' = outdated \ {i}, UNCHANGED <<seen, redeclared, changes>>
    PROVE  IInv'
<1>1. \A j \in DOMAIN interfaces : j \in DOMAIN interfaces' /\ Keeps(j)
  BY DEF Keeps
<1>2. Texts'
  <2>1. \A j \in DOMAIN interfaces' : \E d \in Declarations : Describes(j, d)'
    <3> SUFFICES ASSUME NEW j \in DOMAIN interfaces'
                 PROVE  \E d \in Declarations : Describes(j, d)'
      OBVIOUS
    <3>1. CASE j = i
      <4>1. PICK d : d = interfaces'[i]
        OBVIOUS
      <4>2. d \in Declarations
        BY <3>1, <4>1, FiniteFunction
      <4>3. introspection'[j] = Text(j, d)
        BY <3>1, <4>1
      <4>4. Older(j, d)'
        BY <3>1, <4>1 DEF Older
      <4> QED BY <3>1, <4>1, <4>2, <4>3, <4>4 DEF Describes
    <3>2. CASE j # i
      <4>1. j \in DOMAIN interfaces
        BY <3>2
      <4>2. PICK d \in Declarations : Describes(j, d)
        BY <4>1 DEF IInv, Texts
      <4>3. Older(j, d)'
        BY <4>1, <4>2, <1>1, StaysOlder DEF Describes
      <4>4. introspection'[j] = Text(j, d)
        BY <3>2, <4>2 DEF Describes
      <4>5. j \notin outdated' => d = interfaces'[j]
        BY <3>2, <4>1, <4>2 DEF Describes
      <4> QED BY <4>3, <4>4, <4>5 DEF Describes
    <3> QED BY <3>1, <3>2
  <2>2. introspection' = [j \in DOMAIN interfaces' |-> introspection'[j]]
    OBVIOUS
  <2> QED BY <2>1, <2>2 DEF Texts
<1>3. Seen'
  BY <1>1, StaysSeen DEF IInv
<1>4. Noted'
  BY DEF IInv, Noted
<1> QED BY <1>2, <1>3, <1>4 DEF IInv, Created

LEMMA CreateInterfaceStep ==
    ASSUME IInv, NEW i \in Interfaces, CreateInterface(i)
    PROVE  IInv'
<1>1. PICK d : d = IF i \in DOMAIN interfaces THEN interfaces[i] ELSE Empty
  OBVIOUS
<1>2. /\ interfaces' = With(interfaces, i, d)
      /\ introspection' = With(introspection, i, Text(i, d))
      /\ outdated' = outdated \ {i} /\ UNCHANGED <<seen, redeclared, changes>>
  BY <1>1 DEF CreateInterface
<1>3. interfaces \in Finite(Interfaces, Declarations)
  BY DEF IInv, Created
<1>4. d \in Declarations
  BY <1>1, <1>3, FiniteFunction, NoMembers
<1>5. /\ interfaces' \in Finite(Interfaces, Declarations)
      /\ DOMAIN interfaces' = DOMAIN interfaces \cup {i}
      /\ \A j \in DOMAIN interfaces : interfaces'[j] = IF j = i THEN d ELSE interfaces[j]
  <2>1. interfaces' \in Finite(Interfaces, Declarations)
    BY <1>2, <1>3, <1>4, WithFinite
  <2>2. /\ DOMAIN interfaces' = DOMAIN interfaces \cup {i}
        /\ \A j \in DOMAIN interfaces : interfaces'[j] = IF j = i THEN d ELSE interfaces[j]
    BY <1>2 DEF With
  <2> QED BY <2>1, <2>2
<1>6. interfaces'[i] = d /\ \A j \in DOMAIN interfaces : interfaces'[j] = interfaces[j]
  BY <1>1, <1>2, <1>5, WithSame
<1>7. DOMAIN introspection = DOMAIN interfaces
  BY DEF IInv, Texts
<1>8. introspection' = [j \in DOMAIN interfaces' |->
                          IF j = i THEN Text(i, interfaces'[i]) ELSE introspection[j]]
  BY <1>2, <1>5, <1>6, <1>7 DEF With
<1> QED BY <1>2, <1>5, <1>6, <1>8, UpdateStep

LEMMA UpdateTextStep ==
    ASSUME IInv, NEW i \in Interfaces, Update(i)
    PROVE  IInv'
<1>1. /\ i \in DOMAIN interfaces /\ UNCHANGED interfaces
      /\ interfaces' \in Finite(Interfaces, Declarations)
  BY DEF Update, IInv, Created
<1>2. DOMAIN introspection = DOMAIN interfaces
  BY DEF IInv, Texts
<1>3. introspection = [j \in DOMAIN interfaces |-> introspection[j]]
  BY DEF IInv, Texts
<1>4. PICK t : t = Text(i, interfaces[i])
  OBVIOUS
<1>5. introspection' = [introspection EXCEPT ![i] = t]
  BY <1>4 DEF Update
<1>6. introspection' = [j \in DOMAIN interfaces |-> IF j = i THEN t ELSE introspection[j]]
  BY <1>2, <1>3, <1>5
<1>7. outdated' = outdated \ {i} /\ UNCHANGED <<seen, redeclared, changes>>
  BY DEF Update
<1>8. introspection' = [j \in DOMAIN interfaces' |->
                          IF j = i THEN Text(i, interfaces'[i]) ELSE introspection[j]]
  BY <1>1, <1>4, <1>6
<1>9. DOMAIN interfaces' = DOMAIN interfaces \cup {i}
  BY <1>1
<1> QED BY <1>1, <1>7, <1>8, <1>9, UpdateStep

\* The parser's result for the texts as they are, as the declarations g.
LEMMA ObjectDescribed ==
    ASSUME IInv
    PROVE  \E g : /\ CreateObject(Document) = [i \in DOMAIN interfaces |-> Described(g[i])]
                  /\ \A i \in DOMAIN interfaces : g[i] \in Declarations /\ Describes(i, g[i])
<1>1. PICK D : D = DOMAIN interfaces
  OBVIOUS
<1>2. D \in SUBSET Interfaces /\ IsFiniteSet(D)
  BY <1>1, FiniteFunction DEF IInv, Created
<1>3. \A i \in D : \E d \in Declarations : Describes(i, d)
  BY <1>1 DEF IInv, Texts
<1>4. PICK h : h = [i \in D |-> CHOOSE d \in Declarations : Describes(i, d)]
  OBVIOUS
<1>5. \A i \in D : h[i] \in Declarations /\ Describes(i, h[i])
  BY <1>3, <1>4
<1>6. introspection = [i \in D |-> Text(i, h[i])]
  <2>1. introspection = [i \in D |-> introspection[i]]
    BY <1>1 DEF IInv, Texts
  <2>2. \A i \in D : introspection[i] = Text(i, h[i])
    BY <1>5 DEF Describes
  <2> QED BY <2>1, <2>2
<1>7. CreateObject(Document) = [i \in D |-> Described(h[i])]
  BY <1>2, <1>5, <1>6, DocumentParsed
<1> QED BY <1>1, <1>5, <1>7

\* A client sees the interfaces as their texts describe them.
LEMMA IntrospectStep ==
    ASSUME IInv, Introspect
    PROVE  IInv'
<1>1. PICK g : /\ CreateObject(Document) = [i \in DOMAIN interfaces |-> Described(g[i])]
               /\ \A i \in DOMAIN interfaces : g[i] \in Declarations /\ Describes(i, g[i])
  BY ObjectDescribed
<1>2. PICK obj : obj = CreateObject(Document)
  OBVIOUS
<1>3. seen' = [i \in DOMAIN obj |->
                 [method |-> [m \in DOMAIN obj[i].method |-> Len(obj[i].method[m].in)],
                  property |-> obj[i].property]]
  BY <1>2 DEF Introspect
<1>4. UNCHANGED <<interfaces, introspection, outdated, redeclared, changes>>
  BY DEF Introspect
<1>5. ASSUME NEW i \in DOMAIN interfaces
      PROVE  seen'[i] = Kept(g[i])
  <2>1. PICK d : d = g[i]
    OBVIOUS
  <2>2. obj[i] = Described(d) /\ i \in DOMAIN obj
    BY <1>1, <1>2, <1>5, <2>1
  <2>3. obj[i].property = PropertiesOf(d) /\ obj[i].method = MethodsOf(d)
    BY <2>2 DEF Described, PropertiesOf, OfProperty, MethodsOf, OfMethod
  <2>4. [m \in DOMAIN MethodsOf(d) |-> Len(MethodsOf(d)[m].in)]
          = [m \in DOMAIN d.method |-> Len(d.method[m].in)]
    BY DEF MethodsOf, OfMethod
  <2> QED BY <1>3, <2>1, <2>2, <2>3, <2>4 DEF Kept
<1>6. DOMAIN seen' = DOMAIN interfaces
  BY <1>1, <1>2, <1>3
<1>7. Seen'
  <2> SUFFICES ASSUME NEW i \in DOMAIN seen'
               PROVE  /\ i \in DOMAIN interfaces
                      /\ \E d \in Declarations : seen'[i] = Kept(d) /\ Older(i, d)
    BY <1>4 DEF Seen, Older, Kept, PropertiesOf, OfProperty, TypeOf
  <2> QED BY <1>1, <1>5, <1>6 DEF Describes
<1> QED BY <1>4, <1>7 DEF IInv, Created, Texts, Describes, Older, Noted

LEMMA NextStep ==
    ASSUME IInv, [Next]_vars
    PROVE  IInv'
<1>1. ASSUME NEW i \in Interfaces, CreateInterface(i)
      PROVE  IInv'
  BY <1>1, CreateInterfaceStep
<1>2. ASSUME NEW i \in Interfaces, Update(i)
      PROVE  IInv'
  BY <1>2, UpdateTextStep
<1>3. ASSUME NEW i \in Interfaces, NEW m \in Members, NEW in \in Lists,
             NEW out \in Types \cup {None, List}, AddMethod(i, m, in, out)
      PROVE  IInv'
  BY <1>3, AddMethodStep
<1>4. ASSUME NEW i \in Interfaces, NEW p \in Members, NEW type \in Types \cup {None},
             NEW setter \in BOOLEAN, AddProperty(i, p, type, setter)
      PROVE  IInv'
  BY <1>4, AddPropertyStep
<1>5. ASSUME NEW i \in Interfaces, NEW s \in Members, NEW types \in Lists,
             AddSignal(i, s, types)
      PROVE  IInv'
  BY <1>5, AddSignalStep
<1>6. CASE Introspect
  BY <1>6, IntrospectStep
<1>7. CASE UNCHANGED vars
  BY <1>7 DEF vars, IInv, Created, Texts, Describes, Older, Seen, Noted
<1> QED BY <1>1, <1>2, <1>3, <1>4, <1>5, <1>6, <1>7 DEF Next

\* The inductive invariant, for any interfaces and any number of declarations.
THEOREM Invariant == Spec => []IInv
<1>1. Init => IInv
  BY InitStep
<1>2. IInv /\ [Next]_vars => IInv'
  BY NextStep
<1> QED BY <1>1, <1>2, PTL DEF Spec

\* The declared interfaces keep their types, each has a text, and a client knows no
\* interface that does not exist (createInterface of lib/service_object.js, the add
\* methods of lib/service_interface.js).
THEOREM TypeCorrect == Spec => []TypeOK
<1>1. IInv => TypeOK
  <2> SUFFICES ASSUME IInv PROVE TypeOK
    OBVIOUS
  <2>1. /\ DOMAIN interfaces \subseteq Interfaces
        /\ \A i \in DOMAIN interfaces : interfaces[i] \in Declarations
    BY FiniteFunction DEF IInv, Created
  <2>2. ASSUME NEW i \in DOMAIN interfaces
        PROVE  /\ \A m \in DOMAIN interfaces[i].method :
                     interfaces[i].method[m] \in [in : Lists, out : Types \cup {None, List}]
               /\ \A p \in DOMAIN interfaces[i].property :
                     interfaces[i].property[p]
                       \in [type : Types \cup {None}, access : {"read", "readwrite"},
                           setter : BOOLEAN]
               /\ \A s \in DOMAIN interfaces[i].signal : interfaces[i].signal[s] \in Lists
    <3>1. /\ interfaces[i].method \in Finite(Members, MethodTypes)
          /\ interfaces[i].property \in Finite(Members, PropertyTypes)
          /\ interfaces[i].signal \in Finite(Members, Lists)
      BY <2>1, <2>2 DEF Declarations
    <3>2. /\ \A m \in DOMAIN interfaces[i].method : interfaces[i].method[m] \in MethodTypes
          /\ \A p \in DOMAIN interfaces[i].property :
                interfaces[i].property[p] \in PropertyTypes
          /\ \A s \in DOMAIN interfaces[i].signal : interfaces[i].signal[s] \in Lists
      BY <3>1, FiniteFunction
    <3> QED BY <3>2 DEF MethodTypes, PropertyTypes
  <2>3. DOMAIN introspection = DOMAIN interfaces
    BY DEF IInv, Texts
  <2>4. seen = None \/ DOMAIN seen \subseteq DOMAIN interfaces
    BY DEF IInv, Seen
  <2> QED BY <2>1, <2>2, <2>3, <2>4 DEF TypeOK, IInv, Noted
<1> QED BY <1>1, Invariant, PTL

\* The parser of src/introspect.cc makes of an object's document the interfaces as they
\* were declared at their last update, for documents of any length and whatever the order
\* of the interfaces and members: nothing of one ends up in another.
THEOREM DocumentDescribes == Spec => []IsDescribed
<1>1. IInv => IsDescribed
  <2> SUFFICES ASSUME IInv PROVE IsDescribed
    OBVIOUS
  <2>1. PICK g : /\ CreateObject(Document) = [i \in DOMAIN interfaces |-> Described(g[i])]
                 /\ \A i \in DOMAIN interfaces : g[i] \in Declarations /\ Describes(i, g[i])
    BY ObjectDescribed
  <2>2. \A i \in DOMAIN interfaces \ outdated : g[i] = interfaces[i]
    BY <2>1 DEF Describes
  <2> QED BY <2>1, <2>2 DEF IsDescribed
<1> QED BY <1>1, Invariant, PTL

\* A client that does as an introspection said, however old, is served by the interface as
\* it is now, unless the method or property was declared again: its calls reach their
\* handlers (ServiceInterface.call), its Gets and Sets have the type and the setter.
THEOREM ClientIsServed == Spec => []ClientServed
<1>1. IInv => ClientServed
  <2> SUFFICES ASSUME IInv, seen # None, NEW i \in DOMAIN seen
               PROVE  /\ \A m \in DOMAIN seen[i].method :
                            <<"method", i, m>> \notin redeclared =>
                                Outcome(i, m, seen[i].method[m]) = "handled"
                      /\ \A p \in DOMAIN seen[i].property :
                            <<"property", i, p>> \notin redeclared =>
                                /\ GetType(i, p) = IF SetSent(i, p)
                                                   THEN seen[i].property[p].type ELSE "v"
                                /\ seen[i].property[p].access = "readwrite" /\ SetSent(i, p) =>
                                      SetOutcome(i, p) = "handled"
    BY DEF ClientServed
  <2>1. PICK d \in Declarations : seen[i] = Kept(d) /\ Older(i, d)
    BY DEF IInv, Seen
  <2>2. ASSUME NEW m \in DOMAIN seen[i].method, <<"method", i, m>> \notin redeclared
        PROVE  Outcome(i, m, seen[i].method[m]) = "handled"
    <3>1. m \in DOMAIN d.method /\ seen[i].method[m] = Len(d.method[m].in)
      BY <2>1, <2>2 DEF Kept
    <3>2. m \in DOMAIN interfaces[i].method /\ interfaces[i].method[m] = d.method[m]
      BY <2>1, <2>2, <3>1 DEF Older
    <3> QED BY <3>1, <3>2 DEF Outcome
  <2>3. ASSUME NEW p \in DOMAIN seen[i].property, <<"property", i, p>> \notin redeclared
        PROVE  /\ GetType(i, p) = IF SetSent(i, p) THEN seen[i].property[p].type ELSE "v"
               /\ seen[i].property[p].access = "readwrite" /\ SetSent(i, p) =>
                     SetOutcome(i, p) = "handled"
    <3>1. PICK v : v = d.property[p]
      OBVIOUS
    <3>2. p \in DOMAIN d.property /\ seen[i].property[p] = OfProperty(v)
      BY <2>1, <2>3, <3>1 DEF Kept, PropertiesOf
    <3>3. p \in DOMAIN interfaces[i].property /\ interfaces[i].property[p] = v
      BY <2>1, <2>3, <3>1, <3>2 DEF Older
    <3>4. /\ seen[i].property[p].type = TypeOf(v.type)
          /\ seen[i].property[p].access = "readwrite" => v.setter
      BY <3>2 DEF OfProperty
    <3>5. TypeOf(v.type) # "undefined" <=> v.type \in Types
      BY TypesAssumption DEF TypeOf
    <3>6. GetType(i, p) = IF SetSent(i, p) THEN seen[i].property[p].type ELSE "v"
      BY <3>3, <3>4, <3>5 DEF GetType, SetSent, TypeOf
    <3>7. seen[i].property[p].access = "readwrite" => SetOutcome(i, p) = "handled"
      BY <3>3, <3>4 DEF SetOutcome
    <3> QED BY <3>6, <3>7
  <2> QED BY <2>2, <2>3
<1> QED BY <1>1, Invariant, PTL
=============================================================================
