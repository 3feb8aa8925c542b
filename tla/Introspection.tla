--------------------------- MODULE Introspection ---------------------------
(***************************************************************************)
(* What an object says of its interfaces and what a client makes of it:    *)
(* addMethod, addProperty, addSignal, update, call, getProperty and         *)
(* setProperty of ServiceInterface (lib/service_interface.js),             *)
(* createInterface, updateIntrospection, Get and Set of ServiceObject      *)
(* (lib/service_object.js), setProperty of the client (lib/interface.js)   *)
(* and the parser (src/introspect.cc).                                     *)
(*                                                                         *)
(* An XML document is the sequence of its start elements: the parser has   *)
(* no handler for the ends.  libexpat is external.                         *)
(***************************************************************************)
EXTENDS Integers, FiniteSets, Sequences, SequencesExt

CONSTANTS Interfaces,   \* names of interfaces
          Members,      \* names of methods, properties and signals
          Types,        \* signatures of values
          Lists,        \* the argument lists that are declared
          Children,     \* the names of the nodes below the object
          MaxChanges,   \* bound: declarations
          None

ASSUME ListsAssumption == Lists \subseteq Seq(Types)
ASSUME TypesAssumption == Types \cap {None, "undefined"} = {}
ASSUME FiniteAssumption == IsFiniteSet(Children) /\ MaxChanges \in Nat

VARIABLES interfaces,     \* the declared members of each created interface
          introspection,  \* the text of each interface, as of its last update
          seen,           \* what the client keeps of its last introspection
          outdated,       \* interfaces changed since their last update
          redeclared,     \* <<kind, i, m>>: methods and properties that were declared again
          changes         \* the number of declarations

vars == <<interfaces, introspection, seen, outdated, redeclared, changes>>

\* A list where one definition is expected: it has no property type.
List == "list"

Absent == [x \in {} |-> None]

\* Function f, with v at x.
With(f, x, v) == [y \in DOMAIN f \cup {x} |-> IF y = x THEN v ELSE f[y]]

TypeOK ==
    /\ \A i \in DOMAIN interfaces :
        /\ \A m \in DOMAIN interfaces[i].method :
              interfaces[i].method[m] \in [in : Lists, out : Types \cup {None, List}]
        /\ \A p \in DOMAIN interfaces[i].property :
              interfaces[i].property[p]
                \in [type : Types \cup {None}, access : {"read", "readwrite"},
                    setter : BOOLEAN]
        /\ \A s \in DOMAIN interfaces[i].signal : interfaces[i].signal[s] \in Lists
    /\ DOMAIN interfaces \subseteq Interfaces
    /\ DOMAIN introspection = DOMAIN interfaces
    /\ outdated \subseteq DOMAIN interfaces
    /\ redeclared \subseteq {"method", "property"} \X (DOMAIN interfaces) \X Members
    /\ seen = None \/ DOMAIN seen \subseteq DOMAIN interfaces
    /\ changes \in 0..MaxChanges

Init ==
    /\ interfaces = Absent
    /\ introspection = Absent
    /\ seen = None
    /\ outdated = {}
    /\ redeclared = {}
    /\ changes = 0

-----------------------------------------------------------------------------
(* The text of an interface.                                               *)

\* The property type of a definition; of none or a list it is "undefined".
TypeOf(def) == IF def \in Types THEN def ELSE "undefined"

Arguments(list, direction) ==
    [n \in DOMAIN list |-> [tag |-> "arg", direction |-> direction, type |-> TypeOf(list[n])]]

\* The texts of a function, one after the other.
Joined(texts) ==
    LET order == SetToSeq(DOMAIN texts)
    IN  FlattenSeq([n \in DOMAIN order |-> texts[order[n]]])

MethodText(iface, m) ==
    <<[tag |-> "method", name |-> m]>> \o Arguments(iface.method[m].in, "in")
    \o (IF iface.method[m].out = None THEN <<>>
        ELSE Arguments(<<iface.method[m].out>>, "out"))

PropertyText(iface, p) ==
    <<[tag |-> "property", name |-> p, type |-> TypeOf(iface.property[p].type),
       access |-> iface.property[p].access]>>

SignalText(iface, s) ==
    <<[tag |-> "signal", name |-> s]>> \o Arguments(iface.signal[s], None)

\* update.
Text(i, iface) ==
    <<[tag |-> "interface", name |-> i]>>
    \o Joined([m \in DOMAIN iface.method |-> MethodText(iface, m)])
    \o Joined([p \in DOMAIN iface.property |-> PropertyText(iface, p)])
    \o Joined([s \in DOMAIN iface.signal |-> SignalText(iface, s)])

\* updateIntrospection: the interfaces, then the nodes below.
Document ==
    <<[tag |-> "node", name |-> None]>>
    \o Joined(introspection)
    \o SetToSeq({[tag |-> "node", name |-> c] : c \in Children})

-----------------------------------------------------------------------------
(* The parser.  Its state: the result, the class of the last element and   *)
(* the names of the interface and the member it is in.                     *)

Nothing == [obj |-> None, class |-> "none", interface |-> None, member |-> None]

\* An interface without members.
Empty == [method |-> Absent, property |-> Absent, signal |-> Absent]

\* Only the outermost node starts an object.
Node(p, e) == IF p.class = "none" THEN [p EXCEPT !.obj = Absent, !.class = "root"] ELSE p

Interface(p, e) ==
    [p EXCEPT !.obj = With(@, e.name, Empty), !.interface = e.name]

Method(p, e) ==
    [p EXCEPT !.obj[p.interface].method = With(@, e.name, [in |-> <<>>, out |-> <<>>]),
              !.class = "method", !.member = e.name]

Property(p, e) ==
    [p EXCEPT !.obj[p.interface].property =
                    With(@, e.name, [type |-> e.type, access |-> e.access]),
              !.class = "property"]

\* Seeded fault: the class is left as it was.
SignalKeepsClass(p, e) ==
    [p EXCEPT !.obj[p.interface].signal = With(@, e.name, <<>>), !.member = e.name]

Signal(p, e) ==
    [p EXCEPT !.obj[p.interface].signal = With(@, e.name, <<>>),
              !.class = "signal", !.member = e.name]

\* Seeded fault: every argument of a method goes in.
ArgAllIn(p, e) ==
    IF p.class # "method" THEN p
    ELSE [p EXCEPT !.obj[p.interface].method[p.member].in = Append(@, e.type)]

\* An argument goes out unless it says that it goes in.
Arg(p, e) ==
    CASE p.class = "method" /\ e.direction = "in" ->
            [p EXCEPT !.obj[p.interface].method[p.member].in = Append(@, e.type)]
      [] p.class = "method" /\ e.direction # "in" ->
            [p EXCEPT !.obj[p.interface].method[p.member].out = Append(@, e.type)]
      [] p.class = "signal" ->
            [p EXCEPT !.obj[p.interface].signal[p.member] = Append(@, e.type)]
      [] OTHER -> p

StartElementHandler(p, e) ==
    CASE e.tag = "node" -> Node(p, e)
      [] e.tag = "interface" -> Interface(p, e)
      [] e.tag = "method" -> Method(p, e)
      [] e.tag = "property" -> Property(p, e)
      [] e.tag = "signal" -> Signal(p, e)
      [] e.tag = "arg" -> Arg(p, e)

\* The parser's state after elements, from state p.
Parsed(p, elements) ==
    LET state[n \in 0..Len(elements)] ==
            IF n = 0 THEN p ELSE StartElementHandler(state[n - 1], elements[n])
    IN  state[Len(elements)]

CreateObject(document) == Parsed(Nothing, document).obj

-----------------------------------------------------------------------------
(* The service.                                                            *)

\* Seeded fault: a new interface has no text before its first update.
CreateInterfaceOnly(i) ==
    LET iface == IF i \in DOMAIN interfaces THEN interfaces[i] ELSE Empty
    IN  /\ interfaces' = With(interfaces, i, iface)
        /\ UNCHANGED <<introspection, outdated, seen, redeclared, changes>>

\* createInterface: an interface that exists is kept, and updated.
CreateInterface(i) ==
    LET iface == IF i \in DOMAIN interfaces THEN interfaces[i] ELSE Empty
    IN  /\ interfaces' = With(interfaces, i, iface)
        /\ introspection' = With(introspection, i, Text(i, iface))
        /\ outdated' = outdated \ {i}
        /\ UNCHANGED <<seen, redeclared, changes>>

Declare(i) ==
    /\ changes < MaxChanges
    /\ i \in DOMAIN interfaces
    /\ changes' = changes + 1
    /\ outdated' = outdated \cup {i}
    /\ UNCHANGED <<introspection, seen>>

\* A client's introspection may know the member as it was.
Redeclare(kind, i, m) ==
    redeclared' = IF m \in DOMAIN interfaces[i][kind]
                  THEN redeclared \cup {<<kind, i, m>>} ELSE redeclared

AddMethod(i, m, in, out) ==
    /\ Declare(i)
    /\ interfaces' = [interfaces EXCEPT ![i].method = With(@, m, [in |-> in, out |-> out])]
    /\ Redeclare("method", i, m)

Access(setter) == IF setter THEN "readwrite" ELSE "read"

AddProperty(i, p, type, setter) ==
    /\ Declare(i)
    /\ interfaces' = [interfaces EXCEPT ![i].property =
            With(@, p, [type |-> type, access |-> Access(setter), setter |-> setter])]
    /\ Redeclare("property", i, p)

AddSignal(i, s, types) ==
    /\ Declare(i)
    /\ interfaces' = [interfaces EXCEPT ![i].signal = With(@, s, types)]
    /\ UNCHANGED redeclared

Update(i) ==
    /\ i \in DOMAIN interfaces
    /\ introspection' = [introspection EXCEPT ![i] = Text(i, interfaces[i])]
    /\ outdated' = outdated \ {i}
    /\ UNCHANGED <<interfaces, seen, redeclared, changes>>

\* The method Introspect, called by a client that parses the answer.  Its methods
\* take the number of arguments from there, its setProperty the type.
Introspect ==
    /\ LET obj == CreateObject(Document)
       IN  seen' = [i \in DOMAIN obj |->
                       [method |-> [m \in DOMAIN obj[i].method |->
                                       Len(obj[i].method[m].in)],
                        property |-> obj[i].property]]
    /\ UNCHANGED <<interfaces, introspection, outdated, redeclared, changes>>

\* ServiceInterface.call with n arguments: what becomes of the call.
Outcome(i, m, n) ==
    IF m \notin DOMAIN interfaces[i].method THEN "UnknownMethod"
    ELSE IF n # Len(interfaces[i].method[m].in) THEN "InvalidArgs"
    ELSE "handled"

\* The type of the reply to Get (DefineByPropName): without a property type the
\* definition is 'Auto'.
GetType(i, p) ==
    LET type == interfaces[i].property[p].type
    IN  IF type \in Types THEN type ELSE "v"

\* setProperty of a client: with the type it has seen the signature must be valid.
SetSent(i, p) == seen[i].property[p].type # "undefined"

\* Set: what becomes of it in the service.
SetOutcome(i, p) ==
    IF p \notin DOMAIN interfaces[i].property THEN "Failed"
    ELSE IF ~interfaces[i].property[p].setter THEN "throws"
    ELSE "handled"

Next ==
    \/ \E i \in Interfaces : CreateInterface(i) \/ Update(i)
    \/ \E i \in Interfaces, m \in Members, in \in Lists, out \in Types \cup {None, List} :
            AddMethod(i, m, in, out)
    \/ \E i \in Interfaces, p \in Members, type \in Types \cup {None}, setter \in BOOLEAN :
            AddProperty(i, p, type, setter)
    \/ \E i \in Interfaces, s \in Members, types \in Lists : AddSignal(i, s, types)
    \/ Introspect

Spec == Init /\ [][Next]_vars

-----------------------------------------------------------------------------
(* What a client should see of an interface.                               *)
Described(iface) ==
    [method |-> [m \in DOMAIN iface.method |->
                    [in |-> iface.method[m].in,
                     out |-> IF iface.method[m].out = None THEN <<>>
                             ELSE <<TypeOf(iface.method[m].out)>>]],
     property |-> [p \in DOMAIN iface.property |->
                    [type |-> TypeOf(iface.property[p].type),
                     access |-> IF iface.property[p].setter THEN "readwrite" ELSE "read"]],
     signal |-> iface.signal]

(* The object's document describes all interfaces, and each as it is declared  *)
(* now unless it was changed after its last update: elements of one interface, *)
(* method or signal do not end up in another one, and the nodes below take     *)
(* nothing away (ServiceInterface.update against StartElementHandler).         *)
IsDescribed ==
    LET obj == CreateObject(Document)
    IN  /\ DOMAIN obj = DOMAIN interfaces
        /\ \A i \in DOMAIN interfaces \ outdated : obj[i] = Described(interfaces[i])

(* A client that does as its introspection says is served, however old that is  *)
(* and whatever was declared and not updated since, for methods and properties  *)
(* that were declared once: a call is not refused, a Get has a value of the     *)
(* type, and a Set of one to be written, if it can be sent, reaches its setter. *)
ClientServed ==
    seen # None =>
        \A i \in DOMAIN seen :
            /\ \A m \in DOMAIN seen[i].method :
                <<"method", i, m>> \notin redeclared =>
                    Outcome(i, m, seen[i].method[m]) = "handled"
            /\ \A p \in DOMAIN seen[i].property :
                LET known == seen[i].property[p]
                IN  <<"property", i, p>> \notin redeclared =>
                        /\ GetType(i, p) = IF SetSent(i, p) THEN known.type ELSE "v"
                        /\ known.access = "readwrite" /\ SetSent(i, p) =>
                              SetOutcome(i, p) = "handled"
=============================================================================
