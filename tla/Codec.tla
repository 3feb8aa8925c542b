------------------------------- MODULE Codec -------------------------------
(***************************************************************************)
(* The conversion of JavaScript values to D-Bus messages and back:         *)
(* src/encoder.cc, src/decoder.cc, and the loops over arguments in         *)
(* CallMethod (src/dbus.cc), EmitSignal (src/signal.cc) and                *)
(* _SendMessageReply (src/object_handler.cc).                              *)
(*                                                                         *)
(* A message body is a sequence of typed items, as libdbus's iterators     *)
(* append and read them.  libdbus is external: it does not notice that a   *)
(* container is left open, or is closed with too little in it, and sends   *)
(* the malformed message.                                                  *)
(***************************************************************************)
EXTENDS Integers, Sequences, SequencesExt, TLC

CONSTANT Width    \* the width of each integer type, in bits

ASSUME WidthAssumption == \A t \in {"y", "n", "q", "i", "u", "x", "t"} : Width[t] \in Nat

(***************************************************************************)
(* JavaScript values: null (or undefined), [bool], [num] an integer, [half]*)
(* a number that is an integer and a half, [digits] the string of an       *)
(* integer, [text] any other string, [arr] a sequence of values, [obj] a   *)
(* sequence of properties <<key, value>>.  A property name that is an      *)
(* array index is a number, as GetPropertyNames returns it.                *)
(*                                                                         *)
(* Signatures: <<>> of nothing, <<t>> of a basic type or variant,          *)
(* <<"a", s>>, <<"a", <<"e", k, v>>>> a dictionary, <<"r", fields>>.       *)
(* "o", "g" and "h" are left out.                                          *)
(***************************************************************************)
Null == [null |-> TRUE]
Undefined == [undefined |-> TRUE]
Broken == [broken |-> TRUE]       \* whatever reading past a value gives
NaN == [nan |-> TRUE]

Is(v, kind) == DOMAIN v = {kind}
IsString(v) == Is(v, "text") \/ Is(v, "digits")
IsObject(v) == Is(v, "arr") \/ Is(v, "obj")
IsDict(S) == S[1] = "a" /\ S[2][1] = "e"

\* GetPropertyNames with the values.
Properties(v) ==
    CASE Is(v, "obj") -> v.obj
      [] Is(v, "arr") -> [i \in DOMAIN v.arr |-> <<[num |-> i - 1], v.arr[i]>>]
      [] OTHER -> <<>>

-----------------------------------------------------------------------------
(* The signature of a value (GetSignatureFromV8Type).                      *)

InUnsigned(n, t) == n \in 0..(2^Width[t] - 1)
InSigned(n, t) == n \in -(2^(Width[t] - 1))..(2^(Width[t] - 1) - 1)

IsByte(v) == Is(v, "num") /\ InUnsigned(v.num, "y")
IsUint32(v) == Is(v, "num") /\ InUnsigned(v.num, "u")
IsInt32(v) == Is(v, "num") /\ InSigned(v.num, "i")
IsNumber(v) == Is(v, "num") \/ Is(v, "half") \/ v = NaN

Dict == <<"a", <<"e", <<"s">>, <<"v">>>>>>

\* CheckArrayItems.
AllItems(seq, Test(_)) == \A i \in DOMAIN seq : Test(seq[i])

RECURSIVE SignatureOf(_)

\* The signature of a non-empty array: of the kind its elements share.
ArraySignatureOf(items) ==
    LET last == SignatureOf(items[Len(items)])
    IN  CASE AllItems(items, LAMBDA v : Is(v, "bool")) -> <<"a", <<"b">>>>
          [] AllItems(items, IsByte) -> <<"a", <<"y">>>>
          [] AllItems(items, IsUint32) -> <<"a", <<"u">>>>
          [] AllItems(items, IsInt32) -> <<"a", <<"i">>>>
          [] AllItems(items, IsNumber) -> <<"a", <<"d">>>>
          [] AllItems(items, IsString) -> <<"a", <<"s">>>>
          [] AllItems(items, LAMBDA v : Is(v, "arr")) ->
                IF AllItems(items, LAMBDA v : SignatureOf(v) = last)
                THEN <<"a", last>> ELSE <<"a", <<"a", <<"v">>>>>>
          [] AllItems(items, IsObject) -> <<"a", Dict>>
          [] OTHER -> <<"a", <<"v">>>>

SignatureOf(v) ==
    CASE v = Null -> <<>>
      [] Is(v, "bool") -> <<"b">>
      [] IsByte(v) -> <<"y">>
      [] IsUint32(v) -> <<"u">>
      [] IsInt32(v) -> <<"i">>
      [] IsNumber(v) -> <<"d">>
      [] IsString(v) -> <<"s">>
      [] Is(v, "arr") -> IF v.arr = <<>> THEN <<"a", <<"v">>>>
                         ELSE ArraySignatureOf(v.arr)
      [] OTHER -> Dict

-----------------------------------------------------------------------------
(* Encoding (EncodeObject).  The result of encoding a value: what was      *)
(* appended, whether true was returned, and whether the message was made   *)
(* malformed.                                                              *)

Appended(items) == [ok |-> TRUE, out |-> items, malformed |-> FALSE]
Failed == [ok |-> FALSE, out |-> <<>>, malformed |-> FALSE]

\* NumberValue; an array is converted through its text.
RECURSIVE AsNumber(_)
AsNumber(v) ==
    CASE IsNumber(v) -> v
      [] Is(v, "digits") -> [num |-> v.digits]
      [] Is(v, "bool") -> [num |-> IF v.bool THEN 1 ELSE 0]
      [] v \in {[text |-> ""], [arr |-> <<>>], [arr |-> <<Null>>]} -> [num |-> 0]
      [] Is(v, "arr") /\ Len(v.arr) = 1 /\ v.arr[1] # Null /\ ~Is(v.arr[1], "bool") ->
            AsNumber(v.arr[1])
      [] OTHER -> NaN

\* Truncated; NaN is 0.
AsInteger(v) ==
    LET n == AsNumber(v)
    IN  CASE Is(n, "num") -> n.num
          [] Is(n, "half") -> IF n.half < 0 THEN n.half + 1 ELSE n.half
          [] OTHER -> 0

\* IntegerValue: the nearest 64-bit integer.
IntegerValue(v) ==
    LET n == AsInteger(v)
        m == 2^(Width["x"] - 1)
    IN  IF n >= m THEN m - 1 ELSE IF n < -m THEN -m ELSE n

AsBoolean(v) ==
    v \notin {[bool |-> FALSE], [num |-> 0], NaN, [text |-> ""]}

\* ToString; that of a container is some text.
AsString(v) ==
    CASE IsString(v) -> v
      [] Is(v, "num") -> [digits |-> v.num]
      [] OTHER -> [text |-> ToString(v)]

\* Seeded fault: a byte is read as a signed character.
WrapSignedBytes(n, t) ==
    LET m == 2^Width[t]
    IN  IF t \in {"y", "n", "i", "x"} THEN ((n + (m \div 2)) % m) - (m \div 2) ELSE n % m

\* The cast to the C type of t.
Wrap(n, t) ==
    LET m == 2^Width[t]
    IN  IF t \in {"n", "i", "x"} THEN ((n + (m \div 2)) % m) - (m \div 2) ELSE n % m

\* The value of v as basic type t.
Basic(v, t) ==
    CASE t = "b" -> [bool |-> AsBoolean(v)]
      [] t = "s" -> AsString(v)
      [] t = "d" -> AsNumber(v)
      [] t \in {"i", "u"} -> [num |-> Wrap(AsInteger(v), t)]
      [] OTHER -> [num |-> Wrap(IntegerValue(v), t)]

RECURSIVE EncodeObject(_, _, _)

\* Items of an array: the first one that fails ends the array, which is still
\* closed and counts as encoded.
EncodeItems(items, S, C) ==
    FoldLeft(LAMBDA r, v :
                IF ~r.ok THEN r
                ELSE LET e == EncodeObject(v, S, C)
                     IN  [ok |-> e.ok, out |-> r.out \o e.out,
                          malformed |-> r.malformed \/ e.malformed],
             Appended(<<>>), items)

\* Seeded fault: a null value is not skipped, and fails.
SkippedNever(p) == FALSE

\* Properties without a value are no dictionary entries.
Skipped(p) == p[2] = Null

\* Entries of a dictionary with element signature <<"e", key, value>>: one that
\* fails is closed, ends the dictionary, and makes it fail.
EncodeEntries(props, S, C) ==
    FoldLeft(LAMBDA r, p :
                IF ~r.ok \/ Skipped(p) THEN r
                ELSE LET k == EncodeObject(p[1], S[2], C[2])
                         v == EncodeObject(p[2], S[3], C[3])
                     IN  [ok |-> v.ok,
                          out |-> Append(r.out,
                                    [type |-> "e", items |-> k.out \o v.out]),
                          malformed |-> r.malformed \/ v.malformed \/ ~v.ok],
             Appended(<<>>), props)

\* Fields of a struct, as many as there are values and signatures.
EncodeFields(props, S, C) ==
    FoldLeft(LAMBDA r, i :
                IF ~r.ok THEN r
                ELSE LET e == EncodeObject(props[i][2], S[i], C[i])
                     IN  [ok |-> e.ok, out |-> r.out \o e.out,
                          malformed |-> r.malformed \/ e.malformed],
             Appended(<<>>),
             [i \in 1..(IF Len(props) < Len(S) THEN Len(props) ELSE Len(S)) |-> i])

\* An array is opened before the value is known to be one.
EncodeArray(v, S, C) ==
    CASE ~IsObject(v) -> Failed
      [] IsObject(v) /\ IsDict(S) ->
            LET r == EncodeEntries(Properties(v), S[2], C[2])
            IN  [r EXCEPT !.out = <<[type |-> "a", of |-> S[2], items |-> @]>>]
      [] Is(v, "obj") /\ ~IsDict(S) -> [Failed EXCEPT !.malformed = TRUE]
      [] OTHER ->
            LET r == EncodeItems(v.arr, S[2], C[2])
            IN  [ok |-> TRUE, malformed |-> r.malformed,
                 out |-> <<[type |-> "a", of |-> S[2], items |-> r.out]>>]

\* A variant takes the concrete signature, or that of the value.  When the value
\* fails, it is closed empty.
EncodeVariant(v, C) ==
    LET sig == IF C = <<"v">> THEN SignatureOf(v) ELSE C
        e == EncodeObject(v, sig, sig)
    IN  [ok |-> e.ok, malformed |-> e.malformed \/ ~e.ok,
         out |-> <<[type |-> "v", items |-> e.out]>>]

\* A struct is left open when one of its fields fails.
EncodeStruct(v, S, C) ==
    LET r == EncodeFields(Properties(v), S[2], C[2])
    IN  [ok |-> r.ok, malformed |-> r.malformed \/ ~r.ok \/ r.out = <<>>,
         out |-> <<[type |-> "r", items |-> r.out]>>]

\* S is the declared signature, C the one with concrete types for variants.
EncodeObject(v, S, C) ==
    CASE v = Null -> Failed
      [] S = <<>> -> Appended(<<>>)
      [] S[1] = "a" -> EncodeArray(v, S, C)
      [] S[1] = "v" -> EncodeVariant(v, C)
      [] S[1] = "r" -> EncodeStruct(v, S, C)
      [] OTHER -> Appended(<<[type |-> S[1], value |-> Basic(v, S[1])]>>)

-----------------------------------------------------------------------------
(* Decoding (DecodeMessageIter).  Decoding the item at i of a level gives  *)
(* the value and the position the iterator is left at.                     *)

\* result->Set: a name that is an array index is one, however it was written.
NameOf(key) ==
    CASE Is(key, "num") /\ key.num >= 0 -> key
      [] Is(key, "digits") /\ key.digits >= 0 -> [num |-> key.digits]
      [] Is(key, "num") /\ key.num < 0 -> [digits |-> key.num]
      [] OTHER -> AsString(key)

Put(props, key, v) ==
    LET name == NameOf(key)
        at == {i \in DOMAIN props : props[i][1] = name}
    IN  IF at = {} THEN Append(props, <<name, v>>)
        ELSE [i \in DOMAIN props |-> IF i \in at THEN <<name, v>> ELSE props[i]]

RECURSIVE DecodeMessageIter(_, _)

\* An entry of a dictionary or, with the same code, a struct: the first item of
\* the container is the key and the next one the value.
PutEntry(props, items) ==
    LET k == DecodeMessageIter(items, 1)
    IN  CASE items = <<>> -> props
          [] items # <<>> /\ k.at < Len(items) ->
                Put(props, k.value, DecodeMessageIter(items, k.at + 1).value)
          [] OTHER -> Put(props, k.value, Undefined)

\* The values of a level, as an array or as arguments.
DecodeItems(items) ==
    LET step[i \in 1..(Len(items) + 1)] ==
            IF i > Len(items) THEN <<>>
            ELSE LET d == DecodeMessageIter(items, i)
                 IN  <<d.value>> \o step[d.at + 1]
    IN  step[1]

\* An array of entries is an object, even when it is empty.
DecodesAsDict(w) == w.of[1] = "e"

\* Decoding a struct goes on over all items behind it, as if they were structs:
\* what is no container cannot be read so.
DecodeStructs(items, i) ==
    LET rest == SubSeq(items, i, Len(items))
    IN  IF \E j \in DOMAIN rest : "value" \in DOMAIN rest[j] \/ rest[j].items = <<>> THEN Broken
        ELSE [obj |-> FoldLeft(LAMBDA o, w : PutEntry(o, w.items), <<>>, rest)]

DecodeMessageIter(items, i) ==
    LET w == items[i]
    IN  CASE w.type = "v" ->
                [value |-> DecodeMessageIter(w.items, 1).value, at |-> i]
          [] w.type = "r" -> [value |-> DecodeStructs(items, i), at |-> Len(items)]
          [] w.type = "a" ->
                [value |-> IF DecodesAsDict(w)
                           THEN [obj |-> FoldLeft(LAMBDA o, e : PutEntry(o, e.items),
                                                  <<>>, w.items)]
                           ELSE [arr |-> DecodeItems(w.items)],
                 at |-> i]
          [] OTHER -> [value |-> w.value, at |-> i]

\* DecodeArguments: of a request or a signal.
DecodeArguments(body) == DecodeItems(body)

\* DecodeMessage: of a reply.
DecodeMessage(body) ==
    LET values == DecodeItems(body)
    IN  CASE body = <<>> -> Undefined
          [] Len(values) = 1 -> values[1]
          [] OTHER -> [arr |-> values]

-----------------------------------------------------------------------------
(* Messages.  Whatever fails, the message is sent with what it has.        *)

\* CallMethod appends the arguments, as many as there are signatures, up to the
\* first that fails.
Arguments(args, sigs, concrete) ==
    EncodeFields([i \in DOMAIN args |-> <<Null, args[i]>>], sigs, concrete)

\* EmitSignal throws when an argument has no signature and none before it fails.
SignalThrows(args, sigs) ==
    Len(args) > Len(sigs) /\ Arguments(args, sigs, sigs).ok

\* _SendMessageReply appends the one value of the reply.
Reply(v, sig) == EncodeObject(v, sig, sig)
=============================================================================
