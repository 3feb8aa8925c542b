------------------------------ MODULE MCCodec ------------------------------
(***************************************************************************)
(* Codec for TLC: messages of up to two arguments.  The first is any value *)
(* nested up to two deep, the second one of a few.  The integer types are  *)
(* scaled down, which keeps their order: 8, 16, 32 and 64 bits are 2, 3, 4 *)
(* and 6.                                                                  *)
(***************************************************************************)
EXTENDS Codec

ScaledWidth == [t \in {"y", "n", "q", "i", "u", "x", "t"} |->
    CASE t = "y" -> 2 [] t \in {"n", "q"} -> 3 [] t \in {"i", "u"} -> 4 [] OTHER -> 6]

VARIABLES args, sigs, concrete
vars == <<args, sigs, concrete>>

Num(n) == [num |-> n]

\* Of each type one that fits no smaller one; 40 is beyond a signed 64-bit one.
Leaves == {Null, [bool |-> TRUE], [bool |-> FALSE], [half |-> 1], [text |-> "a"],
           [digits |-> 3]} \cup {Num(n) : n \in {-20, -5, 0, 3, 9, 20, 40}}
Flat == {[arr |-> a] : a \in SeqOf(Leaves, 2)}
        \cup {[obj |-> <<>>]} \cup {[obj |-> <<<<[text |-> "k"], v>>>>] : v \in Leaves}
        \cup {[obj |-> <<<<Num(3), v>>, <<[text |-> "k"], Num(3)>>>>] : v \in Leaves}
Few == {Null, Num(3), Num(-5), [half |-> 1], [text |-> "a"], [arr |-> <<>>], [obj |-> <<>>],
        [arr |-> <<Num(3), Null>>], [arr |-> <<Num(9), Num(-5)>>],
        [obj |-> <<<<[text |-> "k"], Null>>>>],
        [obj |-> <<<<[text |-> "k"], [arr |-> <<Num(0)>>]>>>>]}
Nested == {[arr |-> a] : a \in SeqOf(Few, 2)}
          \cup {[obj |-> <<<<[text |-> "k"], v>>, <<[text |-> "l"], w>>>>] : v, w \in Few}
Values == Leaves \cup Flat \cup Nested

ArrayOf(S) == <<"a", S>>
DictOf(k, S) == <<"a", <<"e", k, S>>>>
Struct(f, g) == <<"r", <<f, g>>>>
Types == {<<t>> : t \in {"b", "y", "n", "i", "u", "x", "t", "d", "s", "v"}}
         \cup {ArrayOf(S) : S \in {<<"y">>, <<"s">>, <<"v">>, ArrayOf(<<"i">>)}}
         \cup {DictOf(<<"s">>, S) : S \in {<<"v">>, <<"d">>, ArrayOf(<<"y">>)}}
         \cup {DictOf(<<"i">>, <<"s">>), ArrayOf(Dict),
               Struct(<<"s">>, <<"i">>), Struct(<<"i">>, ArrayOf(<<"v">>))}

\* A type and the one with concrete types for its variants.
Signatures == {<<S, S>> : S \in Types}
              \cup {<<<<"v">>, <<"i">>>>, <<<<"v">>, ArrayOf(<<"s">>)>>,
                    <<ArrayOf(<<"v">>), ArrayOf(<<"d">>)>>, <<Dict, DictOf(<<"s">>, <<"x">>)>>}

\* Init is a message without arguments; Add is one step of the caller's list.
Init == args = <<>> /\ sigs = <<>> /\ concrete = <<>>

Add(v, s) ==
    /\ args' = Append(args, v)
    /\ sigs' = Append(sigs, s[1])
    /\ concrete' = Append(concrete, s[2])

AddFirst == args = <<>> /\ \E v \in Values, s \in Signatures : Add(v, s)

AddSecond ==
    /\ Len(sigs) = 1
    /\ Len(args) = 1
    /\ \E v \in {Num(9), [text |-> "a"], [arr |-> <<Num(9), Null>>], Null},
          S \in {<<"y">>, <<"v">>, ArrayOf(<<"i">>), ArrayOf(<<"v">>)} : Add(v, <<S, S>>)

\* One more argument than signatures.
AddUnsigned ==
    /\ Len(args) = Len(sigs) /\ Len(args) < 2
    /\ args' = Append(args, Num(3))
    /\ UNCHANGED <<sigs, concrete>>

Next == AddFirst \/ AddSecond \/ AddUnsigned

Spec == Init /\ [][Next]_vars

-----------------------------------------------------------------------------
(* What a value means, apart from how it is encoded.                       *)

Members(v) == {Properties(v)[i][2] : i \in DOMAIN Properties(v)}

\* The integers of each type.
Integers(t) == IF t \in {"n", "i", "x"} THEN -(2^(Width[t] - 1))..(2^(Width[t] - 1) - 1)
               ELSE 0..(2^Width[t] - 1)

\* No array mixes arrays with objects: their common type is that of the objects.
RECURSIVE Plain(_)
Plain(v) ==
    /\ Is(v, "arr") => ~ /\ \A w \in Members(v) : IsObject(w)
                         /\ \E w, x \in Members(v) : Is(w, "arr") /\ Is(x, "obj")
    /\ \A w \in Members(v) : Plain(w)

\* v is a value of type S, or null; so are its members, but those of a struct.
\* Unsigned 64-bit integers are those that are signed ones too.
RECURSIVE Fits(_, _, _)
Fits(v, S, C) ==
    CASE v = Null -> TRUE
      [] S[1] = "v" -> IF C[1] = "v" THEN Plain(v) ELSE Fits(v, C, C)
      [] S[1] = "b" -> Is(v, "bool")
      [] S[1] = "s" -> IsString(v)
      [] S[1] = "d" -> IsNumber(v)
      [] S[1] = "r" -> Is(v, "arr") /\ Len(v.arr) = Len(S[2])
                       /\ Null \notin Members(v)
                       /\ \A i \in DOMAIN S[2] : Fits(v.arr[i], S[2][i], C[2][i])
      [] S[1] = "a" /\ IsDict(S) ->
            /\ Is(v, "obj")
            /\ \A i \in DOMAIN v.obj : Fits(v.obj[i][2], S[2][3], C[2][3])
            /\ S[2][2] # <<"s">> => \A i \in DOMAIN v.obj : Fits(v.obj[i][1], S[2][2], C[2][2])
      [] S[1] = "a" /\ ~IsDict(S) ->
            Is(v, "arr") /\ \A i \in DOMAIN v.arr : Fits(v.arr[i], S[2], C[2])
      [] OTHER -> Is(v, "num") /\ v.num \in Integers(S[1]) /\ v.num \in Integers("x")

\* The values for the fields of a struct with signature S.
Fields(v, S) == SubSeq(Properties(v), 1, Min({Len(Properties(v)), Len(S[2])}))

\* v has the shape of S, but for nulls: an array for an array, an object for a
\* dictionary, either for a struct.
RECURSIVE Shaped(_, _, _)
Shaped(v, S, C) ==
    \/ v = Null
    \/ S[1] = "v" /\ C[1] # "v" /\ Shaped(v, C, C)
    \/ S[1] = "a" /\ IsDict(S) /\ IsObject(v)
       /\ \A w \in Members(v) : Shaped(w, S[2][3], C[2][3])
    \/ S[1] = "a" /\ ~IsDict(S) /\ Is(v, "arr")
       /\ \A w \in Members(v) : Shaped(w, S[2], C[2])
    \/ S[1] = "r" /\ IsObject(v)
       /\ \A i \in DOMAIN Fields(v, S) : Shaped(Fields(v, S)[i][2], S[2][i], C[2][i])
    \/ S[1] \notin {"v", "a", "r"}
    \/ S[1] = "v" /\ C[1] = "v"

UpToNull(seq) ==
    SubSeq(seq, 1, Min({i - 1 : i \in {j \in DOMAIN seq : seq[j] = Null}} \cup {Len(seq)}))

\* What arrives of a value: arrays end at their first null, properties without a
\* value are missing, and a struct of two fields is an object with one property.
RECURSIVE Received(_, _)
Received(v, S) ==
    CASE S[1] = "r" -> [obj |-> <<<<NameOf(v.arr[1]), Received(v.arr[2], <<"v">>)>>>>]
      [] S[1] # "r" /\ Is(v, "arr") ->
            LET kept == UpToNull(v.arr)
            IN  [arr |-> [i \in DOMAIN kept |-> Received(kept[i], <<"v">>)]]
      [] S[1] # "r" /\ Is(v, "obj") ->
            LET kept == SelectSeq(v.obj, LAMBDA p : p[2] # Null)
            IN  [obj |-> [i \in DOMAIN kept |-> <<kept[i][1], Received(kept[i][2], <<"v">>)>>]]
      [] OTHER -> v

-----------------------------------------------------------------------------
(* Arguments that are values of their types arrive as they were sent, but for *)
(* nulls (Received), whether in a call or a signal, with concrete types or     *)
(* without; alone, an argument arrives as itself in a reply.  A signal with    *)
(* too few signatures throws and is not sent with what it has (encoder.cc      *)
(* against decoder.cc, and the loops over arguments).                          *)
RoundTrip ==
    LET sent == 1..Len(sigs)
        r == Arguments(args, sigs, concrete)
    IN  (\A i \in sent : /\ Fits(args[i], sigs[i], concrete[i])
                         /\ sigs[i][1] = "r" => i = Len(sigs)) =>
        /\ ~r.malformed
        /\ DecodeArguments(r.out) =
                LET kept == UpToNull(SubSeq(args, 1, Len(sigs)))
                IN  [i \in DOMAIN kept |-> Received(kept[i], sigs[i])]
        /\ SignalThrows(args, sigs) <=>
                Len(args) > Len(sigs) /\ \A i \in sent : args[i] # Null
        /\ Len(sigs) = 1 /\ concrete = sigs /\ args[1] # Null =>
                DecodeMessage(Reply(args[1], sigs[1]).out) = Received(args[1], sigs[1])

\* A struct without fields, or with a null for one, cannot be closed.
Unclosed(v, S) ==
    /\ S[1] = "r"
    /\ \/ Fields(v, S) = <<>>
       \/ \E i \in DOMAIN Fields(v, S) : Fields(v, S)[i][2] = Null

(* A null makes a malformed message only where it is the field of a struct   *)
(* that is sent (encoder.cc:488-494), and there it does: elsewhere it ends   *)
(* its array or the list of arguments, or leaves out its property.           *)
WellFormed ==
    (\A i \in DOMAIN sigs : Shaped(args[i], sigs[i], concrete[i])) =>
        LET sent == UpToNull(SubSeq(args, 1, Len(sigs)))
        IN  Arguments(args, sigs, concrete).malformed <=>
                \E i \in DOMAIN sent : Unclosed(sent[i], sigs[i])
=============================================================================
