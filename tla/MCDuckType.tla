------------------------------ MODULE MCDuckType ------------------------------
(* DuckType for TLC: a published kind whose schema refers to itself, one     *)
(* whose name is not guessed, and a CRD; integers of 2, 3 and 5 bits, and    *)
(* floats of 4.                                                              *)
EXTENDS DuckType, TLC

CONSTANTS pod, storage, custom

LeafNames == {"int8", "uint8", "int32", "uint32", "int64", "uint64", "count", "ratio",
              "bytes", "port", "name", "on", "map", "free", "either"}
MCIndexes == {"0"}
MCParts == LeafNames \cup MCIndexes \cup
  {"spec", "sub", "n", "list", "nums", "grid", "refs", "far", "any", "bare", "lost",
   "again", "a_b", "a.b"}
MCEscape == [x \in MCParts |-> IF x = "a.b" THEN "a_b" ELSE x]

Leaf(types, format) ==
  [types |-> types, format |-> format, anyOf |-> [types |-> {}, format |-> ""],
   props |-> [x \in MCParts \ MCIndexes |-> None], addl |-> None, items |-> None, ref |-> None]

\* The fields of the root that are scalars.
Leaves ==
  [ int8   |-> Leaf({"integer"}, "int8"),   uint8  |-> Leaf({"integer"}, "uint8"),
    int32  |-> Leaf({"integer"}, "int32"),  uint32 |-> Leaf({"integer"}, "uint32"),
    int64  |-> Leaf({"integer"}, "int64"),  uint64 |-> Leaf({"integer"}, "uint64"),
    count  |-> Leaf({"integer"}, ""),       ratio  |-> Leaf({"number"}, "double"),
    bytes  |-> Leaf({"string"}, "byte"),    port   |-> Leaf({"string"}, "int-or-string"),
    name   |-> Leaf({"string"}, ""),        on     |-> Leaf({"boolean"}, ""),
    map    |-> Leaf({"object"}, ""),        free   |-> Leaf({}, ""),
    either |-> [Leaf({}, "") EXCEPT !.anyOf = [types |-> {"integer", "string"}, format |-> ""]] ]

Object(ps) ==
  [Leaf({"object"}, "") EXCEPT !.props = [x \in MCParts \ MCIndexes |->
     IF x \in DOMAIN ps THEN ps[x] ELSE None]]
ArrayOf(n) == [Leaf({"array"}, "") EXCEPT !.items = n]
RefTo(n) == [Leaf({}, "") EXCEPT !.ref = n]

Others ==
  [ root  |-> Object([x \in LeafNames |-> x]
                     @@ [spec |-> "specRef", a_b |-> "int8", lost |-> "lostRef",
                        again |-> "rootRef"]),
    spec  |-> Object([sub |-> "specRef", n |-> "int32", list |-> "specs", nums |-> "int8s",
                      grid |-> "grid", refs |-> "refs", far |-> "farRef", any |-> "labels"]),
    rootRef |-> RefTo("root"), specRef |-> RefTo("spec"),
    farRef |-> RefTo("int8s"), lostRef |-> RefTo(Broken),
    specs |-> ArrayOf("specRef"), int8s |-> ArrayOf("int8"), grid |-> ArrayOf("int8s"),
    int8Ref |-> RefTo("int8"), refs |-> ArrayOf("int8Ref"),
    labels |-> [Leaf({"object"}, "") EXCEPT !.addl = "name"],
    crd   |-> Object([bare |-> "bare", n |-> "count"]), bare |-> ArrayOf(None),
    empty |-> Object([x \in {} |-> None]) ]

MCNodes  == LeafNames \cup DOMAIN Others
MCSchema == [n \in MCNodes |-> IF n \in LeafNames THEN Leaves[n] ELSE Others[n]]
Deep == { <<"spec", "n">>, <<"spec", "sub", "n">>, <<"spec", "sub", "sub", "n">>,
          <<"spec", "list", "0", "n">>, <<"spec", "list", "0", "list", "0", "nums", "0">>,
          <<"spec", "nums", "0">>, <<"spec", "grid", "0", "0">>, <<"spec", "refs", "0">>,
          <<"spec", "far", "0">>, <<"spec", "any", "name">>, <<"spec", "any", "a.b">>,
          <<"spec", "list", "n">>, <<"spec", "0">>, <<"spec", "lost">>, <<"a.b">>, <<"lost">>,
          <<"lost", "n">>, <<"again", "again", "int8">>, <<"n">>, <<"bare", "0">>, <<"bare", "0", "n">> }
MCPaths == {<<x>> : x \in LeafNames} \cup Deep

PlaceOf(r, p) ==
  LET f[j \in 0..Len(p)] == IF j = 0 THEN r ELSE Described(f[j - 1], p[j])
  IN f
MCPlace == [r \in {"root", "crd", "empty"} |-> [p \in MCPaths |-> PlaceOf(r, p)]]

MCKinds == {pod, storage, custom}
MCNamed == [k \in MCKinds |-> k]
MCGuessed == [k \in MCKinds |-> IF k = storage THEN None ELSE k]
MCPublished == [k \in MCKinds |-> IF k = custom THEN "empty" ELSE "root"]
MCCrd == [k \in MCKinds |-> IF k = custom THEN "crd" ELSE None]

S(kd, form, n) == [kind |-> kd, form |-> form, n |-> n]
Scalars ==
  {Null, S("time", "none", 0), S("bool", "truth", 0), S("bool", "truth", 1)}
    \cup {S("string", form, 0) : form \in {"empty", "novalue", "object", "text", "truth"}}
    \cup {S("string", "truth", 1), S("string", "padded", 1), S("string", "signed", 0),
          S("string", "signed", 3), S("string", "notation", 2), S("string", "notation", 9)}
    \cup {S("string", "nearly", n) : n \in {1, 9}}
    \cup {S(kd, "fraction", 1) : kd \in {"string", "float"}}
    \cup {S(kd, "special", 0) : kd \in {"string", "float"}}
    \cup {S("int", "number", n) : n \in {-16, -9, -5, -4, -2, -1, 0, 1, 2, 3, 4, 7, 8, 15}}
    \cup {S("uint", "number", n) : n \in {16, 31}}
    \cup {S("string", "number", n) : n \in {-17, -16, -9, -8, -5, -4, -3, -1, 0, 1, 2, 3, 4,
                                            7, 8, 9, 11, 15, 16, 31, 32, 59, 60}}
    \cup {S("float", "number", n) : n \in {-20, -16, -8, -5, -4, -3, -1, 0, 1, 2, 3, 4, 7, 8,
                                           10, 12, 14, 16, 32}}

\* Objects of one scalar, and some of two and three.
Few == {S("string", "number", 1), S("float", "number", 16), S("string", "text", 0)}
Some == { <<"spec", "n">>, <<"spec", "list", "0", "n">>, <<"spec", "refs", "0">>,
          <<"bare", "0">>, <<"name">> }
MCObjects ==
  {[q \in {p} |-> v] : p \in MCPaths, v \in Scalars}
    \cup UNION {[{p, q, r} -> Few] : p \in Some, q \in Some, r \in Some}
===============================================================================
