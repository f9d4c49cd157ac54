----------------------------- MODULE TypedField -----------------------------
(***************************************************************************)
(* What src/k8s/schema_manager.go makes of one scalar of a rendered object *)
(* when it knows the type of its field (the transform functions), and what *)
(* the type of the field promises.                                         *)
(*                                                                         *)
(* A scalar has a kind, the Go type that holds it, and a form: it denotes  *)
(* the whole number n in one of the spellings that strconv tells apart, a  *)
(* number with decimals, a truth value or something else.  A "fraction" is *)
(* a number with decimals that is still one as a float64, and n is what is *)
(* left of it without them; one whose nearest float64 is a whole number,   *)
(* that of n, is "nearly" n.  The form "special" is NaN or an infinity.    *)
(***************************************************************************)
EXTENDS Integers

CONSTANTS
  Half8, Half32, Half64,  \* 2^7, 2^31 and 2^63; TLC takes smaller ones
  Exact,  \* 2^53: a float64 holds every whole number up to it, of either sign
  Units   \* what lies between larger ones: 1, 2, 4 and so on up to 2^971

ASSUME WidthsAssumption ==
  /\ Half8 \in Nat \ {0} /\ Half32 \in Nat /\ Half64 \in Nat
  /\ Half8 < Half32 /\ Half32 < Half64

ASSUME UnitsAssumption ==
  Exact \in Nat \ {0} /\ Units \subseteq Nat \ {0} /\ {1, 2} \subseteq Units

Signed(half)   == (-half)..(half - 1)
Unsigned(half) == 0..(2 * half - 1)

SignedFormats   == {"int8", "int32", "int64"}
UnsignedFormats == {"uint8", "uint32", "uint64"}
IntFormats      == SignedFormats \cup UnsignedFormats
Formats         == IntFormats \cup {"", "double", "byte", "int-or-string", "other"}
TypeNames       == {"string", "integer", "boolean", "object", "number", "array"}

\* TypedField; one that is not known stands for nil, and for an error.
Field  == [known: BOOLEAN, types: SUBSET TypeNames, format: Formats]
NoType == [known |-> FALSE, types |-> {}, format |-> ""]

Number(kind, n) == [kind |-> kind, form |-> "number", n |-> n]
Null  == [kind |-> "null", form |-> "none", n |-> 0]
Error == [kind |-> "error", form |-> "none", n |-> 0]

\* How whole numbers are spelled in strings: as they are printed, with zeros
\* in front, with a sign that says nothing (+5, -0), or as floats (7.0, 7e0).
Spellings == {"number", "padded", "signed", "notation"}

\* What the decoders of YAML yield: a float for every number, or else an int,
\* a uint for what no int can hold, and a float; and time stamps.
Scalar ==
  {Null, [kind |-> "time", form |-> "none", n |-> 0]}
    \cup [kind: {"int"}, form: {"number"}, n: Signed(Half64)]
    \cup [kind: {"uint"}, form: {"number"}, n: Half64..(2 * Half64 - 1)]
    \cup [kind: {"float"}, form: {"number"}, n: Int]
    \cup [kind: {"float", "string"}, form: {"fraction"}, n: (-Exact)..Exact]
    \cup [kind: {"float", "string"}, form: {"special"}, n: {0}]
    \cup [kind: {"bool"}, form: {"truth"}, n: {0, 1}]
    \cup [kind: {"string"}, form: {"number", "padded", "notation", "nearly"}, n: Int]
    \cup [kind: {"string"}, form: {"signed"}, n: Nat]
    \cup [kind: {"string"}, form: {"truth"}, n: {0, 1}]
    \cup [kind: {"string"}, form: {"empty", "novalue", "object", "text"}, n: {0}]

Forms == Spellings \cup {"none", "fraction", "nearly", "special", "truth", "empty",
                         "novalue", "object", "text"}
Value == [kind: {"null", "bool", "int", "uint", "float", "string", "bytes", "object"},
          form: Forms, n: Int]

-----------------------------------------------------------------------------
(* The conversions.                                                        *)

\* Bits of a format, as ParseInt and ParseUint are told.  (First uint8 as if
\* it had a sign, for a mutant.)
RangeSigned(format) ==
  CASE format \in {"int8", "uint8"} -> Signed(Half8)
    [] format = "int32" -> Signed(Half32)
    [] format = "int64" -> Signed(Half64)
    [] format = "uint32" -> Unsigned(Half32)
    [] format = "uint64" -> Unsigned(Half64)
RangeOf(format) ==
  CASE format = "int8" -> Signed(Half8)
    [] format = "int32" -> Signed(Half32)
    [] format = "int64" -> Signed(Half64)
    [] format = "uint8" -> Unsigned(Half8)
    [] format = "uint32" -> Unsigned(Half32)
    [] format = "uint64" -> Unsigned(Half64)

Distance(m, n) == IF m < n THEN n - m ELSE m - n

\* What strconv.ParseInt and Atoi read, or ParseUint, where an empty string is
\* 0.  Neither reads a number that is written like a float.
Read(kind) == {"number", "padded", "empty"} \cup (IF kind = "int" THEN {"signed"} ELSE {})

\* ParseInt, ParseUint and Atoi.  (First without a look at the error, for a
\* mutant: then the nearest number is taken.)
ParseNearest(kind, range, v) ==
  IF v.form \in Read(kind)
    THEN Number(kind, CHOOSE m \in range : \A k \in range : Distance(m, v.n) <= Distance(k, v.n))
    ELSE Error
Parse(kind, range, v) ==
  IF v.form \in Read(kind) /\ v.n \in range THEN Number(kind, v.n) ELSE Error

\* The floats around n are the multiples of u.
UnitAt(n, u) ==
  /\ Distance(n, 0) <= Exact * u
  /\ u # 1 => Exact * u < 2 * Distance(n, 0)

\* The multiple of u that is nearest to n, the even one of two.
Rounded(n, u) ==
  LET up == 2 * (n % u) > u \/ (2 * (n % u) = u /\ (n \div u) % 2 = 1)
  IN u * (n \div u + (IF up THEN 1 ELSE 0))

\* ParseFloat, which reads all that denotes a number, and fails where the
\* nearest float64 would be larger than the largest.
Floats(n) == {x \in {Rounded(n, u) : u \in {u \in Units : UnitAt(n, u)}} :
                \E u \in Units : Distance(x, 0) < Exact * u}
ParseFloat(v) ==
  CASE v.form \in {"fraction", "special"} -> [v EXCEPT !.kind = "float"]
    [] v.form \in Spellings \cup {"nearly", "empty"} /\ Floats(v.n) # {} ->
         Number("float", CHOOSE x \in Floats(v.n) : TRUE)
    [] OTHER -> Error

KindFor(format) == IF format \in UnsignedFormats THEN "uint" ELSE "int"

Truth(b) == [kind |-> "bool", form |-> "truth", n |-> IF b THEN 1 ELSE 0]

\* What a string is made into: the format first, then the types in this order.
StringWant(f) ==
  IF f.format \in IntFormats \cup {"double", "byte"} THEN f.format
  ELSE IF "string" \in f.types THEN "string"
  ELSE IF "integer" \in f.types THEN "integer"
  ELSE IF "boolean" \in f.types THEN "boolean"
  ELSE IF "object" \in f.types THEN "object"
  ELSE "nothing"

\* transformStringToType.  The int32 format calls Atoi, whose int has 64 bits.
TransformString(v, f) ==
  LET want == StringWant(f)
  IN CASE v.form = "novalue" -> Null
       [] v.form # "novalue" /\ want = "int32" -> Parse("int", Signed(Half64), v)
       [] v.form # "novalue" /\ want \in IntFormats \ {"int32"} ->
            Parse(KindFor(want), RangeOf(want), v)
       [] v.form # "novalue" /\ want = "double" -> ParseFloat(v)
       [] v.form # "novalue" /\ want = "byte" -> [v EXCEPT !.kind = "bytes"]
       [] v.form # "novalue" /\ want = "string" -> v
       [] v.form # "novalue" /\ want = "integer" -> Parse("int", Signed(Half64), v)
       [] v.form # "novalue" /\ want = "boolean" ->
            IF v.form = "truth" \/ (v.form = "number" /\ v.n \in {0, 1})
              THEN Truth(v.n = 1) ELSE Error
       [] v.form # "novalue" /\ want = "object" ->
            IF v.form = "object" THEN [v EXCEPT !.kind = "object"] ELSE Error
       [] OTHER -> Error

NumberWant(f) ==
  IF f.format \in IntFormats \cup {"int-or-string"} THEN f.format
  ELSE IF "integer" \in f.types THEN "integer"
  ELSE IF "string" \in f.types THEN "string"
  ELSE IF "boolean" \in f.types THEN "boolean"
  ELSE "nothing"

\* transformInt64ToType and transformUint64ToType, which parses an int64 as if
\* it had no sign.
TransformNumber(v, f) ==
  LET want == NumberWant(f)
  IN CASE want = "int64" /\ v.kind = "uint" -> Parse("uint", Unsigned(Half64), v)
       [] want \in IntFormats /\ (want # "int64" \/ v.kind = "int") ->
            Parse(KindFor(want), RangeOf(want), v)
       [] want = "int-or-string" -> v
       [] want = "integer" -> Parse("int", Signed(Half64), v)
       [] want = "string" -> [v EXCEPT !.kind = "string"]
       [] want = "boolean" -> Truth(v.n # 0)
       [] OTHER -> Error

\* transformBoolToType.
TransformBool(v, f) ==
  IF "boolean" \in f.types THEN v
  ELSE IF "string" \in f.types THEN [v EXCEPT !.kind = "string"]
  ELSE Error

\* int64(v.Float()) as amd64 has it, for which the image is built: what is
\* out of range, or not a number, becomes the least int64.
Whole(v) ==
  Number("int", IF v.form # "special" /\ v.n \in Signed(Half64) THEN v.n ELSE -Half64)

\* duckType of a scalar whose field is f.
Convert(v, f) ==
  CASE v.kind = "null" -> Null
    [] v.kind = "string" -> IF f.known THEN TransformString(v, f) ELSE v
    [] v.kind \in {"int", "uint"} -> IF f.known THEN TransformNumber(v, f) ELSE v
    [] v.kind = "float" -> IF f.known THEN TransformNumber(Whole(v), f) ELSE Whole(v)
    [] v.kind = "bool" -> IF f.known THEN TransformBool(v, f) ELSE v
    [] OTHER -> Error

-----------------------------------------------------------------------------
(* What a field promises, read off its type.                               *)

\* The integers of a format.
Width(format) == CASE format \in {"int8", "uint8"} -> Half8
                   [] format \in {"int32", "uint32"} -> Half32
                   [] format \in {"int64", "uint64"} -> Half64
Fits(n, format) ==
  n \in IF format \in SignedFormats THEN Signed(Width(format)) ELSE Unsigned(Width(format))

\* What a float64 may hold for n: n itself up to Exact, and what is within half
\* of a unit of it beyond.
Near(m, n) ==
  \/ m = n
  \/ /\ n \notin (-Exact)..Exact
     /\ \E u \in Units : UnitAt(n, u) /\ 2 * Distance(m, n) <= u

IsInteger(v) == v.kind \in {"int", "uint"}

\* Only integers have a format of integers.
Sound(f) == f.format \in IntFormats => f.types \subseteq {"integer", "number"}

\* v is a value of the type f.
Admits(f, v) ==
  IF f.format \in IntFormats
    THEN IsInteger(v) /\ Fits(v.n, f.format)
    ELSE \/ "integer" \in f.types /\ IsInteger(v) /\ v.n \in Signed(Half64)
         \/ "string" \in f.types /\ v.kind = "string"
         \/ "boolean" \in f.types /\ v.kind = "bool"
         \/ "object" \in f.types /\ v.kind = "object"
         \/ f.format = "int-or-string" /\ (IsInteger(v) \/ v.kind = "string")
         \/ f.format = "double" /\ v.kind = "float"
         \/ f.format = "byte" /\ v.kind = "bytes"

\* The field f has room for what the scalar g denotes, spelled so that strconv
\* reads it.  No conversion is made for a number in a field of the type number
\* or of none, unless it is a string in a double, of several types a scalar
\* only gets the first, and a float is first cut to an int64.
HasRoom(f, g) ==
  LET free == f.format \notin IntFormats \cup {"double"}
      whole == g.kind = "float" => g.form = "number" /\ g.n \in Signed(Half64)
  IN \/ whole /\ f.format \in IntFormats /\ g.form \in Read(KindFor(f.format)) /\ Fits(g.n, f.format)
     \/ whole /\ free /\ "integer" \in f.types /\ g.form \in Read("int") /\ g.n \in Signed(Half64)
     \/ whole /\ free /\ "string" \in f.types /\ "integer" \notin f.types /\ g.form = "number"
     \/ free /\ "string" \in f.types /\ g.kind \in {"string", "bool"}
     \/ f.format = "double" /\ g.kind = "string" /\ g.form \in Spellings /\ g.n \in (-Exact)..Exact
     \/ "boolean" \in f.types /\ g.kind = "bool"
     \/ /\ free /\ g.kind = "string" /\ g.form = "object"
        /\ f.types \cap {"integer", "boolean"} = {} /\ "object" \in f.types
=============================================================================
