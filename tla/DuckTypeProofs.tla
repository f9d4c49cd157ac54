--------------------------- MODULE DuckTypeProofs ---------------------------
(***************************************************************************)
(* Proofs about DuckType and the conversions of TypedField, for any        *)
(* schemas, kinds and objects that the assumptions allow, and integers of  *)
(* any widths.                                                             *)
(***************************************************************************)
EXTENDS DuckType, FiniteSetTheorems, TLAPS

-----------------------------------------------------------------------------
(* The conversions.                                                        *)

\* What a scalar can be, by its kind.
Shape(g) ==
  /\ g = [kind |-> g.kind, form |-> g.form, n |-> g.n] /\ g.n \in Int
  /\ g.kind \in {"null", "time", "int", "uint", "float", "bool", "string"}
  /\ g.kind \in {"null", "time"} => g.form = "none"
  /\ g.kind = "null" => g = Null
  /\ g.kind = "int" => g.form = "number" /\ g.n \in Signed(Half64)
  /\ g.kind = "uint" => g.form = "number" /\ g.n \in Unsigned(Half64) \ Signed(Half64)
  /\ g.kind = "float" => g.form \in {"number", "fraction", "special"}
  /\ g.kind = "bool" => g.form = "truth"
  /\ g.kind = "string" => g.form \in Forms \ {"none"}
  /\ g.form = "empty" => g.n = 0

LEMMA ScalarShape == ASSUME NEW g \in Scalar PROVE Shape(g)
BY WidthsAssumption, UnitsAssumption DEF Scalar, Shape, Null, Signed, Unsigned, Forms, Spellings

\* The widths hold what the code takes them to hold, and lie within 64 bits.
LEMMA Widths ==
  /\ \A fmt \in IntFormats, n \in Int : n \in RangeOf(fmt) <=> Fits(n, fmt)
  /\ \A fmt \in SignedFormats : RangeOf(fmt) \subseteq Signed(Half64)
  /\ \A fmt \in UnsignedFormats : RangeOf(fmt) \subseteq Unsigned(Half64)
  /\ Signed(Half64) \subseteq Int /\ Unsigned(Half64) \subseteq Int
<1>1. \A fmt \in IntFormats, n \in Int : n \in RangeOf(fmt) <=> Fits(n, fmt)
  BY DEF IntFormats, SignedFormats, UnsignedFormats, RangeOf, Fits, Width
<1>2. \A fmt \in SignedFormats : RangeOf(fmt) \subseteq Signed(Half64)
  BY WidthsAssumption DEF SignedFormats, RangeOf, Signed
<1>3. \A fmt \in UnsignedFormats : RangeOf(fmt) \subseteq Unsigned(Half64)
  BY WidthsAssumption DEF UnsignedFormats, RangeOf, Unsigned
<1>4. Signed(Half64) \subseteq Int /\ Unsigned(Half64) \subseteq Int
  BY WidthsAssumption DEF Signed, Unsigned
<1> QED BY <1>1, <1>2, <1>3, <1>4

\* Rounding keeps within half a unit.
LEMMA RoundedNear ==
  ASSUME NEW n \in Int, NEW u \in Nat \ {0}
  PROVE  Rounded(n, u) \in Int /\ 2 * Distance(Rounded(n, u), n) <= u
<1> DEFINE q == n \div u
           r == n % u
<1>1. q \in Int /\ r \in 0..(u - 1) /\ n = u * q + r
  OBVIOUS
<1>2. u * q \in Int /\ u * (q + 1) = u * q + u /\ u * (q + 0) = u * q
  BY <1>1
<1>3. Rounded(n, u) = u * q \/ Rounded(n, u) = u * q + u
  BY <1>2 DEF Rounded
<1>4. /\ Rounded(n, u) = u * q => 2 * r <= u
      /\ Rounded(n, u) = u * q + u => 2 * r >= u
  BY <1>1, <1>2 DEF Rounded
<1> HIDE DEF q, r
<1>5. CASE Rounded(n, u) = u * q
  BY <1>1, <1>2, <1>4, <1>5 DEF Distance
<1>6. CASE Rounded(n, u) = u * q + u
  BY <1>1, <1>2, <1>4, <1>6 DEF Distance
<1> QED BY <1>3, <1>5, <1>6

\* Up to Exact the units are 1.
LEMMA UnitsExact ==
  ASSUME NEW n \in (-Exact)..Exact, NEW u \in Units
  PROVE  UnitAt(n, u) <=> u = 1
<1>1. Distance(n, 0) \in 0..Exact /\ Exact \in Nat \ {0} /\ u \in Nat \ {0}
  BY UnitsAssumption DEF Distance
<1>2. CASE u = 1
  BY <1>1, <1>2 DEF UnitAt
<1>3. CASE u # 1
  <2>1. Exact * u >= 2 * Exact
    BY <1>1, <1>3
  <2>2. Exact * u \in Nat
    BY <1>1
  <2> QED BY <1>1, <1>3, <2>1, <2>2 DEF UnitAt
<1> QED BY <1>2, <1>3

\* A float64 has whole numbers up to Exact, and is the nearest beyond.
LEMMA FloatsNear ==
  ASSUME NEW n \in Int
  PROVE  /\ \A x \in Floats(n) : x \in Int /\ Near(x, n)
         /\ n \in (-Exact)..Exact => Floats(n) = {n}
<1>1. ASSUME NEW x \in Floats(n)
      PROVE  \E u \in Units : /\ u \in Nat \ {0} /\ UnitAt(n, u) /\ x = Rounded(n, u)
                              /\ x \in Int /\ 2 * Distance(x, n) <= u
  BY RoundedNear, UnitsAssumption DEF Floats
<1>2. ASSUME n \in (-Exact)..Exact
      PROVE  Floats(n) = {n}
  <2>1. Rounded(n, 1) = n
    BY DEF Rounded
  <2>2. {u \in Units : UnitAt(n, u)} = {1}
    BY <1>2, UnitsExact, UnitsAssumption
  <2>3. Distance(n, 0) < Exact * 2 /\ 2 \in Units
    BY <1>2, UnitsAssumption DEF Distance
  <2> QED BY <2>1, <2>2, <2>3 DEF Floats
<1>3. ASSUME NEW x \in Floats(n)
      PROVE  x \in Int /\ Near(x, n)
  <2>1. CASE n \in (-Exact)..Exact
    BY <1>2, <1>3, <2>1 DEF Near
  <2>2. CASE n \notin (-Exact)..Exact
    BY <1>1, <2>2 DEF Near
  <2> QED BY <2>1, <2>2
<1> QED BY <1>2, <1>3
\* What a scalar denotes is kept, as NumbersKept has it.
Keeps(v, g) ==
  LET float == v.kind = "float" /\ v.form = "number" /\ Near(v.n, g.n)
  IN /\ (g.form \in Spellings /\ (g.kind = "float" => g.n \in Signed(Half64)))
          => (v.kind = "bool" \/ (v.form \in Spellings /\ v.n = g.n) \/ float)
     /\ (g.kind = "string" /\ g.form \in {"fraction", "special"})
          => (v.form = g.form /\ v.n = g.n)
     /\ (g.kind = "string" /\ g.form = "nearly")
          => ((v.form = "nearly" /\ v.n = g.n) \/ float)

\* What a conversion may yield.
Good(v, f, g) ==
  v # Error =>
    /\ v \in Value /\ Keeps(v, g)
    /\ (f.known /\ Sound(f) /\ v.kind # "null") => (Admits(f, v) \/ Wider(f, g))

\* strconv keeps to the range it is given.
LEMMA ParseGood ==
  ASSUME NEW kd \in {"int", "uint"}, NEW r \in SUBSET Int, NEW g, Shape(g)
  PROVE  LET v == Parse(kd, r, g)
         IN v # Error => /\ v \in Value /\ v.kind = kd /\ v.form = "number"
                         /\ v.n = g.n /\ v.n \in r /\ Keeps(v, g)
BY DEF Parse, Read, Number, Error, Value, Forms, Spellings, Shape, Keeps

LEMMA ParseFloatGood ==
  ASSUME NEW g, Shape(g), g.kind = "string"
  PROVE  LET v == ParseFloat(g)
         IN v # Error => v \in Value /\ v.kind = "float" /\ Keeps(v, g)
<1> DEFINE v == ParseFloat(g)
<1>0. g.n \in Int /\ g = [kind |-> g.kind, form |-> g.form, n |-> g.n]
  BY DEF Shape
<1>1. CASE g.form \in {"fraction", "special"}
  <2>1. v = [kind |-> "float", form |-> g.form, n |-> g.n]
    BY <1>0, <1>1 DEF ParseFloat, Spellings
  <2> QED BY <1>0, <1>1, <2>1 DEF Value, Forms, Spellings, Keeps
<1>2. CASE g.form \in Spellings \cup {"nearly", "empty"} /\ Floats(g.n) # {}
  <2>1. PICK x \in Floats(g.n) : v = Number("float", x)
    BY <1>2 DEF ParseFloat, Spellings
  <2>2. x \in Int /\ Near(x, g.n)
    BY <1>0, FloatsNear
  <2> QED BY <1>2, <2>1, <2>2 DEF Number, Value, Forms, Spellings, Keeps
<1>3. CASE ~(g.form \in {"fraction", "special"}
             \/ (g.form \in Spellings \cup {"nearly", "empty"} /\ Floats(g.n) # {}))
  BY <1>3 DEF ParseFloat
<1> QED BY <1>1, <1>2, <1>3

LEMMA ParseTakes ==
  ASSUME NEW kd \in {"int", "uint"}, NEW r, NEW g, g.form \in Read(kd), g.n \in r
  PROVE  Parse(kd, r, g) # Error
BY DEF Parse, Number, Error

\* A parsed number is what a format of integers asks for.
LEMMA ParsedAdmitted ==
  ASSUME NEW f \in Field, NEW v, IsInteger(v), v.n \in Int,
         f.format \in IntFormats, v.n \in RangeOf(f.format)
  PROVE  Admits(f, v)
BY Widths DEF Admits

LEMMA StringGood ==
  ASSUME NEW f \in Field, NEW g, Shape(g), g.kind = "string", f.known
  PROVE  Good(TransformString(g, f), f, g)
<1> DEFINE want == StringWant(f)
           v == TransformString(g, f)
<1>0. /\ f.types \subseteq TypeNames /\ f.format \in Formats
      /\ g.n \in Int /\ g.form # "none"
      /\ g.form \in Forms /\ Spellings \subseteq Forms
      /\ g = [kind |-> g.kind, form |-> g.form, n |-> g.n]
  BY DEF Field, Shape, Forms
<1>1. CASE g.form = "novalue"
  <2>1. v = Null
    BY <1>1 DEF TransformString
  <2> QED BY <2>1, <1>1 DEF Good, Null, Value, Forms, Spellings, Keeps
<1>2. CASE g.form # "novalue" /\ want = "int32"
  <2>1. v = Parse("int", Signed(Half64), g) /\ f.format = "int32"
    BY <1>2 DEF TransformString, StringWant, IntFormats, SignedFormats, UnsignedFormats
  <2>2. Wider(f, g)
    BY <2>1 DEF Wider
  <2> QED BY <2>1, <2>2, ParseGood, Widths DEF Good
<1>3. CASE g.form # "novalue" /\ want \in IntFormats \ {"int32"}
  <2>1. v = Parse(KindFor(want), RangeOf(want), g) /\ f.format = want
    BY <1>3 DEF TransformString, StringWant, IntFormats, SignedFormats, UnsignedFormats
  <2>2. KindFor(want) \in {"int", "uint"} /\ RangeOf(want) \in SUBSET Int
    BY <1>3, Widths DEF KindFor, IntFormats
  <2>3. v # Error => v \in Value /\ IsInteger(v) /\ v.n \in RangeOf(want) /\ Keeps(v, g)
    BY <2>1, <2>2, ParseGood DEF IsInteger
  <2>4. v # Error => Admits(f, v)
    BY <1>3, <2>1, <2>2, <2>3, ParsedAdmitted
  <2> QED BY <2>3, <2>4 DEF Good
<1>4. CASE g.form # "novalue" /\ want = "double"
  <2>1. f.format = "double"
    BY <1>4 DEF StringWant, IntFormats, SignedFormats, UnsignedFormats
  <2>2. v = ParseFloat(g)
    BY <1>4 DEF TransformString, IntFormats, SignedFormats, UnsignedFormats
  <2>3. v # Error => v \in Value /\ v.kind = "float" /\ Keeps(v, g)
    BY <1>0, <2>2, ParseFloatGood
  <2> QED BY <2>1, <2>3 DEF Good, Admits, IntFormats, SignedFormats, UnsignedFormats
<1>5. CASE g.form # "novalue" /\ want = "byte"
  <2>1. f.format = "byte"
    BY <1>5 DEF StringWant, IntFormats, SignedFormats, UnsignedFormats
  <2>2. v = [g EXCEPT !.kind = "bytes"]
    BY <1>5 DEF TransformString, IntFormats, SignedFormats, UnsignedFormats
  <2>3. v \in Value /\ v.kind = "bytes" /\ Keeps(v, g)
    BY <1>0, <2>2 DEF Value, Keeps, Shape, Spellings
  <2> QED BY <2>1, <2>3 DEF Good, Admits, IntFormats, SignedFormats, UnsignedFormats
<1>6. CASE g.form # "novalue" /\ want = "string"
  <2>1. "string" \in f.types /\ f.format \notin IntFormats
    BY <1>6 DEF StringWant, IntFormats, SignedFormats, UnsignedFormats
  <2>2. v = g
    BY <1>6 DEF TransformString, IntFormats, SignedFormats, UnsignedFormats
  <2>3. v \in Value /\ Keeps(v, g)
    BY <1>0, <2>2 DEF Value, Keeps, Shape, Spellings
  <2> QED BY <2>1, <2>2, <2>3 DEF Good, Admits
<1>7. CASE g.form # "novalue" /\ want = "integer"
  <2>1. "integer" \in f.types /\ f.format \notin IntFormats
    BY <1>7 DEF StringWant, IntFormats, SignedFormats, UnsignedFormats
  <2>2. v = Parse("int", Signed(Half64), g)
    BY <1>7 DEF TransformString, IntFormats, SignedFormats, UnsignedFormats
  <2>3. v # Error => v \in Value /\ IsInteger(v) /\ v.n \in Signed(Half64) /\ Keeps(v, g)
    BY <2>2, ParseGood, Widths DEF IsInteger
  <2> QED BY <2>1, <2>3 DEF Good, Admits
<1>8. CASE g.form # "novalue" /\ want = "boolean"
  <2>1. "boolean" \in f.types /\ f.format \notin IntFormats
    BY <1>8 DEF StringWant, IntFormats, SignedFormats, UnsignedFormats
  <2>2. v = IF g.form = "truth" \/ (g.form = "number" /\ g.n \in {0, 1})
              THEN Truth(g.n = 1) ELSE Error
    BY <1>8 DEF TransformString, IntFormats, SignedFormats, UnsignedFormats
  <2>3. v # Error => v \in Value /\ v.kind = "bool" /\ g.form \in {"truth", "number"}
    BY <2>2 DEF Truth, Value, Forms, Spellings
  <2> QED BY <2>1, <2>3 DEF Good, Admits, Keeps, Spellings
<1>9. CASE g.form # "novalue" /\ want = "object"
  <2>1. "object" \in f.types /\ f.format \notin IntFormats
    BY <1>9 DEF StringWant, IntFormats, SignedFormats, UnsignedFormats
  <2>2. v = IF g.form = "object" THEN [g EXCEPT !.kind = "object"] ELSE Error
    BY <1>9 DEF TransformString, IntFormats, SignedFormats, UnsignedFormats
  <2>3. v # Error => v \in Value /\ v.kind = "object" /\ g.form = "object"
    BY <1>0, <2>2 DEF Value
  <2> QED BY <2>1, <2>3 DEF Good, Admits, Keeps, Spellings
<1>10. CASE g.form # "novalue" /\ want = "nothing"
  <2>1. v = Error
    BY <1>10 DEF TransformString, IntFormats, SignedFormats, UnsignedFormats
  <2> QED BY <2>1 DEF Good
<1>11. want \in IntFormats \cup {"double", "byte", "string", "integer", "boolean", "object", "nothing"}
  BY DEF StringWant
<1> QED BY <1>1, <1>2, <1>3, <1>4, <1>5, <1>6, <1>7, <1>8, <1>9, <1>10, <1>11

LEMMA NumberGood ==
  ASSUME NEW f \in Field, NEW g, Shape(g), g.kind \in {"int", "uint"}, f.known
  PROVE  Good(TransformNumber(g, f), f, g)
<1> DEFINE want == NumberWant(f)
           v == TransformNumber(g, f)
<1>0. /\ f.types \subseteq TypeNames /\ f.format \in Formats
      /\ g.n \in Int /\ g.form = "number"
      /\ g = [kind |-> g.kind, form |-> g.form, n |-> g.n]
  BY DEF Field, Shape
<1>1. CASE want = "int64" /\ g.kind = "uint"
  <2>1. v = Parse("uint", Unsigned(Half64), g) /\ f.format = "int64"
    BY <1>1 DEF TransformNumber, NumberWant, IntFormats, SignedFormats, UnsignedFormats
  <2>2. Wider(f, g)
    BY <1>1, <2>1 DEF Wider
  <2> QED BY <2>1, <2>2, ParseGood, Widths DEF Good
<1>2. CASE want \in IntFormats /\ (want # "int64" \/ g.kind = "int")
  <2>1. v = Parse(KindFor(want), RangeOf(want), g) /\ f.format = want
    BY <1>2 DEF TransformNumber, NumberWant, IntFormats, SignedFormats, UnsignedFormats
  <2>2. KindFor(want) \in {"int", "uint"} /\ RangeOf(want) \in SUBSET Int
    BY <1>2, Widths DEF KindFor, IntFormats
  <2>3. v # Error => v \in Value /\ IsInteger(v) /\ v.n \in RangeOf(want) /\ Keeps(v, g)
    BY <2>1, <2>2, ParseGood DEF IsInteger
  <2>4. v # Error => Admits(f, v)
    BY <1>2, <2>1, <2>2, <2>3, ParsedAdmitted
  <2> QED BY <2>3, <2>4 DEF Good
<1>3. CASE want = "int-or-string"
  <2>1. v = g /\ f.format = "int-or-string"
    BY <1>3 DEF TransformNumber, NumberWant, IntFormats, SignedFormats, UnsignedFormats
  <2>2. v \in Value /\ Keeps(v, g)
    BY <1>0, <2>1 DEF Value, Keeps, Forms, Spellings
  <2> QED BY <2>1, <2>2 DEF Good, Admits, IsInteger, IntFormats, SignedFormats, UnsignedFormats
<1>4. CASE want = "integer"
  <2>1. "integer" \in f.types /\ f.format \notin IntFormats
    BY <1>4 DEF NumberWant, IntFormats, SignedFormats, UnsignedFormats
  <2>2. v = Parse("int", Signed(Half64), g)
    BY <1>4 DEF TransformNumber, IntFormats, SignedFormats, UnsignedFormats
  <2>3. v # Error => v \in Value /\ IsInteger(v) /\ v.n \in Signed(Half64) /\ Keeps(v, g)
    BY <2>2, ParseGood, Widths DEF IsInteger
  <2> QED BY <2>1, <2>3 DEF Good, Admits
<1>5. CASE want = "string"
  <2>1. "string" \in f.types /\ f.format \notin IntFormats
    BY <1>5 DEF NumberWant, IntFormats, SignedFormats, UnsignedFormats
  <2>2. v = [g EXCEPT !.kind = "string"]
    BY <1>5 DEF TransformNumber, IntFormats, SignedFormats, UnsignedFormats
  <2>3. v \in Value /\ v.kind = "string" /\ Keeps(v, g)
    BY <1>0, <2>2 DEF Value, Keeps, Forms, Spellings
  <2> QED BY <2>1, <2>3 DEF Good, Admits
<1>6. CASE want = "boolean"
  <2>1. "boolean" \in f.types /\ f.format \notin IntFormats
    BY <1>6 DEF NumberWant, IntFormats, SignedFormats, UnsignedFormats
  <2>2. v = Truth(g.n # 0)
    BY <1>6 DEF TransformNumber, IntFormats, SignedFormats, UnsignedFormats
  <2>3. v \in Value /\ v.kind = "bool" /\ Keeps(v, g)
    BY <1>0, <2>2 DEF Value, Keeps, Truth, Forms, Spellings
  <2> QED BY <2>1, <2>3 DEF Good, Admits
<1>7. CASE want = "nothing"
  <2>1. v = Error
    BY <1>7 DEF TransformNumber, IntFormats, SignedFormats, UnsignedFormats
  <2> QED BY <2>1 DEF Good
<1>8. want \in IntFormats \cup {"int-or-string", "integer", "string", "boolean", "nothing"}
  BY DEF NumberWant
<1> QED BY <1>1, <1>2, <1>3, <1>4, <1>5, <1>6, <1>7, <1>8

LEMMA BoolGood ==
  ASSUME NEW f \in Field, NEW g, Shape(g), g.kind = "bool", f.known
  PROVE  Good(TransformBool(g, f), f, g)
<1>0. /\ g.n \in Int /\ g.form = "truth"
      /\ g = [kind |-> g.kind, form |-> g.form, n |-> g.n]
  BY DEF Shape
<1>1. CASE "boolean" \in f.types
  <2>1. TransformBool(g, f) = g
    BY <1>1 DEF TransformBool
  <2>2. g \in Value /\ Keeps(g, g)
    BY <1>0 DEF Value, Keeps, Forms, Spellings
  <2>3. Sound(f) => f.format \notin IntFormats
    BY <1>1 DEF Sound
  <2> QED BY <1>1, <2>1, <2>2, <2>3 DEF Good, Admits
<1>2. CASE "boolean" \notin f.types /\ "string" \in f.types
  <2>1. TransformBool(g, f) = [g EXCEPT !.kind = "string"]
    BY <1>2 DEF TransformBool
  <2> DEFINE v == [g EXCEPT !.kind = "string"]
  <2>2. v \in Value /\ v.kind = "string" /\ Keeps(v, g)
    BY <1>0 DEF Value, Keeps, Forms, Spellings
  <2>3. Sound(f) => f.format \notin IntFormats
    BY <1>2 DEF Sound
  <2> QED BY <1>2, <2>1, <2>2, <2>3 DEF Good, Admits
<1>3. CASE "boolean" \notin f.types /\ "string" \notin f.types
  BY <1>3 DEF TransformBool, Good
<1> QED BY <1>1, <1>2, <1>3

\* Whatever duckType makes of a scalar is a value of the type it was given,
\* and denotes the same number.
LEMMA ConvertGood ==
  ASSUME NEW f \in Field, NEW g \in Scalar
  PROVE  Good(Convert(g, f), f, g)
<1>0. Shape(g) /\ g.n \in Int /\ g = [kind |-> g.kind, form |-> g.form, n |-> g.n]
  BY ScalarShape DEF Shape
<1>1. CASE g.kind = "null"
  <2>1. Convert(g, f) = Null
    BY <1>1 DEF Convert
  <2>2. g.form = "none"
    BY <1>0, <1>1 DEF Shape
  <2> QED BY <2>1, <2>2 DEF Good, Null, Value, Keeps, Forms, Spellings
<1>2. CASE g.kind = "time"
  BY <1>2 DEF Convert, Good
<1>3. CASE g.kind \in {"string", "int", "uint", "bool"} /\ ~f.known
  <2>1. Convert(g, f) = g
    BY <1>3 DEF Convert
  <2>2. g \in Value /\ Keeps(g, g)
    BY <1>0, <1>3 DEF Value, Keeps, Shape, Forms, Spellings
  <2> QED BY <1>3, <2>1, <2>2 DEF Good
<1>4. CASE g.kind = "string" /\ f.known
  BY <1>0, <1>4, StringGood DEF Convert
<1>5. CASE g.kind \in {"int", "uint"} /\ f.known
  BY <1>0, <1>5, NumberGood DEF Convert
<1>6. CASE g.kind = "bool" /\ f.known
  BY <1>0, <1>6, BoolGood DEF Convert
<1>7. CASE g.kind = "float"
  <2> DEFINE w == Whole(g)
  <2>1. /\ w.kind = "int" /\ w.form = "number" /\ w.n \in Signed(Half64) /\ w.n \in Int
        /\ w = [kind |-> w.kind, form |-> w.form, n |-> w.n] /\ w # Null
        /\ (g.form # "special" /\ g.n \in Signed(Half64) => w.n = g.n)
    BY <1>0, WidthsAssumption DEF Whole, Number, Signed, Null
  <2>2. Shape(w)
    BY <2>1 DEF Shape
  <2>3. ASSUME NEW v, Good(v, f, w) PROVE Good(v, f, g)
    <3>1. Keeps(v, w) => Keeps(v, g)
      BY <1>0, <1>7, <2>1 DEF Keeps, Shape, Spellings
    <3>2. ~Wider(f, w)
      BY <2>1 DEF Wider
    <3> QED BY <2>3, <3>1, <3>2 DEF Good
  <2>4. CASE f.known
    BY <1>7, <2>1, <2>2, <2>3, <2>4, NumberGood DEF Convert
  <2>5. CASE ~f.known
    <3>1. Convert(g, f) = w
      BY <1>7, <2>5 DEF Convert
    <3>2. w \in Value /\ Keeps(w, w)
      BY <2>1 DEF Value, Keeps, Forms, Spellings
    <3> HIDE DEF w
    <3>3. Good(w, f, w)
      BY <2>5, <3>2 DEF Good
    <3> QED BY <2>3, <3>1, <3>3
  <2> QED BY <2>4, <2>5
<1> QED BY <1>0, <1>1, <1>2, <1>3, <1>4, <1>5, <1>6, <1>7 DEF Shape

\* A conversion takes whatever the field has room for.
LEMMA NumberTakes ==
  ASSUME NEW f \in Field, NEW g, Shape(g), g.kind \in {"int", "uint"}, HasRoom(f, g)
  PROVE  TransformNumber(g, f) # Error
<1>0. /\ f.format \in Formats /\ g.form = "number" /\ g.n \in Int
      /\ \A kd : g.form \in Read(kd)
  BY DEF Field, Shape, Read
<1>1. CASE f.format \in IntFormats
  <2>1. g.n \in RangeOf(f.format)
    BY <1>0, <1>1, Widths DEF HasRoom
  <2>2. KindFor(f.format) \in {"int", "uint"}
    BY DEF KindFor
  <2>3. f.format = "int64" => g.kind = "int"
    BY <1>0, <2>1 DEF RangeOf, Shape
  <2>4. TransformNumber(g, f) = Parse(KindFor(f.format), RangeOf(f.format), g)
    BY <1>1, <2>3 DEF TransformNumber, NumberWant, IntFormats, SignedFormats, UnsignedFormats
  <2> QED BY <1>0, <2>1, <2>2, <2>4, ParseTakes
<1>2. CASE f.format \notin IntFormats
  <2>1. \/ "integer" \in f.types /\ g.n \in Signed(Half64)
        \/ "string" \in f.types /\ "integer" \notin f.types
    BY <1>0, <1>2 DEF HasRoom
  <2>2. CASE NumberWant(f) = "int-or-string" \/ NumberWant(f) = "string"
    BY <1>0, <2>2 DEF TransformNumber, Error, IntFormats, SignedFormats, UnsignedFormats
  <2>3. CASE NumberWant(f) = "integer" /\ "integer" \in f.types
    <3>1. TransformNumber(g, f) = Parse("int", Signed(Half64), g)
      BY <2>3 DEF TransformNumber, IntFormats, SignedFormats, UnsignedFormats
    <3> QED BY <1>0, <2>1, <2>3, <3>1, ParseTakes
  <2> QED BY <1>2, <2>1, <2>2, <2>3 DEF NumberWant
<1> QED BY <1>1, <1>2

LEMMA StringTakes ==
  ASSUME NEW f \in Field, NEW g, Shape(g), g.kind = "string", HasRoom(f, g)
  PROVE  TransformString(g, f) # Error
<1>0. /\ f.format \in Formats /\ g.n \in Int
      /\ g.form # "none"
  BY DEF Field, Shape
<1>1. CASE g.form = "novalue"
  BY <1>1 DEF TransformString, Null, Error
<1>2. CASE g.form # "novalue" /\ f.format = "int32"
  <2>1. g.form \in Read("int") /\ g.n \in RangeOf("int32")
    BY <1>0, <1>2, Widths DEF HasRoom, IntFormats, SignedFormats, UnsignedFormats, KindFor
  <2>2. TransformString(g, f) = Parse("int", Signed(Half64), g)
    BY <1>2 DEF TransformString, StringWant, IntFormats, SignedFormats
  <2> QED BY <2>1, <2>2, Widths, ParseTakes DEF SignedFormats
<1>3. CASE g.form # "novalue" /\ f.format \in IntFormats \ {"int32"}
  <2>1. g.form \in Read(KindFor(f.format)) /\ g.n \in RangeOf(f.format)
    BY <1>0, <1>3, Widths DEF HasRoom, IntFormats, SignedFormats, UnsignedFormats
  <2>2. TransformString(g, f) = Parse(KindFor(f.format), RangeOf(f.format), g)
    BY <1>3 DEF TransformString, StringWant, IntFormats, SignedFormats, UnsignedFormats
  <2>3. KindFor(f.format) \in {"int", "uint"}
    BY DEF KindFor
  <2> QED BY <2>1, <2>2, <2>3, ParseTakes
<1>4. CASE g.form # "novalue" /\ f.format = "double"
  <2>1. g.form \in Spellings /\ Floats(g.n) # {}
    BY <1>4, FloatsNear DEF HasRoom, IntFormats, SignedFormats, UnsignedFormats
  <2>2. TransformString(g, f) = ParseFloat(g)
    BY <1>4 DEF TransformString, StringWant, IntFormats, SignedFormats, UnsignedFormats
  <2> QED BY <2>1, <2>2 DEF ParseFloat, Spellings, Number, Error
<1>5. CASE g.form # "novalue" /\ f.format \notin IntFormats \cup {"double"}
  <2>0. f.format # "double"
    BY <1>5
  <2>1. CASE f.format = "byte" \/ "string" \in f.types
    <3>1. StringWant(f) \in {"byte", "string"}
      BY <1>5, <2>0, <2>1 DEF StringWant
    <3>2. TransformString(g, f) \in {g, [g EXCEPT !.kind = "bytes"]}
      BY <1>5, <3>1 DEF TransformString, IntFormats, SignedFormats, UnsignedFormats
    <3>3. g # Error /\ [g EXCEPT !.kind = "bytes"].kind = "bytes"
      BY DEF Error, Shape
    <3> QED BY <3>2, <3>3 DEF Error
  <2>2. CASE f.format # "byte" /\ "string" \notin f.types /\ "integer" \in f.types
    <3>1. g.form \in Read("int") /\ g.n \in Signed(Half64)
      BY <1>0, <1>5, <2>2 DEF HasRoom
    <3>2. TransformString(g, f) = Parse("int", Signed(Half64), g)
      BY <1>5, <2>0, <2>2 DEF TransformString, StringWant, IntFormats, SignedFormats, UnsignedFormats
    <3> QED BY <3>1, <3>2, ParseTakes
  <2>3. CASE f.format # "byte" /\ "string" \notin f.types /\ "integer" \notin f.types
    <3>1. g.form = "object" /\ StringWant(f) = "object"
      BY <1>0, <1>5, <2>0, <2>3 DEF HasRoom, StringWant
    <3>2. TransformString(g, f) = [g EXCEPT !.kind = "object"]
      BY <3>1 DEF TransformString, IntFormats, SignedFormats, UnsignedFormats
    <3>3. g = [kind |-> g.kind, form |-> g.form, n |-> g.n]
      BY DEF Shape
    <3>4. [g EXCEPT !.kind = "object"].kind = "object"
      BY <3>3
    <3> QED BY <3>2, <3>4 DEF Error
  <2> QED BY <2>1, <2>2, <2>3
<1> QED BY <1>1, <1>2, <1>3, <1>4, <1>5

LEMMA ConvertTakes ==
  ASSUME NEW f \in Field, f.known, NEW g \in Scalar, HasRoom(f, g)
  PROVE  Convert(g, f) # Error
<1>0. Shape(g) /\ g.n \in Int
  BY ScalarShape DEF Shape
<1>1. CASE g.kind = "null"
  BY <1>1 DEF Convert, Null, Error
<1>2. CASE g.kind = "time"
  BY <1>0, <1>2 DEF HasRoom, Shape, Read, Spellings
<1>3. CASE g.kind = "string"
  BY <1>0, <1>3, StringTakes DEF Convert
<1>4. CASE g.kind \in {"int", "uint"}
  BY <1>0, <1>4, NumberTakes DEF Convert
<1>5. CASE g.kind = "bool"
  <2>1. "boolean" \in f.types \/ "string" \in f.types
    BY <1>0, <1>5 DEF HasRoom, Shape, Read, Spellings
  <2>2. g # Error /\ [g EXCEPT !.kind = "string"].kind = "string"
    BY <1>0, <1>5 DEF Shape, Error
  <2>3. Convert(g, f) \in {g, [g EXCEPT !.kind = "string"]}
    BY <1>5, <2>1 DEF Convert, TransformBool
  <2> QED BY <2>2, <2>3 DEF Error
<1>6. CASE g.kind = "float"
  <2> DEFINE w == Whole(g)
  <2>1. g.form = "number" /\ g.n \in Signed(Half64)
    BY <1>0, <1>6 DEF HasRoom, Shape
  <2>2. w = Number("int", g.n)
    BY <2>1 DEF Whole
  <2>3. Shape(w) /\ w.kind = "int"
    BY <1>0, <2>1, <2>2 DEF Shape, Number
  <2>4. HasRoom(f, w)
    BY <1>6, <2>1, <2>2 DEF HasRoom, Number
  <2> QED BY <1>6, <2>3, <2>4, NumberTakes DEF Convert
<1> QED BY <1>0, <1>1, <1>2, <1>3, <1>4, <1>5, <1>6 DEF Shape

-----------------------------------------------------------------------------
(* Schemas and places.                                                     *)

LEMMA NodeFacts ==
  ASSUME NEW n \in Nodes
  PROVE  /\ Schema[n].types \subseteq TypeNames
         /\ Schema[n].props \in [Parts \ Indexes -> Nodes \cup {None}]
         /\ Schema[n].addl \in Nodes \cup {None} /\ Schema[n].items \in Nodes \cup {None}
         /\ Schema[n].ref \in Nodes \cup {None, Broken}
         /\ (Schema[n].types # {} => Schema[n].ref = None)
BY SchemaAssumption DEF Node

LEMMA FieldOfNode ==
  ASSUME NEW n \in Nodes
  PROVE  FieldOf(n) \in Field /\ FieldOf(n).known /\ Sound(FieldOf(n))
<1>1. /\ Schema[n].types \subseteq TypeNames /\ Schema[n].format \in Formats
      /\ Schema[n].anyOf.types \subseteq TypeNames /\ Schema[n].anyOf.format \in Formats
      /\ Sound(Schema[n]) /\ Sound(Schema[n].anyOf)
  BY SchemaAssumption DEF Node
<1>2. CASE Schema[n].types # {} \/ Schema[n].format # ""
  <2>1. FieldOf(n) = [known |-> TRUE, types |-> Schema[n].types, format |-> Schema[n].format]
    BY <1>2 DEF FieldOf
  <2> QED BY <1>1, <2>1 DEF Field, Sound
<1>3. CASE Schema[n].types = {} /\ Schema[n].format = ""
  <2>1. FieldOf(n) = [known |-> TRUE, types |-> Schema[n].anyOf.types,
                      format |-> Schema[n].anyOf.format]
    BY <1>3 DEF FieldOf
  <2> QED BY <1>1, <2>1 DEF Field, Sound
<1> QED BY <1>2, <1>3

\* resolvePointer finds what the schema stands for.
LEMMA Resolves ==
  ASSUME NEW n \in Nodes
  PROVE  /\ Resolved(n) # Broken => Resolved(n) \in Nodes
         /\ Resolved(n) = Target(n)
BY NodeFacts, SchemaAssumption DEF Resolved, Target

LEMMA RootFacts ==
  ASSUME NEW r \in Roots
  PROVE  r \in Nodes /\ r # None /\ Target(r) = r
BY KindsAssumption, SchemaAssumption DEF Roots, Target

LEMMA PathFacts ==
  ASSUME NEW p \in Paths
  PROVE  /\ p \in Seq(Parts) /\ Len(p) \in Nat \ {0}
         /\ \A j \in 1..Len(p) : p[j] \in Parts /\ Escape[p[j]] \in Parts
                                 /\ (Escape[p[j]] \in Indexes <=> p[j] \in Indexes)
BY PathsAssumption

LEMMA PropertyFacts ==
  ASSUME NEW n \in Nodes, NEW x \in Parts
  PROVE  Property(n, x) \in Nodes \cup {None}
BY NodeFacts DEF Property

\* On a plain path the walk looks up what describes the place.
LEMMA PropertyIsPlace ==
  ASSUME NEW r \in Roots, NEW p \in Paths, Plain(r, p),
         NEW j \in 1..Len(p), p[j] \notin Indexes, Target(Place[r][p][j - 1]) \in Nodes
  PROVE  /\ Property(Target(Place[r][p][j - 1]), Escape[p[j]]) = Place[r][p][j]
         /\ Place[r][p][j] \in Nodes /\ Target(Place[r][p][j]) \in Nodes
<1>1. Escape[p[j]] = p[j] /\ Place[r][p][j] \in Nodes /\ Target(Place[r][p][j]) \in Nodes
  BY DEF Plain
<1>2. Place[r][p][j] = Described(Place[r][p][j - 1], p[j])
  BY PlaceAssumption
<1> QED BY <1>1, <1>2, SchemaAssumption DEF Described, Property

\* And what it finds in the array at j is what describes the elements.
LEMMA ElementIsPlace ==
  ASSUME NEW r \in Roots, NEW p \in Paths, Plain(r, p),
         NEW j \in 1..Len(p), j # Len(p), "array" \in Schema[Place[r][p][j]].types
  PROVE  /\ p[j + 1] \in Indexes
         /\ Place[r][p][j + 1] = Schema[Place[r][p][j]].items
         /\ Place[r][p][j + 1] \in Nodes /\ Target(Place[r][p][j + 1]) \in Nodes
         /\ (j + 1 = Len(p) => Schema[Place[r][p][j + 1]].ref = None)
         /\ (j + 1 # Len(p) => p[j + 2] \notin Indexes)
<1>0. Len(p) \in Nat /\ j + 1 \in 1..Len(p) /\ (j + 1) - 1 = j
      /\ (j + 1 # Len(p) => j + 2 \in 1..Len(p) /\ (j + 2) - 1 = j + 1)
  BY PathFacts
<1>1. Place[r][p][j] \in Nodes
  BY DEF Plain
<1>2. Target(Place[r][p][j]) = Place[r][p][j]
  BY <1>1, NodeFacts DEF Target
<1>3. p[j + 1] \in Indexes
  BY <1>0, <1>2 DEF Plain
<1>4. /\ Place[r][p][j + 1] \in Nodes /\ Target(Place[r][p][j + 1]) \in Nodes
      /\ (j + 1 = Len(p) => Schema[Place[r][p][j + 1]].ref = None)
  BY <1>0, <1>3 DEF Plain
<1>5. Place[r][p][j + 1] = Described(Place[r][p][j], p[j + 1])
  BY <1>0, PlaceAssumption
<1>6. Place[r][p][j + 1] = Schema[Place[r][p][j]].items
  BY <1>1, <1>2, <1>3, <1>5 DEF Described
<1>7. j + 1 # Len(p) => p[j + 2] \notin Indexes
  BY <1>0, <1>3 DEF Plain
<1> QED BY <1>3, <1>4, <1>6, <1>7

\* What is no array is not indexed.
LEMMA NoArrayNoIndex ==
  ASSUME NEW r \in Roots, NEW p \in Paths, Plain(r, p),
         NEW j \in 1..Len(p), j # Len(p), "array" \notin Schema[Place[r][p][j]].types
  PROVE  p[j + 1] \notin Indexes
<1>0. Len(p) \in Nat /\ j + 1 \in 1..Len(p) /\ (j + 1) - 1 = j
  BY PathFacts
<1>1. Place[r][p][j] \in Nodes
  BY DEF Plain
<1>2. SUFFICES ASSUME p[j + 1] \in Indexes PROVE FALSE
  OBVIOUS
<1>3. Schema[Place[r][p][j]].ref = None /\ "array" \in Schema[Target(Place[r][p][j])].types
  BY <1>0, <1>2 DEF Plain
<1> QED BY <1>1, <1>3 DEF Target

-----------------------------------------------------------------------------
(* The inductive invariant.                                                *)

\* Nothing is converted before the schema is known.
RootInv ==
  /\ pc \in {"idle", "schema"} => todo = DOMAIN given
  /\ pc = "schema" => root = None

\* The walk along a plain path is where the schema describes it.
WalkInv ==
  (pc = "walk" /\ Plain(root, look.at)) =>
    /\ look.node = Target(Place[root][look.at][look.k])
    /\ look.at[look.k + 1] \notin Indexes

\* And it ends with the field of the scalar.
FieldInv ==
  (pc = "convert" /\ Plain(root, look.at) /\ given[look.at].kind \notin {"null", "time"}) =>
    field = OwnField(root, look.at)

\* What a scalar was made into is right.
Right(r, p, v, g) ==
  /\ Keeps(v, g)
  /\ (Plain(r, p) /\ v.kind # "null")
       => (Admits(OwnField(r, p), v) \/ Wider(OwnField(r, p), g))

NewInv == \A p \in DOMAIN new : Right(root, p, new[p], given[p])

DoneInv == outcome = "done" => object = new

IInv ==
  /\ TypeOK /\ RootInv /\ WalkInv /\ FieldInv /\ NewInv /\ DoneInv /\ FailsForCause

-----------------------------------------------------------------------------

LEMMA GivenFacts ==
  ASSUME TypeOK, NEW p \in todo
  PROVE  p \in Paths /\ given[p] \in Scalar /\ given \in Objects
<1>1. given \in Objects
  BY DEF TypeOK, NoObject
<1> QED BY <1>1, PathsAssumption DEF TypeOK

LEMMA NoTypeIsField == NoType \in Field
BY DEF NoType, Field, Formats

\* The parts that change in a step of the walk.
WalkOK(c, l, f) ==
  /\ f \in Field
  /\ l \in [at: Paths \cup {<<>>}, node: Nodes \cup {None}, k: Nat] /\ l.at = look.at
  /\ c \in {"walk", "convert"}
  /\ c = "walk" => l.node \in Nodes /\ l.k < Len(l.at)
  /\ (c = "walk" /\ Plain(root, l.at)) =>
       l.node = Target(Place[root][l.at][l.k]) /\ l.at[l.k + 1] \notin Indexes
  /\ (c = "convert" /\ Plain(root, l.at)) => f = OwnField(root, l.at)

LEMMA InitInv == Init => IInv
<1> SUFFICES ASSUME Init PROVE IInv
  OBVIOUS
<1>1. DOMAIN NoObject = {}
  BY DEF NoObject
<1>2. TypeOK
  BY <1>1, NoTypeIsField DEF Init, TypeOK, NoLook
<1> QED
  BY <1>1, <1>2 DEF IInv, Init, RootInv, WalkInv, FieldInv, NewInv, DoneInv, FailsForCause

LEMMA CallInv ==
  ASSUME IInv, NEW k \in Kinds, NEW o \in Objects, Call(k, o)
  PROVE  IInv'
<1>1. DOMAIN NoObject = {}
  BY DEF NoObject
<1>2. TypeOK'
  BY <1>1, NoTypeIsField DEF Call, TypeOK, NoLook
<1> QED
  BY <1>1, <1>2 DEF IInv, Call, RootInv, WalkInv, FieldInv, NewInv, DoneInv, FailsForCause

LEMMA ReturnInv == ASSUME IInv, Return PROVE IInv'
<1>1. DOMAIN NoObject = {}
  BY DEF NoObject
<1>2. TypeOK'
  BY <1>1, NoTypeIsField DEF Return, TypeOK, NoLook
<1> QED
  BY <1>1, <1>2 DEF IInv, Return, RootInv, WalkInv, FieldInv, NewInv, DoneInv, FailsForCause

LEMMA FindSchemaForKindInv == ASSUME IInv, FindSchemaForKind PROVE IInv'
<1>1. root' \in Roots /\ root' # None
  BY RootFacts DEF FindSchemaForKind, IsPublished, Roots
<1>2. DOMAIN new = {}
  BY DEF IInv, TypeOK, RootInv, FindSchemaForKind
<1>3. TypeOK'
  BY <1>1 DEF IInv, TypeOK, FindSchemaForKind, args
<1> QED
  BY <1>2, <1>3
  DEF IInv, FindSchemaForKind, args, TypeOK, RootInv, WalkInv, FieldInv, NewInv, DoneInv,
      FailsForCause

LEMMA FindSchemaForCrdInv == ASSUME IInv, FindSchemaForCrd PROVE IInv'
<1>1. DOMAIN new = {}
  BY DEF IInv, TypeOK, RootInv, FindSchemaForCrd
<1>2. CASE Crd[kind] # None /\ root' = Crd[kind] /\ pc' = "visit"
           /\ UNCHANGED <<args, object, todo, new, look, field, outcome>>
  <2>1. root' \in Roots /\ root' # None
    BY <1>2 DEF Roots, IInv, TypeOK, FindSchemaForCrd
  <2>2. TypeOK'
    BY <1>2, <2>1 DEF IInv, TypeOK, args, FindSchemaForCrd
  <2> QED
    BY <1>1, <1>2, <2>2
    DEF IInv, FindSchemaForCrd, args, TypeOK, RootInv, WalkInv, FieldInv, NewInv, DoneInv,
        FailsForCause
<1>3. CASE Fail /\ UNCHANGED <<look, field>>
  <2>1. TypeOK'
    BY <1>3 DEF IInv, TypeOK, Fail, args, FindSchemaForCrd
  <2>2. root' = None /\ outcome' = "failed" /\ ~IsPublished
        /\ kind' = kind /\ object' = object /\ given' = given
    BY <1>3 DEF IInv, RootInv, Fail, args, FindSchemaForCrd
  <2>3. FailsForCause'
    BY <2>2 DEF IInv, FailsForCause, IsPublished, FindSchemaForCrd, TypeOK
  <2> QED
    BY <1>1, <1>3, <2>1, <2>2, <2>3
    DEF IInv, Fail, args, RootInv, WalkInv, FieldInv, NewInv, DoneInv
<1> QED BY <1>2, <1>3 DEF FindSchemaForCrd

LEMMA VisitInv == ASSUME IInv, NEW p \in todo, Visit(p) PROVE IInv'
<1>1. root \in Roots /\ root # None
  BY DEF IInv, TypeOK, Visit
<1>2. p \in Paths /\ Len(p) \in Nat \ {0}
  BY GivenFacts, PathFacts DEF IInv
<1>3. /\ look' = [at |-> p, node |-> root, k |-> 0] /\ pc' \in {"walk", "convert"}
      /\ (pc' = "convert" => given[p].kind \in {"null", "time"})
      /\ UNCHANGED <<kind, given, object, root, todo, new, outcome>> /\ field' = NoType
  BY DEF Visit, args
<1>4. TypeOK'
  BY <1>1, <1>2, <1>3, RootFacts, NoTypeIsField DEF IInv, TypeOK, Visit
<1>5. WalkInv'
  <2>1. Plain(root, p) => p[1] \notin Indexes
    BY <1>2 DEF Plain
  <2>2. Place[root][p][0] = root /\ Target(root) = root
    BY <1>1, <1>2, PlaceAssumption, RootFacts
  <2> QED BY <1>3, <2>1, <2>2 DEF WalkInv
<1> QED
  BY <1>3, <1>4, <1>5
  DEF IInv, RootInv, FieldInv, NewInv, DoneInv, FailsForCause, TypeOK, Visit

LEMMA AssignInv == ASSUME IInv, Assign PROVE IInv'
<1> DEFINE p == look.at
           g == given[p]
           v == Convert(g, field)
<1>1. /\ root \in Roots /\ root # None /\ field \in Field /\ p \in todo
      /\ DOMAIN new = DOMAIN given \ todo /\ todo \subseteq DOMAIN given
  BY DEF IInv, TypeOK, Assign
<1>2. p \in Paths /\ g \in Scalar
  BY <1>1, GivenFacts DEF IInv
<1>3. Good(v, field, g)
  BY <1>1, <1>2, ConvertGood
<1>4. Plain(root, p) => OwnField(root, p) \in Field /\ OwnField(root, p).known
                        /\ Sound(OwnField(root, p))
  <2>1. Plain(root, p) => Target(Place[root][p][Len(p)]) \in Nodes
    BY <1>2, PathFacts DEF Plain
  <2> QED BY <2>1, FieldOfNode DEF OwnField
<1>5. (Plain(root, p) /\ g.kind \notin {"null", "time"}) => field = OwnField(root, p)
  BY DEF IInv, FieldInv, Assign
<1>6. g.kind = "null" => v = Null
  BY DEF Convert
<1>7. g.kind = "time" => v = Error
  BY DEF Convert
<1>8. CASE v # Error /\ new' = [q \in DOMAIN new \cup {p} |-> IF q = p THEN v ELSE new[q]]
           /\ todo' = todo \ {p} /\ pc' = "visit"
           /\ UNCHANGED <<args, object, root, look, field, outcome>>
  <2>1. Right(root, p, v, g)
    <3>1. Keeps(v, g)
      BY <1>3, <1>8 DEF Good
    <3>2. ASSUME Plain(root, p), v.kind # "null"
          PROVE  Admits(OwnField(root, p), v) \/ Wider(OwnField(root, p), g)
      <4>1. g.kind \notin {"null", "time"}
        BY <1>6, <1>7, <1>8, <3>2 DEF Null
      <4> QED BY <1>3, <1>4, <1>5, <1>8, <3>2, <4>1 DEF Good
    <3> QED BY <3>1, <3>2 DEF Right
  <2>2. v \in Value
    BY <1>3, <1>8 DEF Good
  <2>3. UNCHANGED <<kind, given, object, root, look, field, outcome>>
    BY <1>8 DEF args
  <2> HIDE DEF v, g
  <2>4. TypeOK'
    BY <1>1, <1>8, <2>2, <2>3 DEF IInv, TypeOK, Assign
  <2>5. NewInv'
    BY <1>8, <2>1, <2>3 DEF IInv, NewInv, g
  <2> QED
    BY <1>8, <2>3, <2>4, <2>5
    DEF IInv, RootInv, WalkInv, FieldInv, DoneInv, FailsForCause, TypeOK, Assign
<1>9. CASE v = Error /\ Fail /\ UNCHANGED <<look, field>>
  <2>1. Plain(root, p) => ~HasRoom(OwnField(root, p), g)
    <3>1. SUFFICES ASSUME Plain(root, p), HasRoom(OwnField(root, p), g) PROVE FALSE
      OBVIOUS
    <3>2. Convert(g, OwnField(root, p)) # Error
      BY <1>2, <1>4, <3>1, ConvertTakes
    <3>3. g.kind \in {"null", "time"}
      BY <1>5, <1>9, <3>1, <3>2
    <3>4. Null # Error
      BY DEF Null, Error
    <3> QED BY <1>6, <1>9, <3>2, <3>3, <3>4 DEF Convert
  <2>2. UNCHANGED <<kind, given, object, root, todo, new, look, field>>
        /\ pc' = "returned" /\ outcome' = "failed"
    BY <1>9 DEF Fail, args
  <2>3. TypeOK'
    BY <2>2 DEF IInv, TypeOK, Assign
  <2>4. FailsForCause'
    BY <1>1, <2>1, <2>2 DEF IInv, FailsForCause, TypeOK, Assign
  <2> QED BY <2>2, <2>3, <2>4 DEF IInv, RootInv, WalkInv, FieldInv, NewInv, DoneInv
<1> QED BY <1>8, <1>9 DEF Assign

LEMMA FinishInv == ASSUME IInv, Finish PROVE IInv'
<1>1. UNCHANGED <<kind, given, root, todo, new, look, field>>
      /\ object' = new /\ outcome' = "done" /\ pc' = "returned" /\ todo = {}
  BY DEF Finish, args
<1>2. TypeOK'
  BY <1>1 DEF IInv, TypeOK, Finish
<1> QED
  BY <1>1, <1>2 DEF IInv, RootInv, WalkInv, FieldInv, NewInv, DoneInv, FailsForCause

\* A step of the walk keeps everything if it gets on, or ends, rightly.
LEMMA WalkedOn ==
  ASSUME IInv, pc = "walk", WalkOK(pc', look', field'),
         UNCHANGED <<kind, given, object, root, todo, new, outcome>>
  PROVE  IInv'
<1>1. look'.at \in todo' /\ root # None
  BY DEF IInv, TypeOK, WalkOK
<1>2. TypeOK'
  BY <1>1 DEF IInv, TypeOK, WalkOK
<1> QED
  BY <1>2 DEF IInv, RootInv, WalkInv, FieldInv, NewInv, DoneInv, FailsForCause, WalkOK, TypeOK

\* On to the part j, at which n is what is described.
LEMMA GoOnOK ==
  ASSUME IInv, pc = "walk", NEW n \in Nodes, NEW j \in Nat, j < Len(look.at), GoOn(n, j),
         Plain(root, look.at) =>
           /\ n = Place[root][look.at][j] /\ Target(n) \in Nodes
           /\ look.at[j + 1] \notin Indexes
  PROVE  WalkOK(pc', look', field')
<1>1. CASE Resolved(n) = Broken
  <2>1. ~Plain(root, look.at)
    BY <1>1, Resolves, SchemaAssumption
  <2>2. pc' = "convert" /\ field' = NoType /\ look' = look
    BY <1>1 DEF GoOn, Found
  <2> QED BY <2>1, <2>2, NoTypeIsField DEF WalkOK, IInv, TypeOK
<1>2. CASE Resolved(n) # Broken
  <2>1. /\ look' = [look EXCEPT !.node = Resolved(n), !.k = j]
        /\ pc' = "walk" /\ field' = field
    BY <1>2 DEF GoOn
  <2>2. Resolved(n) \in Nodes /\ Resolved(n) = Target(n)
    BY <1>2, Resolves
  <2>3. look'.at = look.at /\ look'.node = Resolved(n) /\ look'.k = j
    BY <2>1 DEF IInv, TypeOK
  <2> QED BY <2>1, <2>2, <2>3 DEF WalkOK, IInv, TypeOK
<1> QED BY <1>1, <1>2

\* The walk ends at the last part, described by n.
LEMMA FoundOK ==
  ASSUME IInv, pc = "walk", NEW n \in Nodes, NEW f, Found(f),
         f = NoType \/ (f = FieldOf(n)),
         Plain(root, look.at) => f = OwnField(root, look.at)
  PROVE  WalkOK(pc', look', field')
<1>1. f \in Field
  BY NoTypeIsField, FieldOfNode
<1>2. pc' = "convert" /\ field' = f /\ look' = look
  BY DEF Found
<1> QED BY <1>1, <1>2 DEF WalkOK, IInv, TypeOK

LEMMA WalkStepInv == ASSUME IInv, Walk PROVE IInv'
<1> DEFINE p == look.at
           j == look.k + 1
           child == Property(look.node, Escape[p[j]])
           array == child # None /\ "array" \in Schema[child].types
<1>1. /\ pc = "walk" /\ look.node \in Nodes /\ look.k < Len(p) /\ look.k \in Nat
      /\ p \in todo /\ root \in Roots
  BY DEF IInv, TypeOK, Walk
<1>2. p \in Paths
  BY <1>1, GivenFacts DEF IInv
<1>3. j \in 1..Len(p) /\ j - 1 = look.k /\ Len(p) \in Nat /\ j \in Nat
  BY <1>1, <1>2, PathFacts
<1>4. child \in Nodes \cup {None} /\ None \notin Nodes
  BY <1>1, <1>2, <1>3, PathFacts, PropertyFacts, SchemaAssumption
<1>5. Plain(root, p) =>
        /\ look.node = Target(Place[root][p][j - 1]) /\ p[j] \notin Indexes
        /\ child = Place[root][p][j] /\ child \in Nodes /\ Target(child) \in Nodes
  <2>1. SUFFICES ASSUME Plain(root, p)
                 PROVE  /\ look.node = Target(Place[root][p][j - 1]) /\ p[j] \notin Indexes
                        /\ child = Place[root][p][j] /\ child \in Nodes
                        /\ Target(child) \in Nodes
    OBVIOUS
  <2>2. look.node = Target(Place[root][p][j - 1]) /\ p[j] \notin Indexes
    BY <1>1, <1>3, <2>1 DEF IInv, WalkInv
  <2> QED BY <1>1, <1>2, <1>3, <2>1, <2>2, PropertyIsPlace
<1> HIDE DEF child
<1>6. UNCHANGED <<kind, given, object, root, todo, new>>
  BY DEF Walk, args
<1>7. CASE child = None /\ NotThere /\ UNCHANGED outcome
  <2>1. ~Plain(root, p)
    BY <1>4, <1>5, <1>7
  <2>2. WalkOK(pc', look', field')
    BY <1>7, <2>1, NoTypeIsField DEF NotThere, Found, WalkOK, IInv, TypeOK
  <2> QED BY <1>1, <1>6, <1>7, <2>2, WalkedOn
<1>8. CASE child # None /\ j = Len(p) /\ FoundAt(child) /\ UNCHANGED outcome
  <2>1. child \in Nodes /\ Resolved(child) = Target(child) /\ Broken \notin Nodes
    BY <1>4, <1>8, Resolves, SchemaAssumption
  <2>2. CASE Resolved(child) = Broken
    <3>1. ~Plain(root, p)
      BY <1>5, <2>1, <2>2
    <3> QED
      BY <1>1, <1>6, <1>8, <2>1, <2>2, <3>1, FoundOK, WalkedOn DEF FoundAt
  <2>3. CASE Resolved(child) # Broken
    <3>1. Resolved(child) \in Nodes
      BY <2>1, <2>3, Resolves
    <3>2. Plain(root, p) => FieldOf(Resolved(child)) = OwnField(root, p)
      BY <1>5, <1>8, <2>1 DEF OwnField
    <3>3. Found(FieldOf(Resolved(child)))
      BY <1>8, <2>3 DEF FoundAt
    <3>4. WalkOK(pc', look', field')
      BY <1>1, <3>1, <3>2, <3>3, FoundOK
    <3> QED BY <1>1, <1>6, <1>8, <3>4, WalkedOn
  <2> QED BY <2>2, <2>3
<1>9. CASE array /\ j # Len(p) /\ Element(child, j + 1)
  <2> DEFINE items == Schema[child].items
  <2>1. child \in Nodes /\ "array" \in Schema[child].types
    BY <1>4, <1>9
  <2>2. items \in Nodes \cup {None}
    BY <2>1, NodeFacts
  <2>3. Plain(root, p) =>
          /\ Place[root][p][j + 1] = items /\ items \in Nodes /\ Target(items) \in Nodes
          /\ (j + 1 = Len(p) => Schema[items].ref = None)
          /\ (j + 1 # Len(p) => p[j + 2] \notin Indexes)
    <3>1. SUFFICES ASSUME Plain(root, p)
                   PROVE  /\ Place[root][p][j + 1] = items /\ items \in Nodes
                          /\ Target(items) \in Nodes
                          /\ (j + 1 = Len(p) => Schema[items].ref = None)
                          /\ (j + 1 # Len(p) => p[j + 2] \notin Indexes)
      OBVIOUS
    <3>2. child = Place[root][p][j]
      BY <1>5, <3>1
    <3> HIDE DEF p, j
    <3>3. /\ root \in Roots /\ p \in Paths /\ Plain(root, p) /\ j \in 1..Len(p) /\ j # Len(p)
          /\ "array" \in Schema[Place[root][p][j]].types
      BY <1>1, <1>2, <1>3, <1>9, <2>1, <3>1, <3>2
    <3> QED BY <3>2, <3>3, ElementIsPlace
  <2>4. CASE items = None
    <3>1. Panic
      BY <1>9, <2>4 DEF Element
    <3>2. /\ pc' = "returned" /\ outcome' = "panicked"
          /\ UNCHANGED <<kind, given, object, root, todo, new, look, field>>
      BY <3>1 DEF Panic, args
    <3>3. TypeOK'
      BY <1>1, <3>2 DEF IInv, TypeOK
    <3>4. FailsForCause'
      BY <1>1, <2>1, <2>4, <3>2 DEF IInv, FailsForCause, TypeOK
    <3> QED BY <3>2, <3>3, <3>4 DEF IInv, RootInv, WalkInv, FieldInv, NewInv, DoneInv
  <2>5. CASE items # None /\ j + 1 = Len(p)
    <3>1. Found(FieldOf(items)) /\ UNCHANGED outcome
      BY <1>9, <2>5 DEF Element
    <3>2. Plain(root, p) => FieldOf(items) = OwnField(root, p)
      BY <2>3, <2>5 DEF OwnField, Target
    <3>3. WalkOK(pc', look', field')
      BY <1>1, <2>2, <2>5, <3>1, <3>2, FoundOK
    <3> QED BY <1>1, <1>6, <3>1, <3>3, WalkedOn
  <2>6. CASE items # None /\ j + 1 # Len(p)
    <3>1. GoOn(items, j + 1) /\ UNCHANGED outcome
      BY <1>9, <2>6 DEF Element
    <3>2. j + 1 \in Nat /\ j + 1 < Len(p) /\ (j + 1) + 1 = j + 2
      BY <1>3, <1>9, <2>6
    <3>3. WalkOK(pc', look', field')
      BY <1>1, <2>2, <2>3, <2>6, <3>1, <3>2, GoOnOK
    <3> QED BY <1>1, <1>6, <3>1, <3>3, WalkedOn
  <2> QED BY <2>4, <2>5, <2>6
<1>10. CASE child # None /\ ~array /\ j # Len(p) /\ GoOn(child, j) /\ UNCHANGED outcome
  <2>1. child \in Nodes /\ "array" \notin Schema[child].types /\ j < Len(p)
    BY <1>3, <1>4, <1>10
  <2>2. Plain(root, p) => p[j + 1] \notin Indexes
    BY <1>1, <1>2, <1>3, <1>5, <1>10, <2>1, NoArrayNoIndex
  <2>3. WalkOK(pc', look', field')
    BY <1>1, <1>3, <1>5, <1>10, <2>1, <2>2, GoOnOK
  <2> QED BY <1>1, <1>6, <1>10, <2>3, WalkedOn
<1> QED
  BY <1>7, <1>8, <1>9, <1>10 DEF Walk, child

LEMMA NextInv == IInv /\ [Next]_vars => IInv'
<1> SUFFICES ASSUME IInv, [Next]_vars PROVE IInv'
  OBVIOUS
<1>1. ASSUME NEW k \in Kinds, NEW o \in Objects, Call(k, o) PROVE IInv'
  BY <1>1, CallInv
<1>2. ASSUME NEW p \in todo, Visit(p) PROVE IInv'
  BY <1>2, VisitInv
<1>3. CASE FindSchemaForKind
  BY <1>3, FindSchemaForKindInv
<1>4. CASE FindSchemaForCrd
  BY <1>4, FindSchemaForCrdInv
<1>5. CASE Walk
  BY <1>5, WalkStepInv
<1>6. CASE Assign
  BY <1>6, AssignInv
<1>7. CASE Finish
  BY <1>7, FinishInv
<1>8. CASE Return
  BY <1>8, ReturnInv
<1>9. CASE UNCHANGED vars
  BY <1>9
  DEF vars, args, IInv, TypeOK, RootInv, WalkInv, FieldInv, NewInv, DoneInv, FailsForCause
<1> QED BY <1>1, <1>2, <1>3, <1>4, <1>5, <1>6, <1>7, <1>8, <1>9 DEF Next, Work

THEOREM Invariance == Spec => []IInv
BY InitInv, NextInv, PTL DEF Spec

-----------------------------------------------------------------------------

\* The variables keep their types, for every schema and object.
THEOREM TypeCorrect == Spec => []TypeOK
<1>1. IInv => TypeOK
  BY DEF IInv
<1> QED BY <1>1, Invariance, PTL

\* findTypeForKey finds the schema of every plain path, however schemas refer
\* to each other, and duckType keeps to its type.
THEOREM WellTypedCorrect == Spec => []WellTyped
<1>1. IInv => WellTyped
  BY DEF IInv, TypeOK, NewInv, DoneInv, Right, WellTyped
<1> QED BY <1>1, Invariance, PTL

\* The transform functions keep every number they do not reject.
THEOREM NumbersKeptCorrect == Spec => []NumbersKept
<1>1. IInv => NumbersKept
  BY DEF IInv, NewInv, DoneInv, Right, Keeps, NumbersKept
<1> QED BY <1>1, Invariance, PTL

\* DuckType converts all of an object or none of it, and gives up only for a
\* cause.
THEOREM FailsForCauseCorrect == Spec => []FailsForCause
<1>1. IInv => FailsForCause
  BY DEF IInv
<1> QED BY <1>1, Invariance, PTL

-----------------------------------------------------------------------------
(* The way of a call to its end.                                           *)

LEMMA TodoFinite == ASSUME TypeOK PROVE IsFiniteSet(todo)
<1>1. IsFiniteSet(DOMAIN given)
  <2>1. CASE given \in Objects
    BY <2>1, PathsAssumption
  <2>2. CASE given = NoObject
    BY <2>2, FS_EmptySet DEF NoObject
  <2> QED BY <2>1, <2>2 DEF TypeOK
<1> QED BY <1>1, FS_Subset DEF TypeOK

Kept == UNCHANGED args /\ \A p \in DOMAIN new : new'[p] = new[p]

Up == todo' = todo /\ Phase[pc'] > Phase[pc]

LEMMA AssignDescends ==
  ASSUME TypeOK, Assign
  PROVE  Kept /\ root' = root /\ (Up \/ Cardinality(todo') < Cardinality(todo))
<1>1. look.at \in todo /\ DOMAIN new = DOMAIN given \ todo
  BY DEF TypeOK, Assign
<1>2. CASE Fail
  BY <1>2 DEF Assign, Fail, Kept, Up, Phase
<1>3. CASE /\ todo' = todo \ {look.at} /\ UNCHANGED <<args, root>>
           /\ \E v : new' = [q \in DOMAIN new \cup {look.at} |->
                            IF q = look.at THEN v ELSE new[q]]
  <2>1. Cardinality(todo') = Cardinality(todo) - 1 /\ Cardinality(todo) \in Nat
    BY <1>1, <1>3, TodoFinite, FS_RemoveElement, FS_CardinalityType
  <2> QED BY <1>1, <1>3, <2>1 DEF Kept
<1> QED BY <1>2, <1>3 DEF Assign

LEMMA WalkDescends ==
  ASSUME TypeOK, TypeOK', Walk
  PROVE  /\ Kept /\ root' = root
         /\ \/ Up
            \/ /\ todo' = todo /\ pc = "walk" /\ pc' = "walk" /\ look'.at = look.at
               /\ look.k < look'.k /\ look'.k < Len(look.at)
<1>1. UNCHANGED <<args, object, root, todo, new>> /\ pc = "walk" /\ look.k \in Nat
  BY DEF Walk, TypeOK
<1>2. \/ pc' \in {"convert", "returned"}
      \/ /\ pc' = pc
         /\ \E n : \/ look' = [look EXCEPT !.node = n, !.k = look.k + 1]
                  \/ look' = [look EXCEPT !.node = n, !.k = look.k + 1 + 1]
  <2>1. ASSUME NEW n, NEW j, GoOn(n, j)
        PROVE  pc' = "convert" \/ (pc' = pc /\ \E m : look' = [look EXCEPT !.node = m, !.k = j])
    BY <2>1 DEF GoOn, Found
  <2> QED BY <2>1 DEF Walk, Element, FoundAt, Found, NotThere, Panic
<1>3. CASE pc' \in {"convert", "returned"}
  BY <1>1, <1>3 DEF Kept, Up, Phase
<1>4. CASE pc' = pc /\ \E n : \/ look' = [look EXCEPT !.node = n, !.k = look.k + 1]
                             \/ look' = [look EXCEPT !.node = n, !.k = look.k + 1 + 1]
  <2>1. look'.at = look.at /\ look.k < look'.k
    <3>1. look = [at |-> look.at, node |-> look.node, k |-> look.k]
      BY DEF TypeOK
    <3>2. PICK n : \/ look' = [look EXCEPT !.node = n, !.k = look.k + 1]
                   \/ look' = [look EXCEPT !.node = n, !.k = look.k + 1 + 1]
      BY <1>4
    <3>3. look'.at = look.at /\ look'.k \in {look.k + 1, look.k + 1 + 1}
      BY <3>1, <3>2
    <3> QED BY <1>1, <3>3
  <2>2. look'.k < Len(look'.at)
    BY <1>1, <1>4 DEF TypeOK
  <2> QED BY <1>1, <1>4, <2>1, <2>2 DEF Kept
<1> QED BY <1>2, <1>3, <1>4

LEMMA ReturnDescends ==
  ASSUME TypeOK, Return
  PROVE  Up \/ Cardinality(todo') < Cardinality(todo)
<1>1. pc = "returned" /\ pc' = "idle" /\ todo' = {}
  BY DEF Return
<1>2. CASE todo = {}
  BY <1>1, <1>2 DEF Up, Phase
<1>3. CASE todo # {}
  <2>1. Cardinality(todo) \in Nat \ {0} /\ Cardinality({}) = 0
    BY <1>3, TodoFinite, FS_EmptySet, FS_CardinalityType
  <2> QED BY <1>1, <2>1
<1> QED BY <1>2, <1>3

\* Every step of a call descends in a well-founded order, for any schemas, also
\* those that refer to themselves, and any objects (duckType, findTypeForKey).
THEOREM CallGetsOnCorrect == Spec => CallGetsOn
<1>1. ASSUME TypeOK, TypeOK', [Next]_vars, pc # "idle", ~UNCHANGED vars
      PROVE  /\ \/ Cardinality(todo') < Cardinality(todo)
                \/ todo' = todo /\ Phase[pc'] > Phase[pc]
                \/ /\ todo' = todo /\ pc = "walk" /\ pc' = "walk" /\ look'.at = look.at
                   /\ look.k < look'.k /\ look'.k < Len(look.at)
             /\ pc # "returned" =>
                  /\ UNCHANGED args /\ (pc # "schema" => UNCHANGED root)
                  /\ \A p \in DOMAIN new : new'[p] = new[p]
  <2>1. CASE FindSchemaForKind \/ FindSchemaForCrd
    <3>1. Up /\ Kept /\ pc = "schema"
      BY <2>1 DEF FindSchemaForKind, FindSchemaForCrd, Fail, Up, Kept, Phase
    <3> QED BY <3>1 DEF Up, Kept
  <2>2. CASE Finish \/ \E p \in todo : Visit(p)
    <3>1. Up /\ Kept /\ root' = root
      BY <2>2 DEF Finish, Visit, Up, Kept, Phase
    <3> QED BY <3>1 DEF Up, Kept
  <2>3. CASE Walk
    BY <1>1, <2>3, WalkDescends DEF Up, Kept
  <2>4. CASE Assign
    BY <1>1, <2>4, AssignDescends DEF Up, Kept
  <2>5. CASE Return
    <3>1. pc = "returned"
      BY <2>5 DEF Return
    <3> QED BY <1>1, <2>5, <3>1, ReturnDescends DEF Up
  <2> QED BY <1>1, <2>1, <2>2, <2>3, <2>4, <2>5 DEF Next, Work, Call
<1>2. IInv /\ IInv' /\ [Next]_vars =>
        [pc # "idle" =>
           /\ \/ Cardinality(todo') < Cardinality(todo)
              \/ todo' = todo /\ Phase[pc'] > Phase[pc]
              \/ /\ todo' = todo /\ pc = "walk" /\ pc' = "walk" /\ look'.at = look.at
                 /\ look.k < look'.k /\ look'.k < Len(look.at)
           /\ pc # "returned" =>
                /\ UNCHANGED args /\ (pc # "schema" => UNCHANGED root)
                /\ \A p \in DOMAIN new : new'[p] = new[p]]_vars
  BY <1>1 DEF IInv
<1> QED BY <1>2, Invariance, PTL DEF Spec, CallGetsOn
=============================================================================
