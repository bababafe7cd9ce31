------------------------------ MODULE ScubaValue ------------------------------
(* scuba_sample/src/value.rs: what a Rust value becomes when it is put into  *)
(* a sample and taken out again, directly or through JSON.  Every value is a *)
(* sequence of strings, and a string a sequence of its parts between colons: *)
(* a number n has the text <<TEXT + n>>, an absent Option is <<>>.  Integers *)
(* have few bits: i8 has 2, i64 and u64 have 3, i128 has 4.                  *)
EXTENDS Integers, Sequences, SequencesExt, FiniteSets

CONSTANT Strings  \* strings of the inputs, sequences of small numbers

VARIABLES rust,   \* [ty, opt, v]: the value put into the sample
          scuba,  \* [tag, v]: the ScubaValue it became
          via,    \* "memory", or "serde" or "value" when it went through JSON
          back    \* [ok, v]: what TryFrom made of it

vars == <<rust, scuba, via, back>>

TEXT == 100
NAN == 50
BOOL(b) == <<<<TEXT + (IF b THEN 61 ELSE 60)>>>>

Bits(ty) == CASE ty = "i8" -> 4 [] ty = "i128" -> 16 [] OTHER -> 8
(* `n as T`: n modulo the size of T, into T's range.                         *)
Cast(n, ty) ==
    LET m == n % Bits(ty) IN IF ty # "u64" /\ 2 * m >= Bits(ty) THEN m - Bits(ty) ELSE m

IntTypes == {"i8", "i64", "u64", "i128"}
Representable(ty) == {Cast(n, ty) : n \in 0..Bits(ty) - 1}

Ok(v) == [ok |-> TRUE, v |-> v]
Err(why) == [ok |-> FALSE, v |-> <<<<why>>>>]
InvalidType == Err(1)
UnexpectedNull == Err(2)

(* From<T> for ScubaValue: integers as i64, bool as text, maps as sorted     *)
(* "key:value" strings, an absent Option as the typed null.                  *)
FromInt(r) == IF r.v = <<>> THEN [tag |-> "NullInt", v |-> <<>>]
              ELSE [tag |-> "Int", v |-> <<<<Cast(r.v[1][1], "i64")>>>>]

FromFloat(r) == IF r.v = <<>> THEN [tag |-> "NullDouble", v |-> <<>>] ELSE [tag |-> "Double", v |-> r.v]

FromText(r) == IF r.v = <<>> THEN [tag |-> "NullNormal", v |-> <<>>] ELSE [tag |-> "Normal", v |-> r.v]

FromCollection(r) ==
    CASE r.ty = "Vec" -> [tag |-> "NormVector", v |-> r.v]
      [] r.ty = "HashSet" -> [tag |-> "TagSet", v |-> r.v]
      [] r.ty = "HashMap" -> [tag |-> "NormVector", v |-> [i \in 1..Len(r.v) \div 2 |-> r.v[2 * i - 1] \o r.v[2 * i]]]

from(r) ==
    CASE r.ty \in IntTypes -> FromInt(r)
      [] r.ty = "f64" -> FromFloat(r)
      [] r.ty \in {"bool", "String"} -> FromText(r)
      [] OTHER -> FromCollection(r)

IsNull(s) == s.tag \in {"NullInt", "NullDouble", "NullNormal"}

(* What a null converts to: None for an Option, else an error.               *)
OfNull(opt) == IF opt THEN Ok(<<>>) ELSE UnexpectedNull

ParsesAs(text, ty) ==
    /\ Len(text) = 1
    /\ CASE ty \in IntTypes -> text[1] - TEXT \in Representable(ty)
         [] ty = "f64" -> text[1] - TEXT \in -8..NAN
         [] ty = "bool" -> text[1] \in {TEXT + 60, TEXT + 61}

Parsed(s, ty) == IF ParsesAs(s.v[1], ty) THEN Ok(<<<<s.v[1][1] - TEXT>>>>) ELSE InvalidType

ToInt(s, ty, opt) ==
    CASE s.tag = "Int" -> Ok(<<<<Cast(s.v[1][1], ty)>>>>)
      [] s.tag = "Normal" -> Parsed(s, ty)
      [] IsNull(s) -> OfNull(opt)
      [] OTHER -> InvalidType

ToFloat(s, opt) ==
    CASE s.tag \in {"Int", "Double"} -> Ok(s.v)
      [] s.tag = "Normal" -> Parsed(s, "f64")
      [] IsNull(s) -> OfNull(opt)
      [] OTHER -> InvalidType

ToBool(s, opt) ==
    CASE s.tag = "Normal" -> IF ParsesAs(s.v[1], "bool") THEN Ok(s.v) ELSE InvalidType
      [] IsNull(s) -> OfNull(opt)
      [] OTHER -> InvalidType

ToText(s, opt) ==
    CASE s.tag = "Normal" -> Ok(s.v)
      [] s.tag \in {"Int", "Double"} -> Ok(<<<<TEXT + s.v[1][1]>>>>)
      [] IsNull(s) -> OfNull(opt)
      [] OTHER -> InvalidType

ToVec(s) == IF s.tag = "NormVector" THEN Ok(s.v) ELSE IF IsNull(s) THEN UnexpectedNull ELSE InvalidType

ToHashSet(s) == IF s.tag = "TagSet" THEN Ok(s.v) ELSE IF IsNull(s) THEN UnexpectedNull ELSE InvalidType

(* Mutant: it is cut at its last colon.                                      *)
MutantToHashMap(s) ==
    IF s.tag # "NormVector" THEN IF IsNull(s) THEN UnexpectedNull ELSE InvalidType
    ELSE IF \E i \in DOMAIN s.v : Len(s.v[i]) < 2 THEN InvalidType
    ELSE Ok(FlattenSeq([i \in DOMAIN s.v |-> <<Front(s.v[i]), <<Last(s.v[i])>>>>]))

(* "key:value" is cut at its first colon; one without a colon is an error.   *)
ToHashMap(s) ==
    IF s.tag # "NormVector" THEN IF IsNull(s) THEN UnexpectedNull ELSE InvalidType
    ELSE IF \E i \in DOMAIN s.v : Len(s.v[i]) < 2 THEN InvalidType
    ELSE Ok(FlattenSeq([i \in DOMAIN s.v |-> <<<<Head(s.v[i])>>, Tail(s.v[i])>>]))

try_from(s, ty, opt) ==
    CASE ty \in IntTypes -> ToInt(s, ty, opt)
      [] ty = "f64" -> ToFloat(s, opt)
      [] ty = "bool" -> ToBool(s, opt)
      [] ty = "String" -> ToText(s, opt)
      [] ty = "Vec" -> ToVec(s)
      [] ty = "HashSet" -> ToHashSet(s)
      [] ty = "HashMap" -> ToHashMap(s)

(* From<ScubaValue> for serde_json::Value, and serialize(): sets sorted, a   *)
(* Double that is no number becomes null.                                    *)
ToJson(s) ==
    CASE s.tag = "Int" -> [kind |-> "integer", v |-> s.v]
      [] s.tag = "Double" -> IF s.v = <<<<NAN>>>> THEN [kind |-> "null", v |-> <<>>] ELSE [kind |-> "float", v |-> s.v]
      [] s.tag = "Normal" -> [kind |-> "string", v |-> s.v]
      [] s.tag \in {"NormVector", "TagSet"} -> [kind |-> "array", v |-> s.v]
      [] IsNull(s) -> [kind |-> "null", v |-> <<>>]

(* Deserialize for ScubaValue; a null does not say of which type it was.     *)
Deserialized(j) ==
    CASE j.kind = "integer" -> [tag |-> "Int", v |-> j.v]
      [] j.kind = "float" -> [tag |-> "Double", v |-> j.v]
      [] j.kind = "string" -> [tag |-> "Normal", v |-> j.v]
      [] j.kind = "array" -> [tag |-> "NormVector", v |-> j.v]
      [] j.kind = "null" -> [tag |-> "NullInt", v |-> <<>>]

(* TryFrom<Value> for ScubaValue reads the same but refuses null.            *)
Refused(j) == j.kind = "null"

Unset == [tag |-> "", v |-> <<>>]
Unasked == Err(0)

Value(t, o, x) == rust = [ty |-> t, opt |-> o, v |-> x]

Init ==
    /\ \/ \E t \in IntTypes, o \in BOOLEAN : \E n \in Representable(t) : Value(t, o, <<<<n>>>>)
       \/ \E n \in {-1, 0, 2, NAN}, o \in BOOLEAN : Value("f64", o, <<<<n>>>>)
       \/ \E b, o \in BOOLEAN : Value("bool", o, BOOL(b))
       \/ \E s \in Strings, o \in BOOLEAN : Value("String", o, <<s>>)
       \/ \E t \in IntTypes \cup {"f64", "bool", "String"} : Value(t, TRUE, <<>>)
       \/ \E t \in {"Vec", "HashSet"}, s1, s2 \in Strings : s1 # s2 /\ Value(t, FALSE, <<s1, s2>>)
       \/ \E k1, k2, s1, s2 \in Strings : k1 # k2 /\ Value("HashMap", FALSE, <<k1, s1, k2, s2>>)
    /\ scuba = Unset /\ via = "memory" /\ back = Unasked

Into == scuba = Unset /\ scuba' = from(rust) /\ UNCHANGED <<rust, via, back>>

ThroughJson ==
    /\ scuba # Unset /\ via = "memory" /\ back = Unasked
    /\ via' \in {"serde", "value"}
    /\ via' = "value" => ~Refused(ToJson(scuba))
    /\ scuba' = Deserialized(ToJson(scuba))
    /\ UNCHANGED <<rust, back>>

TryInto ==
    /\ scuba # Unset /\ back = Unasked
    /\ back' = try_from(scuba, rust.ty, rust.opt)
    /\ UNCHANGED <<rust, scuba, via>>

Next == Into \/ ThroughJson \/ TryInto

Spec == Init /\ [][Next]_vars

(* What the conversions are known to lose: the high bits of a 128-bit        *)
(* integer, and where the key of a map ends when it contains a colon; through*)
(* JSON also that a collection was a set, and a Double that is no number.    *)
Lossy ==
    \/ rust.ty = "i128" /\ rust.v # <<>> /\ rust.v[1][1] \notin Representable("i64")
    \/ rust.ty = "HashMap" /\ \E i \in DOMAIN rust.v : i % 2 = 1 /\ Len(rust.v[i]) > 1
    \/ via # "memory" /\ (rust.ty = "HashSet" \/ (rust.ty = "f64" /\ rust.v = <<<<NAN>>>>))

(* A value taken out of a sample is the one put in, with the same type, for  *)
(* every type and for Options, directly or through JSON, except where a      *)
(* conversion is known to lose something; there it never comes back intact.  *)
ConversionsFaithful == back # Unasked => (back = Ok(rust.v) <=> ~Lossy)
=============================================================================
