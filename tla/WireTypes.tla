------------------------------ MODULE WireTypes ------------------------------
(* The thrift adapters of fbthrift_ext: to_thrift() when a value is sent and *)
(* from_thrift() when one is received.  A Rust program sends a value and     *)
(* another one receives it, or a program in another language sends one and   *)
(* gets it back.  Integers have few bits: i8 has 2 and i64 has 4.  A time is *)
(* a number of ticks, Ticks(unit) to the unit; a text or a byte string is    *)
(* [of, form]: the value it stands for and how it is written.                *)
EXTENDS Integers

CONSTANTS MaxTicks,  \* the longest duration, in ticks
          MaxDate    \* how far a DateTime can be from 1970, in ticks

VARIABLES adapter,   \* [name, ty, unit]
          origin,    \* "native" or "wire": the kind of the first value
          first,     \* the first value,
          passed,    \*   what it became (an error ends the exchange)
          returned,  \*   and what that became
          hop        \* conversions made

vars == <<adapter, origin, first, passed, returned, hop>>

Ok(v) == [ok |-> TRUE, v |-> v]
Err == [ok |-> FALSE, v |-> 0]

Size(ty) == IF ty = "i8" THEN 4 ELSE 16
MAX(ty) == Size(ty) \div 2 - 1
Ints(ty) == -(Size(ty) \div 2)..MAX(ty)
(* `n as ty`, and `n as` the unsigned type of the same width.                *)
Wrap(n, ty) == CHOOSE m \in Ints(ty) : (m - n) % Size(ty) = 0
Unsigned(n, ty) == n % Size(ty)

Ticks(unit) == CASE unit = "secs" -> 4 [] unit = "millis" -> 2 [] unit = "nanos" -> 1

(* Duration::as_*() drop what is less than the unit; DateTime::timestamp*()  *)
(* round towards the past.                                                   *)
Count(ticks) == ticks \div Ticks(adapter.unit)

(* Mutant: what does not fit is cut off as in the wrapping adapters.         *)
MutantSaturate(n) == Wrap(n, adapter.ty)

Saturate(n) == IF n \in Ints(adapter.ty) THEN n ELSE MAX(adapter.ty)

(* External: the ways to write a value that its parser reads; "canonical" is *)
(* the one that is written.                                                  *)
Forms ==
    CASE adapter.name = "Uuid" /\ adapter.ty = "String" -> {"canonical", "unhyphenated", "uppercase"}
      [] adapter.name \in {"Ipv6Address", "SocketAddr"} -> {"canonical", "long"}
      [] OTHER -> {"canonical"}

Addresses == {"Ipv4Address", "Ipv6Address", "SocketAddr"}

to_thrift(v) ==
    CASE adapter.name = "Saturating" -> Saturate(Count(v))
      [] adapter.name = "Wrapping" -> Wrap(Count(v), adapter.ty)
      [] adapter.name = "UtcTimestamp" -> Count(v)
      [] adapter.name = "UnsignedInt" -> Wrap(v, adapter.ty)
      [] adapter.name \in Addresses \cup {"Uuid"} -> [of |-> v, form |-> "canonical"]
      [] adapter.name = "NonNegative" -> v

FromDuration(w) == IF w < 0 THEN Err ELSE Ok(w * Ticks(adapter.unit))

FromTimestamp(w) ==
    LET t == w * Ticks(adapter.unit) IN IF t \in -MaxDate..MaxDate THEN Ok(t) ELSE Err

FromNonNegative(w) == IF w < 0 THEN Err ELSE Ok(w)

(* An empty input is the nil UUID, 0.                                        *)
FromUuid(w) ==
    IF w.form = "empty" THEN Ok(0) ELSE IF w.form \in Forms THEN Ok(w.of) ELSE Err

FromAddress(w) == IF w.form \in Forms THEN Ok(w.of) ELSE Err

from_thrift(w) ==
    CASE adapter.name \in {"Saturating", "Wrapping"} -> FromDuration(w)
      [] adapter.name = "UtcTimestamp" -> FromTimestamp(w)
      [] adapter.name = "UnsignedInt" -> Ok(Unsigned(w, adapter.ty))
      [] adapter.name = "NonNegative" -> FromNonNegative(w)
      [] adapter.name = "Uuid" -> FromUuid(w)
      [] adapter.name \in Addresses -> FromAddress(w)

Adapters ==
    [name : {"Saturating", "Wrapping"}, ty : {"i8", "i64"}, unit : {"secs", "millis", "nanos"}] \cup
    [name : {"UtcTimestamp"}, ty : {"i64"}, unit : {"secs", "millis", "nanos"}] \cup
    [name : {"UnsignedInt", "NonNegative"}, ty : {"i8", "i64"}, unit : {""}] \cup
    [name : {"Uuid"}, ty : {"String", "Vec"}, unit : {""}] \cup
    [name : Addresses, ty : {"String"}, unit : {""}]

Natives ==
    CASE adapter.name \in {"Saturating", "Wrapping"} -> 0..MaxTicks
      [] adapter.name = "UtcTimestamp" -> -MaxDate..MaxDate
      [] adapter.name = "UnsignedInt" -> 0..Size(adapter.ty) - 1
      [] adapter.name = "NonNegative" -> 0..MAX(adapter.ty)
      [] OTHER -> 0..2

Wires ==
    CASE adapter.ty \in {"i8", "i64"} -> Ints(adapter.ty)
      [] OTHER -> [of : 0..2, form : Forms \cup {"empty", "invalid"}]

Init ==
    /\ adapter \in Adapters
    /\ origin \in {"native", "wire"}
    /\ first \in IF origin = "native" THEN Natives ELSE Wires
    /\ passed = Err /\ returned = Err /\ hop = 0

Convert(kind, v) == IF kind = "native" THEN Ok(to_thrift(v)) ELSE from_thrift(v)

Send == /\ hop = 0 /\ hop' = 1
        /\ passed' = Convert(origin, first)
        /\ UNCHANGED <<adapter, origin, first, returned>>

Return == /\ hop = 1 /\ passed.ok /\ hop' = 2
          /\ returned' = Convert(IF origin = "native" THEN "wire" ELSE "native", passed.v)
          /\ UNCHANGED <<adapter, origin, first, passed>>

Next == Send \/ Return

Spec == Init /\ [][Next]_vars

-----------------------------------------------------------------------------
(* What a program in another language sends and a Rust program accepts comes *)
(* back as it was, but for texts that are written differently.               *)
WireKept ==
    hop = 2 /\ origin = "wire" =>
        \/ returned.v = first
        \/ /\ adapter.name \in {"Uuid", "Ipv6Address", "SocketAddr"} /\ first.form # "canonical"
           /\ returned.v = [of |-> passed.v, form |-> "canonical"]

(* What a Rust program sends, another one receives: times lose less than a   *)
(* unit and are never later than they were, saturated ones are the longest   *)
(* possible, wrapped ones are off by a multiple of the type's range or come  *)
(* out negative and are refused; everything else is exact.                   *)
NativeKept ==
    hop = 2 /\ origin = "native" =>
        LET unit == Ticks(adapter.unit)
            lost == first - returned.v
        IN  CASE adapter.name = "Saturating" ->
                    /\ returned.ok /\ lost >= 0
                    /\ lost < unit \/ returned.v = MAX(adapter.ty) * unit
              [] adapter.name = "Wrapping" ->
                    IF returned.ok THEN lost >= 0 /\ lost % (Size(adapter.ty) * unit) < unit
                    ELSE first >= (MAX(adapter.ty) + 1) * unit
              [] adapter.name = "UtcTimestamp" -> returned.ok /\ lost \in 0..unit - 1
              [] OTHER -> returned = Ok(first)

(* Values survive the exchange in both directions, at the borders of every   *)
(* integer type and of the times as well.                                    *)
ValuesSurvive == WireKept /\ NativeKept
=============================================================================
