---------------------------- MODULE MetadataDiff ----------------------------
(***************************************************************************)
(* When a metadata tag has survived an encode: _values_match and           *)
(* _diff_metadata of encoder.py.  A value is what its printed form parses  *)
(* to: a number with a unit (a fraction is evaluated, here kept as its     *)
(* numerator and denominator), a time with its UTC offset, or text.        *)
(* Floating point division is not modelled: the comparison is exact.       *)
(***************************************************************************)
EXTENDS Integers

CONSTANTS
    Absent,     \* no value: a tag that is not there, an offset not written
    Ignored,    \* _METADATA_IGNORED
    Precision   \* 1 / _METADATA_REL_TOL

ASSUME PrecisionAssumption == Precision \in Nat \ {0}

Num(n, d, unit) == [kind |-> "number", n |-> n, d |-> d, unit |-> unit]
Time(t, offset) == [kind |-> "time", clock |-> t, offset |-> offset]
Text(t)         == [kind |-> "text", text |-> t]

Abs(x)  == IF x < 0 THEN -x ELSE x
Larger(x, y) == IF x < y THEN y ELSE x

\* math.isclose with a relative tolerance only, cleared of its denominators.
Close(a, b) ==
    Abs(a.n * b.d - b.n * a.d) * Precision <= Larger(Abs(a.n * b.d), Abs(b.n * a.d))

Offset(time) == IF time.offset = Absent THEN 0 ELSE time.offset

TimesMatch(a, b) ==
    /\ a.kind = "time" /\ b.kind = "time"
    /\ a.clock = b.clock /\ Offset(a) = Offset(b)

NumbersMatch(a, b) ==
    /\ a.kind = "number" /\ b.kind = "number"
    /\ a.unit = b.unit /\ Close(a, b)

ValuesMatch(a, b) == a = b \/ TimesMatch(a, b) \/ NumbersMatch(a, b)

\* The tags of before, a function from tags to values, that after has lost or
\* changed.  What the encode added is not looked at.
Differences(before, after) ==
    {tag \in DOMAIN before \ Ignored :
        /\ before[tag] # Absent
        /\ after[tag] = Absent \/ ~ValuesMatch(before[tag], after[tag])}

=============================================================================
