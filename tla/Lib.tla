--------------------------------- MODULE Lib ---------------------------------
(***************************************************************************)
(* Functions of core/lib.c and the conversions of core/kprintf.c: pure     *)
(* algorithms, checked against what they are to compute.  A 64-bit integer *)
(* is one of BITS bits here, so that its ends are in reach.                *)
(***************************************************************************)
EXTENDS Integers, Sequences

CONSTANT BITS       \* width of i64 and u64

ASSUME LibAssumption == BITS \in Nat \ {0}

U64 == 0 .. 2^BITS - 1
I64 == -(2^(BITS - 1)) .. 2^(BITS - 1) - 1
AsU64(v) == v % 2^BITS

\* uix_utoa: the digits, found from the last one on in tmp and turned round.
\* A bug: zero has no digit.
DigitsNoZero(v, base) ==
    LET tmp[n \in U64] == IF n = 0 THEN <<>> ELSE Append(tmp[n \div base], n % base)
    IN tmp[v]

Digits(v, base) ==
    LET tmp[n \in U64] == IF n = 0 THEN <<>> ELSE Append(tmp[n \div base], n % base)
    IN IF v = 0 THEN <<0>> ELSE tmp[v]

\* tmp has 32 places, half the bits of the number, which base 4 and more never
\* fill up.  What a write past its end does is left out: there is no text then.
TMP == BITS \div 2

Utoa(v, base) ==
    LET lut == <<"0", "1", "2", "3", "4", "5", "6", "7",
                 "8", "9", "a", "b", "c", "d", "e", "f">>
        b == IF base \in 2 .. 16 THEN base ELSE 10
        d == Digits(v, b)
    IN IF Len(d) > TMP THEN <<>> ELSE [k \in DOMAIN d |-> lut[d[k] + 1]]

\* uix_itoa: a negative number is negated without leaving its range.
Itoa(v, base) ==
    IF base = 10 /\ v < 0 THEN <<"-">> \o Utoa(AsU64(AsU64(-(v + 1)) + 1), base)
    ELSE Utoa(AsU64(v), base)

Pad(c, n) == [k \in 1 .. IF n > 0 THEN n ELSE 0 |-> c]

\* kvprintf for one conversion: %d, %u, %x, %p, %c and %s with a field width.
Format(spec, width, v) ==
    LET d == Itoa(v, 10)
        text == CASE spec = "d" -> d
                  [] spec = "u" -> Utoa(v, 10)
                  [] spec \in {"x", "p"} -> Utoa(v, 16)
                  [] OTHER -> v
    IN CASE spec = "p" -> <<"0", "x">> \o Pad("0", BITS \div 4 - Len(text)) \o text
         [] spec = "d" -> Pad(" ", (IF v < 0 THEN width - 1 ELSE width) - Len(text)) \o text
         [] OTHER -> Pad(" ", width - Len(text)) \o text

-----------------------------------------------------------------------------
\* The number a text stands for, in a base.
ValueOf(text, base) ==
    LET lut == <<"0", "1", "2", "3", "4", "5", "6", "7",
                 "8", "9", "a", "b", "c", "d", "e", "f">>
        digit(c) == CHOOSE k \in 0 .. 15 : lut[k + 1] = c
        value[k \in 0 .. Len(text)] == IF k = 0 THEN 0 ELSE value[k - 1] * base + digit(text[k])
    IN value[Len(text)]

\* The texts of a number have its value and no superfluous zero, and are padded to
\* their field, which is one column less for a negative %d.
ReadsBack(v) ==
    LET signed == IF v \in I64 THEN v ELSE v - 2^BITS
        d == Itoa(signed, 10)
        p == Format("p", 0, v)
        fills(t, text, width) ==
            \E n \in 0 .. width : t = Pad(" ", n) \o text /\ (Len(t) = width \/ n = 0)
    IN /\ \A base \in 2 .. 16 :
             LET t == Utoa(v, base)
             IN v < base^TMP => t # <<>> /\ ValueOf(t, base) = v /\ (t[1] = "0" => Len(t) = 1)
       /\ IF signed < 0 THEN d[1] = "-" /\ ValueOf(Tail(d), 10) = -signed
          ELSE ValueOf(d, 10) = signed
       /\ ValueOf(SubSeq(p, 3, Len(p)), 16) = v /\ Len(p) = 2 + BITS \div 4
       /\ \A width \in 0 .. 6 :
             /\ fills(Format("u", width, v), Utoa(v, 10), width)
             /\ fills(Format("x", width, v), Utoa(v, 16), width)
             /\ fills(Format("d", width, signed), d,
                      IF signed < 0 /\ width > 0 THEN width - 1 ELSE width)
==============================================================================
