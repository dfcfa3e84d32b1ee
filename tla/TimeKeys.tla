------------------------------ MODULE TimeKeys ------------------------------
(***************************************************************************)
(* The keys of the store's by-time bucket and the order bbolt's cursor     *)
(* walks them in (internal/store/store.go).                                *)
(*                                                                         *)
(* A time is a number of hundredths of a second.  A key is the sequence of *)
(* its bytes, except that the date down to the seconds, which RFC 3339     *)
(* writes with a fixed width, is a single number.  RFC3339Nano then writes *)
(* the fraction with its trailing zeros removed, and nothing at all, not   *)
(* even the point, when it is zero; UTC adds a "Z".                        *)
(***************************************************************************)
EXTENDS Naturals, Sequences

Point == 46
Digit(d) == 48 + d
Zulu == 90
keySep == 0

Fraction(f) ==
  CASE f = 0                 -> <<>>
    [] f # 0 /\ f % 10 = 0   -> <<Point, Digit(f \div 10)>>
    [] OTHER                 -> <<Point, Digit(f \div 10), Digit(f % 10)>>

Timestamp(t) == <<t \div 100>> \o Fraction(t % 100) \o <<Zulu>>

makeTimeKey(t, id) == Timestamp(t) \o <<keySep, id>>

(* bytes.Compare(a, b) < 0 *)
BytesLess(a, b) ==
  \E n \in 0..Len(a) :
    /\ n <= Len(b)
    /\ \A i \in 1..n : a[i] = b[i]
    /\ \/ n = Len(a) /\ n < Len(b)
       \/ n < Len(a) /\ n < Len(b) /\ a[n + 1] < b[n + 1]

BytesAtMost(a, b) == a = b \/ BytesLess(a, b)

=============================================================================
