------------------------------- MODULE Positions -------------------------------
(***************************************************************************)
(* Position (server/domain/map/position.h): coordinates are int64 and      *)
(* distances uint64.  Sums and differences stop at the ends of their type; *)
(* delta converts to the unsigned type and counts modulo its size.         *)
(***************************************************************************)
EXTENDS Integers

CONSTANT MaxDimension   \* numeric_limits<Dimension>::max(), 2^63 - 1

ASSUME DimensionAssumption == MaxDimension \in Nat \ {0}

MinDimension == -MaxDimension - 1
Dimension == MinDimension..MaxDimension

MaxDistance == 2 * MaxDimension + 1
UnsignedSize == MaxDistance + 1

\* Slip: a sum wraps around, as the processor's does.
AddWrapping(a, b, min, max) ==
  IF a + b > max THEN a + b - (max - min + 1)
  ELSE IF a + b < min THEN a + b + (max - min + 1)
  ELSE a + b

\* add<T>, with min and max the limits of T.
Add(a, b, min, max) ==
  IF b > 0 /\ a > max - b THEN max
  ELSE IF b < 0 /\ a < min - b THEN min
  ELSE a + b

AddDimension(a, b) == Add(a, b, MinDimension, MaxDimension)
AddDistance(a, b) == Add(a, b, 0, MaxDistance)

\* sub<T>
SubDimension(a, b) ==
  IF b > 0 /\ a < MinDimension + b THEN MinDimension
  ELSE IF b < 0 /\ a > MaxDimension + b THEN MaxDimension
  ELSE a - b

\* static_cast<U>: a negative number is taken modulo 2^64; so is a difference.
Unsigned(n) == IF n < 0 THEN n + UnsignedSize ELSE n

Delta(a, b) ==
  IF a >= b THEN Unsigned(Unsigned(a) - Unsigned(b)) ELSE Unsigned(Unsigned(b) - Unsigned(a))

\* operator+ and operator-
Plus(c, d) == <<AddDimension(d[1], c[1]), AddDimension(d[2], c[2])>>
Minus(c, d) == <<SubDimension(c[1], d[1]), SubDimension(c[2], d[2])>>

ManhattanDistance(c, d) == AddDistance(Delta(d[1], c[1]), Delta(d[2], c[2]))

Direction == {"Up", "Down", "Left", "Right"}

OffsetFromDirection(dir) ==
  CASE dir = "Up"    -> <<0, 1>>
    [] dir = "Down"  -> <<0, -1>>
    [] dir = "Left"  -> <<-1, 0>>
    [] dir = "Right" -> <<1, 0>>

================================================================================
