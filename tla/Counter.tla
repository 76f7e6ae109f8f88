------------------------------ MODULE Counter ------------------------------
(***************************************************************************)
(* The Counter of pkg/stats: what a histogram keeps about the values it    *)
(* recorded, besides its buckets.                                          *)
(***************************************************************************)
EXTENDS Integers

Empty == [count |-> 0, sum |-> 0, min |-> 0, max |-> 0, sumOfSquares |-> 0]

Counters(Value) ==
  [count: Nat, sum: Int, min: Value \cup {0}, max: Value \cup {0}, sumOfSquares: Nat]

(* RecordN(v, n): the same value n times. *)
RecordedN(c, v, n) ==
  [count |-> c.count + n,
   sum   |-> c.sum + v * n,
   min   |-> IF c.count = 0 \/ v < c.min THEN v ELSE c.min,
   max   |-> IF c.count = 0 \/ v > c.max THEN v ELSE c.max,
   sumOfSquares |-> c.sumOfSquares + (v * n) * (v * n)]

Recorded(c, v) == RecordedN(c, v, 1)

(* The receiver of Transfer(src); src is emptied. *)
Transferred(c, src) ==
  CASE src.count = 0 -> c
    [] src.count > 0 /\ c.count = 0 -> src
    [] OTHER ->
         [count |-> c.count + src.count,
          sum   |-> c.sum + src.sum,
          min   |-> IF src.min < c.min THEN src.min ELSE c.min,
          max   |-> IF src.max > c.max THEN src.max ELSE c.max,
          sumOfSquares |-> c.sumOfSquares + src.sumOfSquares]
=============================================================================
