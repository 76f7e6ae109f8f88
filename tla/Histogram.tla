----------------------------- MODULE Histogram -----------------------------
(***************************************************************************)
(* The Histogram of pkg/stats, as operators: a Counter and the numbers of  *)
(* values that fell into each bucket, once moved by an offset and divided. *)
(* Bucket i holds what is above Buckets[i - 1] and up to Buckets[i]; the   *)
(* first one everything up to Buckets[1], an additional last one the rest. *)
(*                                                                         *)
(* Values are integers.  A midpoint, which is recorded when the scales of  *)
(* two histograms differ, is a half: places are given doubled.  The code   *)
(* takes a scaled value for whole if it is less than 1e-12 above; here it  *)
(* is whole or not.                                                        *)
(***************************************************************************)
EXTENDS Integers, Sequences

LOCAL INSTANCE SequencesExt

C == INSTANCE Counter

CONSTANTS
  Buckets,       \* histogramBucketValues, from index 1
  MaxArrayValue  \* the one up to which the index is looked up in an array

NumValues == Len(Buckets)
NumBuckets == NumValues + 1
FirstValue == Buckets[1]
LastValue == Buckets[NumValues]
MaxArrayValueIndex == CHOOSE i \in 1 .. NumValues : Buckets[i] = MaxArrayValue

(* The array grows by at most one bucket per value, which is enough when   *)
(* the buckets are whole and in order.                                     *)
ASSUME BucketsAssumption ==
  /\ Buckets \in Seq(Nat) /\ NumValues > 1 /\ FirstValue = 0
  /\ \A i \in 1 .. NumValues - 1 : Buckets[i] < Buckets[i + 1]
  /\ \E i \in 2 .. NumValues : Buckets[i] = MaxArrayValue

-----------------------------------------------------------------------------
(* The index of a value.                                                   *)

(* Mutant: a value that is the end of a bucket stays in it. *)
Val2BucketClosed ==
  LET index[n \in 0 .. MaxArrayValue - 1] ==
        LET before == IF n = 0 THEN 1 ELSE index[n - 1]
        IN IF n > Buckets[before] THEN before + 1 ELSE before
  IN index

Val2Bucket ==
  LET index[n \in 0 .. MaxArrayValue - 1] ==
        LET before == IF n = 0 THEN 1 ELSE index[n - 1]
        IN IF n >= Buckets[before] THEN before + 1 ELSE before
  IN index

LookUpIdx(n) ==
  IF n < MaxArrayValue
  THEN Val2Bucket[n]
  ELSE CHOOSE i \in MaxArrayValueIndex .. NumValues :
         Buckets[i] > n /\ \A j \in MaxArrayValueIndex .. i - 1 : Buckets[j] <= n

(* The bucket of a place: the end of an interval belongs to it. *)
BucketOf(h, place) ==
  LET moved == place - 2 * h.offset
      unit == 2 * h.divider
      below == moved \div unit
  IN CASE moved <= unit * FirstValue -> 1
       [] moved > unit * LastValue -> NumBuckets
       [] OTHER -> LookUpIdx(IF moved % unit = 0 THEN below - 1 ELSE below)

-----------------------------------------------------------------------------
(* Making and filling a histogram.                                         *)

NewHistogram(offset, divider) ==
  [counter |-> C!Empty, offset |-> offset, divider |-> divider,
   hdata |-> [i \in 1 .. NumBuckets |-> 0]]

Put(h, place, n) == [h EXCEPT !.hdata[BucketOf(h, place)] = @ + n]

RecordN(h, v, n) ==
  Put([h EXCEPT !.counter = C!RecordedN(@, v, n)], 2 * v, n)

Reset(h) == NewHistogram(h.offset, h.divider)

-----------------------------------------------------------------------------
(* Export: the buckets that hold something, from the minimum to the        *)
(* maximum; upTo is the cumulative count, of which the code makes percents.*)

Cumulated(h, i) == FoldLeft(+, 0, SubSeq(h.hdata, 1, i))

(* Mutant: the last interval ends where its bucket does. *)
ExportWhole(h) ==
  LET full == SelectSeq([i \in 1 .. NumBuckets |-> i], LAMBDA i : h.hdata[i] > 0)
      scaled(i) == h.divider * Buckets[i] + h.offset
  IN [k \in 1 .. Len(full) |->
       [start |-> IF k = 1 THEN h.counter.min ELSE scaled(full[k] - 1),
        end   |-> IF full[k] = NumBuckets THEN h.counter.max ELSE scaled(full[k]),
        upTo  |-> Cumulated(h, full[k]),
        count |-> h.hdata[full[k]]]]

Export(h) ==
  LET full == SelectSeq([i \in 1 .. NumBuckets |-> i], LAMBDA i : h.hdata[i] > 0)
      scaled(i) == h.divider * Buckets[i] + h.offset
  IN [k \in 1 .. Len(full) |->
       [start |-> IF k = 1 THEN h.counter.min ELSE scaled(full[k] - 1),
        end   |-> IF k = Len(full) THEN h.counter.max ELSE scaled(full[k]),
        upTo  |-> Cumulated(h, full[k]),
        count |-> h.hdata[full[k]]]]

(* Mutant: at the exact end of an interval it takes the next one. *)
CalcPercentileNext(h, p) ==
  LET data == Export(h)
      n == h.counter.count
      k == CHOOSE i \in 1 .. Len(data) :
             p * n < 100 * data[i].upTo /\ \A j \in 1 .. i - 1 : p * n >= 100 * data[j].upTo
      before == IF k = 1 THEN 0 ELSE data[k - 1].upTo
      width == data[k].end - data[k].start
  IN <<100 * (data[k].upTo - before) * data[k].start + (p * n - 100 * before) * width,
       100 * (data[k].upTo - before)>>

(* An estimate of the value below which p percent are: a fraction, the     *)
(* numerator and the denominator.                                          *)
CalcPercentile(h, p) ==
  LET data == Export(h)
      n == h.counter.count
      k == CHOOSE i \in 1 .. Len(data) :
             p * n <= 100 * data[i].upTo /\ \A j \in 1 .. i - 1 : p * n > 100 * data[j].upTo
      before == IF k = 1 THEN 1 ELSE data[k - 1].upTo
      width == data[k].end - data[k].start
  IN IF p * n <= 100
     THEN <<h.counter.min, 1>>
     ELSE <<100 * (data[k].upTo - before) * data[k].start + (p * n - 100 * before) * width,
            100 * (data[k].upTo - before)>>

-----------------------------------------------------------------------------
(* Putting histograms together.                                            *)

(* Buckets of another scale are recorded again, by their midpoints. *)
CopyHDataFrom(h, src) ==
  IF h.divider = src.divider /\ h.offset = src.offset
  THEN [h EXCEPT !.hdata = [i \in 1 .. NumBuckets |-> @[i] + src.hdata[i]]]
  ELSE FoldLeft(LAMBDA acc, b : Put(acc, b.start + b.end, b.count), h, Export(src))

CopyFrom(h, src) == CopyHDataFrom([h EXCEPT !.counter = src.counter], src)

Clone(h) == CopyFrom(NewHistogram(h.offset, h.divider), h)

(* The receiver of Transfer(src); src is reset. *)
Transferred(h, src) ==
  CASE src.counter.count = 0 -> h
    [] src.counter.count > 0 /\ h.counter.count = 0 -> CopyFrom(h, src)
    [] OTHER -> [CopyHDataFrom(h, src) EXCEPT !.counter = C!Transferred(@, src.counter)]

(* The lowest offset and the highest divider. *)
Merge(h1, h2) ==
  LET offset == IF h2.offset < h1.offset THEN h2.offset ELSE h1.offset
      divider == IF h2.divider > h1.divider THEN h2.divider ELSE h1.divider
  IN Transferred(Transferred(NewHistogram(offset, divider), h1), h2)
=============================================================================
