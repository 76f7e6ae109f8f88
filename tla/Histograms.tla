----------------------------- MODULE Histograms -----------------------------
(***************************************************************************)
(* Histograms as pkg/periodic, the runners and the histogram command use   *)
(* them: values are recorded, histograms are cloned, transferred, merged   *)
(* and reset, in any order.  Next to each there is the collection of all   *)
(* the values that went into it, which the program does not have.          *)
(***************************************************************************)
EXTENDS Histogram, FiniteSets

LOCAL INSTANCE Functions

CONSTANTS
  Names,        \* the histograms
  Scales,       \* the pairs of an offset and a divider
  Values,       \* the values recorded
  Repeats,      \* how often at a time
  MaxValues,    \* how many values there are at most
  Percents      \* the percentiles asked for

ASSUME HistogramsAssumption ==
  /\ Scales \subseteq Int \X (Nat \ {0})
  /\ Values \subseteq Int
  /\ Repeats \subseteq Nat \ {0}
  /\ Percents \subseteq 1 .. 99

VARIABLES
  hist,     \* the histograms
  recorded, \* for each how often each value went into it
  native    \* whether all of them went in as values, not as midpoints

vars == <<hist, recorded, native>>

NoValues == [v \in Values |-> 0]
Size(values) == SumFunction(values)
Total == SumFunction([i \in Names |-> Size(recorded[i])])

Init ==
  /\ \E scale \in [Names -> Scales] :
       hist = [i \in Names |-> NewHistogram(scale[i][1], scale[i][2])]
  /\ recorded = [i \in Names |-> NoValues]
  /\ native = [i \in Names |-> TRUE]

SameScale(g, h) == g.offset = h.offset /\ g.divider = h.divider

(* What histogram i stands for when it got all of j besides its own. *)
Receives(h, i, j) ==
  /\ recorded' = [recorded EXCEPT ![i] = [v \in Values |-> @[v] + recorded[j][v]], ![j] = NoValues]
  /\ native' = [native EXCEPT
       ![i] = \A k \in {i, j} : native[k] /\ (recorded[k] = NoValues \/ SameScale(hist[k], h)),
       ![j] = TRUE]

RecordValue(i) ==
  \E v \in Values, n \in Repeats :
    /\ Total + n <= MaxValues
    /\ hist' = [hist EXCEPT ![i] = RecordN(@, v, n)]
    /\ recorded' = [recorded EXCEPT ![i][v] = @ + n]
    /\ UNCHANGED native

Transfer(i, j) ==
  /\ hist' = [hist EXCEPT ![i] = Transferred(@, hist[j]),
                          ![j] = IF hist[j].counter.count = 0 THEN @ ELSE Reset(@)]
  /\ Receives(hist[i], i, j)

(* The merged histogram takes the place of the first. *)
MergeInto(i, j) ==
  LET merged == Merge(hist[i], hist[j])
  IN /\ hist' = [hist EXCEPT ![i] = merged,
                             ![j] = IF hist[j].counter.count = 0 THEN @ ELSE Reset(@)]
     /\ Receives(merged, i, j)

(* A copy of the first takes the place of the second. *)
CloneTo(i, j) ==
  /\ Total - Size(recorded[j]) + Size(recorded[i]) <= MaxValues
  /\ hist' = [hist EXCEPT ![j] = Clone(hist[i])]
  /\ recorded' = [recorded EXCEPT ![j] = recorded[i]]
  /\ native' = [native EXCEPT ![j] = native[i]]

ResetOne(i) ==
  /\ hist' = [hist EXCEPT ![i] = Reset(@)]
  /\ recorded' = [recorded EXCEPT ![i] = NoValues]
  /\ native' = [native EXCEPT ![i] = TRUE]

Next ==
  \/ \E i \in Names : RecordValue(i) \/ ResetOne(i)
  \/ \E i, j \in Names : i # j /\ (Transfer(i, j) \/ MergeInto(i, j) \/ CloneTo(i, j))

Spec == Init /\ [][Next]_vars

-----------------------------------------------------------------------------
Held(i) == {v \in Values : recorded[i][v] > 0}
UpTo(i, x) == SumFunctionOnSet(recorded[i], {v \in Values : v <= x})

(* Nothing is lost or counted twice: after any sequence of transfers,      *)
(* merges and clones, of equal scales or not, with either side empty or    *)
(* not, a histogram has the count, sum, minimum and maximum of the values  *)
(* that went into it, and its buckets hold as many.                        *)
CountsAgree ==
  \A i \in Names :
    LET c == hist[i].counter IN
    /\ c.count = Size(recorded[i])
    /\ Cumulated(hist[i], NumBuckets) = c.count
    /\ c.sum = SumFunction([v \in Values |-> v * recorded[i][v]])
    /\ c.count > 0 =>
         /\ c.min \in Held(i) /\ \A v \in Held(i) : c.min <= v
         /\ c.max \in Held(i) /\ \A v \in Held(i) : v <= c.max

(* Each value is in the bucket whose interval it is in, be it looked up in *)
(* the array or searched for.  Intervals are open below and closed above,  *)
(* as record says and does; the comment at the type Interval has it the    *)
(* other way round, see IntervalsLeftClosed.                               *)
Lower(h, i) == h.divider * Buckets[i - 1] + h.offset
Upper(h, i) == h.divider * Buckets[i] + h.offset

BucketsExact ==
  \A i \in Names : native[i] =>
    \A b \in 1 .. NumBuckets :
      hist[i].hdata[b] =
        SumFunctionOnSet(recorded[i],
          {v \in Values : /\ b > 1 => Lower(hist[i], b) < v
                          /\ b < NumBuckets => v <= Upper(hist[i], b)})

(* "Interval are left closed, open right expect the last one which         *)
(* includes Max": what the comment at the type says of what is exported.   *)
(* It is not what is counted when a value is the end of an interval.       *)
IntervalsLeftClosed ==
  \A i \in Names : native[i] =>
    LET data == Export(hist[i])
        n == Len(data)
    IN \A k \in 1 .. n : data[k].start < data[k].end =>
         data[k].count =
           SumFunctionOnSet(recorded[i],
             {v \in Values : /\ data[k].start <= v
                             /\ v < data[k].end \/ (k = n /\ v = data[k].end)})

(* Both: all that was recorded is there, and in its place.                 *)
AllInPlace == CountsAgree /\ BucketsExact

(* What is exported covers the values from the minimum to the maximum with *)
(* intervals in order that do not overlap, and adds up to all of them.     *)
ExportCovers ==
  \A i \in Names :
    LET data == Export(hist[i])
        n == Len(data)
        c == hist[i].counter
    IN /\ n = 0 <=> c.count = 0
       /\ n > 0 => data[1].start = c.min /\ data[n].end = c.max /\ data[n].upTo = c.count
       /\ \A k \in 1 .. n : data[k].start <= data[k].end
       /\ \A k \in 1 .. n - 1 : data[k].end <= data[k + 1].start

(* Percentiles grow with the percentage, from the minimum to the maximum,  *)
(* across the ends of intervals and the first value, which counts for      *)
(* itself.                                                                 *)
AtMost(x, y) == x[1] * y[2] <= y[1] * x[2]

PercentilesInOrder ==
  \A i \in Names : Held(i) # {} =>
    /\ \A p, q \in Percents :
         p <= q => AtMost(CalcPercentile(hist[i], p), CalcPercentile(hist[i], q))
    /\ \A p \in Percents :
         /\ AtMost(<<hist[i].counter.min, 1>>, CalcPercentile(hist[i], p))
         /\ AtMost(CalcPercentile(hist[i], p), <<hist[i].counter.max, 1>>)

(* The estimate of a percentile is in the interval of the value that it    *)
(* estimates: the smallest one up to which there are p percent.            *)
PercentileNear ==
  \A i \in Names, p \in Percents : native[i] /\ Held(i) # {} =>
    LET exact == CHOOSE v \in Held(i) :
                   /\ 100 * UpTo(i, v) >= p * Size(recorded[i])
                   /\ \A w \in Held(i) : w < v => 100 * UpTo(i, w) < p * Size(recorded[i])
        data == Export(hist[i])
    IN \E k \in 1 .. Len(data) :
         /\ data[k].start <= exact /\ exact <= data[k].end
         /\ AtMost(<<data[k].start, 1>>, CalcPercentile(hist[i], p))
         /\ AtMost(CalcPercentile(hist[i], p), <<data[k].end, 1>>)

(* Both: percentiles are in order, and each is near the exact one.         *)
PercentilesRight == PercentilesInOrder /\ PercentileNear
=============================================================================
