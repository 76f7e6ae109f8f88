--------------------------- MODULE Workers_proofs ---------------------------
(***************************************************************************)
(* Proofs about Workers, for any number of workers and calls and any       *)
(* latencies: IInv is an inductive invariant, and what follows from it for *)
(* the sharing of the calls, for the results and for the live statistics.  *)
(***************************************************************************)
EXTENDS Workers, FiniteSetTheorems, TLAPS

-----------------------------------------------------------------------------
(* Sums.                                                                   *)

LEMMA UnitsFinite ==
  ASSUME NEW S, IsFiniteSet(S), NEW f \in [S -> Nat]
  PROVE  IsFiniteSet(Units(f)) /\ Tally(f) \in Nat
<1> DEFINE own == [t \in S |-> {t} \X (1 .. f[t])]
           all == {{t} \X (1 .. f[t]) : t \in S}
<1>1. own \in Surjection(S, all)
  BY DEF Surjection
<1>2. IsFiniteSet(all)
  BY <1>1, FS_Surjection
<1>3. ASSUME NEW T \in all PROVE IsFiniteSet(T)
  <2>1. PICK t \in S : T = {t} \X (1 .. f[t])
    OBVIOUS
  <2>2. f[t] \in Nat
    OBVIOUS
  <2>3. IsFiniteSet(1 .. f[t])
    BY <2>2, FS_Interval
  <2>4. IsFiniteSet({t})
    BY FS_Singleton
  <2>5. QED BY <2>1, <2>3, <2>4, FS_Product
<1>4. IsFiniteSet(UNION all)
  BY <1>2, <1>3, FS_UNION
<1>5. Units(f) = UNION all
  BY DEF Units
<1>6. QED BY <1>4, <1>5, FS_CardinalityType DEF Tally

(* One more summand. *)
LEMMA TallyExtend ==
  ASSUME NEW S, IsFiniteSet(S), NEW u, u \notin S,
         NEW f \in [S -> Nat], NEW g \in [S \cup {u} -> Nat], \A t \in S : g[t] = f[t]
  PROVE  Tally(g) = Tally(f) + g[u]
<1> DEFINE more == {u} \X (1 .. g[u])
<1>1. Units(g) = Units(f) \cup more
  BY DEF Units
<1>2. Units(f) \cap more = {}
  BY DEF Units
<1>3. IsFiniteSet(more) /\ Cardinality(more) = g[u]
  <2>1. g[u] \in Nat
    OBVIOUS
  <2>2. IsFiniteSet(1 .. g[u]) /\ Cardinality(1 .. g[u]) = g[u]
    BY <2>1, FS_Interval
  <2>3. IsFiniteSet({u}) /\ Cardinality({u}) = 1
    BY FS_Singleton
  <2>4. /\ IsFiniteSet(more)
        /\ Cardinality(more) = Cardinality({u}) * Cardinality(1 .. g[u])
    BY <2>2, <2>3, FS_Product
  <2>5. QED BY <2>1, <2>2, <2>3, <2>4
<1>4. IsFiniteSet(Units(f)) /\ Tally(f) \in Nat
  BY UnitsFinite
<1>5. Cardinality(Units(g)) = Cardinality(Units(f)) + Cardinality(more) - Cardinality({})
  BY <1>1, <1>2, <1>3, <1>4, FS_Union
<1>6. g[u] \in Nat
  OBVIOUS
<1>7. QED BY <1>3, <1>4, <1>5, <1>6, FS_EmptySet DEF Tally

LEMMA TallyEmpty == ASSUME NEW f, DOMAIN f = {} PROVE Tally(f) = 0
<1>1. Units(f) = {}
  BY DEF Units
<1>2. QED BY <1>1, FS_EmptySet DEF Tally

(* One summand changes. *)
LEMMA TallyChange ==
  ASSUME NEW S, IsFiniteSet(S), NEW u \in S,
         NEW f \in [S -> Nat], NEW g \in [S -> Nat], \A t \in S \ {u} : g[t] = f[t]
  PROVE  Tally(g) = Tally(f) + g[u] - f[u]
<1> DEFINE R == S \ {u}
           rest == [t \in R |-> f[t]]
<1>1. IsFiniteSet(R) /\ u \notin R /\ rest \in [R -> Nat] /\ S = R \cup {u}
  BY FS_RemoveElement
<1>2. Tally(f) = Tally(rest) + f[u]
  <2>1. f \in [R \cup {u} -> Nat] /\ \A t \in R : f[t] = rest[t]
    BY <1>1
  <2>2. QED BY <1>1, <2>1, TallyExtend, SMTT(60)
<1>3. Tally(g) = Tally(rest) + g[u]
  <2>1. g \in [R \cup {u} -> Nat] /\ \A t \in R : g[t] = rest[t]
    BY <1>1
  <2>2. QED BY <1>1, <2>1, TallyExtend
<1>4. Tally(rest) \in Nat /\ f[u] \in Nat /\ g[u] \in Nat
  BY <1>1, UnitsFinite
<1>5. QED BY <1>2, <1>3, <1>4

(* A sum of n summands that fit between the bounds b[0] <= b[1] <= .. :    *)
(* each unit has a place of its own up to the last of them.                *)
LEMMA TallyFits ==
  ASSUME NEW n \in Nat, NEW b \in [0 .. n -> Nat], NEW f \in [0 .. n - 1 -> Nat],
         \A k, m \in 0 .. n : k <= m => b[k] <= b[m],
         \A t \in 0 .. n - 1 : b[t] + f[t] <= b[t + 1]
  PROVE  Tally(f) <= b[n]
<1> DEFINE place == [x \in Units(f) |-> b[x[1]] + x[2]]
<1>1. ASSUME NEW x \in Units(f)
      PROVE  /\ x[1] \in 0 .. n - 1 /\ x[2] \in 1 .. f[x[1]] /\ x = <<x[1], x[2]>>
             /\ x[1] \in 0 .. n /\ x[1] + 1 \in 0 .. n
             /\ x[2] \in Nat \ {0} /\ b[x[1]] \in Nat /\ b[x[1] + 1] \in Nat
             /\ b[x[1]] + x[2] <= b[x[1] + 1]
  <2>1. x[1] \in 0 .. n - 1 /\ x[2] \in 1 .. f[x[1]] /\ x = <<x[1], x[2]>>
    BY DEF Units
  <2>2. x[1] \in 0 .. n /\ x[1] + 1 \in 0 .. n
    BY <2>1
  <2>3. f[x[1]] \in Nat
    BY <2>1
  <2>4. b[x[1]] \in Nat /\ b[x[1] + 1] \in Nat
    BY <2>2
  <2>5. b[x[1]] + f[x[1]] <= b[x[1] + 1]
    BY <2>1
  <2>6. b[x[1]] + x[2] <= b[x[1] + 1]
    BY <2>1, <2>3, <2>4, <2>5
  <2>7. x[2] \in Nat \ {0}
    BY <2>1, <2>3
  <2>8. QED BY <2>1, <2>2, <2>4, <2>6, <2>7
<1>2. b[n] \in Nat /\ n \in 0 .. n
  OBVIOUS
<1>3. ASSUME NEW x \in Units(f) PROVE place[x] \in 1 .. b[n]
  <2>1. b[x[1] + 1] <= b[n]
    BY <1>1, <1>2
  <2>2. place[x] = b[x[1]] + x[2]
    OBVIOUS
  <2>3. QED BY <1>1, <1>2, <2>1, <2>2
<1>4. ASSUME NEW x \in Units(f), NEW y \in Units(f), x[1] < y[1]
      PROVE  place[x] < place[y]
  <2>1. x[1] + 1 <= y[1]
    BY <1>1, <1>4, SMTT(60)
  <2>2. b[x[1] + 1] <= b[y[1]]
    BY <1>1, <2>1
  <2>3. place[x] = b[x[1]] + x[2] /\ place[y] = b[y[1]] + y[2]
    OBVIOUS
  <2>4. QED BY <1>1, <2>2, <2>3, SMTT(60)
<1>5. ASSUME NEW x \in Units(f), NEW y \in Units(f), place[x] = place[y]
      PROVE  x = y
  <2>1. x[1] = y[1]
    <3>1. ~(x[1] < y[1]) /\ ~(y[1] < x[1])
      <4>1. place[x] \in Int /\ place[y] \in Int
        BY <1>3
      <4>2. ~(place[x] < place[y]) /\ ~(place[y] < place[x])
        BY <4>1, <1>5
      <4>3. QED BY <4>2, <1>4
    <3>2. x[1] \in Int /\ y[1] \in Int
      BY <1>1
    <3>3. QED BY <3>1, <3>2
  <2>2. x[2] = y[2]
    <3>1. b[x[1]] \in Nat /\ x[2] \in Int /\ y[2] \in Int
      BY <1>1
    <3>2. b[x[1]] + x[2] = b[x[1]] + y[2]
      BY <1>5, <2>1
    <3>3. QED BY <3>1, <3>2
  <2>3. QED BY <2>1, <2>2, <1>1
<1>6. place \in [Units(f) -> 1 .. b[n]]
  BY <1>3
<1>7. place \in Injection(Units(f), 1 .. b[n])
  BY <1>5, <1>6 DEF Injection, IsInjective
<1>8. IsFiniteSet(1 .. b[n]) /\ Cardinality(1 .. b[n]) = b[n]
  BY <1>2, FS_Interval
<1>9. QED BY <1>7, <1>8, FS_Injection DEF Tally

(* The first of n workers has no more than first, the others no more than  *)
(* calls.                                                                  *)
LEMMA TallyBound ==
  ASSUME NEW n \in Nat \ {0}, NEW first \in Nat, NEW calls \in Nat,
         NEW f \in [0 .. n - 1 -> Nat], f[0] <= first, \A t \in 1 .. n - 1 : f[t] <= calls
  PROVE  Tally(f) <= first + (n - 1) * calls
<1> DEFINE b == [k \in 0 .. n |-> IF k = 0 THEN 0 ELSE first + (k - 1) * calls]
<1>1. \A k \in 1 .. n : (k - 1) * calls \in Nat
  OBVIOUS
<1>2. b \in [0 .. n -> Nat]
  BY <1>1
<1>3. ASSUME NEW k \in 0 .. n, NEW m \in 0 .. n, k <= m PROVE b[k] <= b[m]
  <2>1. CASE k = 0
    BY <1>2, <2>1
  <2>2. CASE k # 0
    <3>1. (m - 1) * calls = (k - 1) * calls + (m - k) * calls
      OBVIOUS
    <3>2. (m - k) * calls \in Nat /\ (k - 1) * calls \in Nat
      <4>1. m - k \in Nat /\ k - 1 \in Nat
        BY <1>3, <2>2
      <4>2. QED BY <4>1
    <3>3. b[k] = first + (k - 1) * calls /\ b[m] = first + (m - 1) * calls
      BY <1>3, <2>2
    <3>4. QED BY <3>1, <3>2, <3>3
  <2>3. QED BY <2>1, <2>2
<1>4. ASSUME NEW t \in 0 .. n - 1 PROVE b[t] + f[t] <= b[t + 1]
  <2>1. CASE t = 0
    BY <2>1
  <2>2. CASE t # 0
    <3>1. t * calls = (t - 1) * calls + calls /\ (t - 1) * calls \in Nat
      <4>1. t - 1 \in Nat /\ t \in Nat
        BY <2>2
      <4>2. QED BY <4>1
    <3>2. b[t] = first + (t - 1) * calls /\ b[t + 1] = first + t * calls
      BY <2>2
    <3>3. f[t] \in Nat /\ f[t] <= calls
      BY <2>2
    <3>4. QED BY <3>1, <3>2, <3>3
  <2>3. QED BY <2>1, <2>2
<1>5. b[n] = first + (n - 1) * calls
  OBVIOUS
<1>6. QED BY <1>2, <1>3, <1>4, <1>5, TallyFits

-----------------------------------------------------------------------------
(* The sharing of the calls.                                               *)

LEMMA OptionsType ==
  ASSUME NEW o \in Options
  PROVE  /\ o.threads \in 1 .. MaxThreads /\ o.exactly \in Nat /\ o.expected \in Nat
         /\ o.useQPS \in BOOLEAN /\ o.timed \in BOOLEAN /\ o.noCatchUp \in BOOLEAN
         /\ MaxThreads \in Nat \ {0}
         /\ o.timed => o.exactly = 0
BY WorkersAssumption DEF Options

LEMMA Division ==
  ASSUME NEW a \in Nat, NEW b \in Nat \ {0}
  PROVE  /\ a \div b \in Nat /\ b * (a \div b) <= a /\ a < b * (a \div b) + b
         /\ a % b \in Nat /\ a % b = a - b * (a \div b)
OBVIOUS

LEMMA AtLeast ==
  ASSUME NEW a \in Nat, NEW b \in Nat \ {0}, NEW c \in Nat, c * b <= a
  PROVE  c <= a \div b
<1>1. SUFFICES ASSUME a \div b + 1 <= c PROVE FALSE
  BY Division
<1>2. b * (a \div b + 1) <= c * b
  <2>1. c * b = b * (a \div b + 1) + b * (c - (a \div b + 1))
    BY Division
  <2>2. c - (a \div b + 1) \in Nat
    BY <1>1, Division
  <2>3. b * (c - (a \div b + 1)) \in Nat
    BY <2>2
  <2>4. b * (a \div b + 1) \in Nat
    BY Division
  <2>5. QED BY <2>1, <2>3, <2>4
<1>3. b * (a \div b + 1) = b * (a \div b) + b
  BY Division
<1>4. b * (a \div b) \in Nat /\ c * b \in Nat
  BY Division
<1>5. QED BY <1>2, <1>3, <1>4, Division

(* With a rate and -n or a duration: calls for each, at least two, and     *)
(* what is left over is less than one for each.                            *)
LEMMA QPSFacts ==
  ASSUME NEW o \in Options, o.timed \/ o.exactly > 0,
         NEW total, total = LET asked == IF o.exactly > 0 THEN o.exactly ELSE o.expected
                            IN IF asked < 2 THEN 2 ELSE asked
  PROVE  LET s == QPSSetup(o)
         IN /\ s.threads \in 1 .. MaxThreads /\ s.calls \in Nat /\ s.calls >= 2
            /\ s.threads * s.calls <= total
            /\ s.threads = 1 \/ (o.exactly > 0 => total = o.exactly)
            /\ s.first = IF o.exactly > 0 THEN o.exactly - s.calls * (s.threads - 1) ELSE s.calls
<1> DEFINE s == QPSSetup(o)
           asked == IF o.exactly > 0 THEN o.exactly ELSE o.expected
           threads == IF asked < 2 THEN 1 ELSE Least(o.threads, total \div 2)
<1>1. asked \in Nat /\ total \in Nat /\ total >= 2
  BY OptionsType
<1>2. total \div 2 \in Nat /\ 2 * (total \div 2) <= total /\ total < 2 * (total \div 2) + 2
  BY <1>1
<1>3. threads \in 1 .. MaxThreads /\ 2 * threads <= total
  BY <1>1, <1>2, OptionsType DEF Least
<1>4. /\ s.threads = threads /\ s.calls = total \div threads
      /\ s.first = IF o.exactly > 0 THEN o.exactly - s.calls * (s.threads - 1) ELSE s.calls
  BY OptionsType DEF QPSSetup
<1>5. total \div threads \in Nat /\ threads * (total \div threads) <= total
  <2>1. threads \in Nat \ {0}
    BY <1>3, OptionsType
  <2> HIDE DEF threads
  <2>2. QED BY <1>1, <2>1, Division
<1>6. total \div threads >= 2
  BY <1>1, <1>3, AtLeast
<1>7. threads = 1 \/ (o.exactly > 0 => total = o.exactly)
  BY OptionsType
<1>8. QED BY <1>3, <1>4, <1>5, <1>6, <1>7

LEMMA SetupFacts ==
  ASSUME NEW o \in Options
  PROVE  LET s == Setup(o)
         IN /\ s.threads \in 1 .. MaxThreads /\ s.calls \in Nat /\ s.first \in Nat
            /\ o.exactly > 0 /\ (o.useQPS \/ o.threads <= o.exactly) =>
                 /\ s.first > 0 /\ (s.threads > 1 => s.calls > 0)
                 /\ s.first + (s.threads - 1) * s.calls = o.exactly
            /\ o.useQPS /\ o.timed =>
                 /\ s.first = s.calls /\ s.calls >= 2
                 /\ s.first + (s.threads - 1) * s.calls
                      <= IF o.expected < 2 THEN 2 ELSE o.expected
<1> DEFINE s == Setup(o)
<1>1. CASE o.useQPS /\ (o.timed \/ o.exactly > 0)
  <2> DEFINE asked == IF o.exactly > 0 THEN o.exactly ELSE o.expected
             total == IF asked < 2 THEN 2 ELSE asked
  <2>1. /\ s.threads \in 1 .. MaxThreads /\ s.calls \in Nat /\ s.calls >= 2
        /\ s.threads * s.calls <= total
        /\ s.threads = 1 \/ (o.exactly > 0 => total = o.exactly)
        /\ s.first = IF o.exactly > 0 THEN o.exactly - s.calls * (s.threads - 1) ELSE s.calls
    BY <1>1, QPSFacts DEF Setup
  <2>2. s.threads * s.calls = s.calls + (s.threads - 1) * s.calls
    BY <2>1, OptionsType
  <2>3. (s.threads - 1) * s.calls \in Nat /\ s.calls * (s.threads - 1) = (s.threads - 1) * s.calls
    <3>1. s.threads - 1 \in Nat
      BY <2>1, OptionsType
    <3>2. QED BY <2>1, <3>1
  <2>4. CASE o.exactly > 0
    <3>1. ~o.timed
      BY <2>4, OptionsType
    <3>2. s.first = o.exactly - (s.threads - 1) * s.calls
      BY <2>1, <2>3, <2>4
    <3>3. s.threads = 1 => (s.threads - 1) * s.calls = 0
      BY <2>1
    <3>4. s.first >= 1
      <4>1. CASE s.threads = 1
        BY <3>2, <3>3, <2>4, <4>1, OptionsType
      <4>2. CASE s.threads # 1
        BY <2>1, <2>2, <2>3, <2>4, <3>2, <4>2, OptionsType
      <4>3. QED BY <4>1, <4>2
    <3>5. s.first \in Nat
      BY <3>2, <3>4, <2>3, OptionsType
    <3>6. QED BY <2>1, <2>3, <3>1, <3>2, <3>4, <3>5, OptionsType
  <2>5. CASE ~(o.exactly > 0)
    BY <2>1, <2>2, <2>3, <2>5, OptionsType
  <2>6. QED BY <2>4, <2>5
<1>2. CASE o.useQPS /\ ~(o.timed \/ o.exactly > 0)
  <2>1. s = [threads |-> o.threads, calls |-> 0, first |-> 0]
    BY <1>2, OptionsType DEF Setup, QPSSetup
  <2>2. QED BY <1>2, <2>1, OptionsType
<1>3. CASE ~o.useQPS
  <2> DEFINE calls == o.exactly \div o.threads
             rest == o.exactly % o.threads
  <2>1. s.threads = o.threads /\ s.calls = calls /\ s.first = calls + rest
    BY <1>3 DEF Setup, MaxQPSSetup
  <2>2. /\ calls \in Nat /\ rest \in Nat /\ rest = o.exactly - o.threads * calls
    <3>1. o.exactly \in Nat /\ o.threads \in Nat \ {0}
      BY OptionsType
    <3>2. QED BY <3>1, Division
  <2>3. o.threads * calls = calls + (o.threads - 1) * calls
    BY <2>2, OptionsType
  <2>4. (o.threads - 1) * calls \in Nat
    <3>1. o.threads - 1 \in Nat
      BY OptionsType
    <3>2. QED BY <2>2, <3>1
  <2>5. o.threads <= o.exactly => 1 <= calls
    BY OptionsType, AtLeast
  <2>6. calls + rest + (o.threads - 1) * calls = o.exactly
    BY <2>2, <2>3, <2>4, OptionsType
  <2>7. calls + rest \in Nat
    BY <2>2
  <2>8. o.exactly > 0 /\ o.threads <= o.exactly => calls + rest > 0 /\ calls > 0
    BY <2>2, <2>5
  <2> HIDE DEF calls, rest
  <2>9. /\ s.threads \in 1 .. MaxThreads /\ s.calls \in Nat /\ s.first \in Nat
        /\ s.first + (s.threads - 1) * s.calls = o.exactly
    BY <2>1, <2>2, <2>6, <2>7, OptionsType
  <2>10. o.exactly > 0 /\ o.threads <= o.exactly => s.first > 0 /\ s.calls > 0
    BY <2>1, <2>8
  <2>11. QED BY <1>3, <2>9, <2>10
<1>4. QED BY <1>1, <1>2, <1>3, OptionsType

LEMMA ActiveFacts ==
  ASSUME opt \in Options
  PROVE  /\ Setup(opt).threads \in 1 .. MaxThreads /\ Setup(opt).threads \in Nat \ {0}
         /\ Active = 0 .. Setup(opt).threads - 1 /\ Active \subseteq Threads /\ 0 \in Active
         /\ IsFiniteSet(Active)
         /\ \A t \in Active : NumCalls(t) \in Nat /\ t \in Nat
<1>1. /\ Setup(opt).threads \in 1 .. MaxThreads /\ MaxThreads \in Nat \ {0}
      /\ Setup(opt).calls \in Nat /\ Setup(opt).first \in Nat
  BY SetupFacts, OptionsType
<1>2. Setup(opt).threads \in Nat \ {0}
  BY <1>1
<1>3. Active = 0 .. Setup(opt).threads - 1
  BY DEF Active
<1>4. Active \subseteq Threads /\ 0 \in Active
  BY <1>1, <1>3, WorkersAssumption
<1>5. IsFiniteSet(Active)
  BY <1>2, <1>3, FS_Interval
<1>6. \A t \in Active : NumCalls(t) \in Nat /\ t \in Nat
  BY <1>1, <1>3 DEF NumCalls
<1>7. QED BY <1>1, <1>2, <1>3, <1>4, <1>5, <1>6

(* The options stay, and all that follows from them.                       *)
LEMMA OptionsStay ==
  ASSUME opt' = opt
  PROVE  /\ Setup(opt)' = Setup(opt) /\ Active' = Active
         /\ \A t : NumCalls(t)' = NumCalls(t)
         /\ Counted' = Counted /\ Timed' = Timed /\ Shared' = Shared
BY DEF Setup, Active, NumCalls, Counted, Timed, Shared, QPSSetup, MaxQPSSetup

-----------------------------------------------------------------------------
(* Counters.                                                               *)

LEMMA LatenciesAreNat == Latencies \subseteq Nat /\ 0 \in Nat /\ Unset \in Nat
BY LatenciesAssumption

LEMMA RecordedFacts ==
  ASSUME NEW c \in C!Counters(Latencies), NEW v \in Latencies
  PROVE  /\ C!Recorded(c, v) \in C!Counters(Latencies)
         /\ C!Recorded(c, v).count = c.count + 1
         /\ C!Recorded(c, v).sum = c.sum + v
         /\ C!Recorded(c, v).min = IF c.count = 0 \/ v < c.min THEN v ELSE c.min
         /\ C!Recorded(c, v).max = IF c.count = 0 \/ v > c.max THEN v ELSE c.max
<1>1. v \in Nat /\ v * 1 = v /\ v * v \in Nat
  BY LatenciesAreNat
<1>2. c.count \in Nat /\ c.sum \in Int /\ c.sumOfSquares \in Nat
      /\ c.min \in Latencies \cup {0} /\ c.max \in Latencies \cup {0}
  BY DEF C!Counters
<1>3. C!Recorded(c, v) =
        [count |-> c.count + 1,
         sum   |-> c.sum + v,
         min   |-> IF c.count = 0 \/ v < c.min THEN v ELSE c.min,
         max   |-> IF c.count = 0 \/ v > c.max THEN v ELSE c.max,
         sumOfSquares |-> c.sumOfSquares + v * v]
  BY <1>1 DEF C!Recorded, C!RecordedN
<1> HIDE DEF C!Recorded
<1>4. c.sumOfSquares + v * v \in Nat
  BY <1>1, <1>2
<1>5. QED BY <1>1, <1>2, <1>3, <1>4 DEF C!Counters

LEMMA TransferredFacts ==
  ASSUME NEW c \in C!Counters(Latencies), NEW src \in C!Counters(Latencies)
  PROVE  LET d == C!Transferred(c, src)
         IN /\ d \in C!Counters(Latencies)
            /\ d.count = c.count + src.count
            /\ Plain(c) /\ Plain(src) => Plain(d) /\ d.sum = c.sum + src.sum
            /\ src.count = 0 => d = c
            /\ src.count > 0 =>
                 /\ d.min <= src.min /\ d.max >= src.max
                 /\ d.min = src.min \/ (c.count > 0 /\ d.min = c.min)
                 /\ d.max = src.max \/ (c.count > 0 /\ d.max = c.max)
                 /\ c.count > 0 => d.min <= c.min /\ d.max >= c.max
<1>1. /\ c.count \in Nat /\ c.sum \in Int /\ c.sumOfSquares \in Nat
      /\ c.min \in Latencies \cup {0} /\ c.max \in Latencies \cup {0}
      /\ src.count \in Nat /\ src.sum \in Int /\ src.sumOfSquares \in Nat
      /\ src.min \in Latencies \cup {0} /\ src.max \in Latencies \cup {0}
      /\ Latencies \cup {0} \subseteq Nat
  BY LatenciesAreNat DEF C!Counters
<1>2. CASE src.count = 0
  BY <1>1, <1>2 DEF C!Transferred, Plain
<1>3. CASE src.count > 0 /\ c.count = 0
  <2>1. C!Transferred(c, src) = src
    BY <1>1, <1>3 DEF C!Transferred
  <2>2. QED BY <1>1, <1>3, <2>1 DEF Plain
<1>4. CASE src.count > 0 /\ c.count > 0
  <2>1. C!Transferred(c, src) =
          [count |-> c.count + src.count,
           sum   |-> c.sum + src.sum,
           min   |-> IF src.min < c.min THEN src.min ELSE c.min,
           max   |-> IF src.max > c.max THEN src.max ELSE c.max,
           sumOfSquares |-> c.sumOfSquares + src.sumOfSquares]
    BY <1>1, <1>4 DEF C!Transferred
  <2>2. C!Transferred(c, src) \in C!Counters(Latencies)
    BY <1>1, <2>1 DEF C!Counters
  <2>3. LET d == C!Transferred(c, src)
        IN /\ d.count = c.count + src.count /\ d.sum = c.sum + src.sum
           /\ d.min = IF src.min < c.min THEN src.min ELSE c.min
           /\ d.max = IF src.max > c.max THEN src.max ELSE c.max
    BY <2>1
  <2>4. QED BY <1>1, <1>4, <2>2, <2>3 DEF Plain
<1>5. QED BY <1>1, <1>2, <1>3, <1>4

LEMMA EmptyFacts ==
  /\ C!Empty \in C!Counters(Latencies) /\ Plain(C!Empty)
  /\ C!Empty.count = 0 /\ C!Empty.sum = 0
BY DEF C!Empty, C!Counters, Plain

-----------------------------------------------------------------------------
(* Types.                                                                  *)

LoopTypeOK ==
  /\ opt \in Options
  /\ worker \in [Threads -> {"start", "top", "done", "asleep", "over"}]
  /\ iter \in [Threads -> Nat]
  /\ durations \in [Threads -> C!Counters(Latencies)]
  /\ errDurations \in [Threads -> C!Counters(Latencies)]
  /\ result \in C!Counters(Latencies) \X C!Counters(Latencies)
  /\ merged \in 0 .. Setup(opt).threads
  /\ stopped \in BOOLEAN /\ timeUp \in BOOLEAN

LEMMA TypeParts == TypeOK <=> LiveTypeOK /\ LoopTypeOK
BY DEF TypeOK, LoopTypeOK

LEMMA RecordType ==
  ASSUME LiveTypeOK, NEW t \in Threads, RecordStep(t),
         rec[t].at # "idle" => rec[t].latency \in Latencies
  PROVE  LiveTypeOK'
<1>1. /\ rec[t].at \in RecSteps /\ rec[t].ok \in BOOLEAN
      /\ rec[t].latency \in Latencies \cup {0} /\ rec[t].latency \in Nat
      /\ totalRequests \in Nat /\ successRequests \in Nat /\ errorRequests \in Nat
      /\ totalLatency \in Nat
  BY LatenciesAreNat DEF LiveTypeOK
<1>2. CASE RecordTotal(t)
  BY <1>1, <1>2 DEF RecordTotal, RecMoves, LiveTypeOK, RecSteps
<1>3. CASE RecordOutcome(t)
  BY <1>1, <1>3 DEF RecordOutcome, RecMoves, LiveTypeOK, RecSteps
<1>4. CASE LoadMin(t)
  <2>1. PICK at \in RecSteps : rec' = [rec EXCEPT ![t].at = at, ![t].old = minLatency]
    BY <1>4 DEF LoadMin, RecSteps
  <2>2. minLatency \in Latencies \cup {0, Unset}
    BY DEF LiveTypeOK
  <2>3. rec' \in [Threads -> [at: RecSteps, ok: BOOLEAN, latency: Latencies \cup {0},
                             old: Latencies \cup {0, Unset}]]
    BY <2>1, <2>2 DEF LiveTypeOK
  <2>4. QED BY <1>4, <2>3 DEF LoadMin, LiveTypeOK
<1>5. CASE SwapMin(t)
  BY <1>1, <1>5 DEF SwapMin, RecMoves, LiveTypeOK, RecSteps
<1>6. CASE LoadMax(t)
  <2>1. PICK at \in RecSteps : rec' = [rec EXCEPT ![t].at = at, ![t].old = maxLatency]
    BY <1>6 DEF LoadMax, RecSteps
  <2>2. maxLatency \in Latencies \cup {0, Unset}
    BY DEF LiveTypeOK
  <2>3. rec' \in [Threads -> [at: RecSteps, ok: BOOLEAN, latency: Latencies \cup {0},
                             old: Latencies \cup {0, Unset}]]
    BY <2>1, <2>2 DEF LiveTypeOK
  <2>4. QED BY <1>6, <2>3 DEF LoadMax, LiveTypeOK
<1>7. CASE SwapMax(t)
  BY <1>1, <1>7 DEF SwapMax, RecMoves, LiveTypeOK, RecSteps
<1>8. QED BY <1>2, <1>3, <1>4, <1>5, <1>6, <1>7 DEF RecordStep

LEMMA MovesType ==
  ASSUME LoopTypeOK, NEW t \in Threads, NEW from, NEW to,
         OnlyMoves(t, from, to) \/ Counts(t, to),
         to \in {"start", "top", "done", "asleep", "over"}
  PROVE  LoopTypeOK'
<1>1. worker' = [worker EXCEPT ![t] = to] /\ (iter' = iter \/ iter' = [iter EXCEPT ![t] = @ + 1])
  BY DEF OnlyMoves, Counts, WorkerMoves
<1>2. UNCHANGED <<opt, durations, errDurations, result, merged, stopped, timeUp>>
  BY DEF OnlyMoves, Counts
<1>3. Setup(opt)' = Setup(opt)
  BY <1>2, OptionsStay
<1>4. QED BY <1>1, <1>2, <1>3 DEF LoopTypeOK

LEMMA CallType ==
  ASSUME TypeOK, NEW t \in Threads, Call(t)
  PROVE  TypeOK'
<1>1. PICK ok \in BOOLEAN, latency \in Latencies :
        /\ durations' = [durations EXCEPT ![t] = C!Recorded(@, latency)]
        /\ errDurations' = IF ok THEN errDurations
                           ELSE [errDurations EXCEPT ![t] = C!Recorded(@, latency)]
        /\ rec' = [rec EXCEPT ![t] = [at |-> "total", ok |-> ok, latency |-> latency, old |-> 0]]
  BY WorkersAssumption DEF Call
<1>2. /\ worker' = [worker EXCEPT ![t] = "done"]
      /\ UNCHANGED <<totalRequests, successRequests, errorRequests, totalLatency, minLatency,
                     maxLatency, snap, opt, iter, result, merged, stopped, timeUp>>
  BY DEF Call, WorkerMoves
<1>3. LiveTypeOK'
  BY <1>1, <1>2 DEF TypeOK, LiveTypeOK, RecSteps
<1>4. /\ C!Recorded(durations[t], latency) \in C!Counters(Latencies)
      /\ C!Recorded(errDurations[t], latency) \in C!Counters(Latencies)
  BY RecordedFacts DEF TypeOK
<1>5. /\ durations' \in [Threads -> C!Counters(Latencies)]
      /\ errDurations' \in [Threads -> C!Counters(Latencies)]
  BY <1>1, <1>4 DEF TypeOK
<1>6. Setup(opt)' = Setup(opt)
  BY <1>2, OptionsStay
<1>7. LoopTypeOK'
  BY <1>2, <1>5, <1>6 DEF LoopTypeOK, TypeOK
<1>8. QED BY <1>3, <1>7 DEF TypeOK, LoopTypeOK

LEMMA MergeType ==
  ASSUME TypeOK, Merge
  PROVE  TypeOK'
<1>1. /\ merged \in Nat /\ merged < Setup(opt).threads /\ merged \in Threads
      /\ Setup(opt).threads \in Nat
  <2>1. opt \in Options /\ merged \in 0 .. Setup(opt).threads /\ merged < Setup(opt).threads
    BY DEF Merge, TypeOK
  <2>2. QED BY <2>1, ActiveFacts
<1>2. /\ C!Transferred(result[1], durations[merged]) \in C!Counters(Latencies)
      /\ C!Transferred(result[2], errDurations[merged]) \in C!Counters(Latencies)
  <2>1. /\ durations[merged] \in C!Counters(Latencies) /\ errDurations[merged] \in C!Counters(Latencies)
        /\ result[1] \in C!Counters(Latencies) /\ result[2] \in C!Counters(Latencies)
    BY <1>1 DEF TypeOK
  <2>2. QED BY <2>1, TransferredFacts
<1>3. /\ merged' \in 0 .. Setup(opt).threads
      /\ result' \in C!Counters(Latencies) \X C!Counters(Latencies)
  BY <1>1, <1>2 DEF Merge
<1>4. UNCHANGED <<liveVars, opt, worker, iter, durations, errDurations, stopped, timeUp>>
  BY DEF Merge
<1>5. Setup(opt)' = Setup(opt)
  BY <1>4, OptionsStay
<1>6. LoopTypeOK'
  BY <1>3, <1>4, <1>5 DEF LoopTypeOK, TypeOK
<1>7. LiveTypeOK'
  BY <1>4 DEF TypeOK, LiveTypeOK, liveVars
<1>8. QED BY <1>6, <1>7 DEF TypeOK, LoopTypeOK

LEMMA LookType ==
  ASSUME LiveTypeOK, ReadTotal \/ ReadSuccess \/ ReadErrors
  PROVE  LiveTypeOK'
<1>1. /\ totalRequests \in Nat /\ successRequests \in Nat /\ errorRequests \in Nat
  BY DEF LiveTypeOK
<1>2. UNCHANGED <<totalRequests, successRequests, errorRequests, totalLatency, minLatency, maxLatency, rec>>
  BY DEF ReadTotal, ReadSuccess, ReadErrors, Reads
<1>3. snap' \in [at: SnapSteps, total: Nat, success: Nat, errors: Nat]
  BY <1>1 DEF ReadTotal, ReadSuccess, ReadErrors, Reads, LiveTypeOK, SnapSteps
<1>4. QED BY <1>2, <1>3 DEF LiveTypeOK

LEMMA LiveStays == ASSUME LiveTypeOK, UNCHANGED liveVars PROVE LiveTypeOK'
BY DEF LiveTypeOK, liveVars

LEMMA LoopStays == ASSUME LoopTypeOK, UNCHANGED loopVars PROVE LoopTypeOK'
<1>1. Setup(opt)' = Setup(opt)
  BY OptionsStay DEF loopVars
<1>2. QED BY <1>1 DEF LoopTypeOK, loopVars

-----------------------------------------------------------------------------
(* The loop of a worker.                                                   *)

LEMMA LoopUndisturbed ==
  ASSUME opt' = opt, stopped => stopped', NEW u, LoopOf(u),
         worker'[u] = worker[u], iter'[u] = iter[u], durations'[u].count = durations[u].count
  PROVE  LoopOf(u)'
BY OptionsStay DEF LoopOf, IsOver

(* What a worker does in its own loop, with its iterations and its calls.  *)
LEMMA OwnLoop ==
  ASSUME LoopTypeOK, NEW t \in Active, LoopOf(t), LoopStep(t)
  PROVE  LoopOf(t)'
<1>1. /\ t \in Threads /\ iter[t] \in Nat /\ NumCalls(t) \in Nat /\ durations[t].count \in Nat
      /\ opt.timed => opt.exactly = 0
      /\ opt.exactly \in Nat
  <2>1. t \in Threads /\ NumCalls(t) \in Nat
    BY ActiveFacts DEF LoopTypeOK
  <2>2. QED BY <2>1, OptionsType DEF LoopTypeOK, C!Counters
<1>2. CASE Enter(t) \/ Wakes(t)
  <2>1. worker[t] \notin {"done", "over"} /\ worker'[t] = "top"
    BY <1>1, <1>2 DEF Enter, Wakes, OnlyMoves, WorkerMoves, LoopTypeOK
  <2>2. UNCHANGED <<opt, iter, durations, stopped>>
    BY <1>2 DEF Enter, Wakes, OnlyMoves
  <2>3. QED BY <2>1, <2>2, OptionsStay DEF LoopOf, IsOver
<1>3. CASE StopsInDelay(t) \/ StopsAsleep(t) \/ GivesUp(t)
  <2>1. worker[t] \notin {"done", "over"} /\ worker'[t] = "over"
    BY <1>1, <1>3 DEF StopsInDelay, StopsAsleep, GivesUp, OnlyMoves, WorkerMoves, LoopTypeOK
  <2>2. UNCHANGED <<opt, iter, durations, stopped>>
    BY <1>3 DEF StopsInDelay, StopsAsleep, GivesUp, OnlyMoves
  <2>3. stopped \/ OutOfTime(t)
    BY <1>3 DEF StopsInDelay, StopsAsleep, GivesUp
  <2>4. OutOfTime(t) /\ Counted => Timed /\ iter[t] >= 2 /\ iter[t] # NumCalls(t) - 1
    BY <1>1 DEF OutOfTime, Counted, Timed
  <2>5. QED BY <1>1, <2>1, <2>2, <2>3, <2>4, OptionsStay DEF LoopOf, IsOver
<1>4. CASE Call(t)
  <2>1. worker[t] = "top" /\ worker'[t] = "done" /\ UNCHANGED <<opt, iter, stopped>>
    BY <1>1, <1>4 DEF Call, WorkerMoves, LoopTypeOK
  <2>2. durations'[t].count = durations[t].count + 1
    <3>1. PICK latency \in Latencies : durations' = [durations EXCEPT ![t] = C!Recorded(@, latency)]
      BY <1>4, WorkersAssumption DEF Call
    <3>2. durations[t] \in C!Counters(Latencies)
      BY <1>1 DEF LoopTypeOK
    <3>3. QED BY <1>1, <3>1, <3>2, RecordedFacts DEF LoopTypeOK
  <2>3. QED BY <1>1, <2>1, <2>2, OptionsStay DEF LoopOf, IsOver
<1>5. CASE Record(t)
  BY <1>5, LoopUndisturbed DEF Record, loopVars
<1>6. CASE DoesAll(t)
  <2>1. /\ worker[t] = "done" /\ worker'[t] = "over" /\ iter'[t] = iter[t] + 1
        /\ UNCHANGED <<opt, durations, stopped>>
    BY <1>1, <1>6 DEF DoesAll, Counts, WorkerMoves, LoopTypeOK
  <2>2. iter[t] + 1 >= NumCalls(t)
    BY <1>6 DEF DoesAll, AllDone
  <2>3. QED BY <1>1, <2>1, <2>2, OptionsStay DEF LoopOf, IsOver
<1>7. CASE Skips(t) \/ Sleeps(t) \/ GoesOn(t)
  <2>1. PICK to \in {"done", "asleep", "top"} :
          /\ worker[t] = "done" /\ worker'[t] = to /\ iter'[t] = iter[t] + 1
          /\ to = "done" => opt.noCatchUp
          /\ UNCHANGED <<opt, durations, stopped>>
    BY <1>1, <1>7 DEF Skips, Sleeps, GoesOn, Counts, WorkerMoves, LoopTypeOK
  <2>2. Counted => iter[t] + 1 < NumCalls(t)
    BY <1>1, <1>7 DEF Skips, Sleeps, GoesOn, NotAll, AllDone
  <2>3. QED BY <1>1, <2>1, <2>2, OptionsStay DEF LoopOf, IsOver
<1>8. CASE Stops(t)
  <2>1. /\ worker[t] = "done" /\ worker'[t] = "over" /\ iter'[t] = iter[t] + 1
        /\ stopped /\ UNCHANGED <<opt, durations, stopped>>
    BY <1>1, <1>8 DEF Stops, Counts, WorkerMoves, LoopTypeOK
  <2>2. Counted => iter[t] + 1 < NumCalls(t)
    BY <1>1, <1>8 DEF Stops, NotAll, AllDone
  <2>3. QED BY <1>1, <2>1, <2>2, OptionsStay DEF LoopOf, IsOver
<1>9. QED BY <1>2, <1>3, <1>4, <1>5, <1>6, <1>7, <1>8 DEF LoopStep

-----------------------------------------------------------------------------
(* The live statistics add up.                                             *)

LEMMA LagFits ==
  ASSUME LoopTypeOK
  PROVE  /\ LagOf \in [Active -> 0 .. 1] /\ LagOf \in [Active -> Nat]
         /\ Tally(LagOf) \in Nat /\ Tally(LagOf) <= Setup(opt).threads
<1>1. LagOf \in [Active -> 0 .. 1] /\ LagOf \in [Active -> Nat]
  BY DEF LagOf
<1>2. /\ Setup(opt).threads \in Nat \ {0} /\ Active = 0 .. Setup(opt).threads - 1
      /\ IsFiniteSet(Active)
  BY ActiveFacts DEF LoopTypeOK
<1>3. LagOf[0] <= 1 /\ \A t \in 1 .. Setup(opt).threads - 1 : LagOf[t] <= 1
  BY <1>1, <1>2
<1>4. Tally(LagOf) <= 1 + (Setup(opt).threads - 1) * 1
  BY <1>1, <1>2, <1>3, TallyBound
<1>5. Tally(LagOf) \in Nat
  BY <1>1, <1>2, UnitsFinite
<1>6. QED BY <1>1, <1>2, <1>4, <1>5

(* What a step of RecordRequest by t changes in what it holds.             *)
LEMMA RecordFrame ==
  ASSUME LiveTypeOK, NEW t \in Threads, RecordStep(t)
  PROVE  /\ \A u \in Threads \ {t} : rec'[u] = rec[u]
         /\ rec'[t].ok = rec[t].ok /\ rec'[t].latency = rec[t].latency
         /\ UNCHANGED snap
<1>1. PICK at \in RecSteps, old \in {rec[t].old, minLatency, maxLatency} :
        rec' = [rec EXCEPT ![t].at = at, ![t].old = old]
  <2>1. rec[t].old = rec[t].old /\ rec = [rec EXCEPT ![t].old = rec[t].old]
    BY DEF LiveTypeOK
  <2>2. CASE LoadMin(t) \/ LoadMax(t)
    BY <2>2 DEF LoadMin, LoadMax, RecSteps
  <2>3. CASE ~(LoadMin(t) \/ LoadMax(t))
    <3>1. PICK at \in RecSteps : rec' = [rec EXCEPT ![t].at = at]
      BY <2>3 DEF RecordStep, RecordTotal, RecordOutcome, SwapMin, SwapMax, RecMoves, RecSteps
    <3>2. rec' = [rec EXCEPT ![t].at = at, ![t].old = rec[t].old]
      BY <3>1 DEF LiveTypeOK
    <3>3. QED BY <3>2
  <2>4. QED BY <2>2, <2>3
<1>2. UNCHANGED snap
  BY DEF RecordStep, RecordTotal, RecordOutcome, LoadMin, SwapMin, LoadMax, SwapMax
<1>3. QED BY <1>1, <1>2 DEF LiveTypeOK

(* g is f, with d more for t. *)
Shifted(f, g, S, t, d) ==
  g \in [S -> Nat] /\ (\A u \in S \ {t} : g[u] = f[u]) /\ g[t] = f[t] + d

LEMMA TallyShifted ==
  ASSUME NEW S, IsFiniteSet(S), NEW t \in S, NEW d \in Int, NEW f \in [S -> Nat], NEW g,
         Shifted(f, g, S, t, d)
  PROVE  Tally(g) = Tally(f) + d
<1>1. g \in [S -> Nat] /\ (\A u \in S \ {t} : g[u] = f[u]) /\ g[t] = f[t] + d
  BY DEF Shifted
<1>2. Tally(g) = Tally(f) + g[t] - f[t]
  BY <1>1, TallyChange
<1>3. f[t] \in Nat /\ Tally(f) \in Nat
  BY UnitsFinite
<1>4. QED BY <1>1, <1>2, <1>3

(* The four sums follow when the numbers of one worker change by as much   *)
(* as the live statistics.                                                 *)
LEMMA AddsUpFollows ==
  ASSUME LiveTypeOK, LoopTypeOK, AddsUp, opt' = opt, NEW t \in Active,
         NEW a \in Int, NEW b \in Int, NEW c \in Int, NEW d \in Int,
         Shifted(TotalOf, TotalOf', Active, t, a), Shifted(ErrorsOf, ErrorsOf', Active, t, b),
         Shifted(LatencyOf, LatencyOf', Active, t, c), Shifted(LagOf, LagOf', Active, t, d),
         totalRequests' = totalRequests + a, errorRequests' = errorRequests + b,
         totalLatency' = totalLatency + c, successRequests' = successRequests + a - b - d
  PROVE  AddsUp'
<1>1. Active' = Active /\ IsFiniteSet(Active)
  BY OptionsStay, ActiveFacts DEF LoopTypeOK
<1>2. /\ TotalOf \in [Active -> Nat] /\ ErrorsOf \in [Active -> Nat]
      /\ LatencyOf \in [Active -> Nat] /\ LagOf \in [Active -> Nat]
  BY LagFits DEF AddsUp
<1>3. /\ Tally(TotalOf)' = Tally(TotalOf) + a /\ Tally(ErrorsOf)' = Tally(ErrorsOf) + b
      /\ Tally(LatencyOf)' = Tally(LatencyOf) + c /\ Tally(LagOf)' = Tally(LagOf) + d
  <2>1. /\ Tally(TotalOf') = Tally(TotalOf) + a /\ Tally(ErrorsOf') = Tally(ErrorsOf) + b
        /\ Tally(LatencyOf') = Tally(LatencyOf) + c /\ Tally(LagOf') = Tally(LagOf) + d
    BY <1>1, <1>2, TallyShifted
  <2>2. QED BY <2>1 DEF Tally, Units
<1>4. {TotalOf, ErrorsOf, LatencyOf}' \subseteq [Active' -> Nat]
  BY <1>1 DEF Shifted
<1>5. /\ Tally(TotalOf) \in Nat /\ Tally(ErrorsOf) \in Nat
      /\ Tally(LatencyOf) \in Nat /\ Tally(LagOf) \in Nat
      /\ successRequests \in Nat /\ errorRequests \in Nat
  BY <1>1, <1>2, UnitsFinite DEF LiveTypeOK
<1>6. /\ totalRequests = Tally(TotalOf) /\ errorRequests = Tally(ErrorsOf)
      /\ totalLatency = Tally(LatencyOf)
      /\ totalRequests = successRequests + errorRequests + Tally(LagOf)
  BY DEF AddsUp
<1>7. /\ totalRequests' = Tally(TotalOf)' /\ errorRequests' = Tally(ErrorsOf)'
      /\ totalLatency' = Tally(LatencyOf)'
      /\ totalRequests' = successRequests' + errorRequests' + Tally(LagOf)'
  BY <1>3, <1>5, <1>6
<1>8. QED BY <1>4, <1>7 DEF AddsUp

LEMMA RecordAddsUp ==
  ASSUME LiveTypeOK, LoopTypeOK, AddsUp, NEW t \in Active, RecordStep(t), UNCHANGED loopVars
  PROVE  AddsUp'
<1>1. /\ Active' = Active /\ Active \subseteq Threads /\ opt' = opt
      /\ UNCHANGED <<durations, errDurations>>
  BY OptionsStay, ActiveFacts DEF LoopTypeOK, loopVars
<1>2. /\ \A u \in Active \ {t} : rec'[u] = rec[u]
      /\ rec'[t].ok = rec[t].ok /\ rec'[t].latency = rec[t].latency
  BY <1>1, RecordFrame
<1>3. /\ \A u \in Active :
           /\ durations[u].count \in Nat /\ durations[u].sum \in Int
           /\ errDurations[u].count \in Nat
      /\ rec[t].latency \in Nat /\ rec[t].ok \in BOOLEAN
  BY <1>1, LatenciesAreNat DEF LoopTypeOK, LiveTypeOK, C!Counters
<1>4. /\ TotalOf \in [Active -> Nat] /\ ErrorsOf \in [Active -> Nat]
      /\ LatencyOf \in [Active -> Nat] /\ LagOf \in [Active -> Nat]
  BY LagFits DEF AddsUp
<1>5. /\ totalRequests \in Nat /\ successRequests \in Nat /\ errorRequests \in Nat
      /\ totalLatency \in Nat
  BY DEF LiveTypeOK
<1>6. CASE RecordTotal(t)
  <2>1. rec[t].at = "total" /\ rec'[t].at = "outcome"
    BY <1>1, <1>6 DEF RecordTotal, RecMoves, LiveTypeOK
  <2>2. /\ totalRequests' = totalRequests + 1
        /\ UNCHANGED <<successRequests, errorRequests, totalLatency>>
    BY <1>6 DEF RecordTotal
  <2>3. Shifted(TotalOf, TotalOf', Active, t, 1)
    BY <1>1, <1>2, <1>3, <1>4, <2>1 DEF TotalOf, Shifted
  <2>4. ErrorsOf' = ErrorsOf /\ LatencyOf' = LatencyOf
    BY <1>1, <1>2, <2>1 DEF ErrorsOf, LatencyOf, Unrecorded
  <2>5. Shifted(ErrorsOf, ErrorsOf', Active, t, 0) /\ Shifted(LatencyOf, LatencyOf', Active, t, 0)
    BY <1>4, <2>4 DEF Shifted
  <2>6. Shifted(LagOf, LagOf', Active, t, 1)
    BY <1>1, <1>2, <1>4, <2>1 DEF LagOf, Shifted
  <2>7. QED BY <1>1, <1>5, <2>2, <2>3, <2>5, <2>6, AddsUpFollows
<1>7. CASE RecordOutcome(t)
  <2>1. rec[t].at = "outcome" /\ rec'[t].at = "min"
    BY <1>1, <1>7 DEF RecordOutcome, RecMoves, LiveTypeOK
  <2> DEFINE bad == IF rec[t].ok THEN 0 ELSE 1
  <2>2. /\ totalRequests' = totalRequests + 0 /\ errorRequests' = errorRequests + bad
        /\ successRequests' = successRequests + 0 - bad - (-1)
        /\ totalLatency' = totalLatency + rec[t].latency
    BY <1>5, <1>7 DEF RecordOutcome
  <2>3. TotalOf' = TotalOf
    BY <1>1, <1>2, <2>1 DEF TotalOf
  <2>4. Shifted(TotalOf, TotalOf', Active, t, 0)
    BY <1>4, <2>3 DEF Shifted
  <2>5. Shifted(ErrorsOf, ErrorsOf', Active, t, bad)
    BY <1>1, <1>2, <1>3, <1>4, <2>1 DEF ErrorsOf, Shifted, Unrecorded
  <2>6. Shifted(LatencyOf, LatencyOf', Active, t, rec[t].latency)
    BY <1>1, <1>2, <1>3, <1>4, <2>1 DEF LatencyOf, Shifted, Unrecorded
  <2>7. Shifted(LagOf, LagOf', Active, t, -1)
    BY <1>1, <1>2, <1>4, <2>1 DEF LagOf, Shifted
  <2>8. bad \in Int /\ rec[t].latency \in Int
    BY <1>3
  <2> HIDE DEF bad
  <2>9. QED BY <1>1, <2>2, <2>4, <2>5, <2>6, <2>7, <2>8, AddsUpFollows
<1>8. CASE LoadMin(t) \/ SwapMin(t) \/ LoadMax(t) \/ SwapMax(t)
  <2>1. rec[t].at \notin {"total", "outcome"} /\ rec'[t].at \notin {"total", "outcome"}
    BY <1>1, <1>8 DEF LoadMin, SwapMin, LoadMax, SwapMax, RecMoves, LiveTypeOK
  <2>2. UNCHANGED <<totalRequests, successRequests, errorRequests, totalLatency>>
    BY <1>8 DEF LoadMin, SwapMin, LoadMax, SwapMax
  <2>3. TotalOf' = TotalOf /\ ErrorsOf' = ErrorsOf /\ LatencyOf' = LatencyOf /\ LagOf' = LagOf
    BY <1>1, <1>2, <2>1 DEF TotalOf, ErrorsOf, LatencyOf, LagOf, Unrecorded
  <2>4. QED BY <1>1, <2>2, <2>3 DEF AddsUp, Tally, Units
<1>9. QED BY <1>6, <1>7, <1>8 DEF RecordStep

(* A call and its entry into RecordRequest: its numbers are still out.     *)
LEMMA CallAddsUp ==
  ASSUME LiveTypeOK, LoopTypeOK, AddsUp, NEW t \in Active, Call(t)
  PROVE  AddsUp'
<1>1. /\ Active' = Active /\ Active \subseteq Threads /\ opt' = opt
      /\ UNCHANGED <<totalRequests, successRequests, errorRequests, totalLatency>>
  BY OptionsStay, ActiveFacts DEF LoopTypeOK, Call
<1>2. PICK ok \in BOOLEAN, latency \in Latencies :
        /\ durations' = [durations EXCEPT ![t] = C!Recorded(@, latency)]
        /\ errDurations' = IF ok THEN errDurations
                           ELSE [errDurations EXCEPT ![t] = C!Recorded(@, latency)]
        /\ rec' = [rec EXCEPT ![t] = [at |-> "total", ok |-> ok, latency |-> latency, old |-> 0]]
  BY WorkersAssumption DEF Call
<1>3. \A u \in Active :
        /\ durations[u] \in C!Counters(Latencies) /\ errDurations[u] \in C!Counters(Latencies)
        /\ durations[u].count \in Nat /\ durations[u].sum \in Int
        /\ errDurations[u].count \in Nat
  BY <1>1 DEF LoopTypeOK, C!Counters
<1>4. rec[t].at = "idle" /\ latency \in Nat
  BY LatenciesAreNat DEF Call, WorkerMoves
<1>5. /\ rec'[t].at = "total" /\ rec'[t].ok = ok /\ rec'[t].latency = latency
      /\ \A u \in Active \ {t} : /\ rec'[u] = rec[u] /\ durations'[u] = durations[u]
                                 /\ errDurations'[u] = errDurations[u]
  BY <1>1, <1>2 DEF LiveTypeOK, LoopTypeOK
<1>6. /\ durations'[t].count = durations[t].count + 1
      /\ durations'[t].sum = durations[t].sum + latency
      /\ errDurations'[t].count = errDurations[t].count + IF ok THEN 0 ELSE 1
  <2>1. /\ durations'[t] = C!Recorded(durations[t], latency)
        /\ errDurations'[t] = IF ok THEN errDurations[t] ELSE C!Recorded(errDurations[t], latency)
    BY <1>1, <1>2 DEF LoopTypeOK
  <2>2. QED BY <1>3, <2>1, RecordedFacts
<1>7. TotalOf' = TotalOf /\ LatencyOf' = LatencyOf /\ ErrorsOf' = ErrorsOf /\ LagOf' = LagOf
  <2>1. \A u \in Active : TotalOf'[u] = TotalOf[u] /\ LatencyOf'[u] = LatencyOf[u]
    BY <1>1, <1>3, <1>4, <1>5, <1>6 DEF TotalOf, LatencyOf, Unrecorded
  <2>2. \A u \in Active : ErrorsOf'[u] = ErrorsOf[u] /\ LagOf'[u] = LagOf[u]
    BY <1>1, <1>3, <1>4, <1>5, <1>6 DEF ErrorsOf, LagOf, Unrecorded
  <2>3. QED BY <1>1, <2>1, <2>2 DEF TotalOf, LatencyOf, ErrorsOf, LagOf
<1>8. QED BY <1>1, <1>7 DEF AddsUp, Tally, Units

LEMMA AddsUpStays ==
  ASSUME AddsUp, UNCHANGED <<opt, durations, errDurations, rec, totalRequests, successRequests,
                             errorRequests, totalLatency>>
  PROVE  AddsUp'
<1>1. Active' = Active
  BY OptionsStay
<1>2. TotalOf' = TotalOf /\ LatencyOf' = LatencyOf /\ ErrorsOf' = ErrorsOf /\ LagOf' = LagOf
  BY <1>1 DEF TotalOf, LatencyOf, ErrorsOf, LagOf, Unrecorded
<1>3. QED BY <1>1, <1>2 DEF AddsUp, Tally, Units

-----------------------------------------------------------------------------
(* The snapshot of the monitor.                                            *)

LEMMA SnapshotStays ==
  ASSUME LiveTypeOK, LoopTypeOK, SnapshotBehind, SnapshotLag, UNCHANGED <<opt, snap>>,
         successRequests' \in Nat, errorRequests' \in Nat,
         successRequests' >= successRequests, errorRequests' >= errorRequests
  PROVE  SnapshotBehind' /\ SnapshotLag'
<1>1. /\ Setup(opt)' = Setup(opt) /\ Setup(opt).threads \in Nat
  BY OptionsStay, ActiveFacts DEF LoopTypeOK
<1>2. /\ snap.total \in Nat /\ snap.success \in Nat /\ snap.errors \in Nat
      /\ successRequests \in Nat /\ errorRequests \in Nat
  BY DEF LiveTypeOK
<1>3. QED BY <1>1, <1>2 DEF SnapshotBehind, SnapshotLag

LEMMA SnapshotByLook ==
  ASSUME LiveTypeOK, LoopTypeOK, AddsUp, SnapshotBehind, SnapshotLag, opt' = opt,
         ReadTotal \/ ReadSuccess \/ ReadErrors
  PROVE  SnapshotBehind' /\ SnapshotLag'
<1>1. /\ Setup(opt)' = Setup(opt) /\ Setup(opt).threads \in Nat
  BY OptionsStay, ActiveFacts DEF LoopTypeOK
<1>2. /\ snap.total \in Nat /\ snap.success \in Nat /\ snap.errors \in Nat
      /\ snap \in [at: SnapSteps, total: Nat, success: Nat, errors: Nat]
      /\ totalRequests \in Nat /\ successRequests \in Nat /\ errorRequests \in Nat
  BY DEF LiveTypeOK
<1>3. UNCHANGED <<successRequests, errorRequests>>
  BY DEF ReadTotal, ReadSuccess, ReadErrors, Reads
<1>4. totalRequests <= successRequests + errorRequests + Setup(opt).threads
  BY <1>1, <1>2, LagFits DEF AddsUp
<1>5. CASE ReadTotal
  BY <1>1, <1>2, <1>3, <1>4, <1>5 DEF ReadTotal, Reads, SnapshotBehind, SnapshotLag, SnapSteps
<1>6. CASE ReadSuccess
  BY <1>1, <1>2, <1>3, <1>6 DEF ReadSuccess, Reads, SnapshotBehind, SnapshotLag, SnapSteps
<1>7. CASE ReadErrors
  BY <1>1, <1>2, <1>3, <1>7 DEF ReadErrors, Reads, SnapshotBehind, SnapshotLag, SnapSteps
<1>8. QED BY <1>5, <1>6, <1>7

-----------------------------------------------------------------------------
(* The extremes.                                                           *)

(* The minimum goes down and the maximum up, to what t recorded.           *)
LEMMA RecordExtremes ==
  ASSUME LiveTypeOK, NEW t \in Threads, RecordStep(t), Recording(t)
  PROVE  /\ minLatency' <= minLatency /\ maxLatency' >= maxLatency
         /\ minLatency' = minLatency \/ minLatency' = rec[t].latency
         /\ maxLatency' = maxLatency \/ maxLatency' = rec[t].latency
         /\ rec'[t].at \in {"total", "outcome", "min", "minCas"}
              \/ rec[t].at \notin {"total", "outcome", "min", "minCas"}
              \/ minLatency' <= rec[t].latency
         /\ rec'[t].at # "idle" \/ rec[t].latency <= maxLatency'
         /\ rec[t].at # "idle"
         /\ rec'[t].at = "minCas" => rec[t].latency < rec'[t].old
         /\ rec'[t].at = "maxCas" => rec[t].latency > rec'[t].old
<1>1. /\ minLatency \in Nat /\ maxLatency \in Nat /\ rec[t].latency \in Nat
      /\ rec[t].old \in Nat
  BY LatenciesAreNat DEF LiveTypeOK
<1>2. CASE RecordTotal(t)
  BY <1>1, <1>2 DEF RecordTotal, RecMoves, LiveTypeOK
<1>3. CASE RecordOutcome(t)
  BY <1>1, <1>3 DEF RecordOutcome, RecMoves, LiveTypeOK
<1>4. CASE LoadMin(t)
  <2>1. /\ rec[t].at = "min" /\ rec'[t].old = minLatency
        /\ rec'[t].at = IF rec[t].latency >= minLatency THEN "max" ELSE "minCas"
        /\ UNCHANGED <<minLatency, maxLatency>>
    BY <1>4 DEF LoadMin, LiveTypeOK
  <2>2. QED BY <1>1, <2>1
<1>5. CASE SwapMin(t)
  <2>1. /\ rec[t].at = "minCas" /\ rec'[t].at \in {"max", "min"} /\ UNCHANGED maxLatency
        /\ \/ minLatency = rec[t].old /\ minLatency' = rec[t].latency
           \/ rec'[t].at = "min" /\ minLatency' = minLatency
    BY <1>5 DEF SwapMin, RecMoves, LiveTypeOK
  <2>2. rec[t].latency < rec[t].old
    BY <2>1 DEF Recording
  <2>3. QED BY <1>1, <2>1, <2>2
<1>6. CASE LoadMax(t)
  <2>1. /\ rec[t].at = "max" /\ rec'[t].old = maxLatency
        /\ rec'[t].at = IF rec[t].latency <= maxLatency THEN "idle" ELSE "maxCas"
        /\ UNCHANGED <<minLatency, maxLatency>>
    BY <1>6 DEF LoadMax, LiveTypeOK
  <2>2. QED BY <1>1, <2>1
<1>7. CASE SwapMax(t)
  <2>1. /\ rec[t].at = "maxCas" /\ rec'[t].at \in {"idle", "max"} /\ UNCHANGED minLatency
        /\ \/ maxLatency = rec[t].old /\ maxLatency' = rec[t].latency
           \/ rec'[t].at = "max" /\ maxLatency' = maxLatency
    BY <1>7 DEF SwapMax, RecMoves, LiveTypeOK
  <2>2. rec[t].latency > rec[t].old
    BY <2>1 DEF Recording
  <2>3. QED BY <1>1, <2>1, <2>2
<1>8. QED BY <1>2, <1>3, <1>4, <1>5, <1>6, <1>7 DEF RecordStep

LEMMA ExtremesByRecord ==
  ASSUME LiveTypeOK, LoopTypeOK, \A u \in Threads : Recording(u), ExtremesKnown,
         NEW t \in Threads, RecordStep(t), UNCHANGED loopVars
  PROVE  (\A u \in Threads : Recording(u)') /\ ExtremesKnown'
<1>1. /\ Active' = Active /\ Active \subseteq Threads /\ UNCHANGED durations
  BY OptionsStay, ActiveFacts DEF LoopTypeOK, loopVars
<1>2. /\ \A u \in Threads \ {t} : rec'[u] = rec[u]
      /\ rec'[t].ok = rec[t].ok /\ rec'[t].latency = rec[t].latency
  BY RecordFrame
<1>3. /\ minLatency' <= minLatency /\ maxLatency' >= maxLatency
      /\ minLatency' = minLatency \/ minLatency' = rec[t].latency
      /\ maxLatency' = maxLatency \/ maxLatency' = rec[t].latency
      /\ rec[t].at # "idle"
      /\ rec'[t].at = "minCas" => rec[t].latency < rec'[t].old
      /\ rec'[t].at = "maxCas" => rec[t].latency > rec'[t].old
  BY RecordExtremes
<1>4. \/ rec'[t].at \in {"total", "outcome", "min", "minCas"}
      \/ rec[t].at \notin {"total", "outcome", "min", "minCas"}
      \/ minLatency' <= rec[t].latency
  BY RecordExtremes
<1>5. rec'[t].at # "idle" \/ rec[t].latency <= maxLatency'
  BY RecordExtremes
<1>6. /\ t \in Active /\ rec[t].latency \in Latencies /\ durations[t].count > 0
      /\ durations[t].min <= rec[t].latency /\ rec[t].latency <= durations[t].max
  BY <1>3 DEF Recording
<1>7. ASSUME NEW u \in Threads PROVE Recording(u)'
  <2>1. CASE u = t
    BY <1>1, <1>2, <1>3, <1>6, <2>1 DEF Recording
  <2>2. CASE u # t
    BY <1>1, <1>2, <2>2 DEF Recording
  <2>3. QED BY <2>1, <2>2
<1>8. LiveTypeOK'
  BY <1>6, RecordType
<1>9. /\ minLatency \in Nat /\ minLatency' \in Nat /\ maxLatency \in Nat /\ maxLatency' \in Nat
      /\ rec[t].latency \in Nat
      /\ \A u \in Active : durations[u].min \in Nat /\ durations[u].max \in Nat
  BY <1>1, <1>8, LatenciesAreNat DEF LiveTypeOK, LoopTypeOK, C!Counters
<1>10. ASSUME NEW u \in Active, Called(u)
       PROVE  MinKnown(u)' /\ MaxKnown(u)'
  <2>1. MinKnown(u) /\ MaxKnown(u)
    BY <1>10 DEF ExtremesKnown
  <2>2. CASE u = t
    BY <1>1, <1>2, <1>3, <1>4, <1>5, <1>9, <2>1, <2>2 DEF MinKnown, MaxKnown
  <2>3. CASE u # t
    BY <1>1, <1>2, <1>3, <1>9, <2>1, <2>3 DEF MinKnown, MaxKnown
  <2>4. QED BY <2>2, <2>3
<1>11. minLatency' = Unset \/ \E u \in Active : Called(u) /\ durations[u].min <= minLatency'
  <2>1. CASE minLatency' = minLatency
    BY <2>1 DEF ExtremesKnown
  <2>2. CASE minLatency' = rec[t].latency
    BY <1>6, <2>2 DEF Called
  <2>3. QED BY <1>3, <2>1, <2>2
<1>12. maxLatency' = 0 \/ \E u \in Active : Called(u) /\ durations[u].max >= maxLatency'
  <2>1. CASE maxLatency' = maxLatency
    BY <2>1 DEF ExtremesKnown
  <2>2. CASE maxLatency' = rec[t].latency
    BY <1>6, <1>9, <2>2 DEF Called
  <2>3. QED BY <1>3, <2>1, <2>2
<1>13. ExtremesKnown'
  BY <1>1, <1>10, <1>11, <1>12 DEF ExtremesKnown, Called
<1>14. QED BY <1>7, <1>13

LEMMA ExtremesByCall ==
  ASSUME LiveTypeOK, LoopTypeOK, \A u \in Threads : Recording(u) /\ Plain(durations[u]),
         ExtremesKnown, NEW t \in Active, Call(t)
  PROVE  /\ \A u \in Threads : Recording(u)' /\ Plain(durations[u])'
         /\ ExtremesKnown'
<1>1. /\ Active' = Active /\ Active \subseteq Threads /\ UNCHANGED <<minLatency, maxLatency>>
  BY OptionsStay, ActiveFacts DEF LoopTypeOK, Call
<1>2. PICK ok \in BOOLEAN, latency \in Latencies :
        /\ durations' = [durations EXCEPT ![t] = C!Recorded(@, latency)]
        /\ rec' = [rec EXCEPT ![t] = [at |-> "total", ok |-> ok, latency |-> latency, old |-> 0]]
  BY WorkersAssumption DEF Call
<1>3. /\ \A u \in Threads \ {t} : rec'[u] = rec[u] /\ durations'[u] = durations[u]
      /\ rec'[t] = [at |-> "total", ok |-> ok, latency |-> latency, old |-> 0]
      /\ durations'[t] = C!Recorded(durations[t], latency)
  BY <1>1, <1>2 DEF LiveTypeOK, LoopTypeOK
<1>4. /\ \A u \in Threads : /\ durations[u] \in C!Counters(Latencies)
                            /\ durations[u].count \in Nat /\ durations[u].sum \in Int
                            /\ durations[u].min \in Nat /\ durations[u].max \in Nat
      /\ minLatency \in Nat /\ maxLatency \in Nat /\ latency \in Nat
  BY LatenciesAreNat DEF LiveTypeOK, LoopTypeOK, C!Counters
<1>5. rec[t].at = "idle"
  BY DEF Call, WorkerMoves
<1>6. /\ durations'[t].count = durations[t].count + 1
      /\ durations'[t].sum = durations[t].sum + latency
      /\ durations'[t].min = IF durations[t].count = 0 \/ latency < durations[t].min
                             THEN latency ELSE durations[t].min
      /\ durations'[t].max = IF durations[t].count = 0 \/ latency > durations[t].max
                             THEN latency ELSE durations[t].max
  BY <1>1, <1>3, <1>4, RecordedFacts
<1>7. ASSUME NEW u \in Threads PROVE Recording(u)' /\ Plain(durations[u])'
  <2>1. CASE u = t
    <3>1. Recording(t)'
      BY <1>1, <1>3, <1>4, <1>6 DEF Recording
    <3>2. Plain(durations[t])'
      BY <1>1, <1>4, <1>6 DEF Plain
    <3>3. QED BY <2>1, <3>1, <3>2
  <2>2. CASE u # t
    BY <1>1, <1>3, <2>2 DEF Recording, Plain
  <2>3. QED BY <2>1, <2>2
<1>8. ASSUME NEW u \in Active, Called(u)'
      PROVE  {durations'[u].min, durations'[u].max} \subseteq Latencies /\ MinKnown(u)' /\ MaxKnown(u)'
  <2>1. CASE u = t
    <3>1. CASE durations[t].count = 0
      BY <1>3, <1>6, <2>1, <3>1 DEF MinKnown, MaxKnown
    <3>2. CASE durations[t].count > 0
      <4>1. /\ {durations[t].min, durations[t].max} \subseteq Latencies
            /\ minLatency <= durations[t].min /\ durations[t].max <= maxLatency
        BY <1>1, <1>5, <3>2 DEF ExtremesKnown, MinKnown, MaxKnown, Called
      <4>2. QED BY <1>1, <1>3, <1>4, <1>6, <2>1, <4>1 DEF MinKnown, MaxKnown
    <3>3. QED BY <1>1, <1>4, <3>1, <3>2
  <2>2. CASE u # t
    BY <1>1, <1>3, <1>8, <2>2 DEF ExtremesKnown, MinKnown, MaxKnown, Called
  <2>3. QED BY <2>1, <2>2
<1>9. \A u \in Active : Called(u) =>
        Called(u)' /\ durations'[u].min <= durations[u].min /\ durations'[u].max >= durations[u].max
  <2> SUFFICES ASSUME NEW u \in Active, Called(u)
               PROVE  /\ Called(u)' /\ durations'[u].min <= durations[u].min
                      /\ durations'[u].max >= durations[u].max
    OBVIOUS
  <2>1. CASE u = t
    BY <1>1, <1>4, <1>6, <2>1 DEF Called
  <2>2. CASE u # t
    BY <1>1, <1>3, <1>4, <2>2 DEF Called
  <2>3. QED BY <2>1, <2>2
<1>10. \A u \in Active : Called(u)' => durations'[u].min \in Nat /\ durations'[u].max \in Nat
  BY <1>8, LatenciesAreNat
<1>11. minLatency = Unset \/ \E u \in Active : Called(u)' /\ durations'[u].min <= minLatency
  BY <1>1, <1>4, <1>9, <1>10 DEF ExtremesKnown
<1>12. maxLatency = 0 \/ \E u \in Active : Called(u)' /\ durations'[u].max >= maxLatency
  BY <1>1, <1>4, <1>9, <1>10 DEF ExtremesKnown
<1>13. ExtremesKnown'
  BY <1>1, <1>8, <1>11, <1>12 DEF ExtremesKnown
<1>14. QED BY <1>7, <1>13

LEMMA ExtremesStay ==
  ASSUME \A u \in Threads : Recording(u) /\ Plain(durations[u]), ExtremesKnown,
         UNCHANGED <<opt, durations, rec, minLatency, maxLatency>>
  PROVE  /\ \A u \in Threads : Recording(u)' /\ Plain(durations[u])'
         /\ ExtremesKnown'
<1>1. Active' = Active
  BY OptionsStay
<1>2. QED BY <1>1 DEF Recording, Plain, ExtremesKnown, MinKnown, MaxKnown, Called

-----------------------------------------------------------------------------
(* The results.                                                            *)

Results == ResultsAddUp /\ ResultExtremes /\ Plain(result[1])

LEMMA NothingMerged ==
  ASSUME merged = 0
  PROVE  /\ Merged = {}
         /\ Tally([t \in Merged |-> durations[t].count]) = 0
         /\ Tally([t \in Merged |-> durations[t].sum]) = 0
         /\ Tally([t \in Merged |-> errDurations[t].count]) = 0
<1>1. Merged = {}
  BY DEF Merged
<1>2. /\ DOMAIN [t \in Merged |-> durations[t].count] = {}
      /\ DOMAIN [t \in Merged |-> durations[t].sum] = {}
      /\ DOMAIN [t \in Merged |-> errDurations[t].count] = {}
  BY <1>1
<1>3. QED BY <1>1, <1>2, TallyEmpty

(* As long as some worker is not done, nothing is merged.                  *)
LEMMA ResultsWait ==
  ASSUME Results, merged = 0, UNCHANGED <<opt, result, merged>>, stopped => stopped'
  PROVE  Results'
<1>1. Merged = {} /\ result[1].count = 0 /\ result[1].sum = 0 /\ result[2].count = 0
  BY NothingMerged DEF Results, ResultsAddUp
<1>2. /\ Merged' = {}
      /\ Tally([t \in Merged |-> durations[t].count])' = 0
      /\ Tally([t \in Merged |-> durations[t].sum])' = 0
      /\ Tally([t \in Merged |-> errDurations[t].count])' = 0
  <2>1. Merged' = {}
    BY <1>1 DEF Merged
  <2>2. /\ DOMAIN [t \in Merged' |-> durations'[t].count] = {}
        /\ DOMAIN [t \in Merged' |-> durations'[t].sum] = {}
        /\ DOMAIN [t \in Merged' |-> errDurations'[t].count] = {}
    BY <2>1
  <2>3. /\ Tally([t \in Merged' |-> durations'[t].count]) = 0
        /\ Tally([t \in Merged' |-> durations'[t].sum]) = 0
        /\ Tally([t \in Merged' |-> errDurations'[t].count]) = 0
    BY <2>2, TallyEmpty
  <2>4. QED BY <2>1, <2>3 DEF Tally, Units
<1>3. ResultsAddUp'
  BY <1>1, <1>2 DEF ResultsAddUp
<1>4. ResultExtremes'
  BY <1>1, <1>2 DEF ResultExtremes
<1>5. Plain(result[1])'
  BY DEF Results, Plain
<1>6. QED BY <1>3, <1>4, <1>5 DEF Results

LEMMA ResultsStay ==
  ASSUME Results, UNCHANGED <<opt, result, merged, worker, durations, errDurations, rec>>,
         stopped => stopped'
  PROVE  Results'
<1>1. Active' = Active /\ Merged' = Merged /\ Setup(opt)' = Setup(opt) /\ Shared' = Shared
  BY OptionsStay DEF Merged
<1>2. QED BY <1>1 DEF Results, ResultsAddUp, ResultExtremes, Plain, IsOver, Called, Tally, Units

(* A worker that is still at it.                                           *)
LEMMA NotOver ==
  ASSUME ResultsAddUp, LoopTypeOK, NEW t \in Active, ~IsOver(t) \/ rec[t].at # "idle"
  PROVE  merged = 0
<1>1. merged \in Nat
  BY ActiveFacts DEF LoopTypeOK
<1>2. QED BY <1>1 DEF ResultsAddUp

(* The calls of a worker that is done, when none were dropped.             *)
LEMMA AllMade ==
  ASSUME LoopTypeOK, NEW t \in Active, LoopOf(t), IsOver(t), opt.exactly > 0, Shared,
         ~stopped, ~opt.noCatchUp
  PROVE  durations[t].count = NumCalls(t)
<1>1. /\ ~opt.timed /\ opt.exactly \in Nat
      /\ NumCalls(t) \in Nat /\ t \in Threads /\ t \in Nat
  BY OptionsType, ActiveFacts DEF LoopTypeOK
<1>2. Counted /\ ~Timed
  BY <1>1 DEF Counted, Timed
<1>3. NumCalls(t) # 0
  <2>1. /\ Setup(opt).first > 0 /\ (Setup(opt).threads > 1 => Setup(opt).calls > 0)
        /\ Setup(opt).first \in Nat /\ Setup(opt).calls \in Nat
    BY SetupFacts DEF LoopTypeOK, Shared
  <2>2. t # 0 => Setup(opt).threads > 1
    BY <1>1, ActiveFacts DEF LoopTypeOK
  <2>3. QED BY <2>1, <2>2 DEF NumCalls
<1>4. iter[t] \in Nat /\ durations[t].count \in Nat
  BY <1>1 DEF LoopTypeOK, C!Counters
<1>5. durations[t].count = iter[t]
  BY DEF LoopOf, IsOver
<1>6. iter[t] >= NumCalls(t) /\ iter[t] <= NumCalls(t)
  BY <1>2, <1>3, <1>4 DEF LoopOf
<1>7. QED BY <1>1, <1>4, <1>5, <1>6

LEMMA OneMore == ASSUME NEW m \in Nat, NEW c \in Nat PROVE m * c = (m - 1) * c + c
OBVIOUS

LEMMA ResultsByMerge ==
  ASSUME LoopTypeOK, Results, \A t \in Active : LoopOf(t),
         \A t \in Threads : Plain(durations[t]), Merge
  PROVE  Results'
<1>1. /\ merged \in Active /\ merged \in Nat /\ Active \subseteq Threads
      /\ IsFiniteSet(Merged) /\ Merged \subseteq Active
      /\ Merged' = Merged \cup {merged} /\ merged \notin Merged
  <2>1. /\ Setup(opt).threads \in Nat /\ Active = 0 .. Setup(opt).threads - 1
        /\ Active \subseteq Threads /\ merged \in 0 .. Setup(opt).threads
        /\ merged < Setup(opt).threads /\ merged' = merged + 1
    BY ActiveFacts DEF LoopTypeOK, Merge
  <2>2. IsFiniteSet(0 .. merged - 1)
    BY <2>1, FS_Interval
  <2>3. QED BY <2>1, <2>2 DEF Merged
<1>2. /\ UNCHANGED <<opt, worker, iter, durations, errDurations, stopped, rec>>
      /\ \A t \in Active : IsOver(t) /\ rec[t].at = "idle"
      /\ merged' = merged + 1
  BY DEF Merge, liveVars, IsOver
<1>3. /\ Active' = Active /\ Setup(opt)' = Setup(opt) /\ Shared' = Shared
      /\ \A t : Called(t)' = Called(t)
  BY <1>2, OptionsStay DEF Called
<1> DEFINE d == durations[merged]
           e == errDurations[merged]
<1>4. /\ d \in C!Counters(Latencies) /\ e \in C!Counters(Latencies)
      /\ result[1] \in C!Counters(Latencies) /\ result[2] \in C!Counters(Latencies)
      /\ Plain(d) /\ Plain(result[1])
  BY <1>1 DEF LoopTypeOK, Results
<1>5. result'[1] = C!Transferred(result[1], d) /\ result'[2] = C!Transferred(result[2], e)
  BY DEF Merge
<1>6. /\ result'[1].count = result[1].count + d.count
      /\ result'[2].count = result[2].count + e.count
      /\ result'[1].sum = result[1].sum + d.sum
      /\ Plain(result'[1])
      /\ d.count = 0 => result'[1] = result[1]
  <2> HIDE DEF d, e
  <2>1. /\ result'[1].count = result[1].count + d.count
        /\ d.count = 0 => result'[1] = result[1]
    BY <1>4, <1>5, TransferredFacts
  <2>2. result'[2].count = result[2].count + e.count
    BY <1>4, <1>5, TransferredFacts
  <2>3. result'[1].sum = result[1].sum + d.sum /\ Plain(result'[1])
    BY <1>4, <1>5, TransferredFacts, SMTT(60) DEF Plain
  <2>4. QED BY <2>1, <2>2, <2>3
<1>7. d.count > 0 =>
        /\ result'[1].min <= d.min /\ result'[1].max >= d.max
        /\ result'[1].min = d.min \/ (result[1].count > 0 /\ result'[1].min = result[1].min)
        /\ result'[1].max = d.max \/ (result[1].count > 0 /\ result'[1].max = result[1].max)
        /\ result[1].count > 0 => result'[1].min <= result[1].min /\ result'[1].max >= result[1].max
  BY <1>4, <1>5, TransferredFacts, SMTT(60)
<1>8. \A t \in Threads :
        /\ durations[t].count \in Nat /\ durations[t].sum \in Nat /\ errDurations[t].count \in Nat
        /\ durations[t].min \in Nat /\ durations[t].max \in Nat
  BY LatenciesAreNat DEF LoopTypeOK, C!Counters, Plain
<1>9. /\ Tally([t \in Merged |-> durations[t].count])' =
           Tally([t \in Merged |-> durations[t].count]) + d.count
      /\ Tally([t \in Merged |-> durations[t].sum])' =
           Tally([t \in Merged |-> durations[t].sum]) + d.sum
      /\ Tally([t \in Merged |-> errDurations[t].count])' =
           Tally([t \in Merged |-> errDurations[t].count]) + e.count
  <2> DEFINE M == Merged \cup {merged}
             fc == [t \in Merged |-> durations[t].count]
             gc == [t \in M |-> durations[t].count]
             fs == [t \in Merged |-> durations[t].sum]
             gs == [t \in M |-> durations[t].sum]
             fe == [t \in Merged |-> errDurations[t].count]
             ge == [t \in M |-> errDurations[t].count]
  <2>1. Merged \subseteq Threads /\ M \subseteq Threads
    BY <1>1
  <2>2. /\ fc \in [Merged -> Nat] /\ fs \in [Merged -> Nat] /\ fe \in [Merged -> Nat]
        /\ gc \in [M -> Nat] /\ gs \in [M -> Nat] /\ ge \in [M -> Nat]
    BY <1>8, <2>1
  <2>3. /\ \A t \in Merged : gc[t] = fc[t]
        /\ \A t \in Merged : gs[t] = fs[t]
        /\ \A t \in Merged : ge[t] = fe[t]
        /\ gc[merged] = d.count /\ gs[merged] = d.sum /\ ge[merged] = e.count
    OBVIOUS
  <2> HIDE DEF fc, gc, fs, gs, fe, ge, M
  <2>0. IsFiniteSet(Merged) /\ merged \notin Merged /\ M = Merged \cup {merged}
    BY <1>1 DEF M
  <2>4. Tally(gc) = Tally(fc) + gc[merged]
    <3>1. /\ fc \in [Merged -> Nat] /\ gc \in [M -> Nat]
          /\ \A t \in Merged : gc[t] = fc[t]
      BY <2>2, <2>3
    <3>2. QED BY <2>0, <3>1, TallyExtend
  <2>5. Tally(gs) = Tally(fs) + gs[merged]
    <3>1. /\ fs \in [Merged -> Nat] /\ gs \in [M -> Nat]
          /\ \A t \in Merged : gs[t] = fs[t]
      BY <2>2, <2>3
    <3>2. QED BY <2>0, <3>1, TallyExtend
  <2>6. Tally(ge) = Tally(fe) + ge[merged]
    <3>1. /\ fe \in [Merged -> Nat] /\ ge \in [M -> Nat]
          /\ \A t \in Merged : ge[t] = fe[t]
      BY <2>2, <2>3
    <3>2. QED BY <2>0, <3>1, TallyExtend
  <2>7. QED BY <1>1, <1>2, <2>3, <2>4, <2>5, <2>6 DEF fc, gc, fs, gs, fe, ge, M, Tally, Units
<1>10. ASSUME opt.exactly > 0, Shared, ~stopped, ~opt.noCatchUp
       PROVE  result'[1].count = Setup(opt).first + merged * Setup(opt).calls
  <2>1. /\ result[1].count = IF merged = 0 THEN 0
                             ELSE Setup(opt).first + (merged - 1) * Setup(opt).calls
    BY <1>10 DEF Results, ResultsAddUp
  <2>2. d.count = NumCalls(merged)
    BY <1>1, <1>2, <1>10, AllMade
  <2>3. Setup(opt).first \in Nat /\ Setup(opt).calls \in Nat
    BY SetupFacts DEF LoopTypeOK
  <2>4. CASE merged = 0
    BY <1>6, <2>1, <2>2, <2>3, <2>4 DEF NumCalls
  <2>5. CASE merged # 0
    <3>1. merged * Setup(opt).calls = (merged - 1) * Setup(opt).calls + Setup(opt).calls
      BY <1>1, <2>3, OneMore
    <3>2. (merged - 1) * Setup(opt).calls \in Nat
      <4>1. merged - 1 \in Nat
        BY <1>1, <2>5
      <4>2. QED BY <2>3, <4>1
    <3>3. d.count = Setup(opt).calls
      BY <2>2, <2>5 DEF NumCalls
    <3>4. QED BY <1>6, <2>1, <2>3, <2>5, <3>1, <3>2, <3>3
  <2>6. QED BY <2>4, <2>5
<1>11. ResultsAddUp'
  <2>1. merged + 1 > 0 /\ merged + 1 - 1 = merged /\ merged + 1 # 0
    BY <1>1
  <2>2. (opt.exactly > 0 /\ Shared /\ ~stopped /\ ~opt.noCatchUp)' =>
          result'[1].count = IF merged' = 0 THEN 0
                             ELSE Setup(opt)'.first + (merged' - 1) * Setup(opt)'.calls
    <3>1. ASSUME opt.exactly > 0, Shared, ~stopped, ~opt.noCatchUp
          PROVE  result'[1].count = IF merged' = 0 THEN 0
                   ELSE Setup(opt)'.first + (merged' - 1) * Setup(opt)'.calls
      <4>1. merged' # 0 /\ merged' - 1 = merged
        <5>1. merged' = merged + 1 /\ merged \in Nat
          BY <1>1, <1>2
        <5>2. QED BY <5>1
      <4>2. result'[1].count = Setup(opt).first + merged * Setup(opt).calls
        BY <1>10, <3>1
      <4>3. QED BY <1>3, <4>1, <4>2
    <3>2. opt' = opt /\ stopped' = stopped
      BY <1>2
    <3>3. QED BY <1>3, <3>1, <3>2
  <2>3. /\ result[1].count = Tally([t \in Merged |-> durations[t].count])
        /\ result[1].sum = Tally([t \in Merged |-> durations[t].sum])
        /\ result[2].count = Tally([t \in Merged |-> errDurations[t].count])
    BY DEF Results, ResultsAddUp
  <2>4. \A t \in Active' : IsOver(t)' /\ rec'[t].at = "idle"
    BY <1>2, <1>3 DEF IsOver
  <2>5. QED BY <1>6, <1>9, <2>2, <2>3, <2>4 DEF ResultsAddUp
<1>12. ResultExtremes'
  <2>1. /\ result[1].count \in Nat /\ result'[1].count \in Nat
        /\ result[1].min \in Nat /\ result[1].max \in Nat
        /\ result'[1].min \in Nat /\ result'[1].max \in Nat
    <3>1. result'[1] \in C!Counters(Latencies)
      BY <1>4, <1>5, TransferredFacts
    <3>2. QED BY <1>4, <3>1, LatenciesAreNat DEF C!Counters
  <2>2. ResultExtremes
    BY DEF Results
  <2>3. d.count \in Nat /\ d.min \in Nat /\ d.max \in Nat
    BY <1>1, <1>8
  <2>4. ASSUME NEW t \in Merged \cup {merged}, Called(t)
        PROVE  /\ result'[1].count > 0
               /\ result'[1].min <= durations[t].min /\ durations[t].max <= result'[1].max
    <3>1. CASE t = merged
      BY <1>6, <1>7, <2>1, <2>3, <2>4, <3>1 DEF Called
    <3>2. CASE t \in Merged
      <4>1. /\ result[1].count > 0
            /\ result[1].min <= durations[t].min /\ durations[t].max <= result[1].max
        BY <2>2, <2>4, <3>2 DEF ResultExtremes
      <4>2. durations[t].min \in Nat /\ durations[t].max \in Nat
        BY <1>1, <1>8, <3>2
      <4>3. CASE d.count = 0
        BY <1>6, <4>1, <4>3
      <4>4. CASE d.count > 0
        BY <1>6, <1>7, <2>1, <2>3, <4>1, <4>2, <4>4
      <4>5. QED BY <2>3, <4>3, <4>4
    <3>3. QED BY <3>1, <3>2
  <2>5. ASSUME result'[1].count > 0
        PROVE  /\ \E t \in Merged \cup {merged} : Called(t) /\ durations[t].min = result'[1].min
               /\ \E t \in Merged \cup {merged} : Called(t) /\ durations[t].max = result'[1].max
    <3>1. CASE d.count = 0
      BY <1>6, <2>2, <2>5, <3>1 DEF ResultExtremes
    <3>2. CASE d.count > 0
      BY <1>7, <2>2, <3>2 DEF ResultExtremes, Called
    <3>3. QED BY <2>3, <3>1, <3>2
  <2>6. QED BY <1>1, <1>2, <1>3, <2>4, <2>5 DEF ResultExtremes
<1>13. Plain(result[1])'
  BY <1>6 DEF Plain
<1>14. QED BY <1>11, <1>12, <1>13 DEF Results

-----------------------------------------------------------------------------
(* The invariant.                                                          *)

LEMMA InvParts ==
  IInv <=> /\ LiveTypeOK /\ LoopTypeOK
           /\ \A t \in Active : LoopOf(t)
           /\ \A t \in Threads : Recording(t) /\ Plain(durations[t])
           /\ AddsUp /\ SnapshotBehind /\ SnapshotLag /\ ExtremesKnown
           /\ Results
BY DEF IInv, Results, TypeOK, LoopTypeOK

LEMMA InvPartsNext ==
  ASSUME LiveTypeOK', LoopTypeOK',
         \A t \in Active' : LoopOf(t)',
         \A t \in Threads : Recording(t)' /\ Plain(durations[t])',
         AddsUp', SnapshotBehind', SnapshotLag', ExtremesKnown', Results'
  PROVE  IInv'
BY DEF IInv, Results, TypeOK, LoopTypeOK

LEMMA InitKeeps == Init => IInv
<1> SUFFICES ASSUME Init PROVE IInv
  OBVIOUS
<1>0. opt \in Options
  BY ChosenAssumption DEF Init
<1>1. /\ Setup(opt).threads \in Nat \ {0} /\ Active \subseteq Threads
      /\ IsFiniteSet(Active) /\ Active = 0 .. Setup(opt).threads - 1
      /\ \A t \in Active : NumCalls(t) \in Nat
  BY <1>0, ActiveFacts
<1>2. LiveTypeOK
  BY LatenciesAreNat DEF Init, LiveInit, LiveTypeOK, RecSteps, SnapSteps
<1>3. LoopTypeOK
  <2>1. /\ durations \in [Threads -> C!Counters(Latencies)]
        /\ errDurations \in [Threads -> C!Counters(Latencies)]
        /\ result \in C!Counters(Latencies) \X C!Counters(Latencies)
    BY EmptyFacts DEF Init
  <2>2. merged \in 0 .. Setup(opt).threads
    BY <1>1 DEF Init
  <2>3. QED BY <1>0, <2>1, <2>2 DEF Init, LoopTypeOK
<1>4. \A t \in Active : LoopOf(t)
  <2> SUFFICES ASSUME NEW t \in Active PROVE LoopOf(t)
    OBVIOUS
  <2>1. worker[t] = "start" /\ iter[t] = 0 /\ durations[t].count = 0 /\ NumCalls(t) \in Nat
    BY <1>1, EmptyFacts DEF Init
  <2>2. QED BY <2>1 DEF LoopOf, IsOver
<1>5. \A t \in Threads : /\ rec[t].at = "idle" /\ durations[t].count = 0 /\ durations[t].sum = 0
                         /\ errDurations[t].count = 0
  BY EmptyFacts DEF Init, LiveInit
<1>6. \A t \in Threads : Recording(t) /\ Plain(durations[t])
  <2>1. \A t \in Threads : Recording(t)
    BY <1>5 DEF Recording
  <2>2. ASSUME NEW t \in Threads PROVE Plain(durations[t])
    <3>1. durations[t].sum = 0
      BY <1>5
    <3>2. QED BY <3>1 DEF Plain
  <2>3. QED BY <2>1, <2>2
<1>7. ExtremesKnown
  BY <1>1, <1>5 DEF ExtremesKnown, Called, Init, LiveInit
<1>8. SnapshotBehind /\ SnapshotLag
  BY DEF SnapshotBehind, SnapshotLag, Init, LiveInit
<1>9. AddsUp
  <2> DEFINE zero == [t \in Active |-> 0]
  <2>1. TotalOf = zero /\ ErrorsOf = zero /\ LatencyOf = zero /\ LagOf = zero
    BY <1>1, <1>5 DEF TotalOf, ErrorsOf, LatencyOf, LagOf, Unrecorded
  <2>2. Tally(zero) = 0
    <3>1. Units(zero) = {}
      BY DEF Units
    <3>2. QED BY <3>1, FS_EmptySet DEF Tally
  <2>3. zero \in [Active -> Nat]
    OBVIOUS
  <2> HIDE DEF zero
  <2>4. QED BY <2>1, <2>2, <2>3 DEF AddsUp, Init, LiveInit
<1>10. Results
  <2>1. /\ merged = 0 /\ result[1].count = 0 /\ result[2].count = 0 /\ result[1].sum = 0
        /\ Plain(result[1])
    BY EmptyFacts DEF Init
  <2>2. ResultsAddUp
    BY <2>1, NothingMerged DEF ResultsAddUp
  <2>3. ResultExtremes
    BY <2>1, NothingMerged DEF ResultExtremes
  <2>4. QED BY <2>1, <2>2, <2>3 DEF Results
<1>11. QED BY <1>2, <1>3, <1>4, <1>6, <1>7, <1>8, <1>9, <1>10, InvParts

(* A worker moves: only its place, and perhaps its iterations, change.     *)
LEMMA MovesKeep ==
  ASSUME IInv, NEW t \in Active, LoopStep(t), NEW from, NEW to,
         OnlyMoves(t, from, to) \/ (from = "done" /\ Counts(t, to)),
         from # "over", to \in {"start", "top", "done", "asleep", "over"}
  PROVE  IInv'
<1>1. /\ LiveTypeOK /\ LoopTypeOK /\ (\A u \in Active : LoopOf(u))
      /\ (\A u \in Threads : Recording(u) /\ Plain(durations[u]))
      /\ AddsUp /\ SnapshotBehind /\ SnapshotLag /\ ExtremesKnown /\ Results
  BY InvParts
<1>2. /\ UNCHANGED <<liveVars, opt, durations, errDurations, result, merged, stopped, timeUp>>
      /\ worker[t] = from /\ worker' = [worker EXCEPT ![t] = to]
      /\ iter' = iter \/ iter' = [iter EXCEPT ![t] = @ + 1]
  BY DEF OnlyMoves, Counts, WorkerMoves
<1>3. Active' = Active /\ t \in Threads /\ Active \subseteq Threads
  BY <1>1, <1>2, OptionsStay, ActiveFacts DEF LoopTypeOK
<1>4. UNCHANGED <<totalRequests, successRequests, errorRequests, totalLatency, minLatency,
                  maxLatency, rec, snap>>
  BY <1>2 DEF liveVars
<1>5. LiveTypeOK'
  BY <1>1, <1>2, LiveStays
<1>6. LoopTypeOK'
  BY <1>1, <1>3, MovesType
<1>7. ASSUME NEW u \in Active PROVE LoopOf(u)'
  <2>1. CASE u = t
    BY <1>1, <2>1, OwnLoop
  <2>2. CASE u # t
    BY <1>1, <1>2, <1>3, <2>2, LoopUndisturbed DEF LoopTypeOK
  <2>3. QED BY <2>1, <2>2
<1>8. (\A u \in Threads : Recording(u)' /\ Plain(durations[u])') /\ ExtremesKnown'
  BY <1>1, <1>2, <1>4, ExtremesStay
<1>9. AddsUp'
  BY <1>1, <1>2, <1>4, AddsUpStays
<1>10. SnapshotBehind' /\ SnapshotLag'
  BY <1>1, <1>2, <1>4, SnapshotStays DEF LiveTypeOK
<1>11. Results'
  <2>1. merged = 0
    BY <1>1, <1>2, NotOver DEF Results, IsOver
  <2>2. QED BY <1>1, <1>2, <2>1, ResultsWait
<1>12. QED BY <1>3, <1>5, <1>6, <1>7, <1>8, <1>9, <1>10, <1>11, InvPartsNext

LEMMA CallKeeps ==
  ASSUME IInv, NEW t \in Active, Call(t)
  PROVE  IInv'
<1>1. /\ LiveTypeOK /\ LoopTypeOK /\ (\A u \in Active : LoopOf(u))
      /\ (\A u \in Threads : Recording(u) /\ Plain(durations[u]))
      /\ AddsUp /\ SnapshotBehind /\ SnapshotLag /\ ExtremesKnown /\ Results
  BY InvParts
<1>2. /\ UNCHANGED <<successRequests, errorRequests, snap, opt, iter, result, merged, stopped>>
      /\ worker[t] = "top" /\ worker' = [worker EXCEPT ![t] = "done"]
  BY DEF Call, WorkerMoves
<1>3. /\ Active' = Active /\ t \in Threads /\ Active \subseteq Threads
      /\ \A u \in Threads \ {t} : durations'[u] = durations[u]
  BY <1>1, <1>2, OptionsStay, ActiveFacts DEF LoopTypeOK, Call
<1>4. LiveTypeOK' /\ LoopTypeOK'
  <2>1. TypeOK'
    BY <1>1, <1>3, CallType, TypeParts
  <2>2. QED BY <2>1 DEF TypeOK, LoopTypeOK
<1>5. ASSUME NEW u \in Active PROVE LoopOf(u)'
  <2>1. CASE u = t
    BY <1>1, <2>1, OwnLoop DEF LoopStep
  <2>2. CASE u # t
    BY <1>1, <1>2, <1>3, <2>2, LoopUndisturbed DEF LoopTypeOK
  <2>3. QED BY <2>1, <2>2
<1>6. (\A u \in Threads : Recording(u)' /\ Plain(durations[u])') /\ ExtremesKnown'
  BY <1>1, ExtremesByCall
<1>7. AddsUp'
  BY <1>1, CallAddsUp
<1>8. SnapshotBehind' /\ SnapshotLag'
  BY <1>1, <1>2, SnapshotStays DEF LiveTypeOK
<1>9. Results'
  <2>1. merged = 0
    BY <1>1, <1>2, NotOver DEF Results, IsOver
  <2>2. QED BY <1>1, <1>2, <2>1, ResultsWait
<1>10. QED BY <1>3, <1>4, <1>5, <1>6, <1>7, <1>8, <1>9, InvPartsNext

LEMMA RecordKeeps ==
  ASSUME IInv, NEW t \in Threads, Record(t)
  PROVE  IInv'
<1>1. /\ LiveTypeOK /\ LoopTypeOK /\ (\A u \in Active : LoopOf(u))
      /\ (\A u \in Threads : Recording(u) /\ Plain(durations[u]))
      /\ AddsUp /\ SnapshotBehind /\ SnapshotLag /\ ExtremesKnown /\ Results
  BY InvParts
<1>2. RecordStep(t) /\ UNCHANGED loopVars
  BY DEF Record
<1>3. /\ UNCHANGED <<opt, worker, iter, durations, errDurations, result, merged, stopped, timeUp>>
      /\ Active' = Active /\ Active \subseteq Threads
  BY <1>1, <1>2, OptionsStay, ActiveFacts DEF LoopTypeOK, loopVars
<1>4. rec[t].at # "idle"
  BY <1>1, <1>2, RecordExtremes
<1>5. t \in Active /\ rec[t].latency \in Latencies
  BY <1>1, <1>4 DEF Recording
<1>6. LiveTypeOK'
  BY <1>1, <1>2, <1>5, RecordType
<1>7. LoopTypeOK'
  BY <1>1, <1>2, LoopStays
<1>8. \A u \in Active : LoopOf(u)'
  BY <1>1, <1>3, LoopUndisturbed
<1>9. /\ \A u \in Threads : Recording(u)'
      /\ ExtremesKnown'
  BY <1>1, <1>2, ExtremesByRecord
<1>10. \A u \in Threads : Plain(durations[u])'
  BY <1>1, <1>3 DEF Plain
<1>11. AddsUp'
  BY <1>1, <1>2, <1>5, RecordAddsUp
<1>12. SnapshotBehind' /\ SnapshotLag'
  <2>1. snap' = snap
    BY <1>1, <1>2, RecordFrame
  <2>2. /\ successRequests' \in Nat /\ errorRequests' \in Nat
        /\ successRequests \in Nat /\ errorRequests \in Nat
    BY <1>1, <1>6 DEF LiveTypeOK
  <2>3. successRequests' >= successRequests /\ errorRequests' >= errorRequests
    BY <1>2, <2>2 DEF RecordStep, RecordTotal, RecordOutcome, LoadMin, SwapMin, LoadMax, SwapMax
  <2>4. QED BY <1>1, <1>3, <2>1, <2>2, <2>3, SnapshotStays
<1>13. Results'
  <2>1. merged = 0
    BY <1>1, <1>4, <1>5, NotOver DEF Results
  <2>2. QED BY <1>1, <1>3, <2>1, ResultsWait
<1>14. QED BY <1>3, <1>6, <1>7, <1>8, <1>9, <1>10, <1>11, <1>12, <1>13, InvPartsNext

LEMMA MergeKeeps == ASSUME IInv, Merge PROVE IInv'
<1>1. /\ LiveTypeOK /\ LoopTypeOK /\ (\A u \in Active : LoopOf(u))
      /\ (\A u \in Threads : Recording(u) /\ Plain(durations[u]))
      /\ AddsUp /\ SnapshotBehind /\ SnapshotLag /\ ExtremesKnown /\ Results
  BY InvParts
<1>2. /\ UNCHANGED <<liveVars, opt, worker, iter, durations, errDurations, stopped, timeUp>>
      /\ Active' = Active
  BY OptionsStay DEF Merge
<1>3. UNCHANGED <<totalRequests, successRequests, errorRequests, totalLatency, minLatency,
                  maxLatency, rec, snap>>
  BY <1>2 DEF liveVars
<1>4. LiveTypeOK' /\ LoopTypeOK'
  <2>1. TypeOK'
    BY <1>1, MergeType, TypeParts
  <2>2. QED BY <2>1 DEF TypeOK, LoopTypeOK
<1>5. \A u \in Active : LoopOf(u)'
  BY <1>1, <1>2, LoopUndisturbed
<1>6. (\A u \in Threads : Recording(u)' /\ Plain(durations[u])') /\ ExtremesKnown'
  BY <1>1, <1>2, <1>3, ExtremesStay
<1>7. AddsUp'
  BY <1>1, <1>2, <1>3, AddsUpStays
<1>8. SnapshotBehind' /\ SnapshotLag'
  BY <1>1, <1>2, <1>3, SnapshotStays DEF LiveTypeOK
<1>9. Results'
  BY <1>1, ResultsByMerge
<1>10. QED BY <1>2, <1>4, <1>5, <1>6, <1>7, <1>8, <1>9, InvPartsNext

(* The world around the run: all but the stop, the clock and the monitor   *)
(* stays.                                                                  *)
LEMMA WorldKeeps ==
  ASSUME IInv, Stop \/ TimePasses \/ Look \/ UNCHANGED vars
  PROVE  IInv'
<1>1. /\ LiveTypeOK /\ LoopTypeOK /\ (\A u \in Active : LoopOf(u))
      /\ (\A u \in Threads : Recording(u) /\ Plain(durations[u]))
      /\ AddsUp /\ SnapshotBehind /\ SnapshotLag /\ ExtremesKnown /\ Results
  BY InvParts
<1>2. /\ UNCHANGED <<opt, worker, iter, durations, errDurations, result, merged>>
      /\ UNCHANGED <<totalRequests, successRequests, errorRequests, totalLatency, minLatency,
                     maxLatency, rec>>
      /\ stopped \in BOOLEAN /\ (stopped => stopped') /\ stopped' \in BOOLEAN /\ timeUp' \in BOOLEAN
  BY <1>1 DEF Stop, TimePasses, Look, ReadTotal, ReadSuccess, ReadErrors, Reads, vars, loopVars,
              liveVars, LoopTypeOK
<1>3. Active' = Active /\ Setup(opt)' = Setup(opt)
  BY <1>2, OptionsStay
<1>4. LiveTypeOK' /\ SnapshotBehind' /\ SnapshotLag'
  <2>1. CASE Look
    BY <1>1, <1>2, <2>1, LookType, SnapshotByLook DEF Look
  <2>2. CASE ~Look
    <3>1. UNCHANGED liveVars /\ UNCHANGED snap
      BY <2>2 DEF Stop, TimePasses, vars, liveVars
    <3>2. QED BY <1>1, <1>2, <3>1, LiveStays, SnapshotStays DEF LiveTypeOK
  <2>3. QED BY <2>1, <2>2
<1>5. LoopTypeOK'
  BY <1>1, <1>2, <1>3 DEF LoopTypeOK
<1>6. \A u \in Active : LoopOf(u)'
  BY <1>1, <1>2, LoopUndisturbed
<1>7. (\A u \in Threads : Recording(u)' /\ Plain(durations[u])') /\ ExtremesKnown'
  BY <1>1, <1>2, ExtremesStay
<1>8. AddsUp'
  BY <1>1, <1>2, AddsUpStays
<1>9. Results'
  BY <1>1, <1>2, ResultsStay
<1>10. QED BY <1>3, <1>4, <1>5, <1>6, <1>7, <1>8, <1>9, InvPartsNext

LEMMA NextKeeps == IInv /\ [Next]_vars => IInv'
<1> SUFFICES ASSUME IInv, [Next]_vars PROVE IInv'
  OBVIOUS
<1>1. CASE \E t \in Threads : LoopStep(t)
  <2>1. PICK t \in Threads : LoopStep(t)
    BY <1>1
  <2>2. CASE Record(t)
    BY <2>2, RecordKeeps
  <2>3. CASE Call(t)
    BY <2>3, CallKeeps DEF Call, WorkerMoves
  <2>4. CASE Enter(t)
    BY <2>1, <2>4, MovesKeep DEF Enter, OnlyMoves, WorkerMoves
  <2>5. CASE StopsInDelay(t)
    BY <2>1, <2>5, MovesKeep DEF StopsInDelay, OnlyMoves, WorkerMoves
  <2>6. CASE GivesUp(t)
    BY <2>1, <2>6, MovesKeep DEF GivesUp, OnlyMoves, WorkerMoves
  <2>7. CASE Wakes(t)
    BY <2>1, <2>7, MovesKeep DEF Wakes, OnlyMoves, WorkerMoves
  <2>8. CASE StopsAsleep(t)
    BY <2>1, <2>8, MovesKeep DEF StopsAsleep, OnlyMoves, WorkerMoves
  <2>9. CASE DoesAll(t) \/ Stops(t)
    <3>1. Counts(t, "over") /\ t \in Active
      BY <2>9 DEF DoesAll, Stops, Counts, WorkerMoves
    <3>2. QED BY <2>1, <3>1, MovesKeep
  <2>10. CASE Skips(t)
    <3>1. Counts(t, "done") /\ t \in Active
      BY <2>10 DEF Skips, Counts, WorkerMoves
    <3>2. QED BY <2>1, <3>1, MovesKeep
  <2>11. CASE Sleeps(t)
    <3>1. Counts(t, "asleep") /\ t \in Active
      BY <2>11 DEF Sleeps, Counts, WorkerMoves
    <3>2. QED BY <2>1, <3>1, MovesKeep
  <2>12. CASE GoesOn(t)
    <3>1. Counts(t, "top") /\ t \in Active
      BY <2>12 DEF GoesOn, Counts, WorkerMoves
    <3>2. QED BY <2>1, <3>1, MovesKeep
  <2>13. QED BY <2>1, <2>2, <2>3, <2>4, <2>5, <2>6, <2>7, <2>8, <2>9, <2>10, <2>11, <2>12
             DEF LoopStep
<1>2. CASE Merge
  BY <1>2, MergeKeeps
<1>3. CASE Stop \/ TimePasses \/ Look \/ Done \/ UNCHANGED vars
  BY <1>3, WorldKeeps DEF Done
<1>4. QED BY <1>1, <1>2, <1>3 DEF Next

-----------------------------------------------------------------------------
(* What the invariant says of the calls.                                   *)

LEMMA NeverMoreFollows == IInv => NeverMore
<1> SUFFICES ASSUME IInv PROVE NeverMore
  OBVIOUS
<1>1. /\ LoopTypeOK /\ \A t \in Active : LoopOf(t)
  BY InvParts
<1> DEFINE n == Setup(opt).threads
           first == Setup(opt).first
           calls == Setup(opt).calls
           begun == [t \in Active |-> durations[t].count]
<1>2. /\ n \in Nat \ {0} /\ Active = 0 .. n - 1 /\ Active \subseteq Threads
      /\ first \in Nat /\ calls \in Nat
      /\ \A t \in Active : NumCalls(t) \in Nat
  BY <1>1, ActiveFacts, SetupFacts DEF LoopTypeOK
<1>3. \A t \in Active : durations[t].count \in Nat /\ iter[t] \in Nat
                        /\ worker[t] \in {"start", "top", "done", "asleep", "over"}
  BY <1>1, <1>2 DEF LoopTypeOK, C!Counters
<1>4. ASSUME Counted, \A t \in Active : NumCalls(t) > 0
      PROVE  Begun <= first + (n - 1) * calls
  <2>1. ASSUME NEW t \in Active PROVE durations[t].count <= NumCalls(t)
    <3>1. /\ iter[t] <= NumCalls(t) /\ (IsOver(t) \/ iter[t] < NumCalls(t))
          /\ durations[t].count <= IF worker[t] = "done" THEN iter[t] + 1 ELSE iter[t]
      BY <1>1, <1>2, <1>4 DEF LoopOf
    <3>2. QED BY <1>2, <1>3, <3>1 DEF IsOver
  <2>2. begun \in [0 .. n - 1 -> Nat]
    BY <1>2, <1>3
  <2>3. begun[0] <= first /\ \A t \in 1 .. n - 1 : begun[t] <= calls
    BY <1>2, <2>1 DEF NumCalls
  <2> HIDE DEF n, first, calls, begun
  <2>4. Tally(begun) <= first + (n - 1) * calls
    BY <1>2, <2>2, <2>3, TallyBound
  <2>5. QED BY <2>4 DEF Begun, begun
<1>5. ASSUME opt.exactly > 0, Shared PROVE Begun <= opt.exactly
  <2>1. first > 0 /\ (n > 1 => calls > 0) /\ first + (n - 1) * calls = opt.exactly
    BY <1>1, <1>5, SetupFacts DEF LoopTypeOK, Shared
  <2>2. \A t \in Active : NumCalls(t) > 0
    BY <1>2, <2>1 DEF NumCalls
  <2>3. Counted
    BY <1>5 DEF Counted
  <2>4. QED BY <1>4, <2>1, <2>2, <2>3
<1>6. ASSUME Timed PROVE Begun <= IF opt.expected < 2 THEN 2 ELSE opt.expected
  <2> DEFINE most == IF opt.expected < 2 THEN 2 ELSE opt.expected
  <2>1. first = calls /\ calls >= 2 /\ first + (n - 1) * calls <= most
    BY <1>1, <1>6, SetupFacts DEF LoopTypeOK, Timed
  <2>2. \A t \in Active : NumCalls(t) > 0
    BY <1>2, <2>1 DEF NumCalls
  <2>3. Begun <= first + (n - 1) * calls
    BY <1>4, <1>6, <2>2 DEF Counted
  <2>4. Begun \in Nat
    <3>1. begun \in [Active -> Nat] /\ IsFiniteSet(Active)
      BY <1>1, <1>3, ActiveFacts DEF LoopTypeOK
    <3>2. QED BY <3>1, UnitsFinite DEF Begun
  <2>5. first + (n - 1) * calls \in Nat
    <3>1. n - 1 \in Nat /\ calls \in Nat /\ first \in Nat
      BY <1>2
    <3> HIDE DEF n, first, calls
    <3>2. (n - 1) * calls \in Nat
      BY <3>1
    <3>3. QED BY <3>1, <3>2
  <2>6. most \in Nat
    BY <1>1, OptionsType DEF LoopTypeOK
  <2> HIDE DEF n, first, calls, most
  <2>7. QED BY <2>1, <2>3, <2>4, <2>5, <2>6 DEF most
<1>7. QED BY <1>5, <1>6 DEF NeverMore

LEMMA ExactCallsFollows == IInv => ExactCalls
<1> SUFFICES ASSUME IInv, Over, opt.exactly > 0, Shared, ~stopped, ~opt.noCatchUp
             PROVE  result[1].count = opt.exactly
  BY DEF ExactCalls
<1>1. LoopTypeOK /\ ResultsAddUp
  BY InvParts DEF Results
<1>2. Setup(opt).threads \in Nat \ {0} /\ merged = Setup(opt).threads
  BY <1>1, ActiveFacts DEF LoopTypeOK, Over
<1>3. result[1].count = Setup(opt).first + (Setup(opt).threads - 1) * Setup(opt).calls
  BY <1>1, <1>2 DEF ResultsAddUp
<1>4. QED BY <1>1, <1>3, SetupFacts DEF LoopTypeOK, Shared

LEMMA TwoAndTheLastFollows == IInv => TwoAndTheLast
<1> SUFFICES ASSUME IInv, Over, Timed, ~stopped, ~opt.noCatchUp, NEW t \in Active
             PROVE  durations[t].count >= 2 /\ durations[t].count # NumCalls(t) - 1
  BY DEF TwoAndTheLast
<1>1. LoopTypeOK /\ ResultsAddUp /\ LoopOf(t)
  BY InvParts DEF Results
<1>2. merged > 0 /\ IsOver(t)
  <2>1. Setup(opt).threads \in Nat \ {0} /\ merged = Setup(opt).threads
    BY <1>1, ActiveFacts DEF LoopTypeOK, Over
  <2>2. QED BY <1>1, <2>1 DEF ResultsAddUp
<1>3. /\ iter[t] \in Nat /\ NumCalls(t) \in Nat /\ durations[t].count = iter[t]
  BY <1>1, <1>2, ActiveFacts DEF LoopTypeOK, LoopOf, IsOver
<1>4. NumCalls(t) >= 2
  BY <1>1, SetupFacts DEF LoopTypeOK, Timed, NumCalls
<1>5. Counted
  BY DEF Counted
<1>6. iter[t] >= NumCalls(t) \/ (iter[t] >= 2 /\ iter[t] # NumCalls(t) - 1)
  BY <1>1, <1>2, <1>5 DEF LoopOf
<1>7. QED BY <1>3, <1>4, <1>6

-----------------------------------------------------------------------------
(* What it says of the live statistics.                                    *)

LEMMA LiveIsResultFollows == IInv => LiveIsResult
<1> SUFFICES ASSUME IInv, Over PROVE LiveIsResult!2
  BY DEF LiveIsResult
<1>1. /\ LiveTypeOK /\ LoopTypeOK /\ AddsUp /\ ExtremesKnown /\ ResultsAddUp /\ ResultExtremes
      /\ \A t \in Threads : Recording(t)
  BY InvParts DEF Results
<1>2. Merged = Active /\ Active \subseteq Threads /\ IsFiniteSet(Active)
      /\ \A t \in Active : rec[t].at = "idle"
  <2>1. /\ Setup(opt).threads \in Nat \ {0} /\ merged = Setup(opt).threads
        /\ Active = 0 .. Setup(opt).threads - 1 /\ Active \subseteq Threads /\ IsFiniteSet(Active)
    BY <1>1, ActiveFacts DEF LoopTypeOK, Over
  <2>2. QED BY <1>1, <2>1 DEF ResultsAddUp, Merged
<1>3. \A t \in Active : /\ durations[t].count \in Nat /\ durations[t].sum \in Int
                        /\ errDurations[t].count \in Nat
                        /\ durations[t].min \in Nat /\ durations[t].max \in Nat
  BY <1>1, <1>2, LatenciesAreNat DEF LoopTypeOK, C!Counters
<1>4. /\ TotalOf = [t \in Merged |-> durations[t].count]
      /\ ErrorsOf = [t \in Merged |-> errDurations[t].count]
      /\ LatencyOf = [t \in Merged |-> durations[t].sum]
      /\ LagOf = [t \in Active |-> 0]
  <2>1. \A t \in Active : ~Unrecorded(t) /\ rec[t].at # "total" /\ rec[t].at # "outcome"
    BY <1>2 DEF Unrecorded
  <2>2. QED BY <1>2, <1>3, <2>1 DEF TotalOf, ErrorsOf, LatencyOf, LagOf
<1>5. Tally(LagOf) = 0
  <2>1. Units(LagOf) = {}
    BY <1>4 DEF Units
  <2>2. QED BY <2>1, FS_EmptySet DEF Tally
<1>6. /\ totalRequests = result[1].count /\ errorRequests = result[2].count
      /\ totalLatency = result[1].sum
  BY <1>1, <1>4 DEF AddsUp, ResultsAddUp
<1>7. successRequests = result[1].count - result[2].count
  BY <1>1, <1>5, <1>6 DEF AddsUp, LiveTypeOK
<1>8. ASSUME result[1].count > 0
      PROVE  minLatency = result[1].min /\ maxLatency = result[1].max
  <2>1. PICK t \in Active : Called(t) /\ durations[t].min = result[1].min
    BY <1>1, <1>2, <1>8 DEF ResultExtremes
  <2>2. PICK u \in Active : Called(u) /\ durations[u].max = result[1].max
    BY <1>1, <1>2, <1>8 DEF ResultExtremes
  <2>3. minLatency <= durations[t].min /\ durations[t].min \in Latencies
    BY <1>1, <1>2, <2>1 DEF ExtremesKnown, MinKnown
  <2>4. durations[u].max <= maxLatency
    BY <1>1, <1>2, <2>2 DEF ExtremesKnown, MaxKnown
  <2>5. /\ minLatency \in Nat /\ maxLatency \in Nat
        /\ durations[t].min \in Nat /\ durations[u].max \in Nat
    BY <1>1, <1>3, LatenciesAreNat DEF LiveTypeOK
  <2>6. minLatency # Unset
    BY <2>3, <2>5, LatenciesAssumption
  <2>7. PICK v \in Active : Called(v) /\ durations[v].min <= minLatency
    BY <1>1, <2>6 DEF ExtremesKnown
  <2>8. result[1].min <= durations[v].min /\ durations[v].min \in Nat
    BY <1>1, <1>2, <1>3, <2>7 DEF ResultExtremes
  <2>9. maxLatency = 0 \/ \E w \in Active : Called(w) /\ durations[w].max >= maxLatency
    BY <1>1 DEF ExtremesKnown
  <2>10. maxLatency <= durations[u].max
    <3>1. CASE maxLatency = 0
      BY <2>5, <3>1
    <3>2. CASE maxLatency # 0
      <4>1. PICK w \in Active : Called(w) /\ durations[w].max >= maxLatency
        BY <2>9, <3>2
      <4>2. durations[w].max <= result[1].max /\ durations[w].max \in Nat
        BY <1>1, <1>2, <1>3, <4>1 DEF ResultExtremes
      <4>3. QED BY <2>2, <2>5, <4>1, <4>2
    <3>3. QED BY <3>1, <3>2
  <2>11. QED BY <2>1, <2>2, <2>3, <2>4, <2>5, <2>7, <2>8, <2>10
<1>9. QED BY <1>6, <1>7, <1>8

-----------------------------------------------------------------------------
(* IInv holds, whatever the options, in every state of every run.          *)
THEOREM Invariance == Spec => []IInv
<1>1. QED BY InitKeeps, NextKeeps, PTL DEF Spec

(* The calls of a run: with -n as many as asked for, never more, nor more  *)
(* than fit with a rate and a duration, however they divide among the      *)
(* workers (runQPSSetup, runMaxQPSSetup and the loops of runOne).          *)
THEOREM CallsAreExact == Spec => []CallsExact
<1>1. IInv => CallsExact
  BY NeverMoreFollows, ExactCallsFollows DEF CallsExact
<1>2. QED BY <1>1, Invariance, PTL

(* With a rate and a duration every worker makes two calls, and does not   *)
(* leave out only its last one (runOne's two early exits).                 *)
THEOREM TwoCallsAndTheLast == Spec => []TwoAndTheLast
<1>1. QED BY TwoAndTheLastFollows, Invariance, PTL

(* The live statistics end up equal to the results, and a snapshot is      *)
(* behind by no more than one call per worker, with any interleaving of    *)
(* the atomic operations of RecordRequest and GetSnapshot.                 *)
THEOREM LiveIsExact == Spec => []LiveExact
<1>1. IInv => LiveExact
  BY LiveIsResultFollows DEF LiveExact, IInv
<1>2. QED BY <1>1, Invariance, PTL
=============================================================================
