--------------------------- MODULE PipelineProofs ---------------------------
(***************************************************************************)
(* The pipeline of a job: its cuts and the micro-batches of a stage.       *)
(*                                                                         *)
(* First that the dynamic program and the sliding window find the best     *)
(* cuts there are, and have the outcomes the control loop's model takes    *)
(* them to have; then that the joint partitioner finds the best cuts and   *)
(* throttles, and the stochastic one a frontier no choice is ahead of.     *)
(* Each time the table is a bound on every choice, and its backpointers    *)
(* lead to a choice that reaches it.                                       *)
(*                                                                         *)
(* Then R1 to R3, and that no micro-batch is lost or run twice, for stages *)
(* of any size, any queues and any weights: these proofs rest on what the  *)
(* queues hold, and on nothing the round robins decide.  Then what the     *)
(* round robins promise: every node its share, and few turns missed.       *)
(***************************************************************************)
EXTENDS InterBatch, Partitioner, SequenceTheorems, Induction, TLAPS

(* The cuts.                                                               *)

StageType == [slowness : Nat, memory : Nat, draw : Nat, cap : Nat]

\* A context and stages a partitioner may be called with.
Suits(ctx, fleet) ==
    /\ ctx \in ContextType /\ fleet \in Seq(StageType)
    /\ 1 <= Len(fleet) /\ Len(fleet) <= Len(ctx.layers)
    /\ Len(Links) >= Len(fleet) - 1

\* Sums over the layers of a segment.
LEMMA SuitsNat ==
    ASSUME NEW ctx, NEW fleet, Suits(ctx, fleet)
    PROVE  /\ ctx \in ContextType /\ fleet \in Seq(StageType)
           /\ ctx.layers \in Seq([flops : Nat, activation : Nat]) /\ ctx.window \in Nat
           /\ Len(fleet) \in Nat /\ Len(ctx.layers) \in Nat
           /\ 1 <= Len(fleet) /\ Len(fleet) <= Len(ctx.layers) /\ Unreachable \in Nat
<1>1. ctx \in ContextType /\ fleet \in Seq(StageType) /\ 1 <= Len(fleet) /\ Len(fleet) <= Len(ctx.layers)
  BY DEF Suits
<1>2. ctx.layers \in Seq([flops : Nat, activation : Nat]) /\ ctx.window \in Nat
  BY <1>1 DEF ContextType
<1> QED
  BY <1>1, <1>2, PartitionAssumption

LEMMA ElementIn == ASSUME NEW S, NEW q \in Seq(S), NEW j \in 1 .. Len(q) PROVE q[j] \in S
OBVIOUS

LEMMA SumIsNat ==
    ASSUME NEW a \in Int, NEW b \in Int, NEW f \in [a .. b -> Nat]
    PROVE  SumFunction(f) \in Nat
<1>1. SumFunction(f) = SumOver(f, a .. b)
  <2>1. DOMAIN f = a .. b
    OBVIOUS
  <2>2. SumFunction(f) = SumOver(f, DOMAIN f)
    BY Zenon DEF SumFunction, SumFunctionOnSet, FoldFunctionOnSet, SumOver
  <2> QED
    BY <2>1, <2>2
<1>2. IsFiniteSet(a .. b) /\ \A i \in a .. b : f[i] \in Nat
  BY FS_Interval
<1> QED
  BY <1>1, <1>2, SumNaturals

LEMMA SegmentNat ==
    ASSUME NEW ctx \in ContextType, NEW a \in 1 .. Len(ctx.layers), NEW b \in 1 .. Len(ctx.layers)
    PROVE  Flops(ctx, a, b) \in Nat /\ Memory(ctx, a, b) \in Nat
<1>1. ctx.layers \in Seq([flops : Nat, activation : Nat])
  BY DEF ContextType
<1>2. ASSUME NEW i \in a .. b PROVE ctx.layers[i].flops \in Nat /\ ctx.layers[i].activation \in Nat
  <2>1. i \in 1 .. Len(ctx.layers)
    BY <1>1
  <2>2. ctx.layers[i] \in [flops : Nat, activation : Nat]
    BY <1>1, <2>1, ElementIn, Zenon
  <2> QED
    BY <2>2
<1>3. /\ [i \in a .. b |-> ctx.layers[i].flops] \in [a .. b -> Nat]
      /\ [i \in a .. b |-> ctx.layers[i].activation] \in [a .. b -> Nat]
      /\ a \in Int /\ b \in Int
  BY <1>2
<1> QED
  BY <1>3, SumIsNat DEF Flops, Memory

LEMMA TimeNat ==
    ASSUME NEW ctx, NEW fleet, Suits(ctx, fleet), NEW s \in 1 .. Len(fleet),
           NEW a \in 1 .. Len(ctx.layers), NEW b \in 1 .. Len(ctx.layers), s > 1 => a > 1
    PROVE  ExecTime(ctx, fleet, s, a, b) \in Nat /\ fleet[s] \in StageType
<1>1. /\ fleet[s] \in StageType /\ fleet[s].slowness \in Nat /\ Flops(ctx, a, b) \in Nat
      /\ ctx.layers \in Seq([flops : Nat, activation : Nat])
  <2>1. /\ ctx \in ContextType /\ fleet \in Seq(StageType)
        /\ Len(fleet) \in Nat /\ Len(ctx.layers) \in Nat
    BY SuitsNat
  <2>2. fleet[s] \in StageType
    BY <2>1, ElementIn, Zenon
  <2>3. ctx.layers \in Seq([flops : Nat, activation : Nat])
    BY SuitsNat
  <2> QED
    BY <2>1, <2>2, <2>3, SegmentNat DEF StageType
<1>2. ASSUME NEW k \in 1 .. Len(fleet) - 1, NEW i \in 1 .. Len(ctx.layers)
      PROVE  CommTime(k, ctx.layers[i].activation) \in Nat
  <2>1. Links \in Seq([latency : Nat, perByte : Nat]) /\ k \in 1 .. Len(Links)
    BY PartitionAssumption DEF Suits
  <2>2. Links[k].latency \in Nat /\ Links[k].perByte \in Nat
    <3>1. Links[k] \in [latency : Nat, perByte : Nat]
      BY <2>1, ElementIn, Zenon
    <3> QED
      BY <3>1
  <2>3. ctx.layers[i].activation \in Nat
    <3>1. ctx.layers[i] \in [flops : Nat, activation : Nat]
      BY <1>1, ElementIn, Zenon
    <3> QED
      BY <3>1
  <2>4. \A x, y, z \in Nat : x + z * y \in Nat
    OBVIOUS
  <2> QED
    BY <2>2, <2>3, <2>4 DEF CommTime
<1> DEFINE after == IF s < Len(fleet) THEN CommTime(s, ctx.layers[b].activation) ELSE 0
           before == IF s > 1 THEN CommTime(s - 1, ctx.layers[a - 1].activation) ELSE 0
<1>3. after \in Nat
  <2>1. s < Len(fleet) => s \in 1 .. Len(fleet) - 1
    BY DEF Suits
  <2> QED
    BY <1>2, <2>1
<1>4. before \in Nat
  <2>1. s > 1 => s - 1 \in 1 .. Len(fleet) - 1 /\ a - 1 \in 1 .. Len(ctx.layers)
    BY DEF Suits
  <2> QED
    BY <1>2, <2>1
<1>5. ExecTime(ctx, fleet, s, a, b) = 2 * fleet[s].slowness * Flops(ctx, a, b) + after + before
  BY Zenon DEF ExecTime
<1>6. \A x, y, z, w \in Nat : 2 * x * y + z + w \in Nat
  OBVIOUS
<1> HIDE DEF after, before
<1> QED
  <2>1. 2 * fleet[s].slowness * Flops(ctx, a, b) + after + before \in Nat
    BY <1>1, <1>3, <1>4, <1>6, Zenon
  <2> QED
    BY ONLY <1>1, <1>5, <2>1, Zenon

LEMMA MaxOfTwo ==
    ASSUME NEW a \in Int, NEW b \in Int
    PROVE  Max({a, b}) = IF a >= b THEN a ELSE b
<1>1. CASE a >= b
  <2>1. \A y \in {a, b} : a >= y
    BY <1>1
  <2>2. \A c \in {a, b} : (\A y \in {a, b} : c >= y) => c = a
    BY <1>1
  <2> QED
    BY <1>1, <2>1, <2>2 DEF Max
<1>2. CASE ~(a >= b)
  <2>1. \A y \in {a, b} : b >= y
    BY <1>2
  <2>2. \A c \in {a, b} : (\A y \in {a, b} : c >= y) => c = b
    BY <1>2
  <2> QED
    BY <1>2, <2>1, <2>2 DEF Max
<1> QED
  BY <1>1, <1>2

\* A score never falls from stage to stage, and grows with the score before.
LEMMA ScoredGrows ==
    ASSUME NEW ctx \in ContextType, NEW stage \in StageType, NEW t \in Nat, NEW a \in Nat, NEW b \in Nat, a <= b
    PROVE  /\ Scored(ctx, stage, t, a) \in Nat
           /\ a <= Scored(ctx, stage, t, a)
           /\ Scored(ctx, stage, t, a) <= Scored(ctx, stage, t, b)
<1>1. stage.draw * t \in Nat
  <2>1. stage.draw \in Nat
    BY DEF StageType
  <2>2. \A x, y \in Nat : x * y \in Nat
    OBVIOUS
  <2> QED
    BY <2>1, <2>2
<1>2. CASE ctx.objective = "bottleneck"
  <2>1. Scored(ctx, stage, t, a) = IF a >= t THEN a ELSE t
    BY <1>2, MaxOfTwo DEF Scored
  <2>2. Scored(ctx, stage, t, b) = IF b >= t THEN b ELSE t
    BY <1>2, MaxOfTwo DEF Scored
  <2> QED
    BY <2>1, <2>2
<1>3. CASE ctx.objective # "bottleneck"
  <2>1. /\ Scored(ctx, stage, t, a) = a + stage.draw * t
        /\ Scored(ctx, stage, t, b) = b + stage.draw * t
    BY <1>3 DEF Scored
  <2> DEFINE e == stage.draw * t
  <2>2. /\ e \in Nat /\ Scored(ctx, stage, t, a) = a + e /\ Scored(ctx, stage, t, b) = b + e
    BY <1>1, <2>1
  <2> HIDE DEF e
  <2> QED
    BY <2>2
<1> QED
  BY <1>2, <1>3

\* Cuts whose segments lie within the layers.
Spanning(ctx, fleet, cuts) ==
    /\ Len(cuts) = Len(fleet) - 1
    /\ \A s \in 1 .. Len(fleet) :
          /\ FirstLayer(cuts, s) \in 1 .. Len(ctx.layers) /\ LastLayer(ctx, cuts, s) \in 1 .. Len(ctx.layers)
          /\ s > 1 => FirstLayer(cuts, s) > 1

\* The score of the first s stages.
SpanTime(ctx, fleet, cuts, s) ==
    ExecTime(ctx, fleet, s, FirstLayer(cuts, s), LastLayer(ctx, cuts, s))

Scores(ctx, fleet, cuts, f) ==
    /\ f \in [0 .. Len(fleet) -> Nat] /\ f[0] = 0
    /\ \A s \in 1 .. Len(fleet) : f[s] = Scored(ctx, fleet[s], SpanTime(ctx, fleet, cuts, s), f[s - 1])

LEMMA SpanTimeNat ==
    ASSUME NEW ctx, NEW fleet, Suits(ctx, fleet), NEW cuts, Spanning(ctx, fleet, cuts), NEW s \in 1 .. Len(fleet)
    PROVE  SpanTime(ctx, fleet, cuts, s) \in Nat /\ fleet[s] \in StageType
<1>1. /\ FirstLayer(cuts, s) \in 1 .. Len(ctx.layers) /\ LastLayer(ctx, cuts, s) \in 1 .. Len(ctx.layers)
      /\ s > 1 => FirstLayer(cuts, s) > 1
  BY DEF Spanning
<1> QED
  BY <1>1, TimeNat DEF SpanTime

\* A score is computed stage by stage, and never falls.
LEMMA ScoresExist ==
    ASSUME NEW ctx, NEW fleet, Suits(ctx, fleet), NEW cuts, Spanning(ctx, fleet, cuts)
    PROVE  \E f : Scores(ctx, fleet, cuts, f) /\ ScoreOfCuts(ctx, fleet, cuts) = f[Len(fleet)]
<1> DEFINE K == Len(fleet)
           next(s, before) == Scored(ctx, fleet[s], SpanTime(ctx, fleet, cuts, s), before)
           step == [p \in Nat \X Nat |-> IF p[1] \in 1 .. K THEN next(p[1], p[2]) ELSE 0]
           table(f) == f = [s \in 0 .. K |-> IF s = 0 THEN 0 ELSE next(s, f[s - 1])]
<1>1. K \in Nat /\ ctx \in ContextType
  BY DEF Suits
<1>2. \A s \in 1 .. K, b \in Nat : next(s, b) \in Nat
  <2> TAKE s \in 1 .. K, b \in Nat
  <2>1. SpanTime(ctx, fleet, cuts, s) \in Nat /\ fleet[s] \in StageType
    BY SpanTimeNat
  <2>2. b <= b
    OBVIOUS
  <2> QED
    BY <1>1, <2>1, <2>2, ScoredGrows
<1> HIDE DEF next, K
<1>3. step \in [Nat \X Nat -> Nat]
  BY <1>2
<1>4. \A s \in 1 .. K, b \in Nat : step[<<s, b>>] = next(s, b)
  BY <1>1
<1> HIDE DEF step
<1>5. PICK f \in [0 .. K -> Nat] : FollowsFromZero(f, K, 0, step)
  <2>1. 0 \in Nat
    OBVIOUS
  <2> QED
    BY <1>1, <1>3, <2>1, RecursionFromZero
<1>6. f[0] = 0 /\ \A s \in 1 .. K : f[s] = next(s, f[s - 1])
  <2>1. ASSUME NEW s \in 1 .. K PROVE f[s] = next(s, f[s - 1])
    <3>1. s \in 0 .. K /\ s - 1 \in 0 .. K /\ s # 0
      BY <1>1
    <3>2. f[s] = step[<<s, f[s - 1]>>] /\ f[s - 1] \in Nat
      BY <1>5, <3>1 DEF FollowsFromZero
    <3> QED
      BY <1>4, <3>2
  <2> QED
    BY <1>5, <2>1 DEF FollowsFromZero
<1>7. table(f)
  <2>1. ASSUME NEW s \in 0 .. K PROVE f[s] = IF s = 0 THEN 0 ELSE next(s, f[s - 1])
    BY <1>1, <1>6
  <2>2. f = [s \in 0 .. K |-> f[s]]
    BY <1>5
  <2> QED
    BY <2>1, <2>2
<1> DEFINE g == CHOOSE h : table(h)
<1>8. table(g)
  <2> HIDE DEF table
  <2> QED
    BY <1>7, Zenon
<1>9. ScoreOfCuts(ctx, fleet, cuts) = g[K]
  BY Zenon DEF ScoreOfCuts, SpanTime, next, K
<1> HIDE DEF g
<1>10. g[0] = 0 /\ \A s \in 1 .. K : g[s] = next(s, g[s - 1])
  <2>1. 0 \in 0 .. K /\ \A s \in 1 .. K : s \in 0 .. K /\ s # 0
    BY <1>1
  <2> QED
    BY <1>8, <2>1
<1>11. g \in [0 .. K -> Nat]
  <2> DEFINE T == {s \in Nat : s \in 0 .. K => g[s] \in Nat}
  <2>1. 0 \in T
    BY <1>10
  <2>2. ASSUME NEW s \in T PROVE s + 1 \in T
    <3>1. s + 1 \in 0 .. K => s \in 0 .. K /\ s + 1 \in 1 .. K /\ (s + 1) - 1 = s
      BY <1>1
    <3> QED
      BY <1>2, <1>10, <3>1
  <2>3. T = Nat
    <3> HIDE DEF T
    <3>1. T \subseteq Nat
      BY DEF T
    <3> QED
      BY <2>1, <2>2, <3>1, Induct
  <2>4. \A s \in 0 .. K : g[s] \in Nat
    BY <2>3
  <2>5. g = [s \in 0 .. K |-> g[s]]
    <3>1. \E e : g = [s \in 0 .. K |-> IF s = 0 THEN 0 ELSE next(s, e[s - 1])]
      BY <1>8
    <3> QED
      BY <3>1
  <2> QED
    BY <2>4, <2>5
<1>12. Scores(ctx, fleet, cuts, g)
  BY <1>10, <1>11 DEF Scores, next, K
<1> QED
  BY <1>9, <1>12 DEF K

LEMMA ScoresGrow ==
    ASSUME NEW ctx, NEW fleet, Suits(ctx, fleet), NEW cuts, Spanning(ctx, fleet, cuts),
           NEW f, Scores(ctx, fleet, cuts, f), NEW s \in 0 .. Len(fleet)
    PROVE  f[s] \in Nat /\ f[Len(fleet)] \in Nat /\ f[s] <= f[Len(fleet)]
<1> DEFINE K == Len(fleet)
           T == {d \in Nat : d <= K => f[K - d] <= f[K]}
<1>1. K \in Nat /\ ctx \in ContextType /\ f \in [0 .. K -> Nat]
  BY DEF Suits, Scores
<1>2. \A r \in 1 .. K : f[r - 1] <= f[r]
  <2> TAKE r \in 1 .. K
  <2>1. SpanTime(ctx, fleet, cuts, r) \in Nat /\ fleet[r] \in StageType
    BY SpanTimeNat
  <2>2. f[r - 1] \in Nat /\ f[r - 1] <= f[r - 1]
    BY <1>1
  <2>3. f[r - 1] <= Scored(ctx, fleet[r], SpanTime(ctx, fleet, cuts, r), f[r - 1])
    BY <1>1, <2>1, <2>2, ScoredGrows
  <2> QED
    BY <2>3 DEF Scores
<1> HIDE DEF K
<1>3. 0 \in T
  BY <1>1
<1>4. ASSUME NEW d \in T PROVE d + 1 \in T
  <2> SUFFICES ASSUME d + 1 <= K PROVE f[K - (d + 1)] <= f[K]
    OBVIOUS
  <2>1. K - d \in 1 .. K /\ K - (d + 1) = (K - d) - 1 /\ K - (d + 1) \in 0 .. K /\ K - d \in 0 .. K /\ K \in 0 .. K
    BY <1>1
  <2>2. f[K - d] <= f[K]
    BY <1>1
  <2>3. f[(K - d) - 1] <= f[K - d]
    BY <1>2, <2>1
  <2>4. f[K - d] \in Nat /\ f[K] \in Nat /\ f[K - (d + 1)] \in Nat
    BY <1>1, <2>1
  <2> HIDE DEF T
  <2> QED
    BY <2>1, <2>2, <2>3, <2>4
<1>5. T = Nat
  <2> HIDE DEF T
  <2>1. T \subseteq Nat
    BY DEF T
  <2> QED
    BY <1>3, <1>4, <2>1, Induct
<1>6. K - s \in Nat /\ K - s <= K /\ K - (K - s) = s /\ K \in 0 .. K
  BY <1>1 DEF K
<1>7. f[s] <= f[K] /\ f[s] \in Nat /\ f[K] \in Nat
  BY <1>1, <1>5, <1>6 DEF K
<1> QED
  BY <1>7 DEF K

\* The first of the least, by two numbers.
LEMMA LexLeast ==
    ASSUME NEW S, S # {}, NEW f, NEW g, \A x \in S : f[x] \in Nat /\ g[x] \in Nat
    PROVE  \E x \in S : \A y \in S : f[x] < f[y] \/ (f[x] = f[y] /\ g[x] <= g[y])
<1> DEFINE values == {f[x] : x \in S}
<1>1. values \subseteq Nat /\ values # {}
  OBVIOUS
<1>2. PICK low \in values : \A y \in values : low <= y
  BY <1>1, Least
<1> DEFINE lowest == {x \in S : f[x] = low}
           seconds == {g[x] : x \in lowest}
<1>3. seconds \subseteq Nat /\ seconds # {}
  OBVIOUS
<1>4. PICK second \in seconds : \A y \in seconds : second <= y
  BY <1>3, Least
<1>5. PICK x \in lowest : g[x] = second
  OBVIOUS
<1>6. ASSUME NEW y \in S PROVE f[x] < f[y] \/ (f[x] = f[y] /\ g[x] <= g[y])
  <2>1. f[x] = low /\ low <= f[y] /\ f[x] \in Nat /\ f[y] \in Nat
    BY <1>2
  <2>2. f[y] = low => g[x] <= g[y]
    BY <1>4, <1>5
  <2> QED
    BY <2>1, <2>2
<1> QED
  BY <1>6

\* Of cells there is a first least one.
LEMMA LeastCell ==
    ASSUME NEW cells, cells \subseteq Nat \X Nat, cells # {}
    PROVE  /\ FirstLeast(cells) \in cells
           /\ \A d \in cells : FirstLeast(cells)[1] <= d[1]
<1> DEFINE scores == {c[1] : c \in cells}
<1>1. scores \subseteq Nat /\ scores # {}
  OBVIOUS
<1>2. PICK low \in scores : \A y \in scores : low <= y
  BY <1>1, Least
<1> DEFINE lowest == {c \in cells : c[1] = low}
           backs == {c[2] : c \in lowest}
<1>3. backs \subseteq Nat /\ backs # {}
  OBVIOUS
<1>4. PICK origin \in backs : \A y \in backs : origin <= y
  BY <1>3, Least
<1>5. PICK c \in lowest : c[2] = origin
  OBVIOUS
<1>6. c \in cells /\ \A d \in cells : c[1] < d[1] \/ (c[1] = d[1] /\ c[2] <= d[2])
  <2>1. ASSUME NEW d \in cells PROVE c[1] < d[1] \/ (c[1] = d[1] /\ c[2] <= d[2])
    <3>1. c[1] = low /\ low <= d[1] /\ c[1] \in Nat /\ d[1] \in Nat
      BY <1>2, <1>5
    <3>2. d[1] = low => d[2] \in backs
      OBVIOUS
    <3>3. d[1] = low => c[2] <= d[2]
      BY <1>4, <1>5, <3>2
    <3> QED
      BY <3>1, <3>3
  <2> QED
    BY <1>5, <2>1
<1> DEFINE First(x) == \A d \in cells : x[1] < d[1] \/ (x[1] = d[1] /\ x[2] <= d[2])
           least == CHOOSE x \in cells : First(x)
<1>7. least \in cells /\ First(least)
  <2>1. \E x \in cells : First(x)
    BY <1>6
  <2> HIDE DEF First
  <2> QED
    BY <2>1, Zenon
<1>8. FirstLeast(cells) = least
  BY Zenon DEF FirstLeast
<1>9. \A d \in cells : least[1] <= d[1]
  <2> SUFFICES ASSUME NEW d \in cells PROVE least[1] <= d[1]
    OBVIOUS
  <2>1. d[1] \in Nat /\ least[1] \in Nat
    BY <1>7
  <2>2. least[1] < d[1] \/ least[1] = d[1]
    BY <1>7
  <2> HIDE DEF least
  <2> QED
    BY <2>1, <2>2
<1> QED
  BY <1>7, <1>8, <1>9

\* One more row of the table.
Rows(ctx) == [1 .. Len(ctx.layers) -> Nat \X Nat]

LEMMA SegScoreNat ==
    ASSUME NEW ctx, NEW fleet, Suits(ctx, fleet), NEW s \in 1 .. Len(fleet),
           NEW a \in 1 .. Len(ctx.layers), NEW b \in 1 .. Len(ctx.layers), s > 1 => a > 1, NEW before \in Nat
    PROVE  SegScore(ctx, fleet, s, a, b, before) \in Nat
<1>1. ExecTime(ctx, fleet, s, a, b) \in Nat /\ fleet[s] \in StageType
  BY TimeNat
<1>2. ctx \in ContextType /\ before <= before
  BY DEF Suits
<1>3. Scored(ctx, fleet[s], ExecTime(ctx, fleet, s, a, b), before) \in Nat
  BY <1>1, <1>2, ScoredGrows
<1> QED
  BY <1>3, PartitionAssumption DEF SegScore

LEMMA CellsNat ==
    ASSUME NEW ctx, NEW fleet, Suits(ctx, fleet), NEW s \in 2 .. Len(fleet), NEW j \in 1 .. Len(ctx.layers),
           NEW row \in Rows(ctx)
    PROVE  Cells(ctx, fleet, s, j, row) \subseteq Nat \X Nat /\ Cells(ctx, fleet, s, j, row) # {}
<1>1. ASSUME NEW i \in Ends(s, j) PROVE SegScore(ctx, fleet, s, i + 1, j, row[i][1]) \in Nat /\ i \in Nat
  <2>1. /\ i \in 1 .. Len(ctx.layers) /\ i + 1 \in 1 .. Len(ctx.layers) /\ i + 1 > 1
        /\ s \in 1 .. Len(fleet) /\ i \in Nat
    BY DEF Ends, Suits
  <2>2. row[i][1] \in Nat
    BY <2>1 DEF Rows
  <2>3. SegScore(ctx, fleet, s, i + 1, j, row[i][1]) \in Nat
    BY <2>1, <2>2, SegScoreNat, Zenon
  <2> QED
    BY <2>1, <2>3
<1>2. <<Unreachable, 0>> \in Nat \X Nat
  BY PartitionAssumption
<1> DEFINE more == {<<SegScore(ctx, fleet, s, i + 1, j, row[i][1]), i>> : i \in Ends(s, j)}
<1>3. more \subseteq Nat \X Nat
  BY <1>1
<1>4. Cells(ctx, fleet, s, j, row) = {<<Unreachable, 0>>} \cup more
  BY Zenon DEF Cells
<1> HIDE DEF more
<1> QED
  BY <1>2, <1>3, <1>4

\* The table of the dynamic program.
Row(ctx, fleet, s, row) ==
    [j \in 1 .. Len(ctx.layers) |->
        IF s = 1 THEN <<SegScore(ctx, fleet, 1, 1, j, 0), 0>>
        ELSE FirstLeast(Cells(ctx, fleet, s, j, row))]

Tabled(ctx, fleet, dp) ==
    /\ dp \in [1 .. Len(fleet) -> Rows(ctx)]
    /\ dp[1] = Row(ctx, fleet, 1, <<>>)
    /\ \A s \in 2 .. Len(fleet) : dp[s] = Row(ctx, fleet, s, dp[s - 1])

LEMMA RowTyped ==
    ASSUME NEW ctx, NEW fleet, Suits(ctx, fleet), NEW s \in 1 .. Len(fleet),
           NEW row, s > 1 => row \in Rows(ctx)
    PROVE  Row(ctx, fleet, s, row) \in Rows(ctx)
<1>1. ASSUME NEW j \in 1 .. Len(ctx.layers), s = 1 PROVE <<SegScore(ctx, fleet, 1, 1, j, 0), 0>> \in Nat \X Nat
  <2>1. 1 \in 1 .. Len(ctx.layers) /\ 1 \in 1 .. Len(fleet) /\ 0 \in Nat /\ ~(1 > 1)
    BY DEF Suits
  <2> QED
    BY <2>1, SegScoreNat
<1>2. ASSUME NEW j \in 1 .. Len(ctx.layers), s # 1 PROVE FirstLeast(Cells(ctx, fleet, s, j, row)) \in Nat \X Nat
  <2>1. s \in 2 .. Len(fleet) /\ row \in Rows(ctx)
    BY <1>2 DEF Suits
  <2>2. Cells(ctx, fleet, s, j, row) \subseteq Nat \X Nat /\ Cells(ctx, fleet, s, j, row) # {}
    BY <2>1, CellsNat
  <2> QED
    BY <2>2, LeastCell
<1> QED
  BY <1>1, <1>2 DEF Row, Rows

LEMMA TableExists ==
    ASSUME NEW ctx, NEW fleet, Suits(ctx, fleet)
    PROVE  Tabled(ctx, fleet, DP(ctx, fleet))
<1> DEFINE K == Len(fleet)
           next(s, row) == Row(ctx, fleet, s, row)
           first == next(1, <<>>)
           step == [p \in Nat \X Rows(ctx) |-> IF p[1] \in 2 .. K THEN next(p[1], p[2]) ELSE first]
           table(dp) == dp = [s \in 1 .. K |->
                                [j \in 1 .. Len(ctx.layers) |->
                                    IF s = 1 THEN <<SegScore(ctx, fleet, 1, 1, j, 0), 0>>
                                    ELSE FirstLeast(Cells(ctx, fleet, s, j, dp[s - 1]))]]
<1>1. K \in Nat /\ K >= 1
  BY DEF Suits
<1>2. first \in Rows(ctx)
  <2>1. 1 \in 1 .. Len(fleet) /\ ~(1 > 1)
    BY <1>1
  <2> QED
    BY <2>1, RowTyped
<1>3. \A s \in 2 .. K, row \in Rows(ctx) : next(s, row) \in Rows(ctx)
  <2> TAKE s \in 2 .. K, row \in Rows(ctx)
  <2>1. s \in 1 .. Len(fleet)
    BY <1>1
  <2> QED
    BY <2>1, RowTyped
<1> HIDE DEF first, next, K
<1>4. step \in [Nat \X Rows(ctx) -> Rows(ctx)]
  BY <1>2, <1>3
<1>5. \A s \in 2 .. K, row \in Rows(ctx) : step[<<s, row>>] = next(s, row)
  BY <1>1
<1> HIDE DEF step
<1>6. PICK g \in [1 .. K -> Rows(ctx)] : Follows(g, K, first, step)
  BY <1>1, <1>2, <1>4, Recursion
<1>7. g[1] = first /\ \A s \in 2 .. K : g[s] = next(s, g[s - 1])
  <2>1. ASSUME NEW s \in 2 .. K PROVE g[s] = next(s, g[s - 1])
    <3>1. s \in 1 .. K /\ s - 1 \in 1 .. K /\ s # 1
      BY <1>1
    <3>2. g[s] = step[<<s, g[s - 1]>>] /\ g[s - 1] \in Rows(ctx)
      BY <1>6, <3>1 DEF Follows
    <3> QED
      BY <1>5, <3>2
  <2>2. 1 \in 1 .. K
    BY <1>1
  <2>3. g[1] = first
    BY <1>6, <2>2 DEF Follows
  <2> QED
    BY <2>1, <2>3
<1>8. table(g)
  <2>1. ASSUME NEW s \in 1 .. K
        PROVE  g[s] = [j \in 1 .. Len(ctx.layers) |->
                                    IF s = 1 THEN <<SegScore(ctx, fleet, 1, 1, j, 0), 0>>
                                    ELSE FirstLeast(Cells(ctx, fleet, s, j, g[s - 1]))]
    <3>1. CASE s = 1
      BY <1>7, <3>1 DEF first, next, Row
    <3>2. CASE s # 1
      <4>1. s \in 2 .. K
        BY <1>1, <3>2
      <4>2. g[s] = Row(ctx, fleet, s, g[s - 1])
        BY <1>7, <4>1 DEF next
      <4> QED
        BY <4>2, Zenon DEF Row
    <3> QED
      BY <3>1, <3>2
  <2>2. g = [s \in 1 .. K |-> g[s]]
    BY <1>6
  <2> QED
    BY <2>1, <2>2, Zenon
<1> DEFINE dp == CHOOSE h : table(h)
<1>9. table(dp)
  <2> HIDE DEF table
  <2> QED
    BY <1>8, Zenon
<1>10. DP(ctx, fleet) = dp
  BY Zenon DEF DP, K
<1> HIDE DEF dp
<1>11. \A s \in 1 .. K : dp[s] = Row(ctx, fleet, s, dp[s - 1])
  BY <1>9, Zenon DEF Row
<1>12. dp[1] = first
  <2>1. 1 \in 1 .. K
    BY <1>1
  <2>2. dp[1] = Row(ctx, fleet, 1, dp[1 - 1])
    BY <1>11, <2>1
  <2> QED
    BY <2>2 DEF first, next, Row
<1>13. dp \in [1 .. K -> Rows(ctx)]
  <2> DEFINE T == {s \in Nat : s \in 1 .. K => dp[s] \in Rows(ctx)}
  <2>1. K >= 1 => 1 \in T
    BY <1>2, <1>12
  <2>2. ASSUME NEW s \in 1 .. K - 1, s \in T PROVE s + 1 \in T
    <3>1. s + 1 \in 2 .. K /\ s \in 1 .. K /\ s + 1 \in 1 .. K /\ (s + 1) - 1 = s /\ s + 1 \in Nat
      BY <1>1
    <3>2. dp[s + 1] = next(s + 1, dp[s]) /\ dp[s] \in Rows(ctx)
      BY <1>11, <2>2, <3>1 DEF next
    <3> QED
      BY <1>3, <3>1, <3>2
  <2>3. 1 .. K \subseteq T
    <3> HIDE DEF T
    <3> QED
      BY <1>1, <2>1, <2>2, InductUpTo
  <2>4. dp = [s \in 1 .. K |-> dp[s]]
    <3>1. \E e : dp = [s \in 1 .. K |->
                                [j \in 1 .. Len(ctx.layers) |->
                                    IF s = 1 THEN <<SegScore(ctx, fleet, 1, 1, j, 0), 0>>
                                    ELSE FirstLeast(Cells(ctx, fleet, s, j, e[s - 1]))]]
      BY <1>9, Zenon
    <3> QED
      BY <3>1
  <2> QED
    BY <2>3, <2>4
<1>14. \A s \in 2 .. K : dp[s] = Row(ctx, fleet, s, dp[s - 1])
  <2>1. \A s \in 2 .. K : s \in 1 .. K
    BY <1>1
  <2> QED
    BY <1>11, <2>1
<1>15. Tabled(ctx, fleet, dp)
  BY <1>12, <1>13, <1>14 DEF Tabled, first, next, K
<1> QED
  BY <1>10, <1>15

\* What the cells of the table hold: a score is at most that of every way to
\* go on from the stage before, and one below Unreachable is that of the way
\* the backpointer names.
Score(dp, s, j) == dp[s][j][1]
Back(dp, s, j) == dp[s][j][2]

LEMMA TableCells ==
    ASSUME NEW ctx, NEW fleet, Suits(ctx, fleet), NEW dp, Tabled(ctx, fleet, dp),
           NEW s \in 1 .. Len(fleet), NEW j \in 1 .. Len(ctx.layers)
    PROVE  /\ Score(dp, s, j) \in Nat
           /\ s = 1 => Score(dp, s, j) = SegScore(ctx, fleet, 1, 1, j, 0)
           /\ s > 1 =>
                /\ Score(dp, s, j) <= Unreachable
                /\ \A i \in Ends(s, j) :
                      Score(dp, s, j) <= SegScore(ctx, fleet, s, i + 1, j, Score(dp, s - 1, i))
                /\ Score(dp, s, j) # Unreachable =>
                     LET i == Back(dp, s, j)
                     IN /\ i \in Ends(s, j)
                        /\ Score(dp, s, j) = SegScore(ctx, fleet, s, i + 1, j, Score(dp, s - 1, i))
<1>1. dp[s] \in Rows(ctx)
  BY DEF Tabled
<1>2. dp[s][j] \in Nat \X Nat
  BY <1>1 DEF Rows
<1>3. CASE s = 1
  <2>1. dp[s][j] = <<SegScore(ctx, fleet, 1, 1, j, 0), 0>>
    BY <1>3 DEF Tabled, Row
  <2> QED
    BY <1>2, <1>3, <2>1 DEF Score
<1>4. CASE s # 1
  <2> DEFINE row == dp[s - 1]
             cells == Cells(ctx, fleet, s, j, row)
  <2>1. s \in 2 .. Len(fleet) /\ s - 1 \in 1 .. Len(fleet) /\ s > 1
    BY <1>4 DEF Suits
  <2>2. row \in Rows(ctx) /\ dp[s] = Row(ctx, fleet, s, row)
    BY <2>1 DEF Tabled
  <2>3. cells \subseteq Nat \X Nat /\ cells # {}
    BY <2>1, <2>2, CellsNat
  <2>4. dp[s][j] = FirstLeast(cells)
    BY <1>4, <2>2 DEF Row
  <2>5. dp[s][j] \in cells /\ \A d \in cells : dp[s][j][1] <= d[1]
    <3> HIDE DEF cells
    <3> QED
      BY <2>3, <2>4, LeastCell
  <2> DEFINE on(i) == SegScore(ctx, fleet, s, i + 1, j, Score(dp, s - 1, i))
  <2>6. cells = {<<Unreachable, 0>>} \cup {<<on(i), i>> : i \in Ends(s, j)}
    BY Zenon DEF Cells, Score
  <2> HIDE DEF cells, row, on
  <2>7. Score(dp, s, j) <= Unreachable
    <3>1. <<Unreachable, 0>> \in cells
      BY <2>6
    <3> QED
      BY <2>5, <3>1 DEF Score
  <2>8. ASSUME NEW i \in Ends(s, j) PROVE Score(dp, s, j) <= on(i)
    <3>1. <<on(i), i>> \in cells
      BY <2>6
    <3> QED
      BY <2>5, <3>1 DEF Score
  <2>9. ASSUME Score(dp, s, j) # Unreachable
        PROVE  Back(dp, s, j) \in Ends(s, j) /\ Score(dp, s, j) = on(Back(dp, s, j))
    <3>1. dp[s][j] # <<Unreachable, 0>>
      BY <2>9 DEF Score
    <3>2. PICK i \in Ends(s, j) : dp[s][j] = <<on(i), i>>
      BY <2>5, <2>6, <3>1
    <3> QED
      BY <3>2 DEF Score, Back
  <2> QED
    BY <1>2, <1>4, <2>7, <2>8, <2>9 DEF Score, on
<1> QED
  BY <1>3, <1>4

\* A score below Unreachable: the stages before have one too, the segment
\* fits its stage, and the score is theirs with the segment's time.
LEMMA Reached ==
    ASSUME NEW ctx, NEW fleet, NEW s, NEW a, NEW b, NEW before, Unreachable \in Nat,
           SegScore(ctx, fleet, s, a, b, before) < Unreachable
    PROVE  /\ before < Unreachable /\ SegmentFeasible(ctx, fleet[s], a, b)
           /\ SegScore(ctx, fleet, s, a, b, before)
              = Scored(ctx, fleet[s], ExecTime(ctx, fleet, s, a, b), before)
BY DEF SegScore

LEMMA LenOfFunction ==
    ASSUME NEW S, NEW m \in Nat, NEW q \in [1 .. m -> S] PROVE q \in Seq(S) /\ Len(q) = m
<1>1. q \in Seq(S)
  BY SeqDef
<1>2. 1 .. Len(q) = 1 .. m /\ Len(q) \in Nat
  BY <1>1, LenProperties
<1> QED
  BY <1>1, <1>2

\* The layers of increasing cuts.
LEMMA CutsInOrder ==
    ASSUME NEW n \in Nat, NEW m \in Nat, NEW cuts \in [1 .. m -> 1 .. n], Increasing(cuts), NEW s \in 1 .. m
    PROVE  s <= cuts[s] /\ cuts[s] + (m - s) <= cuts[m] /\ m \in 1 .. m /\ Len(cuts) = m
<1>1. Len(cuts) = m
  BY LenOfFunction, Zenon
<1>2. \A i \in 1 .. m - 1 : cuts[i] < cuts[i + 1]
  BY <1>1 DEF Increasing
<1>3. s <= cuts[s]
  <2> DEFINE T == {i \in 1 .. m : i <= cuts[i]}
  <2>1. m >= 1 => 1 \in T
    OBVIOUS
  <2>2. ASSUME NEW i \in 1 .. m - 1, i \in T PROVE i + 1 \in T
    <3>1. i \in 1 .. m /\ i + 1 \in 1 .. m /\ i <= cuts[i]
      BY <2>2
    <3>2. cuts[i] < cuts[i + 1]
      BY <1>2
    <3>3. cuts[i] \in Nat /\ cuts[i + 1] \in Nat
      BY <3>1
    <3> QED
      BY <3>1, <3>2, <3>3
  <2>3. 1 .. m \subseteq T
    <3> HIDE DEF T
    <3> QED
      BY <2>1, <2>2, InductUpTo
  <2> QED
    BY <2>3
<1>4. cuts[s] + (m - s) <= cuts[m]
  <2> DEFINE T == {d \in Nat : d <= m - 1 => cuts[m - d] + d <= cuts[m]}
  <2>1. 0 \in T
    OBVIOUS
  <2>2. ASSUME NEW d \in T PROVE d + 1 \in T
    <3> SUFFICES ASSUME d + 1 <= m - 1 PROVE cuts[m - (d + 1)] + (d + 1) <= cuts[m]
      OBVIOUS
    <3>1. m - (d + 1) \in 1 .. m - 1 /\ (m - (d + 1)) + 1 = m - d /\ m - d \in 1 .. m /\ m \in 1 .. m
      OBVIOUS
    <3>2. cuts[m - (d + 1)] < cuts[m - d] /\ cuts[m - d] + d <= cuts[m]
      BY <1>2, <3>1
    <3>3. cuts[m - (d + 1)] \in Nat /\ cuts[m - d] \in Nat /\ cuts[m] \in Nat
      BY <3>1
    <3> QED
      BY <3>2, <3>3
  <2>3. T = Nat
    <3> HIDE DEF T
    <3>1. T \subseteq Nat
      BY DEF T
    <3> QED
      BY <2>1, <2>2, <3>1, Induct
  <2>4. m - s \in Nat /\ m - s <= m - 1 /\ m - (m - s) = s
    OBVIOUS
  <2>5. m - s \in T
    BY <2>3, <2>4
  <2> QED
    BY <2>4, <2>5
<1> QED
  BY <1>1, <1>3, <1>4

LEMMA CutsSpan ==
    ASSUME NEW ctx, NEW fleet, Suits(ctx, fleet),
           NEW cuts \in [1 .. Len(fleet) - 1 -> 1 .. Len(ctx.layers) - 1], Increasing(cuts)
    PROVE  /\ Spanning(ctx, fleet, cuts)
           /\ \A s \in 1 .. Len(fleet) : LastLayer(ctx, cuts, s) >= s
           /\ \A s \in 2 .. Len(fleet) :
                 LastLayer(ctx, cuts, s - 1) = cuts[s - 1] /\ FirstLayer(cuts, s) = cuts[s - 1] + 1
                 /\ LastLayer(ctx, cuts, s - 1) < LastLayer(ctx, cuts, s)
<1> DEFINE K == Len(fleet)
           n == Len(ctx.layers)
<1>1. K \in Nat /\ n \in Nat /\ K >= 1 /\ K <= n
  BY DEF Suits, ContextType
<1>2. cuts \in [1 .. K - 1 -> 1 .. n - 1] /\ Increasing(cuts)
  OBVIOUS
<1> HIDE DEF K, n
<1>3. cuts \in [1 .. K - 1 -> 1 .. n] /\ K - 1 \in Nat
  BY <1>1, <1>2
<1>4. \A s \in 1 .. K - 1 : s <= cuts[s]
  BY <1>1, <1>2, <1>3, CutsInOrder
<1>5. Len(cuts) = K - 1
  BY <1>3, LenOfFunction
<1>6. \A s \in 1 .. K - 1 : LastLayer(ctx, cuts, s) = cuts[s] /\ cuts[s] \in 1 .. n - 1
  BY <1>1, <1>2, <1>5 DEF LastLayer
<1>7. LastLayer(ctx, cuts, K) = n
  BY <1>1, <1>5 DEF LastLayer, n
<1>8. \A s \in 2 .. K : FirstLayer(cuts, s) = cuts[s - 1] + 1 /\ s - 1 \in 1 .. K - 1
  BY <1>1 DEF FirstLayer
<1>9. FirstLayer(cuts, 1) = 1
  BY DEF FirstLayer
<1>10. ASSUME NEW s \in 1 .. K
       PROVE  /\ LastLayer(ctx, cuts, s) >= s /\ LastLayer(ctx, cuts, s) \in 1 .. n
              /\ FirstLayer(cuts, s) \in 1 .. n /\ (s > 1 => FirstLayer(cuts, s) > 1)
  <2>1. LastLayer(ctx, cuts, s) >= s /\ LastLayer(ctx, cuts, s) \in 1 .. n
    <3>1. CASE s = K
      BY <1>1, <1>7, <3>1
    <3>2. CASE s # K
      <4>1. s \in 1 .. K - 1
        BY <1>1, <3>2
      <4> QED
        BY <1>1, <1>4, <1>6, <4>1
    <3> QED
      BY <3>1, <3>2
  <2>2. FirstLayer(cuts, s) \in 1 .. n /\ (s > 1 => FirstLayer(cuts, s) > 1)
    <3>1. CASE s = 1
      BY <1>1, <1>9, <3>1
    <3>2. CASE s # 1
      <4>1. s \in 2 .. K
        BY <1>1, <3>2
      <4>2. FirstLayer(cuts, s) = cuts[s - 1] + 1 /\ cuts[s - 1] \in 1 .. n - 1
        BY <1>6, <1>8, <4>1
      <4> QED
        BY <1>1, <4>2
    <3> QED
      BY <3>1, <3>2
  <2> QED
    BY <2>1, <2>2
<1>11. ASSUME NEW s \in 2 .. K
       PROVE  /\ LastLayer(ctx, cuts, s - 1) = cuts[s - 1] /\ FirstLayer(cuts, s) = cuts[s - 1] + 1
              /\ LastLayer(ctx, cuts, s - 1) < LastLayer(ctx, cuts, s)
  <2>1. LastLayer(ctx, cuts, s - 1) = cuts[s - 1] /\ FirstLayer(cuts, s) = cuts[s - 1] + 1
        /\ cuts[s - 1] \in 1 .. n - 1
    BY <1>6, <1>8
  <2>2. LastLayer(ctx, cuts, s - 1) < LastLayer(ctx, cuts, s)
    <3>1. CASE s = K
      BY <1>1, <1>7, <2>1, <3>1
    <3>2. CASE s # K
      <4>1. s \in 1 .. K - 1 /\ s - 1 \in 1 .. Len(cuts) - 1 /\ (s - 1) + 1 = s
        BY <1>1, <1>5, <3>2
      <4>2. cuts[s - 1] < cuts[s]
        BY <1>2, <4>1 DEF Increasing
      <4> QED
        BY <1>6, <2>1, <4>1, <4>2
    <3> QED
      BY <3>1, <3>2
  <2> QED
    BY <2>1, <2>2
<1> QED
  BY <1>5, <1>10, <1>11 DEF Spanning, K, n

LEMMA FeasibleSpans ==
    ASSUME NEW ctx, NEW fleet, Suits(ctx, fleet), Len(fleet) >= 2, NEW cuts \in Feasible(ctx, fleet)
    PROVE  /\ Spanning(ctx, fleet, cuts)
           /\ \A s \in 1 .. Len(fleet) : LastLayer(ctx, cuts, s) >= s
           /\ \A s \in 2 .. Len(fleet) :
                 LastLayer(ctx, cuts, s - 1) = cuts[s - 1] /\ FirstLayer(cuts, s) = cuts[s - 1] + 1
                 /\ LastLayer(ctx, cuts, s - 1) < LastLayer(ctx, cuts, s)
<1>1. cuts \in [1 .. Len(fleet) - 1 -> 1 .. Len(ctx.layers) - 1] /\ Increasing(cuts)
  BY DEF Feasible
<1> QED
  BY <1>1, CutsSpan

\* No feasible cuts have a score below the table's.
LEMMA TableIsBound ==
    ASSUME NEW ctx, NEW fleet, Suits(ctx, fleet), Len(fleet) >= 2, NEW dp, Tabled(ctx, fleet, dp),
           NEW cuts \in Feasible(ctx, fleet), ScoreOfCuts(ctx, fleet, cuts) < Unreachable
    PROVE  Score(dp, Len(fleet), Len(ctx.layers)) <= ScoreOfCuts(ctx, fleet, cuts)
<1> DEFINE K == Len(fleet)
           n == Len(ctx.layers)
           last(s) == LastLayer(ctx, cuts, s)
<1>1. K \in Nat /\ n \in Nat /\ K >= 2 /\ K <= n /\ ctx \in ContextType /\ Unreachable \in Nat
  BY SuitsNat
<1>2. Spanning(ctx, fleet, cuts)
  BY FeasibleSpans
<1>3. PICK f : Scores(ctx, fleet, cuts, f) /\ ScoreOfCuts(ctx, fleet, cuts) = f[K]
  BY <1>2, ScoresExist
<1>4. \A s \in 0 .. K : f[s] \in Nat /\ f[s] <= f[K] /\ f[K] \in Nat
  BY <1>2, <1>3, ScoresGrow
<1>5. \A s \in 0 .. K : f[s] < Unreachable
  BY <1>1, <1>3, <1>4
<1>6. \A s \in 1 .. K : /\ last(s) \in 1 .. n /\ last(s) >= s
                        /\ FirstLayer(cuts, s) \in 1 .. n
                        /\ SegmentFeasible(ctx, fleet[s], FirstLayer(cuts, s), last(s))
  <2>1. \A s \in 1 .. K : last(s) >= s
    BY FeasibleSpans
  <2> QED
    BY <1>2, <2>1 DEF Spanning, Feasible, Buildable
<1>7. \A s \in 2 .. K : FirstLayer(cuts, s) = last(s - 1) + 1 /\ last(s - 1) < last(s)
  <2> TAKE s \in 2 .. K
  <2>1. LastLayer(ctx, cuts, s - 1) = cuts[s - 1] /\ FirstLayer(cuts, s) = cuts[s - 1] + 1
        /\ LastLayer(ctx, cuts, s - 1) < LastLayer(ctx, cuts, s)
    BY FeasibleSpans
  <2> QED
    BY <2>1
<1>8. last(K) = n
  <2>1. Len(cuts) = K - 1
    BY <1>2 DEF Spanning
  <2> QED
    BY <1>1, <2>1 DEF LastLayer
<1>9. \A s \in 1 .. K : f[s] = Scored(ctx, fleet[s], ExecTime(ctx, fleet, s, FirstLayer(cuts, s), last(s)), f[s - 1])
  BY <1>3 DEF Scores, SpanTime
<1> HIDE DEF last, K, n
<1> DEFINE T == {s \in 1 .. K : Score(dp, s, last(s)) <= f[s]}
<1>10. K >= 1 => 1 \in T
  <2>1. 1 \in 1 .. K /\ 0 \in 0 .. K /\ 1 \in 0 .. K /\ 1 - 1 = 0
    BY <1>1
  <2>2. f[0] = 0 /\ f[1] \in Nat /\ f[0] < Unreachable
    BY <1>3, <1>4, <1>5, <2>1 DEF Scores
  <2>3. FirstLayer(cuts, 1) = 1
    BY DEF FirstLayer
  <2>4. SegScore(ctx, fleet, 1, 1, last(1), 0) = f[1]
    BY <1>6, <1>9, <2>1, <2>2, <2>3 DEF SegScore
  <2>5. Score(dp, 1, last(1)) = SegScore(ctx, fleet, 1, 1, last(1), 0)
    BY <1>6, <2>1, TableCells DEF K, n
  <2> QED
    BY <2>1, <2>2, <2>4, <2>5
<1>11. ASSUME NEW s \in 1 .. K - 1, s \in T PROVE s + 1 \in T
  <2>1. /\ s \in 1 .. K /\ s + 1 \in 1 .. K /\ s + 1 \in 2 .. K /\ (s + 1) - 1 = s /\ s + 1 > 1
        /\ s \in 0 .. K /\ s + 1 \in 0 .. K
    BY <1>1
  <2>2. FirstLayer(cuts, s + 1) = last(s) + 1 /\ last(s) < last(s + 1)
        /\ last(s) \in 1 .. n /\ last(s + 1) \in 1 .. n /\ last(s) >= s
    BY <1>6, <1>7, <2>1
  <2> DEFINE i == last(s)
             d == Score(dp, s, i)
             time == ExecTime(ctx, fleet, s + 1, i + 1, last(s + 1))
  <2>3. d \in Nat /\ d <= f[s] /\ f[s] \in Nat /\ f[s] < Unreachable
    <3>1. d \in Nat
      BY <2>1, <2>2, TableCells DEF K, n
    <3>2. d <= f[s]
      BY <1>11
    <3> QED
      BY <1>4, <1>5, <2>1, <3>1, <3>2
  <2>4. time \in Nat /\ fleet[s + 1] \in StageType
    <3>1. i + 1 \in 1 .. n /\ i + 1 > 1 /\ last(s + 1) \in 1 .. n
      BY <1>6, <2>1, <2>2
    <3> HIDE DEF i
    <3> QED
      BY <2>1, <3>1, TimeNat DEF K, n
  <2>5. i \in Ends(s + 1, last(s + 1))
    BY <2>1, <2>2 DEF Ends
  <2>6. Score(dp, s + 1, last(s + 1)) <= SegScore(ctx, fleet, s + 1, i + 1, last(s + 1), d)
    <3> HIDE DEF i
    <3>1. Score(dp, s + 1, last(s + 1)) <= SegScore(ctx, fleet, s + 1, i + 1, last(s + 1), Score(dp, (s + 1) - 1, i))
      BY <2>1, <2>2, <2>5, TableCells DEF K, n
    <3> QED
      BY <2>1, <3>1
  <2>7. SegmentFeasible(ctx, fleet[s + 1], i + 1, last(s + 1))
    BY <1>6, <2>1, <2>2
  <2> HIDE DEF i, d, T
  <2>8. SegScore(ctx, fleet, s + 1, i + 1, last(s + 1), d) = Scored(ctx, fleet[s + 1], time, d)
    BY <1>1, <2>3, <2>7 DEF SegScore
  <2>9. f[s + 1] = Scored(ctx, fleet[s + 1], time, f[s])
    BY <1>9, <2>1, <2>2 DEF i
  <2> HIDE DEF time
  <2>10. Scored(ctx, fleet[s + 1], time, d) <= Scored(ctx, fleet[s + 1], time, f[s])
         /\ Scored(ctx, fleet[s + 1], time, d) \in Nat
    BY <1>1, <2>3, <2>4, ScoredGrows
  <2>11. Score(dp, s + 1, last(s + 1)) \in Nat /\ f[s + 1] \in Nat
    BY <1>4, <2>1, <2>2, TableCells DEF K, n
  <2>12. Score(dp, s + 1, last(s + 1)) <= f[s + 1]
    BY <2>6, <2>8, <2>9, <2>10, <2>11
  <2> QED
    BY <2>1, <2>12 DEF T
<1>12. K \in T
  <2>1. 1 .. K \subseteq T
    <3> HIDE DEF T
    <3> QED
      BY <1>1, <1>10, <1>11, InductUpTo
  <2> QED
    BY <1>1, <2>1
<1> QED
  BY <1>3, <1>8, <1>12 DEF K, n

\* The backpointers of a reachable table lead through reachable cells.
Traced(ctx, fleet, dp, end) ==
    /\ end \in [1 .. Len(fleet) -> 1 .. Len(ctx.layers)] /\ end[Len(fleet)] = Len(ctx.layers)
    /\ \A s \in 1 .. Len(fleet) : Score(dp, s, end[s]) < Unreachable
    /\ \A s \in 2 .. Len(fleet) : end[s - 1] = Back(dp, s, end[s])

LEMMA BackIsReached ==
    ASSUME NEW ctx, NEW fleet, Suits(ctx, fleet), NEW dp, Tabled(ctx, fleet, dp),
           NEW s \in 2 .. Len(fleet), NEW j \in 1 .. Len(ctx.layers), Score(dp, s, j) < Unreachable
    PROVE  LET i == Back(dp, s, j)
           IN /\ i \in 1 .. Len(ctx.layers) /\ i < j
              /\ Score(dp, s - 1, i) < Unreachable
              /\ SegmentFeasible(ctx, fleet[s], i + 1, j)
              /\ Score(dp, s, j) = Scored(ctx, fleet[s], ExecTime(ctx, fleet, s, i + 1, j), Score(dp, s - 1, i))
<1> DEFINE i == Back(dp, s, j)
<1>1. s \in 1 .. Len(fleet) /\ s > 1 /\ Unreachable \in Nat
  BY PartitionAssumption DEF Suits
<1>2. Score(dp, s, j) \in Nat /\ (Score(dp, s, j) # Unreachable =>
                 /\ i \in Ends(s, j)
                 /\ Score(dp, s, j) = SegScore(ctx, fleet, s, i + 1, j, Score(dp, s - 1, i)))
  BY <1>1, TableCells
<1> HIDE DEF i
<1>3. i \in Ends(s, j) /\ Score(dp, s, j) = SegScore(ctx, fleet, s, i + 1, j, Score(dp, s - 1, i))
  BY <1>1, <1>2
<1>4. i \in 1 .. Len(ctx.layers) /\ i < j
  BY <1>1, <1>3 DEF Ends
<1>5. /\ Score(dp, s - 1, i) < Unreachable /\ SegmentFeasible(ctx, fleet[s], i + 1, j)
      /\ SegScore(ctx, fleet, s, i + 1, j, Score(dp, s - 1, i))
         = Scored(ctx, fleet[s], ExecTime(ctx, fleet, s, i + 1, j), Score(dp, s - 1, i))
  BY <1>1, <1>3, Reached
<1> QED
  BY <1>3, <1>4, <1>5 DEF i

LEMMA BacktrackingTraces ==
    ASSUME NEW ctx, NEW fleet, Suits(ctx, fleet), NEW dp, Tabled(ctx, fleet, dp),
           Score(dp, Len(fleet), Len(ctx.layers)) < Unreachable
    PROVE  \E end : /\ Traced(ctx, fleet, dp, end)
                    /\ Backtracked(dp, Len(ctx.layers), Len(fleet)) = [s \in 1 .. Len(fleet) - 1 |-> end[s]]
<1> DEFINE K == Len(fleet)
           n == Len(ctx.layers)
           V == 1 .. n
           step == [p \in Nat \X V |-> IF p[1] \in 1 .. K - 1 /\ Back(dp, K - p[1] + 1, p[2]) \in V
                                       THEN Back(dp, K - p[1] + 1, p[2]) ELSE n]
           table(e) == e = [s \in 1 .. K |-> IF s = K THEN n ELSE dp[s + 1][e[s + 1]][2]]
           reached(s, j) == j \in V /\ Score(dp, s, j) < Unreachable
<1>1. K \in Nat /\ n \in Nat /\ K >= 1 /\ K <= n
  BY DEF Suits, ContextType
<1>2. \A s \in 2 .. K, j \in V : reached(s, j) => reached(s - 1, Back(dp, s, j))
  <2> TAKE s \in 2 .. K, j \in V
  <2> HAVE reached(s, j)
  <2> QED
    BY BackIsReached
<1>3. reached(K, n)
  BY <1>1
<1> HIDE DEF K, n, reached
<1>4. step \in [Nat \X V -> V]
  BY <1>1
<1>5. \A d \in 1 .. K - 1, j \in V : Back(dp, K - d + 1, j) \in V => step[<<d, j>>] = Back(dp, K - d + 1, j)
  BY <1>1
<1> HIDE DEF step
<1>6. PICK g \in [0 .. K - 1 -> V] : FollowsFromZero(g, K - 1, n, step)
  <2>1. K - 1 \in Nat /\ n \in V
    BY <1>1
  <2> QED
    BY <1>4, <2>1, RecursionFromZero
<1> DEFINE T == {d \in Nat : d <= K - 1 => /\ reached(K - d, g[d])
                                           /\ d > 0 => g[d] = Back(dp, K - d + 1, g[d - 1])}
<1>7. 0 \in T
  <2>1. g[0] = n /\ K - 0 = K
    BY <1>1, <1>6 DEF FollowsFromZero
  <2> QED
    BY <1>3, <2>1
<1>8. ASSUME NEW d \in T PROVE d + 1 \in T
  <2> SUFFICES ASSUME d + 1 <= K - 1
               PROVE  /\ reached(K - (d + 1), g[d + 1])
                      /\ g[d + 1] = Back(dp, K - (d + 1) + 1, g[(d + 1) - 1])
    OBVIOUS
  <2>1. /\ d \in Nat /\ K - d \in 2 .. K /\ (K - d) - 1 = K - (d + 1) /\ K - (d + 1) + 1 = K - d
        /\ (d + 1) - 1 = d /\ d + 1 \in 1 .. K - 1 /\ d \in 0 .. K - 1
    BY <1>1
  <2>2. reached(K - d, g[d])
    BY <1>1, <2>1
  <2> HIDE DEF T
  <2>3. g[d] \in V
    BY <1>6, <2>1
  <2>4. reached(K - (d + 1), Back(dp, K - d, g[d]))
    BY <1>2, <2>1, <2>2, <2>3
  <2>5. Back(dp, K - d, g[d]) \in V
    BY <2>4 DEF reached
  <2>6. g[d + 1] = step[<<d + 1, g[d]>>]
    BY <1>6, <2>1 DEF FollowsFromZero
  <2>7. g[d + 1] = Back(dp, K - d, g[d])
    BY <1>5, <2>1, <2>3, <2>5, <2>6
  <2> QED
    BY <2>1, <2>4, <2>7
<1>9. T = Nat
  <2> HIDE DEF T
  <2>1. T \subseteq Nat
    BY DEF T
  <2> QED
    BY <1>7, <1>8, <2>1, Induct
<1> DEFINE first == [s \in 1 .. K |-> g[K - s]]
<1>10. \A s \in 1 .. K : K - s \in T /\ K - s <= K - 1 /\ K - (K - s) = s /\ K - s \in 0 .. K - 1 /\ K - s \in Nat
  <2> HIDE DEF T
  <2> QED
    BY <1>1, <1>9
<1>11. \A s \in 1 .. K : first[s] = g[K - s] /\ first[s] \in V /\ reached(s, first[s])
  <2> TAKE s \in 1 .. K
  <2>1. first[s] = g[K - s] /\ g[K - s] \in V
    BY <1>6, <1>10
  <2>2. reached(K - (K - s), g[K - s])
    BY <1>10
  <2> QED
    BY <1>10, <2>1, <2>2
<1>12. first[K] = n
  <2>1. K \in 1 .. K /\ K - K = 0
    BY <1>1
  <2>2. g[0] = n
    BY <1>6 DEF FollowsFromZero
  <2> QED
    BY <1>11, <2>1, <2>2
<1>13. \A s \in 1 .. K - 1 : first[s] = Back(dp, s + 1, first[s + 1])
  <2> TAKE s \in 1 .. K - 1
  <2>1. s \in 1 .. K /\ s + 1 \in 1 .. K /\ K - s > 0 /\ K - (K - s) + 1 = s + 1 /\ (K - s) - 1 = K - (s + 1)
    BY <1>1
  <2>2. g[K - s] = Back(dp, K - (K - s) + 1, g[(K - s) - 1])
    BY <1>10, <2>1
  <2> HIDE DEF first, T
  <2> QED
    BY <1>11, <2>1, <2>2
<1>14. table(first)
  <2>1. ASSUME NEW s \in 1 .. K PROVE first[s] = IF s = K THEN n ELSE dp[s + 1][first[s + 1]][2]
    <3>1. s # K => s \in 1 .. K - 1
      BY <1>1
    <3> HIDE DEF first
    <3> QED
      BY <1>12, <1>13, <3>1 DEF Back
  <2>2. first = [s \in 1 .. K |-> first[s]]
    OBVIOUS
  <2> HIDE DEF first
  <2> QED
    BY <2>1, <2>2
<1> HIDE DEF first, T
<1> DEFINE end == CHOOSE e : table(e)
<1>15. table(end)
  <2> HIDE DEF table
  <2> QED
    BY <1>14, Zenon
<1>16. Backtracked(dp, n, K) = [s \in 1 .. K - 1 |-> end[s]]
  BY Zenon DEF Backtracked
<1> HIDE DEF end
\* The equations have one solution.
<1>17. \A s \in 1 .. K : end[s] = first[s]
  <2> DEFINE U == {d \in Nat : d <= K - 1 => end[K - d] = first[K - d]}
  <2>1. K \in 1 .. K /\ end[K] = n
    <3>1. K \in 1 .. K
      BY <1>1
    <3> QED
      BY <1>15, <3>1
  <2>2. 0 \in U
    <3>1. K - 0 = K
      BY <1>1
    <3> QED
      BY <1>12, <2>1, <3>1
  <2>3. ASSUME NEW d \in U PROVE d + 1 \in U
    <3> SUFFICES ASSUME d + 1 <= K - 1 PROVE end[K - (d + 1)] = first[K - (d + 1)]
      OBVIOUS
    <3> DEFINE s == K - (d + 1)
    <3>1. d \in Nat /\ s \in 1 .. K - 1 /\ s \in 1 .. K /\ s + 1 = K - d /\ s # K /\ d <= K - 1
      BY <1>1
    <3>2. end[s + 1] = first[s + 1]
      BY <3>1
    <3> HIDE DEF s, U
    <3>3. end[s] = dp[s + 1][end[s + 1]][2]
      BY <1>15, <3>1
    <3>4. end[s] = first[s]
      BY <1>13, <3>1, <3>2, <3>3 DEF Back
    <3> QED
      BY <3>4 DEF s
  <2>4. U = Nat
    <3> HIDE DEF U
    <3>1. U \subseteq Nat
      BY DEF U
    <3> QED
      BY <2>2, <2>3, <3>1, Induct
  <2> TAKE s \in 1 .. K
  <2>5. end[K - (K - s)] = first[K - (K - s)]
    BY <1>10, <2>4
  <2> QED
    BY <1>10, <2>5
<1>18. Traced(ctx, fleet, dp, end)
  <2>1. \A s \in 1 .. K : end[s] \in V /\ Score(dp, s, end[s]) < Unreachable
    BY <1>11, <1>17 DEF reached
  <2>2. end = [s \in 1 .. K |-> end[s]]
    <3>1. \E e : end = [s \in 1 .. K |-> IF s = K THEN n ELSE dp[s + 1][e[s + 1]][2]]
      BY <1>15, Zenon
    <3> QED
      BY <3>1
  <2>3. end \in [1 .. K -> V]
    BY <2>1, <2>2
  <2>4. end[K] = n
    <3>1. K \in 1 .. K
      BY <1>1
    <3> QED
      BY <1>12, <1>17, <3>1
  <2>5. ASSUME NEW s \in 2 .. K PROVE end[s - 1] = Back(dp, s, end[s])
    <3>1. s - 1 \in 1 .. K - 1 /\ (s - 1) + 1 = s /\ s \in 1 .. K /\ s - 1 \in 1 .. K
      BY <1>1
    <3>2. first[s - 1] = Back(dp, (s - 1) + 1, first[(s - 1) + 1])
      BY <1>13, <3>1
    <3> QED
      BY <1>17, <3>1, <3>2
  <2> QED
    BY <2>1, <2>3, <2>4, <2>5 DEF Traced, K, n
<1> QED
  BY <1>16, <1>18 DEF K, n

\* The traced cuts are feasible and have the table's score.
LEMMA TracedIsBuilt ==
    ASSUME NEW ctx, NEW fleet, Suits(ctx, fleet), Len(fleet) >= 2, NEW dp, Tabled(ctx, fleet, dp),
           NEW end, Traced(ctx, fleet, dp, end),
           NEW cuts, cuts = [s \in 1 .. Len(fleet) - 1 |-> end[s]]
    PROVE  /\ cuts \in Feasible(ctx, fleet)
           /\ ScoreOfCuts(ctx, fleet, cuts) = Score(dp, Len(fleet), Len(ctx.layers))
<1> DEFINE K == Len(fleet)
           n == Len(ctx.layers)
<1>1. K \in Nat /\ n \in Nat /\ K >= 2 /\ K <= n /\ ctx \in ContextType /\ Unreachable \in Nat
  <2> HIDE DEF K, n
  <2> QED
    BY SuitsNat DEF K, n
<1>2. /\ end \in [1 .. K -> 1 .. n] /\ end[K] = n
      /\ \A s \in 1 .. K : Score(dp, s, end[s]) < Unreachable
  BY DEF Traced
<1>3. \A s \in 2 .. K :
        /\ end[s - 1] \in 1 .. n /\ end[s - 1] < end[s]
        /\ SegmentFeasible(ctx, fleet[s], end[s - 1] + 1, end[s])
        /\ Score(dp, s, end[s])
           = Scored(ctx, fleet[s], ExecTime(ctx, fleet, s, end[s - 1] + 1, end[s]), Score(dp, s - 1, end[s - 1]))
  <2> TAKE s \in 2 .. K
  <2>1. s \in 1 .. K /\ end[s] \in 1 .. n /\ Score(dp, s, end[s]) < Unreachable
    BY <1>1, <1>2
  <2>2. end[s - 1] = Back(dp, s, end[s])
    BY DEF Traced
  <2> QED
    BY <2>1, <2>2, BackIsReached
<1>4. /\ SegmentFeasible(ctx, fleet[1], 1, end[1])
      /\ Score(dp, 1, end[1]) = Scored(ctx, fleet[1], ExecTime(ctx, fleet, 1, 1, end[1]), 0)
  <2>1. 1 \in 1 .. K /\ end[1] \in 1 .. n
    BY <1>1, <1>2
  <2>2. Score(dp, 1, end[1]) = SegScore(ctx, fleet, 1, 1, end[1], 0)
    BY <2>1, TableCells
  <2>3. SegScore(ctx, fleet, 1, 1, end[1], 0) < Unreachable
    BY <1>2, <2>1, <2>2
  <2> QED
    BY <1>1, <2>2, <2>3, Reached
<1> HIDE DEF K, n
<1>5. cuts \in [1 .. K - 1 -> 1 .. n - 1] /\ Len(cuts) = K - 1 /\ \A s \in 1 .. K - 1 : cuts[s] = end[s]
  <2>1. ASSUME NEW s \in 1 .. K - 1 PROVE cuts[s] = end[s] /\ cuts[s] \in 1 .. n - 1
    <3>1. s + 1 \in 2 .. K /\ (s + 1) - 1 = s /\ s \in 1 .. K /\ s + 1 \in 1 .. K
      BY <1>1
    <3>2. end[s] < end[s + 1] /\ end[s] \in 1 .. n /\ end[s + 1] \in 1 .. n
      BY <1>2, <1>3, <3>1
    <3> QED
      BY <1>1, <3>2 DEF K
  <2>2. cuts \in [1 .. K - 1 -> 1 .. n - 1]
    BY <2>1 DEF K
  <2>3. K - 1 \in Nat
    BY <1>1
  <2>4. Len(cuts) = K - 1
    <3>1. \A S, m, q : m \in Nat /\ q \in [1 .. m -> S] => Len(q) = m
      BY LenOfFunction, Zenon
    <3> QED
      BY ONLY <2>2, <2>3, <3>1, Zenon
  <2> QED
    BY <2>1, <2>2, <2>4
<1>6. Increasing(cuts)
  <2> SUFFICES ASSUME NEW s \in 1 .. Len(cuts) - 1 PROVE cuts[s] < cuts[s + 1]
    BY DEF Increasing
  <2>1. s \in 1 .. K - 1 /\ s + 1 \in 1 .. K - 1 /\ s + 1 \in 2 .. K /\ (s + 1) - 1 = s
    BY <1>1, <1>5
  <2>2. end[s] < end[s + 1]
    BY <1>3, <2>1
  <2> QED
    BY <1>5, <2>1, <2>2
<1>7. \A s \in 1 .. K : LastLayer(ctx, cuts, s) = end[s]
  <2> TAKE s \in 1 .. K
  <2>1. s # K => s \in 1 .. K - 1
    BY <1>1
  <2> QED
    BY <1>1, <1>2, <1>5, <2>1 DEF LastLayer, n
<1>8. FirstLayer(cuts, 1) = 1 /\ \A s \in 2 .. K : FirstLayer(cuts, s) = end[s - 1] + 1
  <2>1. ASSUME NEW s \in 2 .. K PROVE FirstLayer(cuts, s) = end[s - 1] + 1
    <3>1. s - 1 \in 1 .. K - 1 /\ s # 1
      BY <1>1
    <3> QED
      BY <1>5, <3>1 DEF FirstLayer
  <2> QED
    BY <2>1 DEF FirstLayer
<1>9. Buildable(ctx, fleet, cuts)
  <2> SUFFICES ASSUME NEW s \in 1 .. K
               PROVE  /\ FirstLayer(cuts, s) <= LastLayer(ctx, cuts, s)
                      /\ SegmentFeasible(ctx, fleet[s], FirstLayer(cuts, s), LastLayer(ctx, cuts, s))
    BY DEF Buildable, K
  <2>1. end[s] \in 1 .. n
    BY <1>2
  <2>2. CASE s = 1
    BY <1>4, <1>7, <1>8, <2>1, <2>2
  <2>3. CASE s # 1
    <3>1. s \in 2 .. K
      BY <1>1, <2>3
    <3>2. end[s - 1] \in 1 .. n /\ end[s - 1] < end[s]
          /\ SegmentFeasible(ctx, fleet[s], end[s - 1] + 1, end[s])
      BY <1>3, <3>1
    <3>3. FirstLayer(cuts, s) = end[s - 1] + 1 /\ LastLayer(ctx, cuts, s) = end[s]
      BY <1>7, <1>8, <3>1
    <3>4. end[s - 1] + 1 <= end[s]
      BY <2>1, <3>2
    <3> QED
      BY <3>2, <3>3, <3>4
  <2> QED
    BY <2>2, <2>3
<1>10. cuts \in Feasible(ctx, fleet)
  BY <1>5, <1>6, <1>9 DEF Feasible, K, n
<1>11. Spanning(ctx, fleet, cuts)
  BY <1>1, <1>10, FeasibleSpans DEF K
<1>12. PICK f : Scores(ctx, fleet, cuts, f) /\ ScoreOfCuts(ctx, fleet, cuts) = f[K]
  BY <1>11, ScoresExist DEF K
<1>13. f[0] = 0 /\ \A s \in 1 .. K : f[s] = Scored(ctx, fleet[s], SpanTime(ctx, fleet, cuts, s), f[s - 1])
  BY <1>12 DEF Scores, K
<1> DEFINE T == {s \in 1 .. K : f[s] = Score(dp, s, end[s])}
<1>14. K >= 1 => 1 \in T
  <2>1. 1 \in 1 .. K /\ 1 - 1 = 0
    BY <1>1
  <2>2. SpanTime(ctx, fleet, cuts, 1) = ExecTime(ctx, fleet, 1, 1, end[1])
    BY <1>7, <1>8, <2>1 DEF SpanTime
  <2>3. f[1] = Scored(ctx, fleet[1], SpanTime(ctx, fleet, cuts, 1), f[1 - 1])
    BY <1>13, <2>1
  <2> QED
    BY <1>4, <1>13, <2>1, <2>2, <2>3
<1>15. ASSUME NEW s \in 1 .. K - 1, s \in T PROVE s + 1 \in T
  <2>1. s + 1 \in 1 .. K /\ s + 1 \in 2 .. K /\ (s + 1) - 1 = s
    BY <1>1
  <2>2. SpanTime(ctx, fleet, cuts, s + 1) = ExecTime(ctx, fleet, s + 1, end[s] + 1, end[s + 1])
    BY <1>7, <1>8, <2>1 DEF SpanTime
  <2>3. f[s + 1] = Scored(ctx, fleet[s + 1], SpanTime(ctx, fleet, cuts, s + 1), f[s])
    BY <1>13, <2>1
  <2>4. Score(dp, s + 1, end[s + 1])
        = Scored(ctx, fleet[s + 1], ExecTime(ctx, fleet, s + 1, end[s] + 1, end[s + 1]), Score(dp, s, end[s]))
    BY <1>3, <2>1
  <2>5. f[s] = Score(dp, s, end[s])
    BY <1>15
  <2> QED
    BY <2>1, <2>2, <2>3, <2>4, <2>5
<1>16. K \in T
  <2>1. 1 .. K \subseteq T
    <3> HIDE DEF T
    <3> QED
      BY <1>1, <1>14, <1>15, InductUpTo
  <2> QED
    BY <1>1, <2>1
<1> QED
  BY <1>2, <1>10, <1>12, <1>16 DEF K, n

\* What the jobs and the telemetry may ask of the partitioners.
LEMMA AskedSuits ==
    ASSUME NEW ctx \in Contexts, NEW fleet \in StageLists, Len(fleet) <= Len(ctx.layers)
    PROVE  Suits(ctx, fleet) /\ Len(fleet) >= 2 /\ Unreachable \in Nat /\ MaxScore \in Nat /\ MaxScore < Unreachable
<1>1. fleet \in Seq(StageType) /\ ctx \in ContextType /\ Len(fleet) >= 2 /\ Len(Links) >= Len(fleet) - 1
  BY PartitionerAssumption DEF StageType
<1> QED
  BY <1>1, PartitionAssumption, PartitionerAssumption, RepartitioningAssumption DEF Suits

LEMMA BoundedScore ==
    ASSUME NEW ctx \in Contexts, NEW fleet \in StageLists, Len(fleet) <= Len(ctx.layers),
           NEW cuts \in Feasible(ctx, fleet)
    PROVE  ScoreOfCuts(ctx, fleet, cuts) \in 0 .. MaxScore
<1>1. Suits(ctx, fleet) /\ Len(fleet) >= 2 /\ MaxScore \in Nat
  BY AskedSuits
<1>2. Spanning(ctx, fleet, cuts)
  BY <1>1, FeasibleSpans
<1>3. PICK f : Scores(ctx, fleet, cuts, f) /\ ScoreOfCuts(ctx, fleet, cuts) = f[Len(fleet)]
  BY <1>1, <1>2, ScoresExist
<1>4. f[Len(fleet)] \in Nat
  <2>1. Len(fleet) \in 0 .. Len(fleet)
    BY <1>1 DEF Suits
  <2> QED
    BY <1>3, <2>1 DEF Scores
<1>5. ScoreOfCuts(ctx, fleet, cuts) <= MaxScore
  BY ScoresBounded
<1> QED
  BY <1>1, <1>3, <1>4, <1>5

\* The dynamic program finds the best feasible cuts, if there are any.
Best(ctx, fleet, p) ==
    /\ p.cuts \in Feasible(ctx, fleet) /\ p = Built(ctx, fleet, p.cuts)
    /\ \A cuts \in Feasible(ctx, fleet) : p.score <= ScoreOfCuts(ctx, fleet, cuts)

LEMMA PipelineIsBest ==
    ASSUME NEW ctx \in Contexts, NEW fleet \in StageLists, Len(fleet) <= Len(ctx.layers)
    PROVE  /\ PartitionPipeline(ctx, fleet) = {} => Feasible(ctx, fleet) = {}
           /\ \A p \in PartitionPipeline(ctx, fleet) : Best(ctx, fleet, p)
<1> DEFINE dp == DP(ctx, fleet)
           cuts == Backtracked(dp, Len(ctx.layers), Len(fleet))
           low == dp[Len(fleet)][Len(ctx.layers)][1]
<1>1. /\ Suits(ctx, fleet) /\ Len(fleet) >= 2 /\ Unreachable \in Nat /\ MaxScore \in Nat /\ MaxScore < Unreachable
      /\ Len(fleet) \in 1 .. Len(fleet) /\ Len(ctx.layers) \in 1 .. Len(ctx.layers) /\ Len(fleet) > 1
  <2>1. /\ Suits(ctx, fleet) /\ Len(fleet) >= 2 /\ Unreachable \in Nat /\ MaxScore \in Nat /\ MaxScore < Unreachable
    BY AskedSuits
  <2>2. Len(fleet) \in 1 .. Len(fleet) /\ Len(ctx.layers) \in 1 .. Len(ctx.layers) /\ Len(fleet) > 1
    BY <2>1 DEF Suits, ContextType
  <2> QED
    BY <2>1, <2>2
<1>2. Tabled(ctx, fleet, dp)
  BY <1>1, TableExists
<1>3. PartitionPipeline(ctx, fleet)
      = IF low = Unreachable \/ ~Buildable(ctx, fleet, cuts) THEN {} ELSE {Built(ctx, fleet, cuts)}
  BY Zenon DEF PartitionPipeline
<1> HIDE DEF dp
<1>4. low \in Nat /\ low <= Unreachable /\ low = Score(dp, Len(fleet), Len(ctx.layers))
  <2>1. Score(dp, Len(fleet), Len(ctx.layers)) \in Nat /\ Score(dp, Len(fleet), Len(ctx.layers)) <= Unreachable
    BY <1>1, <1>2, TableCells
  <2> QED
    BY <2>1 DEF Score
<1> HIDE DEF low, cuts
<1>5. \A c \in Feasible(ctx, fleet) : /\ ScoreOfCuts(ctx, fleet, c) \in 0 .. MaxScore
                                      /\ low <= ScoreOfCuts(ctx, fleet, c)
  <2> TAKE c \in Feasible(ctx, fleet)
  <2>1. ScoreOfCuts(ctx, fleet, c) \in 0 .. MaxScore
    BY BoundedScore
  <2>2. ScoreOfCuts(ctx, fleet, c) < Unreachable
    BY <1>1, <2>1
  <2> QED
    BY <1>1, <1>2, <1>4, <2>1, <2>2, TableIsBound
<1>6. low # Unreachable =>
        cuts \in Feasible(ctx, fleet) /\ ScoreOfCuts(ctx, fleet, cuts) = low /\ Buildable(ctx, fleet, cuts)
  <2> SUFFICES ASSUME low # Unreachable
               PROVE  cuts \in Feasible(ctx, fleet) /\ ScoreOfCuts(ctx, fleet, cuts) = low
    BY DEF Feasible
  <2>1. Score(dp, Len(fleet), Len(ctx.layers)) < Unreachable
    BY <1>1, <1>4
  <2>2. PICK end : /\ Traced(ctx, fleet, dp, end)
                   /\ Backtracked(dp, Len(ctx.layers), Len(fleet)) = [s \in 1 .. Len(fleet) - 1 |-> end[s]]
    BY <1>1, <1>2, <2>1, BacktrackingTraces
  <2>3. cuts = [s \in 1 .. Len(fleet) - 1 |-> end[s]]
    BY <2>2 DEF cuts
  <2> QED
    BY <1>1, <1>2, <1>4, <2>2, <2>3, TracedIsBuilt
<1>7. ASSUME PartitionPipeline(ctx, fleet) = {}, NEW c \in Feasible(ctx, fleet) PROVE FALSE
  <2>1. low = Unreachable
    BY <1>3, <1>6, <1>7
  <2>2. ScoreOfCuts(ctx, fleet, c) \in 0 .. MaxScore /\ low <= ScoreOfCuts(ctx, fleet, c)
    BY <1>5
  <2> QED
    BY <1>1, <2>1, <2>2
<1>8. ASSUME NEW p \in PartitionPipeline(ctx, fleet) PROVE Best(ctx, fleet, p)
  <2>1. low # Unreachable /\ p = Built(ctx, fleet, cuts)
    BY <1>3, <1>8
  <2>2. p.cuts = cuts /\ p.score = ScoreOfCuts(ctx, fleet, cuts)
    BY <2>1 DEF Built
  <2> QED
    BY <1>5, <1>6, <2>1, <2>2 DEF Best
<1> QED
  BY <1>7, <1>8

Partitions == [cuts : Seq(Nat), covers : Nat, score : 0 .. MaxScore]

\* The inductive invariant: after a repartition the stages are a list with
\* no more stages than the context has layers, and what the dynamic program
\* left is the best for them; a cached partition has a score within bounds,
\* and none has no cuts.
PartTypeOK ==
    /\ context \in Contexts /\ stages \in StageLists \cup {<<>>}
    /\ part \in Partitions
    /\ part # NoPartition => Len(part.cuts) >= 1
    /\ best \in 0 .. Infinite /\ calls \in Nat
    /\ how \in {"nothing", "full", "slid", "escaped", "failed"}

PartInv ==
    /\ PartTypeOK
    /\ how # "nothing" => stages \in StageLists /\ Len(stages) <= Len(context.layers)
    /\ FullIsBest

LEMMA InitPart == PartitionInit => PartInv
<1> SUFFICES ASSUME PartitionInit PROVE PartInv
  OBVIOUS
<1>1. MaxScore \in Nat /\ NoPartition \in Partitions
  BY RepartitioningAssumption DEF NoPartition, Partitions
<1> QED
  BY <1>1 DEF PartitionInit, PartInv, PartTypeOK, Partitions, FullIsBest, Infinite

\* Feasible cuts built make a partition within the bounds.
LEMMA BuiltTyped ==
    ASSUME NEW ctx \in Contexts, NEW fleet \in StageLists, Len(fleet) <= Len(ctx.layers),
           NEW cuts \in Feasible(ctx, fleet), NEW p, p = Built(ctx, fleet, cuts)
    PROVE  /\ p \in Partitions
           /\ Len(p.cuts) = Len(fleet) - 1 /\ p.cuts = cuts /\ p.score = ScoreOfCuts(ctx, fleet, cuts)
<1>1. Suits(ctx, fleet) /\ Len(fleet) >= 2
  BY AskedSuits
<1>2. ScoreOfCuts(ctx, fleet, cuts) \in 0 .. MaxScore
  BY BoundedScore
<1>3. Len(cuts) = Len(fleet) - 1
  BY <1>1, FeasibleSpans DEF Spanning
<1>4. Len(ctx.layers) \in Nat
  BY <1>1 DEF Suits, ContextType
<1>5. cuts \in Seq(Nat)
  <2>1. cuts \in [1 .. Len(fleet) - 1 -> 1 .. Len(ctx.layers) - 1] /\ Len(fleet) - 1 \in Nat
    BY <1>1 DEF Feasible, Suits
  <2>2. cuts \in [1 .. Len(fleet) - 1 -> Nat]
    BY <1>4, <2>1
  <2> QED
    BY <2>1, <2>2, LenOfFunction, Zenon
<1> QED
  BY <1>2, <1>3, <1>4, <1>5 DEF Built, Partitions

LEMMA PipelineTyped ==
    ASSUME NEW ctx \in Contexts, NEW fleet \in StageLists, Len(fleet) <= Len(ctx.layers),
           NEW p \in PartitionPipeline(ctx, fleet)
    PROVE  p \in Partitions /\ Len(p.cuts) = Len(fleet) - 1
<1>1. p.cuts \in Feasible(ctx, fleet) /\ p = Built(ctx, fleet, p.cuts)
  BY PipelineIsBest DEF Best
<1> QED
  BY <1>1, BuiltTyped

\* Sliding: the new cuts that BestSlid chooses from are feasible.
LEMMA SlidFeasible ==
    ASSUME NEW ctx \in Contexts, NEW fleet \in StageLists, Len(fleet) <= Len(ctx.layers),
           NEW c \in [1 .. Len(fleet) - 1 -> Int], Increasing(c), \A s \in 1 .. Len(fleet) - 1 : c[s] \in 1 .. Len(ctx.layers),
           Buildable(ctx, fleet, c)
    PROVE  c \in Feasible(ctx, fleet)
<1> DEFINE K == Len(fleet)
           n == Len(ctx.layers)
<1>1. K \in Nat /\ n \in Nat /\ K >= 2
  <2>1. Suits(ctx, fleet) /\ Len(fleet) >= 2
    BY AskedSuits
  <2> HIDE DEF K, n
  <2> QED
    BY <2>1, SuitsNat DEF K, n
<1>2. Len(c) = K - 1
  <2>1. K - 1 \in Nat
    BY <1>1
  <2> QED
    BY <2>1, LenOfFunction, Zenon
<1>3. ASSUME NEW s \in 1 .. K - 1 PROVE c[s] \in 1 .. n - 1
  <2>1. s + 1 \in 1 .. K /\ (s + 1) - 1 = s /\ s + 1 # 1
    BY <1>1
  <2>2. FirstLayer(c, s + 1) <= LastLayer(ctx, c, s + 1)
    BY <2>1 DEF Buildable
  <2>3. FirstLayer(c, s + 1) = c[s] + 1
    BY <2>1 DEF FirstLayer
  <2>4. LastLayer(ctx, c, s + 1) \in 1 .. n
    <3>1. CASE s + 1 = K
      <4>1. n \in 1 .. n
        <5>1. c[s] \in 1 .. n
          OBVIOUS
        <5> QED
          BY <1>1, <5>1
      <4> QED
        BY <1>1, <1>2, <3>1, <4>1 DEF LastLayer
    <3>2. CASE s + 1 # K
      <4>1. s + 1 \in 1 .. K - 1
        BY <1>1, <3>2
      <4>2. LastLayer(ctx, c, s + 1) = c[s + 1]
        BY <1>1, <1>2, <3>2 DEF LastLayer
      <4> QED
        BY <4>1, <4>2
    <3> QED
      BY <3>1, <3>2
  <2>5. c[s] \in 1 .. n
    OBVIOUS
  <2> HIDE DEF n
  <2> QED
    BY <1>1, <2>2, <2>3, <2>4, <2>5
<1>4. c \in [1 .. K - 1 -> 1 .. n - 1]
  BY <1>3
<1> QED
  BY <1>4 DEF Feasible

LEMMA MinOfTwo ==
    ASSUME NEW a \in Int, NEW b \in Int
    PROVE  Min({a, b}) = IF a <= b THEN a ELSE b
<1>1. CASE a <= b
  <2>1. \A y \in {a, b} : a <= y
    BY <1>1
  <2>2. \A c \in {a, b} : (\A y \in {a, b} : c <= y) => c = a
    BY <1>1
  <2> QED
    BY <1>1, <2>1, <2>2 DEF Min
<1>2. CASE ~(a <= b)
  <2>1. \A y \in {a, b} : b <= y
    BY <1>2
  <2>2. \A c \in {a, b} : (\A y \in {a, b} : c <= y) => c = b
    BY <1>2
  <2> QED
    BY <1>2, <2>1, <2>2 DEF Min
<1> QED
  BY <1>1, <1>2

\* A set of cuts has a first one in the order of itertools.product.
LEMMA FirstCuts ==
    ASSUME NEW m \in Nat, NEW C, C \subseteq [1 .. m -> Nat], C # {}
    PROVE  \E c \in C : \A d \in C : d = c \/ Before(c, d)
<1> DEFINE Same(c, d, k) == \A r \in 1 .. k : c[r] = d[r]
           Less(c, d, k) == \E s \in 1 .. k : c[s] < d[s] /\ Same(c, d, s - 1)
           T == {k \in Nat : k <= m => \E c \in C : \A d \in C : Same(c, d, k) \/ Less(c, d, k)}
<1>1. 0 \in T
  <2>1. \A c, d \in C : Same(c, d, 0)
    OBVIOUS
  <2> HIDE DEF Same, Less
  <2> QED
    BY <2>1
<1>2. ASSUME NEW k \in T PROVE k + 1 \in T
  <2> SUFFICES ASSUME k + 1 <= m
               PROVE  \E c \in C : \A d \in C : Same(c, d, k + 1) \/ Less(c, d, k + 1)
    OBVIOUS
  <2>1. k \in Nat /\ k + 1 \in 1 .. m
    OBVIOUS
  <2>2. PICK c \in C : \A d \in C : Same(c, d, k) \/ Less(c, d, k)
    <3> HIDE DEF Same, Less
    <3> QED
      BY <2>1
  <2> DEFINE A == {d \in C : Same(c, d, k)}
             next == {d[k + 1] : d \in A}
  <2>3. next \subseteq Nat /\ next # {}
    <3>1. c \in A
      OBVIOUS
    <3>2. \A d \in A : d[k + 1] \in Nat
      BY <2>1
    <3> HIDE DEF A
    <3> QED
      BY <3>1, <3>2
  <2>4. PICK low \in next : \A y \in next : low <= y
    BY <2>3, Least
  <2>5. PICK e \in A : e[k + 1] = low
    OBVIOUS
  <2>6. ASSUME NEW d \in C PROVE Same(e, d, k + 1) \/ Less(e, d, k + 1)
    <3>1. e \in C /\ \A r \in 1 .. k : c[r] = e[r]
      BY <2>5
    <3>2. CASE Less(c, d, k)
      <4>1. PICK s \in 1 .. k : c[s] < d[s] /\ \A r \in 1 .. s - 1 : c[r] = d[r]
        BY <3>2
      <4>2. s \in 1 .. k + 1 /\ e[s] < d[s]
        BY <2>1, <3>1, <4>1
      <4>3. \A r \in 1 .. s - 1 : e[r] = d[r]
        <5>1. \A r \in 1 .. s - 1 : r \in 1 .. k
          BY <2>1, <4>1
        <5> QED
          BY <3>1, <4>1, <5>1
      <4> QED
        BY <4>2, <4>3
    <3>3. CASE Same(c, d, k)
      <4>1. d \in A
        BY <3>3
      <4>2. e[k + 1] <= d[k + 1] /\ e[k + 1] \in Nat /\ d[k + 1] \in Nat
        <5>1. d[k + 1] \in next
          BY <4>1
        <5> QED
          BY <2>3, <2>4, <2>5, <5>1
      <4>3. \A r \in 1 .. k : e[r] = d[r]
        BY <3>1, <3>3
      <4>4. CASE e[k + 1] = d[k + 1]
        <5>1. \A r \in 1 .. k + 1 : r \in 1 .. k \/ r = k + 1
          BY <2>1
        <5> QED
          BY <4>3, <4>4, <5>1
      <4>5. CASE e[k + 1] < d[k + 1]
        <5>1. k + 1 \in 1 .. k + 1 /\ (k + 1) - 1 = k
          BY <2>1
        <5> QED
          BY <4>3, <4>5, <5>1
      <4>6. e[k + 1] = d[k + 1] \/ e[k + 1] < d[k + 1]
        BY ONLY <4>2
      <4> HIDE DEF Same, Less
      <4> QED
        BY <4>4, <4>5, <4>6, Zenon
    <3> QED
      BY <2>2, <3>2, <3>3
  <2>7. e \in C
    BY <2>5
  <2> HIDE DEF Same, Less
  <2> QED
    BY <2>6, <2>7
<1>3. T = Nat
  <2> HIDE DEF T
  <2>1. T \subseteq Nat
    BY DEF T
  <2> QED
    BY <1>1, <1>2, <2>1, Induct
<1>4. PICK c \in C : \A d \in C : Same(c, d, m) \/ Less(c, d, m)
  <2>1. m \in T /\ m <= m
    <3> HIDE DEF T
    <3> QED
      BY <1>3
  <2> HIDE DEF Same, Less
  <2> QED
    BY <2>1
<1>5. ASSUME NEW d \in C PROVE d = c \/ Before(c, d)
  <2>1. c \in [1 .. m -> Nat] /\ d \in [1 .. m -> Nat]
    OBVIOUS
  <2>2. CASE Same(c, d, m)
    BY <2>1, <2>2
  <2>3. CASE Less(c, d, m)
    BY <2>1, <2>3 DEF Before
  <2> QED
    BY <1>4, <2>2, <2>3
<1> QED
  BY <1>5

\* The smallest member, where there is one.
LEMMA MinIsLeast ==
    ASSUME NEW S, \E x \in S : \A y \in S : x <= y
    PROVE  Min(S) \in S /\ \A y \in S : Min(S) <= y
<1>1. Min(S) = CHOOSE x \in S : \A y \in S : x <= y
  BY Zenon DEF Min
<1> QED
  BY <1>1, Zenon

\* The sweep: where there are new cuts, it finds best ones.
NewCuts(ctx, fleet, cuts) == {c \in Slid(ctx, cuts) : c # cuts /\ Buildable(ctx, fleet, c)}

LEMMA SweepIsBest ==
    ASSUME NEW ctx \in Contexts, NEW fleet \in StageLists, Len(fleet) <= Len(ctx.layers), NEW cuts,
           NEW new, new = NewCuts(ctx, fleet, cuts), new \subseteq Feasible(ctx, fleet)
    PROVE  /\ BestSlid(ctx, fleet, cuts) = {} => new = {}
           /\ \A p \in BestSlid(ctx, fleet, cuts) :
                 \E c \in new : /\ p = Built(ctx, fleet, c)
                                /\ \A d \in new : ScoreOfCuts(ctx, fleet, c) <= ScoreOfCuts(ctx, fleet, d)
<1> DEFINE S(c) == ScoreOfCuts(ctx, fleet, c)
           scores == {S(c) : c \in new}
           low == Min(scores)
           lowest == {c \in new : S(c) = low}
           firsts == {c \in lowest : \A d \in lowest : d = c \/ Before(c, d)}
<1>1. BestSlid(ctx, fleet, cuts) = IF new = {} THEN {} ELSE {Built(ctx, fleet, c) : c \in firsts}
  BY Zenon DEF BestSlid, NewCuts
<1>2. \A c \in new : S(c) \in Nat
  <2> TAKE c \in new
  <2>1. S(c) \in 0 .. MaxScore
    BY BoundedScore
  <2>2. MaxScore \in Nat
    BY RepartitioningAssumption
  <2> HIDE DEF S
  <2> QED
    BY <2>1, <2>2
<1> HIDE DEF S
<1>3. ASSUME new # {} PROVE low \in scores /\ \A y \in scores : low <= y
  <2>1. scores \subseteq Nat /\ scores # {}
    BY <1>2, <1>3
  <2>2. \E x \in scores : \A y \in scores : x <= y
    <3> HIDE DEF scores
    <3> QED
      BY <2>1, Least
  <2> HIDE DEF scores
  <2> QED
    BY <2>2, MinIsLeast, Zenon
<1>4. ASSUME new # {} PROVE firsts # {}
  <2>1. lowest # {}
    BY <1>3, <1>4
  <2>2. Len(fleet) - 1 \in Nat /\ lowest \subseteq [1 .. Len(fleet) - 1 -> Nat]
    <3>1. Len(fleet) \in Nat /\ Len(fleet) >= 2 /\ Len(ctx.layers) \in Nat
      BY AskedSuits DEF Suits, ContextType
    <3>2. Feasible(ctx, fleet) \subseteq [1 .. Len(fleet) - 1 -> Nat]
      <4>1. 1 .. Len(ctx.layers) - 1 \subseteq Nat
        BY <3>1
      <4>2. Feasible(ctx, fleet) \subseteq [1 .. Len(fleet) - 1 -> 1 .. Len(ctx.layers) - 1]
        BY DEF Feasible
      <4> QED
        BY <4>1, <4>2
    <3> QED
      BY <3>1, <3>2
  <2>3. \E c \in lowest : \A d \in lowest : d = c \/ Before(c, d)
    <3> HIDE DEF lowest
    <3> QED
      BY <2>1, <2>2, FirstCuts
  <2> HIDE DEF lowest
  <2> QED
    BY <2>3
<1>5. ASSUME NEW p \in BestSlid(ctx, fleet, cuts)
      PROVE  \E c \in new : p = Built(ctx, fleet, c) /\ \A d \in new : S(c) <= S(d)
  <2>1. new # {} /\ \E c \in firsts : p = Built(ctx, fleet, c)
    BY <1>1, <1>5
  <2>2. PICK c \in firsts : p = Built(ctx, fleet, c)
    BY <2>1
  <2>3. c \in new /\ S(c) = low
    OBVIOUS
  <2>4. \A d \in new : low <= S(d)
    <3>1. \A d \in new : S(d) \in scores
      OBVIOUS
    <3> QED
      BY <1>3, <2>1, <3>1
  <2> QED
    BY <2>2, <2>3, <2>4
<1>6. BestSlid(ctx, fleet, cuts) = {} => new = {}
  <2> HIDE DEF firsts
  <2> QED
    BY <1>1, <1>4
<1> QED
  BY <1>5, <1>6 DEF S

\* The cuts within the window of others, without the code's ranges.
Reach(ctx, fleet, cuts) ==
    {c \in Feasible(ctx, fleet) :
        \A s \in DOMAIN cuts : cuts[s] - ctx.window <= c[s] /\ c[s] <= cuts[s] + ctx.window}

LEMMA InReach ==
    ASSUME NEW ctx \in Contexts, NEW fleet \in StageLists, Len(fleet) <= Len(ctx.layers),
           NEW cuts \in Seq(Nat), Len(cuts) = Len(fleet) - 1
    PROVE  /\ NewCuts(ctx, fleet, cuts) = Reach(ctx, fleet, cuts) \ {cuts}
           /\ cuts \in Reach(ctx, fleet, cuts)
              <=> Valid(Len(ctx.layers), cuts) /\ Buildable(ctx, fleet, cuts)
<1> DEFINE K == Len(fleet)
           n == Len(ctx.layers)
           w == ctx.window
           low(s) == Max({s, cuts[s] - w})
           high(s) == Min({n + 1 - K + s, cuts[s] + w})
<1>1. K \in Nat /\ n \in Nat /\ w \in Nat /\ K >= 2 /\ K <= n
  <2>1. Suits(ctx, fleet) /\ K >= 2
    BY AskedSuits
  <2>2. K \in Nat /\ K <= n /\ ctx \in ContextType
    BY <2>1 DEF Suits
  <2>3. n \in Nat /\ w \in Nat
    BY <2>2 DEF ContextType
  <2> QED
    BY <2>1, <2>2, <2>3
<1>2. DOMAIN cuts = 1 .. K - 1 /\ \A s \in 1 .. K - 1 : cuts[s] \in Nat
  OBVIOUS
<1>3. Slid(ctx, cuts) = {c \in [1 .. K - 1 -> 1 .. n] : Increasing(c) /\ \A s \in 1 .. K - 1 : c[s] \in low(s) .. high(s)}
  <2>1. (Len(cuts) + 1) - 1 = K - 1 /\ Len(cuts) + 1 = K
    BY <1>1
  <2>2. Slid(ctx, cuts) = {c \in [1 .. (Len(cuts) + 1) - 1 -> 1 .. n] :
                             Increasing(c) /\ \A s \in 1 .. (Len(cuts) + 1) - 1 :
                               c[s] \in Max({s, cuts[s] - w}) .. Min({n + 1 - (Len(cuts) + 1) + s, cuts[s] + w})}
    BY Zenon DEF Slid
  <2> QED
    BY <2>1, <2>2, Zenon
<1> HIDE DEF K, n, w
<1>4. ASSUME NEW s \in 1 .. K - 1, NEW i \in Int
      PROVE  i \in low(s) .. high(s)
             <=> s <= i /\ cuts[s] - w <= i /\ i <= n + 1 - K + s /\ i <= cuts[s] + w
  <2>1. s \in Int /\ cuts[s] - w \in Int /\ n + 1 - K + s \in Int /\ cuts[s] + w \in Int
    BY <1>1, <1>2
  <2>2. low(s) = IF s >= cuts[s] - w THEN s ELSE cuts[s] - w
    BY <2>1, MaxOfTwo
  <2>3. high(s) = IF n + 1 - K + s <= cuts[s] + w THEN n + 1 - K + s ELSE cuts[s] + w
    BY <2>1, MinOfTwo
  <2> HIDE DEF low, high
  <2>4. i \in low(s) .. high(s) <=> low(s) <= i /\ i <= high(s)
    BY <2>1, <2>2, <2>3
  <2>5. low(s) <= i <=> s <= i /\ cuts[s] - w <= i
    BY <2>1, <2>2
  <2>6. i <= high(s) <=> i <= n + 1 - K + s /\ i <= cuts[s] + w
    BY <2>1, <2>3
  <2> QED
    BY <2>4, <2>5, <2>6
<1> HIDE DEF low, high
<1>5. ASSUME NEW c \in Slid(ctx, cuts), Buildable(ctx, fleet, c) PROVE c \in Reach(ctx, fleet, cuts)
  <2>1. c \in [1 .. K - 1 -> 1 .. n] /\ Increasing(c) /\ \A s \in 1 .. K - 1 : c[s] \in low(s) .. high(s)
    BY <1>3
  <2>2. \A s \in 1 .. K - 1 : c[s] \in 1 .. n /\ c[s] \in Int /\ cuts[s] - w <= c[s] /\ c[s] <= cuts[s] + w
    <3> TAKE s \in 1 .. K - 1
    <3>1. c[s] \in 1 .. n /\ c[s] \in Int
      BY <1>1, <2>1
    <3> QED
      BY <1>4, <2>1, <3>1
  <2>3. c \in [1 .. K - 1 -> Int]
    BY <2>1, <2>2
  <2>4. c \in Feasible(ctx, fleet)
    BY <1>5, <2>1, <2>2, <2>3, SlidFeasible DEF K, n
  <2> QED
    BY <1>2, <2>2, <2>4 DEF Reach, w
<1>6. ASSUME NEW c \in Reach(ctx, fleet, cuts) PROVE c \in Slid(ctx, cuts) /\ Buildable(ctx, fleet, c)
  <2>1. /\ c \in [1 .. K - 1 -> 1 .. n - 1] /\ Increasing(c) /\ Buildable(ctx, fleet, c)
        /\ \A s \in 1 .. K - 1 : cuts[s] - w <= c[s] /\ c[s] <= cuts[s] + w
    BY <1>2 DEF Reach, Feasible, K, n, w
  <2>2. c \in [1 .. K - 1 -> 1 .. n]
    <3>1. 1 .. n - 1 \subseteq 1 .. n
      BY <1>1
    <3> QED
      BY <2>1, <3>1
  <2>3. ASSUME NEW s \in 1 .. K - 1 PROVE c[s] \in low(s) .. high(s)
    <3>1. K - 1 \in Nat
      BY <1>1
    <3>2. s <= c[s] /\ c[s] + ((K - 1) - s) <= c[K - 1] /\ K - 1 \in 1 .. K - 1
      <4> DEFINE m == K - 1
      <4>1. m \in Nat /\ c \in [1 .. m -> 1 .. n] /\ Increasing(c) /\ s \in 1 .. m
        BY <2>1, <2>2, <3>1
      <4> HIDE DEF m
      <4>2. s <= c[s] /\ c[s] + (m - s) <= c[m] /\ m \in 1 .. m
        BY <1>1, <4>1, CutsInOrder, Zenon
      <4> QED
        BY <4>2 DEF m
    <3>3. c[K - 1] \in 1 .. n - 1 /\ c[s] \in 1 .. n - 1
      BY <2>1, <3>2
    <3>4. c[s] <= n + 1 - K + s /\ c[s] \in Int
      BY <1>1, <3>2, <3>3
    <3> QED
      BY <1>4, <2>1, <3>2, <3>4
  <2> QED
    BY <1>3, <2>1, <2>2, <2>3
<1>7. NewCuts(ctx, fleet, cuts) = Reach(ctx, fleet, cuts) \ {cuts}
  BY <1>5, <1>6 DEF NewCuts
<1>8. cuts \in Reach(ctx, fleet, cuts) <=> Valid(n, cuts) /\ Buildable(ctx, fleet, cuts)
  <2>1. \A s \in 1 .. K - 1 : cuts[s] - w <= cuts[s] /\ cuts[s] <= cuts[s] + w
    BY <1>1, <1>2
  <2>2. cuts \in Reach(ctx, fleet, cuts) <=> cuts \in Feasible(ctx, fleet)
    BY <1>2, <2>1 DEF Reach, w
  <2>3. cuts \in [1 .. K - 1 -> 1 .. n - 1] <=> \A s \in 1 .. K - 1 : cuts[s] \in 1 .. n - 1
    <3>1. cuts = [s \in 1 .. K - 1 |-> cuts[s]]
      BY <1>2
    <3> QED
      BY <3>1
  <2> QED
    BY <1>2, <2>2, <2>3 DEF Feasible, Valid, K, n
<1> QED
  BY <1>7, <1>8 DEF n

SlidIsBest(ctx, fleet, previous, p) ==
    LET reach == Reach(ctx, fleet, previous.cuts)
    IN /\ reach = {} => p = previous
       /\ reach # {} => \E c \in reach :
            /\ p = Built(ctx, fleet, c)
            /\ \A d \in reach : ScoreOfCuts(ctx, fleet, c) <= ScoreOfCuts(ctx, fleet, d)

\* A slide keeps the previous partition, or leaves the best of the feasible
\* cuts in its reach; it leaves one of them as soon as there are any.
LEMMA IncrementalIsBest ==
    ASSUME NEW ctx \in Contexts, NEW fleet \in StageLists, Len(fleet) <= Len(ctx.layers),
           NEW previous \in Partitions, Len(previous.cuts) = Len(fleet) - 1
    PROVE  SlidIsBest(ctx, fleet, previous, Incremental(previous, ctx, fleet))
<1> DEFINE cuts == previous.cuts
           p == Incremental(previous, ctx, fleet)
           reach == Reach(ctx, fleet, cuts)
           S(c) == ScoreOfCuts(ctx, fleet, c)
           new == NewCuts(ctx, fleet, cuts)
           swept == BestSlid(ctx, fleet, cuts)
           rebuilt == IF Valid(Len(ctx.layers), cuts) /\ Buildable(ctx, fleet, cuts)
                      THEN {Built(ctx, fleet, cuts)} ELSE {}
           slid == {x \in swept : \A q \in rebuilt : x.score < q.score}
<1> SUFFICES /\ reach = {} => p = previous
             /\ reach # {} => \E c \in reach :
                  /\ p = Built(ctx, fleet, c)
                  /\ \A d \in reach : ScoreOfCuts(ctx, fleet, c) <= ScoreOfCuts(ctx, fleet, d)
  BY Zenon DEF SlidIsBest
<1>1. p = CASE slid # {} -> CHOOSE x \in slid : TRUE
            [] slid = {} /\ rebuilt # {} -> CHOOSE x \in rebuilt : TRUE
            [] OTHER -> previous
  BY Zenon DEF Incremental
<1>2. new = reach \ {cuts} /\ (cuts \in reach <=> rebuilt # {})
  <2>1. cuts \in Seq(Nat)
    BY DEF Partitions
  <2> QED
    BY <2>1, InReach
<1>3. rebuilt # {} => rebuilt = {Built(ctx, fleet, cuts)}
  OBVIOUS
<1>4. reach \subseteq Feasible(ctx, fleet)
  BY DEF Reach
<1>5. /\ swept = {} => new = {}
      /\ \A x \in swept : \E c \in new : x = Built(ctx, fleet, c) /\ \A d \in new : S(c) <= S(d)
  <2>1. new \subseteq Feasible(ctx, fleet)
    BY <1>2, <1>4
  <2> HIDE DEF new
  <2>2. new = NewCuts(ctx, fleet, cuts)
    BY DEF new
  <2> QED
    BY <2>1, <2>2, SweepIsBest
<1>6. \A c \in reach : S(c) \in Nat
  <2> TAKE c \in reach
  <2>1. S(c) \in 0 .. MaxScore /\ MaxScore \in Nat
    BY <1>4, BoundedScore, RepartitioningAssumption
  <2> HIDE DEF S
  <2> QED
    BY <2>1
<1>7. \A c : Built(ctx, fleet, c).score = S(c)
  BY DEF Built
<1> HIDE DEF S, swept, new, rebuilt, cuts, reach, p
<1>8. CASE slid # {}
  <2>1. PICK x \in slid : p = x
    <3>1. p = CHOOSE x \in slid : TRUE
      BY <1>1, <1>8
    <3> HIDE DEF slid
    <3> QED
      BY <1>8, <3>1
  <2>2. x \in swept /\ \A q \in rebuilt : x.score < q.score
    BY <2>1
  <2>3. PICK c \in new : x = Built(ctx, fleet, c) /\ \A d \in new : S(c) <= S(d)
    BY <1>5, <2>2
  <2>4. c \in reach /\ x.score = S(c)
    BY <1>2, <1>7, <2>3
  <2>5. ASSUME NEW d \in reach PROVE S(c) <= S(d)
    <3>1. CASE d = cuts
      <4>1. rebuilt = {Built(ctx, fleet, cuts)}
        BY <1>2, <1>3, <3>1
      <4>2. x.score < Built(ctx, fleet, cuts).score
        BY <2>2, <4>1
      <4>3. S(c) < S(d)
        BY <1>7, <2>4, <3>1, <4>2
      <4> QED
        BY <1>6, <2>4, <4>3
    <3>2. CASE d # cuts
      BY <1>2, <2>3, <3>2
    <3> QED
      BY <3>1, <3>2
  <2> QED
    BY <2>1, <2>3, <2>4, <2>5 DEF S
<1>9. CASE slid = {} /\ rebuilt # {}
  <2>1. p = Built(ctx, fleet, cuts) /\ cuts \in reach
    <3>1. p = CHOOSE x \in rebuilt : TRUE
      BY <1>1, <1>9
    <3> HIDE DEF slid
    <3> QED
      BY <1>2, <1>3, <1>9, <3>1
  <2>2. ASSUME NEW d \in reach PROVE S(cuts) <= S(d)
    <3>1. CASE d = cuts
      BY <1>6, <3>1
    <3>2. CASE d # cuts
      <4>1. d \in new /\ swept # {}
        BY <1>2, <1>5, <3>2
      <4>2. PICK x \in swept : TRUE
        BY <4>1
      <4>3. PICK c \in new : x = Built(ctx, fleet, c) /\ \A e \in new : S(c) <= S(e)
        BY <1>5, <4>2
      <4>4. S(c) <= S(d) /\ x.score = S(c) /\ c \in reach
        BY <1>2, <1>7, <4>1, <4>3
      <4>5. ~(x.score < Built(ctx, fleet, cuts).score)
        <5>1. rebuilt = {Built(ctx, fleet, cuts)}
          BY <1>3, <1>9
        <5> QED
          BY <1>9, <4>2, <5>1
      <4>6. ~(S(c) < S(cuts))
        BY <1>7, <4>4, <4>5
      <4> HIDE DEF slid
      <4> QED
        BY <1>6, <2>1, <4>4, <4>6
    <3> QED
      BY <3>1, <3>2
  <2> QED
    BY <2>1, <2>2 DEF S
<1>10. CASE slid = {} /\ rebuilt = {}
  <2>1. p = previous
    BY <1>1, <1>10
  <2>2. slid = swept
    BY <1>10
  <2>3. swept = {}
    BY <1>10, <2>2
  <2>4. reach = {}
    BY <1>2, <1>5, <1>10, <2>3
  <2> QED
    BY <2>1, <2>4
<1> HIDE DEF slid
<1> QED
  BY <1>8, <1>9, <1>10

\* The partition of a job has the depth of the stages it is slid for, and
\* the partition a slide leaves keeps it.
LEMMA SlideTyped ==
    ASSUME PartInv, NEW fleet \in StageLists, Len(fleet) <= Len(context.layers),
           Len(part.cuts) = Len(fleet) - 1, NEW p, p = Incremental(part, context, fleet)
    PROVE  p \in Partitions /\ Len(p.cuts) = Len(fleet) - 1
<1>1. context \in Contexts /\ part \in Partitions
  BY DEF PartInv, PartTypeOK
<1> DEFINE reach == Reach(context, fleet, part.cuts)
<1>5. reach \subseteq Feasible(context, fleet)
  BY DEF Reach
<1>6. SlidIsBest(context, fleet, part, p)
  BY <1>1, IncrementalIsBest
<1>7. /\ reach = {} => p = part
      /\ reach # {} => \E c \in reach : p = Built(context, fleet, c)
  BY <1>6 DEF SlidIsBest
<1> HIDE DEF reach
<1>2. CASE reach = {}
  <2>1. p = part
    BY <1>2, <1>7
  <2> QED
    BY <1>1, <2>1
<1>3. CASE reach # {}
  <2>1. PICK c \in reach : p = Built(context, fleet, c)
    BY <1>3, <1>7
  <2>2. c \in Feasible(context, fleet)
    BY <1>5
  <2> QED
    BY <1>1, <2>1, <2>2, BuiltTyped
<1> QED
  BY <1>2, <1>3

\* What one repartition does.
LEMMA RepartitionDoes ==
    ASSUME PartInv, NEW fleet \in StageLists, Repartition(fleet)
    PROVE  /\ Len(fleet) <= Len(context.layers) /\ stages' = fleet /\ context' = context
           /\ context \in Contexts /\ how' \in {"full", "slid", "escaped", "failed"}
           /\ best' \in 0 .. Infinite /\ calls' \in Nat
           /\ how' \in {"full", "escaped"} => part' \in PartitionPipeline(context, fleet)
           /\ how' = "failed" => PartitionPipeline(context, fleet) = {} /\ part' = part
           /\ how' = "slid" => /\ Len(part.cuts) = Len(fleet) - 1
                               /\ part' = Incremental(part, context, fleet)
<1>1. Len(fleet) <= Len(context.layers) /\ stages' = fleet /\ context' = context
  BY DEF Repartition
<1>2. context \in Contexts /\ best \in 0 .. Infinite /\ calls \in Nat /\ MaxScore \in Nat
  BY RepartitioningAssumption DEF PartInv, PartTypeOK
<1>3. CASE Len(part.cuts) # Len(fleet) - 1
  <2>1. FullDP
    BY <1>3 DEF Repartition
  <2>2. CASE /\ PartitionPipeline(context, stages') = {} /\ how' = "failed"
             /\ UNCHANGED <<part, tracker>>
    BY <1>1, <1>2, <2>2 DEF tracker
  <2>3. CASE /\ part' \in PartitionPipeline(context, stages') /\ how' = "full"
             /\ best' = Infinite /\ calls' = 0
    BY <1>1, <1>2, <2>3 DEF Infinite
  <2> QED
    BY <2>1, <2>2, <2>3, Zenon DEF FullDP
<1>4. CASE Len(part.cuts) = Len(fleet) - 1
  <2> DEFINE p == Incremental(part, context, stages')
             stagnant == Stagnant(p.score, best, calls)
             found == PartitionPipeline(context, stages')
  <2>1. Slide
    BY <1>4 DEF Repartition
  <2>2. /\ best' = Lowest(p.score, best)
        /\ \/ /\ stagnant < Patience /\ how' = "slid"
              /\ part' = p /\ calls' = stagnant
           \/ /\ stagnant >= Patience /\ found = {} /\ how' = "failed"
              /\ calls' = stagnant /\ UNCHANGED part
           \/ /\ stagnant >= Patience /\ part' \in found /\ how' = "escaped"
              /\ calls' = 0
    BY <2>1, Zenon DEF Slide
  <2>3. p \in Partitions
    BY <1>1, <1>4, SlideTyped
  <2>4. p = Incremental(part, context, fleet) /\ found = PartitionPipeline(context, fleet)
    BY <1>1
  <2> HIDE DEF p, found
  <2>5. stagnant \in Nat /\ Lowest(p.score, best) \in 0 .. Infinite
    BY <1>2, <2>3 DEF Partitions, Stagnant, Lowest, Infinite
  <2> HIDE DEF stagnant
  <2> QED
    BY <1>1, <1>2, <1>4, <2>2, <2>4, <2>5
<1> QED
  BY <1>3, <1>4

LEMMA RepartitionKeeps ==
    ASSUME PartInv, NEW fleet \in StageLists, Repartition(fleet) PROVE PartInv'
<1>1. /\ Len(fleet) <= Len(context.layers) /\ stages' = fleet /\ context' = context
      /\ context \in Contexts /\ how' \in {"full", "slid", "escaped", "failed"}
      /\ best' \in 0 .. Infinite /\ calls' \in Nat
      /\ how' \in {"full", "escaped"} => part' \in PartitionPipeline(context, fleet)
      /\ how' = "failed" => PartitionPipeline(context, fleet) = {} /\ part' = part
      /\ how' = "slid" => /\ Len(part.cuts) = Len(fleet) - 1
                          /\ part' = Incremental(part, context, fleet)
  BY RepartitionDoes
<1>2. Len(fleet) >= 2 /\ Len(fleet) \in Nat
  BY <1>1, AskedSuits DEF Suits
<1>3. /\ part' \in Partitions
      /\ part' # NoPartition => Len(part'.cuts) >= 1
  <2>1. CASE how' \in {"full", "escaped"}
    <3>1. part' \in Partitions /\ Len(part'.cuts) = Len(fleet) - 1
      BY <1>1, <2>1, PipelineTyped
    <3> QED
      BY <1>2, <3>1
  <2>2. CASE how' = "failed"
    BY <1>1, <2>2 DEF PartInv, PartTypeOK
  <2>3. CASE how' = "slid"
    <3>1. part' \in Partitions /\ Len(part'.cuts) = Len(fleet) - 1
      BY <1>1, <2>3, SlideTyped
    <3> QED
      BY <1>2, <3>1
  <2> QED
    BY <1>1, <2>1, <2>2, <2>3
<1>4. PartTypeOK'
  BY <1>1, <1>3 DEF PartTypeOK, NoPartition
<1>5. FullIsBest'
  <2>1. how' = "failed" => Feasible(context, fleet) = {}
    BY <1>1, PipelineIsBest
  <2>2. how' \in {"full", "escaped"} => Best(context, fleet, part')
    BY <1>1, PipelineIsBest
  <2>3. FeasibleCuts' = Feasible(context, fleet)
    BY <1>1 DEF FeasibleCuts
  <2> QED
    BY <1>1, <2>1, <2>2, <2>3 DEF FullIsBest, Best
<1> QED
  BY <1>1, <1>4, <1>5 DEF PartInv

LEMMA PartNext == PartInv /\ [PartitionNext]_partitionVars => PartInv'
<1> SUFFICES ASSUME PartInv, [PartitionNext]_partitionVars PROVE PartInv'
  OBVIOUS
<1>1. ASSUME NEW fleet \in StageLists, Repartition(fleet) PROVE PartInv'
  BY <1>1, RepartitionKeeps
<1>2. ASSUME NEW ctx \in Contexts, Register(ctx) PROVE PartInv'
  BY <1>2 DEF Register, PartInv, PartTypeOK, FullIsBest, tracker, NoPartition
<1>3. CASE UNCHANGED partitionVars
  BY <1>3 DEF partitionVars, tracker, PartInv, PartTypeOK, FullIsBest, FeasibleCuts, NoPartition
<1> QED
  BY <1>1, <1>2, <1>3 DEF PartitionNext

\* The types of a job's cached partition and tracker, and that what the
\* dynamic program left is the best there is.
THEOREM PartitionInvariance == PartitionSpec => []PartInv
<1> QED
  BY InitPart, PartNext, PTL DEF PartitionSpec

\* FullIsBest: partition_pipeline finds feasible cuts exactly where there are
\* any, and no cuts with a better score.
THEOREM FullIsAlwaysBest == PartitionSpec => []FullIsBest
<1>1. PartInv => FullIsBest
  BY DEF PartInv
<1> QED
  BY <1>1, PartitionInvariance, PTL

\* SlideIsBest: incremental_partition leaves the best of the feasible cuts in
\* its window, with its score on the stages of now, as soon as there are any.
THEOREM SlidesAlwaysBest == PartitionSpec => SlideIsBest
<1> DEFINE reach == {c \in FeasibleCuts' :
                       \A s \in DOMAIN part.cuts :
                          part.cuts[s] - context.window <= c[s] /\ c[s] <= part.cuts[s] + context.window}
           A == how' = "slid" /\ reach # {} =>
                   /\ part'.cuts \in reach
                   /\ part' = Built(context', stages', part'.cuts)
                   /\ \A c \in reach : part'.score <= ScoreOfCuts(context', stages', c)
<1>1. ASSUME PartInv, NEW fleet \in StageLists, Repartition(fleet) PROVE A
  <2> SUFFICES ASSUME how' = "slid", reach # {}
               PROVE  /\ part'.cuts \in reach
                      /\ part' = Built(context', stages', part'.cuts)
                      /\ \A c \in reach : part'.score <= ScoreOfCuts(context', stages', c)
    OBVIOUS
  <2>1. /\ Len(fleet) <= Len(context.layers) /\ stages' = fleet /\ context' = context
        /\ context \in Contexts
        /\ Len(part.cuts) = Len(fleet) - 1 /\ part' = Incremental(part, context, fleet)
    BY <1>1, RepartitionDoes
  <2>2. part \in Partitions
    BY <1>1 DEF PartInv, PartTypeOK
  <2>3. reach = Reach(context, fleet, part.cuts)
    BY <2>1 DEF Reach, FeasibleCuts
  <2>6. SlidIsBest(context, fleet, part, part')
    BY <2>1, <2>2, IncrementalIsBest
  <2>7. reach # {} => \E c \in reach :
          /\ part' = Built(context, fleet, c)
          /\ \A d \in reach : ScoreOfCuts(context, fleet, c) <= ScoreOfCuts(context, fleet, d)
    BY <2>3, <2>6, Zenon DEF SlidIsBest
  <2> HIDE DEF reach
  <2>4. PICK c \in reach :
          /\ part' = Built(context, fleet, c)
          /\ \A d \in reach : ScoreOfCuts(context, fleet, c) <= ScoreOfCuts(context, fleet, d)
    BY <2>7
  <2>5. part'.cuts = c /\ part'.score = ScoreOfCuts(context, fleet, c)
    BY <2>4 DEF Built
  <2> QED
    BY <2>1, <2>4, <2>5
<1>2. ASSUME NEW ctx \in Contexts, Register(ctx) PROVE A
  BY <1>2 DEF Register
<1>3. PartInv /\ [PartitionNext]_partitionVars => [A]_partitionVars
  <2> HIDE DEF A
  <2> QED
    BY <1>1, <1>2 DEF PartitionNext
<1> QED
  BY <1>3, PartitionInvariance, PTL DEF PartitionSpec, SlideIsBest

\* OutcomesAsInLoop: the partitioner has no outcomes but those the control
\* loop's model takes a repartition to have.
THEOREM OutcomesAlwaysAsInLoop == PartitionSpec => OutcomesAsInLoop
<1> DEFINE depth(p) == IF p = NoPartition THEN 0 ELSE Len(p.cuts) + 1
           t == Len(stages')
           outcome == Outcome(depth(part'), best', calls', IF how' = "failed" THEN 1 ELSE 0)
           A == how' # "nothing" =>
                  outcome \in IF depth(part) # t THEN FullOutcomes(t, depth(part), best, calls)
                              ELSE SlideOutcomes(t, best, calls)
<1>1. ASSUME PartInv, NEW fleet \in StageLists, Repartition(fleet) PROVE A
  <2> DEFINE K == Len(fleet)
  <2>1. /\ K <= Len(context.layers) /\ stages' = fleet /\ context' = context /\ context \in Contexts
        /\ how' \in {"full", "escaped"} => part' \in PartitionPipeline(context, fleet)
    BY <1>1, RepartitionDoes
  <2>2. K \in Nat /\ K >= 2
    BY <2>1, AskedSuits DEF Suits
  <2>3. t = K
    BY <2>1
  <2>4. NoPartition.cuts = <<>> /\ Len(<<>>) = 0
    BY DEF NoPartition
  <2>5. \A q \in Partitions : /\ Len(q.cuts) = K - 1 => depth(q) = K
                              /\ q = NoPartition \/ Len(q.cuts) # K - 1 => depth(q) # K
    <3> TAKE q \in Partitions
    <3>1. Len(q.cuts) \in Nat
      BY DEF Partitions
    <3> QED
      BY <2>2, <2>4, <3>1
  <2>6. part \in Partitions
    BY <1>1 DEF PartInv, PartTypeOK
  <2>7. how' \in {"full", "escaped"} => depth(part') = K
    <3> SUFFICES ASSUME how' \in {"full", "escaped"} PROVE depth(part') = K
      OBVIOUS
    <3>1. part' \in Partitions /\ Len(part'.cuts) = K - 1
      BY <2>1, PipelineTyped
    <3> QED
      BY <2>5, <3>1
  <2>8. CASE Len(part.cuts) # K - 1
    <3>1. depth(part) # K
      BY <2>5, <2>6, <2>8
    <3> HIDE DEF depth
    <3>2. \/ /\ PartitionPipeline(context, stages') = {} /\ how' = "failed"
             /\ UNCHANGED <<part, tracker>>
          \/ /\ part' \in PartitionPipeline(context, stages') /\ how' = "full"
             /\ best' = Infinite /\ calls' = 0
      BY <1>1, <2>8, Zenon DEF Repartition, FullDP
    <3>3. CASE how' = "failed"
      <4>1. part' = part /\ best' = best /\ calls' = calls
        BY <3>2, <3>3 DEF tracker
      <4>2. outcome = Outcome(depth(part), best, calls, 1)
        BY <3>3, <4>1
      <4>3. outcome \in FullOutcomes(t, depth(part), best, calls)
        BY <4>2, Zenon DEF FullOutcomes
      <4> QED
        BY <2>3, <3>1, <4>3
    <3>4. CASE how' # "failed"
      <4>1. how' = "full" /\ best' = Infinite /\ calls' = 0
        BY <3>2, <3>4
      <4>2. depth(part') = t
        BY <2>3, <2>7, <4>1
      <4>3. outcome = Outcome(t, Infinite, 0, 0)
        BY <3>4, <4>1, <4>2
      <4>4. outcome \in FullOutcomes(t, depth(part), best, calls)
        BY <4>3, Zenon DEF FullOutcomes
      <4> QED
        BY <2>3, <3>1, <4>4
    <3> QED
      BY <3>3, <3>4
  <2>9. CASE Len(part.cuts) = K - 1
    <3> DEFINE p == Incremental(part, context, stages')
               stagnant == Stagnant(p.score, best, calls)
               low == Lowest(p.score, best)
    <3>1. depth(part) = K
      BY <2>5, <2>6, <2>9
    <3>2. p \in Partitions /\ Len(p.cuts) = K - 1 /\ p.score \in 0 .. MaxScore
      <4>1. p \in Partitions /\ Len(p.cuts) = K - 1
        BY <1>1, <2>1, <2>9, SlideTyped
      <4> QED
        BY <4>1 DEF Partitions
    <3>3. depth(p) = K
      BY <2>5, <3>2
    <3> HIDE DEF depth, p
    <3>4. /\ best' = low
          /\ \/ /\ stagnant < Patience /\ how' = "slid"
                /\ part' = p /\ calls' = stagnant
             \/ /\ ~(stagnant < Patience) /\ how' = "failed"
                /\ calls' = stagnant /\ part' = part
             \/ /\ ~(stagnant < Patience) /\ how' = "escaped" /\ calls' = 0
      <4>1. Slide
        BY <1>1, <2>9 DEF Repartition
      <4>2. /\ best' = low
            /\ \/ /\ stagnant < Patience /\ how' = "slid"
                  /\ part' = p /\ calls' = stagnant
               \/ /\ stagnant >= Patience /\ how' = "failed"
                  /\ calls' = stagnant /\ part' = part
               \/ /\ stagnant >= Patience /\ how' = "escaped" /\ calls' = 0
        BY <4>1, Zenon DEF Slide, p
      <4>3. stagnant \in Nat
        BY <1>1, <3>2 DEF Stagnant, PartInv, PartTypeOK
      <4>4. stagnant >= Patience => ~(stagnant < Patience)
        BY <4>3, RepartitioningAssumption
      <4> HIDE DEF stagnant, low
      <4> QED
        BY <4>2, <4>4
    <3> DEFINE these == IF stagnant < Patience
                        THEN {Outcome(t, low, stagnant, 0)}
                        ELSE {Outcome(t, low, 0, 0), Outcome(t, low, stagnant, 1)}
    <3>5. \A o \in these : o \in SlideOutcomes(t, best, calls)
      BY <3>2, Zenon DEF SlideOutcomes
    <3> HIDE DEF stagnant, low
    <3>6. outcome \in these
      <4>1. CASE how' = "slid"
        <5>1. outcome = Outcome(t, low, stagnant, 0) /\ stagnant < Patience
          BY <2>3, <3>3, <3>4, <4>1
        <5> QED
          BY <5>1
      <4>2. CASE how' = "failed"
        <5>1. outcome = Outcome(t, low, stagnant, 1) /\ ~(stagnant < Patience)
          BY <2>3, <3>1, <3>4, <4>2
        <5> QED
          BY <5>1
      <4>3. CASE how' = "escaped"
        <5>1. outcome = Outcome(t, low, 0, 0) /\ ~(stagnant < Patience)
          BY <2>3, <2>7, <3>4, <4>3
        <5> QED
          BY <5>1
      <4> QED
        BY <3>4, <4>1, <4>2, <4>3
    <3> HIDE DEF these
    <3>7. outcome \in SlideOutcomes(t, best, calls)
      BY <3>5, <3>6
    <3> QED
      BY <2>3, <3>1, <3>7
  <2> QED
    BY <2>8, <2>9
<1>2. ASSUME NEW ctx \in Contexts, Register(ctx) PROVE A
  BY <1>2 DEF Register
<1>3. PartInv /\ [PartitionNext]_partitionVars => [A]_partitionVars
  <2> HIDE DEF A
  <2> QED
    BY <1>1, <1>2 DEF PartitionNext
<1> QED
  BY <1>3, PartitionInvariance, PTL DEF PartitionSpec, OutcomesAsInLoop
-----------------------------------------------------------------------------
(* The joint partitioner: cuts and throttles at once.                       *)

PointType == [ratio : Nat, time : Nat, energy : Nat]

JointSuits(ctx, fleet, curve, ceiling) ==
    Suits(ctx, fleet) /\ curve \in Seq(PointType) /\ ceiling \in Nat

Entries(ceiling) == [energy : Nat, slowest : 0 .. ceiling * Unit, from : Nat, point : Nat]

\* Stage s takes the layers i + 1 .. j at point p: whether it may, and what
\* it costs.
Passable(ctx, fleet, curve, ceiling, s, i, j, p) ==
    /\ p \in DOMAIN curve /\ Fits(ctx, fleet[s], i + 1, j)
    /\ Admissible(fleet[s], ExecTime(ctx, fleet, s, i + 1, j), curve[p], ceiling)

StepCost(ctx, fleet, curve, s, i, j, p) ==
    Energy(fleet[s], ExecTime(ctx, fleet, s, i + 1, j), curve[p])

\* Where the stage before stage s may have ended.
Into(s, j) == IF s = 1 THEN {0} ELSE Ends(s, j)

LEMMA IntoLayers ==
    ASSUME NEW ctx, NEW fleet, Suits(ctx, fleet), NEW s \in 1 .. Len(fleet),
           NEW j \in 1 .. Len(ctx.layers), NEW i \in Into(s, j)
    PROVE  /\ i \in Nat /\ i < j /\ i + 1 \in 1 .. Len(ctx.layers)
           /\ s > 1 => i \in 1 .. Len(ctx.layers) /\ i + 1 > 1
<1>1. Len(ctx.layers) \in Nat /\ Len(fleet) \in Nat
  BY SuitsNat
<1>2. CASE s = 1
  BY <1>1, <1>2 DEF Into
<1>3. CASE s # 1
  BY <1>1, <1>3 DEF Into, Ends
<1> QED
  BY <1>2, <1>3

LEMMA CeilingNat == ASSUME NEW ceiling \in Nat PROVE ceiling * Unit \in Nat
BY UnitAssumption

LEMMA StepNat ==
    ASSUME NEW ctx, NEW fleet, NEW curve, NEW ceiling, JointSuits(ctx, fleet, curve, ceiling),
           NEW s \in 1 .. Len(fleet), NEW j \in 1 .. Len(ctx.layers), NEW i \in Into(s, j), NEW p \in DOMAIN curve
    PROVE  /\ StepCost(ctx, fleet, curve, s, i, j, p) \in Nat /\ p \in Nat
           /\ ExecTime(ctx, fleet, s, i + 1, j) * curve[p].time \in Nat
<1>1. Suits(ctx, fleet) /\ curve \in Seq(PointType)
  BY DEF JointSuits
<1>2. i + 1 \in 1 .. Len(ctx.layers) /\ (s > 1 => i + 1 > 1)
  BY <1>1, IntoLayers
<1>3. ExecTime(ctx, fleet, s, i + 1, j) \in Nat /\ fleet[s] \in StageType
  BY <1>1, <1>2, TimeNat
<1>4. p \in 1 .. Len(curve) /\ p \in Nat
  BY <1>1
<1>5. curve[p] \in PointType
  BY <1>1, <1>4, ElementIn, Zenon
<1>6. curve[p].time \in Nat /\ curve[p].energy \in Nat /\ fleet[s].draw \in Nat
  BY <1>3, <1>5 DEF PointType, StageType
<1>7. \A x, y, z \in Nat : x * y * z \in Nat /\ x * y \in Nat
  OBVIOUS
<1> QED
  BY <1>3, <1>4, <1>6, <1>7, Zenon DEF StepCost, Energy

LEMMA ExtendedIs ==
    ASSUME NEW ctx, NEW fleet, NEW curve, NEW ceiling, JointSuits(ctx, fleet, curve, ceiling),
           NEW s \in 1 .. Len(fleet), NEW j \in 1 .. Len(ctx.layers), NEW i \in Into(s, j),
           NEW before \in Entries(ceiling)
    PROVE  LET new == Extended(ctx, fleet, curve, ceiling, before, s, i, j)
           IN /\ \A e \in new :
                    /\ e \in Entries(ceiling) /\ e.from = i
                    /\ Passable(ctx, fleet, curve, ceiling, s, i, j, e.point)
                    /\ e.energy = before.energy + StepCost(ctx, fleet, curve, s, i, j, e.point)
              /\ \A p : Passable(ctx, fleet, curve, ceiling, s, i, j, p) =>
                    \E e \in new : e.energy <= before.energy + StepCost(ctx, fleet, curve, s, i, j, p)
<1> DEFINE new == Extended(ctx, fleet, curve, ceiling, before, s, i, j)
           time == ExecTime(ctx, fleet, s, i + 1, j)
           cost(p) == StepCost(ctx, fleet, curve, s, i, j, p)
           limit == ceiling * Unit
           ok == {p \in DOMAIN curve : Admissible(fleet[s], time, curve[p], ceiling) /\ before.slowest <= limit}
           choice == BestLocal(curve, fleet[s], time, before.slowest, ceiling)
           entry(p) == [energy |-> before.energy + cost(p),
                        slowest |-> Max({before.slowest, time * curve[p].time}),
                        from |-> i, point |-> p]
<1>1. /\ limit \in Nat /\ before.slowest \in 0 .. limit /\ before.energy \in Nat /\ i \in Nat
      /\ before.slowest <= limit /\ before.slowest \in Int
  <2>1. ceiling \in Nat /\ Suits(ctx, fleet)
    BY DEF JointSuits
  <2>2. limit \in Nat /\ i \in Nat
    BY <2>1, CeilingNat, IntoLayers
  <2>3. before.slowest \in 0 .. limit /\ before.energy \in Nat
    BY DEF Entries
  <2> HIDE DEF limit
  <2> QED
    BY <2>2, <2>3
<1>2. \A p \in DOMAIN curve : cost(p) \in Nat /\ p \in Nat /\ time * curve[p].time \in Nat
  BY StepNat
<1>3. choice = {p \in ok : \A q \in ok : cost(p) < cost(q) \/ (cost(p) = cost(q) /\ p <= q)}
  BY Zenon DEF BestLocal, StepCost
<1>4. new = {entry(p) : p \in IF Fits(ctx, fleet[s], i + 1, j) THEN choice ELSE {}}
  BY Zenon DEF Extended, StepCost
<1>5. \A p : Passable(ctx, fleet, curve, ceiling, s, i, j, p) <=> Fits(ctx, fleet[s], i + 1, j) /\ p \in ok
  BY <1>1, Zenon DEF Passable
<1>6. \A p \in ok : p \in DOMAIN curve /\ time * curve[p].time <= limit
  BY DEF Admissible
<1> HIDE DEF new, cost, ok, choice
<1>7. ASSUME NEW p \in ok PROVE entry(p) \in Entries(ceiling)
  <2> DEFINE long == time * curve[p].time
  <2>1. long \in Nat /\ long <= limit /\ cost(p) \in Nat /\ p \in Nat
    BY <1>2, <1>6
  <2> HIDE DEF limit, long
  <2>2. Max({before.slowest, long}) \in 0 .. limit
    <3>1. Max({before.slowest, long}) = IF before.slowest >= long THEN before.slowest ELSE long
      BY <1>1, <2>1, MaxOfTwo
    <3> QED
      BY <1>1, <2>1, <3>1
  <2>3. before.energy + cost(p) \in Nat
    BY <1>1, <2>1
  <2> QED
    BY <1>1, <2>1, <2>2, <2>3 DEF Entries, limit, long
<1>8. ASSUME NEW e \in new
      PROVE  /\ e \in Entries(ceiling) /\ e.from = i
             /\ Passable(ctx, fleet, curve, ceiling, s, i, j, e.point)
             /\ e.energy = before.energy + cost(e.point)
  <2>1. PICK p \in choice : e = entry(p) /\ Fits(ctx, fleet[s], i + 1, j)
    BY <1>4
  <2>2. p \in ok
    BY <1>3
  <2>3. e.from = i /\ e.point = p /\ e.energy = before.energy + cost(p)
    BY <2>1
  <2> HIDE DEF entry
  <2> QED
    BY <1>5, <1>7, <2>1, <2>2, <2>3
<1>9. ASSUME NEW p, Passable(ctx, fleet, curve, ceiling, s, i, j, p)
      PROVE  \E e \in new : e.energy <= before.energy + cost(p)
  <2>1. Fits(ctx, fleet[s], i + 1, j) /\ p \in ok
    BY <1>5, <1>9
  <2> DEFINE f == [q \in ok |-> cost(q)]
             g == [q \in ok |-> q]
  <2>2. \A q \in ok : f[q] = cost(q) /\ g[q] = q /\ f[q] \in Nat /\ g[q] \in Nat
    BY <1>2, <1>6
  <2> HIDE DEF f, g
  <2>3. \E q \in ok : \A r \in ok : f[q] < f[r] \/ (f[q] = f[r] /\ g[q] <= g[r])
    <3>1. ok # {} /\ \A q \in ok : f[q] \in Nat /\ g[q] \in Nat
      BY <2>1, <2>2, Zenon
    <3> QED
      BY <3>1, LexLeast, Zenon
  <2>4. PICK q \in ok : \A r \in ok : cost(q) < cost(r) \/ (cost(q) = cost(r) /\ q <= r)
    BY <2>2, <2>3
  <2>5. q \in choice /\ cost(q) <= cost(p) /\ cost(q) \in Nat /\ cost(p) \in Nat
    <3>1. q \in choice
      BY <1>3, <2>4
    <3>2. cost(q) \in Nat /\ cost(p) \in Nat
      BY <1>2, <1>6, <2>1
    <3> QED
      BY <2>1, <2>4, <3>1, <3>2
  <2>6. entry(q) \in new
    BY <1>4, <2>1, <2>5
  <2>7. entry(q).energy = before.energy + cost(q)
    OBVIOUS
  <2> HIDE DEF entry
  <2>8. entry(q).energy <= before.energy + cost(p)
    BY <1>1, <2>5, <2>7
  <2> QED
    BY <2>6, <2>8
<1> QED
  BY <1>8, <1>9 DEF new, cost

\* The entries of the stage before stage s that ended with layer i.
Entering(s, row, i) == IF s = 1 THEN {Start} ELSE row[i]

JointRows(ctx, ceiling) == [1 .. Len(ctx.layers) -> SUBSET Entries(ceiling)]

\* What a cell holds: each of its entries extends one of the stage before,
\* no way to extend one costs less, and all of them cost the same.
CellIs(ctx, fleet, curve, ceiling, s, j, row, cell) ==
    /\ cell \subseteq Entries(ceiling)
    /\ \A e \in cell :
          /\ e.from \in Into(s, j) /\ Passable(ctx, fleet, curve, ceiling, s, e.from, j, e.point)
          /\ \E b \in Entering(s, row, e.from) :
                e.energy = b.energy + StepCost(ctx, fleet, curve, s, e.from, j, e.point)
    /\ \A i \in Into(s, j) : \A p : Passable(ctx, fleet, curve, ceiling, s, i, j, p) =>
          \A b \in Entering(s, row, i) :
             \E e \in cell : e.energy <= b.energy + StepCost(ctx, fleet, curve, s, i, j, p)
    /\ \A e, d \in cell : e.energy = d.energy

LEMMA FrugalCell ==
    ASSUME NEW ctx, NEW fleet, NEW curve, NEW ceiling, JointSuits(ctx, fleet, curve, ceiling),
           NEW s \in 1 .. Len(fleet), NEW j \in 1 .. Len(ctx.layers),
           NEW row, s > 1 => row \in JointRows(ctx, ceiling)
    PROVE  CellIs(ctx, fleet, curve, ceiling, s, j, row,
                  Frugal(JointCells(ctx, fleet, curve, ceiling, s, j, row)))
<1> DEFINE cells == JointCells(ctx, fleet, curve, ceiling, s, j, row)
           cell == Frugal(cells)
           new(i, b) == Extended(ctx, fleet, curve, ceiling, b, s, i, j)
           cost(i, p) == StepCost(ctx, fleet, curve, s, i, j, p)
           may(i, p) == Passable(ctx, fleet, curve, ceiling, s, i, j, p)
<1>1. cells = UNION {UNION {new(i, b) : b \in Entering(s, row, i)} : i \in Into(s, j)}
  BY Zenon DEF JointCells, Into, Entering
<1>2. cell = {c \in cells : \A d \in cells : c.energy < d.energy \/ (c.energy = d.energy /\ c.from <= d.from)}
  BY Zenon DEF Frugal
<1>3. ASSUME NEW i \in Into(s, j), NEW b \in Entering(s, row, i) PROVE b \in Entries(ceiling)
  <2>1. CASE s = 1
    <3>1. ceiling * Unit \in Nat /\ b = Start
      BY <1>3, <2>1, CeilingNat DEF JointSuits, Entering
    <3> DEFINE limit == ceiling * Unit
    <3>2. 0 \in 0 .. limit
      <4>1. limit \in Nat
        BY <3>1
      <4> HIDE DEF limit
      <4> QED
        BY <4>1
    <3> QED
      BY <3>1, <3>2 DEF Start, Entries
  <2>2. CASE s # 1
    <3>1. s > 1 /\ i \in 1 .. Len(ctx.layers)
      <4>1. s > 1
        BY <2>2, SuitsNat DEF JointSuits
      <4> QED
        BY <4>1, IntoLayers DEF JointSuits
    <3> QED
      BY <2>2, <3>1 DEF Entering, JointRows
  <2> QED
    BY <2>1, <2>2
<1>4. ASSUME NEW i \in Into(s, j), NEW b \in Entering(s, row, i)
      PROVE  /\ \A e \in new(i, b) : /\ e \in Entries(ceiling) /\ e.from = i /\ may(i, e.point)
                                     /\ e.energy = b.energy + cost(i, e.point)
             /\ \A p : may(i, p) => \E e \in new(i, b) : e.energy <= b.energy + cost(i, p)
  BY <1>3, ExtendedIs
<1>5. \A i \in Into(s, j) : \A p : may(i, p) => cost(i, p) \in Nat
  BY StepNat DEF Passable
<1> HIDE DEF cells, new, cost, may
<1>6. \A e \in cells : \E i \in Into(s, j) : \E b \in Entering(s, row, i) : e \in new(i, b)
  BY <1>1
<1>7. \A i \in Into(s, j) : \A b \in Entering(s, row, i) : new(i, b) \subseteq cells
  BY <1>1
<1>8. \A e \in cells : e \in Entries(ceiling) /\ e.energy \in Nat /\ e.from \in Nat
  <2>1. \A e \in cells : e \in Entries(ceiling)
    BY <1>4, <1>6
  <2> QED
    BY <2>1 DEF Entries
<1>9. ASSUME NEW e \in cells PROVE \E d \in cell : d.energy <= e.energy
  <2> DEFINE f == [c \in cells |-> c.energy]
             g == [c \in cells |-> c.from]
  <2>1. \A c \in cells : f[c] = c.energy /\ g[c] = c.from /\ f[c] \in Nat /\ g[c] \in Nat
    BY <1>8
  <2> HIDE DEF f, g
  <2>2. \E c \in cells : \A d \in cells : f[c] < f[d] \/ (f[c] = f[d] /\ g[c] <= g[d])
    BY <2>1, LexLeast
  <2>3. PICK c \in cells : \A d \in cells : c.energy < d.energy \/ (c.energy = d.energy /\ c.from <= d.from)
    BY <2>1, <2>2
  <2>4. c \in cell
    BY <1>2, <2>3
  <2>5. c.energy <= e.energy
    BY <1>8, <2>3
  <2> QED
    BY <2>4, <2>5
<1>10. cell \subseteq cells /\ \A e, d \in cell : e.energy = d.energy
  <2>1. cell \subseteq cells
    BY <1>2
  <2>2. ASSUME NEW e \in cell, NEW d \in cell PROVE e.energy = d.energy
    <3>1. /\ e.energy < d.energy \/ e.energy = d.energy
          /\ d.energy < e.energy \/ d.energy = e.energy
      BY <1>2
    <3>2. e.energy \in Nat /\ d.energy \in Nat
      BY <1>8, <2>1
    <3> QED
      BY <3>1, <3>2
  <2> QED
    BY <2>1, <2>2
<1> HIDE DEF cell
<1>11. ASSUME NEW e \in cell
       PROVE  /\ e.from \in Into(s, j) /\ may(e.from, e.point)
              /\ \E b \in Entering(s, row, e.from) : e.energy = b.energy + cost(e.from, e.point)
  <2>1. PICK i \in Into(s, j) : \E b \in Entering(s, row, i) : e \in new(i, b)
    BY <1>6, <1>10
  <2>2. PICK b \in Entering(s, row, i) : e \in new(i, b)
    BY <2>1
  <2>3. e.from = i /\ may(i, e.point) /\ e.energy = b.energy + cost(i, e.point)
    BY <1>4, <2>2
  <2> QED
    BY <2>3
<1>12. ASSUME NEW i \in Into(s, j), NEW p, may(i, p), NEW b \in Entering(s, row, i)
       PROVE  \E e \in cell : e.energy <= b.energy + cost(i, p)
  <2>1. PICK e \in new(i, b) : e.energy <= b.energy + cost(i, p)
    BY <1>4, <1>12
  <2>2. e \in cells
    BY <1>7
  <2>3. PICK d \in cell : d.energy <= e.energy
    BY <1>9, <2>2
  <2>4. d.energy \in Nat /\ e.energy \in Nat /\ b.energy \in Nat /\ cost(i, p) \in Nat
    <3>1. d.energy \in Nat /\ e.energy \in Nat
      BY <1>8, <1>10, <2>2
    <3>2. b.energy \in Nat
      BY <1>3 DEF Entries
    <3> QED
      BY <1>5, <1>12, <3>1, <3>2
  <2>5. d.energy <= b.energy + cost(i, p)
    BY <2>1, <2>3, <2>4
  <2> QED
    BY <2>5
<1>13. cell \subseteq Entries(ceiling)
  BY <1>8, <1>10
<1> QED
  <2>1. CellIs(ctx, fleet, curve, ceiling, s, j, row, cell)
    BY <1>10, <1>11, <1>12, <1>13 DEF CellIs, may, cost
  <2> QED
    BY <2>1 DEF cell, cells

\* The table of the joint dynamic program.
JointRow(ctx, fleet, curve, ceiling, s, row) ==
    [j \in 1 .. Len(ctx.layers) |-> Frugal(JointCells(ctx, fleet, curve, ceiling, s, j, row))]

JointTabled(ctx, fleet, curve, ceiling, dp) ==
    /\ dp \in [1 .. Len(fleet) -> JointRows(ctx, ceiling)]
    /\ \A s \in 1 .. Len(fleet), j \in 1 .. Len(ctx.layers) :
          CellIs(ctx, fleet, curve, ceiling, s, j, IF s = 1 THEN <<>> ELSE dp[s - 1], dp[s][j])

LEMMA JointTableExists ==
    ASSUME NEW ctx, NEW fleet, NEW curve, NEW ceiling, JointSuits(ctx, fleet, curve, ceiling)
    PROVE  JointTabled(ctx, fleet, curve, ceiling, JointDP(ctx, fleet, curve, ceiling))
<1> DEFINE K == Len(fleet)
           R == JointRows(ctx, ceiling)
           next(s, row) == JointRow(ctx, fleet, curve, ceiling, s, row)
           first == next(1, <<>>)
           step == [p \in Nat \X R |-> IF p[1] \in 2 .. K THEN next(p[1], p[2]) ELSE first]
           table(dp) == dp = [s \in 1 .. K |->
                                [j \in 1 .. Len(ctx.layers) |->
                                    Frugal(JointCells(ctx, fleet, curve, ceiling, s, j,
                                                      IF s = 1 THEN <<>> ELSE dp[s - 1]))]]
           defined(dp) == dp = [s \in 1 .. K |-> next(s, IF s = 1 THEN <<>> ELSE dp[s - 1])]
<1>0. \A dp : table(dp) <=> defined(dp)
  BY Zenon DEF JointRow
<1>1. K \in Nat /\ K >= 1
  BY SuitsNat DEF JointSuits
<1>2. \A s \in 1 .. K : \A row : (s > 1 => row \in R) =>
         /\ next(s, row) \in R
         /\ \A j \in 1 .. Len(ctx.layers) : CellIs(ctx, fleet, curve, ceiling, s, j, row, next(s, row)[j])
  <2> TAKE s \in 1 .. K
  <2> TAKE row
  <2> HAVE s > 1 => row \in R
  <2>1. \A j \in 1 .. Len(ctx.layers) :
          CellIs(ctx, fleet, curve, ceiling, s, j, row,
                 Frugal(JointCells(ctx, fleet, curve, ceiling, s, j, row)))
    BY FrugalCell
  <2>2. \A j \in 1 .. Len(ctx.layers) :
          Frugal(JointCells(ctx, fleet, curve, ceiling, s, j, row)) \subseteq Entries(ceiling)
    BY <2>1 DEF CellIs
  <2>3. \A j \in 1 .. Len(ctx.layers) :
          next(s, row)[j] = Frugal(JointCells(ctx, fleet, curve, ceiling, s, j, row))
    BY DEF JointRow
  <2>4. next(s, row) \in R
    BY <2>2 DEF JointRow, JointRows
  <2> HIDE DEF next
  <2> QED
    BY <2>1, <2>3, <2>4
<1> HIDE DEF next, K, R
<1>3. first \in R /\ \A s \in 2 .. K, row \in R : next(s, row) \in R
  BY <1>1, <1>2
<1> HIDE DEF first
<1>4. step \in [Nat \X R -> R]
  BY <1>3
<1>5. \A s \in 2 .. K, row \in R : step[<<s, row>>] = next(s, row)
  BY <1>1
<1> HIDE DEF step
<1>6. PICK g \in [1 .. K -> R] : Follows(g, K, first, step)
  BY <1>1, <1>3, <1>4, Recursion
<1>7. defined(g)
  <2>1. ASSUME NEW s \in 1 .. K PROVE g[s] = next(s, IF s = 1 THEN <<>> ELSE g[s - 1])
    <3>1. CASE s = 1
      BY <1>6, <3>1 DEF Follows, first
    <3>2. CASE s # 1
      <4>1. s \in 2 .. K /\ s - 1 \in 1 .. K
        BY <1>1, <3>2
      <4>2. g[s] = step[<<s, g[s - 1]>>] /\ g[s - 1] \in R
        BY <1>6, <3>2, <4>1 DEF Follows
      <4> QED
        BY <1>5, <3>2, <4>1, <4>2
    <3> QED
      BY <3>1, <3>2
  <2>2. g = [s \in 1 .. K |-> g[s]]
    BY <1>6
  <2> QED
    BY <2>1, <2>2, Zenon
<1> DEFINE dp == CHOOSE h : table(h)
<1>8. table(dp)
  <2>1. table(g)
    BY <1>0, <1>7
  <2> HIDE DEF table
  <2> QED
    BY <2>1, Zenon
<1>9. defined(dp)
  BY <1>0, <1>8
<1>10. JointDP(ctx, fleet, curve, ceiling) = dp
  BY Zenon DEF JointDP, K
<1> HIDE DEF dp, table
<1>11. \A s \in 1 .. K : dp[s] = next(s, IF s = 1 THEN <<>> ELSE dp[s - 1])
  BY <1>9, Zenon
<1>12. \A s \in 1 .. K : dp[s] \in R
  <2> DEFINE T == {s \in 1 .. K : dp[s] \in R}
  <2>1. K >= 1 => 1 \in T
    <3>1. 1 \in 1 .. K
      BY <1>1
    <3>2. dp[1] = next(1, <<>>)
      BY <1>11, <3>1
    <3> QED
      BY <1>3, <3>1, <3>2 DEF first
  <2>2. ASSUME NEW s \in 1 .. K - 1, s \in T PROVE s + 1 \in T
    <3>1. s + 1 \in 2 .. K /\ s + 1 \in 1 .. K /\ (s + 1) - 1 = s /\ s + 1 # 1
      BY <1>1
    <3>2. dp[s + 1] = next(s + 1, dp[s]) /\ dp[s] \in R
      BY <1>11, <2>2, <3>1
    <3> QED
      BY <1>3, <3>1, <3>2
  <2>3. 1 .. K \subseteq T
    <3> HIDE DEF T
    <3> QED
      BY <1>1, <2>1, <2>2, InductUpTo
  <2> QED
    BY <2>3
<1>13. dp \in [1 .. K -> R]
  <2>1. \E e : dp = [s \in 1 .. K |-> next(s, IF s = 1 THEN <<>> ELSE e[s - 1])]
    BY <1>9, Zenon
  <2>2. dp = [s \in 1 .. K |-> dp[s]]
    BY <2>1
  <2> QED
    BY <1>12, <2>2
<1>14. ASSUME NEW s \in 1 .. K, NEW j \in 1 .. Len(ctx.layers)
       PROVE  CellIs(ctx, fleet, curve, ceiling, s, j, IF s = 1 THEN <<>> ELSE dp[s - 1], dp[s][j])
  <2> DEFINE row == IF s = 1 THEN <<>> ELSE dp[s - 1]
  <2>1. s > 1 => row \in R
    <3>1. s > 1 => s - 1 \in 1 .. K
      BY <1>1
    <3> QED
      BY <1>12, <3>1
  <2>2. dp[s] = next(s, row)
    BY <1>11
  <2> HIDE DEF row
  <2>3. CellIs(ctx, fleet, curve, ceiling, s, j, row, next(s, row)[j])
    BY <1>2, <2>1
  <2> QED
    BY <2>2, <2>3 DEF row
<1> QED
  BY <1>10, <1>13, <1>14 DEF JointTabled, K, R

\* The cost of a choice, stage by stage.
LEMMA PrefixSums ==
    ASSUME NEW n \in Nat, NEW f \in [1 .. n -> Nat]
    PROVE  /\ SumFunction(f) = SumOver(f, 1 .. n)
           /\ SumOver(f, 1 .. 0) = 0
           /\ \A s \in 1 .. n : /\ SumOver(f, 1 .. s - 1) \in Nat
                                /\ SumOver(f, 1 .. s) = SumOver(f, 1 .. s - 1) + f[s]
<1>1. SumFunction(f) = SumOver(f, 1 .. n)
  <2>1. DOMAIN f = 1 .. n
    OBVIOUS
  <2>2. SumFunction(f) = SumOver(f, DOMAIN f)
    BY Zenon DEF SumFunction, SumFunctionOnSet, FoldFunctionOnSet, SumOver
  <2> QED
    BY <2>1, <2>2
<1>2. SumOver(f, 1 .. 0) = 0
  <2>1. 1 .. 0 = {}
    OBVIOUS
  <2> QED
    BY <2>1, SumEmpty
<1>3. ASSUME NEW s \in 1 .. n
      PROVE  SumOver(f, 1 .. s - 1) \in Nat /\ SumOver(f, 1 .. s) = SumOver(f, 1 .. s - 1) + f[s]
  <2>1. IsFiniteSet(1 .. s - 1) /\ \A i \in 1 .. s - 1 : f[i] \in Nat
    <3>1. 1 \in Int /\ s - 1 \in Int /\ \A i \in 1 .. s - 1 : i \in 1 .. n
      OBVIOUS
    <3> QED
      BY <3>1, FS_Interval
  <2>2. SumOver(f, 1 .. s - 1) \in Nat
    BY <2>1, SumNaturals
  <2>3. s - 1 \in Nat /\ (s - 1) + 1 = s /\ f[s] \in Nat
    OBVIOUS
  <2>4. IntegersOn(f, 1 .. s)
    BY DEF IntegersOn
  <2>5. SumOver(f, 1 .. s) = f[s] + SumOver(f, 1 .. s - 1)
    BY <2>3, <2>4, SumLast
  <2> QED
    BY <2>2, <2>3, <2>5
<1> QED
  BY <1>1, <1>2, <1>3

\* A choice's segments, as steps of a table.
Ended(c, s) == IF s = 1 THEN 0 ELSE c[1][s - 1]

LEMMA ChoiceSteps ==
    ASSUME NEW ctx, NEW fleet, NEW goal, Suits(ctx, fleet),
           NEW c \in JointChoices(ctx, fleet, goal), NEW s \in 1 .. Len(fleet)
    PROVE  LET i == Ended(c, s)
               j == LastLayer(ctx, c[1], s)
           IN /\ j \in 1 .. Len(ctx.layers) /\ i \in Into(s, j)
              /\ s > 1 => i = LastLayer(ctx, c[1], s - 1)
              /\ s = Len(fleet) => j = Len(ctx.layers)
              /\ Fits(ctx, fleet[s], i + 1, j) /\ c[2][s] \in DOMAIN goal.curve
              /\ StageTime(ctx, fleet, c, s) = ExecTime(ctx, fleet, s, i + 1, j)
<1> DEFINE K == Len(fleet)
           n == Len(ctx.layers)
           cuts == c[1]
           i == Ended(c, s)
           j == LastLayer(ctx, cuts, s)
<1>1. K \in Nat /\ n \in Nat
  BY SuitsNat
<1>2. /\ cuts \in [1 .. K - 1 -> 1 .. n - 1] /\ Increasing(cuts)
      /\ Fits(ctx, fleet[s], FirstLayer(cuts, s), LastLayer(ctx, cuts, s))
      /\ c[2][s] \in DOMAIN goal.curve
  <2>1. /\ c[1] \in {q \in [1 .. K - 1 -> 1 .. n - 1] :
                        /\ Increasing(q)
                        /\ \A r \in 1 .. K : Fits(ctx, fleet[r], FirstLayer(q, r), LastLayer(ctx, q, r))}
        /\ c[2] \in [1 .. K -> DOMAIN goal.curve]
    BY DEF JointChoices
  <2> QED
    BY <2>1
<1> HIDE DEF K, n, cuts
<1>3. /\ Spanning(ctx, fleet, cuts)
      /\ LastLayer(ctx, cuts, s) >= s
      /\ s \in 2 .. K => LastLayer(ctx, cuts, s - 1) = cuts[s - 1] /\ FirstLayer(cuts, s) = cuts[s - 1] + 1
                         /\ LastLayer(ctx, cuts, s - 1) < LastLayer(ctx, cuts, s)
      /\ s \in 2 .. K => LastLayer(ctx, cuts, s - 1) >= s - 1
  <2>1. s \in 2 .. K => s - 1 \in 1 .. K
    BY <1>1
  <2> QED
    BY <1>1, <1>2, <2>1, CutsSpan DEF K, n
<1>4. j \in 1 .. n /\ FirstLayer(cuts, s) \in 1 .. n
  BY <1>3 DEF Spanning, K, n
<1>5. s > 1 => s \in 2 .. K
  BY <1>1 DEF K
<1>6. s > 1 => i = LastLayer(ctx, cuts, s - 1)
  BY <1>3, <1>5 DEF Ended, cuts
<1>7. i + 1 = FirstLayer(cuts, s)
  <2>1. CASE s = 1
    BY <2>1 DEF Ended, FirstLayer
  <2>2. CASE s # 1
    <3>1. s > 1
      BY <1>1, <2>2
    <3> QED
      BY <1>3, <1>5, <1>6, <3>1
  <2> QED
    BY <2>1, <2>2
<1>8. i \in Into(s, j)
  <2>1. CASE s = 1
    BY <2>1 DEF Ended, Into
  <2>2. CASE s # 1
    <3>1. s > 1
      BY <1>1, <2>2
    <3>2. i \in 1 .. n
      <4>1. s - 1 \in 1 .. K
        BY <1>1, <1>5, <3>1
      <4> QED
        BY <1>3, <1>6, <3>1, <4>1 DEF Spanning, K, n
    <3>3. i >= s - 1 /\ i < j
      BY <1>3, <1>5, <1>6, <3>1
    <3> HIDE DEF i, j
    <3> QED
      BY <1>1, <1>4, <2>2, <3>2, <3>3 DEF Into, Ends
  <2> QED
    BY <2>1, <2>2
<1>9. s = K => j = n
  <2>1. Len(cuts) = K - 1
    BY <1>3 DEF Spanning, K
  <2> QED
    BY <1>1, <2>1 DEF LastLayer, n
<1>10. StageTime(ctx, fleet, c, s) = ExecTime(ctx, fleet, s, i + 1, j)
  BY <1>7, Zenon DEF StageTime, cuts
<1>11. Fits(ctx, fleet[s], i + 1, j) /\ c[2][s] \in DOMAIN goal.curve
  BY <1>2, <1>7, Zenon
<1> QED
  BY <1>4, <1>6, <1>8, <1>9, <1>10, <1>11 DEF K, n, cuts

\* Ends read back from a table are cuts.
Preceding(end, s) == IF s = 1 THEN 0 ELSE end[s - 1]

EndsWithin(ctx, fleet, end) ==
    /\ \A s \in 1 .. Len(fleet) : end[s] \in 1 .. Len(ctx.layers) /\ Preceding(end, s) \in Into(s, end[s])
    /\ end[Len(fleet)] = Len(ctx.layers)

CutsFollow(ctx, fleet, end, cuts) ==
    /\ cuts \in [1 .. Len(fleet) - 1 -> 1 .. Len(ctx.layers) - 1] /\ Increasing(cuts)
    /\ \A s \in 1 .. Len(fleet) :
          LastLayer(ctx, cuts, s) = end[s] /\ FirstLayer(cuts, s) = Preceding(end, s) + 1

LEMMA EndsAreCuts ==
    ASSUME NEW ctx, NEW fleet, Suits(ctx, fleet), NEW end, EndsWithin(ctx, fleet, end),
           NEW cuts, cuts = [s \in 1 .. Len(fleet) - 1 |-> end[s]]
    PROVE  CutsFollow(ctx, fleet, end, cuts)
<1> DEFINE K == Len(fleet)
           n == Len(ctx.layers)
<1>1. K \in Nat /\ n \in Nat /\ K >= 1 /\ K <= n
  BY SuitsNat
<1>2. /\ \A s \in 1 .. K : end[s] \in 1 .. n /\ Preceding(end, s) \in Into(s, end[s])
      /\ end[K] = n
  BY DEF EndsWithin
<1>3. \A s \in 2 .. K : end[s - 1] < end[s] /\ end[s - 1] \in Nat
  <2> TAKE s \in 2 .. K
  <2>1. s \in 1 .. K /\ s # 1
    BY <1>1
  <2>2. Preceding(end, s) = end[s - 1]
    BY <2>1 DEF Preceding
  <2>3. Preceding(end, s) \in Nat /\ Preceding(end, s) < end[s]
    BY <1>1, <1>2, <2>1, IntoLayers
  <2> QED
    BY <2>2, <2>3
<1>4. cuts \in [1 .. K - 1 -> 1 .. n - 1]
  <2> SUFFICES ASSUME NEW s \in 1 .. K - 1 PROVE end[s] \in 1 .. n - 1
    OBVIOUS
  <2>1. s + 1 \in 2 .. K /\ (s + 1) - 1 = s /\ s \in 1 .. K /\ s + 1 \in 1 .. K
    BY <1>1
  <2>2. end[s] < end[s + 1]
    BY <1>3, <2>1
  <2>3. end[s] \in 1 .. n /\ end[s + 1] \in 1 .. n
    BY <1>2, <2>1
  <2> QED
    BY <1>1, <2>2, <2>3
<1>5. Len(cuts) = K - 1 /\ \A s \in 1 .. K - 1 : cuts[s] = end[s]
  <2>1. K - 1 \in Nat
    BY <1>1
  <2>2. Len(cuts) = K - 1
    BY <1>4, <2>1, LenOfFunction
  <2> QED
    BY <2>2
<1>6. Increasing(cuts)
  <2> SUFFICES ASSUME NEW s \in 1 .. Len(cuts) - 1 PROVE cuts[s] < cuts[s + 1]
    BY Zenon DEF Increasing
  <2>1. s \in 1 .. K - 1 /\ s + 1 \in 1 .. K - 1 /\ s + 1 \in 2 .. K /\ (s + 1) - 1 = s
    BY <1>1, <1>5
  <2>2. end[s] < end[s + 1]
    BY <1>3, <2>1
  <2> QED
    BY <1>5, <2>1, <2>2
<1>7. \A s \in 1 .. K : LastLayer(ctx, cuts, s) = end[s] /\ FirstLayer(cuts, s) = Preceding(end, s) + 1
  <2> TAKE s \in 1 .. K
  <2>1. LastLayer(ctx, cuts, s) = end[s]
    <3>1. CASE s = K
      BY <1>1, <1>2, <1>5, <3>1 DEF LastLayer
    <3>2. CASE s # K
      <4>1. s \in 1 .. K - 1
        BY <1>1, <3>2
      <4>2. Len(cuts) + 1 = K
        BY <1>1, <1>5
      <4>3. s # Len(cuts) + 1
        BY <3>2, <4>2
      <4> QED
        BY <1>5, <4>1, <4>3 DEF LastLayer
    <3> QED
      BY <3>1, <3>2
  <2>2. FirstLayer(cuts, s) = Preceding(end, s) + 1
    <3>1. CASE s = 1
      BY <3>1 DEF FirstLayer, Preceding
    <3>2. CASE s # 1
      <4>1. s - 1 \in 1 .. K - 1
        BY <1>1, <3>2
      <4> QED
        BY <1>5, <3>2, <4>1 DEF FirstLayer, Preceding
    <3> QED
      BY <3>1, <3>2
  <2> QED
    BY <2>1, <2>2
<1> QED
  BY <1>4, <1>6, <1>7 DEF CutsFollow

\* A choice's stages, as steps of the table.
Costs(ctx, fleet, goal, c) ==
    [s \in 1 .. Len(fleet) |-> Energy(fleet[s], StageTime(ctx, fleet, c, s), goal.curve[c[2][s]])]

LEMMA AdmittedSteps ==
    ASSUME NEW ctx, NEW fleet, NEW goal, JointSuits(ctx, fleet, goal.curve, goal.ceiling),
           NEW c \in JointAdmitted(ctx, fleet, goal), NEW s \in 1 .. Len(fleet)
    PROVE  LET i == Ended(c, s)
               j == LastLayer(ctx, c[1], s)
               p == c[2][s]
           IN /\ j \in 1 .. Len(ctx.layers) /\ i \in Into(s, j)
              /\ s > 1 => i = LastLayer(ctx, c[1], s - 1)
              /\ s = Len(fleet) => j = Len(ctx.layers)
              /\ Passable(ctx, fleet, goal.curve, goal.ceiling, s, i, j, p)
              /\ Costs(ctx, fleet, goal, c)[s] = StepCost(ctx, fleet, goal.curve, s, i, j, p)
              /\ StepCost(ctx, fleet, goal.curve, s, i, j, p) \in Nat
<1> DEFINE i == Ended(c, s)
           j == LastLayer(ctx, c[1], s)
           p == c[2][s]
<1>1. c \in JointChoices(ctx, fleet, goal) /\ Suits(ctx, fleet)
  BY DEF JointAdmitted, JointSuits
<1>2. Admissible(fleet[s], StageTime(ctx, fleet, c, s), goal.curve[p], goal.ceiling)
  BY DEF JointAdmitted
<1>3. /\ j \in 1 .. Len(ctx.layers) /\ i \in Into(s, j)
      /\ s > 1 => i = LastLayer(ctx, c[1], s - 1)
      /\ s = Len(fleet) => j = Len(ctx.layers)
      /\ Fits(ctx, fleet[s], i + 1, j) /\ p \in DOMAIN goal.curve
      /\ StageTime(ctx, fleet, c, s) = ExecTime(ctx, fleet, s, i + 1, j)
  BY <1>1, ChoiceSteps
<1>4. Costs(ctx, fleet, goal, c)[s] = StepCost(ctx, fleet, goal.curve, s, i, j, p)
  BY <1>3 DEF Costs, StepCost
<1> HIDE DEF i, j, p
<1>5. Passable(ctx, fleet, goal.curve, goal.ceiling, s, i, j, p)
  BY <1>2, <1>3, Zenon DEF Passable
<1>6. StepCost(ctx, fleet, goal.curve, s, i, j, p) \in Nat
  BY <1>3, StepNat
<1> QED
  BY <1>3, <1>4, <1>5, <1>6 DEF i, j, p

\* No admitted choice costs less than the table says.
LEMMA JointIsBound ==
    ASSUME NEW ctx, NEW fleet, NEW goal, JointSuits(ctx, fleet, goal.curve, goal.ceiling),
           NEW dp, JointTabled(ctx, fleet, goal.curve, goal.ceiling, dp),
           NEW c \in JointAdmitted(ctx, fleet, goal)
    PROVE  \E e \in dp[Len(fleet)][Len(ctx.layers)] : e.energy <= JointCost(ctx, fleet, goal, c)
<1> DEFINE K == Len(fleet)
           n == Len(ctx.layers)
           curve == goal.curve
           f == Costs(ctx, fleet, goal, c)
           total(s) == SumOver(f, 1 .. s)
           last(s) == LastLayer(ctx, c[1], s)
           i(s) == Ended(c, s)
           p(s) == c[2][s]
           cost(s) == StepCost(ctx, fleet, curve, s, i(s), last(s), p(s))
           row(s) == IF s = 1 THEN <<>> ELSE dp[s - 1]
<1>1. K \in Nat /\ n \in Nat /\ K >= 1
  BY SuitsNat DEF JointSuits
<1>2. \A s \in 1 .. K : /\ last(s) \in 1 .. n /\ i(s) \in Into(s, last(s))
                        /\ s > 1 => i(s) = last(s - 1)
                        /\ s = K => last(s) = n
                        /\ Passable(ctx, fleet, curve, goal.ceiling, s, i(s), last(s), p(s))
                        /\ f[s] = cost(s) /\ cost(s) \in Nat
  BY AdmittedSteps
<1>3. f \in [1 .. K -> Nat]
  BY <1>2 DEF Costs
<1>4. JointCost(ctx, fleet, goal, c) = SumFunction(f)
  BY Zenon DEF JointCost, Costs
<1> HIDE DEF K, n, f, last, i, p, cost
<1>5. /\ SumFunction(f) = total(K) /\ total(0) = 0
      /\ \A s \in 1 .. K : total(s - 1) \in Nat /\ total(s) = total(s - 1) + f[s]
  BY <1>1, <1>3, PrefixSums
<1> HIDE DEF total
<1>6. \A s \in 1 .. K : \A b \in Entering(s, row(s), i(s)) :
         \E e \in dp[s][last(s)] : e.energy <= b.energy + cost(s)
  <2> TAKE s \in 1 .. K
  <2>1. CellIs(ctx, fleet, curve, goal.ceiling, s, last(s), row(s), dp[s][last(s)])
    BY <1>2 DEF JointTabled, K, n
  <2> HIDE DEF row
  <2> QED
    BY <1>2, <2>1 DEF CellIs, cost
<1>7. \A s \in 1 .. K : dp[s][last(s)] \subseteq Entries(goal.ceiling)
  BY <1>2 DEF JointTabled, JointRows, K, n
<1> DEFINE T == {s \in 1 .. K : \E e \in dp[s][last(s)] : e.energy <= total(s)}
<1>8. K >= 1 => 1 \in T
  <2>1. 1 \in 1 .. K /\ 1 - 1 = 0
    BY <1>1
  <2>2. Start \in Entering(1, row(1), i(1)) /\ Start.energy = 0
    BY DEF Entering, Start
  <2>3. total(1) = 0 + cost(1)
    BY <1>2, <1>5, <2>1
  <2>4. \E e \in dp[1][last(1)] : e.energy <= Start.energy + cost(1)
    BY <1>6, <2>1, <2>2
  <2> QED
    BY <2>1, <2>2, <2>3, <2>4
<1>9. ASSUME NEW s \in 1 .. K - 1, s \in T PROVE s + 1 \in T
  <2>1. s \in 1 .. K /\ s + 1 \in 1 .. K /\ (s + 1) - 1 = s /\ s + 1 # 1 /\ s + 1 > 1
    BY <1>1
  <2>2. PICK b \in dp[s][last(s)] : b.energy <= total(s)
    BY <1>9
  <2>3. b \in Entering(s + 1, row(s + 1), i(s + 1))
    <3>1. i(s + 1) = last(s) /\ row(s + 1) = dp[s]
      BY <1>2, <2>1
    <3> QED
      BY <2>1, <2>2, <3>1 DEF Entering
  <2>4. PICK e \in dp[s + 1][last(s + 1)] : e.energy <= b.energy + cost(s + 1)
    BY <1>6, <2>1, <2>3
  <2>5. total(s) \in Nat /\ total(s + 1) = total(s) + cost(s + 1) /\ cost(s + 1) \in Nat
    BY <1>2, <1>5, <2>1
  <2>6. b.energy \in Nat /\ e.energy \in Nat
    <3>1. b \in Entries(goal.ceiling) /\ e \in Entries(goal.ceiling)
      BY <1>7, <2>1, <2>2, <2>4
    <3> QED
      BY <3>1 DEF Entries
  <2>7. e.energy <= total(s + 1)
    BY <2>2, <2>4, <2>5, <2>6
  <2> QED
    BY <2>1, <2>4, <2>7
<1>10. 1 .. K \subseteq T
  <2> HIDE DEF T
  <2> QED
    BY <1>1, <1>8, <1>9, InductUpTo
<1>11. K \in 1 .. K
  BY <1>1
<1>12. last(K) = n
  BY <1>2, <1>11
<1> QED
  BY <1>4, <1>5, <1>10, <1>11, <1>12 DEF K, n

\* A plan is read back from the table: its ends, and one entry per stage.
JointTraced(ctx, fleet, curve, ceiling, dp, end) ==
    /\ end \in [1 .. Len(fleet) -> 1 .. Len(ctx.layers)] /\ end[Len(fleet)] = Len(ctx.layers)
    /\ \A s \in 1 .. Len(fleet) : dp[s][end[s]] # {}
    /\ \A s \in 1 .. Len(fleet) - 1 : end[s] = The(dp[s + 1][end[s + 1]]).from

ReadBack(fleet, dp, end) ==
    <<[s \in 1 .. Len(fleet) - 1 |-> end[s]],
      [s \in 1 .. Len(fleet) |-> The(dp[s][end[s]]).point]>>

LEMMA JointTraces ==
    ASSUME NEW ctx, NEW fleet, NEW curve, NEW ceiling, JointSuits(ctx, fleet, curve, ceiling),
           JointTabled(ctx, fleet, curve, ceiling, JointDP(ctx, fleet, curve, ceiling)),
           JointDP(ctx, fleet, curve, ceiling)[Len(fleet)][Len(ctx.layers)] # {}
    PROVE  LET dp == JointDP(ctx, fleet, curve, ceiling)
           IN \E end : /\ JointTraced(ctx, fleet, curve, ceiling, dp, end)
                       /\ JointPlan(ctx, fleet, curve, ceiling)
                          = {[cuts |-> [s \in 1 .. Len(fleet) - 1 |-> end[s]],
                              points |-> [s \in 1 .. Len(fleet) |-> The(dp[s][end[s]]).point],
                              energy |-> last.energy] : last \in dp[Len(fleet)][Len(ctx.layers)]}
<1> DEFINE K == Len(fleet)
           n == Len(ctx.layers)
           V == 1 .. n
           dp == JointDP(ctx, fleet, curve, ceiling)
           good == {q \in (1 .. K) \X V : dp[q[1]][q[2]] # {}}
           ref == [q \in (1 .. K) \X V |-> The(dp[q[1]][q[2]]).from]
           table(e) == e = [s \in 1 .. K |-> IF s = K THEN n ELSE The(dp[s + 1][e[s + 1]]).from]
<1>1. K \in Nat /\ n \in Nat /\ K >= 1 /\ K <= n /\ Suits(ctx, fleet)
  BY SuitsNat DEF JointSuits
<1>2. ASSUME NEW s \in 2 .. K, NEW j \in V, dp[s][j] # {}
      PROVE  The(dp[s][j]).from \in V /\ dp[s - 1][The(dp[s][j]).from] # {}
  <2> DEFINE e == The(dp[s][j])
             row == IF s = 1 THEN <<>> ELSE dp[s - 1]
  <2>1. s \in 1 .. K /\ s # 1 /\ s > 1
    BY <1>1
  <2>2. e \in dp[s][j]
    BY <1>2 DEF The
  <2>3. CellIs(ctx, fleet, curve, ceiling, s, j, row, dp[s][j])
    BY <2>1 DEF JointTabled
  <2>4. row = dp[s - 1]
    BY <2>1
  <2> HIDE DEF row, e, dp
  <2>5. e.from \in Into(s, j) /\ \E b \in Entering(s, row, e.from) : TRUE
    BY <2>2, <2>3 DEF CellIs
  <2>6. e.from \in V
    BY <1>1, <2>1, <2>5, IntoLayers
  <2>7. dp[s - 1][e.from] # {}
    BY <2>1, <2>4, <2>5 DEF Entering
  <2> QED
    BY <2>6, <2>7 DEF e
<1>3. dp[K][n] # {} /\ K \in 1 .. K /\ n \in V
  BY <1>1
<1>4. JointPlan(ctx, fleet, curve, ceiling)
      = LET end == CHOOSE e : table(e)
        IN {[cuts |-> [s \in 1 .. K - 1 |-> end[s]],
             points |-> [s \in 1 .. K |-> The(dp[s][end[s]]).point],
             energy |-> last.energy] : last \in dp[K][n]}
  BY Zenon DEF JointPlan
<1> HIDE DEF K, n, V, dp
<1>5. \A s \in 1 .. K, j \in V : /\ <<s, j>> \in good <=> dp[s][j] # {}
                                 /\ ref[<<s, j>>] = The(dp[s][j]).from
  OBVIOUS
<1>6. \A s \in 2 .. K : \A j \in V :
         <<s, j>> \in good => ref[<<s, j>>] \in V /\ <<s - 1, ref[<<s, j>>]>> \in good
  <2> TAKE s \in 2 .. K
  <2> TAKE j \in V
  <2> HAVE <<s, j>> \in good
  <2>1. s \in 1 .. K /\ s - 1 \in 1 .. K
    BY <1>1
  <2>2. dp[s][j] # {} /\ ref[<<s, j>>] = The(dp[s][j]).from
    BY <1>5, <2>1
  <2> HIDE DEF good, ref
  <2>3. The(dp[s][j]).from \in V /\ dp[s - 1][The(dp[s][j]).from] # {}
    BY <1>2, <2>2
  <2> QED
    BY <1>5, <2>1, <2>2, <2>3
<1>7. <<K, n>> \in good
  BY <1>3, <1>5
<1> HIDE DEF good, ref
<1>8. PICK end \in [1 .. K -> V] : Chain(K, n, good, ref, end)
  BY <1>1, <1>3, <1>6, <1>7, BackpointersLead
<1>9. /\ end[K] = n /\ \A s \in 1 .. K : end[s] \in V /\ dp[s][end[s]] # {}
      /\ \A s \in 1 .. K - 1 : end[s] = The(dp[s + 1][end[s + 1]]).from
  <2>1. \A s \in 1 .. K - 1 : s + 1 \in 1 .. K
    BY <1>1
  <2>2. \A s \in 1 .. K : end[s] \in V
    OBVIOUS
  <2> QED
    BY <1>5, <1>8, <2>1, <2>2 DEF Chain
<1>10. table(end)
  <2>1. ASSUME NEW s \in 1 .. K PROVE end[s] = IF s = K THEN n ELSE The(dp[s + 1][end[s + 1]]).from
    <3>1. s # K => s \in 1 .. K - 1
      BY <1>1
    <3> QED
      BY <1>9, <3>1
  <2>2. end = [s \in 1 .. K |-> end[s]]
    OBVIOUS
  <2> QED
    BY <2>1, <2>2, Zenon
<1> DEFINE g == CHOOSE e : table(e)
<1>11. table(g)
  <2> HIDE DEF table
  <2> QED
    BY <1>10, Zenon
<1>12. JointPlan(ctx, fleet, curve, ceiling)
       = {[cuts |-> [s \in 1 .. K - 1 |-> g[s]],
           points |-> [s \in 1 .. K |-> The(dp[s][g[s]]).point],
           energy |-> last.energy] : last \in dp[K][n]}
  BY <1>4, Zenon
<1> HIDE DEF g
<1>13. g[K] = n /\ \A s \in 1 .. K - 1 : g[s] = The(dp[s + 1][g[s + 1]]).from
  <2>1. \A s \in 1 .. K - 1 : s \in 1 .. K /\ s # K
    BY <1>1
  <2> QED
    BY <1>3, <1>11, <2>1
<1>14. g = end
  <2> DEFINE T == {s \in 1 .. K : g[s] = end[s]}
  <2>1. K \in T
    BY <1>3, <1>9, <1>13
  <2>2. ASSUME NEW s \in 1 .. K - 1, s + 1 \in T PROVE s \in T
    BY <1>1, <1>9, <1>13, <2>2
  <2>3. 1 .. K \subseteq T
    <3> HIDE DEF T
    <3> QED
      BY <1>1, <2>1, <2>2, InductDown
  <2>4. \E e : g = [s \in 1 .. K |-> IF s = K THEN n ELSE The(dp[s + 1][e[s + 1]]).from]
    BY <1>11
  <2>5. g = [s \in 1 .. K |-> g[s]]
    BY <2>4
  <2>6. end = [s \in 1 .. K |-> end[s]]
    OBVIOUS
  <2> QED
    BY <2>3, <2>5, <2>6
<1>15. JointTraced(ctx, fleet, curve, ceiling, dp, end)
  BY <1>9 DEF JointTraced, K, n, V
<1>16. JointPlan(ctx, fleet, curve, ceiling)
       = {[cuts |-> [s \in 1 .. K - 1 |-> end[s]],
           points |-> [s \in 1 .. K |-> The(dp[s][end[s]]).point],
           energy |-> last.energy] : last \in dp[K][n]}
  BY <1>12, <1>14, Zenon
<1> QED
  BY <1>15, <1>16, Zenon DEF K, n, dp

\* What is read back is admitted, and costs what the table says.
ReadRight(ctx, fleet, goal, dp, end) ==
    /\ ReadBack(fleet, dp, end) \in JointAdmitted(ctx, fleet, goal)
    /\ \A e \in dp[Len(fleet)][Len(ctx.layers)] :
          e.energy = JointCost(ctx, fleet, goal, ReadBack(fleet, dp, end))

LEMMA JointTracedIsAdmitted ==
    ASSUME NEW ctx, NEW fleet, NEW goal, JointSuits(ctx, fleet, goal.curve, goal.ceiling),
           NEW dp, JointTabled(ctx, fleet, goal.curve, goal.ceiling, dp),
           NEW end, JointTraced(ctx, fleet, goal.curve, goal.ceiling, dp, end)
    PROVE  ReadRight(ctx, fleet, goal, dp, end)
<1> DEFINE K == Len(fleet)
           n == Len(ctx.layers)
           curve == goal.curve
           entry(s) == The(dp[s][end[s]])
           cuts == [s \in 1 .. K - 1 |-> end[s]]
           points == [s \in 1 .. K |-> entry(s).point]
           c == <<cuts, points>>
           i(s) == IF s = 1 THEN 0 ELSE end[s - 1]
           row(s) == IF s = 1 THEN <<>> ELSE dp[s - 1]
           cost(s) == StepCost(ctx, fleet, curve, s, i(s), end[s], entry(s).point)
<1>1. K \in Nat /\ n \in Nat /\ K >= 1 /\ K <= n /\ Suits(ctx, fleet)
  BY SuitsNat DEF JointSuits
<1>2. \A s \in 1 .. K : end[s] \in 1 .. n /\ entry(s) \in dp[s][end[s]]
  BY DEF JointTraced, The
<1>3. end[K] = n /\ \A s \in 2 .. K : end[s - 1] = entry(s).from
  <2>1. \A s \in 2 .. K : s - 1 \in 1 .. K - 1 /\ (s - 1) + 1 = s
    BY <1>1
  <2> QED
    BY <2>1 DEF JointTraced
<1> HIDE DEF K, n, entry
<1>4. ASSUME NEW s \in 1 .. K
      PROVE  /\ entry(s).from = i(s) /\ i(s) \in Into(s, end[s])
             /\ Passable(ctx, fleet, curve, goal.ceiling, s, i(s), end[s], entry(s).point)
             /\ \E b \in Entering(s, row(s), i(s)) : entry(s).energy = b.energy + cost(s)
             /\ \A e \in dp[s][end[s]] : e.energy = entry(s).energy /\ e.energy \in Nat
  <2>1. CellIs(ctx, fleet, curve, goal.ceiling, s, end[s], row(s), dp[s][end[s]])
    BY <1>2 DEF JointTabled, K, n
  <2>2. entry(s) \in dp[s][end[s]]
    BY <1>2
  <2> HIDE DEF row
  <2>3. entry(s).from \in Into(s, end[s])
        /\ Passable(ctx, fleet, curve, goal.ceiling, s, entry(s).from, end[s], entry(s).point)
        /\ \E b \in Entering(s, row(s), entry(s).from) :
              entry(s).energy = b.energy + StepCost(ctx, fleet, curve, s, entry(s).from, end[s], entry(s).point)
    BY <2>1, <2>2 DEF CellIs
  <2>4. entry(s).from = i(s)
    <3>1. CASE s = 1
      BY <2>3, <3>1 DEF Into
    <3>2. CASE s # 1
      <4>1. s \in 2 .. K
        BY <1>1, <3>2
      <4> QED
        BY <1>3, <3>2, <4>1
    <3> QED
      BY <3>1, <3>2
  <2>5. \A e \in dp[s][end[s]] : e.energy = entry(s).energy /\ e.energy \in Nat
    BY <2>1, <2>2 DEF CellIs, Entries
  <2> HIDE DEF i
  <2> QED
    BY <2>3, <2>4, <2>5
<1>5. /\ cuts \in [1 .. K - 1 -> 1 .. n - 1] /\ Increasing(cuts)
      /\ \A s \in 1 .. K : LastLayer(ctx, cuts, s) = end[s] /\ FirstLayer(cuts, s) = i(s) + 1
  <2>1. \A s \in 1 .. K : Preceding(end, s) = i(s)
    BY DEF Preceding
  <2>2. EndsWithin(ctx, fleet, end)
    BY <1>2, <1>3, <1>4, <2>1 DEF EndsWithin, K, n
  <2>3. cuts = [s \in 1 .. Len(fleet) - 1 |-> end[s]]
    BY DEF K
  <2> HIDE DEF cuts, i
  <2>4. CutsFollow(ctx, fleet, end, cuts)
    BY <1>1, <2>2, <2>3, EndsAreCuts
  <2> QED
    BY <2>1, <2>4 DEF CutsFollow, K, n
<1>6. c[1] = cuts /\ c[2] = points /\ \A s \in 1 .. K : points[s] = entry(s).point
  OBVIOUS
<1> HIDE DEF c, cuts, points
<1>7. \A s \in 1 .. K : StageTime(ctx, fleet, c, s) = ExecTime(ctx, fleet, s, i(s) + 1, end[s])
  BY <1>5, <1>6 DEF StageTime
<1> HIDE DEF i
<1>8. c \in JointAdmitted(ctx, fleet, goal)
  <2>1. \A s \in 1 .. K :
          /\ entry(s).point \in DOMAIN curve /\ Fits(ctx, fleet[s], FirstLayer(cuts, s), LastLayer(ctx, cuts, s))
          /\ Admissible(fleet[s], StageTime(ctx, fleet, c, s), curve[c[2][s]], goal.ceiling)
    BY <1>4, <1>5, <1>6, <1>7 DEF Passable
  <2>2. points \in [1 .. K -> DOMAIN curve]
    BY <2>1 DEF points
  <2>3. cuts \in {q \in [1 .. K - 1 -> 1 .. n - 1] :
                    /\ Increasing(q)
                    /\ \A s \in 1 .. K : Fits(ctx, fleet[s], FirstLayer(q, s), LastLayer(ctx, q, s))}
    BY <1>5, <2>1
  <2>4. c \in JointChoices(ctx, fleet, goal)
    BY <2>2, <2>3 DEF JointChoices, c, K, n
  <2> QED
    BY <2>1, <2>4 DEF JointAdmitted, K
<1> DEFINE f == Costs(ctx, fleet, goal, c)
           total(s) == SumOver(f, 1 .. s)
<1>9. \A s \in 1 .. K : f[s] = cost(s) /\ cost(s) \in Nat
  <2> TAKE s \in 1 .. K
  <2>1. f[s] = cost(s)
    BY <1>6, <1>7 DEF Costs, StepCost, K
  <2>2. i(s) \in Into(s, end[s]) /\ entry(s).point \in DOMAIN curve /\ end[s] \in 1 .. n
    BY <1>2, <1>4 DEF Passable
  <2>3. cost(s) \in Nat
    BY <2>2, StepNat DEF K, n
  <2> QED
    BY <2>1, <2>3
<1>10. f \in [1 .. K -> Nat]
  BY <1>9 DEF Costs, K
<1>11. JointCost(ctx, fleet, goal, c) = SumFunction(f)
  BY Zenon DEF JointCost, Costs
<1> HIDE DEF f, cost
<1>12. /\ SumFunction(f) = total(K) /\ total(0) = 0
       /\ \A s \in 1 .. K : total(s - 1) \in Nat /\ total(s) = total(s - 1) + f[s]
  BY <1>1, <1>10, PrefixSums
<1> HIDE DEF total
<1> DEFINE T == {s \in 1 .. K : entry(s).energy = total(s)}
<1>13. K >= 1 => 1 \in T
  <2>1. 1 \in 1 .. K /\ 1 - 1 = 0
    BY <1>1
  <2>2. PICK b \in Entering(1, row(1), i(1)) : entry(1).energy = b.energy + cost(1)
    BY <1>4, <2>1
  <2>3. b.energy = 0
    BY DEF Entering, Start
  <2>4. total(1) = 0 + cost(1)
    BY <1>9, <1>12, <2>1
  <2> QED
    BY <2>1, <2>2, <2>3, <2>4
<1>14. ASSUME NEW s \in 1 .. K - 1, s \in T PROVE s + 1 \in T
  <2>1. s \in 1 .. K /\ s + 1 \in 1 .. K /\ (s + 1) - 1 = s /\ s + 1 # 1
    BY <1>1
  <2>2. PICK b \in Entering(s + 1, row(s + 1), i(s + 1)) : entry(s + 1).energy = b.energy + cost(s + 1)
    BY <1>4, <2>1
  <2>3. b \in dp[s][end[s]]
    BY <2>1, <2>2 DEF Entering, i
  <2>4. b.energy = total(s)
    BY <1>4, <1>14, <2>1, <2>3
  <2>5. total(s + 1) = total(s) + cost(s + 1)
    BY <1>9, <1>12, <2>1
  <2> QED
    BY <2>1, <2>2, <2>4, <2>5
<1>15. K \in T
  <2>1. 1 .. K \subseteq T
    <3> HIDE DEF T
    <3> QED
      BY <1>1, <1>13, <1>14, InductUpTo
  <2>2. K \in 1 .. K
    BY <1>1
  <2> QED
    BY <2>1, <2>2
<1>16. \A e \in dp[K][n] : e.energy = JointCost(ctx, fleet, goal, c)
  <2>1. K \in 1 .. K
    BY <1>1
  <2> QED
    BY <1>3, <1>4, <1>11, <1>12, <1>15, <2>1
<1> QED
  <2>1. ReadBack(fleet, dp, end) = c
    BY Zenon DEF ReadBack, c, cuts, points, entry, K
  <2> QED
    BY <1>8, <1>16, <2>1 DEF ReadRight, K, n

\* The plan of the joint partitioner against every choice.
JointBest(ctx, fleet, goal) ==
    LET ok == JointAdmitted(ctx, fleet, goal)
        plans == JointPlan(ctx, fleet, goal.curve, goal.ceiling)
    IN /\ plans = {} <=> ok = {}
       /\ \A p \in plans :
            /\ <<p.cuts, p.points>> \in ok
            /\ p.energy = JointCost(ctx, fleet, goal, <<p.cuts, p.points>>)
            /\ \A c \in ok : p.energy <= JointCost(ctx, fleet, goal, c)

LEMMA JointPlanIsBest ==
    ASSUME NEW ctx, NEW fleet, NEW goal, JointSuits(ctx, fleet, goal.curve, goal.ceiling)
    PROVE  JointBest(ctx, fleet, goal)
<1> DEFINE dp == JointDP(ctx, fleet, goal.curve, goal.ceiling)
           K == Len(fleet)
           n == Len(ctx.layers)
           cell == dp[K][n]
           ok == JointAdmitted(ctx, fleet, goal)
           plans == JointPlan(ctx, fleet, goal.curve, goal.ceiling)
           cost(c) == JointCost(ctx, fleet, goal, c)
<1>1. JointTabled(ctx, fleet, goal.curve, goal.ceiling, dp)
  BY JointTableExists
<1>2. \A c \in ok : \E e \in cell : e.energy <= cost(c)
  BY <1>1, JointIsBound
<1>3. CASE cell = {}
  <2>1. ok = {}
    BY <1>2, <1>3
  <2>2. plans = {}
    BY <1>3, Zenon DEF JointPlan
  <2> QED
    BY <2>1, <2>2, Zenon DEF JointBest
<1>4. CASE cell # {}
  <2>1. PICK end : /\ JointTraced(ctx, fleet, goal.curve, goal.ceiling, dp, end)
                   /\ plans = {[cuts |-> [s \in 1 .. K - 1 |-> end[s]],
                                points |-> [s \in 1 .. K |-> The(dp[s][end[s]]).point],
                                energy |-> last.energy] : last \in cell}
    BY <1>1, <1>4, JointTraces
  <2> DEFINE cuts == [s \in 1 .. K - 1 |-> end[s]]
             points == [s \in 1 .. K |-> The(dp[s][end[s]]).point]
  <2>2. <<cuts, points>> \in ok /\ \A e \in cell : e.energy = cost(<<cuts, points>>)
    <3>1. JointTraced(ctx, fleet, goal.curve, goal.ceiling, dp, end)
      BY <2>1
    <3>2. ReadBack(fleet, dp, end) = <<cuts, points>>
      BY Zenon DEF ReadBack
    <3> HIDE DEF dp, cuts, points
    <3>3. ReadRight(ctx, fleet, goal, dp, end)
      BY <1>1, <3>1, JointTracedIsAdmitted
    <3> QED
      BY <3>2, <3>3 DEF ReadRight
  <2>3. plans = {[cuts |-> cuts, points |-> points, energy |-> last.energy] : last \in cell}
    BY <2>1
  <2> HIDE DEF plans, ok, cost, cell, cuts, points
  <2>4. plans # {} /\ ok # {}
    BY <1>4, <2>2, <2>3
  <2>5. ASSUME NEW p \in plans
        PROVE  <<p.cuts, p.points>> \in ok /\ p.energy = cost(<<p.cuts, p.points>>)
               /\ \A c \in ok : p.energy <= cost(c)
    <3>1. PICK last \in cell : p = [cuts |-> cuts, points |-> points, energy |-> last.energy]
      BY <2>3
    <3>2. p.cuts = cuts /\ p.points = points /\ p.energy = last.energy
      BY <3>1
    <3>3. \A e \in cell : e.energy = p.energy
      BY <2>2, <3>2
    <3> QED
      BY <1>2, <2>2, <3>2, <3>3
  <2> QED
    BY <2>4, <2>5 DEF JointBest, plans, ok, cost
<1> QED
  BY <1>3, <1>4

\* The stages of a first repartition, and the first few of them.
LEMMA PipelinesSuit ==
    ASSUME PartInv, Asked, NEW fleet \in Pipelines, NEW goal \in Goals
    PROVE  JointSuits(context, fleet, goal.curve, goal.ceiling)
<1>1. stages \in StageLists /\ Len(stages) <= Len(context.layers) /\ context \in Contexts
  BY DEF PartInv, PartTypeOK, Asked
<1>2. Suits(context, stages) /\ stages \in Seq(StageType) /\ Len(stages) \in Nat
  BY <1>1, AskedSuits, SuitsNat
<1>3. PICK K \in 1 .. Len(stages) : fleet = SubSeq(stages, 1, K)
  BY DEF Pipelines
<1>4. fleet \in Seq(StageType) /\ Len(fleet) = K
  BY <1>2, <1>3, SubSeqProperties
<1>5. Suits(context, fleet)
  BY <1>2, <1>3, <1>4 DEF Suits, ContextType
<1>6. goal.curve \in Seq(PointType) /\ goal.ceiling \in Nat
  BY PartitionerAssumption DEF PointType
<1> QED
  BY <1>5, <1>6 DEF JointSuits

\* JointIsBest: joint_partition finds an admissible choice of cuts and throttles
\* exactly where there is one, and none that costs less energy.
THEOREM JointIsAlwaysBest == PartitionSpec => []JointIsBest
<1>1. PartInv => JointIsBest
  <2> SUFFICES ASSUME PartInv, Asked, NEW fleet \in Pipelines, NEW goal \in Goals
               PROVE  JointBest(context, fleet, goal)
    BY Zenon DEF JointIsBest, JointBest
  <2> QED
    BY PipelinesSuit, JointPlanIsBest
<1> QED
  BY <1>1, PartitionInvariance, PTL
-----------------------------------------------------------------------------
(* The stochastic joint partitioner: a frontier of mean and variance.      *)

FrontierEntries == [mean : Nat, var : Nat, from : Nat, point : Nat, entry : Nat]

AtMost(a, b) == a.mean <= b.mean /\ a.var <= b.var

Covers(frontier, e) == \E k \in 1 .. Len(frontier) : AtMost(frontier[k], e)

LEMMA AtMostChains ==
    ASSUME NEW a \in FrontierEntries, NEW b \in FrontierEntries, NEW c \in FrontierEntries, AtMost(a, b), AtMost(b, c)
    PROVE  AtMost(a, c)
BY DEF AtMost, FrontierEntries

\* What is inserted, or was there before, is covered.
InsertedRight(frontier, new, after) ==
    /\ after \in Seq(FrontierEntries)
    /\ \A k \in 1 .. Len(after) : after[k] = new \/ \E x \in 1 .. Len(frontier) : after[k] = frontier[x]
    /\ Covers(after, new)
    /\ \A x \in 1 .. Len(frontier) : Covers(after, frontier[x])

LEMMA InsertedIs ==
    ASSUME NEW frontier \in Seq(FrontierEntries), NEW new \in FrontierEntries
    PROVE  InsertedRight(frontier, new, Inserted(frontier, new))
<1> DEFINE beaten(k) == Dominates(frontier[k], new) \/ (frontier[k].mean = new.mean /\ frontier[k].var = new.var)
           n == Len(frontier)
           pieces == [k \in DOMAIN frontier |-> IF Dominates(new, frontier[k]) THEN <<>> ELSE <<frontier[k]>>]
           rest == FlattenSeq(pieces)
<1>1. DOMAIN frontier = 1 .. n /\ n \in Nat
  OBVIOUS
<1>2. \A k \in 1 .. n : frontier[k] \in FrontierEntries
  BY <1>1
<1>3. Inserted(frontier, new) = IF \E k \in 1 .. n : beaten(k) THEN frontier ELSE Append(rest, new)
  BY <1>1, Zenon DEF Inserted
<1>4. \A e \in FrontierEntries : AtMost(e, e)
  BY DEF AtMost, FrontierEntries
<1>5. CASE \E k \in 1 .. n : beaten(k)
  <2>1. PICK k \in 1 .. n : beaten(k)
    BY <1>5
  <2>2. AtMost(frontier[k], new)
    <3>1. frontier[k].mean \in Nat /\ frontier[k].var \in Nat
      BY <1>2 DEF FrontierEntries
    <3>2. Dominates(frontier[k], new) => AtMost(frontier[k], new)
      BY DEF Dominates, AtMost
    <3>3. frontier[k].mean = new.mean /\ frontier[k].var = new.var => AtMost(frontier[k], new)
      BY <3>1 DEF AtMost
    <3> QED
      BY <2>1, <3>2, <3>3
  <2>3. Inserted(frontier, new) = frontier
    BY <1>3, <1>5
  <2> HIDE DEF beaten
  <2>4. InsertedRight(frontier, new, frontier)
    BY <1>2, <1>4, <2>2 DEF InsertedRight, Covers
  <2> QED
    BY <2>3, <2>4
<1>6. CASE ~\E k \in 1 .. n : beaten(k)
  <2> DEFINE after == Append(rest, new)
  <2>1. Inserted(frontier, new) = after
    BY <1>3, <1>6
  <2>2. pieces \in [1 .. n -> Seq(FrontierEntries)]
    BY <1>1, <1>2
  <2>3. \A k \in 1 .. n : pieces[k] = IF Dominates(new, frontier[k]) THEN <<>> ELSE <<frontier[k]>>
    BY <1>1
  <2> HIDE DEF beaten, pieces
  <2>4. /\ rest \in Seq(FrontierEntries)
        /\ \A k \in 1 .. Len(rest) : \E i \in 1 .. n : \E x \in 1 .. Len(pieces[i]) : rest[k] = pieces[i][x]
        /\ \A i \in 1 .. n : \A x \in 1 .. Len(pieces[i]) : \E k \in 1 .. Len(rest) : rest[k] = pieces[i][x]
    <3>1. HasPieces(FrontierEntries, n, pieces)
      BY <1>1, <2>2, FlattenHas
    <3> QED
      BY <3>1 DEF HasPieces
  <2> HIDE DEF rest
  <2>5. /\ after \in Seq(FrontierEntries) /\ Len(after) = Len(rest) + 1 /\ Len(rest) \in Nat
        /\ \A k \in 1 .. Len(rest) : after[k] = rest[k]
        /\ after[Len(rest) + 1] = new
    BY <2>4
  <2> HIDE DEF after
  <2>6. ASSUME NEW k \in 1 .. Len(after) PROVE after[k] = new \/ \E x \in 1 .. n : after[k] = frontier[x]
    <3>1. CASE k = Len(rest) + 1
      BY <2>5, <3>1
    <3>2. CASE k # Len(rest) + 1
      <4>1. k \in 1 .. Len(rest)
        BY <2>5, <3>2
      <4>2. PICK i \in 1 .. n : \E x \in 1 .. Len(pieces[i]) : rest[k] = pieces[i][x]
        BY <2>4, <4>1
      <4>3. rest[k] = frontier[i]
        <5>1. CASE Dominates(new, frontier[i])
          <6>1. pieces[i] = <<>>
            BY <2>3, <5>1
          <6>2. \A x \in 1 .. Len(pieces[i]) : FALSE
            BY <6>1
          <6> QED
            BY <4>2, <6>2
        <5>2. CASE ~Dominates(new, frontier[i])
          <6>1. pieces[i] = <<frontier[i]>>
            BY <2>3, <5>2
          <6> QED
            BY <4>2, <6>1
        <5> QED
          BY <5>1, <5>2
      <4> QED
        BY <2>5, <4>1, <4>3
    <3> QED
      BY <3>1, <3>2
  <2>7. Len(rest) + 1 \in 1 .. Len(after)
    BY <2>5
  <2>8. Covers(after, new)
    BY <1>4, <2>5, <2>7 DEF Covers
  <2>9. ASSUME NEW x \in 1 .. n PROVE Covers(after, frontier[x])
    <3>1. CASE Dominates(new, frontier[x])
      <4>1. AtMost(new, frontier[x])
        BY <3>1 DEF Dominates, AtMost
      <4> QED
        BY <2>5, <2>7, <4>1 DEF Covers
    <3>2. CASE ~Dominates(new, frontier[x])
      <4>1. pieces[x] = <<frontier[x]>>
        BY <2>3, <3>2
      <4>2. 1 \in 1 .. Len(pieces[x]) /\ pieces[x][1] = frontier[x]
        BY <4>1
      <4>3. PICK k \in 1 .. Len(rest) : rest[k] = frontier[x]
        BY <2>4, <4>2
      <4>4. k \in 1 .. Len(after) /\ after[k] = frontier[x]
        BY <2>5, <4>3
      <4> QED
        BY <1>2, <1>4, <4>4 DEF Covers
    <3> QED
      BY <3>1, <3>2
  <2>10. InsertedRight(frontier, new, after)
    BY <2>5, <2>6, <2>8, <2>9 DEF InsertedRight
  <2> QED
    BY <2>1, <2>10
<1> QED
  BY <1>5, <1>6

\* The recursion of the fold over a cell's candidates.
Kept(g, q) ==
    g = [s \in SUBSET (DOMAIN q) |-> IF s = {} THEN <<>> ELSE Inserted(g[s \ {Max(s)}], q[Max(s)])]

LEMMA FoldUnfolds ==
    ASSUME NEW q PROVE FoldLeft(Inserted, <<>>, q) = (CHOOSE g : Kept(g, q))[DOMAIN q]
BY Zenon DEF FoldLeft, MapThenFoldSet, Kept

\* A cell's frontier has some of its candidates, and covers all of them.
FrontierOf(q, frontier) ==
    /\ frontier \in Seq(FrontierEntries)
    /\ \A k \in 1 .. Len(frontier) : \E i \in 1 .. Len(q) : frontier[k] = q[i]
    /\ \A i \in 1 .. Len(q) : Covers(frontier, q[i])

LEMMA FoldIsFrontier ==
    ASSUME NEW q \in Seq(FrontierEntries)
    PROVE  FrontierOf(q, FoldLeft(Inserted, <<>>, q))
<1> DEFINE m == Len(q)
           V == Seq(FrontierEntries)
           step == [x \in V \X FrontierEntries |-> Inserted(x[1], x[2])]
<1>1. m \in Nat /\ q \in [1 .. m -> FrontierEntries] /\ DOMAIN q = 1 .. m /\ <<>> \in V
  OBVIOUS
<1>2. \A x \in V, e \in FrontierEntries : Inserted(x, e) \in V
  BY InsertedIs DEF InsertedRight
<1> HIDE DEF m, V
<1>3. step \in [V \X FrontierEntries -> V]
  BY <1>2
<1>4. \A x \in V, e \in FrontierEntries : step[<<x, e>>] = Inserted(x, e)
  OBVIOUS
<1> HIDE DEF step
<1>5. PICK g \in [SUBSET (1 .. m) -> V] : FoldsOn(g, m, <<>>, step, q)
  BY <1>1, <1>3, FoldExists
<1>6. Kept(g, q)
  <2>1. ASSUME NEW s \in SUBSET (1 .. m)
        PROVE  g[s] = IF s = {} THEN <<>> ELSE Inserted(g[s \ {Max(s)}], q[Max(s)])
    <3>1. CASE s = {}
      BY <1>5, <3>1 DEF FoldsOn
    <3>2. CASE s # {}
      <4>1. Max(s) \in s
        BY <1>1, <3>2, MaxThere
      <4>2. q[Max(s)] \in FrontierEntries /\ g[s \ {Max(s)}] \in V
        BY <1>1, <4>1
      <4>3. g[s] = step[<<g[s \ {Max(s)}], q[Max(s)]>>]
        BY <1>5, <3>2 DEF FoldsOn
      <4> QED
        BY <1>4, <3>2, <4>2, <4>3
    <3> QED
      BY <3>1, <3>2
  <2>2. g = [s \in SUBSET (1 .. m) |-> g[s]]
    OBVIOUS
  <2> QED
    BY <1>1, <2>1, <2>2, Zenon DEF Kept
<1> DEFINE h == CHOOSE f : Kept(f, q)
<1>7. Kept(h, q)
  BY <1>6, Zenon
<1>8. FoldLeft(Inserted, <<>>, q) = h[1 .. m]
  BY <1>1, FoldUnfolds
<1> HIDE DEF h
<1>9. \A s \in SUBSET (1 .. m) : h[s] = IF s = {} THEN <<>> ELSE Inserted(h[s \ {Max(s)}], q[Max(s)])
  BY <1>1, <1>7, Zenon DEF Kept
<1>10. h[1 .. 0] = <<>> /\ \A k \in 1 .. m : h[1 .. k] = Inserted(h[1 .. k - 1], q[k])
  <2>1. 1 .. 0 = {} /\ {} \in SUBSET (1 .. m)
    OBVIOUS
  <2>2. ASSUME NEW k \in 1 .. m PROVE h[1 .. k] = Inserted(h[1 .. k - 1], q[k])
    <3>1. 1 .. k \in SUBSET (1 .. m) /\ k \in 1 .. k /\ 1 .. k # {} /\ (1 .. k) \ {k} = 1 .. k - 1
      <4>1. 1 .. k \in SUBSET (1 .. m) /\ k \in 1 .. k /\ k \in Nat
        BY <1>1
      <4>2. (1 .. k) \ {k} = 1 .. k - 1
        BY <4>1
      <4> QED
        BY <4>1, <4>2
    <3>2. Max(1 .. k) = k
      <4>1. k \in Nat /\ 1 .. k \in SUBSET (1 .. k)
        OBVIOUS
      <4> QED
        BY <3>1, <4>1, LastIsMax
    <3> QED
      BY <1>9, <3>1, <3>2
  <2> QED
    BY <1>9, <2>1, <2>2
<1> DEFINE right(k) == /\ h[1 .. k] \in V
                       /\ \A x \in 1 .. Len(h[1 .. k]) : \E i \in 1 .. k : h[1 .. k][x] = q[i]
                       /\ \A i \in 1 .. k : Covers(h[1 .. k], q[i])
           T == {k \in 0 .. m : right(k)}
<1>11. right(0)
  <2>1. Len(<<>>) = 0 /\ 1 .. 0 = {}
    OBVIOUS
  <2> QED
    BY <1>1, <1>10, <2>1
<1>12. ASSUME NEW k \in 1 .. m, right(k - 1) PROVE right(k)
  <2> DEFINE old == h[1 .. k - 1]
             now == h[1 .. k]
  <2>1. k \in 1 .. k /\ 1 .. k - 1 \subseteq 1 .. k /\ \A i \in 1 .. k : i = k \/ i \in 1 .. k - 1
    OBVIOUS
  <2>2. old \in V /\ q[k] \in FrontierEntries /\ now = Inserted(old, q[k])
    BY <1>1, <1>10, <1>12
  <2>3. InsertedRight(old, q[k], now)
    BY <2>2, InsertedIs DEF V
  <2>4. now \in V
    BY <2>3 DEF InsertedRight, V
  <2>5. ASSUME NEW x \in 1 .. Len(now) PROVE \E i \in 1 .. k : now[x] = q[i]
    <3>1. now[x] = q[k] \/ \E y \in 1 .. Len(old) : now[x] = old[y]
      BY <2>3 DEF InsertedRight
    <3>2. \A y \in 1 .. Len(old) : \E i \in 1 .. k - 1 : old[y] = q[i]
      BY <1>12
    <3> HIDE DEF old, now
    <3> QED
      BY <2>1, <3>1, <3>2
  <2>6. ASSUME NEW i \in 1 .. k PROVE Covers(now, q[i])
    <3>1. CASE i = k
      BY <2>3, <3>1 DEF InsertedRight
    <3>2. CASE i # k
      <4>1. i \in 1 .. k - 1 /\ i \in 1 .. m
        BY <1>1, <2>1, <3>2
      <4>2. Covers(old, q[i])
        BY <1>12, <4>1
      <4> HIDE DEF old, now
      <4>3. PICK y \in 1 .. Len(old) : AtMost(old[y], q[i])
        BY <4>2 DEF Covers
      <4>4. PICK x \in 1 .. Len(now) : AtMost(now[x], old[y])
        BY <2>3 DEF InsertedRight, Covers
      <4>5. now[x] \in FrontierEntries /\ old[y] \in FrontierEntries /\ q[i] \in FrontierEntries
        BY <1>1, <2>2, <2>4, <4>1 DEF V
      <4>6. AtMost(now[x], q[i])
        BY <4>3, <4>4, <4>5, AtMostChains
      <4> QED
        BY <4>6 DEF Covers
    <3> QED
      BY <3>1, <3>2
  <2> QED
    BY <2>4, <2>5, <2>6
<1>13. right(m)
  <2> HIDE DEF right
  <2> DEFINE U == {k \in 1 .. m : right(k)}
  <2>1. m >= 1 => 1 \in U
    <3>1. m >= 1 => 1 \in 1 .. m /\ 1 - 1 = 0
      BY <1>1
    <3> QED
      BY <1>11, <1>12, <3>1
  <2>2. ASSUME NEW k \in 1 .. m - 1, k \in U PROVE k + 1 \in U
    <3>1. k + 1 \in 1 .. m /\ (k + 1) - 1 = k
      BY <1>1
    <3> QED
      BY <1>12, <2>2, <3>1
  <2>3. 1 .. m \subseteq U
    <3> HIDE DEF U
    <3> QED
      BY <1>1, <2>1, <2>2, InductUpTo
  <2>4. m = 0 \/ m \in 1 .. m
    BY <1>1
  <2> QED
    BY <1>11, <2>3, <2>4
<1> QED
  BY <1>8, <1>13 DEF FrontierOf, m, V

FrontierSuits(ctx, fleet, ratios) == Suits(ctx, fleet) /\ ratios \in Seq(Nat)

\* Stage s takes the layers i + 1 .. j at ratio r: whether it may, and what
\* that adds to an entry before it.
Taken(ctx, fleet, ratios, ceiling, margins, s, i, j, r) ==
    /\ r \in DOMAIN ratios /\ Fits(ctx, fleet[s], i + 1, j)
    /\ Chances(fleet[s], ExecTime(ctx, fleet, s, i + 1, j), ratios[r], ceiling, margins)

MeanStep(ctx, fleet, ratios, s, i, j, r) == Mean(fleet[s], ExecTime(ctx, fleet, s, i + 1, j), ratios[r])
VarianceStep(ctx, fleet, ratios, s, i, j, r) == Variance(fleet[s], ExecTime(ctx, fleet, s, i + 1, j), ratios[r])

AddsStep(ctx, fleet, ratios, s, i, j, r, b, e) ==
    /\ e.mean = b.mean + MeanStep(ctx, fleet, ratios, s, i, j, r)
    /\ e.var = b.var + VarianceStep(ctx, fleet, ratios, s, i, j, r)

LEMMA ChanceNat ==
    ASSUME NEW ctx, NEW fleet, NEW ratios, FrontierSuits(ctx, fleet, ratios),
           NEW s \in 1 .. Len(fleet), NEW j \in 1 .. Len(ctx.layers), NEW i \in Into(s, j), NEW r \in DOMAIN ratios
    PROVE  /\ MeanStep(ctx, fleet, ratios, s, i, j, r) \in Nat
           /\ VarianceStep(ctx, fleet, ratios, s, i, j, r) \in Nat /\ r \in Nat
<1>1. Suits(ctx, fleet) /\ ratios \in Seq(Nat)
  BY DEF FrontierSuits
<1>2. i + 1 \in 1 .. Len(ctx.layers) /\ (s > 1 => i + 1 > 1)
  BY <1>1, IntoLayers
<1>3. ExecTime(ctx, fleet, s, i + 1, j) \in Nat /\ fleet[s] \in StageType
  BY <1>1, <1>2, TimeNat
<1>4. r \in 1 .. Len(ratios) /\ r \in Nat
  BY <1>1
<1>5. ratios[r] \in Nat
  BY <1>1, <1>4, ElementIn, Zenon
<1>6. fleet[s].draw \in Nat
  BY <1>3 DEF StageType
<1>7. \A x, y, z \in Nat : x * y * z \in Nat /\ x * y \in Nat
  OBVIOUS
<1>8. MeanStep(ctx, fleet, ratios, s, i, j, r) \in Nat
  BY <1>3, <1>5, <1>6, <1>7, Zenon DEF MeanStep, Mean
<1> QED
  BY <1>4, <1>7, <1>8, Zenon DEF MeanStep, VarianceStep, Variance

\* What one segment offers.
Offers(ctx, fleet, ratios, ceiling, margins, s, i, j, before, new) ==
    /\ new \in Seq(FrontierEntries)
    /\ \A x \in 1 .. Len(new) :
          /\ new[x].from = i /\ new[x].entry \in 1 .. Len(before)
          /\ Taken(ctx, fleet, ratios, ceiling, margins, s, i, j, new[x].point)
          /\ AddsStep(ctx, fleet, ratios, s, i, j, new[x].point, before[new[x].entry], new[x])
    /\ \A r : Taken(ctx, fleet, ratios, ceiling, margins, s, i, j, r) =>
          \A k \in 1 .. Len(before) : \E x \in 1 .. Len(new) :
             AddsStep(ctx, fleet, ratios, s, i, j, r, before[k], new[x])

LEMMA CandidatesAre ==
    ASSUME NEW ctx, NEW fleet, NEW ratios, NEW ceiling, NEW margins, FrontierSuits(ctx, fleet, ratios),
           NEW s \in 1 .. Len(fleet), NEW j \in 1 .. Len(ctx.layers), NEW i \in Into(s, j),
           NEW before \in Seq(FrontierEntries)
    PROVE  Offers(ctx, fleet, ratios, ceiling, margins, s, i, j, before,
                  Candidates(ctx, fleet, ratios, ceiling, margins, s, i, j, before))
<1> DEFINE m == Len(ratios)
           R == 1 .. m
           mean(r) == MeanStep(ctx, fleet, ratios, s, i, j, r)
           var(r) == VarianceStep(ctx, fleet, ratios, s, i, j, r)
           may(r) == Taken(ctx, fleet, ratios, ceiling, margins, s, i, j, r)
           entry(r, k) == [mean |-> before[k].mean + mean(r), var |-> before[k].var + var(r),
                           from |-> i, point |-> r, entry |-> k]
           all(r) == [k \in 1 .. Len(before) |-> entry(r, k)]
           pieces == [r \in R |-> IF may(r) THEN all(r) ELSE <<>>]
           new == Candidates(ctx, fleet, ratios, ceiling, margins, s, i, j, before)
<1>1. /\ m \in Nat /\ DOMAIN ratios = R /\ Suits(ctx, fleet) /\ i \in Nat
      /\ Len(before) \in Nat /\ \A k \in 1 .. Len(before) : before[k].mean \in Nat /\ before[k].var \in Nat
  <2>1. ratios \in Seq(Nat) /\ Suits(ctx, fleet)
    BY DEF FrontierSuits
  <2>2. i \in Nat
    BY <2>1, IntoLayers
  <2>3. \A k \in 1 .. Len(before) : before[k] \in FrontierEntries
    OBVIOUS
  <2>4. \A k \in 1 .. Len(before) : before[k].mean \in Nat /\ before[k].var \in Nat
    BY <2>3 DEF FrontierEntries
  <2>5. m \in Nat /\ DOMAIN ratios = R /\ Len(before) \in Nat
    BY <2>1
  <2> QED
    BY <2>1, <2>2, <2>4, <2>5
<1>2. \A r \in R : mean(r) \in Nat /\ var(r) \in Nat /\ r \in Nat
  BY <1>1, ChanceNat
<1>3. new = FlattenSeq(pieces)
  <2> DEFINE time == ExecTime(ctx, fleet, s, i + 1, j)
             of(r) == IF ~Fits(ctx, fleet[s], i + 1, j)
                         \/ ~Chances(fleet[s], time, ratios[r], ceiling, margins)
                      THEN <<>>
                      ELSE all(r)
  <2>1. new = FlattenSeq([r \in DOMAIN ratios |-> of(r)])
    BY Zenon DEF Candidates, MeanStep, VarianceStep
  <2>2. \A r \in R : of(r) = IF may(r) THEN all(r) ELSE <<>>
    BY <1>1, Zenon DEF Taken
  <2> HIDE DEF of, all, may, new
  <2>3. [r \in DOMAIN ratios |-> of(r)] = pieces
    BY <1>1, <2>2
  <2> QED
    BY <2>1, <2>3
<1>4. \A r : may(r) => r \in R
  BY <1>1 DEF Taken
<1> HIDE DEF mean, var, may, new, m
<1>5. \A r \in R, k \in 1 .. Len(before) : entry(r, k) \in FrontierEntries
  <2> TAKE r \in R, k \in 1 .. Len(before)
  <2>1. before[k].mean + mean(r) \in Nat /\ before[k].var + var(r) \in Nat /\ k \in Nat /\ r \in Nat
    <3>1. before[k].mean \in Nat /\ before[k].var \in Nat
      BY <1>1
    <3>2. mean(r) \in Nat /\ var(r) \in Nat /\ r \in Nat
      BY <1>2
    <3>3. k \in Nat
      OBVIOUS
    <3>4. \A x, y \in Nat : x + y \in Nat
      OBVIOUS
    <3> QED
      BY <3>1, <3>2, <3>3, <3>4, Zenon
  <2> QED
    BY <1>1, <2>1 DEF FrontierEntries
<1>6. \A r \in R, k \in 1 .. Len(before) :
         /\ entry(r, k).mean = before[k].mean + mean(r) /\ entry(r, k).var = before[k].var + var(r)
         /\ entry(r, k).from = i /\ entry(r, k).point = r /\ entry(r, k).entry = k
  OBVIOUS
<1> HIDE DEF entry
<1>7. \A r \in R : /\ all(r) \in Seq(FrontierEntries) /\ Len(all(r)) = Len(before)
                   /\ \A k \in 1 .. Len(before) : all(r)[k] = entry(r, k)
  <2> TAKE r \in R
  <2>1. all(r) \in [1 .. Len(before) -> FrontierEntries]
    BY <1>5
  <2>2. \A k \in 1 .. Len(before) : all(r)[k] = entry(r, k)
    OBVIOUS
  <2> HIDE DEF all
  <2> QED
    BY <1>1, <2>1, <2>2, LenOfFunction
<1> HIDE DEF all
<1>8. pieces \in [R -> Seq(FrontierEntries)] /\ \A r \in R : pieces[r] = IF may(r) THEN all(r) ELSE <<>>
  <2>1. <<>> \in Seq(FrontierEntries)
    OBVIOUS
  <2> QED
    BY <1>7, <2>1
<1> HIDE DEF pieces
<1>9. HasPieces(FrontierEntries, m, pieces)
  BY <1>1, <1>8, FlattenHas
<1>10. /\ new \in Seq(FrontierEntries)
       /\ \A x \in 1 .. Len(new) : \E r \in R : \E k \in 1 .. Len(pieces[r]) : new[x] = pieces[r][k]
       /\ \A r \in R : \A k \in 1 .. Len(pieces[r]) : \E x \in 1 .. Len(new) : new[x] = pieces[r][k]
  BY <1>3, <1>9 DEF HasPieces
<1>11. ASSUME NEW x \in 1 .. Len(new)
       PROVE  /\ new[x].from = i /\ new[x].entry \in 1 .. Len(before) /\ may(new[x].point)
              /\ AddsStep(ctx, fleet, ratios, s, i, j, new[x].point, before[new[x].entry], new[x])
  <2>1. PICK r \in R : \E k \in 1 .. Len(pieces[r]) : new[x] = pieces[r][k]
    BY <1>10
  <2>2. may(r)
    <3> SUFFICES ASSUME ~may(r) PROVE FALSE
      OBVIOUS
    <3>1. pieces[r] = <<>>
      BY <1>8
    <3>2. \A k \in 1 .. Len(pieces[r]) : FALSE
      BY <3>1
    <3> QED
      BY <2>1, <3>2
  <2>3. pieces[r] = all(r)
    BY <1>8, <2>2
  <2>4. PICK k \in 1 .. Len(before) : new[x] = entry(r, k)
    BY <1>7, <2>1, <2>3
  <2> QED
    BY <1>6, <2>2, <2>4 DEF AddsStep, mean, var
<1>12. ASSUME NEW r, may(r), NEW k \in 1 .. Len(before)
       PROVE  \E x \in 1 .. Len(new) : AddsStep(ctx, fleet, ratios, s, i, j, r, before[k], new[x])
  <2>1. r \in R /\ pieces[r] = all(r)
    BY <1>4, <1>8, <1>12
  <2>2. k \in 1 .. Len(pieces[r]) /\ pieces[r][k] = entry(r, k)
    BY <1>7, <2>1
  <2>3. PICK x \in 1 .. Len(new) : new[x] = entry(r, k)
    BY <1>10, <2>1, <2>2
  <2>4. AddsStep(ctx, fleet, ratios, s, i, j, r, before[k], new[x])
    BY <1>6, <2>1, <2>3 DEF AddsStep, mean, var
  <2> QED
    BY <2>4
<1> QED
  <2>1. Offers(ctx, fleet, ratios, ceiling, margins, s, i, j, before, new)
    BY <1>10, <1>11, <1>12 DEF Offers, may
  <2> QED
    BY <2>1 DEF new

\* The entries of the stage before stage s that ended with layer i.
Previous(s, row, i) == IF s = 1 THEN <<Nothing>> ELSE row[i]

FrontierRows(ctx) == [1 .. Len(ctx.layers) -> Seq(FrontierEntries)]

\* What the frontier of a cell is: its entries extend those of the stage
\* before, and cover every way to extend one.
FrontierIs(ctx, fleet, ratios, ceiling, margins, s, j, row, cell) ==
    /\ cell \in Seq(FrontierEntries)
    /\ \A x \in 1 .. Len(cell) :
          /\ cell[x].from \in Into(s, j) /\ cell[x].entry \in 1 .. Len(Previous(s, row, cell[x].from))
          /\ Taken(ctx, fleet, ratios, ceiling, margins, s, cell[x].from, j, cell[x].point)
          /\ AddsStep(ctx, fleet, ratios, s, cell[x].from, j, cell[x].point,
                  Previous(s, row, cell[x].from)[cell[x].entry], cell[x])
    /\ \A i \in Into(s, j) : \A r : Taken(ctx, fleet, ratios, ceiling, margins, s, i, j, r) =>
          \A k \in 1 .. Len(Previous(s, row, i)) : \E e \in FrontierEntries :
             AddsStep(ctx, fleet, ratios, s, i, j, r, Previous(s, row, i)[k], e) /\ Covers(cell, e)

LEMMA FrontierHolds ==
    ASSUME NEW ctx, NEW fleet, NEW ratios, NEW ceiling, NEW margins, FrontierSuits(ctx, fleet, ratios),
           NEW s \in 1 .. Len(fleet), NEW j \in 1 .. Len(ctx.layers),
           NEW row, s > 1 => row \in FrontierRows(ctx)
    PROVE  FrontierIs(ctx, fleet, ratios, ceiling, margins, s, j, row,
                      Frontier(ctx, fleet, ratios, ceiling, margins, s, j, row))
<1> DEFINE ends == IF s = 1 THEN <<0>> ELSE [x \in 1 .. j - s + 1 |-> s + x - 2]
           m == IF s = 1 THEN 1 ELSE IF j >= s THEN j - s + 1 ELSE 0
           new(i) == Candidates(ctx, fleet, ratios, ceiling, margins, s, i, j, Previous(s, row, i))
           pieces == [x \in 1 .. m |-> new(ends[x])]
           all == FlattenSeq(pieces)
           cell == Frontier(ctx, fleet, ratios, ceiling, margins, s, j, row)
<1>1. Suits(ctx, fleet) /\ s \in Nat /\ s >= 1 /\ j \in Nat /\ m \in Nat
  BY SuitsNat DEF FrontierSuits
<1>2. /\ DOMAIN ends = 1 .. m
      /\ \A x \in 1 .. m : ends[x] \in Into(s, j)
      /\ \A i \in Into(s, j) : \E x \in 1 .. m : ends[x] = i
  <2>1. CASE s = 1
    <3>1. ends = <<0>> /\ m = 1 /\ Into(s, j) = {0}
      BY <2>1 DEF Into
    <3> HIDE DEF ends, m
    <3>2. DOMAIN ends = 1 .. 1 /\ ends[1] = 0 /\ 1 \in 1 .. 1 /\ \A x \in 1 .. 1 : x = 1
      BY <3>1
    <3> QED
      BY <3>1, <3>2
  <2>2. CASE s # 1
    <3>1. ends = [x \in 1 .. j - s + 1 |-> s + x - 2] /\ Into(s, j) = s - 1 .. j - 1
      BY <2>2, Zenon DEF Into, Ends
    <3>2. 1 .. j - s + 1 = 1 .. m
      BY <1>1, <2>2
    <3> HIDE DEF ends
    <3>3. DOMAIN ends = 1 .. m /\ \A x \in 1 .. m : ends[x] = s + x - 2
      BY <3>1, <3>2
    <3>4. \A x \in 1 .. m : ends[x] \in Into(s, j)
      <4> TAKE x \in 1 .. m
      <4>1. x \in 1 .. j - s + 1
        BY <3>2
      <4>2. s + x - 2 \in s - 1 .. j - 1
        BY <1>1, <4>1
      <4> QED
        BY <3>1, <3>3, <4>2
    <3>5. \A i \in Into(s, j) : \E x \in 1 .. m : ends[x] = i
      <4> TAKE i \in Into(s, j)
      <4>1. i \in s - 1 .. j - 1
        BY <3>1
      <4>2. i - s + 2 \in 1 .. j - s + 1 /\ s + (i - s + 2) - 2 = i
        BY <1>1, <4>1
      <4> QED
        BY <3>2, <3>3, <4>2
    <3> QED
      BY <3>3, <3>4, <3>5
  <2> QED
    BY <2>1, <2>2
<1>3. cell = FoldLeft(Inserted, <<>>, all)
  <2>1. cell = FoldLeft(Inserted, <<>>, FlattenSeq([x \in DOMAIN ends |-> new(ends[x])]))
    BY Zenon DEF Frontier, Previous
  <2> HIDE DEF ends, new, m, cell
  <2>2. [x \in DOMAIN ends |-> new(ends[x])] = pieces
    BY <1>2
  <2> QED
    BY <2>1, <2>2
<1>4. \A i \in Into(s, j) : Previous(s, row, i) \in Seq(FrontierEntries)
  <2> TAKE i \in Into(s, j)
  <2>1. CASE s = 1
    <3>1. Nothing \in FrontierEntries
      BY DEF Nothing, FrontierEntries
    <3>2. <<Nothing>> \in Seq(FrontierEntries)
      BY <3>1
    <3> QED
      BY <2>1, <3>2 DEF Previous
  <2>2. CASE s # 1
    <3>1. s > 1
      BY <1>1, <2>2
    <3>2. i \in 1 .. Len(ctx.layers)
      BY <1>1, <3>1, IntoLayers
    <3> QED
      BY <2>2, <3>1, <3>2 DEF Previous, FrontierRows
  <2> QED
    BY <2>1, <2>2
<1>5. \A i \in Into(s, j) :
         Offers(ctx, fleet, ratios, ceiling, margins, s, i, j, Previous(s, row, i), new(i))
  BY <1>4, CandidatesAre
<1> HIDE DEF ends, m, new, cell
<1>6. pieces \in [1 .. m -> Seq(FrontierEntries)] /\ \A x \in 1 .. m : pieces[x] = new(ends[x])
  <2>1. \A x \in 1 .. m : new(ends[x]) \in Seq(FrontierEntries)
    BY <1>2, <1>5 DEF Offers
  <2> QED
    BY <2>1
<1> HIDE DEF pieces
<1>7. HasPieces(FrontierEntries, m, pieces)
  BY <1>1, <1>6, FlattenHas
<1>8. /\ all \in Seq(FrontierEntries)
      /\ \A y \in 1 .. Len(all) : \E i \in Into(s, j) : \E x \in 1 .. Len(new(i)) : all[y] = new(i)[x]
      /\ \A i \in Into(s, j) : \A x \in 1 .. Len(new(i)) : \E y \in 1 .. Len(all) : all[y] = new(i)[x]
  <2>1. /\ all \in Seq(FrontierEntries)
        /\ \A y \in 1 .. Len(all) : \E z \in 1 .. m : \E x \in 1 .. Len(pieces[z]) : all[y] = pieces[z][x]
        /\ \A z \in 1 .. m : \A x \in 1 .. Len(pieces[z]) : \E y \in 1 .. Len(all) : all[y] = pieces[z][x]
    BY <1>7 DEF HasPieces
  <2> HIDE DEF all
  <2>2. ASSUME NEW y \in 1 .. Len(all) PROVE \E i \in Into(s, j) : \E x \in 1 .. Len(new(i)) : all[y] = new(i)[x]
    <3>1. PICK z \in 1 .. m : \E x \in 1 .. Len(pieces[z]) : all[y] = pieces[z][x]
      BY <2>1
    <3>2. ends[z] \in Into(s, j) /\ pieces[z] = new(ends[z])
      BY <1>2, <1>6
    <3> QED
      BY <3>1, <3>2
  <2>3. ASSUME NEW i \in Into(s, j), NEW x \in 1 .. Len(new(i)) PROVE \E y \in 1 .. Len(all) : all[y] = new(i)[x]
    <3>1. PICK z \in 1 .. m : ends[z] = i
      BY <1>2
    <3>2. pieces[z] = new(i)
      BY <1>6, <3>1
    <3> QED
      BY <2>1, <3>2
  <2> QED
    BY <2>1, <2>2, <2>3
<1> HIDE DEF all
<1>9. FrontierOf(all, cell)
  BY <1>3, <1>8, FoldIsFrontier
<1>10. ASSUME NEW y \in 1 .. Len(cell)
       PROVE  /\ cell[y].from \in Into(s, j) /\ cell[y].entry \in 1 .. Len(Previous(s, row, cell[y].from))
              /\ Taken(ctx, fleet, ratios, ceiling, margins, s, cell[y].from, j, cell[y].point)
              /\ AddsStep(ctx, fleet, ratios, s, cell[y].from, j, cell[y].point,
                      Previous(s, row, cell[y].from)[cell[y].entry], cell[y])
  <2>1. PICK z \in 1 .. Len(all) : cell[y] = all[z]
    BY <1>9 DEF FrontierOf
  <2>2. PICK i \in Into(s, j) : \E x \in 1 .. Len(new(i)) : all[z] = new(i)[x]
    BY <1>8
  <2>3. PICK x \in 1 .. Len(new(i)) : cell[y] = new(i)[x]
    BY <2>1, <2>2
  <2>4. Offers(ctx, fleet, ratios, ceiling, margins, s, i, j, Previous(s, row, i), new(i))
    BY <1>5
  <2>5. /\ cell[y].from = i /\ cell[y].entry \in 1 .. Len(Previous(s, row, i))
        /\ Taken(ctx, fleet, ratios, ceiling, margins, s, i, j, cell[y].point)
        /\ AddsStep(ctx, fleet, ratios, s, i, j, cell[y].point, Previous(s, row, i)[cell[y].entry], cell[y])
    BY <2>3, <2>4 DEF Offers
  <2> QED
    BY <2>5
<1>11. ASSUME NEW i \in Into(s, j), NEW r, Taken(ctx, fleet, ratios, ceiling, margins, s, i, j, r),
              NEW k \in 1 .. Len(Previous(s, row, i))
       PROVE  \E e \in FrontierEntries :
                 AddsStep(ctx, fleet, ratios, s, i, j, r, Previous(s, row, i)[k], e) /\ Covers(cell, e)
  <2>1. Offers(ctx, fleet, ratios, ceiling, margins, s, i, j, Previous(s, row, i), new(i))
    BY <1>5
  <2>2. PICK x \in 1 .. Len(new(i)) : AddsStep(ctx, fleet, ratios, s, i, j, r, Previous(s, row, i)[k], new(i)[x])
    BY <1>11, <2>1 DEF Offers
  <2>3. new(i)[x] \in FrontierEntries
    BY <2>1 DEF Offers
  <2>4. PICK y \in 1 .. Len(all) : all[y] = new(i)[x]
    BY <1>8
  <2>5. Covers(cell, new(i)[x])
    BY <1>9, <2>4 DEF FrontierOf
  <2> QED
    BY <2>2, <2>3, <2>5
<1>12. cell \in Seq(FrontierEntries)
  BY <1>9 DEF FrontierOf
<1> QED
  <2>1. FrontierIs(ctx, fleet, ratios, ceiling, margins, s, j, row, cell)
    BY <1>10, <1>11, <1>12 DEF FrontierIs
  <2> QED
    BY <2>1 DEF cell

FrontierTabled(ctx, fleet, ratios, ceiling, margins, dp) ==
    /\ dp \in [1 .. Len(fleet) -> FrontierRows(ctx)]
    /\ \A s \in 1 .. Len(fleet), j \in 1 .. Len(ctx.layers) :
          FrontierIs(ctx, fleet, ratios, ceiling, margins, s, j, IF s = 1 THEN <<>> ELSE dp[s - 1], dp[s][j])

FrontierRow(ctx, fleet, ratios, ceiling, margins, s, row) ==
    [j \in 1 .. Len(ctx.layers) |-> Frontier(ctx, fleet, ratios, ceiling, margins, s, j, row)]

LEMMA FrontierTableExists ==
    ASSUME NEW ctx, NEW fleet, NEW ratios, NEW ceiling, NEW margins, FrontierSuits(ctx, fleet, ratios)
    PROVE  FrontierTabled(ctx, fleet, ratios, ceiling, margins, Frontiers(ctx, fleet, ratios, ceiling, margins))
<1> DEFINE K == Len(fleet)
           R == FrontierRows(ctx)
           next(s, row) == FrontierRow(ctx, fleet, ratios, ceiling, margins, s, row)
           first == next(1, <<>>)
           step == [p \in Nat \X R |-> IF p[1] \in 2 .. K THEN next(p[1], p[2]) ELSE first]
           table(dp) == dp = [s \in 1 .. K |->
                                [j \in 1 .. Len(ctx.layers) |->
                                    Frontier(ctx, fleet, ratios, ceiling, margins, s, j,
                                             IF s = 1 THEN <<>> ELSE dp[s - 1])]]
           defined(dp) == dp = [s \in 1 .. K |-> next(s, IF s = 1 THEN <<>> ELSE dp[s - 1])]
<1>0. \A dp : table(dp) <=> defined(dp)
  BY Zenon DEF FrontierRow
<1>1. K \in Nat /\ K >= 1
  BY SuitsNat DEF FrontierSuits
<1>2. \A s \in 1 .. K : \A row : (s > 1 => row \in R) =>
         /\ next(s, row) \in R
         /\ \A j \in 1 .. Len(ctx.layers) :
               FrontierIs(ctx, fleet, ratios, ceiling, margins, s, j, row, next(s, row)[j])
  <2> TAKE s \in 1 .. K
  <2> TAKE row
  <2> HAVE s > 1 => row \in R
  <2>1. \A j \in 1 .. Len(ctx.layers) :
          FrontierIs(ctx, fleet, ratios, ceiling, margins, s, j, row,
                     Frontier(ctx, fleet, ratios, ceiling, margins, s, j, row))
    BY FrontierHolds
  <2>2. \A j \in 1 .. Len(ctx.layers) :
          Frontier(ctx, fleet, ratios, ceiling, margins, s, j, row) \in Seq(FrontierEntries)
    BY <2>1 DEF FrontierIs
  <2>3. \A j \in 1 .. Len(ctx.layers) :
          next(s, row)[j] = Frontier(ctx, fleet, ratios, ceiling, margins, s, j, row)
    BY DEF FrontierRow
  <2>4. next(s, row) \in R
    BY <2>2 DEF FrontierRow, FrontierRows
  <2> HIDE DEF next
  <2> QED
    BY <2>1, <2>3, <2>4
<1> HIDE DEF next, K, R
<1>3. first \in R /\ \A s \in 2 .. K, row \in R : next(s, row) \in R
  BY <1>1, <1>2
<1> HIDE DEF first
<1>4. step \in [Nat \X R -> R]
  BY <1>3
<1>5. \A s \in 2 .. K, row \in R : step[<<s, row>>] = next(s, row)
  BY <1>1
<1> HIDE DEF step
<1>6. PICK g \in [1 .. K -> R] : Follows(g, K, first, step)
  BY <1>1, <1>3, <1>4, Recursion
<1>7. defined(g)
  <2>1. ASSUME NEW s \in 1 .. K PROVE g[s] = next(s, IF s = 1 THEN <<>> ELSE g[s - 1])
    <3>1. CASE s = 1
      BY <1>6, <3>1 DEF Follows, first
    <3>2. CASE s # 1
      <4>1. s \in 2 .. K /\ s - 1 \in 1 .. K
        BY <1>1, <3>2
      <4>2. g[s] = step[<<s, g[s - 1]>>] /\ g[s - 1] \in R
        BY <1>6, <3>2, <4>1 DEF Follows
      <4> QED
        BY <1>5, <3>2, <4>1, <4>2
    <3> QED
      BY <3>1, <3>2
  <2>2. g = [s \in 1 .. K |-> g[s]]
    BY <1>6
  <2> QED
    BY <2>1, <2>2, Zenon
<1> DEFINE dp == CHOOSE h : table(h)
<1>8. table(dp)
  <2>1. table(g)
    BY <1>0, <1>7
  <2> HIDE DEF table
  <2> QED
    BY <2>1, Zenon
<1>9. defined(dp)
  BY <1>0, <1>8
<1>10. Frontiers(ctx, fleet, ratios, ceiling, margins) = dp
  BY Zenon DEF Frontiers, K
<1> HIDE DEF dp, table
<1>11. \A s \in 1 .. K : dp[s] = next(s, IF s = 1 THEN <<>> ELSE dp[s - 1])
  BY <1>9, Zenon
<1>12. \A s \in 1 .. K : dp[s] \in R
  <2> DEFINE T == {s \in 1 .. K : dp[s] \in R}
  <2>1. K >= 1 => 1 \in T
    <3>1. 1 \in 1 .. K
      BY <1>1
    <3>2. dp[1] = next(1, <<>>)
      BY <1>11, <3>1
    <3> QED
      BY <1>3, <3>1, <3>2 DEF first
  <2>2. ASSUME NEW s \in 1 .. K - 1, s \in T PROVE s + 1 \in T
    <3>1. s + 1 \in 2 .. K /\ s + 1 \in 1 .. K /\ (s + 1) - 1 = s /\ s + 1 # 1
      BY <1>1
    <3>2. dp[s + 1] = next(s + 1, dp[s]) /\ dp[s] \in R
      BY <1>11, <2>2, <3>1
    <3> QED
      BY <1>3, <3>1, <3>2
  <2>3. 1 .. K \subseteq T
    <3> HIDE DEF T
    <3> QED
      BY <1>1, <2>1, <2>2, InductUpTo
  <2> QED
    BY <2>3
<1>13. dp \in [1 .. K -> R]
  <2>1. \E e : dp = [s \in 1 .. K |-> next(s, IF s = 1 THEN <<>> ELSE e[s - 1])]
    BY <1>9, Zenon
  <2>2. dp = [s \in 1 .. K |-> dp[s]]
    BY <2>1
  <2> QED
    BY <1>12, <2>2
<1>14. ASSUME NEW s \in 1 .. K, NEW j \in 1 .. Len(ctx.layers)
       PROVE  FrontierIs(ctx, fleet, ratios, ceiling, margins, s, j, IF s = 1 THEN <<>> ELSE dp[s - 1], dp[s][j])
  <2> DEFINE row == IF s = 1 THEN <<>> ELSE dp[s - 1]
  <2>1. s > 1 => row \in R
    <3>1. s > 1 => s - 1 \in 1 .. K
      BY <1>1
    <3> QED
      BY <1>12, <3>1
  <2>2. dp[s] = next(s, row)
    BY <1>11
  <2> HIDE DEF row
  <2>3. FrontierIs(ctx, fleet, ratios, ceiling, margins, s, j, row, next(s, row)[j])
    BY <1>2, <2>1
  <2> QED
    BY <2>2, <2>3 DEF row
<1> QED
  BY <1>10, <1>13, <1>14 DEF FrontierTabled, K, R

\* The mean and the variance of a choice, stage by stage.
Means(ctx, fleet, goal, c) ==
    [s \in 1 .. Len(fleet) |-> Mean(fleet[s], StageTime(ctx, fleet, c, s), goal.curve[c[2][s]].ratio)]
Variances(ctx, fleet, goal, c) ==
    [s \in 1 .. Len(fleet) |-> Variance(fleet[s], StageTime(ctx, fleet, c, s), goal.curve[c[2][s]].ratio)]

Ratios(goal) == [p \in DOMAIN goal.curve |-> goal.curve[p].ratio]

LEMMA RatiosSuit ==
    ASSUME NEW ctx, NEW fleet, NEW goal, JointSuits(ctx, fleet, goal.curve, goal.ceiling)
    PROVE  /\ FrontierSuits(ctx, fleet, Ratios(goal)) /\ DOMAIN Ratios(goal) = DOMAIN goal.curve
           /\ \A p \in DOMAIN goal.curve : Ratios(goal)[p] = goal.curve[p].ratio
<1>1. goal.curve \in Seq(PointType) /\ Suits(ctx, fleet)
  BY DEF JointSuits
<1> DEFINE m == Len(goal.curve)
<1>2. m \in Nat /\ DOMAIN goal.curve = 1 .. m
  BY <1>1
<1>3. \A p \in 1 .. m : goal.curve[p].ratio \in Nat
  <2> TAKE p \in 1 .. m
  <2>1. goal.curve[p] \in PointType
    BY <1>1, ElementIn, Zenon
  <2> QED
    BY <2>1 DEF PointType
<1>4. Ratios(goal) \in [1 .. m -> Nat] /\ DOMAIN Ratios(goal) = 1 .. m
  BY <1>2, <1>3 DEF Ratios
<1>5. Ratios(goal) \in Seq(Nat)
  BY <1>2, <1>4, LenOfFunction
<1>6. \A p \in DOMAIN goal.curve : Ratios(goal)[p] = goal.curve[p].ratio
  BY Zenon DEF Ratios
<1> QED
  BY <1>1, <1>2, <1>4, <1>5, <1>6 DEF FrontierSuits

LEMMA ChanceSteps ==
    ASSUME NEW ctx, NEW fleet, NEW goal, JointSuits(ctx, fleet, goal.curve, goal.ceiling),
           NEW c \in ChancesAdmitted(ctx, fleet, goal), NEW s \in 1 .. Len(fleet)
    PROVE  LET i == Ended(c, s)
               j == LastLayer(ctx, c[1], s)
               r == c[2][s]
           IN /\ j \in 1 .. Len(ctx.layers) /\ i \in Into(s, j)
              /\ s > 1 => i = LastLayer(ctx, c[1], s - 1)
              /\ s = Len(fleet) => j = Len(ctx.layers)
              /\ Taken(ctx, fleet, Ratios(goal), goal.ceiling, goal.margins, s, i, j, r)
              /\ Means(ctx, fleet, goal, c)[s] = MeanStep(ctx, fleet, Ratios(goal), s, i, j, r)
              /\ Variances(ctx, fleet, goal, c)[s] = VarianceStep(ctx, fleet, Ratios(goal), s, i, j, r)
              /\ MeanStep(ctx, fleet, Ratios(goal), s, i, j, r) \in Nat
              /\ VarianceStep(ctx, fleet, Ratios(goal), s, i, j, r) \in Nat
<1> DEFINE i == Ended(c, s)
           j == LastLayer(ctx, c[1], s)
           r == c[2][s]
           ratios == Ratios(goal)
<1>1. c \in JointChoices(ctx, fleet, goal) /\ Suits(ctx, fleet)
  BY DEF ChancesAdmitted, JointSuits
<1>2. Chances(fleet[s], StageTime(ctx, fleet, c, s), goal.curve[r].ratio, goal.ceiling, goal.margins)
  BY DEF ChancesAdmitted
<1>3. /\ j \in 1 .. Len(ctx.layers) /\ i \in Into(s, j)
      /\ s > 1 => i = LastLayer(ctx, c[1], s - 1)
      /\ s = Len(fleet) => j = Len(ctx.layers)
      /\ Fits(ctx, fleet[s], i + 1, j) /\ r \in DOMAIN goal.curve
      /\ StageTime(ctx, fleet, c, s) = ExecTime(ctx, fleet, s, i + 1, j)
  BY <1>1, ChoiceSteps
<1>4. FrontierSuits(ctx, fleet, ratios) /\ r \in DOMAIN ratios /\ ratios[r] = goal.curve[r].ratio
  <2>1. FrontierSuits(ctx, fleet, ratios) /\ DOMAIN ratios = DOMAIN goal.curve
    BY RatiosSuit
  <2>2. \A p \in DOMAIN goal.curve : ratios[p] = goal.curve[p].ratio
    BY RatiosSuit
  <2> HIDE DEF ratios, r
  <2> QED
    BY <1>3, <2>1, <2>2
<1>5. /\ Means(ctx, fleet, goal, c)[s] = Mean(fleet[s], StageTime(ctx, fleet, c, s), goal.curve[r].ratio)
      /\ Variances(ctx, fleet, goal, c)[s] = Variance(fleet[s], StageTime(ctx, fleet, c, s), goal.curve[r].ratio)
  BY Zenon DEF Means, Variances
<1> HIDE DEF i, j, r, ratios
<1>6. /\ Means(ctx, fleet, goal, c)[s] = MeanStep(ctx, fleet, ratios, s, i, j, r)
      /\ Variances(ctx, fleet, goal, c)[s] = VarianceStep(ctx, fleet, ratios, s, i, j, r)
  BY <1>3, <1>4, <1>5, Zenon DEF MeanStep, VarianceStep
<1>7. Taken(ctx, fleet, ratios, goal.ceiling, goal.margins, s, i, j, r)
  BY <1>2, <1>3, <1>4, Zenon DEF Taken
<1>8. MeanStep(ctx, fleet, ratios, s, i, j, r) \in Nat /\ VarianceStep(ctx, fleet, ratios, s, i, j, r) \in Nat
  BY <1>3, <1>4, ChanceNat
<1> QED
  BY <1>3, <1>6, <1>7, <1>8 DEF i, j, r, ratios

\* Every admitted choice is covered by the frontier of the last cell.
LEMMA FrontierIsBound ==
    ASSUME NEW ctx, NEW fleet, NEW goal, JointSuits(ctx, fleet, goal.curve, goal.ceiling),
           NEW dp, FrontierTabled(ctx, fleet, Ratios(goal), goal.ceiling, goal.margins, dp),
           NEW c \in ChancesAdmitted(ctx, fleet, goal)
    PROVE  LET last == dp[Len(fleet)][Len(ctx.layers)]
           IN \E k \in 1 .. Len(last) : /\ last[k].mean <= MeanOf(ctx, fleet, goal, c)
                                        /\ last[k].var <= VarianceOf(ctx, fleet, goal, c)
<1> DEFINE K == Len(fleet)
           n == Len(ctx.layers)
           ratios == Ratios(goal)
           f == Means(ctx, fleet, goal, c)
           g == Variances(ctx, fleet, goal, c)
           mean(s) == SumOver(f, 1 .. s)
           var(s) == SumOver(g, 1 .. s)
           last(s) == LastLayer(ctx, c[1], s)
           i(s) == Ended(c, s)
           r(s) == c[2][s]
           row(s) == IF s = 1 THEN <<>> ELSE dp[s - 1]
           cell(s) == dp[s][last(s)]
           prev(s) == Previous(s, row(s), i(s))
<1>1. K \in Nat /\ n \in Nat /\ K >= 1
  BY SuitsNat DEF JointSuits
<1>2. \A s \in 1 .. K : /\ last(s) \in 1 .. n /\ i(s) \in Into(s, last(s))
                        /\ s > 1 => i(s) = last(s - 1)
                        /\ s = K => last(s) = n
                        /\ Taken(ctx, fleet, ratios, goal.ceiling, goal.margins, s, i(s), last(s), r(s))
                        /\ f[s] = MeanStep(ctx, fleet, ratios, s, i(s), last(s), r(s)) /\ f[s] \in Nat
                        /\ g[s] = VarianceStep(ctx, fleet, ratios, s, i(s), last(s), r(s)) /\ g[s] \in Nat
  BY ChanceSteps
<1>3. f \in [1 .. K -> Nat] /\ g \in [1 .. K -> Nat]
  BY <1>2 DEF Means, Variances
<1>4. MeanOf(ctx, fleet, goal, c) = SumFunction(f) /\ VarianceOf(ctx, fleet, goal, c) = SumFunction(g)
  BY Zenon DEF MeanOf, VarianceOf, Means, Variances
<1> HIDE DEF K, n, f, g, last, i, r, ratios
<1>5. /\ SumFunction(f) = mean(K) /\ mean(0) = 0
      /\ \A s \in 1 .. K : mean(s - 1) \in Nat /\ mean(s) = mean(s - 1) + f[s]
  BY <1>1, <1>3, PrefixSums
<1>6. /\ SumFunction(g) = var(K) /\ var(0) = 0
      /\ \A s \in 1 .. K : var(s - 1) \in Nat /\ var(s) = var(s - 1) + g[s]
  BY <1>1, <1>3, PrefixSums
<1> HIDE DEF mean, var
<1>7. \A s \in 1 .. K :
         /\ cell(s) \in Seq(FrontierEntries)
         /\ \A k \in 1 .. Len(prev(s)) : \E x \in 1 .. Len(cell(s)) :
               cell(s)[x].mean <= prev(s)[k].mean + f[s] /\ cell(s)[x].var <= prev(s)[k].var + g[s]
  <2> TAKE s \in 1 .. K
  <2>1. FrontierIs(ctx, fleet, ratios, goal.ceiling, goal.margins, s, last(s), row(s), cell(s))
    BY <1>2 DEF FrontierTabled, K, n, ratios
  <2> HIDE DEF row, cell
  <2>2. cell(s) \in Seq(FrontierEntries)
    BY <2>1 DEF FrontierIs
  <2>3. ASSUME NEW k \in 1 .. Len(prev(s))
        PROVE  \E x \in 1 .. Len(cell(s)) :
                  cell(s)[x].mean <= prev(s)[k].mean + f[s] /\ cell(s)[x].var <= prev(s)[k].var + g[s]
    <3>1. PICK e \in FrontierEntries :
             AddsStep(ctx, fleet, ratios, s, i(s), last(s), r(s), prev(s)[k], e) /\ Covers(cell(s), e)
      BY <1>2, <2>1 DEF FrontierIs
    <3>2. PICK x \in 1 .. Len(cell(s)) : AtMost(cell(s)[x], e)
      BY <3>1 DEF Covers
    <3>3. e.mean = prev(s)[k].mean + f[s] /\ e.var = prev(s)[k].var + g[s]
      BY <1>2, <3>1 DEF AddsStep
    <3> QED
      BY <3>2, <3>3 DEF AtMost
  <2> QED
    BY <2>2, <2>3
<1> DEFINE T == {s \in 1 .. K : \E x \in 1 .. Len(cell(s)) : cell(s)[x].mean <= mean(s) /\ cell(s)[x].var <= var(s)}
<1>8. K >= 1 => 1 \in T
  <2>1. 1 \in 1 .. K /\ 1 - 1 = 0
    BY <1>1
  <2>2. prev(1) = <<Nothing>>
    BY DEF Previous
  <2>3. 1 \in 1 .. Len(prev(1)) /\ prev(1)[1] = Nothing
    <3> HIDE DEF prev
    <3> QED
      BY <2>2
  <2>4. Nothing.mean = 0 /\ Nothing.var = 0
    BY DEF Nothing
  <2>5. mean(1) = 0 + f[1] /\ var(1) = 0 + g[1]
    BY <1>5, <1>6, <2>1
  <2> HIDE DEF prev, cell
  <2>6. \E x \in 1 .. Len(cell(1)) :
           cell(1)[x].mean <= prev(1)[1].mean + f[1] /\ cell(1)[x].var <= prev(1)[1].var + g[1]
    BY <1>7, <2>1, <2>3
  <2> QED
    BY <2>1, <2>3, <2>4, <2>5, <2>6
<1>9. ASSUME NEW s \in 1 .. K - 1, s \in T PROVE s + 1 \in T
  <2>1. s \in 1 .. K /\ s + 1 \in 1 .. K /\ (s + 1) - 1 = s /\ s + 1 # 1 /\ s + 1 > 1
    BY <1>1
  <2>2. prev(s + 1) = cell(s)
    <3>1. i(s + 1) = last(s) /\ row(s + 1) = dp[s]
      BY <1>2, <2>1
    <3> QED
      BY <2>1, <3>1 DEF Previous
  <2> HIDE DEF prev, cell
  <2>3. PICK k \in 1 .. Len(cell(s)) : cell(s)[k].mean <= mean(s) /\ cell(s)[k].var <= var(s)
    BY <1>9
  <2>4. PICK x \in 1 .. Len(cell(s + 1)) : /\ cell(s + 1)[x].mean <= cell(s)[k].mean + f[s + 1]
                                           /\ cell(s + 1)[x].var <= cell(s)[k].var + g[s + 1]
    BY <1>7, <2>1, <2>2
  <2>5. /\ mean(s) \in Nat /\ mean(s + 1) = mean(s) + f[s + 1] /\ f[s + 1] \in Nat
        /\ var(s) \in Nat /\ var(s + 1) = var(s) + g[s + 1] /\ g[s + 1] \in Nat
    BY <1>2, <1>5, <1>6, <2>1
  <2>6. cell(s)[k] \in FrontierEntries /\ cell(s + 1)[x] \in FrontierEntries
    BY <1>7, <2>1, ElementIn
  <2>7. /\ cell(s)[k].mean \in Nat /\ cell(s)[k].var \in Nat
        /\ cell(s + 1)[x].mean \in Nat /\ cell(s + 1)[x].var \in Nat
    BY <2>6 DEF FrontierEntries
  <2>8. \A a, b, now, more \in Nat : b <= now /\ a <= b + more => a <= now + more
    OBVIOUS
  <2>9. cell(s + 1)[x].mean <= mean(s + 1) /\ cell(s + 1)[x].var <= var(s + 1)
    BY <2>3, <2>4, <2>5, <2>7, <2>8, Zenon
  <2> QED
    BY <2>1, <2>9
<1>10. 1 .. K \subseteq T
  <2> HIDE DEF T
  <2> QED
    BY <1>1, <1>8, <1>9, InductUpTo
<1>11. K \in 1 .. K
  BY <1>1
<1>12. last(K) = n
  BY <1>2, <1>11
<1>13. \E x \in 1 .. Len(cell(K)) : cell(K)[x].mean <= mean(K) /\ cell(K)[x].var <= var(K)
  <2> HIDE DEF cell
  <2> QED
    BY <1>10, <1>11
<1> QED
  BY <1>4, <1>5, <1>6, <1>12, <1>13 DEF K, n

\* A plan is read back from the frontiers: its ends and entries.
Reads(ctx) == [end : 1 .. Len(ctx.layers), e : FrontierEntries]

FrontierTraced(ctx, fleet, dp, k, trace) ==
    /\ trace \in [1 .. Len(fleet) -> Reads(ctx)]
    /\ trace[Len(fleet)] = [end |-> Len(ctx.layers), e |-> dp[Len(fleet)][Len(ctx.layers)][k]]
    /\ \A s \in 1 .. Len(fleet) :
          \E x \in 1 .. Len(dp[s][trace[s].end]) : trace[s].e = dp[s][trace[s].end][x]
    /\ \A s \in 1 .. Len(fleet) - 1 :
          trace[s] = [end |-> trace[s + 1].e.from,
                      e |-> dp[s][trace[s + 1].e.from][trace[s + 1].e.entry]]

TracePlan(fleet, last, trace) ==
    [cuts |-> [s \in 1 .. Len(fleet) - 1 |-> trace[s].end],
     points |-> [s \in 1 .. Len(fleet) |-> trace[s].e.point],
     mean |-> last.mean, var |-> last.var]

\* The backpointers of one entry, as FrontierPlans defines them.
TraceIs(ctx, fleet, dp, k, h) ==
    h = [s \in 1 .. Len(fleet) |->
            IF s = Len(fleet)
            THEN [end |-> Len(ctx.layers), e |-> dp[Len(fleet)][Len(ctx.layers)][k]]
            ELSE [end |-> h[s + 1].e.from, e |-> dp[s][h[s + 1].e.from][h[s + 1].e.entry]]]

Trace(ctx, fleet, dp, k) == CHOOSE h : TraceIs(ctx, fleet, dp, k, h)

LEMMA PlansAreTraced ==
    ASSUME NEW ctx, NEW fleet, NEW ratios, NEW ceiling, NEW margins
    PROVE  LET dp == Frontiers(ctx, fleet, ratios, ceiling, margins)
               last == dp[Len(fleet)][Len(ctx.layers)]
           IN FrontierPlans(ctx, fleet, ratios, ceiling, margins)
              = {TracePlan(fleet, last[k], Trace(ctx, fleet, dp, k)) : k \in DOMAIN last}
BY Zenon DEF FrontierPlans, TracePlan, Trace, TraceIs

LEMMA FrontierTraces ==
    ASSUME NEW ctx, NEW fleet, NEW ratios, NEW ceiling, NEW margins, FrontierSuits(ctx, fleet, ratios),
           NEW dp, FrontierTabled(ctx, fleet, ratios, ceiling, margins, dp),
           NEW k \in 1 .. Len(dp[Len(fleet)][Len(ctx.layers)])
    PROVE  FrontierTraced(ctx, fleet, dp, k, Trace(ctx, fleet, dp, k))
<1> DEFINE K == Len(fleet)
           n == Len(ctx.layers)
           V == Reads(ctx)
           cell(s, j) == dp[s][j]
           within(s, v) == \E x \in 1 .. Len(cell(s, v.end)) : v.e = cell(s, v.end)[x]
           good == {q \in (1 .. K) \X V : within(q[1], q[2])}
           lead(s, v) == [end |-> v.e.from, e |-> dp[s][v.e.from][v.e.entry]]
           ref == [q \in (1 .. K) \X V |-> lead(q[1] - 1, q[2])]
           top == [end |-> n, e |-> dp[K][n][k]]
<1>1. K \in Nat /\ n \in Nat /\ K >= 1 /\ K <= n /\ Suits(ctx, fleet)
  BY SuitsNat DEF FrontierSuits
<1>2. \A s \in 1 .. K, j \in 1 .. n : cell(s, j) \in Seq(FrontierEntries)
  BY DEF FrontierTabled, FrontierRows
<1>3. ASSUME NEW s \in 2 .. K, NEW v \in V, within(s, v)
      PROVE  lead(s - 1, v) \in V /\ within(s - 1, lead(s - 1, v))
  <2> DEFINE j == v.end
             row == IF s = 1 THEN <<>> ELSE dp[s - 1]
             i == v.e.from
  <2>1. s \in 1 .. K /\ s - 1 \in 1 .. K /\ s # 1 /\ s > 1
    BY <1>1
  <2>2. j \in 1 .. n
    BY DEF Reads
  <2>3. PICK x \in 1 .. Len(cell(s, j)) : v.e = cell(s, j)[x]
    BY <1>3
  <2>4. FrontierIs(ctx, fleet, ratios, ceiling, margins, s, j, row, cell(s, j))
    BY <2>1, <2>2 DEF FrontierTabled
  <2>5. row = dp[s - 1]
    BY <2>1
  <2> HIDE DEF row, cell, j
  <2>6. i \in Into(s, j) /\ v.e.entry \in 1 .. Len(Previous(s, row, i))
    BY <2>3, <2>4 DEF FrontierIs
  <2>7. i \in 1 .. n
    BY <1>1, <2>1, <2>2, <2>6, IntoLayers
  <2>8. Previous(s, row, i) = cell(s - 1, i)
    BY <2>1, <2>5 DEF Previous, cell
  <2> DEFINE e == cell(s - 1, i)[v.e.entry]
  <2>9. e \in FrontierEntries /\ v.e.entry \in 1 .. Len(cell(s - 1, i))
    <3>1. v.e.entry \in 1 .. Len(cell(s - 1, i))
      BY <2>6, <2>8
    <3> QED
      BY <1>2, <2>1, <2>7, <3>1, ElementIn
  <2>10. lead(s - 1, v) = [end |-> i, e |-> e]
    BY DEF cell
  <2> HIDE DEF lead, e, i
  <2>11. lead(s - 1, v) \in V
    BY <2>7, <2>9, <2>10 DEF Reads
  <2>12. lead(s - 1, v).end = i /\ lead(s - 1, v).e = e
    BY <2>10
  <2>13. \E y \in 1 .. Len(cell(s - 1, i)) : e = cell(s - 1, i)[y]
    BY <2>9 DEF e, i
  <2> QED
    BY <2>11, <2>12, <2>13
<1>4. top \in V /\ within(K, top) /\ K \in 1 .. K
  <2>1. K \in 1 .. K /\ n \in 1 .. n
    BY <1>1
  <2>2. cell(K, n) \in Seq(FrontierEntries) /\ k \in 1 .. Len(cell(K, n))
    BY <1>2, <2>1
  <2>3. cell(K, n)[k] \in FrontierEntries
    BY <2>2, ElementIn
  <2>4. top \in V
    BY <2>1, <2>3 DEF Reads
  <2>5. top.end = n /\ top.e = cell(K, n)[k]
    OBVIOUS
  <2> HIDE DEF top, cell
  <2>6. within(K, top)
    BY <2>2, <2>5
  <2> QED
    BY <2>1, <2>4, <2>6
<1>5. Trace(ctx, fleet, dp, k) = CHOOSE h : TraceIs(ctx, fleet, dp, k, h)
  BY Zenon DEF Trace
<1>6. \A h : TraceIs(ctx, fleet, dp, k, h)
             <=> h = [s \in 1 .. K |-> IF s = K THEN top ELSE lead(s, h[s + 1])]
  BY Zenon DEF TraceIs
<1> HIDE DEF K, n, V, within, lead, top
<1>7. \A s \in 1 .. K, v \in V : /\ <<s, v>> \in good <=> within(s, v)
                                 /\ ref[<<s, v>>] = lead(s - 1, v)
  OBVIOUS
<1> HIDE DEF good, ref
<1>8. \A s \in 2 .. K : \A v \in V :
         <<s, v>> \in good => ref[<<s, v>>] \in V /\ <<s - 1, ref[<<s, v>>]>> \in good
  <2> TAKE s \in 2 .. K
  <2> TAKE v \in V
  <2> HAVE <<s, v>> \in good
  <2>1. s \in 1 .. K /\ s - 1 \in 1 .. K
    BY <1>1
  <2>2. within(s, v) /\ ref[<<s, v>>] = lead(s - 1, v)
    BY <1>7, <2>1
  <2>3. lead(s - 1, v) \in V /\ within(s - 1, lead(s - 1, v))
    BY <1>3, <2>2
  <2> QED
    BY <1>7, <2>1, <2>2, <2>3
<1>9. <<K, top>> \in good
  BY <1>4, <1>7
<1>10. PICK end \in [1 .. K -> V] : Chain(K, top, good, ref, end)
  BY <1>1, <1>4, <1>8, <1>9, BackpointersLead
<1>11. /\ end[K] = top /\ \A s \in 1 .. K : end[s] \in V /\ within(s, end[s])
       /\ \A s \in 1 .. K - 1 : end[s] = lead(s, end[s + 1])
  <2>1. \A s \in 1 .. K - 1 : s + 1 \in 1 .. K /\ (s + 1) - 1 = s
    BY <1>1
  <2>2. \A s \in 1 .. K : end[s] \in V
    OBVIOUS
  <2>3. \A s \in 1 .. K : within(s, end[s])
    BY <1>7, <1>10, <2>2 DEF Chain
  <2>4. \A s \in 1 .. K - 1 : end[s] = lead(s, end[s + 1])
    <3> TAKE s \in 1 .. K - 1
    <3>1. end[s] = ref[<<s + 1, end[s + 1]>>]
      BY <1>10 DEF Chain
    <3>2. ref[<<s + 1, end[s + 1]>>] = lead((s + 1) - 1, end[s + 1])
      BY <1>7, <2>1, <2>2
    <3> QED
      BY <2>1, <3>1, <3>2
  <2>5. end[K] = top
    BY <1>10 DEF Chain
  <2> QED
    BY <2>2, <2>3, <2>4, <2>5
<1> DEFINE table(h) == h = [s \in 1 .. K |-> IF s = K THEN top ELSE lead(s, h[s + 1])]
           g == CHOOSE h : TraceIs(ctx, fleet, dp, k, h)
<1>12. table(end)
  <2>1. ASSUME NEW s \in 1 .. K PROVE end[s] = IF s = K THEN top ELSE lead(s, end[s + 1])
    <3>1. s # K => s \in 1 .. K - 1
      BY <1>1
    <3> QED
      BY <1>11, <3>1
  <2>2. end = [s \in 1 .. K |-> end[s]]
    OBVIOUS
  <2> QED
    BY <2>1, <2>2, Zenon
<1>13. table(g)
  <2>1. TraceIs(ctx, fleet, dp, k, end)
    BY <1>6, <1>12
  <2>2. TraceIs(ctx, fleet, dp, k, g)
    BY <2>1, Zenon
  <2> QED
    BY <1>6, <2>2
<1> HIDE DEF g
<1>14. g[K] = top /\ \A s \in 1 .. K - 1 : g[s] = lead(s, g[s + 1])
  <2>1. \A s \in 1 .. K - 1 : s \in 1 .. K /\ s # K
    BY <1>1
  <2>2. \A s \in 1 .. K : g[s] = IF s = K THEN top ELSE lead(s, g[s + 1])
    BY <1>13, Zenon
  <2> HIDE DEF table
  <2> QED
    BY <1>4, <2>1, <2>2
<1>15. g = end
  <2> DEFINE T == {s \in 1 .. K : g[s] = end[s]}
  <2>1. K \in T
    BY <1>4, <1>11, <1>14
  <2>2. ASSUME NEW s \in 1 .. K - 1, s + 1 \in T PROVE s \in T
    <3>1. s \in 1 .. K
      BY <1>1
    <3> QED
      BY <1>11, <1>14, <2>2, <3>1
  <2>3. 1 .. K \subseteq T
    <3> HIDE DEF T
    <3> QED
      BY <1>1, <2>1, <2>2, InductDown
  <2>4. \E e : g = [s \in 1 .. K |-> IF s = K THEN top ELSE lead(s, e[s + 1])]
    BY <1>13
  <2>5. g = [s \in 1 .. K |-> g[s]]
    BY <2>4
  <2>6. end = [s \in 1 .. K |-> end[s]]
    OBVIOUS
  <2> QED
    BY <2>3, <2>5, <2>6
<1>16. FrontierTraced(ctx, fleet, dp, k, end)
  <2>1. \A s \in 1 .. K : \E x \in 1 .. Len(dp[s][end[s].end]) : end[s].e = dp[s][end[s].end][x]
    BY <1>11 DEF within
  <2>2. \A s \in 1 .. K - 1 : end[s] = [end |-> end[s + 1].e.from,
                                        e |-> dp[s][end[s + 1].e.from][end[s + 1].e.entry]]
    BY <1>11 DEF lead
  <2> QED
    BY <1>11, <2>1, <2>2 DEF FrontierTraced, K, V, top, n
<1> QED
  BY <1>5, <1>15, <1>16 DEF g

\* What is read back meets the constraints, and has the entry's mean and
\* variance.
LEMMA TracedMeetsChances ==
    ASSUME NEW ctx, NEW fleet, NEW goal, JointSuits(ctx, fleet, goal.curve, goal.ceiling),
           NEW dp, FrontierTabled(ctx, fleet, Ratios(goal), goal.ceiling, goal.margins, dp),
           NEW k \in 1 .. Len(dp[Len(fleet)][Len(ctx.layers)]),
           NEW trace, FrontierTraced(ctx, fleet, dp, k, trace)
    PROVE  LET last == dp[Len(fleet)][Len(ctx.layers)][k]
               plan == TracePlan(fleet, last, trace)
               c == <<plan.cuts, plan.points>>
           IN /\ c \in ChancesAdmitted(ctx, fleet, goal)
              /\ plan.mean = MeanOf(ctx, fleet, goal, c) /\ plan.var = VarianceOf(ctx, fleet, goal, c)
<1> DEFINE K == Len(fleet)
           n == Len(ctx.layers)
           ratios == Ratios(goal)
           curve == goal.curve
           last == dp[K][n][k]
           end(s) == trace[s].end
           entry(s) == trace[s].e
           ends == [s \in 1 .. K |-> end(s)]
           cuts == [s \in 1 .. K - 1 |-> end(s)]
           points == [s \in 1 .. K |-> entry(s).point]
           c == <<cuts, points>>
           i(s) == Preceding(ends, s)
           row(s) == IF s = 1 THEN <<>> ELSE dp[s - 1]
<1>1. K \in Nat /\ n \in Nat /\ K >= 1 /\ K <= n /\ Suits(ctx, fleet)
  BY SuitsNat DEF JointSuits
<1>2. FrontierSuits(ctx, fleet, ratios) /\ DOMAIN ratios = DOMAIN curve
  BY RatiosSuit
<1>3. \A p \in DOMAIN curve : ratios[p] = curve[p].ratio
  BY RatiosSuit
<1>4. \A s \in 1 .. K : /\ trace[s] \in Reads(ctx)
                        /\ \E x \in 1 .. Len(dp[s][end(s)]) : entry(s) = dp[s][end(s)][x]
  BY DEF FrontierTraced
<1>5. \A s \in 1 .. K : end(s) \in 1 .. n /\ entry(s) \in FrontierEntries
  BY <1>4 DEF Reads
<1>6. /\ end(K) = n /\ entry(K) = last
      /\ \A s \in 1 .. K - 1 : /\ end(s) = entry(s + 1).from
                               /\ entry(s) = dp[s][entry(s + 1).from][entry(s + 1).entry]
  <2>1. /\ trace[K] = [end |-> n, e |-> last]
        /\ \A s \in 1 .. K - 1 : trace[s] = [end |-> entry(s + 1).from,
                                             e |-> dp[s][entry(s + 1).from][entry(s + 1).entry]]
    BY DEF FrontierTraced
  <2>2. end(K) = n /\ entry(K) = last
    <3> HIDE DEF last, K, n
    <3> QED
      BY <2>1
  <2>3. ASSUME NEW s \in 1 .. K - 1
        PROVE  end(s) = entry(s + 1).from /\ entry(s) = dp[s][entry(s + 1).from][entry(s + 1).entry]
    <3> DEFINE from == entry(s + 1).from
               e == dp[s][from][entry(s + 1).entry]
    <3>1. trace[s] = [end |-> from, e |-> e]
      BY <2>1
    <3> HIDE DEF from, e
    <3>2. trace[s].end = from /\ trace[s].e = e
      BY <3>1
    <3> QED
      BY <3>2 DEF from, e
  <2> QED
    BY <2>2, <2>3
<1> HIDE DEF K, n, last, end, entry, ratios
<1>7. \A s \in 1 .. K : ends[s] = end(s)
  OBVIOUS
<1>8. \A s \in 1 .. K : i(s) = IF s = 1 THEN 0 ELSE end(s - 1)
  <2> TAKE s \in 1 .. K
  <2>1. s # 1 => s - 1 \in 1 .. K
    BY <1>1
  <2> QED
    BY <2>1 DEF Preceding
<1> HIDE DEF ends, i
<1> DEFINE mean(s) == MeanStep(ctx, fleet, ratios, s, i(s), end(s), entry(s).point)
           var(s) == VarianceStep(ctx, fleet, ratios, s, i(s), end(s), entry(s).point)
           before(s) == IF s = 1 THEN Nothing ELSE entry(s - 1)
<1>9. ASSUME NEW s \in 1 .. K
      PROVE  /\ i(s) \in Into(s, end(s))
             /\ Taken(ctx, fleet, ratios, goal.ceiling, goal.margins, s, i(s), end(s), entry(s).point)
             /\ entry(s).mean = before(s).mean + mean(s) /\ entry(s).var = before(s).var + var(s)
  <2> DEFINE cell == dp[s][end(s)]
             from == entry(s).from
  <2>1. FrontierIs(ctx, fleet, ratios, goal.ceiling, goal.margins, s, end(s), row(s), cell)
    BY <1>5 DEF FrontierTabled, K, n, ratios
  <2>2. PICK x \in 1 .. Len(cell) : entry(s) = cell[x]
    BY <1>4
  <2> HIDE DEF row, cell
  <2>3. /\ from \in Into(s, end(s)) /\ entry(s).entry \in 1 .. Len(Previous(s, row(s), from))
        /\ Taken(ctx, fleet, ratios, goal.ceiling, goal.margins, s, from, end(s), entry(s).point)
        /\ AddsStep(ctx, fleet, ratios, s, from, end(s), entry(s).point,
                Previous(s, row(s), from)[entry(s).entry], entry(s))
    BY <2>1, <2>2 DEF FrontierIs
  <2>4. from = i(s) /\ Previous(s, row(s), from)[entry(s).entry] = before(s)
    <3>1. CASE s = 1
      <4>1. from = 0 /\ i(s) = 0
        BY <1>8, <2>3, <3>1 DEF Into
      <4>2. Previous(s, row(s), from) = <<Nothing>>
        BY <3>1 DEF Previous
      <4>3. entry(s).entry = 1
        <5>1. Len(<<Nothing>>) = 1 /\ \A y \in 1 .. 1 : y = 1
          OBVIOUS
        <5> QED
          BY <2>3, <4>2, <5>1
      <4>4. <<Nothing>>[1] = Nothing
        OBVIOUS
      <4> QED
        BY <3>1, <4>1, <4>2, <4>3, <4>4
    <3>2. CASE s # 1
      <4>1. s - 1 \in 1 .. K - 1 /\ (s - 1) + 1 = s
        BY <1>1, <3>2
      <4>2. end(s - 1) = from /\ entry(s - 1) = dp[s - 1][from][entry(s).entry]
        BY <1>6, <4>1
      <4>3. Previous(s, row(s), from) = dp[s - 1][from]
        BY <3>2 DEF Previous, row
      <4> QED
        BY <1>8, <3>2, <4>2, <4>3
    <3> QED
      BY <3>1, <3>2
  <2> HIDE DEF before, from
  <2> QED
    BY <2>3, <2>4 DEF AddsStep
<1>10. /\ cuts \in [1 .. K - 1 -> 1 .. n - 1] /\ Increasing(cuts)
       /\ \A s \in 1 .. K : LastLayer(ctx, cuts, s) = end(s) /\ FirstLayer(cuts, s) = i(s) + 1
  <2>1. \A s \in 1 .. K : ends[s] \in 1 .. n /\ Preceding(ends, s) \in Into(s, ends[s])
    BY <1>5, <1>7, <1>9 DEF i
  <2>2. ends[K] = n
    BY <1>1, <1>6, <1>7
  <2>3. cuts = [s \in 1 .. K - 1 |-> ends[s]]
    <3>1. \A s \in 1 .. K - 1 : s \in 1 .. K
      BY <1>1
    <3> QED
      BY <1>7, <3>1
  <2> HIDE DEF cuts
  <2>4. /\ cuts \in [1 .. K - 1 -> 1 .. n - 1] /\ Increasing(cuts)
        /\ \A s \in 1 .. K : LastLayer(ctx, cuts, s) = ends[s] /\ FirstLayer(cuts, s) = Preceding(ends, s) + 1
    <3>1. EndsWithin(ctx, fleet, ends)
      BY <2>1, <2>2 DEF EndsWithin, K, n
    <3>2. CutsFollow(ctx, fleet, ends, cuts)
      BY <1>1, <2>3, <3>1, EndsAreCuts DEF K
    <3> QED
      BY <3>2 DEF CutsFollow, K, n
  <2> QED
    BY <1>7, <2>4 DEF i
<1>11. c[1] = cuts /\ c[2] = points /\ \A s \in 1 .. K : points[s] = entry(s).point
  OBVIOUS
<1>12. /\ TracePlan(fleet, last, trace).cuts = cuts /\ TracePlan(fleet, last, trace).points = points
       /\ TracePlan(fleet, last, trace).mean = last.mean /\ TracePlan(fleet, last, trace).var = last.var
  BY DEF TracePlan, K, end, entry
<1> HIDE DEF c, cuts
<1>13. \A s \in 1 .. K : StageTime(ctx, fleet, c, s) = ExecTime(ctx, fleet, s, i(s) + 1, end(s))
  BY <1>10, <1>11 DEF StageTime
<1>14. \A s \in 1 .. K : entry(s).point \in DOMAIN curve /\ ratios[entry(s).point] = curve[entry(s).point].ratio
  BY <1>2, <1>3, <1>9 DEF Taken
<1>15. c \in ChancesAdmitted(ctx, fleet, goal)
  <2>1. \A s \in 1 .. K :
          /\ Fits(ctx, fleet[s], FirstLayer(cuts, s), LastLayer(ctx, cuts, s))
          /\ Chances(fleet[s], StageTime(ctx, fleet, c, s), curve[c[2][s]].ratio, goal.ceiling, goal.margins)
    BY <1>9, <1>10, <1>11, <1>13, <1>14 DEF Taken
  <2>2. points \in [1 .. K -> DOMAIN curve]
    BY <1>14
  <2>3. cuts \in {q \in [1 .. K - 1 -> 1 .. n - 1] :
                    /\ Increasing(q)
                    /\ \A s \in 1 .. K : Fits(ctx, fleet[s], FirstLayer(q, s), LastLayer(ctx, q, s))}
    BY <1>10, <2>1
  <2> HIDE DEF points
  <2>4. c \in JointChoices(ctx, fleet, goal)
    BY <2>2, <2>3 DEF JointChoices, c, K, n
  <2> QED
    BY <2>1, <2>4 DEF ChancesAdmitted, K
<1> HIDE DEF points
<1> DEFINE f == Means(ctx, fleet, goal, c)
           g == Variances(ctx, fleet, goal, c)
           fs(s) == SumOver(f, 1 .. s)
           gs(s) == SumOver(g, 1 .. s)
<1>16. \A s \in 1 .. K : f[s] = mean(s) /\ g[s] = var(s) /\ mean(s) \in Nat /\ var(s) \in Nat
  <2> TAKE s \in 1 .. K
  <2>1. /\ f[s] = Mean(fleet[s], StageTime(ctx, fleet, c, s), curve[c[2][s]].ratio)
        /\ g[s] = Variance(fleet[s], StageTime(ctx, fleet, c, s), curve[c[2][s]].ratio)
    BY Zenon DEF Means, Variances, K
  <2>2. curve[c[2][s]].ratio = ratios[entry(s).point]
    BY <1>11, <1>14
  <2>3. f[s] = mean(s) /\ g[s] = var(s)
    BY <1>13, <2>1, <2>2, Zenon DEF MeanStep, VarianceStep
  <2>4. mean(s) \in Nat /\ var(s) \in Nat
    BY <1>2, <1>5, <1>9, ChanceNat DEF Taken, K, n
  <2> QED
    BY <2>3, <2>4
<1>17. f \in [1 .. K -> Nat] /\ g \in [1 .. K -> Nat]
  BY <1>16 DEF Means, Variances, K
<1>18. MeanOf(ctx, fleet, goal, c) = SumFunction(f) /\ VarianceOf(ctx, fleet, goal, c) = SumFunction(g)
  BY Zenon DEF MeanOf, VarianceOf, Means, Variances
<1> HIDE DEF f, g, mean, var
<1>19. /\ SumFunction(f) = fs(K) /\ fs(0) = 0
       /\ \A s \in 1 .. K : fs(s - 1) \in Nat /\ fs(s) = fs(s - 1) + f[s]
  BY <1>1, <1>17, PrefixSums
<1>20. /\ SumFunction(g) = gs(K) /\ gs(0) = 0
       /\ \A s \in 1 .. K : gs(s - 1) \in Nat /\ gs(s) = gs(s - 1) + g[s]
  BY <1>1, <1>17, PrefixSums
<1> HIDE DEF fs, gs
<1> DEFINE T == {s \in 1 .. K : entry(s).mean = fs(s) /\ entry(s).var = gs(s)}
<1>21. K >= 1 => 1 \in T
  <2>1. 1 \in 1 .. K /\ 1 - 1 = 0
    BY <1>1
  <2>2. before(1).mean = 0 /\ before(1).var = 0
    BY DEF Nothing
  <2>3. entry(1).mean = 0 + mean(1) /\ entry(1).var = 0 + var(1)
    BY <1>9, <2>1, <2>2
  <2>4. fs(1) = 0 + mean(1) /\ gs(1) = 0 + var(1)
    BY <1>16, <1>19, <1>20, <2>1
  <2> QED
    BY <2>1, <2>3, <2>4
<1>22. ASSUME NEW s \in 1 .. K - 1, s \in T PROVE s + 1 \in T
  <2>1. s \in 1 .. K /\ s + 1 \in 1 .. K /\ (s + 1) - 1 = s /\ s + 1 # 1
    BY <1>1
  <2>2. before(s + 1) = entry(s)
    BY <2>1
  <2> HIDE DEF before
  <2>3. entry(s + 1).mean = fs(s) + mean(s + 1) /\ entry(s + 1).var = gs(s) + var(s + 1)
    BY <1>9, <1>22, <2>1, <2>2
  <2>4. fs(s + 1) = fs(s) + mean(s + 1) /\ gs(s + 1) = gs(s) + var(s + 1)
    BY <1>16, <1>19, <1>20, <2>1
  <2> QED
    BY <2>1, <2>3, <2>4
<1>23. K \in T
  <2>1. 1 .. K \subseteq T
    <3> HIDE DEF T
    <3> QED
      BY <1>1, <1>21, <1>22, InductUpTo
  <2>2. K \in 1 .. K
    BY <1>1
  <2> QED
    BY <2>1, <2>2
<1>24. last.mean = MeanOf(ctx, fleet, goal, c) /\ last.var = VarianceOf(ctx, fleet, goal, c)
  BY <1>6, <1>18, <1>19, <1>20, <1>23
<1> QED
  BY <1>12, <1>15, <1>24 DEF c, last, K, n

\* The plans of the stochastic partitioner against every choice.
FrontierBest(ctx, fleet, goal) ==
    LET ratios == [p \in DOMAIN goal.curve |-> goal.curve[p].ratio]
        ok == ChancesAdmitted(ctx, fleet, goal)
        mean(c) == MeanOf(ctx, fleet, goal, c)
        var(c) == VarianceOf(ctx, fleet, goal, c)
        plans == FrontierPlans(ctx, fleet, ratios, goal.ceiling, goal.margins)
    IN /\ \A p \in plans :
            LET c == <<p.cuts, p.points>>
            IN c \in ok /\ p.mean = mean(c) /\ p.var = var(c)
       /\ \A c \in ok : \E p \in plans : p.mean <= mean(c) /\ p.var <= var(c)

LEMMA FrontierPlansAreBest ==
    ASSUME NEW ctx, NEW fleet, NEW goal, JointSuits(ctx, fleet, goal.curve, goal.ceiling)
    PROVE  FrontierBest(ctx, fleet, goal)
<1> DEFINE ratios == Ratios(goal)
           dp == Frontiers(ctx, fleet, ratios, goal.ceiling, goal.margins)
           K == Len(fleet)
           n == Len(ctx.layers)
           last == dp[K][n]
           ok == ChancesAdmitted(ctx, fleet, goal)
           plans == FrontierPlans(ctx, fleet, ratios, goal.ceiling, goal.margins)
           plan(k) == TracePlan(fleet, last[k], Trace(ctx, fleet, dp, k))
<1>1. FrontierSuits(ctx, fleet, ratios)
  BY RatiosSuit
<1>2. FrontierTabled(ctx, fleet, ratios, goal.ceiling, goal.margins, dp)
  BY <1>1, FrontierTableExists
<1>3. plans = {plan(k) : k \in DOMAIN last}
  BY PlansAreTraced, Zenon
<1>4. DOMAIN last = 1 .. Len(last)
  <2>1. K \in 1 .. K /\ n \in 1 .. n
    BY SuitsNat DEF JointSuits
  <2>2. last \in Seq(FrontierEntries)
    BY <1>2, <2>1 DEF FrontierTabled, FrontierRows
  <2> HIDE DEF last
  <2> QED
    BY <2>2
<1> HIDE DEF dp, ratios, plans
<1>5. ASSUME NEW k \in 1 .. Len(last)
      PROVE  LET c == <<plan(k).cuts, plan(k).points>>
             IN c \in ok /\ plan(k).mean = MeanOf(ctx, fleet, goal, c) /\ plan(k).var = VarianceOf(ctx, fleet, goal, c)
  <2>1. FrontierTraced(ctx, fleet, dp, k, Trace(ctx, fleet, dp, k))
    BY <1>1, <1>2, FrontierTraces
  <2>2. FrontierTabled(ctx, fleet, Ratios(goal), goal.ceiling, goal.margins, dp)
    BY <1>2, Zenon DEF ratios
  <2> QED
    BY <2>1, <2>2, TracedMeetsChances
<1>6. ASSUME NEW c \in ok
      PROVE  \E k \in 1 .. Len(last) : /\ last[k].mean <= MeanOf(ctx, fleet, goal, c)
                                       /\ last[k].var <= VarianceOf(ctx, fleet, goal, c)
  BY <1>2, FrontierIsBound DEF ratios
<1>7. \A k \in 1 .. Len(last) : plan(k).mean = last[k].mean /\ plan(k).var = last[k].var
  BY DEF TracePlan
<1> HIDE DEF plan, ok, last
<1>8. \A p \in plans : LET c == <<p.cuts, p.points>>
                       IN c \in ok /\ p.mean = MeanOf(ctx, fleet, goal, c) /\ p.var = VarianceOf(ctx, fleet, goal, c)
  BY <1>3, <1>4, <1>5
<1>9. \A c \in ok : \E p \in plans : /\ p.mean <= MeanOf(ctx, fleet, goal, c)
                                     /\ p.var <= VarianceOf(ctx, fleet, goal, c)
  <2> TAKE c \in ok
  <2>1. PICK k \in 1 .. Len(last) : /\ last[k].mean <= MeanOf(ctx, fleet, goal, c)
                                    /\ last[k].var <= VarianceOf(ctx, fleet, goal, c)
    BY <1>6
  <2>2. plan(k) \in plans
    BY <1>3, <1>4
  <2> QED
    BY <1>7, <2>1, <2>2
<1> QED
  BY <1>8, <1>9, Zenon DEF FrontierBest, ok, plans, ratios, Ratios

\* FrontierIsBest: the frontier that stochastic_joint_partition ends with has
\* plans that meet their chance constraints, at the end of their own
\* backpointers, and no choice with a smaller mean and variance is left out.
THEOREM FrontierIsAlwaysBest == PartitionSpec => []FrontierIsBest
<1>1. PartInv => FrontierIsBest
  <2> SUFFICES ASSUME PartInv, Asked, NEW fleet \in Pipelines, NEW goal \in Goals
               PROVE  FrontierBest(context, fleet, goal)
    BY Zenon DEF FrontierIsBest, FrontierBest
  <2> QED
    BY PipelinesSuit, FrontierPlansAreBest
<1> QED
  BY <1>1, PartitionInvariance, PTL
-----------------------------------------------------------------------------
(* The micro-batches of a stage.                                           *)

\* Unknown is no node and not Nobody.
LEMMA Distinct ==
    /\ Unknown \notin Nodes /\ Nobody \notin Nodes /\ Unknown # Nobody
    /\ NumNodes \in Nat /\ MaxBatches \in Nat
BY RoundRobinAssumption, InterBatchAssumption DEF Unknown, Nodes, Nobody

\* What Append makes of a queue of micro-batches.
LEMMA AppendFacts ==
    ASSUME NEW q \in Seq(Batches), NEW b \in Batches
    PROVE  /\ Append(q, b) \in Seq(Batches)
           /\ Len(Append(q, b)) = Len(q) + 1
           /\ \A i \in 1 .. Len(q) + 1 : Append(q, b)[i] = IF i = Len(q) + 1 THEN b ELSE q[i]
OBVIOUS

\* What Tail makes of a queue that is not empty.
LEMMA TailFacts ==
    ASSUME NEW q \in Seq(Batches), q # <<>>
    PROVE  /\ Tail(q) \in Seq(Batches)
           /\ Len(q) \in Nat \ {0} /\ Len(Tail(q)) = Len(q) - 1
           /\ Head(q) = q[1] /\ q[1] \in Batches
           /\ \A i \in 1 .. Len(q) - 1 : Tail(q)[i] = q[i + 1] /\ i + 1 \in 1 .. Len(q)
<1>1. Len(q) \in Nat /\ Len(q) # 0
  OBVIOUS
<1>2. Tail(q) \in Seq(Batches) /\ Len(Tail(q)) = Len(q) - 1
  OBVIOUS
<1>3. Head(q) = q[1] /\ q[1] \in Batches
  BY <1>1
<1>4. \A i \in 1 .. Len(q) - 1 : Tail(q)[i] = q[i + 1] /\ i + 1 \in 1 .. Len(q)
  <2>1. \A i \in 1 .. Len(Tail(q)) : Tail(q)[i] = q[i + 1]
    BY HeadTailProperties, Zenon
  <2>2. \A i \in 1 .. Len(q) - 1 : i + 1 \in 1 .. Len(q)
    BY <1>1
  <2> QED
    BY <2>1, <2>2, <1>2
<1> QED
  BY <1>1, <1>2, <1>3, <1>4

\* A queue of at most one still has at most one when its head is taken.
LEMMA AtMostOne == 0 <= 1 /\ 1 <= 1 /\ \A k \in Nat : k <= 1 => k - 1 <= 1
  OBVIOUS

LEMMA InitIInv == Init => IInv
<1> SUFFICES ASSUME Init PROVE IInv
  OBVIOUS
<1>1. /\ fwd = [n \in Nodes |-> <<>>] /\ bwd = [n \in Nodes |-> <<>>]
      /\ arrived = 0
      /\ ranF = [b \in Batches |-> Unknown] /\ ranB = ranF /\ back = ranF
  BY Zenon DEF Init
<1>2. Queued /\ Unseen
  BY <1>1, Distinct DEF Queued, Unseen
<1>3. Waiting /\ Owned
  BY <1>1 DEF Waiting, Owned
<1>4. OneActivation /\ ActivationsMatched
  BY <1>1 DEF OneActivation, ActivationsMatched
<1> QED
  BY <1>2, <1>3, <1>4 DEF IInv

\* When one queue of several is appended to, a place holds the new element
\* at that queue's end, or what it held before.
LEMMA Joined ==
    ASSUME NEW Q \in [Nodes -> Seq(Batches)], NEW y, NEW b \in Batches,
           NEW R, R = [Q EXCEPT ![y] = Append(@, b)]
    PROVE  /\ R \in [Nodes -> Seq(Batches)]
           /\ \A r \in Nodes : \A j \in 1 .. Len(R[r]) :
                \/ r = y /\ R[r][j] = b /\ j = Len(Q[r]) + 1
                \/ j \in 1 .. Len(Q[r]) /\ R[r][j] = Q[r][j] /\ R[r][j] \in Batches
<1>1. \A r \in Nodes : R[r] = IF r = y THEN Append(Q[r], b) ELSE Q[r]
  OBVIOUS
<1>2. \A r \in Nodes : Q[r] \in Seq(Batches) /\ Len(Q[r]) \in Nat
  OBVIOUS
<1>3. R \in [Nodes -> Seq(Batches)]
  BY <1>1, <1>2, AppendFacts
<1>4. ASSUME NEW r \in Nodes, NEW j \in 1 .. Len(R[r])
      PROVE  \/ r = y /\ R[r][j] = b /\ j = Len(Q[r]) + 1
             \/ j \in 1 .. Len(Q[r]) /\ R[r][j] = Q[r][j] /\ R[r][j] \in Batches
  <2>1. R[r] \in Seq(Batches) /\ R[r][j] \in Batches
    BY <1>3, <1>4
  <2>2. CASE r = y
    <3>1. R[r] = Append(Q[r], b)
      BY <2>2, <1>1
    <3>2. /\ Len(R[r]) = Len(Q[r]) + 1
          /\ \A k \in 1 .. Len(Q[r]) + 1 :
               R[r][k] = IF k = Len(Q[r]) + 1 THEN b ELSE Q[r][k]
      BY <3>1, <1>2, AppendFacts
    <3> QED
      BY <2>1, <2>2, <3>2, <1>2
  <2>3. CASE r # y
    BY <2>1, <2>3, <1>1
  <2> QED
    BY <2>2, <2>3
<1> QED
  BY <1>3, <1>4

\* A micro-batch that arrives is in no queue yet, and joins one.
LEMMA EnqueueForwardKeeps == IInv /\ EnqueueForward => IInv'
<1> SUFFICES ASSUME IInv, EnqueueForward PROVE IInv'
  OBVIOUS
<1> DEFINE b == arrived + 1
<1>a. /\ arrived' = b /\ kind # "energy" /\ arrived < MaxBatches
      /\ UNCHANGED <<kind, bwd, ranF, ranB, back>>
  BY DEF EnqueueForward, history
<1>0. PICK node \in Nodes \cup {Nobody} :
        fwd' = [fwd EXCEPT ![Dispatched(node, b)] = Append(@, b)]
  BY <1>a DEF EnqueueForward, Queue
<1> DEFINE x == Dispatched(node, b)
<1>1. /\ arrived' = b /\ b \in Batches /\ arrived \in Nat
      /\ fwd \in [Nodes -> Seq(Batches)] /\ fwd' = [fwd EXCEPT ![x] = Append(@, b)]
      /\ UNCHANGED <<kind, bwd, ranF, ranB, back>>
  BY <1>0, <1>a, Distinct DEF IInv, Queued, Batches
<1> HIDE DEF x
<1>2. ASSUME NEW r \in Nodes, NEW j \in 1 .. Len(fwd'[r])
      PROVE  \/ r = x /\ fwd'[r][j] = b /\ j = Len(fwd[r]) + 1
             \/ j \in 1 .. Len(fwd[r]) /\ fwd'[r][j] = fwd[r][j] /\ fwd'[r][j] \in Batches
  BY <1>1, Joined
<1>3. Queued'
  <2>1. fwd' \in [Nodes -> Seq(Batches)]
    BY <1>1, Joined
  <2> QED
    BY <2>1, <1>1 DEF IInv, Queued
<1>4. ranF[b] = Unknown /\ Unseen'
  BY <1>1 DEF IInv, Unseen, Batches
<1>5. Waiting'
  <2> SUFFICES ASSUME NEW n \in Nodes, NEW i \in 1 .. Len(fwd'[n]),
                      NEW m \in Nodes, NEW k \in 1 .. Len(fwd'[m])
               PROVE  /\ fwd'[n][i] <= b /\ ranF[fwd'[n][i]] = Unknown
                      /\ fwd'[m][k] = fwd'[n][i] => m = n /\ k = i
    BY <1>1 DEF Waiting
  <2>1. \A r \in Nodes : \A j \in 1 .. Len(fwd[r]) : fwd[r][j] <= arrived
    BY DEF IInv, Waiting
  <2>2. CASE n = x /\ fwd'[n][i] = b /\ i = Len(fwd[n]) + 1
    <3>1. fwd'[m][k] = b => m = x /\ k = Len(fwd[x]) + 1
      BY <1>1, <1>2, <2>1, <2>2
    <3> QED
      BY <3>1, <2>2, <1>1, <1>4
  <2>3. CASE i \in 1 .. Len(fwd[n]) /\ fwd'[n][i] = fwd[n][i] /\ fwd'[n][i] \in Batches
    <3>1. fwd'[n][i] <= arrived /\ fwd'[n][i] # b
      BY <2>1, <2>3, <1>1 DEF Batches
    <3>2. fwd'[m][k] = fwd'[n][i] => k \in 1 .. Len(fwd[m]) /\ fwd'[m][k] = fwd[m][k]
      BY <1>2, <3>1
    <3>3. ranF[fwd'[n][i]] = Unknown /\ (fwd'[m][k] = fwd'[n][i] => m = n /\ k = i)
      BY <2>3, <3>2 DEF IInv, Waiting
    <3> QED
      BY <3>1, <3>3, <2>3, <1>1 DEF Batches
  <2> QED
    BY <1>2, <2>2, <2>3
<1>6. (Owned /\ OneActivation /\ ActivationsMatched)'
  BY <1>1 DEF IInv, Owned, OneActivation, ActivationsMatched
<1> QED
  BY <1>3, <1>4, <1>5, <1>6 DEF IInv

\* A gradient that comes back joins the queue of its forward's node, or has
\* come back without a target.
LEMMA EnqueueBackwardKeeps ==
    ASSUME IInv, NEW b \in Batches, NEW target \in {Nobody, ranF[b]},
           EnqueueBackward(b, target)
    PROVE  IInv'
<1>0. PICK node \in Nodes \cup {Nobody} :
        bwd' = Queue(bwd, IF target = Nobody THEN Dispatched(node, b) ELSE target, b)
  BY DEF EnqueueBackward
<1> DEFINE y == IF target = Nobody THEN Dispatched(node, b) ELSE target
<1>1. /\ kind = "stage" /\ ranF[b] # Unknown /\ back[b] = Unknown
      /\ bwd \in [Nodes -> Seq(Batches)] /\ bwd' = [bwd EXCEPT ![y] = Append(@, b)]
      /\ back' = [back EXCEPT ![b] = target]
      /\ UNCHANGED <<kind, fwd, arrived, ranF, ranB>>
  BY <1>0 DEF EnqueueBackward, IInv, Queued, Queue
<1>2. target # Nobody => y = ranF[b]
  OBVIOUS
<1>3. target \in Nodes \cup {Nobody}
  BY <1>1 DEF IInv, Queued
<1> HIDE DEF y
<1>4. Queued' /\ Unseen' /\ Waiting' /\ OneActivation'
  <2>1. Queued'
    BY <1>1, <1>3, Joined DEF IInv, Queued
  <2>2. Unseen' /\ Waiting' /\ OneActivation'
    BY <1>1 DEF IInv, Unseen, Waiting, OneActivation
  <2> QED
    BY <2>1, <2>2
<1>5. \A c \in Batches : back'[c] = IF c = b THEN target ELSE back[c]
  BY <1>1 DEF IInv, Queued
<1>6. Owned'
  <2> SUFFICES ASSUME NEW n \in Nodes, NEW i \in 1 .. Len(bwd'[n])
               PROVE  /\ ranF[bwd'[n][i]] # Unknown
                      /\ back'[bwd'[n][i]] # Nobody => ranF[bwd'[n][i]] = n
    BY <1>1 DEF Owned
  <2>1. \/ n = y /\ bwd'[n][i] = b
        \/ /\ i \in 1 .. Len(bwd[n]) /\ bwd'[n][i] = bwd[n][i]
           /\ bwd'[n][i] \in Batches
    BY <1>1, Joined
  <2>2. CASE n = y /\ bwd'[n][i] = b
    BY <2>2, <1>1, <1>2, <1>5
  <2>3. CASE i \in 1 .. Len(bwd[n]) /\ bwd'[n][i] = bwd[n][i] /\ bwd'[n][i] \in Batches
    <3>1. ranF[bwd[n][i]] # Unknown /\ (back[bwd[n][i]] # Nobody => ranF[bwd[n][i]] = n)
      BY <2>3 DEF IInv, Owned
    <3>2. back'[bwd[n][i]] # Nobody => back[bwd[n][i]] # Nobody
      BY <2>3, <1>1, <1>5, Distinct
    <3> QED
      BY <2>3, <3>1, <3>2
  <2> QED
    BY <2>1, <2>2, <2>3
<1>7. ActivationsMatched'
  BY <1>1, <1>5, Distinct DEF IInv, ActivationsMatched
<1> QED
  BY <1>4, <1>6, <1>7 DEF IInv

\* A tick runs the heads of the queues.
LEMMA TickKeeps == IInv /\ Tick => IInv'
<1> SUFFICES ASSUME IInv, Tick PROVE IInv'
  OBVIOUS
<1> DEFINE Forward(n, b) == RunsF(n) /\ Head(fwd[n]) = b
           Backward(n, b) == RunsB(n) /\ Head(bwd[n]) = b
<1>1. /\ fwd \in [Nodes -> Seq(Batches)] /\ bwd \in [Nodes -> Seq(Batches)]
      /\ ranF \in [Batches -> Nodes \cup {Unknown}]
      /\ ranB \in [Batches -> Nodes \cup {Unknown}]
      /\ UNCHANGED <<kind, arrived, back>>
  BY DEF Tick, IInv, Queued
<1>2. \A n \in Nodes : fwd'[n] = IF RunsF(n) THEN Tail(fwd[n]) ELSE fwd[n]
  BY DEF Tick
<1>3. \A n \in Nodes :
        /\ RunsB(n) => bwd'[n] = Tail(bwd[n])
        /\ RunsF(n) /\ kind = "last stage" => bwd'[n] = <<Head(fwd[n])>>
        /\ ~RunsB(n) /\ ~(RunsF(n) /\ kind = "last stage") => bwd'[n] = <<>>
  BY DEF Tick, RunsB, RunsF
<1>4. \A b \in Batches :
        ranF'[b] = IF \E n \in Nodes : Forward(n, b)
                   THEN CHOOSE n \in Nodes : Forward(n, b) ELSE ranF[b]
  BY Zenon DEF Tick
<1>5. \A b \in Batches :
        ranB'[b] = IF \E n \in Nodes : Backward(n, b)
                   THEN CHOOSE n \in Nodes : Backward(n, b) ELSE ranB[b]
  BY Zenon DEF Tick
\* What runs is the first of a queue.
<1>6. ASSUME NEW n \in Nodes, NEW b, Forward(n, b)
      PROVE  /\ fwd[n] # <<>> /\ 1 \in 1 .. Len(fwd[n]) /\ fwd[n][1] = b /\ b \in Batches
             /\ b <= arrived /\ ranF[b] = Unknown
  <2>1. fwd[n] # <<>> /\ 1 \in 1 .. Len(fwd[n]) /\ fwd[n][1] = b /\ b \in Batches
    BY <1>1, <1>6, TailFacts DEF RunsF
  <2> QED
    BY <2>1 DEF IInv, Waiting
<1>7. ASSUME NEW n \in Nodes, NEW b, Backward(n, b)
      PROVE  /\ bwd[n] # <<>> /\ b \in Batches /\ ranF[b] # Unknown
             /\ back[b] # Nobody => ranF[b] = n
  <2>1. bwd[n] # <<>> /\ 1 \in 1 .. Len(bwd[n]) /\ bwd[n][1] = b /\ b \in Batches
    BY <1>1, <1>7, TailFacts DEF RunsB
  <2> QED
    BY <2>1 DEF IInv, Owned
\* What stays in a forward queue was there, and was not the one that ran.
<1>8. ASSUME NEW n \in Nodes, NEW i \in 1 .. Len(fwd'[n])
      PROVE  \E p \in 1 .. Len(fwd[n]) :
               /\ p = (IF RunsF(n) THEN i + 1 ELSE i)
               /\ fwd'[n][i] = fwd[n][p] /\ fwd'[n][i] \in Batches
  <2>1. CASE RunsF(n)
    <3>1. fwd[n] \in Seq(Batches) /\ fwd[n] # <<>> /\ fwd'[n] = Tail(fwd[n])
      BY <1>1, <1>2, <2>1 DEF RunsF
    <3>2. i \in 1 .. Len(fwd[n]) - 1
      BY <3>1, <1>8, TailFacts
    <3>3. i + 1 \in 1 .. Len(fwd[n]) /\ fwd'[n][i] = fwd[n][i + 1]
      BY <3>1, <3>2, TailFacts
    <3> QED
      BY <3>1, <3>3, <2>1
  <2>2. CASE ~RunsF(n)
    BY <1>1, <1>2, <1>8, <2>2
  <2> QED
    BY <2>1, <2>2
<1>9. ASSUME NEW b \in Batches, ranF[b] # Unknown \/ b > arrived
      PROVE  ranF'[b] = ranF[b]
  <2>1. arrived \in Nat
    BY DEF IInv, Queued
  <2>2. ~ \E n \in Nodes : Forward(n, b)
    BY <1>6, <1>9, <2>1 DEF Batches
  <2> QED
    BY <2>2, <1>4
<1>10. Queued'
  <2>1. fwd' \in [Nodes -> Seq(Batches)]
    <3>1. fwd' = [n \in Nodes |-> fwd'[n]]
      BY Zenon DEF Tick
    <3>2. \A n \in Nodes : fwd'[n] \in Seq(Batches)
      BY <1>1, <1>2, TailFacts DEF RunsF
    <3> QED
      BY <3>1, <3>2
  <2>2. bwd' \in [Nodes -> Seq(Batches)]
    <3> DEFINE left(n) == CASE RunsB(n) -> Tail(bwd[n])
                            [] RunsF(n) /\ kind = "last stage" -> <<Head(fwd[n])>>
                            [] OTHER -> <<>>
    <3>0. bwd' = [n \in Nodes |-> left(n)]
      BY Zenon DEF Tick
    <3> HIDE DEF left
    <3>1. bwd' = [n \in Nodes |-> bwd'[n]]
      BY <3>0
    <3>2. ASSUME NEW n \in Nodes PROVE bwd'[n] \in Seq(Batches)
      <4>1. CASE RunsB(n)
        BY <4>1, <1>1, <1>3, TailFacts DEF RunsB
      <4>2. CASE RunsF(n) /\ kind = "last stage"
        <5>1. bwd'[n] = <<Head(fwd[n])>>
          BY <4>2, <1>3, Zenon
        <5>2. Head(fwd[n]) \in Batches
          BY <4>2, <1>6
        <5> QED
          BY <5>1, <5>2
      <4>3. CASE ~RunsB(n) /\ ~(RunsF(n) /\ kind = "last stage")
        <5>1. bwd'[n] = <<>>
          BY <4>3, <1>3, Zenon
        <5> QED
          BY <5>1
      <4> QED
        BY <4>1, <4>2, <4>3
    <3> QED
      BY <3>1, <3>2
  <2>3. ranF' \in [Batches -> Nodes \cup {Unknown}]
    <3>1. ranF' = [b \in Batches |-> ranF'[b]]
      BY Zenon DEF Tick
    <3>2. \A b \in Batches : ranF'[b] \in Nodes \cup {Unknown}
      BY <1>1, <1>4
    <3> QED
      BY <3>1, <3>2
  <2>4. ranB' \in [Batches -> Nodes \cup {Unknown}]
    <3>1. ranB' = [b \in Batches |-> ranB'[b]]
      BY Zenon DEF Tick
    <3>2. \A b \in Batches : ranB'[b] \in Nodes \cup {Unknown}
      BY <1>1, <1>5
    <3> QED
      BY <3>1, <3>2
  <2> QED
    BY <2>1, <2>2, <2>3, <2>4, <1>1 DEF IInv, Queued
<1>11. Unseen'
  BY <1>1, <1>9 DEF IInv, Unseen
<1>12. Waiting'
  <2> SUFFICES ASSUME NEW n \in Nodes, NEW i \in 1 .. Len(fwd'[n]),
                      NEW m \in Nodes, NEW k \in 1 .. Len(fwd'[m])
               PROVE  /\ fwd'[n][i] <= arrived /\ ranF'[fwd'[n][i]] = Unknown
                      /\ fwd'[m][k] = fwd'[n][i] => m = n /\ k = i
    BY <1>1 DEF Waiting
  <2>1. PICK p \in 1 .. Len(fwd[n]) :
          /\ p = (IF RunsF(n) THEN i + 1 ELSE i)
          /\ fwd'[n][i] = fwd[n][p] /\ fwd'[n][i] \in Batches
    BY <1>8
  <2>2. PICK q \in 1 .. Len(fwd[m]) :
          /\ q = (IF RunsF(m) THEN k + 1 ELSE k)
          /\ fwd'[m][k] = fwd[m][q]
    BY <1>8
  <2>3. /\ fwd[n][p] <= arrived /\ ranF[fwd[n][p]] = Unknown
        /\ \A r \in Nodes : \A j \in 1 .. Len(fwd[r]) :
              fwd[r][j] = fwd[n][p] => r = n /\ j = p
    BY DEF IInv, Waiting
  <2>4. ASSUME NEW r \in Nodes, Forward(r, fwd[n][p]) PROVE FALSE
    <3>1. 1 \in 1 .. Len(fwd[r]) /\ fwd[r][1] = fwd[n][p]
      BY <1>6, <2>4
    <3>2. r = n /\ p = 1 /\ RunsF(n)
      BY <2>3, <3>1, <2>4
    <3> QED
      BY <3>2, <2>1
  <2>5. ranF'[fwd[n][p]] = Unknown
    BY <2>1, <2>3, <2>4, <1>4
  <2>6. fwd'[m][k] = fwd'[n][i] => m = n /\ k = i
    <3>1. fwd'[m][k] = fwd'[n][i] => m = n /\ q = p
      BY <2>1, <2>2, <2>3
    <3>2. CASE RunsF(n)
      <4>1. p = i + 1 /\ (m = n => q = k + 1)
        BY <2>1, <2>2, <3>2, Zenon
      <4> QED
        BY <3>1, <4>1
    <3>3. CASE ~RunsF(n)
      <4>1. p = i /\ (m = n => q = k)
        BY <2>1, <2>2, <3>3, Zenon
      <4> QED
        BY <3>1, <4>1
    <3> QED
      BY <3>2, <3>3
  <2> QED
    BY <2>1, <2>3, <2>5, <2>6
<1>13. Owned'
  <2> SUFFICES ASSUME NEW n \in Nodes, NEW i \in 1 .. Len(bwd'[n])
               PROVE  /\ ranF'[bwd'[n][i]] # Unknown
                      /\ back[bwd'[n][i]] # Nobody => ranF'[bwd'[n][i]] = n
    BY <1>1 DEF Owned
  <2>1. CASE RunsB(n)
    <3>1. bwd[n] \in Seq(Batches) /\ bwd[n] # <<>> /\ bwd'[n] = Tail(bwd[n])
      BY <1>1, <1>3, <2>1 DEF RunsB
    <3>2. i \in 1 .. Len(bwd[n]) - 1
      BY <3>1, TailFacts
    <3>3. i + 1 \in 1 .. Len(bwd[n]) /\ bwd'[n][i] = bwd[n][i + 1]
      BY <3>1, <3>2, TailFacts
    <3>4. bwd[n][i + 1] \in Batches
      BY <3>1, <3>3
    <3>5. ranF[bwd[n][i + 1]] # Unknown
          /\ (back[bwd[n][i + 1]] # Nobody => ranF[bwd[n][i + 1]] = n)
      BY <3>3 DEF IInv, Owned
    <3> QED
      BY <3>3, <3>4, <3>5, <1>9
  <2>2. CASE RunsF(n) /\ kind = "last stage"
    <3> DEFINE b == Head(fwd[n])
    <3>1. bwd'[n] = <<b>> /\ bwd'[n][i] = b
      <4>1. bwd'[n] = <<b>>
        BY <2>2, <1>3, Zenon
      <4> HIDE DEF b
      <4> QED
        BY <4>1
    <3>2. /\ 1 \in 1 .. Len(fwd[n]) /\ fwd[n][1] = b /\ b \in Batches /\ Forward(n, b)
      BY <2>2, <1>6
    <3>3. ASSUME NEW m \in Nodes, Forward(m, b) PROVE m = n
      <4>1. 1 \in 1 .. Len(fwd[m]) /\ fwd[m][1] = fwd[n][1]
        BY <1>6, <3>2, <3>3
      <4> QED
        BY <4>1, <3>2 DEF IInv, Waiting
    <3> HIDE DEF b
    <3>4. ranF'[b] = n
      BY <3>2, <3>3, <1>4
    <3> QED
      BY <3>1, <3>4, Distinct
  <2>3. CASE ~RunsB(n) /\ ~(RunsF(n) /\ kind = "last stage")
    <3>1. bwd'[n] = <<>>
      BY <2>3, <1>3, Zenon
    <3> QED
      BY <3>1
  <2> QED
    BY <2>1, <2>2, <2>3
<1>14. OneActivation'
  <2> SUFFICES ASSUME kind = "last stage", NEW n \in Nodes PROVE Len(bwd'[n]) <= 1
    BY <1>1 DEF OneActivation
  <2>1. CASE RunsB(n)
    <3>1. bwd[n] \in Seq(Batches) /\ bwd[n] # <<>> /\ Len(bwd[n]) <= 1
      BY <2>1, <1>1 DEF RunsB, IInv, OneActivation
    <3>2. Len(Tail(bwd[n])) = Len(bwd[n]) - 1 /\ Len(bwd[n]) \in Nat
      BY <3>1, TailFacts
    <3>3. bwd'[n] = Tail(bwd[n])
      BY <2>1, <1>3, Zenon
    <3>4. Len(bwd'[n]) = Len(bwd[n]) - 1
      BY <3>2, <3>3, Zenon
    <3> QED
      BY <3>1, <3>2, <3>4, AtMostOne, Zenon
  <2>2. CASE ~RunsB(n)
    <3>1. bwd'[n] = <<Head(fwd[n])>> \/ bwd'[n] = <<>>
      BY <2>2, <1>3, Zenon
    <3>2. Len(<<>>) = 0 /\ \A h : Len(<<h>>) = 1
      OBVIOUS
    <3>3. Len(bwd'[n]) = 0 \/ Len(bwd'[n]) = 1
      BY <3>1, <3>2, Zenon
    <3> QED
      BY <3>3, AtMostOne, Zenon
  <2> QED
    BY <2>1, <2>2
<1>15. ActivationsMatched'
  <2> SUFFICES ASSUME NEW b \in Batches, ranB'[b] # Unknown, back[b] # Nobody
               PROVE  ranB'[b] = ranF'[b]
    BY <1>1 DEF ActivationsMatched
  <2>1. CASE \E n \in Nodes : Backward(n, b)
    <3>1. PICK n \in Nodes : Backward(n, b) /\ ranB'[b] = n
      BY <2>1, <1>5
    <3> QED
      BY <3>1, <1>7, <1>9
  <2>2. CASE ~ \E n \in Nodes : Backward(n, b)
    <3>1. ranB'[b] = ranB[b] /\ ranB[b] # Unknown /\ ranB[b] = ranF[b]
      BY <2>2, <1>5 DEF IInv, ActivationsMatched
    <3> QED
      BY <3>1, <1>9
  <2> QED
    BY <2>1, <2>2
<1> QED
  BY <1>10, <1>11, <1>12, <1>13, <1>14, <1>15 DEF IInv

LEMMA NextKeeps == IInv /\ [Next]_vars => IInv'
<1> SUFFICES ASSUME IInv, [Next]_vars PROVE IInv'
  OBVIOUS
<1>1. CASE EnqueueForward
  BY <1>1, EnqueueForwardKeeps
<1>2. ASSUME NEW b \in Batches, NEW target \in {Nobody, ranF[b]}, EnqueueBackward(b, target)
      PROVE  IInv'
  BY <1>2, EnqueueBackwardKeeps
<1>3. CASE Tick
  BY <1>3, TickKeeps
<1>4. CASE EnergyPick \/ UNCHANGED vars
  <2>1. UNCHANGED <<kind, fwd, bwd, arrived, ranF, ranB, back>>
    BY <1>4 DEF EnergyPick, vars, queues, history
  <2> QED
    <3>1. Queued' /\ Unseen' /\ Waiting'
      BY <2>1 DEF IInv, Queued, Unseen, Waiting
    <3>2. Owned' /\ OneActivation' /\ ActivationsMatched'
      BY <2>1 DEF IInv, Owned, OneActivation, ActivationsMatched
    <3> QED
      BY <3>1, <3>2 DEF IInv
<1> QED
  BY <1>1, <1>2, <1>3, <1>4 DEF Next

-----------------------------------------------------------------------------
(* Exactly once: what two queues hold of a micro-batch, before and after.  *)

\* A micro-batch is not absent where it has a place.
LEMMA OnceIsThere == ASSUME NEW Q, NEW b, Once(Q, b) PROVE ~Absent(Q, b)
BY DEF Once, Absent

\* A micro-batch that joins a queue and was in none has one place; the others
\* keep theirs.
LEMMA JoinedOnce ==
    ASSUME NEW Q \in [Nodes -> Seq(Batches)], NEW y \in Nodes, NEW b \in Batches,
           NEW R, R = [Q EXCEPT ![y] = Append(@, b)]
    PROVE  /\ Absent(Q, b) => Once(R, b)
           /\ \A c \in Batches : c # b =>
                (Once(Q, c) => Once(R, c)) /\ (Absent(Q, c) => Absent(R, c))
<1>1. \A r \in Nodes : \A j \in 1 .. Len(R[r]) :
        \/ r = y /\ R[r][j] = b /\ j = Len(Q[r]) + 1
        \/ j \in 1 .. Len(Q[r]) /\ R[r][j] = Q[r][j] /\ R[r][j] \in Batches
  BY Joined
<1>2. \A r \in Nodes : Q[r] \in Seq(Batches) /\ Len(Q[r]) \in Nat
  OBVIOUS
<1>3. \A r \in Nodes : R[r] = IF r = y THEN Append(Q[r], b) ELSE Q[r]
  OBVIOUS
<1>4. Len(Q[y]) + 1 \in 1 .. Len(R[y]) /\ R[y][Len(Q[y]) + 1] = b
  <2>1. Len(Append(Q[y], b)) = Len(Q[y]) + 1 /\ Append(Q[y], b)[Len(Q[y]) + 1] = b
    BY <1>2, AppendFacts
  <2> QED
    BY <2>1, <1>2, <1>3
<1>5. ASSUME NEW r \in Nodes, NEW j \in 1 .. Len(Q[r])
      PROVE  j \in 1 .. Len(R[r]) /\ R[r][j] = Q[r][j]
  <2>1. CASE r = y
    <3>1. /\ Len(Append(Q[r], b)) = Len(Q[r]) + 1
          /\ j \in 1 .. Len(Q[r]) + 1 /\ j # Len(Q[r]) + 1
      BY <1>2, AppendFacts
    <3>2. Append(Q[r], b)[j] = Q[r][j]
      BY <3>1, <1>2, AppendFacts
    <3> QED
      BY <3>1, <3>2, <2>1, <1>3
  <2>2. CASE r # y
    BY <2>2, <1>3
  <2> QED
    BY <2>1, <2>2
<1>6. ASSUME Absent(Q, b) PROVE Once(R, b)
  <2>1. ASSUME NEW m \in Nodes, NEW k \in 1 .. Len(R[m]), R[m][k] = b
        PROVE  m = y /\ k = Len(Q[y]) + 1
    BY <2>1, <1>1, <1>6 DEF Absent
  <2> QED
    BY <1>4, <2>1 DEF Once
<1>7. ASSUME NEW c \in Batches, c # b, Once(Q, c) PROVE Once(R, c)
  <2>0. PICK n \in Nodes : \E i \in 1 .. Len(Q[n]) :
          /\ Q[n][i] = c
          /\ \A m \in Nodes : \A k \in 1 .. Len(Q[m]) : Q[m][k] = c => m = n /\ k = i
    BY <1>7 DEF Once
  <2>1. PICK i \in 1 .. Len(Q[n]) :
          /\ Q[n][i] = c
          /\ \A m \in Nodes : \A k \in 1 .. Len(Q[m]) : Q[m][k] = c => m = n /\ k = i
    BY <2>0
  <2>2. i \in 1 .. Len(R[n]) /\ R[n][i] = c
    BY <2>1, <1>5
  <2>3. ASSUME NEW m \in Nodes, NEW k \in 1 .. Len(R[m]), R[m][k] = c
        PROVE  m = n /\ k = i
    <3>1. k \in 1 .. Len(Q[m]) /\ Q[m][k] = c
      BY <2>3, <1>1, <1>7
    <3> QED
      BY <3>1, <2>1
  <2> QED
    BY <2>2, <2>3 DEF Once
<1>8. ASSUME NEW c \in Batches, c # b, Absent(Q, c) PROVE Absent(R, c)
  BY <1>1, <1>8 DEF Absent
<1> QED
  BY <1>6, <1>7, <1>8

\* When the heads of some queues are taken, a micro-batch at one of these
\* heads is gone and the others keep their places.
LEMMA TakenOnce ==
    ASSUME NEW Q \in [Nodes -> Seq(Batches)], NEW S \in SUBSET Nodes, NEW R,
           \A n \in S : Q[n] # <<>> /\ R[n] = Tail(Q[n]),
           \A n \in Nodes \ S : R[n] = Q[n],
           NEW c \in Batches
    PROVE  /\ Absent(Q, c) => Absent(R, c)
           /\ Once(Q, c) /\ (\E n \in S : Head(Q[n]) = c) => Absent(R, c)
           /\ Once(Q, c) /\ ~(\E n \in S : Head(Q[n]) = c) => Once(R, c)
<1>1. ASSUME NEW n \in Nodes
      PROVE  Q[n] \in Seq(Batches) /\ Len(Q[n]) \in Nat
  OBVIOUS
<1>2. ASSUME NEW n \in S
      PROVE  /\ Len(Q[n]) \in Nat \ {0} /\ Len(R[n]) = Len(Q[n]) - 1
             /\ Head(Q[n]) = Q[n][1]
             /\ \A i \in 1 .. Len(Q[n]) - 1 : R[n][i] = Q[n][i + 1]
  <2>1. Q[n] \in Seq(Batches) /\ Q[n] # <<>> /\ R[n] = Tail(Q[n])
    OBVIOUS
  <2> QED
    BY <2>1, TailFacts
\* The place a place comes from.
<1>3. ASSUME NEW n \in Nodes, NEW i \in 1 .. Len(R[n])
      PROVE  LET p == IF n \in S THEN i + 1 ELSE i
             IN p \in 1 .. Len(Q[n]) /\ R[n][i] = Q[n][p]
  <2>1. CASE n \in S
    BY <2>1, <1>2
  <2>2. CASE n \notin S
    BY <2>2
  <2> QED
    BY <2>1, <2>2
<1>4. ASSUME Absent(Q, c) PROVE Absent(R, c)
  BY <1>3, <1>4 DEF Absent
<1>5. ASSUME Once(Q, c) PROVE (\E n \in S : Head(Q[n]) = c) => Absent(R, c)
  <2> SUFFICES ASSUME NEW s \in S, Head(Q[s]) = c PROVE Absent(R, c)
    OBVIOUS
  <2>0. PICK n \in Nodes : \E i \in 1 .. Len(Q[n]) :
          /\ Q[n][i] = c
          /\ \A m \in Nodes : \A k \in 1 .. Len(Q[m]) : Q[m][k] = c => m = n /\ k = i
    BY <1>5 DEF Once
  <2>1. PICK i \in 1 .. Len(Q[n]) :
          /\ Q[n][i] = c
          /\ \A m \in Nodes : \A k \in 1 .. Len(Q[m]) : Q[m][k] = c => m = n /\ k = i
    BY <2>0
  <2>2. s = n /\ 1 = i
    <3>1. 1 \in 1 .. Len(Q[s]) /\ Q[s][1] = c
      BY <1>2
    <3> QED
      BY <3>1, <2>1
  <2>3. ASSUME NEW m \in Nodes, NEW k \in 1 .. Len(R[m]), R[m][k] = c PROVE FALSE
    <3>1. m = n /\ (IF m \in S THEN k + 1 ELSE k) = 1
      BY <2>1, <2>2, <2>3, <1>3
    <3> QED
      BY <3>1, <2>2
  <2> QED
    BY <2>3 DEF Absent
<1>6. ASSUME Once(Q, c), ~(\E n \in S : Head(Q[n]) = c) PROVE Once(R, c)
  <2>0. PICK n \in Nodes : \E i \in 1 .. Len(Q[n]) :
          /\ Q[n][i] = c
          /\ \A m \in Nodes : \A k \in 1 .. Len(Q[m]) : Q[m][k] = c => m = n /\ k = i
    BY <1>6 DEF Once
  <2>1. PICK i \in 1 .. Len(Q[n]) :
          /\ Q[n][i] = c
          /\ \A m \in Nodes : \A k \in 1 .. Len(Q[m]) : Q[m][k] = c => m = n /\ k = i
    BY <2>0
  <2>2. PICK j \in 1 .. Len(R[n]) : R[n][j] = c /\ i = (IF n \in S THEN j + 1 ELSE j)
    <3>1. CASE n \in S
      <4>1. i # 1
        BY <2>1, <3>1, <1>2, <1>6
      <4>2. i - 1 \in 1 .. Len(R[n]) /\ i - 1 \in 1 .. Len(Q[n]) - 1
        BY <4>1, <3>1, <1>2
      <4>3. R[n][i - 1] = c
        BY <4>2, <3>1, <2>1, <1>2
      <4> QED
        BY <4>2, <4>3, <3>1
    <3>2. CASE n \notin S
      BY <3>2, <2>1
    <3> QED
      BY <3>1, <3>2
  <2>3. ASSUME NEW m \in Nodes, NEW k \in 1 .. Len(R[m]), R[m][k] = c
        PROVE  m = n /\ k = j
    <3>0. LET p == IF m \in S THEN k + 1 ELSE k
          IN p \in 1 .. Len(Q[m]) /\ Q[m][p] = c
      BY <2>3, <1>3
    <3>1. m = n /\ (IF m \in S THEN k + 1 ELSE k) = i
      BY <3>0, <2>1
    <3> QED
      BY <3>1, <2>2
  <2> QED
    BY <2>2, <2>3 DEF Once
<1> QED
  BY <1>4, <1>5, <1>6

\* When some empty queues E get the heads of others, a micro-batch at one of
\* these heads gets a place, and the others keep theirs.
LEMMA FollowedOnce ==
    ASSUME NEW Q \in [Nodes -> Seq(Batches)], NEW E \in [Nodes -> Seq(Batches)],
           NEW S \in SUBSET Nodes, NEW D,
           \A n \in S : E[n] = <<>> /\ D[n] = <<Head(Q[n])>>,
           \A n \in Nodes \ S : D[n] = E[n],
           NEW c \in Batches, Absent(E, c) \/ Once(E, c)
    PROVE  /\ ~(\E n \in S : Head(Q[n]) = c) =>
                (Absent(E, c) => Absent(D, c)) /\ (Once(E, c) => Once(D, c))
           /\ \A n \in S : /\ Absent(E, c) /\ Head(Q[n]) = c
                           /\ \A m \in S : Head(Q[m]) = c => m = n
                           => Once(D, c)
<1>1. ASSUME NEW n \in S
      PROVE  Len(E[n]) = 0 /\ Len(D[n]) = 1 /\ D[n][1] = Head(Q[n])
  <2>1. E[n] = <<>> /\ D[n] = <<Head(Q[n])>>
    OBVIOUS
  <2>2. Len(<<>>) = 0 /\ \A h : Len(<<h>>) = 1 /\ <<h>>[1] = h
    OBVIOUS
  <2> QED
    BY <2>1, <2>2, Zenon
<1>2. ASSUME ~(\E n \in S : Head(Q[n]) = c)
      PROVE  (Absent(E, c) => Absent(D, c)) /\ (Once(E, c) => Once(D, c))
  <2>1. ASSUME NEW n \in Nodes, NEW i \in 1 .. Len(D[n]), D[n][i] = c
        PROVE  n \notin S
    BY <2>1, <1>1, <1>2
  <2>2. Absent(E, c) => Absent(D, c)
    BY <2>1 DEF Absent
  <2>3. ASSUME Once(E, c) PROVE Once(D, c)
    <3>0. PICK n \in Nodes : \E i \in 1 .. Len(E[n]) :
            /\ E[n][i] = c
            /\ \A m \in Nodes : \A k \in 1 .. Len(E[m]) : E[m][k] = c => m = n /\ k = i
      BY <2>3 DEF Once
    <3>1. PICK i \in 1 .. Len(E[n]) :
            /\ E[n][i] = c
            /\ \A m \in Nodes : \A k \in 1 .. Len(E[m]) : E[m][k] = c => m = n /\ k = i
      BY <3>0
    <3>2. n \notin S
      BY <3>1, <1>1
    <3>3. i \in 1 .. Len(D[n]) /\ D[n][i] = c
      BY <3>1, <3>2
    <3>4. ASSUME NEW m \in Nodes, NEW k \in 1 .. Len(D[m]), D[m][k] = c
          PROVE  m = n /\ k = i
      <4>1. m \notin S
        BY <2>1, <3>4
      <4> QED
        BY <4>1, <3>1, <3>4
    <3> QED
      BY <3>3, <3>4 DEF Once
  <2> QED
    BY <2>2, <2>3
<1>3. ASSUME NEW n \in S, Absent(E, c), Head(Q[n]) = c,
             \A m \in S : Head(Q[m]) = c => m = n
      PROVE  Once(D, c)
  <2>1. 1 \in 1 .. Len(D[n]) /\ D[n][1] = c
    BY <1>1, <1>3
  <2>2. ASSUME NEW m \in Nodes, NEW k \in 1 .. Len(D[m]), D[m][k] = c
        PROVE  m = n /\ k = 1
    <3>1. CASE m \in S
      BY <3>1, <1>1, <1>3, <2>2
    <3>2. CASE m \notin S
      BY <3>2, <1>3, <2>2 DEF Absent
    <3> QED
      BY <3>1, <3>2
  <2> QED
    BY <2>1, <2>2 DEF Once
<1> QED
  BY <1>2, <1>3

\* What has not arrived is in no queue.
LEMMA NotYetQueued ==
    ASSUME IInv, NEW b \in Batches, b > arrived
    PROVE  Absent(fwd, b) /\ Absent(bwd, b) /\ ranF[b] = Unknown
<1>1. arrived \in Nat /\ ranF[b] = Unknown
  BY DEF IInv, Queued, Unseen
<1>2. Absent(fwd, b)
  BY <1>1 DEF Absent, IInv, Waiting, Batches
<1>3. Absent(bwd, b)
  BY <1>1 DEF Absent, IInv, Owned
<1> QED
  BY <1>1, <1>2, <1>3

LEMMA InTheRing == \A b \in Int : (b % NumNodes) + 1 \in Nodes
BY RoundRobinAssumption DEF Nodes

LEMMA InitOnce == Init => OnceInv
<1> SUFFICES ASSUME Init PROVE OnceInv
  OBVIOUS
<1>1. /\ arrived = 0
      /\ ranF = [b \in Batches |-> Unknown] /\ ranB = ranF /\ back = ranF
  BY Zenon DEF Init
<1>2. Ordered
  BY <1>1, Distinct DEF Ordered
<1>3. ExactlyOnce
  BY <1>1 DEF ExactlyOnce
<1> QED
  BY <1>2, <1>3, InitIInv DEF OnceInv

\* A micro-batch that arrives is due forward, and nothing else.
LEMMA EnqueueForwardOnce == OnceInv /\ EnqueueForward => (Ordered /\ ExactlyOnce)'
<1> SUFFICES ASSUME OnceInv, EnqueueForward PROVE Ordered' /\ ExactlyOnce'
  OBVIOUS
<1> DEFINE b == arrived + 1
<1>a. /\ arrived' = b /\ kind # "energy" /\ arrived < MaxBatches
      /\ UNCHANGED <<kind, bwd, ranF, ranB, back>>
  BY DEF EnqueueForward, history
<1>0. PICK node \in Nodes \cup {Nobody} :
        fwd' = [fwd EXCEPT ![Dispatched(node, b)] = Append(@, b)]
  BY <1>a DEF EnqueueForward, Queue
<1> DEFINE x == Dispatched(node, b)
<1>1. /\ IInv /\ arrived \in Nat /\ arrived < MaxBatches /\ b \in Batches /\ arrived' = b
      /\ kind # "energy"
      /\ fwd \in [Nodes -> Seq(Batches)] /\ fwd' = [fwd EXCEPT ![x] = Append(@, b)]
      /\ UNCHANGED <<kind, bwd, ranF, ranB, back>>
  BY <1>0, <1>a, Distinct DEF OnceInv, IInv, Queued, Batches
<1>2. x \in Nodes
  BY <1>1, InTheRing DEF Dispatched
<1>3. Absent(fwd, b) /\ Absent(bwd, b) /\ ranF[b] = Unknown
  BY <1>1, NotYetQueued
<1> HIDE DEF x
\* The queues before and after, as plain values.
<1> PICK Q, R, X, B : Q = fwd /\ R = fwd' /\ X = x /\ B = b
  OBVIOUS
<1>P. /\ Q \in [Nodes -> Seq(Batches)] /\ X \in Nodes /\ B \in Batches
      /\ R = [Q EXCEPT ![X] = Append(@, B)]
  BY <1>1, <1>2
<1>Q. /\ Absent(Q, B) => Once(R, B)
      /\ \A c \in Batches : c # B =>
           (Once(Q, c) => Once(R, c)) /\ (Absent(Q, c) => Absent(R, c))
  BY <1>P, JoinedOnce
<1>4. Ordered'
  BY <1>1, Distinct DEF OnceInv, Ordered
<1>R. Absent(Q, B) /\ \A c : (Once(fwd, c) <=> Once(Q, c)) /\ (Absent(fwd, c) <=> Absent(Q, c))
  BY <1>3 DEF Once, Absent
<1>5. ASSUME NEW c \in 1 .. b
      PROVE  /\ IF ranF[c] = Unknown THEN Once(R, c) ELSE Absent(R, c)
             /\ IF Due(c) THEN Once(bwd, c) ELSE Absent(bwd, c)
  <2>1. CASE c = b
    BY <2>1, <1>3, <1>Q, <1>R DEF Due
  <2>2. CASE c # b
    <3>1. c \in 1 .. arrived /\ c \in Batches
      BY <2>2, <1>1, Distinct DEF Batches
    <3>2. (Once(Q, c) => Once(R, c)) /\ (Absent(Q, c) => Absent(R, c))
      BY <3>1, <2>2, <1>Q
    <3> QED
      BY <3>1, <3>2, <1>R, <1>1 DEF OnceInv, ExactlyOnce
  <2> QED
    BY <2>1, <2>2
<1>6. ExactlyOnce'
  <2> SUFFICES ASSUME NEW c \in 1 .. b
               PROVE  /\ IF ranF[c] = Unknown THEN Once(fwd, c)' ELSE Absent(fwd, c)'
                      /\ IF Due(c) THEN Once(bwd, c)' ELSE Absent(bwd, c)'
    BY <1>1 DEF ExactlyOnce, Due
  <2>1. (Once(R, c) => Once(fwd, c)') /\ (Absent(R, c) => Absent(fwd, c)')
    BY DEF Once, Absent
  <2>2. bwd' = bwd
    BY <1>1
  <2>3. (Once(bwd, c) => Once(bwd, c)') /\ (Absent(bwd, c) => Absent(bwd, c)')
    BY <2>2 DEF Once, Absent
  <2>4. /\ IF ranF[c] = Unknown THEN Once(R, c) ELSE Absent(R, c)
        /\ IF Due(c) THEN Once(bwd, c) ELSE Absent(bwd, c)
    BY <1>5
  <2> QED
    BY <2>1, <2>3, <2>4
<1> QED
  BY <1>4, <1>6

\* A gradient comes back for a micro-batch that is due nowhere, and makes it
\* due backward.
LEMMA EnqueueBackwardOnce ==
    ASSUME OnceInv, NEW b \in Batches, NEW target \in {Nobody, ranF[b]},
           EnqueueBackward(b, target)
    PROVE  Ordered' /\ ExactlyOnce'
<1>0. PICK node \in Nodes \cup {Nobody} :
        bwd' = Queue(bwd, IF target = Nobody THEN Dispatched(node, b) ELSE target, b)
  BY DEF EnqueueBackward
<1> DEFINE y == IF target = Nobody THEN Dispatched(node, b) ELSE target
<1>1. /\ IInv /\ kind = "stage" /\ ranF[b] # Unknown /\ back[b] = Unknown /\ ranB[b] = Unknown
      /\ bwd \in [Nodes -> Seq(Batches)] /\ bwd' = [bwd EXCEPT ![y] = Append(@, b)]
      /\ back' = [back EXCEPT ![b] = target]
      /\ UNCHANGED <<kind, fwd, arrived, ranF, ranB>>
  BY <1>0 DEF EnqueueBackward, OnceInv, IInv, Queued, Ordered, Queue
<1>2. target \in Nodes \cup {Nobody} /\ target # Unknown
  BY <1>1, Distinct DEF IInv, Queued
<1>3. y \in Nodes
  BY <1>2, InTheRing, Distinct DEF Dispatched, Batches
<1> HIDE DEF y
\* The queues before and after, as plain values.
<1> PICK Q, R, X : Q = bwd /\ R = bwd' /\ X = y
  OBVIOUS
<1>4. /\ Q \in [Nodes -> Seq(Batches)] /\ X \in Nodes
      /\ R = [Q EXCEPT ![X] = Append(@, b)]
  BY <1>1, <1>3
<1>5. /\ Absent(Q, b) => Once(R, b)
      /\ \A c \in Batches : c # b =>
           (Once(Q, c) => Once(R, c)) /\ (Absent(Q, c) => Absent(R, c))
  BY <1>4, JoinedOnce
<1>6. \A c : (Once(bwd, c) <=> Once(Q, c)) /\ (Absent(bwd, c) <=> Absent(Q, c))
  BY DEF Once, Absent
<1>7. \A c \in Batches : back'[c] = IF c = b THEN target ELSE back[c]
  BY <1>1 DEF IInv, Queued
<1>8. Ordered'
  BY <1>1, <1>7 DEF OnceInv, Ordered
<1>9. b \in 1 .. arrived /\ Absent(Q, b)
  <2>1. b \in 1 .. arrived
    BY <1>1, NotYetQueued DEF IInv, Queued, Batches
  <2> QED
    BY <2>1, <1>1, <1>6 DEF OnceInv, ExactlyOnce, Due
<1>10. ASSUME NEW c \in 1 .. arrived
       PROVE  /\ IF ranF[c] = Unknown THEN Once(fwd, c) ELSE Absent(fwd, c)
              /\ IF /\ ranF[c] # Unknown /\ ranB[c] = Unknown
                    /\ kind = "last stage" \/ back'[c] # Unknown
                 THEN Once(R, c) ELSE Absent(R, c)
  <2>0. c \in Batches
    BY Distinct DEF OnceInv, Ordered, IInv, Queued, Batches
  <2>1. CASE c = b
    BY <2>0, <2>1, <1>1, <1>2, <1>5, <1>7, <1>9 DEF OnceInv, ExactlyOnce
  <2>2. CASE c # b
    <3>1. (Once(Q, c) => Once(R, c)) /\ (Absent(Q, c) => Absent(R, c)) /\ back'[c] = back[c]
      BY <2>0, <2>2, <1>5, <1>7
    <3> QED
      BY <3>1, <1>1, <1>6 DEF OnceInv, ExactlyOnce, Due
  <2> QED
    BY <2>1, <2>2
<1>11. ExactlyOnce'
  <2> SUFFICES ASSUME NEW c \in 1 .. arrived
               PROVE  /\ IF ranF[c] = Unknown THEN Once(fwd, c)' ELSE Absent(fwd, c)'
                      /\ IF /\ ranF[c] # Unknown /\ ranB[c] = Unknown
                            /\ kind = "last stage" \/ back'[c] # Unknown
                         THEN Once(bwd, c)' ELSE Absent(bwd, c)'
    BY <1>1 DEF ExactlyOnce, Due
  <2>1. (Once(R, c) => Once(bwd, c)') /\ (Absent(R, c) => Absent(bwd, c)')
    BY DEF Once, Absent
  <2>2. (Once(fwd, c) => Once(fwd, c)') /\ (Absent(fwd, c) => Absent(fwd, c)')
    BY <1>1 DEF Once, Absent
  <2> QED
    BY <1>10, <2>1, <2>2
<1> QED
  BY <1>8, <1>11

\* What a tick writes down of a micro-batch: the nodes that ran it.
LEMMA TickRecords ==
    ASSUME IInv, Tick, NEW b \in Batches
    PROVE  /\ ranF'[b] = Unknown <=>
                ranF[b] = Unknown /\ ~ \E n \in Nodes : RunsF(n) /\ Head(fwd[n]) = b
           /\ ranB'[b] = Unknown <=>
                ranB[b] = Unknown /\ ~ \E n \in Nodes : RunsB(n) /\ Head(bwd[n]) = b
<1> DEFINE Forward(n) == RunsF(n) /\ Head(fwd[n]) = b
           Backward(n) == RunsB(n) /\ Head(bwd[n]) = b
<1>1. ranF'[b] = IF \E n \in Nodes : Forward(n)
                 THEN CHOOSE n \in Nodes : Forward(n) ELSE ranF[b]
  BY Zenon DEF Tick
<1>2. ranB'[b] = IF \E n \in Nodes : Backward(n)
                 THEN CHOOSE n \in Nodes : Backward(n) ELSE ranB[b]
  BY Zenon DEF Tick
<1>3. Unknown \notin Nodes
  BY Distinct
<1> HIDE DEF Forward, Backward
<1>4. ranF'[b] = Unknown <=> ranF[b] = Unknown /\ ~ \E n \in Nodes : Forward(n)
  <2>1. CASE \E n \in Nodes : Forward(n)
    BY <2>1, <1>1, <1>3
  <2>2. CASE ~ \E n \in Nodes : Forward(n)
    BY <2>2, <1>1
  <2> QED
    BY <2>1, <2>2
<1>5. ranB'[b] = Unknown <=> ranB[b] = Unknown /\ ~ \E n \in Nodes : Backward(n)
  <2>1. CASE \E n \in Nodes : Backward(n)
    BY <2>1, <1>2, <1>3
  <2>2. CASE ~ \E n \in Nodes : Backward(n)
    BY <2>2, <1>2
  <2> QED
    BY <2>1, <2>2
<1> QED
  BY <1>4, <1>5 DEF Forward, Backward

\* A tick takes what it runs off its queue, and on the last stage makes the
\* forwards it runs due backward.
LEMMA TickOnce == OnceInv /\ Tick => (Ordered /\ ExactlyOnce)'
<1> SUFFICES ASSUME OnceInv, Tick PROVE Ordered' /\ ExactlyOnce'
  OBVIOUS
<1>1. /\ IInv /\ Ordered /\ ExactlyOnce /\ kind # "energy"
      /\ fwd \in [Nodes -> Seq(Batches)] /\ bwd \in [Nodes -> Seq(Batches)]
      /\ arrived \in Nat /\ arrived <= MaxBatches
      /\ UNCHANGED <<kind, arrived, back>>
  BY DEF Tick, OnceInv, IInv, Queued, Ordered
\* The queues before and after, as plain values, and who runs what.
<1>p. PICK Q, R, C, D : Q = fwd /\ R = fwd' /\ C = bwd /\ D = bwd'
  OBVIOUS
<1>s. PICK S, T, U : /\ S = {n \in Nodes : RunsF(n)} /\ T = {n \in Nodes : RunsB(n)}
                   /\ U = IF kind = "last stage" THEN S ELSE {}
  OBVIOUS
<1> DEFINE E == [n \in Nodes |-> IF n \in T THEN Tail(C[n]) ELSE C[n]]
           F(c) == \E n \in S : Head(Q[n]) = c
           B(c) == \E n \in T : Head(C[n]) = c
<1>2. /\ Q \in [Nodes -> Seq(Batches)] /\ S \in SUBSET Nodes
      /\ \A n \in S : Q[n] # <<>> /\ R[n] = Tail(Q[n])
      /\ \A n \in Nodes \ S : R[n] = Q[n]
  BY <1>1, <1>p, <1>s DEF Tick, RunsF
<1>3. /\ C \in [Nodes -> Seq(Batches)] /\ T \in SUBSET Nodes /\ U \in SUBSET Nodes
      /\ \A n \in T : C[n] # <<>> /\ E[n] = Tail(C[n])
      /\ \A n \in Nodes \ T : E[n] = C[n] /\ C[n] = <<>>
  BY <1>1, <1>p, <1>s DEF RunsB
<1>4. \A n \in U : E[n] = <<>> /\ D[n] = <<Head(Q[n])>>
  <2>1. ASSUME NEW n \in Nodes, RunsF(n), kind = "last stage"
        PROVE  ~RunsB(n) /\ bwd'[n] = <<Head(fwd[n])>>
    BY <2>1, Zenon DEF Tick, RunsF, RunsB
  <2> QED
    BY <2>1, <1>3, <1>p, <1>s
<1>5. \A n \in Nodes \ U : D[n] = E[n]
  <2>1. ASSUME NEW n \in Nodes
        PROVE  /\ RunsB(n) => bwd'[n] = Tail(bwd[n])
               /\ ~RunsB(n) /\ ~(RunsF(n) /\ kind = "last stage") => bwd'[n] = <<>>
    BY Zenon DEF Tick, RunsF, RunsB
  <2>2. ASSUME NEW n \in T PROVE D[n] = E[n]
    BY <2>1, <2>2, <1>3, <1>p, <1>s
  <2>3. ASSUME NEW n \in Nodes \ T, n \notin U PROVE D[n] = E[n]
    BY <2>1, <2>3, <1>3, <1>p, <1>s
  <2> QED
    BY <2>2, <2>3
<1>6. E \in [Nodes -> Seq(Batches)]
  <2>1. ASSUME NEW n \in Nodes PROVE E[n] \in Seq(Batches)
    <3>1. CASE n \in T
      BY <3>1, <1>3, TailFacts
    <3>2. CASE n \notin T
      BY <3>2, <1>3
    <3> QED
      BY <3>1, <3>2
  <2> QED
    BY <2>1
<1> HIDE DEF E, F, B
\* What the histories say of it.
<1>7. ASSUME NEW c \in Batches
      PROVE  /\ ranF'[c] = Unknown <=> ranF[c] = Unknown /\ ~F(c)
             /\ ranB'[c] = Unknown <=> ranB[c] = Unknown /\ ~B(c)
  BY TickRecords, <1>1, <1>p, <1>s DEF F, B
<1>T. ASSUME NEW n \in S
      PROVE  n \in Nodes /\ 1 \in 1 .. Len(Q[n]) /\ Q[n][1] = Head(Q[n])
  <2>1. Q[n] \in Seq(Batches) /\ Q[n] # <<>> /\ n \in Nodes
    BY <1>2
  <2>2. Len(Q[n]) \in Nat \ {0} /\ Head(Q[n]) = Q[n][1]
    BY <2>1, TailFacts
  <2> QED
    BY <2>1, <2>2
<1>U. ASSUME NEW n \in T
      PROVE  n \in Nodes /\ 1 \in 1 .. Len(C[n]) /\ C[n][1] = Head(C[n])
  <2>1. C[n] \in Seq(Batches) /\ C[n] # <<>> /\ n \in Nodes
    BY <1>3
  <2>2. Len(C[n]) \in Nat \ {0} /\ Head(C[n]) = C[n][1]
    BY <2>1, TailFacts
  <2> QED
    BY <2>1, <2>2
<1>8. ASSUME NEW c \in Batches, F(c)
      PROVE  ~Absent(Q, c) /\ ranF[c] = Unknown
  <2>1. PICK n \in S : Head(Q[n]) = c
    BY <1>8 DEF F
  <2>2. ~Absent(Q, c)
    BY <2>1, <1>T DEF Absent
  <2>3. n \in Nodes /\ fwd[n][1] = c /\ 1 \in 1 .. Len(fwd[n])
    BY <2>1, <1>T, <1>p
  <2>4. ranF[fwd[n][1]] = Unknown
    BY <2>3, <1>1 DEF IInv, Waiting
  <2> QED
    BY <2>2, <2>3, <2>4
<1>9. ASSUME NEW c \in Batches, B(c)
      PROVE  ~Absent(C, c)
  <2>1. PICK n \in T : Head(C[n]) = c
    BY <1>9 DEF B
  <2> QED
    BY <2>1, <1>U DEF Absent
<1>10. ASSUME NEW c \in Batches, NEW n \in S, Head(Q[n]) = c, NEW m \in S, Head(Q[m]) = c
       PROVE  m = n
  <2>1. /\ 1 \in 1 .. Len(fwd[n]) /\ fwd[n][1] = c /\ n \in Nodes
        /\ 1 \in 1 .. Len(fwd[m]) /\ fwd[m][1] = c /\ m \in Nodes
    BY <1>10, <1>T, <1>p
  <2> QED
    BY <2>1, <1>1 DEF IInv, Waiting
<1>11. ASSUME NEW c
       PROVE  /\ (Once(fwd, c) <=> Once(Q, c)) /\ (Absent(fwd, c) <=> Absent(Q, c))
              /\ (Once(bwd, c) <=> Once(C, c)) /\ (Absent(bwd, c) <=> Absent(C, c))
  <2>1. (Once(fwd, c) <=> Once(Q, c)) /\ (Absent(fwd, c) <=> Absent(Q, c))
    BY <1>p DEF Once, Absent
  <2>2. (Once(bwd, c) <=> Once(C, c)) /\ (Absent(bwd, c) <=> Absent(C, c))
    BY <1>p DEF Once, Absent
  <2> QED
    BY <2>1, <2>2
\* A micro-batch that runs has arrived.
<1>12. ASSUME NEW c \in Batches
       PROVE  (F(c) \/ B(c)) => c \in 1 .. arrived
  <2>1. ~Absent(Q, c) \/ ~Absent(C, c) => ~(c > arrived)
    BY <1>1, <1>11, NotYetQueued
  <2> QED
    BY <2>1, <1>1, <1>8, <1>9 DEF Batches
\* What a micro-batch was due for before the tick.
<1>13. ASSUME NEW c \in 1 .. arrived
       PROVE  /\ c \in Batches
              /\ IF ranF[c] = Unknown THEN Once(Q, c) ELSE Absent(Q, c)
              /\ IF Due(c) THEN Once(C, c) ELSE Absent(C, c)
              /\ B(c) => Due(c)
              /\ F(c) => ~Due(c)
  <2>1. c \in Batches
    BY <1>1, Distinct DEF Batches
  <2>2. /\ IF ranF[c] = Unknown THEN Once(Q, c) ELSE Absent(Q, c)
        /\ IF Due(c) THEN Once(C, c) ELSE Absent(C, c)
    BY <1>1, <1>11 DEF ExactlyOnce
  <2> QED
    BY <2>1, <2>2, <1>8, <1>9 DEF Due
<1>14. Ordered'
  <2> SUFFICES ASSUME NEW c \in Batches
               PROVE  /\ ranF'[c] = Unknown => back[c] = Unknown /\ ranB'[c] = Unknown
                      /\ kind = "stage" /\ back[c] = Unknown => ranB'[c] = Unknown
    BY <1>1 DEF Ordered
  <2>1. B(c) => Due(c)
    BY <1>12, <1>13
  <2> QED
    BY <2>1, <1>1, <1>7 DEF Ordered, Due
<1>15. ASSUME NEW c \in 1 .. arrived
       PROVE  IF ranF'[c] = Unknown THEN Once(R, c) ELSE Absent(R, c)
  <2>0. c \in Batches
    BY <1>13
  <2>1. /\ Absent(Q, c) => Absent(R, c)
        /\ Once(Q, c) /\ F(c) => Absent(R, c)
        /\ Once(Q, c) /\ ~F(c) => Once(R, c)
    BY <1>2, <2>0, TakenOnce DEF F
  <2> QED
    BY <2>1, <1>7, <1>13
<1>16. ASSUME NEW c \in 1 .. arrived
       PROVE  IF /\ ranF'[c] # Unknown /\ ranB'[c] = Unknown
                 /\ kind = "last stage" \/ back[c] # Unknown
              THEN Once(D, c) ELSE Absent(D, c)
  <2>0. c \in Batches
    BY <1>13
  <2>1. /\ Absent(C, c) => Absent(E, c)
        /\ Once(C, c) /\ B(c) => Absent(E, c)
        /\ Once(C, c) /\ ~B(c) => Once(E, c)
    BY <1>3, <2>0, TakenOnce DEF B
  <2>2. Absent(E, c) \/ Once(E, c)
    BY <2>1, <1>13
  <2>3. /\ ~(\E n \in U : Head(Q[n]) = c) =>
             (Absent(E, c) => Absent(D, c)) /\ (Once(E, c) => Once(D, c))
        /\ \A n \in U : /\ Absent(E, c) /\ Head(Q[n]) = c
                        /\ \A m \in U : Head(Q[m]) = c => m = n
                        => Once(D, c)
    <3>1. /\ U \in SUBSET Nodes /\ Q \in [Nodes -> Seq(Batches)]
          /\ \A n \in U : E[n] = <<>> /\ D[n] = <<Head(Q[n])>>
          /\ \A n \in Nodes \ U : D[n] = E[n]
      BY <1>2, <1>3, <1>4, <1>5
    <3> QED
      BY <3>1, <2>0, <2>2, <1>6, FollowedOnce
  <2>4. CASE F(c) /\ kind = "last stage"
    <3>1. PICK n \in S : Head(Q[n]) = c
      BY <2>4 DEF F
    <3>2. n \in U /\ \A m \in U : Head(Q[m]) = c => m = n
      BY <3>1, <2>4, <1>10, <1>13, <1>s
    <3>3. Once(D, c)
      BY <3>1, <3>2, <2>1, <2>3, <2>4, <1>13
    <3>4. ranF'[c] # Unknown /\ ranB'[c] = Unknown
      BY <2>4, <1>1, <1>7, <1>8, <1>13 DEF Ordered, F
    <3> QED
      BY <3>3, <3>4, <2>4
  <2>5. CASE ~(F(c) /\ kind = "last stage")
    <3>1. ~(\E n \in U : Head(Q[n]) = c)
      BY <2>5, <1>s DEF F
    <3>2. IF Due(c) /\ ~B(c) THEN Once(D, c) ELSE Absent(D, c)
      BY <3>1, <2>1, <2>3, <1>13
    <3>3. F(c) => back[c] = Unknown
      BY <1>1, <1>8, <1>13 DEF Ordered, F
    <3> QED
      BY <3>2, <3>3, <2>5, <1>7, <1>13 DEF Due
  <2> QED
    BY <2>4, <2>5
<1>17. ExactlyOnce'
  <2> SUFFICES ASSUME NEW c \in 1 .. arrived
               PROVE  /\ IF ranF'[c] = Unknown THEN Once(fwd, c)' ELSE Absent(fwd, c)'
                      /\ IF /\ ranF'[c] # Unknown /\ ranB'[c] = Unknown
                            /\ kind = "last stage" \/ back[c] # Unknown
                         THEN Once(bwd, c)' ELSE Absent(bwd, c)'
    BY <1>1 DEF ExactlyOnce, Due
  <2>1. /\ (Once(R, c) => Once(fwd, c)') /\ (Absent(R, c) => Absent(fwd, c)')
        /\ (Once(D, c) => Once(bwd, c)') /\ (Absent(D, c) => Absent(bwd, c)')
    BY <1>p DEF Once, Absent
  <2> QED
    BY <1>15, <1>16, <2>1
<1> QED
  BY <1>14, <1>17

LEMMA NextOnce == OnceInv /\ [Next]_vars => OnceInv'
<1> SUFFICES ASSUME OnceInv, [Next]_vars PROVE OnceInv'
  OBVIOUS
<1>1. IInv'
  BY NextKeeps DEF OnceInv
<1>2. Ordered' /\ ExactlyOnce'
  <2>1. CASE EnqueueForward
    BY <2>1, EnqueueForwardOnce
  <2>2. ASSUME NEW b \in Batches, NEW target \in {Nobody, ranF[b]}, EnqueueBackward(b, target)
        PROVE  Ordered' /\ ExactlyOnce'
    BY <2>2, EnqueueBackwardOnce
  <2>3. CASE Tick
    BY <2>3, TickOnce
  <2>4. CASE EnergyPick \/ UNCHANGED vars
    <3>1. UNCHANGED <<kind, fwd, bwd, arrived, ranF, ranB, back>>
      BY <2>4 DEF EnergyPick, vars, queues, history
    <3>2. Ordered'
      BY <3>1 DEF OnceInv, Ordered
    <3>3. ExactlyOnce'
      <4>1. \A c : /\ (Once(fwd, c) => Once(fwd, c)') /\ (Absent(fwd, c) => Absent(fwd, c)')
                   /\ (Once(bwd, c) => Once(bwd, c)') /\ (Absent(bwd, c) => Absent(bwd, c)')
        BY <3>1 DEF Once, Absent
      <4> QED
        BY <3>1, <4>1 DEF OnceInv, ExactlyOnce, Due
    <3> QED
      BY <3>2, <3>3
  <2> QED
    BY <2>1, <2>2, <2>3, <2>4 DEF Next
<1> QED
  BY <1>1, <1>2 DEF OnceInv

\* The queues of a stage and what has run agree, whatever the round robins
\* pick and however arrivals, gradients and ticks follow each other.
THEOREM QueueInvariance == Spec => []IInv
<1>1. Init => IInv
  BY InitIInv
<1>2. IInv /\ [Next]_vars => IInv'
  BY NextKeeps
<1> QED
  BY <1>1, <1>2, PTL DEF Spec

\* R3: unless its gradient came back without a target, a micro-batch's
\* backward runs on the node that ran its forward.
THEOREM BackwardOnItsNode == Spec => []ActivationsMatched
<1>1. IInv => ActivationsMatched
  BY DEF IInv
<1> QED
  BY <1>1, QueueInvariance, PTL

\* R1 with R2: no node of the last stage keeps more than one micro-batch's
\* activations.
THEOREM BoundedActivations == Spec => []OneActivation
<1>1. IInv => OneActivation
  BY DEF IInv
<1> QED
  BY <1>1, QueueInvariance, PTL

\* A micro-batch that arrived is in exactly one queue as long as something is
\* due for it, in none before its gradient is back and after its backward has
\* run: none is lost, queued twice or run twice, on any number of nodes.
THEOREM RunExactlyOnce == Spec => []ExactlyOnce
<1>1. Init => OnceInv
  BY InitOnce
<1>2. OnceInv /\ [Next]_vars => OnceInv'
  BY NextOnce
<1>3. OnceInv => ExactlyOnce
  BY DEF OnceInv
<1> QED
  BY <1>1, <1>2, <1>3, PTL DEF Spec
-----------------------------------------------------------------------------
(* The round robins.                                                       *)

LEMMA TotalIsSum == ASSUME NEW raw PROVE Total(raw) = SumOver(raw, Nodes)
BY Zenon DEF Total, SumOver, MapThenSumSet, MapThenFoldSet

LEMMA NodesFinite == IsFiniteSet(Nodes) /\ NumNodes \in Nat \ {0} /\ Turn \in Nat \ {0}
BY RoundRobinAssumption, FS_Interval DEF Nodes

LEMMA TotalNat ==
    ASSUME NEW raw \in [Nodes -> Nat]
    PROVE  Total(raw) \in Nat /\ \A n \in Nodes : raw[n] <= Total(raw)
BY NodesFinite, SumNaturals, TotalIsSum

LEMMA TotalAdds ==
    ASSUME NEW raw \in [Nodes -> Nat], NEW more \in [Nodes -> Nat]
    PROVE  Total(Earned(raw, more)) = Total(raw) + Total(more)
<1> DEFINE h == Earned(raw, more)
<1>1. IntegersOn(raw, Nodes) /\ IntegersOn(more, Nodes) /\ Combines(h, raw, 1, more, Nodes)
  BY DEF IntegersOn, Combines, Earned
<1> HIDE DEF h
<1>2. SumOver(h, Nodes) = SumOver(raw, Nodes) + 1 * SumOver(more, Nodes)
  <2>1. 1 \in Int
    OBVIOUS
  <2> QED
    BY <1>1, <2>1, NodesFinite, SumLinear
<1>3. Total(more) \in Nat
  BY TotalNat
<1> QED
  BY <1>2, <1>3, TotalIsSum DEF h

\* Parts of a turn that are whole add up to one.
LEMMA WholeTurn ==
    ASSUME NEW raw \in [Nodes -> Nat], Total(raw) > 0 => Turn % Total(raw) = 0
    PROVE  /\ Normalised(raw) \in [Nodes -> Nat]
           /\ Total(Normalised(raw)) = IF Total(raw) > 0 THEN Turn ELSE 0
<1> DEFINE t == Total(raw)
           h == Normalised(raw)
           q == Turn \div t
<1>1. t \in Nat /\ Turn \in Nat \ {0}
  BY TotalNat, NodesFinite
<1> HIDE DEF t
<1>2. CASE t = 0
  <2>1. \A n \in Nodes : h[n] = 0
    BY <1>2 DEF Normalised, t
  <2>2. h \in [Nodes -> Nat]
    BY <1>2 DEF Normalised, t
  <2>3. \A n \in 1 .. NumNodes : h[n] = 0
    BY <2>1 DEF Nodes
  <2> HIDE DEF h
  <2>4. SumOver(h, 1 .. NumNodes) = NumNodes * 0
    <3>1. 0 \in Int /\ NumNodes \in Nat
      BY NodesFinite
    <3> QED
      BY <2>3, <3>1, SumConstant
  <2> QED
    BY <1>2, <2>2, <2>4, TotalIsSum, NodesFinite DEF t, h, Nodes
<1>3. CASE t # 0
  <2>1. t \in Nat \ {0} /\ Turn % t = 0
    BY <1>1, <1>3 DEF t
  <2>2. q \in Nat /\ Turn = t * q
    BY <1>1, <2>1
  <2> HIDE DEF q
  <2>3. \A n \in Nodes : h[n] = raw[n] * q
    <3>1. ASSUME NEW a \in Nat PROVE (a * Turn) \div t = a * q
      <4>1. a * Turn = (a * q) * t
        BY <2>1, <2>2, <3>1
      <4>2. a * q \in Nat
        BY <2>2, <3>1
      <4>3. ASSUME NEW z \in Nat PROVE (z * t) \div t = z
        BY <2>1
      <4> QED
        BY <4>1, <4>2, <4>3
    <3>2. \A n \in Nodes : h[n] = (raw[n] * Turn) \div t
      BY <1>3 DEF Normalised, t
    <3> QED
      BY <3>1, <3>2
  <2>4. h \in [Nodes -> Nat]
    <3>1. \A n \in Nodes : raw[n] * q \in Nat
      BY <2>2
    <3>2. h = [n \in Nodes |-> h[n]]
      BY DEF Normalised
    <3> HIDE DEF h
    <3> QED
      BY <2>3, <3>1, <3>2
  <2>5. Combines(h, raw, q - 1, raw, Nodes)
    <3>1. \A n \in Nodes : raw[n] * q = raw[n] + (q - 1) * raw[n]
      BY <2>2
    <3> HIDE DEF h
    <3> QED
      BY <2>3, <3>1 DEF Combines
  <2> HIDE DEF h
  <2>6. SumOver(h, Nodes) = SumOver(raw, Nodes) + (q - 1) * SumOver(raw, Nodes)
    <3>1. IntegersOn(raw, Nodes) /\ q - 1 \in Int
      BY <2>2 DEF IntegersOn
    <3> QED
      BY <2>5, <3>1, NodesFinite, SumLinear
  <2>7. SumOver(h, Nodes) = t + (q - 1) * t
    BY <2>6, TotalIsSum DEF t
  <2>8. t + (q - 1) * t = t * q
    BY <2>1, <2>2
  <2> QED
    BY <1>1, <2>1, <2>2, <2>4, <2>7, <2>8, TotalIsSum DEF h, t
<1> QED
  BY <1>2, <1>3

\* What a pick leaves behind: a turn is taken out, or all that was earned is
\* kept and no node has more than a turn.
LEMMA ChargedLeaves ==
    ASSUME NEW old \in [Nodes -> Nat], NEW w \in [Nodes -> Nat], NEW node \in Picks(old, w)
    PROVE  /\ Charged(old, w, node) \in [Nodes -> Nat]
           /\ node \in Nodes \cup {Nobody}
           /\ node # Nobody => Total(Charged(old, w, node)) = Total(old) + Total(w) - Turn
           /\ node = Nobody => /\ Total(Charged(old, w, node)) = Total(old) + Total(w)
                               /\ Total(Charged(old, w, node)) <= NumNodes * Turn
<1> DEFINE e == Earned(old, w)
           c == Charged(old, w, node)
<1>1. e \in [Nodes -> Nat] /\ Total(e) = Total(old) + Total(w)
  BY TotalAdds DEF Earned
<1>2. Turn \in Nat \ {0} /\ NumNodes \in Nat \ {0} /\ IsFiniteSet(Nodes) /\ Nobody \notin Nodes
  BY NodesFinite, Distinct
<1>3. c = [n \in Nodes |-> e[n] - IF n = node THEN Turn ELSE 0]
  BY DEF Charged
<1>4. \/ node \in Nodes /\ e[node] >= Turn
      \/ node = Nobody /\ \A m \in Nodes : e[m] <= Turn
  BY DEF Picks, Richest
<1> HIDE DEF e, c
<1>6. CASE node = Nobody
  <2>1. c = e
    <3>1. \A n \in Nodes : e[n] - (IF n = node THEN Turn ELSE 0) = e[n]
      BY <1>1, <1>2, <1>6
    <3> QED
      BY <1>1, <1>3, <3>1
  <2>2. Total(e) <= NumNodes * Turn
    <3> DEFINE most == [n \in Nodes |-> Turn]
    <3>1. \A n \in Nodes : e[n] <= Turn
      BY <1>2, <1>4, <1>6
    <3>2. IntegersOn(e, Nodes) /\ IntegersOn(most, Nodes) /\ \A n \in Nodes : e[n] <= most[n]
      BY <1>1, <1>2, <3>1 DEF IntegersOn
    <3>3. \A n \in 1 .. NumNodes : most[n] = Turn
      BY DEF Nodes
    <3> HIDE DEF most
    <3>4. SumOver(e, Nodes) <= SumOver(most, Nodes)
      BY <1>2, <3>2, SumAtMost
    <3>5. SumOver(most, 1 .. NumNodes) = NumNodes * Turn
      <4>1. Turn \in Int /\ NumNodes \in Nat
        BY <1>2
      <4> QED
        BY <3>3, <4>1, SumConstant
    <3> QED
      BY <1>1, <3>4, <3>5, TotalIsSum DEF Nodes
  <2> QED
    <3>1. Charged(old, w, node) = e
      BY <2>1 DEF c
    <3> QED
      BY <1>1, <1>6, <2>2, <3>1
<1>7. CASE node # Nobody
  <2>1. node \in Nodes /\ e[node] >= Turn
    BY <1>4, <1>7
  <2>2. /\ c[node] = e[node] - Turn
        /\ \A n \in Nodes \ {node} : c[n] = e[n]
    BY <1>1, <1>3, <2>1
  <2>3. c \in [Nodes -> Nat]
    <3>1. c = [n \in Nodes |-> c[n]]
      BY <1>3
    <3>2. \A n \in Nodes : c[n] \in Nat
      BY <1>1, <1>2, <2>1, <2>2
    <3> QED
      BY <3>1, <3>2
  <2>4. IntegersOn(c, Nodes) /\ IntegersOn(e, Nodes) /\ IntegersOn(e, Nodes \ {node})
    BY <1>1, <2>3 DEF IntegersOn
  <2>5. IsFiniteSet(Nodes \ {node})
    BY <1>2, FS_Subset, Zenon
  <2>6. SumOver(c, Nodes \ {node}) = SumOver(e, Nodes \ {node})
    BY <2>2, <2>4, <2>5, SumSame
  <2>7. /\ SumOver(c, Nodes) = c[node] + SumOver(c, Nodes \ {node})
        /\ SumOver(e, Nodes) = e[node] + SumOver(e, Nodes \ {node})
    BY <1>2, <2>1, <2>4, SumStep
  <2>8. SumOver(e, Nodes \ {node}) \in Int
    BY <2>4, <2>5, SumStep
  <2>9. Total(c) = Total(e) - Turn
    BY <1>1, <1>2, <2>1, <2>2, <2>6, <2>7, <2>8, TotalIsSum
  <2> QED
    <3>1. Total(c) = Total(old) + Total(w) - Turn
      BY <1>1, <1>2, <2>9, TotalNat
    <3> QED
      <4>1. /\ Charged(old, w, node) \in [Nodes -> Nat]
            /\ Total(Charged(old, w, node)) = Total(old) + Total(w) - Turn
        BY <2>3, <3>1 DEF c
      <4> QED
        BY <1>7, <2>1, <4>1, Zenon
<1> QED
  BY <1>6, <1>7

\* A pick on weights that add up to one turn, or to none.
LEMMA PickKeeps ==
    ASSUME RoundInv, NEW d \in Directions, NEW w \in [Nodes -> Nat], Total(w) = PerPick,
           weights' = w, capacity' = capacity, kind' = kind, NEW node, Pick(d, w, node)
    PROVE  RoundInv'
<1> DEFINE old == deficit[d]
           c == Charged(old, w, node)
<1>1. old \in [Nodes -> Nat] /\ Total(old) = misses[d] * PerPick /\ misses[d] \in Nat
  BY DEF RoundInv
<1>2. Turn \in Nat \ {0} /\ NumNodes \in Nat \ {0} /\ PerPick' = PerPick
  BY NodesFinite DEF PerPick
<1>3. PerPick = 0 \/ PerPick = Turn
  BY DEF PerPick
<1>0. node \in Picks(old, w)
  BY DEF Pick
<1> HIDE DEF old, c
<1>4. /\ c \in [Nodes -> Nat] /\ node \in Nodes \cup {Nobody}
      /\ node # Nobody => Total(c) = Total(old) + Total(w) - Turn
      /\ node = Nobody => Total(c) = Total(old) + Total(w) /\ Total(c) <= NumNodes * Turn
  BY <1>0, <1>1, ChargedLeaves DEF c
<1>5. deficit' = [deficit EXCEPT ![d] = c]
  BY DEF Pick, c, old
<1>6. earned' = [earned EXCEPT ![d] = c]
  <2>1. c = [n \in Nodes |-> (old[n] + w[n]) - IF n = node THEN Turn ELSE 0]
    <3>1. c = [n \in Nodes |-> Earned(old, w)[n] - IF n = node THEN Turn ELSE 0]
      BY DEF c, Charged
    <3>2. \A n \in Nodes : Earned(old, w)[n] = old[n] + w[n]
      BY DEF Earned
    <3> QED
      BY <3>1, <3>2
  <2>2. earned[d] = old
    BY DEF RoundInv, old
  <2>3. earned' = [earned EXCEPT ![d] = [n \in Nodes |-> earned[d][n] + w[n] - IF n = node THEN Turn ELSE 0]]
    BY DEF Pick, old
  <2>4. [n \in Nodes |-> earned[d][n] + w[n] - IF n = node THEN Turn ELSE 0] = c
    <3> DEFINE x == [n \in Nodes |-> earned[d][n] + w[n] - IF n = node THEN Turn ELSE 0]
    <3>1. \A n \in Nodes : x[n] = c[n]
      BY <1>1, <1>2, <2>1, <2>2
    <3>2. x = [n \in Nodes |-> x[n]] /\ c = [n \in Nodes |-> c[n]]
      BY <2>1
    <3> HIDE DEF x
    <3>3. x = c
      BY <3>1, <3>2
    <3> QED
      BY <3>3 DEF x
  <2> QED
    BY <2>3, <2>4, Zenon
<1>7. misses' = [misses EXCEPT ![d] = IF node = Nobody THEN @ + 1 ELSE @]
  BY DEF Pick, old
<1>8. /\ Total(c) = misses'[d] * PerPick
      /\ misses'[d] \in Nat
      /\ Total(capacity) > 0 => misses'[d] <= NumNodes
  <2>1. Total(c) \in Nat /\ Total(old) \in Nat
    BY <1>1, <1>4, TotalNat
  <2>2. CASE node # Nobody
    <3>1. misses'[d] = misses[d]
      BY <1>7, <2>2 DEF RoundInv
    <3>2. Total(c) = Total(old) + PerPick - Turn
      BY <1>4, <2>2
    <3>3. PerPick = Turn
      <4>1. PerPick = 0 => Total(old) = 0
        BY <1>1
      <4> QED
        BY <1>2, <1>3, <2>1, <3>2, <4>1
    <3>4. Total(c) = Total(old)
      BY <1>2, <2>1, <3>2, <3>3
    <3> QED
      BY <1>1, <3>1, <3>4 DEF RoundInv, FewMisses
  <2>3. CASE node = Nobody
    <3>1. misses'[d] = misses[d] + 1
      BY <1>7, <2>3 DEF RoundInv
    <3>2. Total(c) = (misses[d] + 1) * PerPick
      <4>1. Total(c) = misses[d] * PerPick + PerPick
        BY <1>1, <1>4, <2>3
      <4>2. PerPick \in Nat
        BY <1>2, <1>3
      <4>3. (misses[d] + 1) * PerPick = misses[d] * PerPick + PerPick
        BY <1>1, <4>2
      <4> QED
        BY <4>1, <4>3
    <3>3. ASSUME Total(capacity) > 0 PROVE misses[d] + 1 <= NumNodes
      <4>1. (misses[d] + 1) * Turn <= NumNodes * Turn
        BY <1>4, <2>3, <3>2, <3>3 DEF PerPick
      <4>2. ASSUME NEW a \in Nat, NEW b \in Nat, a * Turn <= b * Turn PROVE a <= b
        <5>1. ASSUME a >= b + 1 PROVE a * Turn >= (b + 1) * Turn
          BY <1>2, <5>1
        <5>2. (b + 1) * Turn = b * Turn + Turn
          BY <1>2
        <5> QED
          BY <1>2, <4>2, <5>1, <5>2
      <4>3. misses[d] + 1 \in Nat
        BY <1>1
      <4> QED
        BY <1>2, <4>1, <4>2, <4>3
    <3> QED
      BY <1>1, <3>1, <3>2, <3>3
  <2> QED
    BY <2>2, <2>3
<1>9. /\ deficit' \in [Directions -> [Nodes -> Nat]] /\ earned' = deficit'
      /\ misses' \in [Directions -> Nat]
  BY <1>4, <1>5, <1>6, <1>7, <1>8 DEF RoundInv
<1>10. \A x \in Directions : Total(deficit'[x]) = misses'[x] * PerPick
  <2>1. ASSUME NEW x \in Directions PROVE Total(deficit'[x]) = misses'[x] * PerPick
    <3>1. CASE x = d
      <4>1. deficit'[x] = c
        BY <1>5, <3>1 DEF RoundInv
      <4> QED
        BY <1>8, <3>1, <4>1
    <3>2. CASE x # d
      <4>1. deficit'[x] = deficit[x] /\ misses'[x] = misses[x]
        BY <1>5, <1>7, <3>2 DEF RoundInv
      <4> QED
        BY <4>1 DEF RoundInv
    <3> QED
      BY <3>1, <3>2
  <2> QED
    BY <2>1
<1>11. FewMisses'
  <2>1. ASSUME Total(capacity) > 0, NEW x \in Directions PROVE misses'[x] <= NumNodes
    <3>1. CASE x = d
      BY <1>8, <2>1, <3>1
    <3>2. CASE x # d
      BY <1>7, <2>1, <3>2 DEF RoundInv, FewMisses
    <3> QED
      BY <3>1, <3>2
  <2> QED
    BY <2>1 DEF FewMisses
<1> QED
  BY <1>2, <1>9, <1>10, <1>11 DEF RoundInv

\* What a node's raw weight may be.
RawWeights == [Nodes -> Efficiencies \cup {0} \cup {capacity[n] : n \in Nodes}]

LEMMA RawNat == ASSUME capacity \in Fleets, NEW raw \in RawWeights PROVE raw \in [Nodes -> Nat]
<1>1. capacity \in [Nodes -> Nat] /\ Efficiencies \subseteq Nat
  BY InterBatchAssumption
<1>2. Efficiencies \cup {0} \cup {capacity[n] : n \in Nodes} \subseteq Nat
  <2>1. \A n \in Nodes : capacity[n] \in Nat
    BY <1>1
  <2>2. {capacity[n] : n \in Nodes} \subseteq Nat
    BY <2>1
  <2>3. {0} \subseteq Nat
    OBVIOUS
  <2> QED
    BY <1>1, <2>2, <2>3, Zenon
<1> QED
  BY <1>2 DEF RawWeights

LEMMA RawWhole ==
    ASSUME capacity \in Fleets, NEW raw \in RawWeights
    PROVE  /\ Normalised(raw) \in [Nodes -> Nat]
           /\ Total(Normalised(raw)) = IF Total(raw) > 0 THEN Turn ELSE 0
<1>1. Total(raw) > 0 => Turn % Total(raw) = 0
  BY WholeParts DEF RawWeights
<1>2. raw \in [Nodes -> Nat]
  BY RawNat
<1> QED
  BY <1>1, <1>2, WholeTurn

LEMMA CapacityWhole ==
    ASSUME capacity \in Fleets
    PROVE  Normalised(capacity) \in [Nodes -> Nat] /\ Total(Normalised(capacity)) = PerPick
<1>1. capacity \in RawWeights
  <2>1. capacity \in [Nodes -> Nat]
    BY InterBatchAssumption
  <2> QED
    BY <2>1 DEF RawWeights
<1> QED
  BY <1>1, RawWhole DEF PerPick

\* Whatever telemetry reports, all nodes together earn one turn.
LEMMA RefreshedWhole ==
    ASSUME capacity \in Fleets, Total(capacity) > 0, NEW w \in Refreshed
    PROVE  w \in [Nodes -> Nat] /\ Total(w) = PerPick
<1> DEFINE Raw(report, saturated) ==
             [n \in Nodes |-> CASE n \in saturated -> 0
                                [] n \notin saturated /\ report[n] > 0 -> report[n]
                                [] OTHER -> capacity[n]]
<1>1. PICK report \in [Nodes -> Efficiencies], saturated \in SUBSET Nodes :
        w = IF Total(Raw(report, saturated)) = 0 THEN Normalised(capacity)
            ELSE Normalised(Raw(report, saturated))
  BY DEF Refreshed
<1> DEFINE raw == Raw(report, saturated)
<1>2. raw \in RawWeights
  BY DEF RawWeights
<1> HIDE DEF Raw, raw
<1>3. CASE Total(raw) = 0
  BY <1>1, <1>3, CapacityWhole DEF raw
<1>4. CASE Total(raw) # 0
  <2>1. raw \in [Nodes -> Nat]
    BY <1>2, RawNat
  <2>2. Total(raw) > 0
    BY <1>4, <2>1, TotalNat
  <2>3. w = Normalised(raw)
    BY <1>1, <1>4 DEF raw
  <2> QED
    BY <1>2, <2>2, <2>3, RawWhole DEF PerPick
<1> QED
  BY <1>3, <1>4

LEMMA InitRound == Init => RoundInv
<1> SUFFICES ASSUME Init PROVE RoundInv
  OBVIOUS
<1> DEFINE none == [n \in Nodes |-> 0]
<1>1. /\ capacity \in Fleets /\ (kind = "energy" => Total(capacity) > 0)
      /\ deficit = [d \in Directions |-> none] /\ earned = deficit
      /\ misses = [d \in Directions |-> 0]
  BY DEF Init
<1>2. weights \in [Nodes -> Nat] /\ Total(weights) = PerPick
  <2>1. CASE kind = "energy"
    BY <1>1, <2>1, RefreshedWhole DEF Init
  <2>2. CASE kind # "energy"
    BY <1>1, <2>2, CapacityWhole DEF Init
  <2> QED
    BY <2>1, <2>2
<1>3. none \in [Nodes -> Nat] /\ Total(none) = 0
  <2>1. \A n \in 1 .. NumNodes : none[n] = 0
    BY DEF Nodes
  <2>2. none \in [Nodes -> Nat]
    OBVIOUS
  <2> HIDE DEF none
  <2>3. SumOver(none, 1 .. NumNodes) = NumNodes * 0
    <3>1. NumNodes \in Nat /\ 0 \in Int
      BY NodesFinite
    <3> QED
      BY <2>1, <3>1, SumConstant
  <2> QED
    BY <2>2, <2>3, NodesFinite, TotalIsSum DEF Nodes
<1> HIDE DEF none
<1>4. PerPick \in Nat
  BY NodesFinite DEF PerPick
<1>5. \A d \in Directions : Total(deficit[d]) = misses[d] * PerPick
  BY <1>1, <1>3, <1>4
<1>6. deficit \in [Directions -> [Nodes -> Nat]] /\ misses \in [Directions -> Nat]
  BY <1>1, <1>3
<1>7. FewMisses
  BY <1>1, NodesFinite DEF FewMisses
<1> QED
  BY <1>1, <1>2, <1>5, <1>6, <1>7 DEF RoundInv

LEMMA NextRound == RoundInv /\ [Next]_vars => RoundInv'
<1> SUFFICES ASSUME RoundInv, [Next]_vars PROVE RoundInv'
  OBVIOUS
<1>1. CASE UNCHANGED <<kind, capacity, weights, rounds>>
  BY <1>1 DEF RoundInv, rounds, PerPick, FewMisses
<1>2. CASE EnqueueForward
  <2>1. PICK node : Pick("fwd", weights, node)
    BY <1>2 DEF EnqueueForward
  <2>2. weights' = weights /\ capacity' = capacity /\ kind' = kind /\ "fwd" \in Directions
    BY <1>2 DEF EnqueueForward, Directions
  <2>3. weights \in [Nodes -> Nat] /\ Total(weights) = PerPick
    BY DEF RoundInv
  <2> QED
    BY <2>1, <2>2, <2>3, PickKeeps
<1>3. ASSUME NEW b \in Batches, NEW target \in {Nobody, ranF[b]}, EnqueueBackward(b, target)
      PROVE  RoundInv'
  <2>1. CASE target = Nobody
    <3>1. PICK node : Pick("bwd", weights, node)
      BY <1>3, <2>1 DEF EnqueueBackward
    <3>2. weights' = weights /\ capacity' = capacity /\ kind' = kind /\ "bwd" \in Directions
      BY <1>3 DEF EnqueueBackward, Directions
    <3>3. weights \in [Nodes -> Nat] /\ Total(weights) = PerPick
      BY DEF RoundInv
    <3> QED
      BY <3>1, <3>2, <3>3, PickKeeps
  <2>2. CASE target # Nobody
    BY <1>1, <1>3, <2>2 DEF EnqueueBackward
  <2> QED
    BY <2>1, <2>2
<1>4. CASE Tick
  BY <1>1, <1>4 DEF Tick
<1>5. CASE EnergyPick
  <2>0. PICK node : Pick("fwd", weights', node)
    BY <1>5 DEF EnergyPick
  <2>1. /\ capacity' = capacity /\ kind' = kind /\ "fwd" \in Directions
        /\ kind = "energy" /\ weights' \in Refreshed \cup {weights}
    BY <1>5 DEF EnergyPick, Directions
  <2>2. weights' \in [Nodes -> Nat] /\ Total(weights') = PerPick
    <3>1. CASE weights' = weights
      BY <3>1 DEF RoundInv
    <3>2. CASE weights' \in Refreshed
      BY <2>1, <3>2, RefreshedWhole DEF RoundInv
    <3> QED
      BY <2>1, <3>1, <3>2
  <2> QED
    BY <2>0, <2>1, <2>2, PickKeeps
<1>6. CASE UNCHANGED vars
  BY <1>1, <1>6 DEF vars
<1> QED
  BY <1>2, <1>3, <1>4, <1>5, <1>6 DEF Next

\* The deficits of a direction always add up to the turns that were missed,
\* however often the weights are refreshed.
THEOREM RoundInvariance == Spec => []RoundInv
  BY InitRound, NextRound, PTL DEF Spec

\* pick of the two round robins: no more micro-batches than the stage has
\* nodes are ever dispatched out of turn, whatever its comparison decides for
\* a deficit of exactly one turn.
THEOREM MissesStayFew == Spec => []FewMisses
<1>1. RoundInv => FewMisses
  BY DEF RoundInv
<1> QED
  BY <1>1, RoundInvariance, PTL

LEMMA SharesAreFair == RoundInv => FairShare
<1> SUFFICES ASSUME RoundInv, NEW d \in Directions, NEW n \in Nodes
             PROVE  0 <= earned[d][n] /\ earned[d][n] <= NumNodes * Turn
  BY DEF FairShare
<1>1. earned[d] \in [Nodes -> Nat] /\ Total(earned[d]) = misses[d] * PerPick /\ misses[d] \in Nat
  BY DEF RoundInv
<1>2. earned[d][n] \in Nat /\ earned[d][n] <= Total(earned[d]) /\ Total(earned[d]) \in Nat
  BY <1>1, TotalNat
<1>3. NumNodes \in Nat \ {0} /\ Turn \in Nat \ {0}
  BY NodesFinite
<1>4. misses[d] * PerPick <= NumNodes * Turn
  <2>1. CASE Total(capacity) > 0
    <3>1. misses[d] <= NumNodes /\ PerPick = Turn
      BY <2>1 DEF RoundInv, FewMisses, PerPick
    <3> QED
      BY <1>1, <1>3, <3>1
  <2>2. CASE ~(Total(capacity) > 0)
    <3>1. PerPick = 0
      BY <2>2 DEF PerPick
    <3>2. misses[d] * PerPick = 0 /\ 0 <= NumNodes * Turn
      BY <1>1, <1>3, <3>1
    <3> QED
      BY <3>2
  <2> QED
    BY <2>1, <2>2
<1>5. NumNodes * Turn \in Int
  BY <1>3
<1> QED
  BY <1>1, <1>2, <1>4, <1>5

\* Deficit round robin, with weights that change at every refresh: no node is
\* ever ahead of its weights, or behind them by more turns than there are
\* nodes.
THEOREM SharesStayFair == Spec => []FairShare
  BY SharesAreFair, RoundInvariance, PTL
=============================================================================
