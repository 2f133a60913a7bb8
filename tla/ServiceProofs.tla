---------------------------- MODULE ServiceProofs ----------------------------
(***************************************************************************)
(* What the service promises of its jobs: the share one is admitted with   *)
(* is the smallest that will do; a reader without a lock sees an           *)
(* allocation no older than the state; a decided job has the fastest       *)
(* shape; the lists of the checkpoint store tell the truth about its       *)
(* files; and the GPUs left over are handed out as well as they can be.    *)
(* For every size, number of jobs and of updates, and every budget.        *)
(***************************************************************************)
EXTENDS Sharing, ServedLoop, CheckpointStore, Induction, TLAPS

-----------------------------------------------------------------------------
(* The admission search, for every curve length, rate, deadline and budget. *)

\* On a non-decreasing curve a larger share meets whatever a smaller one does.
LEMMA MeetsUpwards ==
    ASSUME NEW c \in Curves, NEW i \in Nat, NEW d \in Nat,
           NEW s \in Shares, NEW t \in Shares, s <= t, Meets(c, s, i, d)
    PROVE  Meets(c, t, i, d)
<1>1. c[s] \in Nat /\ c[t] \in Nat /\ c[s] <= c[t]
  BY CurveAssumption DEF Curves, Shares
<1>2. \A a, b, e \in Nat : a <= b => a * e <= b * e
  OBVIOUS
<1>3. c[s] * d <= c[t] * d
  BY <1>1, <1>2
<1> QED
  BY <1>1, <1>3 DEF Meets

\* The smallest satisfactory share, when there is one, is MSS.
LEMMA ShareIsMSS ==
    ASSUME NEW c \in Curves, NEW i \in Nat, NEW d \in Nat, i > 0, d > 0,
           NEW s \in Shares, IsShare(c, s, i, d)
    PROVE  s = MSS(c, i, d)
<1>1. Meets(c, s, i, d)
  BY DEF IsShare
<1>2. MSS(c, i, d) = CHOOSE y \in Shares : IsShare(c, y, i, d)
  BY <1>1 DEF MSS
<1>3. MSS(c, i, d) \in Shares /\ IsShare(c, MSS(c, i, d), i, d)
  BY <1>2
<1> QED
  BY <1>1, <1>3, CurveAssumption DEF IsShare, Shares

LEMMA InitEstablishes == Init => IInv
<1> SUFFICES ASSUME Init PROVE IInv
  OBVIOUS
<1>1. TypeOK
  BY CurveAssumption DEF Init, TypeOK, Shares
<1>2. SearchInv
  BY CurveAssumption, CallAssumption DEF Init, SearchInv, Shares
<1>3. SmallestAffordable
  BY CallAssumption DEF Init, SmallestAffordable, Suitable, Fits
<1> QED
  BY <1>1, <1>2, <1>3 DEF IInv

LEMMA MidBetween ==
    ASSUME TypeOK, lo < hi
    PROVE  Mid \in Shares /\ lo <= Mid /\ Mid < hi /\ Mid + 1 \in Shares
<1>1. lo \in Nat /\ hi \in Nat /\ 1 <= lo /\ hi <= CurveGpus /\ CurveGpus \in Nat
  BY CurveAssumption DEF TypeOK, Shares
<1> QED
  BY <1>1 DEF Mid, Shares

LEMMA HalvePreserves ==
    ASSUME IInv, Halve PROVE IInv'
<1> USE DEF IInv
<1>0. /\ curve \in Curves /\ iters \in Nat /\ deadline \in Nat
      /\ lo \in Shares /\ hi \in Shares /\ lo < hi
      /\ UNCHANGED args /\ pc = "search" /\ pc' = "search" /\ gpus' = gpus /\ x' = x
  BY CallAssumption DEF TypeOK, Halve, args
<1>1. Mid \in Shares /\ lo <= Mid /\ Mid < hi /\ Mid + 1 \in Shares
  BY <1>0, MidBetween
<1>2. TypeOK'
  BY <1>0, <1>1 DEF TypeOK, Halve, args
<1>3. SmallestAffordable'
  BY <1>0 DEF SmallestAffordable
<1>4. SearchInv'
  <2>1. CASE Meets(curve, Mid, iters, deadline)
    <3>1. hi' = Mid /\ lo' = lo
      BY <2>1 DEF Halve
    <3> QED
      BY <3>1, <2>1, <1>0, <1>1 DEF SearchInv, args, Meets
  <2>2. CASE ~Meets(curve, Mid, iters, deadline)
    <3>1. lo' = Mid + 1 /\ hi' = hi
      BY <2>2 DEF Halve
    <3>2. \A s \in Shares : s < Mid + 1 => ~Meets(curve, s, iters, deadline)
      <4> SUFFICES ASSUME NEW s \in Shares, s < Mid + 1, Meets(curve, s, iters, deadline)
                   PROVE FALSE
        OBVIOUS
      <4>1. s <= Mid
        BY <1>1 DEF Shares
      <4> QED
        BY <4>1, <1>0, <1>1, <2>2, MeetsUpwards
    <3>3. lo' <= hi'
      BY <3>1, <1>0, <1>1 DEF Shares
    <3> QED
      BY <3>1, <3>2, <3>3, <1>0 DEF SearchInv, args, Meets
  <2> QED
    BY <2>1, <2>2
<1> QED
  BY <1>2, <1>3, <1>4

LEMMA FoundPreserves ==
    ASSUME IInv, Found PROVE IInv'
<1> USE DEF IInv
<1>0. /\ curve \in Curves /\ iters \in Nat /\ deadline \in Nat
      /\ lo \in Shares /\ hi = lo /\ CurveGpus \in Nat
      /\ UNCHANGED <<args, lo, hi, gpus>> /\ pc = "search" /\ gpus = 0
      /\ iters > 0 /\ deadline > 0
      /\ \A s \in Shares : s < lo => ~Meets(curve, s, iters, deadline)
  BY CallAssumption, CurveAssumption DEF TypeOK, Found, args, SearchInv
<1>1. CASE Meets(curve, lo, iters, deadline)
  <2>1. x' = lo /\ pc' = "walk"
    BY <1>1 DEF Found
  <2>2. IsShare(curve, lo, iters, deadline)
    BY <1>0, <1>1 DEF IsShare, Shares
  <2>3. TypeOK'
    BY <1>0, <2>1 DEF TypeOK, args, Shares
  <2>4. SearchInv'
    BY <1>0, <2>1, <2>2 DEF SearchInv, args, Suitable, Fits, IsShare, Meets, Shares
  <2> QED
    BY <2>1, <2>3, <2>4 DEF SmallestAffordable
<1>2. CASE ~Meets(curve, lo, iters, deadline)
  <2>1. x' = x /\ pc' = "done"
    BY <1>2 DEF Found
  <2>2. lo = CurveGpus
    BY <1>0, <1>2 DEF SearchInv, Shares
  <2>3. \A s \in Shares : ~Meets(curve, s, iters, deadline)
    BY <1>0, <1>2, <2>2 DEF Shares
  <2>4. TypeOK'
    BY <1>0, <2>1 DEF TypeOK, args
  <2>5. SearchInv'
    BY <1>0, <2>1 DEF SearchInv
  <2>6. SmallestAffordable'
    BY <1>0, <2>1, <2>3 DEF SmallestAffordable, Suitable, Fits, args, Meets
  <2> QED
    BY <2>4, <2>5, <2>6
<1> QED
  BY <1>1, <1>2

LEMMA WalkPreserves ==
    ASSUME IInv, SkipShare \/ Admit \/ Drop PROVE IInv'
<1> USE DEF IInv
<1>0. /\ lo \in Shares /\ hi \in Shares /\ CurveGpus \in Nat
      /\ x \in Nat /\ x >= 1 /\ lo <= x
      /\ UNCHANGED <<args, lo, hi>> /\ pc = "walk" /\ gpus = 0
      /\ iters > 0 /\ deadline > 0
      /\ IsShare(curve, lo, iters, deadline)
      /\ \A s \in Shares : s < x => ~Suitable(s)
      /\ curve \in Curves /\ iters \in Nat /\ deadline \in Nat
  BY CurveAssumption, CallAssumption DEF TypeOK, SkipShare, Admit, Drop, args, SearchInv, Shares
<1>a. \A s : Suitable(s)' <=> Suitable(s)
  BY <1>0 DEF Suitable, Fits, args, Meets
<1>1. CASE SkipShare
  <2>1. x' = x + 1 /\ pc' = "walk" /\ gpus' = 0 /\ x \in Shares /\ ~Suitable(x)
    BY <1>0, <1>1 DEF SkipShare, Suitable, Fits, Shares
  <2>2. TypeOK'
    BY <1>0, <2>1 DEF TypeOK, args, Shares
  <2>3. \A s \in Shares : s < x + 1 => ~Suitable(s)'
    BY <1>0, <1>a, <2>1 DEF Shares
  <2>4. SearchInv'
    BY <1>0, <2>1, <2>3 DEF SearchInv, args, IsShare, Meets, Shares
  <2> QED
    BY <2>1, <2>2, <2>4 DEF SmallestAffordable
<1>2. CASE Admit
  <2>1. gpus' = x /\ pc' = "done" /\ x' = x /\ x \in Shares /\ Fits(x)
    BY <1>0, <1>2 DEF Admit, Shares
  <2>2. Suitable(x)
    BY <1>0, <2>1 DEF Suitable
  <2>3. TypeOK'
    BY <1>0, <2>1 DEF TypeOK, args, Shares
  <2>4. SearchInv'
    BY <1>0, <2>1 DEF SearchInv
  <2>5. \A s \in Shares : Suitable(s)' => x <= s
    BY <1>0, <1>a DEF Shares
  <2>6. SmallestAffordable'
    BY <1>a, <2>1, <2>2, <2>5, <1>0 DEF SmallestAffordable
  <2> QED
    BY <2>3, <2>4, <2>6
<1>3. CASE Drop
  <2>1. gpus' = 0 /\ pc' = "done" /\ x' = x /\ x > CurveGpus
    BY <1>0, <1>3 DEF Drop
  <2>2. TypeOK'
    BY <1>0, <2>1 DEF TypeOK, args
  <2>3. SearchInv'
    BY <1>0, <2>1 DEF SearchInv
  <2>4. SmallestAffordable'
    BY <1>0, <1>a, <2>1 DEF SmallestAffordable, Shares
  <2> QED
    BY <2>2, <2>3, <2>4
<1> QED
  BY <1>1, <1>2, <1>3

\* Every state of every call of mss.py satisfies the search's invariant: that of
\* an admission, and trivially that of an allocation.
THEOREM SearchInvariance == SharingSpec => []IInv
<1>0. SharingInit => IInv
  <2> SUFFICES ASSUME NoAdmission PROVE IInv
    BY InitEstablishes DEF SharingInit
  <2>1. CurveGpus \in Nat \ {0} /\ MaxRate \in Nat /\ MaxIterations \in Nat /\ MaxDeadline \in Nat
    BY CurveAssumption, CallAssumption
  <2>2. TypeOK
    BY <2>1 DEF NoAdmission, TypeOK, Curves, Shares
  <2>3. SearchInv
    BY <2>1 DEF NoAdmission, SearchInv
  <2>4. SmallestAffordable
    BY DEF NoAdmission, SmallestAffordable, Suitable
  <2> QED
    BY <2>2, <2>3, <2>4 DEF IInv
<1>1. ASSUME IInv, UNCHANGED vars PROVE IInv'
  <2>1. /\ UNCHANGED <<curve, iters, deadline, affordable>>
        /\ UNCHANGED <<pc, lo, hi, x, gpus>>
    BY <1>1 DEF vars
  <2>2. TypeOK'
    BY <1>1, <2>1 DEF IInv, TypeOK
  <2>3. SearchInv'
    BY <1>1, <2>1 DEF IInv, SearchInv, IsShare, Suitable, Fits, Meets
  <2>4. SmallestAffordable'
    BY <1>1, <2>1 DEF IInv, SmallestAffordable, Suitable, Fits, Meets
  <2> QED
    BY <2>2, <2>3, <2>4 DEF IInv
<1>2. IInv /\ [Next]_vars => IInv'
  BY <1>1, HalvePreserves, FoundPreserves, WalkPreserves DEF Next
<1>3. [SharingNext]_<<vars, greedyVars>> => [Next]_vars
  BY DEF SharingNext
<1> QED
  BY <1>0, <1>2, <1>3, PTL DEF SharingSpec

\* The binary search finds the minimum satisfactory share on every
\* non-decreasing curve.
THEOREM SearchCorrect == SharingSpec => []SearchFindsMSS
<1>1. IInv => SearchFindsMSS
  <2> SUFFICES ASSUME IInv, pc = "walk" PROVE lo = MSS(curve, iters, deadline)
    BY DEF SearchFindsMSS
  <2>1. /\ curve \in Curves /\ iters \in Nat /\ deadline \in Nat
        /\ iters > 0 /\ deadline > 0 /\ lo \in Shares
        /\ IsShare(curve, lo, iters, deadline)
    BY CallAssumption DEF IInv, TypeOK, SearchInv
  <2> QED
    BY <2>1, ShareIsMSS
<1> QED
  BY <1>1, SearchInvariance, PTL

\* A job is admitted exactly when some share meets its deadline within its
\* budgets, on the smallest such share.
THEOREM AdmissionCorrect == SharingSpec => []SmallestAffordable
<1>1. IInv => SmallestAffordable
  BY DEF IInv
<1> QED
  BY <1>1, SearchInvariance, PTL
-----------------------------------------------------------------------------
(* Unlocked readers of a job, for any writer that keeps the lock, and so    *)
(* for the ticks of the loop.                                               *)

\* The two orders, field by field.
LEMMA Orders ==
    /\ WriteOrder[1] = "allocated_gpus" /\ WriteOrder[2] = "parallelism"
    /\ WriteOrder[3] = "state" /\ WriteOrder[4] = "last_decision_reason"
    /\ ReadOrder[1] = "state" /\ ReadOrder[2] = "allocated_gpus"
    /\ ReadOrder[3] = "parallelism" /\ ReadOrder[4] = "last_decision_reason"
BY DEF WriteOrder, ReadOrder

\* The invariant with its bounded quantifiers written out.
Flat ==
    /\ job["allocated_gpus"] = updates
    /\ job["parallelism"] = IF writing \in {0, 2, 3} THEN updates ELSE updates - 1
    /\ job["state"] = IF writing \in {0, 3} THEN updates ELSE updates - 1
    /\ job["last_decision_reason"] = IF writing = 0 THEN updates ELSE updates - 1
    /\ writing \in 0 .. 3
    /\ writing # 0 => updates > 0 /\ since <= updates - 1
    /\ writing = 0 => since <= updates
    /\ reading >= 1 =>
         /\ since <= response["state"] /\ response["state"] <= job["state"]
         /\ response["state"] <= job["allocated_gpus"]
         /\ response["state"] <= job["parallelism"]
    /\ reading >= 2 =>
         /\ since <= response["allocated_gpus"]
         /\ response["allocated_gpus"] <= job["allocated_gpus"]
         /\ response["state"] <= response["allocated_gpus"]
    /\ reading >= 3 =>
         /\ since <= response["parallelism"]
         /\ response["parallelism"] <= job["parallelism"]
         /\ response["state"] <= response["parallelism"]
    /\ reading >= 4 =>
         /\ since <= response["last_decision_reason"]
         /\ response["last_decision_reason"] <= job["last_decision_reason"]

LEMMA FlatIsReadsInv ==
    ASSUME ReadsTypeOK PROVE Flat <=> JobInv /\ RequestInv
<1>0. /\ updates \in Nat /\ since \in Nat /\ writing \in 0 .. 4 /\ reading \in 0 .. 4
      /\ \A f \in Fields : job[f] \in Nat /\ response[f] \in Nat
  BY UpdatesAssumption DEF ReadsTypeOK, Versions
<1>1. ASSUME Flat PROVE JobInv /\ RequestInv
  <2>1. JobInv
    <3>1. \A i \in 1 .. 4 : i = 1 \/ i = 2 \/ i = 3 \/ i = 4
      OBVIOUS
    <3> QED
      BY <1>0, <1>1, <3>1, Orders DEF Flat, JobInv
  <2>2. RequestInv
    <3>1. \A i \in 1 .. 4 : i = 1 \/ i = 2 \/ i = 3 \/ i = 4
      OBVIOUS
    <3> QED
      BY <1>0, <1>1, <3>1, Orders DEF Flat, RequestInv
  <2> QED
    BY <2>1, <2>2
<1>2. ASSUME JobInv, RequestInv PROVE Flat
  <2>1. /\ job["allocated_gpus"] = IF writing = 0 \/ 1 <= writing THEN updates ELSE updates - 1
        /\ job["parallelism"] = IF writing = 0 \/ 2 <= writing THEN updates ELSE updates - 1
        /\ job["state"] = IF writing = 0 \/ 3 <= writing THEN updates ELSE updates - 1
        /\ job["last_decision_reason"] = IF writing = 0 \/ 4 <= writing THEN updates ELSE updates - 1
        /\ writing # 4 /\ (writing # 0 => updates > 0)
    BY <1>2, Orders DEF JobInv
  <2>2. /\ 1 <= reading => since <= response["state"] /\ response["state"] <= job["state"]
        /\ 2 <= reading => since <= response["allocated_gpus"] /\ response["allocated_gpus"] <= job["allocated_gpus"]
        /\ 3 <= reading => since <= response["parallelism"] /\ response["parallelism"] <= job["parallelism"]
        /\ 4 <= reading => since <= response["last_decision_reason"] /\ response["last_decision_reason"] <= job["last_decision_reason"]
    BY <1>2, Orders DEF RequestInv
  <2>3. /\ reading >= 1 => response["state"] <= job["allocated_gpus"] /\ response["state"] <= job["parallelism"]
        /\ reading >= 2 => response["state"] <= response["allocated_gpus"]
        /\ reading >= 3 => response["state"] <= response["parallelism"]
        /\ writing = 0 => since <= updates
        /\ writing # 0 => since <= updates - 1
    BY <1>2 DEF RequestInv
  <2> QED
    BY <1>0, <2>1, <2>2, <2>3 DEF Flat
<1> QED
  BY <1>1, <1>2

LEMMA TypePreserved ==
    ASSUME ReadsTypeOK, writing # 4, [ReadsNext]_readsVars PROVE ReadsTypeOK'
<1> USE UpdatesAssumption DEF ReadsTypeOK, Versions, Fields
<1>1. CASE BeginUpdate
  BY <1>1, Orders DEF BeginUpdate
<1>2. CASE SetField
  <2>1. writing \in {1, 2, 3}
    BY <1>2 DEF SetField
  <2>2. WriteOrder[writing + 1] \in Fields
    BY <2>1, Orders
  <2> QED
    BY <1>2, <2>1, <2>2 DEF SetField
<1>3. CASE Request
  BY <1>3 DEF Request, Blank
<1>4. CASE ReadField
  <2>1. reading \in {0, 1, 2, 3}
    BY <1>4 DEF ReadField
  <2>2. ReadOrder[reading + 1] \in Fields
    BY <2>1, Orders
  <2> QED
    BY <1>4, <2>1, <2>2 DEF ReadField
<1>5. CASE UNCHANGED readsVars
  BY <1>5 DEF readsVars
<1> QED
  BY <1>1, <1>2, <1>3, <1>4, <1>5 DEF ReadsNext

LEMMA FlatPreserved ==
    ASSUME ReadsTypeOK, Flat, [ReadsNext]_readsVars PROVE Flat'
<1>0. /\ updates \in Nat /\ since \in Nat /\ writing \in 0 .. 3 /\ reading \in 0 .. 4
      /\ job \in [Fields -> Nat] /\ response \in [Fields -> Nat]
  BY UpdatesAssumption DEF ReadsTypeOK, Versions, Flat
<1> USE <1>0 DEF Flat, Fields
<1>1. CASE BeginUpdate
  BY <1>1, Orders DEF BeginUpdate
<1>2. CASE SetField
  <2>1. CASE writing = 1
    BY <1>2, <2>1, Orders DEF SetField
  <2>2. CASE writing = 2
    BY <1>2, <2>2, Orders DEF SetField
  <2>3. CASE writing = 3
    BY <1>2, <2>3, Orders DEF SetField
  <2> QED
    BY <1>2, <2>1, <2>2, <2>3 DEF SetField
<1>3. CASE Request
  BY <1>3 DEF Request, Blank
<1>4. CASE ReadField
  <2>1. CASE reading = 0
    BY <1>4, <2>1, Orders DEF ReadField
  <2>2. CASE reading = 1
    BY <1>4, <2>2, Orders DEF ReadField
  <2>3. CASE reading = 2
    BY <1>4, <2>3, Orders DEF ReadField
  <2>4. CASE reading = 3
    BY <1>4, <2>4, Orders DEF ReadField
  <2> QED
    BY <1>4, <2>1, <2>2, <2>3, <2>4 DEF ReadField
<1>5. CASE UNCHANGED readsVars
  BY <1>5 DEF readsVars
<1> QED
  BY <1>1, <1>2, <1>3, <1>4, <1>5 DEF ReadsNext

\* Every interleaving of updates and requests satisfies the invariant.
THEOREM StoreInvariance == ReadsSpec => []ReadsInv
<1>1. ReadsInit => ReadsTypeOK /\ Flat
  BY UpdatesAssumption DEF ReadsInit, ReadsTypeOK, Flat, Versions, Blank, Fields
<1>2. ReadsTypeOK /\ Flat /\ [ReadsNext]_readsVars => (ReadsTypeOK /\ Flat)'
  <2> SUFFICES ASSUME ReadsTypeOK, Flat, [ReadsNext]_readsVars PROVE ReadsTypeOK' /\ Flat'
    OBVIOUS
  <2>1. writing # 4
    BY DEF Flat
  <2> QED
    BY <2>1, TypePreserved, FlatPreserved
<1>3. ReadsTypeOK /\ Flat => ReadsInv
  BY FlatIsReadsInv DEF ReadsInv
<1> QED
  BY <1>1, <1>2, <1>3, PTL DEF ReadsSpec

\* A response is at least as recent as its request and never reports a state
\* newer than the allocation beside it, whoever calls update under the lock.
THEOREM StateFollowsAllocation == ReadsSpec => []ResponsesInOrder
<1>1. ReadsInv => ResponsesInOrder
  BY FlatIsReadsInv DEF ReadsInv, Flat, ResponsesInOrder, Fields
<1> QED
  BY <1>1, StoreInvariance, PTL

\* Every step of the service is, for the job's fields and the request under
\* way, a step of one update and one reader, or none.
LEMMA ServedStep == [ServedNext]_servedVars => [ReadsNext]_readsVars
<1> SUFFICES ASSUME [ServedNext]_servedVars PROVE [ReadsNext]_readsVars
  OBVIOUS
<1>1. CASE \E mss \in 0 .. MaxGpus : Submit(mss)
  BY <1>1 DEF Submit, readsVars
<1>2. CASE \E intensity \in Readings : Decide(intensity)
  BY <1>2 DEF Decide, ReadsNext
<1>3. CASE SetChosen
  BY <1>3 DEF SetChosen, ReadsNext
<1>4. CASE Scale
  BY <1>4 DEF Scale, readsVars
<1>5. CASE GetJob
  BY <1>5 DEF GetJob, ReadsNext
<1>6. CASE ReadJob
  BY <1>6 DEF ReadJob, ReadsNext
<1>7. CASE UNCHANGED servedVars
  BY <1>7 DEF servedVars, readsVars
<1> QED
  BY <1>1, <1>2, <1>3, <1>4, <1>5, <1>6, <1>7 DEF ServedNext

\* The service of api.py, with admission, the ticks of the baseline loop and
\* its pool: its responses are in that order for every policy, planner model
\* and number of GPUs.
THEOREM ServedInOrder == ServedSpec => []ResponsesInOrder
<1>1. ServedInit => ReadsInit
  BY DEF ServedInit
<1>2. ServedSpec => ReadsSpec
  BY <1>1, ServedStep, PTL DEF ServedSpec, ReadsSpec
<1> QED
  BY <1>2, StateFollowsAllocation, PTL

-----------------------------------------------------------------------------
(* The planner, for every runtime model whose bubbles together cost at most *)
(* as much as its computation, and any number of GPUs.                      *)

Fraction == [num : Nat, den : Nat \ {0}]

\* A product grows with its factor, and shrinks with it.
LEMMA Scaled ==
    ASSUME NEW a \in Nat, NEW b \in Nat, NEW c \in Nat, a <= b
    PROVE  a * c <= b * c /\ c * a <= c * b
OBVIOUS

LEMMA Unscaled ==
    ASSUME NEW a \in Nat, NEW b \in Nat, NEW c \in Nat \ {0}, a * c <= b * c
    PROVE  a <= b
OBVIOUS

\* Products of natural numbers are natural numbers.
LEMMA NatProduct ==
    ASSUME NEW a \in Nat, NEW b \in Nat
    PROVE  a * b \in Nat
OBVIOUS

\* Quotient and remainder.
LEMMA Divided ==
    ASSUME NEW a \in Nat, NEW b \in Nat \ {0}
    PROVE  a \div b \in Nat /\ a = b * (a \div b) + (a % b) /\ a % b \in 0 .. b - 1
OBVIOUS

\* Fractions compared by cross-multiplication are totally ordered.
LEMMA FracOrder ==
    ASSUME NEW p \in Fraction, NEW q \in Fraction, NEW r \in Fraction,
           ~Less(p, q), ~Less(q, r)
    PROVE  ~Less(p, r)
<1> DEFINE pn == p.num  pd == p.den  qn == q.num  qd == q.den  rn == r.num  rd == r.den
<1>1. /\ pn \in Nat /\ pd \in Nat \ {0} /\ qn \in Nat /\ qd \in Nat \ {0}
      /\ rn \in Nat /\ rd \in Nat \ {0}
  BY DEF Fraction
<1>2. qn * pd <= pn * qd /\ rn * qd <= qn * rd
  BY <1>1 DEF Less
<1>3. SUFFICES rn * pd <= pn * rd
  BY <1>1 DEF Less
<1> HIDE DEF pn, pd, qn, qd, rn, rd
<1>4. /\ qn * pd \in Nat /\ pn * qd \in Nat /\ rn * qd \in Nat /\ qn * rd \in Nat
      /\ rn * pd \in Nat /\ pn * rd \in Nat
  BY <1>1, NatProduct
<1>5. (qn * pd) * rd <= (pn * qd) * rd
  BY <1>1, <1>2, <1>4, Scaled
<1>6. (rn * qd) * pd <= (qn * rd) * pd
  BY <1>1, <1>2, <1>4, Scaled
<1>7. (rn * pd) * qd <= (pn * rd) * qd
  BY <1>1, <1>5, <1>6
<1> QED
  BY <1>1, <1>4, <1>7, Unscaled

LEMMA FracStrict ==
    ASSUME NEW p \in Fraction, NEW q \in Fraction, Less(p, q)
    PROVE  ~Less(q, p)
BY DEF Less, Fraction

LEMMA FracMixed ==
    ASSUME NEW p \in Fraction, NEW q \in Fraction, NEW r \in Fraction,
           Less(p, q), ~Less(r, q)
    PROVE  Less(p, r)
<1> SUFFICES ASSUME ~Less(p, r) PROVE FALSE
  OBVIOUS
<1>1. ~Less(p, q)
  BY FracOrder
<1> QED
  BY <1>1

\* A runtime is a fraction.
LEMMA RuntimeFraction ==
    ASSUME NEW m \in Model, NEW d \in Nat \ {0}, NEW k \in Nat \ {0}
    PROVE  Runtime(m, d, k) \in Fraction
<1> DEFINE samples == IF m.batch = 0 THEN m.micro * d ELSE m.batch
<1>1. m.work \in Nat /\ m.bubble \in Nat /\ m.link \in Nat /\ samples \in Nat
  BY NatProduct DEF Model
<1> HIDE DEF samples
<1>2. m.work * samples \in Nat /\ 100 + m.bubble * (k - 1) \in Nat
  BY <1>1, NatProduct
<1>3. 100 * m.link * (d - 1) * d \in Nat
  BY <1>1, NatProduct
<1>4. m.work * samples * (100 + m.bubble * (k - 1)) \in Nat
  BY <1>2, NatProduct
<1>5. 100 * d * k \in Nat \ {0}
  OBVIOUS
<1> DEFINE n == m.work * samples * (100 + m.bubble * (k - 1)) + 100 * m.link * (d - 1) * d
           e == 100 * d * k
<1>6. n \in Nat /\ e \in Nat \ {0}
  BY <1>3, <1>4, <1>5
<1>7. Runtime(m, d, k) = [num |-> n, den |-> e]
  BY DEF Runtime, samples
<1> HIDE DEF n, e
<1> QED
  BY <1>6, <1>7 DEF Fraction

\* What the planner's loop looks for: the first number of stages with the least
\* runtime.
FirstBest(m, width, k) ==
    /\ k \in 1 .. width
    /\ \A i \in 1 .. width : ~Less(Filled(m, width, i), Filled(m, width, k))
    /\ \A i \in 1 .. k - 1 : Less(Filled(m, width, k), Filled(m, width, i))

\* The replicas that fill the GPUs left by k stages.
LEMMA FilledFraction ==
    ASSUME NEW m \in Model, NEW width \in Nat, NEW k \in 1 .. width
    PROVE  /\ width \div k \in 1 .. width /\ (width \div k) * k <= width
           /\ Filled(m, width, k) \in Fraction
<1> DEFINE d == width \div k
<1>1. d \in Nat \ {0} /\ d * k <= width
  OBVIOUS
<1> HIDE DEF d
<1>2. d <= width
  <2>1. d * 1 <= d * k
    BY <1>1
  <2> QED
    BY <1>1, <2>1
<1> QED
  BY <1>1, <1>2, RuntimeFraction DEF Filled, d

\* The recursion of select_hybrid_strategy finds it: after i stages, best[i]
\* is the first best of those tried.
LEMMA SelectBest ==
    ASSUME NEW m \in Model, NEW width \in Nat \ {0}
    PROVE  \E k : Select(m, width) = <<width \div k, k>> /\ FirstBest(m, width, k)
<1> DEFINE Time(i) == Filled(m, width, i)
           Rule(f) == [i \in 1 .. width |-> IF i = 1 \/ Less(Time(i), Time(f[i - 1])) THEN i ELSE f[i - 1]]
           best == CHOOSE f : f = Rule(f)
           Keep(i, b) == IF i \in 1 .. width /\ Less(Time(i), Time(b)) THEN i ELSE b
           step == [e \in Nat \X (1 .. width) |-> Keep(e[1], e[2])]
<1>1. Select(m, width) = <<width \div best[width], best[width]>>
  BY Zenon DEF Select
<1>2. best = Rule(best) /\ best \in [1 .. width -> 1 .. width]
  <2>1. 1 \in 1 .. width
    OBVIOUS
  <2>2. step \in [Nat \X (1 .. width) -> 1 .. width]
    <3>1. \A i \in Nat, b \in 1 .. width : Keep(i, b) \in 1 .. width
      OBVIOUS
    <3> HIDE DEF Keep
    <3> QED
      BY <3>1
  <2>3. \A i \in Nat, b \in 1 .. width : step[<<i, b>>] = Keep(i, b)
    <3> HIDE DEF Keep
    <3> QED
      OBVIOUS
  <2> HIDE DEF step
  <2>4. PICK f \in [1 .. width -> 1 .. width] :
           Follows(f, width, 1, step)
    <3>1. width \in Nat
      OBVIOUS
    <3> QED
      BY <2>1, <2>2, <3>1, Recursion, Zenon
  <2>5. ASSUME NEW i \in 1 .. width
        PROVE  f[i] = IF i = 1 \/ Less(Time(i), Time(f[i - 1])) THEN i ELSE f[i - 1]
    <3>1. f[i] = IF i = 1 THEN 1 ELSE step[<<i, f[i - 1]>>]
      BY <2>4 DEF Follows
    <3>2. CASE i = 1
      BY <3>1, <3>2
    <3>3. CASE i # 1
      <4>1. i - 1 \in 1 .. width /\ f[i - 1] \in 1 .. width
        BY <2>4, <3>3
      <4>2. i \in Nat /\ f[i] = step[<<i, f[i - 1]>>]
        BY <3>1, <3>3
      <4>3. f[i] = Keep(i, f[i - 1])
        <5> HIDE DEF Keep
        <5> QED
          BY <2>3, <4>1, <4>2, Zenon
      <4> QED
        BY <3>3, <4>3, Zenon
    <3> QED
      BY <3>2, <3>3
  <2> HIDE DEF Time
  <2>6. f = Rule(f)
    BY <2>5
  <2>7. best = Rule(best)
    BY <2>6, Zenon
  <2> HIDE DEF best
  <2>8. ASSUME NEW i \in 1 .. width
        PROVE  best[i] = IF i = 1 \/ Less(Time(i), Time(best[i - 1])) THEN i ELSE best[i - 1]
    BY <2>7
  <2> DEFINE T == {i \in 1 .. width : best[i] \in 1 .. width}
  <2>9. 1 .. width \subseteq T
    <3>1. 1 \in T
      BY <2>8
    <3>2. ASSUME NEW i \in 1 .. width - 1, i \in T PROVE i + 1 \in T
      <4>1. i + 1 \in 1 .. width /\ (i + 1) - 1 = i
        OBVIOUS
      <4>2. best[i + 1] = i + 1 \/ best[i + 1] = best[i]
        BY <2>8, <4>1
      <4> QED
        BY <3>2, <4>1, <4>2
    <3> HIDE DEF T
    <3> QED
      BY <3>1, <3>2, InductUpTo
  <2> QED
    BY <2>7, <2>9
<1> HIDE DEF best
<1>3. \A i \in 1 .. width : Time(i) \in Fraction
  BY FilledFraction
<1> HIDE DEF Time
<1>4. \A i \in 1 .. width :
         best[i] = IF i = 1 \/ Less(Time(i), Time(best[i - 1])) THEN i ELSE best[i - 1]
  BY <1>2
<1> DEFINE Good(i, b) ==
             /\ b \in 1 .. i
             /\ \A j \in 1 .. i : ~Less(Time(j), Time(b))
             /\ \A j \in 1 .. b - 1 : Less(Time(b), Time(j))
           T == {i \in 1 .. width : Good(i, best[i])}
<1>5. \A p \in Fraction : ~Less(p, p)
  BY DEF Less, Fraction
<1>6. Good(1, best[1])
  <2>1. best[1] = 1
    BY <1>4
  <2> QED
    BY <1>3, <1>5, <2>1
<1>7. ASSUME NEW i \in 1 .. width - 1, Good(i, best[i]) PROVE Good(i + 1, best[i + 1])
  <2> DEFINE b == best[i]
  <2>1. i + 1 \in 1 .. width /\ b \in 1 .. width /\ b \in 1 .. i
    BY <1>2, <1>7
  <2>2. best[i + 1] = IF Less(Time(i + 1), Time(b)) THEN i + 1 ELSE b
    <3>1. (i + 1) - 1 = i /\ i + 1 # 1
      BY <2>1
    <3> QED
      BY <1>4, <2>1, <3>1
  <2> HIDE DEF b
  <2>3. \A j \in 1 .. i : ~Less(Time(j), Time(b))
    BY <1>7 DEF b
  <2>4. \A j \in 1 .. b - 1 : Less(Time(b), Time(j))
    BY <1>7 DEF b
  <2>5. \A j \in 1 .. i + 1 : j \in 1 .. i \/ j = i + 1
    OBVIOUS
  <2>6. CASE Less(Time(i + 1), Time(b))
    <3>1. \A j \in 1 .. i : Less(Time(i + 1), Time(j))
      <4> TAKE j \in 1 .. i
      <4>1. j \in 1 .. width
        OBVIOUS
      <4> QED
        BY <1>3, <2>1, <2>3, <2>6, <4>1, FracMixed
    <3>2. \A j \in 1 .. i : ~Less(Time(j), Time(i + 1))
      <4> TAKE j \in 1 .. i
      <4>1. j \in 1 .. width
        OBVIOUS
      <4> QED
        BY <1>3, <2>1, <3>1, <4>1, FracStrict
    <3>3. best[i + 1] = i + 1 /\ 1 .. (i + 1) - 1 = 1 .. i
      BY <2>2, <2>6
    <3> QED
      BY <1>3, <1>5, <2>1, <2>5, <3>1, <3>2, <3>3
  <2>7. CASE ~Less(Time(i + 1), Time(b))
    BY <2>1, <2>2, <2>3, <2>4, <2>5, <2>7
  <2> QED
    BY <2>6, <2>7
<1>8. width \in T
  <2>1. 1 \in T
    BY <1>6
  <2>2. \A i \in 1 .. width - 1 : i \in T => i + 1 \in T
    BY <1>7
  <2> HIDE DEF T
  <2>3. 1 .. width \subseteq T
    BY <2>1, <2>2, InductUpTo
  <2> QED
    BY <2>3
<1>9. FirstBest(m, width, best[width])
  BY <1>8 DEF FirstBest, Time
<1> QED
  BY <1>1, <1>9

\* Whatever (d, k) replicas and stages fit, some filled strategy is as fast.
\* With the batch of a replica fixed: one replica of as many stages as GPUs.
LEMMA FixedReplica ==
    ASSUME NEW m \in Model, m.batch = 0, NEW width \in Nat \ {0}, m.bubble <= 100,
           NEW d \in Nat \ {0}, NEW k \in 1 .. width
    PROVE  /\ ~Less(Runtime(m, d, k), Filled(m, width, width))
           /\ m.bubble < 100 /\ k < width => Less(Filled(m, width, width), Runtime(m, d, k))
<1> DEFINE w == m.work * m.micro
           b == m.bubble
           l == m.link
           r == w * (100 - b + b * k)
           e == 100 * (l * (d - 1))
           f == w * (100 - b + b * width)
<1>1. w \in Nat \ {0} /\ b \in Nat /\ l \in Nat /\ b <= 100
  <2>1. m.work \in Nat \ {0} /\ m.micro \in Nat \ {0}
    BY DEF Model
  <2> QED
    BY <2>1 DEF Model
<1>2. width \div width = 1
  OBVIOUS
<1>3. Runtime(m, d, k) = [num |-> (r + e) * d, den |-> 100 * d * k]
  <2>1. m.work \in Nat /\ m.micro \in Nat
    BY DEF Model
  <2>2. m.work * (m.micro * d) * (100 + b * (k - 1)) + 100 * l * (d - 1) * d = (r + e) * d
    <3> HIDE DEF b, l
    <3> QED
      BY <1>1, <2>1
  <2> QED
    BY <2>2 DEF Runtime
<1>4. Filled(m, width, width) = [num |-> f, den |-> 100 * width]
  <2>1. m.work \in Nat /\ m.micro \in Nat
    BY DEF Model
  <2>2. m.work * (m.micro * 1) * (100 + b * (width - 1)) + 100 * l * (1 - 1) * 1 = f
    <3> HIDE DEF b, l
    <3> QED
      BY <1>1, <2>1
  <2>3. 100 * 1 * width = 100 * width
    OBVIOUS
  <2> QED
    BY <1>2, <2>2, <2>3 DEF Runtime, Filled
<1>5. /\ f * k <= r * width
      /\ b < 100 /\ k < width => f * k < r * width
  <2> HIDE DEF w, b, l
  <2>1. r * width - f * k = (w * (100 - b)) * (width - k)
    BY <1>1
  <2>2. w * (100 - b) \in Nat /\ (b < 100 => w * (100 - b) \in Nat \ {0})
    BY <1>1
  <2>3. width - k \in Nat /\ (k < width => width - k \in Nat \ {0})
    OBVIOUS
  <2> DEFINE u == w * (100 - b)
             v == width - k
  <2>4. u * v \in Nat /\ (b < 100 /\ k < width => u * v > 0)
    <3> HIDE DEF u, v
    <3>1. u \in Nat /\ v \in Nat /\ (b < 100 => u > 0) /\ (k < width => v > 0)
      BY <2>2, <2>3 DEF u, v
    <3> QED
      BY <3>1
  <2>5. f * k \in Int /\ r * width \in Int
    BY <1>1
  <2> HIDE DEF f, r
  <2> QED
    BY <2>1, <2>4, <2>5
<1>6. /\ f * k \in Nat /\ r * width \in Nat /\ e * width \in Nat /\ f \in Nat /\ r \in Nat /\ e \in Nat
  <2>1. 100 - b + b * k \in Nat /\ 100 - b + b * width \in Nat /\ l * (d - 1) \in Nat
    BY <1>1, NatProduct
  <2>2. f \in Nat /\ r \in Nat /\ e \in Nat
    BY <1>1, <2>1, NatProduct
  <2> HIDE DEF f, r, e
  <2> QED
    BY <2>2, NatProduct
<1> HIDE DEF w, b, l, r, e, f
<1>7. /\ f * (100 * d * k) = (100 * d) * (f * k)
      /\ ((r + e) * d) * (100 * width) = (100 * d) * (r * width) + (100 * d) * (e * width)
  BY <1>6
<1> DEFINE c == 100 * d
           lower == f * k
           upper == r * width
           extra == e * width
<1>8. c \in Nat \ {0} /\ lower \in Nat /\ upper \in Nat /\ extra \in Nat
  BY <1>6
<1> HIDE DEF c, lower, upper, extra
<1>9. lower <= upper /\ (b < 100 /\ k < width => lower < upper)
  BY <1>5 DEF lower, upper
<1>10. c * lower <= c * upper + c * extra /\ (lower < upper => c * lower < c * upper + c * extra)
  BY <1>8, <1>9
<1>11. /\ ~((r + e) * d * (100 * width) < f * (100 * d * k))
       /\ b < 100 /\ k < width => f * (100 * d * k) < (r + e) * d * (100 * width)
  BY <1>7, <1>8, <1>9, <1>10 DEF c, lower, upper, extra
<1> QED
  BY <1>3, <1>4, <1>11 DEF Less, b

\* With the global batch split among the replicas: as many stages as GPUs when
\* the network costs more than the bubbles, else as many replicas as fit.
LEMMA SplitBatch ==
    ASSUME NEW m \in Model, m.batch # 0, NEW width \in Nat \ {0}, m.bubble * width <= 100,
           NEW d \in Nat \ {0}, NEW k \in 1 .. width, d * k <= width
    PROVE  \/ ~Less(Runtime(m, d, k), Filled(m, width, width))
           \/ ~Less(Runtime(m, d, k), Filled(m, width, k))
<1> DEFINE w == m.work * m.batch
           b == m.bubble
           l == 100 * m.link
           top == width \div k
           a == w * (100 - b + b * k)
           n == d * k
           Split(i, j) == [num |-> w * (100 - b + b * j) + l * (i - 1) * i, den |-> 100 * i * j]
<1>1. w \in Nat /\ b \in Nat /\ l \in Nat /\ b * width <= 100 /\ b <= 100
  <2>1. m.work \in Nat /\ m.batch \in Nat /\ m.bubble \in Nat /\ m.link \in Nat
    BY DEF Model
  <2>2. w \in Nat
    BY <2>1
  <2>3. b * 1 <= b * width
    <3> HIDE DEF b
    <3> QED
      BY <2>1, Scaled DEF b
  <2> QED
    BY <2>1, <2>2, <2>3
<1>2. \A i, j \in Nat \ {0} : Runtime(m, i, j) = Split(i, j)
  <2> TAKE i, j \in Nat \ {0}
  <2>1. 100 + b * (j - 1) = 100 - b + b * j
    <3> HIDE DEF b
    <3> QED
      BY <1>1
  <2> QED
    BY <2>1 DEF Runtime
<1>3. top \in Nat \ {0} /\ top * k <= width /\ d <= top
  <2>1. top \in Nat /\ width = k * top + (width % k) /\ width % k \in 0 .. k - 1
    <3>1. k \in Nat \ {0} /\ width \in Nat
      OBVIOUS
    <3> QED
      BY <3>1, Divided
  <2> HIDE DEF top
  <2>2. width < k * (top + 1)
    BY <2>1
  <2>3. ~(d >= top + 1)
    <3> SUFFICES ASSUME top + 1 <= d PROVE FALSE
      BY <2>1
    <3>1. (top + 1) * k <= d * k
      BY <2>1, Scaled
    <3> QED
      BY <2>1, <2>2, <3>1
  <2>4. top * k <= width
    BY <2>1
  <2> QED
    BY <2>1, <2>3, <2>4
<1>4. a \in Nat /\ n \in Nat \ {0} /\ a >= 100 * w /\ n <= width
  <2> HIDE DEF w, b
  <2>1. b * k - b = b * (k - 1) /\ b * (k - 1) \in Nat
    BY <1>1
  <2>2. a = w * 100 + w * (b * (k - 1)) /\ w * (b * (k - 1)) \in Nat
    BY <1>1, <2>1
  <2> QED
    BY <1>1, <2>2
<1> HIDE DEF Split
<1>5. Runtime(m, d, k) = [num |-> a + l * (d - 1) * d, den |-> 100 * d * k]
  <2>1. Runtime(m, d, k) = Split(d, k)
    BY <1>2
  <2> QED
    BY <2>1 DEF Split
<1>6. CASE w * b * k <= l * d
  <2> DEFINE f == w * (100 - b + b * width)
             g == w * (100 - b + b * n)
  <2>1. width \div width = 1
    OBVIOUS
  <2>2. Filled(m, width, width) = [num |-> f, den |-> 100 * width]
    <3>1. Runtime(m, 1, width) = [num |-> f + l * (1 - 1) * 1, den |-> 100 * 1 * width]
      <4>1. Runtime(m, 1, width) = Split(1, width)
        BY <1>2
      <4> QED
        BY <4>1 DEF Split
    <3>2. f + l * (1 - 1) * 1 = f /\ 100 * 1 * width = 100 * width
      <4> HIDE DEF w, b, l
      <4> QED
        BY <1>1
    <3> QED
      BY <2>1, <3>1, <3>2 DEF Filled
  <2> HIDE DEF w, b, l
  <2>3. a + l * (d - 1) * d >= g
    <3>1. (w * b * k) * (d - 1) <= (l * d) * (d - 1)
      <4>1. w * b * k \in Nat /\ l * d \in Nat /\ d - 1 \in Nat
        BY <1>1
      <4> QED
        BY <1>6, <4>1, Scaled
    <3>2. g - a = (w * b * k) * (d - 1)
      BY <1>1
    <3>3. l * (d - 1) * d = (l * d) * (d - 1)
      BY <1>1
    <3>4. g \in Int /\ (w * b * k) * (d - 1) \in Int /\ (l * d) * (d - 1) \in Int
      BY <1>1
    <3> HIDE DEF a, g
    <3> QED
      BY <1>4, <3>1, <3>2, <3>3, <3>4
  <2>4. f * n <= g * width
    <3>1. g * width - f * n = (w * (100 - b)) * (width - n)
      <4> HIDE DEF n
      <4> QED
        BY <1>1, <1>4
    <3>2. w * (100 - b) \in Nat /\ width - n \in Nat
      <4> HIDE DEF n
      <4> QED
        BY <1>1, <1>4
    <3>3. (w * (100 - b)) * (width - n) \in Nat
      BY <3>2, NatProduct
    <3>4. g * width \in Int /\ f * n \in Int
      BY <1>1, <1>4
    <3> HIDE DEF f, g, n
    <3> QED
      BY <3>1, <3>3, <3>4
  <2> DEFINE h == a + l * (d - 1) * d
  <2>5. f \in Nat /\ g \in Nat /\ h \in Nat
    <3>1. l * (d - 1) * d \in Nat
      BY <1>1
    <3>2. b * width \in Nat /\ b * n \in Nat
      <4> HIDE DEF n
      <4> QED
        BY <1>1, <1>4
    <3> HIDE DEF n
    <3> QED
      BY <1>1, <1>4, <3>1, <3>2
  <2>6. g * width <= h * width
    <3> HIDE DEF g, h, f
    <3> QED
      BY <2>3, <2>5, Scaled DEF h
  <2>7. 100 * (f * n) <= 100 * (h * width)
    <3> HIDE DEF g, h, f, n
    <3> QED
      BY <2>4, <2>5, <2>6, <1>4
  <2>8. 100 * d * k = 100 * n /\ f * (100 * n) = 100 * (f * n) /\ h * (100 * width) = 100 * (h * width)
    <3> HIDE DEF f, h
    <3> QED
      BY <2>5
  <2>9. ~(h * (100 * width) < f * (100 * d * k))
    <3> HIDE DEF f, h, n
    <3> QED
      BY <2>5, <2>7, <2>8, <1>4
  <2> QED
    BY <1>5, <2>2, <2>9 DEF Less
<1>7. CASE ~(w * b * k <= l * d)
  <2>1. Filled(m, width, k) = [num |-> a + l * (top - 1) * top, den |-> 100 * top * k]
    <3>1. Runtime(m, top, k) = Split(top, k)
      <4> HIDE DEF top
      <4> QED
        BY <1>2, <1>3
    <3> QED
      BY <3>1 DEF Filled, Split
  <2> HIDE DEF w, b, l, top
  <2>2. l * d * top <= a
    <3>1. l * d <= w * b * k /\ l * d \in Nat /\ w * b * k \in Nat
      BY <1>1, <1>7
    <3>2. (l * d) * top <= (w * b * k) * top
      BY <1>3, <3>1, Scaled
    <3>3. (w * b * k) * top = (w * b) * (top * k) /\ w * b \in Nat /\ top * k \in Nat
      BY <1>1, <1>3
    <3>4. (w * b) * (top * k) <= (w * b) * width
      BY <1>3, <3>3, Scaled
    <3>5. (w * b) * width = (b * width) * w /\ b * width \in Nat
      BY <1>1
    <3>6. (b * width) * w <= 100 * w
      BY <1>1, <3>5, Scaled
    <3>7. (w * b) * (top * k) \in Nat /\ (b * width) * w \in Nat
      BY <1>1, <3>3, <3>5
    <3> HIDE DEF a
    <3> QED
      BY <1>1, <1>3, <1>4, <3>1, <3>2, <3>3, <3>4, <3>5, <3>6, <3>7
  <2> DEFINE h == a + l * (d - 1) * d
             t == a + l * (top - 1) * top
             c == l * d * top
             v == top - d
  <2>3. t * d + v * (a - c) = h * top
    <3> HIDE DEF a
    <3> QED
      BY <1>1, <1>3, <1>4
  <2>4. c \in Nat /\ v \in Nat /\ a - c \in Nat /\ h \in Nat /\ t \in Nat
    <3>1. l * (d - 1) * d \in Nat /\ l * (top - 1) * top \in Nat /\ c \in Nat
      BY <1>1, <1>3
    <3> HIDE DEF a, c
    <3>2. a - c \in Nat
      BY <1>4, <2>2, <3>1 DEF c
    <3> QED
      BY <1>3, <1>4, <3>1, <3>2
  <2>5. v * (a - c) \in Nat
    BY <2>4, NatProduct
  <2> HIDE DEF h, t, c, v, a
  <2>6. t * d <= h * top /\ t * d \in Nat /\ h * top \in Nat
    BY <1>3, <2>3, <2>4, <2>5
  <2>7. (t * d) * (100 * k) <= (h * top) * (100 * k)
    BY <2>6, Scaled
  <2>8. t * (100 * d * k) = (t * d) * (100 * k) /\ h * (100 * top * k) = (h * top) * (100 * k)
    BY <1>3, <2>4
  <2>9. ~(h * (100 * top * k) < t * (100 * d * k))
    BY <1>3, <2>4, <2>6, <2>7, <2>8
  <2>10. Runtime(m, d, k) = [num |-> h, den |-> 100 * d * k]
    BY <1>5 DEF h
  <2>11. Filled(m, width, k) = [num |-> t, den |-> 100 * top * k]
    BY <2>1 DEF t
  <2> QED
    BY <2>9, <2>10, <2>11 DEF Less
<1> QED
  BY <1>6, <1>7

LEMMA SelectSuits ==
    ASSUME NEW m \in Model, NEW width \in Nat \ {0}, m.bubble * width <= 100
    PROVE  LET dp == Select(m, width)[1]
               mp == Select(m, width)[2]
           IN /\ mp \in 1 .. width /\ dp = width \div mp
              /\ \A d, k \in 1 .. width : d * k <= width =>
                   ~Less(Runtime(m, d, k), Runtime(m, dp, mp))
              /\ \A k \in 1 .. mp - 1 : Less(Runtime(m, dp, mp), Filled(m, width, k))
              /\ m.batch = 0 => mp = width
<1>1. PICK mp : Select(m, width) = <<width \div mp, mp>> /\ FirstBest(m, width, mp)
  BY SelectBest
<1> DEFINE dp == width \div mp
<1>2. Select(m, width)[1] = dp /\ Select(m, width)[2] = mp
  BY <1>1
<1>3. mp \in 1 .. width /\ Filled(m, width, mp) = Runtime(m, dp, mp)
  BY <1>1 DEF FirstBest, Filled
<1>4. m.bubble \in Nat /\ m.bubble <= 100 /\ (width > 1 => m.bubble < 100)
  <2>1. m.bubble \in Nat
    BY DEF Model
  <2>2. m.bubble * 1 <= m.bubble * width /\ (width > 1 => m.bubble * 2 <= m.bubble * width)
    BY <2>1, Scaled
  <2> QED
    BY <2>1, <2>2
<1>5. width \in 1 .. width
  OBVIOUS
<1>6. ASSUME NEW d \in 1 .. width, NEW k \in 1 .. width, d * k <= width
      PROVE  ~Less(Runtime(m, d, k), Filled(m, width, mp))
  <2>1. d \in Nat \ {0} /\ k \in Nat \ {0}
    OBVIOUS
  <2>2. PICK i \in 1 .. width : ~Less(Runtime(m, d, k), Filled(m, width, i))
    BY <1>4, <1>5, <1>6, <2>1, FixedReplica, SplitBatch
  <2>3. ~Less(Filled(m, width, i), Filled(m, width, mp))
    BY <1>1 DEF FirstBest
  <2>4. /\ Runtime(m, d, k) \in Fraction /\ Filled(m, width, i) \in Fraction
        /\ Filled(m, width, mp) \in Fraction
    BY <1>3, <2>1, RuntimeFraction, FilledFraction
  <2> QED
    BY <2>2, <2>3, <2>4, FracOrder
<1>7. \A k \in 1 .. mp - 1 : Less(Filled(m, width, mp), Filled(m, width, k))
  BY <1>1 DEF FirstBest
<1>8. ASSUME m.batch = 0, mp # width PROVE FALSE
  <2>1. mp < width /\ m.bubble < 100 /\ dp \in Nat \ {0}
    BY <1>3, <1>4, <1>8, FilledFraction
  <2>2. Less(Filled(m, width, width), Runtime(m, dp, mp))
    <3> HIDE DEF dp
    <3> QED
      BY <1>3, <1>4, <1>8, <2>1, FixedReplica
  <2>3. ~Less(Filled(m, width, width), Filled(m, width, mp))
    BY <1>1, <1>5 DEF FirstBest
  <2> QED
    BY <1>3, <2>2, <2>3
<1> HIDE DEF dp
<1>9. dp = width \div mp
  BY DEF dp
<1> QED
  BY <1>2, <1>3, <1>6, <1>7, <1>8, <1>9

\* Whatever the policy answers, a decided width is one of the cluster's.
LEMMA DecidedWidth ==
    ASSUME NEW cur \in 1 .. MaxGpus, NEW observed \in Readings,
           NEW d \in Decisions(cur, observed, 0, 0)
    PROVE  AtLeast(1, d.gpus) \in 1 .. MaxGpus
<1> USE PolicyAssumption DEF AtLeast, AtMost
<1>1. CASE Policy = "rule"
  <2>1. RuleTarget(cur, observed) \in 1 .. MaxGpus
    BY DEF RuleTarget
  <2>2. d = [gpus |-> RuleTarget(cur, observed), pause |-> observed = "filthy"]
    BY <1>1 DEF Decisions
  <2>3. d.gpus = RuleTarget(cur, observed)
    BY <2>2
  <2> QED
    BY <2>1, <2>3
<1>2. CASE Policy = "power"
  <2>1. PowerTarget(cur, observed, 0, 0) \in 0 .. MaxGpus
    BY DEF PowerTarget
  <2>2. d = [gpus |-> PowerTarget(cur, observed, 0, 0), pause |-> FALSE]
    BY <1>2 DEF Decisions
  <2>3. d.gpus = PowerTarget(cur, observed, 0, 0)
    BY <2>2
  <2> QED
    BY <2>1, <2>3
<1>3. CASE Policy = "search"
  <2>1. PICK g \in SearchTargets(cur) : d = [gpus |-> g, pause |-> FALSE]
    BY <1>3 DEF Decisions
  <2>2. d.gpus = g /\ g \in 1 .. MaxGpus
    BY <2>1 DEF SearchTargets
  <2> QED
    BY <2>2
<1> QED
  BY <1>1, <1>2, <1>3

LEMMA ShapePreserved ==
    ASSUME ReadsInv, ShapeInv, [ServedNext]_servedVars PROVE ShapeInv'
<1>1. updates \in Nat /\ updates' \in Nat /\ writing \in 0 .. 3 /\ (writing # 0 => updates > 0)
  <2>1. updates \in Nat /\ writing \in 0 .. 3 /\ (writing # 0 => updates > 0)
    BY UpdatesAssumption DEF ReadsInv, ReadsTypeOK, JobInv, Versions
  <2>2. updates' = updates \/ updates' = updates + 1
    BY ServedStep DEF ReadsNext, BeginUpdate, SetField, Request, ReadField, readsVars
  <2> QED
    BY <2>1, <2>2
<1>2. ASSUME NEW mss \in 0 .. MaxGpus, Submit(mss) PROVE ShapeInv'
  BY <1>1, <1>2 DEF Submit, readsVars, loopVars, ShapeInv
<1>3. ASSUME NEW intensity \in Readings, Decide(intensity) PROVE ShapeInv'
  <2>1. PICK d \in Decisions(IF allocated = 0 THEN 1 ELSE allocated, intensity, 0, 0) :
          /\ chosen' = [gpus |-> AtLeast(1, d.gpus), shape |-> Select(runtime, AtLeast(1, d.gpus)),
                        state |-> IF d.pause THEN "PAUSED" ELSE "RUNNING"]
          /\ allocated' = AtLeast(1, d.gpus)
    BY <1>3 DEF Decide
  <2>2. (IF allocated = 0 THEN 1 ELSE allocated) \in 1 .. MaxGpus
    BY PolicyAssumption DEF ShapeInv
  <2>3. allocated' \in 1 .. MaxGpus
    BY <2>1, <2>2, DecidedWidth
  <2>4. /\ chosen'.gpus = allocated' /\ chosen'.shape = Select(runtime, allocated')
        /\ chosen'.state # "NONE"
    BY <2>1
  <2>5. /\ writing' = 1 /\ tick' = "updating" /\ runtime' = runtime /\ status' = status
        /\ status # "NONE"
    BY <1>3 DEF Decide, BeginUpdate
  <2> QED
    BY <1>1, <2>3, <2>4, <2>5, PolicyAssumption DEF ShapeInv
<1>4. CASE SetChosen
  <2>1. /\ updates' = updates /\ writing \in 1 .. 3 /\ writing' = IF writing = 3 THEN 0 ELSE writing + 1
        /\ UNCHANGED <<allocated, runtime, chosen>> /\ tick = "updating"
        /\ tick' = IF writing = 3 THEN "scaling" ELSE "updating"
        /\ shape' = IF writing = 1 THEN chosen.shape ELSE shape
        /\ status' = IF writing = 2 THEN chosen.state ELSE status
    BY <1>4 DEF SetChosen, SetField
  <2>2. updates > 0
    BY <1>1, <2>1
  <2> QED
    BY <1>1, <2>1, <2>2 DEF ShapeInv
<1>5. CASE Scale
  BY <1>5 DEF Scale, readsVars, fieldVars, ShapeInv
<1>6. CASE GetJob
  BY <1>6 DEF GetJob, Request, fieldVars, loopVars, ShapeInv
<1>7. CASE ReadJob
  BY <1>7 DEF ReadJob, ReadField, fieldVars, loopVars, ShapeInv
<1>8. CASE UNCHANGED servedVars
  BY <1>8 DEF servedVars, readsVars, fieldVars, loopVars, ShapeInv
<1> QED
  BY <1>2, <1>3, <1>4, <1>5, <1>6, <1>7, <1>8 DEF ServedNext

\* Between two updates a decided job has the planner's shape for its width, and
\* the planner's shape is the fastest that fits, with as few stages as are as
\* fast: for every policy, every number of GPUs and every runtime model whose
\* bubbles cost no more than its computation.
THEOREM ShapeAlwaysSuits == ServedSpec => []ShapeSuits
<1>1. ServedInit => ShapeInv
  BY PolicyAssumption DEF ServedInit, ReadsInit, ShapeInv
<1>2. ServedSpec => []ReadsInv
  <2>1. ServedInit => ReadsInit
    BY DEF ServedInit
  <2> QED
    BY <2>1, ServedStep, StoreInvariance, PTL DEF ServedSpec, ReadsSpec
<1>3. ReadsInv /\ ShapeInv => ShapeSuits
  <2> SUFFICES ASSUME ReadsInv, ShapeInv, updates > 0, writing = 0 PROVE ShapeSuits
    BY DEF ShapeSuits
  <2>1. /\ runtime \in Model /\ allocated \in Nat \ {0} /\ runtime.bubble * allocated <= 100
        /\ shape = Select(runtime, allocated)
    <3>1. runtime \in Models /\ allocated \in 1 .. MaxGpus /\ shape = Select(runtime, allocated)
      BY PolicyAssumption DEF ShapeInv
    <3>2. runtime \in Model /\ runtime.bubble * MaxGpus <= 100
      BY <3>1, ModelsAssumption
    <3>3. runtime.bubble \in Nat
      BY <3>2 DEF Model
    <3>4. runtime.bubble * allocated <= runtime.bubble * MaxGpus
      BY <3>1, <3>3, PolicyAssumption, Scaled
    <3>5. runtime.bubble * allocated \in Nat /\ runtime.bubble * MaxGpus \in Nat
      BY <3>1, <3>3, PolicyAssumption, NatProduct
    <3> QED
      BY <3>1, <3>2, <3>4, <3>5
  <2> QED
    BY <2>1, SelectSuits DEF ShapeSuits
<1> QED
  BY <1>1, <1>2, <1>3, ShapePreserved, PTL DEF ServedSpec

-----------------------------------------------------------------------------
(* The checkpoint store, for any files, layers and number of saves.        *)

\* What was saved, and what is listed, are metadata of known shards.
LEMMA Typed ==
    ASSUME StoreTypeOK
    PROVE  /\ \A k \in DOMAIN saved : saved[k].shard \in Shards
           /\ \A k \in DOMAIN metas : metas[k].shard \in Shards
<1>1. \A m \in Meta : m.shard \in Shards
  BY DEF Meta
<1>2. /\ \A k \in DOMAIN saved : saved[k] \in Meta
      /\ \A k \in DOMAIN metas : metas[k] \in Meta
  BY DEF StoreTypeOK
<1> QED
  BY <1>1, <1>2

LEMMA StoreTypePreserved ==
    ASSUME StoreInv, StoreNext PROVE StoreTypeOK'
<1> USE DEF StoreInv, StoreTypeOK
<1>1. ASSUME NEW shard \in Shards, NEW range \in Ranges, SaveShard(shard, range) PROVE StoreTypeOK'
  <2> DEFINE meta == [shard |-> shard, range |-> range]
  <2>1. meta \in Meta
    BY DEF Meta
  <2>2. save' = [at |-> "file", meta |-> meta] /\ saved' = Append(saved, meta)
    BY <1>1 DEF SaveShard
  <2>3. save' \in [at : {"file", "index"}, meta : Meta] /\ saved' \in Seq(Meta)
    BY <2>1, <2>2
  <2> QED
    BY <1>1, <2>3 DEF SaveShard
<1>2. CASE FileWritten
  <2>1. save \in [at : {"file", "index"}, meta : Meta]
    BY <1>2 DEF FileWritten, NoSave
  <2>2. save.meta \in Meta /\ save.meta.range \in Ranges
    BY <2>1 DEF Meta
  <2>3. metas' = Append(metas, save.meta)
    BY <1>2 DEF FileWritten
  <2>4. metas' \in Seq(Meta)
    BY <2>2, <2>3
  <2>5. files' \in [Shards -> Ranges \cup {"none", "torn"}]
    BY <1>2, <2>2 DEF FileWritten
  <2>6. save' \in [at : {"file", "index"}, meta : Meta]
    BY <1>2, <2>1 DEF FileWritten
  <2> QED
    BY <1>2, <2>4, <2>5, <2>6 DEF FileWritten
<1>3. CASE TearIndex
  BY <1>3 DEF TearIndex
<1>4. CASE IndexWritten
  BY <1>4 DEF IndexWritten
<1>5. CASE WriteRaises
  BY <1>5 DEF WriteRaises
<1>6. CASE RestartStore
  <2>1. <<>> \in Seq(Meta)
    OBVIOUS
  <2> QED
    BY <1>6, <2>1 DEF RestartStore
<1> QED
  BY <1>1, <1>2, <1>3, <1>4, <1>5, <1>6 DEF StoreNext

\* Only save_shard begins a call, and only a written file joins the list.
LEMMA RecordedPreserved ==
    ASSUME StoreInv, StoreNext PROVE Recorded'
<1> USE DEF StoreInv, StoreTypeOK, Recorded, Lists
<1>1. ASSUME NEW shard \in Shards, NEW range \in Ranges, SaveShard(shard, range) PROVE Recorded'
  <2> DEFINE meta == [shard |-> shard, range |-> range]
  <2>1. saved' = Append(saved, meta) /\ save'.meta = meta /\ metas' = metas /\ index' = index
    BY <1>1 DEF SaveShard
  <2>2. meta \in Meta
    BY DEF Meta
  <2>3. /\ Len(saved') = Len(saved) + 1 /\ saved'[Len(saved')] = meta
        /\ DOMAIN saved \subseteq DOMAIN saved' /\ \A k \in DOMAIN saved : saved'[k] = saved[k]
    BY <2>1, <2>2
  <2>4. saved' # <<>>
    BY <2>1, <2>2
  <2> HIDE DEF meta
  <2> QED
    BY <2>1, <2>3, <2>4
<1>2. CASE FileWritten
  <2>1. save.meta \in Meta /\ save # NoSave
    BY <1>2 DEF FileWritten, NoSave
  <2>2. Len(saved) \in DOMAIN saved /\ saved[Len(saved)] = save.meta
    BY <2>1
  <2>3. ASSUME NEW i \in DOMAIN metas' PROVE \E k \in DOMAIN saved : saved[k] = metas'[i]
    <3>1. CASE i \in DOMAIN metas
      <4>1. metas'[i] = metas[i]
        BY <1>2, <2>1, <3>1 DEF FileWritten
      <4> QED
        BY <3>1, <4>1
    <3>2. CASE i \notin DOMAIN metas
      <4>1. metas'[i] = save.meta
        BY <1>2, <2>1, <2>3, <3>2 DEF FileWritten
      <4> QED
        BY <2>2, <4>1
    <3> QED
      BY <3>1, <3>2
  <2>4. index' = index /\ saved' = saved /\ save'.meta = save.meta
    BY <1>2, <2>1 DEF FileWritten, NoSave
  <2> QED
    BY <2>1, <2>3, <2>4
<1>3. CASE TearIndex
  BY <1>3 DEF TearIndex
<1>4. CASE IndexWritten
  BY <1>4 DEF IndexWritten
<1>5. CASE WriteRaises
  BY <1>5 DEF WriteRaises
<1>6. CASE RestartStore
  BY <1>6 DEF RestartStore
<1> QED
  BY <1>1, <1>2, <1>3, <1>4, <1>5, <1>6 DEF StoreNext

LEMMA TruthPreserved ==
    ASSUME StoreInv, StoreNext PROVE EntriesTruthful'
<1> USE DEF StoreInv, StoreTypeOK
<1>1. ASSUME NEW shard \in Shards, NEW range \in Ranges, SaveShard(shard, range) PROVE EntriesTruthful'
  <2> DEFINE meta == [shard |-> shard, range |-> range]
  <2>1. /\ saved' = Append(saved, meta) /\ metas' = metas /\ index' = index
        /\ files' = [files EXCEPT ![shard] = "torn"]
    BY <1>1 DEF SaveShard
  <2>2. meta \in Meta /\ meta.shard = shard
    BY DEF Meta
  <2>3. /\ Len(saved') \in DOMAIN saved' /\ saved'[Len(saved')].shard = shard
        /\ \A k \in DOMAIN saved : k \in DOMAIN saved' /\ saved'[k] = saved[k] /\ k # Len(saved')
    BY <2>1, <2>2
  <2> HIDE DEF meta
  <2>4. ASSUME NEW list \in Lists, NEW i \in DOMAIN list, SavedOnce(list[i].shard)'
        PROVE files'[list[i].shard] = list[i].range
    <3>1. PICK k \in DOMAIN saved : saved[k] = list[i]
      BY DEF Recorded
    <3>2. list[i].shard # shard
      BY <2>3, <2>4, <3>1 DEF SavedOnce
    <3>3. SavedOnce(list[i].shard)
      BY <2>3, <2>4 DEF SavedOnce
    <3>4. files[list[i].shard] = list[i].range
      BY <3>3 DEF EntriesTruthful
    <3>5. list[i].shard \in Shards
      BY <3>1, Typed
    <3> QED
      BY <2>1, <3>2, <3>4, <3>5
  <2>5. ASSUME NEW i \in DOMAIN metas, Latest(i)
        PROVE files'[metas[i].shard] \in {metas[i].range, "torn"}
    <3>1. files[metas[i].shard] \in {metas[i].range, "torn"} /\ metas[i].shard \in Shards
      BY <2>5, Typed DEF EntriesTruthful
    <3> QED
      BY <2>1, <3>1
  <2> QED
    BY <2>1, <2>4, <2>5 DEF EntriesTruthful, Lists, Latest
<1>2. CASE FileWritten
  <2> DEFINE meta == save.meta
  <2>1. meta \in Meta /\ save # NoSave
    BY <1>2 DEF FileWritten, NoSave
  <2>2. Len(saved) \in DOMAIN saved /\ saved[Len(saved)] = meta
    BY <2>1 DEF Recorded
  <2>3. /\ metas' = Append(metas, meta) /\ index' = index /\ saved' = saved
        /\ files' = [files EXCEPT ![meta.shard] = meta.range]
    BY <1>2 DEF FileWritten
  <2>4. meta.shard \in Shards /\ meta.range \in Ranges
    BY <2>1 DEF Meta
  <2>5. /\ Len(metas') = Len(metas) + 1 /\ metas'[Len(metas')] = meta
        /\ DOMAIN metas' = DOMAIN metas \cup {Len(metas')}
        /\ \A i \in DOMAIN metas : metas'[i] = metas[i]
    BY <2>1, <2>3
  <2> HIDE DEF meta
  <2>6. ASSUME NEW entry, \E k \in DOMAIN saved : saved[k] = entry, SavedOnce(entry.shard),
               files[entry.shard] = entry.range
        PROVE files'[entry.shard] = entry.range
    <3>1. PICK k \in DOMAIN saved : saved[k] = entry
      BY <2>6
    <3>2. entry.shard \in Shards
      BY <3>1, Typed
    <3>3. CASE entry.shard = meta.shard
      <4>1. entry = meta
        BY <2>2, <2>6, <3>1, <3>3 DEF SavedOnce
      <4> QED
        BY <2>3, <3>2, <4>1
    <3>4. CASE entry.shard # meta.shard
      BY <2>3, <2>6, <3>2, <3>4
    <3> QED
      BY <3>3, <3>4
  <2>7. ASSUME NEW list \in Lists, NEW i \in DOMAIN list, SavedOnce(list[i].shard)
        PROVE files'[list[i].shard] = list[i].range
    <3>1. /\ \E k \in DOMAIN saved : saved[k] = list[i]
          /\ files[list[i].shard] = list[i].range
      BY <2>7 DEF Recorded, EntriesTruthful
    <3> QED
      BY <2>6, <2>7, <3>1
  <2>8. ASSUME NEW i \in DOMAIN metas', SavedOnce(metas'[i].shard)
        PROVE files'[metas'[i].shard] = metas'[i].range
    <3>1. CASE i \in DOMAIN metas
      BY <2>5, <2>7, <2>8, <3>1 DEF Lists
    <3>2. CASE i = Len(metas')
      BY <2>3, <2>4, <2>5, <3>2
    <3> QED
      BY <2>5, <3>1, <3>2
  <2>9. ASSUME NEW i \in DOMAIN metas', Latest(i)'
        PROVE files'[metas'[i].shard] \in {metas'[i].range, "torn"}
    <3>1. CASE i \in DOMAIN metas
      <4>1. Latest(i) /\ metas[i].shard # meta.shard
        <5>1. \A j \in i + 1 .. Len(metas) : metas'[j] = metas[j] /\ j \in i + 1 .. Len(metas')
          BY <2>5, <3>1
        <5>2. Len(metas') \in i + 1 .. Len(metas')
          BY <2>5, <3>1
        <5> QED
          BY <2>5, <2>9, <3>1, <5>1, <5>2 DEF Latest
      <4>2. files[metas[i].shard] \in {metas[i].range, "torn"} /\ metas[i].shard \in Shards
        BY <3>1, <4>1, Typed DEF EntriesTruthful
      <4> QED
        BY <2>3, <2>5, <3>1, <4>1, <4>2
    <3>2. CASE i = Len(metas')
      BY <2>3, <2>4, <2>5, <3>2
    <3> QED
      BY <2>5, <3>1, <3>2
  <2>10. \A s : SavedOnce(s)' <=> SavedOnce(s)
    BY <2>3 DEF SavedOnce
  <2>11. ASSUME NEW list \in Lists', NEW i \in DOMAIN list, SavedOnce(list[i].shard)
         PROVE files'[list[i].shard] = list[i].range
    <3>1. CASE list = metas'
      BY <2>8, <2>11, <3>1
    <3>2. CASE list \in Lists
      BY <2>7, <2>11, <3>2
    <3> QED
      BY <2>3, <2>11, <3>1, <3>2 DEF Lists
  <2> QED
    BY <2>9, <2>10, <2>11 DEF EntriesTruthful
<1>3. CASE TearIndex
  BY <1>3 DEF TearIndex, EntriesTruthful, Lists, SavedOnce, Latest
<1>4. CASE IndexWritten
  BY <1>4 DEF IndexWritten, EntriesTruthful, Lists, SavedOnce, Latest
<1>5. CASE WriteRaises
  BY <1>5 DEF WriteRaises, EntriesTruthful, Lists, SavedOnce, Latest
<1>6. CASE RestartStore
  BY <1>6 DEF RestartStore, EntriesTruthful, Lists, SavedOnce, Latest
<1> QED
  BY <1>1, <1>2, <1>3, <1>4, <1>5, <1>6 DEF StoreNext

\* Wherever a write raises or the process dies, and for any number of shards:
\* of a shard saved once, no list of the checkpoint store speaks of bytes that
\* are not in the file; of one saved again, the last entry of the running list
\* is never an older file's, though the file may be torn.
THEOREM ListsTruthful == StoreSpec => []EntriesTruthful
<1>1. StoreInit => StoreInv
  BY DEF StoreInit, StoreInv, StoreTypeOK, Recorded, EntriesTruthful, Lists, NoSave
<1>2. StoreInv /\ [StoreNext]_storeVars => StoreInv'
  <2> SUFFICES ASSUME StoreInv, [StoreNext]_storeVars PROVE StoreInv'
    OBVIOUS
  <2>1. CASE StoreNext
    BY <2>1, StoreTypePreserved, RecordedPreserved, TruthPreserved DEF StoreInv
  <2>2. CASE UNCHANGED storeVars
    BY <2>2 DEF storeVars, StoreInv, StoreTypeOK, Recorded, EntriesTruthful, Lists, SavedOnce, Latest
  <2> QED
    BY <2>1, <2>2
<1>3. StoreInv => EntriesTruthful
  BY DEF StoreInv
<1> QED
  BY <1>1, <1>2, <1>3, PTL DEF StoreSpec
-----------------------------------------------------------------------------
(* The greedy allocators, for any number of jobs, any profiles with          *)
(* diminishing gains and any number of GPUs.                                 *)

\* A convex sequence is nowhere lower than where its slope turns.
LEMMA ConvexMin ==
    ASSUME NEW n \in Nat, NEW g \in [1 .. n -> Int],
           \A k \in 2 .. n - 1 : g[k] - g[k - 1] <= g[k + 1] - g[k],
           NEW a \in 1 .. n, NEW b \in 1 .. n,
           a < n => g[a] <= g[a + 1],
           b < a => g[a] <= g[a - 1]
    PROVE  g[a] <= g[b]
<1>1. ASSUME a < b PROVE g[a] <= g[b]
  <2> DEFINE T == {k \in Nat : a + k + 1 <= n => g[a + k] <= g[a + k + 1] /\ g[a] <= g[a + k + 1]}
  <2>1. 0 \in T
    BY <1>1
  <2>2. ASSUME NEW k \in T PROVE k + 1 \in T
    <3>1. k \in Nat
      OBVIOUS
    <3>2. ASSUME a + (k + 1) + 1 <= n
          PROVE  g[a + (k + 1)] <= g[a + (k + 1) + 1] /\ g[a] <= g[a + (k + 1) + 1]
      <4>1. g[a + k] <= g[a + k + 1] /\ g[a] <= g[a + k + 1]
        BY <3>1, <3>2
      <4>2. a + k + 1 \in 2 .. n - 1
        BY <3>1, <3>2
      <4>3. g[a + k + 1] - g[(a + k + 1) - 1] <= g[(a + k + 1) + 1] - g[a + k + 1]
        BY <4>2
      <4>4. /\ (a + k + 1) - 1 = a + k /\ (a + k + 1) + 1 = a + (k + 1) + 1
            /\ a + k + 1 = a + (k + 1)
        BY <3>1
      <4>5. /\ g[a + k] \in Int /\ g[a + k + 1] \in Int /\ g[a + (k + 1) + 1] \in Int /\ g[a] \in Int
        <5>1. a + k \in 1 .. n /\ a + k + 1 \in 1 .. n /\ a + (k + 1) + 1 \in 1 .. n
          BY <3>1, <3>2
        <5> QED
          BY <5>1
      <4>6. g[a + k + 1] - g[a + k] <= g[a + (k + 1) + 1] - g[a + k + 1]
        BY <4>3, <4>4, Zenon
      <4>7. g[a + k + 1] <= g[a + (k + 1) + 1] /\ g[a] <= g[a + (k + 1) + 1]
        BY ONLY <4>1, <4>5, <4>6
      <4> HIDE DEF T
      <4> QED
        BY <4>4, <4>7, Zenon
    <3> QED
      BY <3>1, <3>2
  <2>3. T = Nat
    <3>1. T \subseteq Nat
      OBVIOUS
    <3> HIDE DEF T
    <3> QED
      BY <2>1, <2>2, <3>1, Induct
  <2>4. b - a - 1 \in Nat /\ a + (b - a - 1) + 1 = b
    BY <1>1
  <2>5. b - a - 1 \in T
    BY <2>3, <2>4
  <2> QED
    BY <2>4, <2>5
<1>2. ASSUME b < a PROVE g[a] <= g[b]
  <2> DEFINE T == {k \in Nat : a - k - 1 >= 1 => g[a - k] <= g[a - k - 1] /\ g[a] <= g[a - k - 1]}
  <2>1. 0 \in T
    BY <1>2
  <2>2. ASSUME NEW k \in T PROVE k + 1 \in T
    <3>1. k \in Nat
      OBVIOUS
    <3>2. ASSUME a - (k + 1) - 1 >= 1
          PROVE  g[a - (k + 1)] <= g[a - (k + 1) - 1] /\ g[a] <= g[a - (k + 1) - 1]
      <4>1. g[a - k] <= g[a - k - 1] /\ g[a] <= g[a - k - 1]
        BY <3>1, <3>2
      <4>2. a - k - 1 \in 2 .. n - 1
        BY <3>1, <3>2
      <4>3. g[a - k - 1] - g[(a - k - 1) - 1] <= g[(a - k - 1) + 1] - g[a - k - 1]
        BY <4>2
      <4>4. /\ (a - k - 1) - 1 = a - (k + 1) - 1 /\ (a - k - 1) + 1 = a - k
            /\ a - k - 1 = a - (k + 1)
        BY <3>1
      <4>5. /\ g[a - k] \in Int /\ g[a - (k + 1)] \in Int /\ g[a - (k + 1) - 1] \in Int /\ g[a] \in Int
        <5>1. a - k \in 1 .. n /\ a - (k + 1) \in 1 .. n /\ a - (k + 1) - 1 \in 1 .. n
          BY <3>1, <3>2
        <5> QED
          BY <5>1
      <4>6. g[a - (k + 1)] - g[a - (k + 1) - 1] <= g[a - k] - g[a - (k + 1)]
        BY <4>3, <4>4
      <4>7. g[a - k] <= g[a - (k + 1)] /\ g[a] <= g[a - (k + 1)]
        BY <4>1, <4>4
      <4> HIDE DEF T
      <4> QED
        BY <4>5, <4>6, <4>7
    <3> QED
      BY <3>1, <3>2
  <2>3. T = Nat
    <3>1. T \subseteq Nat
      OBVIOUS
    <3> HIDE DEF T
    <3> QED
      BY <2>1, <2>2, <3>1, Induct
  <2>4. a - b - 1 \in Nat /\ a - (a - b - 1) - 1 = b
    BY <1>2
  <2>5. a - b - 1 \in T
    BY <2>3, <2>4
  <2> QED
    BY <2>4, <2>5
<1> QED
  BY <1>1, <1>2

\* Quotients compared by cross-multiplication are ordered transitively.
LEMMA CrossChain ==
    ASSUME NEW a \in Nat, NEW b \in Nat, NEW c \in Nat, NEW d \in Nat, NEW e \in Nat, NEW f \in Nat,
           a * d <= c * b, c * f <= e * d, d > 0 \/ c > 0
    PROVE  a * f <= e * b
<1>1. CASE d = 0
  <2>1. f = 0
    <3>1. c * f <= 0 /\ c > 0
      BY <1>1
    <3>2. ASSUME f > 0 PROVE FALSE
      <4>1. c * f \in Nat /\ c * f >= c
        <5>1. 1 \in Nat /\ 1 <= f
          BY <3>2
        <5>2. c * 1 <= c * f /\ c * f \in Nat
          BY <5>1, Scaled, NatProduct
        <5> QED
          BY <5>2
      <4> QED
        BY <3>1, <4>1
    <3> QED
      BY <3>2
  <2>2. a * f = 0 /\ e * b \in Nat
    BY <2>1, NatProduct
  <2> QED
    BY <2>2
<1>2. CASE d > 0
  <2>1. a * d \in Nat /\ c * b \in Nat /\ c * f \in Nat /\ e * d \in Nat /\ a * f \in Nat /\ e * b \in Nat
    BY NatProduct
  <2>2. (a * d) * f <= (c * b) * f
    BY <2>1, Scaled
  <2>3. (c * f) * b <= (e * d) * b
    BY <2>1, Scaled
  <2>4. (a * d) * f = (a * f) * d /\ (c * b) * f = (c * f) * b /\ (e * d) * b = (e * b) * d
    OBVIOUS
  <2>5. (a * f) * d \in Nat /\ (c * f) * b \in Nat /\ (e * b) * d \in Nat
    BY <2>1, NatProduct
  <2>6. (a * f) * d <= (e * b) * d
    BY <2>2, <2>3, <2>4, <2>5
  <2> QED
    BY <1>2, <2>1, <2>6, Unscaled
<1> QED
  BY <1>1, <1>2

\* Of finitely many offers, one gives the most for what it costs.
LEMMA Cheapest ==
    ASSUME NEW S, IsFiniteSet(S), S # {}, NEW c, NEW d,
           \A j \in S : c[j] \in Nat /\ d[j] \in Nat /\ (d[j] > 0 \/ c[j] > 0)
    PROVE  \E k \in S : \A j \in S : c[k] * d[j] <= c[j] * d[k]
<1> DEFINE Leads(k, s) == \A j \in s : c[k] * d[j] <= c[j] * d[k]
           P == {s \in SUBSET S : s = {} \/ \E k \in s : Leads(k, s)}
<1>1. P \subseteq SUBSET S /\ {} \in P
  OBVIOUS
<1>2. ASSUME NEW s \in P, NEW y \in S \ s PROVE s \cup {y} \in P
  <2>1. s \cup {y} \in SUBSET S
    BY <1>1
  <2>2. c[y] * d[y] <= c[y] * d[y]
    BY NatProduct
  <2>3. CASE s = {}
    <3>1. Leads(y, s \cup {y})
      BY <2>2, <2>3
    <3> QED
      BY <2>1, <3>1
  <2>4. CASE s # {}
    <3>1. PICK k \in s : Leads(k, s)
      BY <2>4
    <3>2. k \in S
      BY <1>1
    <3>3. CASE c[k] * d[y] <= c[y] * d[k]
      <4>1. Leads(k, s \cup {y})
        BY <3>1, <3>3
      <4> QED
        BY <2>1, <4>1
    <3>4. CASE ~(c[k] * d[y] <= c[y] * d[k])
      <4>1. c[y] * d[k] <= c[k] * d[y]
        BY <3>2, <3>4, NatProduct
      <4>2. ASSUME NEW j \in s PROVE c[y] * d[j] <= c[j] * d[y]
        <5>1. c[k] * d[j] <= c[j] * d[k]
          BY <3>1
        <5>2. j \in S
          BY <1>1
        <5> QED
          BY <3>2, <4>1, <5>1, <5>2, CrossChain
      <4>3. Leads(y, s \cup {y})
        BY <2>2, <4>2
      <4> QED
        BY <2>1, <4>3
    <3> QED
      BY <3>3, <3>4
  <2> QED
    BY <2>3, <2>4
<1> HIDE DEF P
<1>3. P = SUBSET S
  BY <1>1, <1>2, InductFinite
<1>4. S \in P
  BY <1>3
<1> QED
  BY <1>4 DEF P

\* The difference of two weighed gains.
LEMMA Weighed ==
    ASSUME NEW u \in Nat, NEW v \in Nat, NEW p \in Nat, NEW q \in Nat, NEW s \in Nat, NEW t \in Nat
    PROVE  /\ v * p - u * s \in Int /\ v * q - u * t \in Int
           /\ v * (q - p) \in Int /\ u * (t - s) \in Int
           /\ (v * q - u * t) - (v * p - u * s) = v * (q - p) - u * (t - s)
           /\ (u * (t - s) <= v * (q - p)) <=> (v * p - u * s <= v * q - u * t)
<1>1. /\ v * p \in Int /\ v * q \in Int /\ u * s \in Int /\ u * t \in Int
      /\ v * (q - p) = v * q - v * p /\ u * (t - s) = u * t - u * s
  OBVIOUS
<1> DEFINE A == v * p
           B == v * q
           C == u * s
           D == u * t
           E == v * (q - p)
           F == u * (t - s)
<1>2. /\ A \in Int /\ B \in Int /\ C \in Int /\ D \in Int
      /\ E = B - A /\ F = D - C
  BY <1>1
<1> HIDE DEF A, B, C, D, E, F
<1>3. /\ A - C \in Int /\ B - D \in Int /\ E \in Int /\ F \in Int
      /\ (B - D) - (A - C) = E - F
      /\ (F <= E) <=> (A - C <= B - D)
  BY <1>2
<1> QED
  BY <1>3 DEF A, B, C, D, E, F

\* Where more is paid for less, the balance grows.
LEMMA Steeper ==
    ASSUME NEW u \in Nat, NEW v \in Nat, NEW p \in Int, NEW q \in Int, NEW s \in Int, NEW t \in Int,
           p <= q, t <= s
    PROVE  v * p - u * s <= v * q - u * t
<1>1. v * p \in Int /\ v * q \in Int /\ u * s \in Int /\ u * t \in Int
  OBVIOUS
<1>2. v * p <= v * q
  OBVIOUS
<1>3. u * t <= u * s
  OBVIOUS
<1> DEFINE A == v * p
           B == v * q
           C == u * s
           D == u * t
<1>4. A \in Int /\ B \in Int /\ C \in Int /\ D \in Int /\ A <= B /\ D <= C
  BY <1>1, <1>2, <1>3
<1> HIDE DEF A, B, C, D
<1>5. A - C <= B - D
  BY <1>4
<1> QED
  BY <1>5 DEF A, B, C, D

\* Where the gains fall and the costs rise, the line between the last step taken
\* and the next one lies above the whole curve.
LEMMA Support ==
    ASSUME NEW n \in Nat, NEW r \in [1 .. n -> Nat], NEW w \in [1 .. n -> Nat],
           \A k \in 2 .. n - 1 : r[k + 1] - r[k] <= r[k] - r[k - 1],
           \A k \in 2 .. n - 1 : w[k] - w[k - 1] <= w[k + 1] - w[k],
           NEW u \in Nat, NEW v \in Nat, NEW a \in 1 .. n, NEW b \in 1 .. n,
           a < n => u * (r[a + 1] - r[a]) <= v * (w[a + 1] - w[a]),
           b < a => v * (w[a] - w[a - 1]) <= u * (r[a] - r[a - 1])
    PROVE  u * (r[b] - r[a]) <= v * (w[b] - w[a])
<1> DEFINE g == [k \in 1 .. n |-> v * w[k] - u * r[k]]
<1>1. ASSUME NEW i \in 1 .. n, NEW j \in 1 .. n
      PROVE  /\ g[i] \in Int /\ g[j] \in Int
             /\ v * (w[j] - w[i]) \in Int /\ u * (r[j] - r[i]) \in Int
             /\ g[j] - g[i] = v * (w[j] - w[i]) - u * (r[j] - r[i])
             /\ (u * (r[j] - r[i]) <= v * (w[j] - w[i])) <=> (g[i] <= g[j])
  <2>1. w[j] \in Nat /\ w[i] \in Nat /\ r[i] \in Nat /\ r[j] \in Nat
    OBVIOUS
  <2>2. g[i] = v * w[i] - u * r[i] /\ g[j] = v * w[j] - u * r[j]
    OBVIOUS
  <2>3. /\ v * w[i] - u * r[i] \in Int /\ v * w[j] - u * r[j] \in Int
        /\ v * (w[j] - w[i]) \in Int /\ u * (r[j] - r[i]) \in Int
        /\ (v * w[j] - u * r[j]) - (v * w[i] - u * r[i]) = v * (w[j] - w[i]) - u * (r[j] - r[i])
        /\ (u * (r[j] - r[i]) <= v * (w[j] - w[i])) <=> (v * w[i] - u * r[i] <= v * w[j] - u * r[j])
    BY <2>1, Weighed
  <2> QED
    BY <2>2, <2>3, Zenon
<1>2. g \in [1 .. n -> Int]
  BY <1>1
<1> HIDE DEF g
<1>3. ASSUME NEW k \in 2 .. n - 1 PROVE g[k] - g[k - 1] <= g[k + 1] - g[k]
  <2>1. k \in 1 .. n /\ k - 1 \in 1 .. n /\ k + 1 \in 1 .. n
    OBVIOUS
  <2>2. /\ g[k] - g[k - 1] = v * (w[k] - w[k - 1]) - u * (r[k] - r[k - 1])
        /\ g[k + 1] - g[k] = v * (w[k + 1] - w[k]) - u * (r[k + 1] - r[k])
    BY <1>1, <2>1
  <2> DEFINE p == w[k] - w[k - 1]
             q == w[k + 1] - w[k]
             s == r[k] - r[k - 1]
             t == r[k + 1] - r[k]
  <2>3. p \in Int /\ q \in Int /\ s \in Int /\ t \in Int /\ t <= s /\ p <= q
    <3>1. /\ w[k - 1] \in Nat /\ w[k] \in Nat /\ w[k + 1] \in Nat
          /\ r[k - 1] \in Nat /\ r[k] \in Nat /\ r[k + 1] \in Nat
      BY <2>1
    <3>2. /\ r[k + 1] - r[k] <= r[k] - r[k - 1]
          /\ w[k] - w[k - 1] <= w[k + 1] - w[k]
      OBVIOUS
    <3>3. \A y, z \in Nat : y - z \in Int
      OBVIOUS
    <3>4. p \in Int /\ q \in Int /\ s \in Int /\ t \in Int
      BY <3>1, <3>3, Zenon
    <3> QED
      BY <3>2, <3>4, Zenon
  <2> HIDE DEF p, q, s, t
  <2>4. v * p - u * s <= v * q - u * t
    BY ONLY u \in Nat, v \in Nat, <2>3, Steeper
  <2> QED
    BY <2>2, <2>4, Zenon DEF p, q, s, t
<1>4. a < n => g[a] <= g[a + 1]
  <2>1. a < n => a + 1 \in 1 .. n
    OBVIOUS
  <2> QED
    BY <1>1, <2>1, Zenon
<1>5. b < a => g[a] <= g[a - 1]
  <2> SUFFICES ASSUME b < a PROVE g[a] <= g[a - 1]
    OBVIOUS
  <2>1. a - 1 \in 1 .. n
    OBVIOUS
  <2>2. /\ g[a] - g[a - 1] = v * (w[a] - w[a - 1]) - u * (r[a] - r[a - 1])
        /\ v * (w[a] - w[a - 1]) \in Int /\ u * (r[a] - r[a - 1]) \in Int
        /\ g[a] \in Int /\ g[a - 1] \in Int
    BY <1>1, <2>1
  <2> DEFINE V == v * (w[a] - w[a - 1])
             U == u * (r[a] - r[a - 1])
  <2>3. V <= U /\ g[a] - g[a - 1] = V - U /\ V \in Int /\ U \in Int
    BY <2>2
  <2> HIDE DEF U, V
  <2> QED
    BY ONLY <2>2, <2>3, SMTT(30)
<1>6. g[a] <= g[b]
  BY <1>2, <1>3, <1>4, <1>5, ConvexMin
<1> QED
  BY <1>1, <1>6, Zenon

\* A total is a sum over the jobs.
LEMMA TotalSum == ASSUME NEW f PROVE Total(f) = SumOver(f, Jobs)
BY Zenon DEF Total, SumOver, MapThenSumSet

\* Throughput and power along the shares of a profile.
LEMMA ProfileShape ==
    ASSUME NEW p \in Profiles, NEW n, n = Len(p.rate)
    PROVE  /\ n \in Nat \ {0} /\ p.rate \in [1 .. n -> Nat] /\ p.power \in [1 .. n -> Nat]
           /\ \A y \in 1 .. n - 1 : p.rate[y] <= p.rate[y + 1] /\ p.power[y] <= p.power[y + 1]
           /\ \A k \in 2 .. n - 1 :
                /\ p.rate[k + 1] - p.rate[k] <= p.rate[k] - p.rate[k - 1]
                /\ p.power[k] - p.power[k - 1] <= p.power[k + 1] - p.power[k]
<1>1. /\ p \in [rate : Seq(Nat), power : Seq(Nat)]
      /\ Len(p.rate) = Len(p.power) /\ Len(p.rate) > 0
      /\ \A y \in DOMAIN Steps(p.rate) :
           /\ Steps(p.rate)[y] >= 0 /\ Steps(p.power)[y] >= 0
           /\ y > 1 => /\ Steps(p.rate)[y] <= Steps(p.rate)[y - 1]
                       /\ Steps(p.power)[y] >= Steps(p.power)[y - 1]
  BY GreedyAssumption
<1>2. p.rate \in Seq(Nat) /\ p.power \in Seq(Nat)
  BY <1>1
<1>3. n \in Nat \ {0} /\ p.rate \in [1 .. n -> Nat] /\ p.power \in [1 .. n -> Nat]
  BY <1>1, <1>2
<1>4. DOMAIN Steps(p.rate) = 1 .. n - 1
  BY DEF Steps
<1>5. ASSUME NEW y \in 1 .. n - 1
      PROVE  /\ Steps(p.rate)[y] = p.rate[y + 1] - p.rate[y]
             /\ Steps(p.power)[y] = p.power[y + 1] - p.power[y]
  BY <1>1 DEF Steps
<1>6. ASSUME NEW y \in 1 .. n - 1
      PROVE  p.rate[y] <= p.rate[y + 1] /\ p.power[y] <= p.power[y + 1]
  <2>1. y \in 1 .. n /\ y + 1 \in 1 .. n
    BY <1>3
  <2>2. p.rate[y + 1] - p.rate[y] >= 0 /\ p.power[y + 1] - p.power[y] >= 0
    <3>1. Steps(p.rate)[y] >= 0 /\ Steps(p.power)[y] >= 0
      BY <1>1, <1>4, Zenon
    <3> QED
      BY <1>5, <3>1, Zenon
  <2>3. p.rate[y] \in Nat /\ p.rate[y + 1] \in Nat /\ p.power[y] \in Nat /\ p.power[y + 1] \in Nat
    BY <1>3, <2>1
  <2> QED
    BY ONLY <2>2, <2>3, SMTT(30)
<1>7. ASSUME NEW k \in 2 .. n - 1
      PROVE  /\ p.rate[k + 1] - p.rate[k] <= p.rate[k] - p.rate[k - 1]
             /\ p.power[k] - p.power[k - 1] <= p.power[k + 1] - p.power[k]
  <2>1. k \in 1 .. n - 1 /\ k - 1 \in 1 .. n - 1 /\ k > 1 /\ (k - 1) + 1 = k
    BY <1>3
  <2>2. /\ Steps(p.rate)[k] <= Steps(p.rate)[k - 1]
        /\ Steps(p.power)[k] >= Steps(p.power)[k - 1]
    BY <1>1, <1>4, <2>1
  <2>3. /\ Steps(p.rate)[k] = p.rate[k + 1] - p.rate[k]
        /\ Steps(p.power)[k] = p.power[k + 1] - p.power[k]
        /\ Steps(p.rate)[k - 1] = p.rate[k] - p.rate[k - 1]
        /\ Steps(p.power)[k - 1] = p.power[k] - p.power[k - 1]
    BY <1>5, <2>1
  <2>4. /\ p.rate[k + 1] \in Nat /\ p.rate[k] \in Nat /\ p.rate[k - 1] \in Nat
        /\ p.power[k + 1] \in Nat /\ p.power[k] \in Nat /\ p.power[k - 1] \in Nat
    <3>1. k \in 1 .. n /\ k - 1 \in 1 .. n /\ k + 1 \in 1 .. n
      BY <1>3
    <3> QED
      BY <1>3, <3>1
  <2> QED
    BY <2>2, <2>3, <2>4
<1> QED
  BY <1>3, <1>6, <1>7

\* What the shares of a job cost: themselves, or the power they draw.
Weight(j) ==
    IF objective = "throughput" THEN [y \in 1 .. MaxShare(profiles[j]) |-> y]
    ELSE profiles[j].power

\* Gains fall and costs rise along the shares of a job.
LEMMA JobShape ==
    ASSUME profiles \in UNION {[1 .. k -> Profiles] : k \in 1 .. MaxJobs},
           objective \in {"throughput", "energy"},
           NEW j \in Jobs, NEW n, n = MaxShare(profiles[j])
    PROVE  /\ n \in Nat \ {0} /\ profiles[j].rate \in [1 .. n -> Nat] /\ Weight(j) \in [1 .. n -> Nat]
           /\ \A y \in 1 .. n - 1 : /\ Gain(j, y) \in Nat /\ Cost(j, y) \in Nat
                                    /\ Gain(j, y) = profiles[j].rate[y + 1] - profiles[j].rate[y]
                                    /\ Cost(j, y) = Weight(j)[y + 1] - Weight(j)[y]
           /\ \A k \in 2 .. n - 1 : Gain(j, k) <= Gain(j, k - 1) /\ Cost(j, k - 1) <= Cost(j, k)
<1> DEFINE p == profiles[j]
<1>1. p \in Profiles /\ n = Len(p.rate)
  BY DEF Jobs, MaxShare
<1> HIDE DEF p
<1>2. /\ n \in Nat \ {0} /\ p.rate \in [1 .. n -> Nat] /\ p.power \in [1 .. n -> Nat]
      /\ \A y \in 1 .. n - 1 : p.rate[y] <= p.rate[y + 1] /\ p.power[y] <= p.power[y + 1]
      /\ \A k \in 2 .. n - 1 :
                /\ p.rate[k + 1] - p.rate[k] <= p.rate[k] - p.rate[k - 1]
                /\ p.power[k] - p.power[k - 1] <= p.power[k + 1] - p.power[k]
  BY <1>1, ProfileShape
<1>3. /\ Weight(j) = IF objective = "throughput" THEN [y \in 1 .. n |-> y] ELSE p.power
      /\ \A y : /\ Gain(j, y) = p.rate[y + 1] - p.rate[y]
                /\ Cost(j, y) = IF objective = "throughput" THEN 1 ELSE p.power[y + 1] - p.power[y]
  BY DEF Weight, Gain, Cost, p
<1>4. Weight(j) \in [1 .. n -> Nat]
  BY <1>2, <1>3
<1>5. ASSUME NEW y \in 1 .. n - 1
      PROVE  /\ Gain(j, y) \in Nat /\ Cost(j, y) \in Nat
             /\ Cost(j, y) = Weight(j)[y + 1] - Weight(j)[y]
  <2>1. y \in 1 .. n /\ y + 1 \in 1 .. n
    BY <1>2
  <2>2. p.rate[y] \in Nat /\ p.rate[y + 1] \in Nat /\ p.power[y] \in Nat /\ p.power[y + 1] \in Nat
    BY <1>2, <2>1
  <2>3. Gain(j, y) \in Nat
    BY <1>2, <1>3, <2>2, SMTT(30)
  <2>4. CASE objective = "throughput"
    <3>1. Weight(j)[y + 1] = y + 1 /\ Weight(j)[y] = y /\ Cost(j, y) = 1
      BY <1>3, <2>1, <2>4
    <3> QED
      BY <2>3, <3>1
  <2>5. CASE objective # "throughput"
    <3>1. Weight(j) = p.power /\ Cost(j, y) = p.power[y + 1] - p.power[y]
      BY <1>3, <2>5
    <3>2. p.power[y] <= p.power[y + 1]
      BY <1>2
    <3> QED
      BY <2>2, <2>3, <3>1, <3>2
  <2> QED
    BY <2>4, <2>5
<1>6. ASSUME NEW k \in 2 .. n - 1
      PROVE  Gain(j, k) <= Gain(j, k - 1) /\ Cost(j, k - 1) <= Cost(j, k)
  <2>1. k \in 1 .. n /\ k - 1 \in 1 .. n /\ k + 1 \in 1 .. n /\ (k - 1) + 1 = k
    BY <1>2
  <2>2. /\ p.rate[k + 1] - p.rate[k] <= p.rate[k] - p.rate[k - 1]
        /\ p.power[k] - p.power[k - 1] <= p.power[k + 1] - p.power[k]
    BY <1>2
  <2>3. Gain(j, k) = p.rate[k + 1] - p.rate[k] /\ Gain(j, k - 1) = p.rate[k] - p.rate[k - 1]
    BY <1>3, <2>1
  <2>4. CASE objective = "throughput"
    <3>1. Cost(j, k - 1) = 1 /\ Cost(j, k) = 1
      BY <1>3, <2>4
    <3> QED
      BY <2>2, <2>3, <3>1
  <2>5. CASE objective # "throughput"
    <3>1. Cost(j, k - 1) = p.power[k] - p.power[k - 1] /\ Cost(j, k) = p.power[k + 1] - p.power[k]
      BY <1>3, <2>1, <2>5
    <3> QED
      BY <2>2, <2>3, <3>1
  <2> QED
    BY <2>4, <2>5
<1> QED
  BY <1>2, <1>3, <1>4, <1>5, <1>6 DEF p

\* A call of one of the allocators.
Called ==
    /\ profiles \in UNION {[1 .. k -> Profiles] : k \in 1 .. MaxJobs}
    /\ objective \in {"throughput", "energy"}

\* The shares the jobs may have, one by one.
LEMMA SharesTyped ==
    ASSUME Called, NEW b
    PROVE  /\ IsFiniteSet(Jobs)
           /\ b \in SharesOf(profiles) <=>
                /\ b = [j \in Jobs |-> b[j]]
                /\ \A j \in Jobs : b[j] \in 1 .. MaxShare(profiles[j])
<1>1. PICK k \in 1 .. MaxJobs : profiles \in [1 .. k -> Profiles]
  BY Zenon DEF Called
<1>2. Jobs = 1 .. k /\ k \in Int
  BY <1>1, GreedyAssumption DEF Jobs
<1>3. IsFiniteSet(Jobs)
  BY <1>2, FS_Interval
<1>4. \A j \in Jobs : MaxShare(profiles[j]) \in Nat \ {0}
  BY JobShape DEF Called
<1> DEFINE U == UNION {1 .. MaxShare(profiles[j]) : j \in DOMAIN profiles}
<1>5. b \in SharesOf(profiles) <=> b \in [Jobs -> U] /\ \A j \in Jobs : b[j] <= MaxShare(profiles[j])
  BY DEF SharesOf, Jobs
<1>6. ASSUME NEW y \in U PROVE y \in Int /\ 1 <= y
  <2>1. PICK j \in Jobs : y \in 1 .. MaxShare(profiles[j])
    BY DEF Jobs
  <2> QED
    BY <1>4, <2>1
<1>7. ASSUME NEW j \in Jobs PROVE 1 .. MaxShare(profiles[j]) \subseteq U
  BY DEF Jobs
<1> HIDE DEF U
<1>8. ASSUME b \in SharesOf(profiles)
      PROVE  b = [j \in Jobs |-> b[j]] /\ \A j \in Jobs : b[j] \in 1 .. MaxShare(profiles[j])
  <2>1. b \in [Jobs -> U] /\ \A j \in Jobs : b[j] <= MaxShare(profiles[j])
    BY <1>5, <1>8
  <2>2. b = [j \in Jobs |-> b[j]]
    BY <2>1
  <2>3. ASSUME NEW j \in Jobs PROVE b[j] \in 1 .. MaxShare(profiles[j])
    <3>1. b[j] \in Int /\ 1 <= b[j] /\ b[j] <= MaxShare(profiles[j])
      BY <1>6, <2>1
    <3> QED
      BY <1>4, <3>1
  <2> QED
    BY <2>2, <2>3
<1>9. ASSUME b = [j \in Jobs |-> b[j]], \A j \in Jobs : b[j] \in 1 .. MaxShare(profiles[j])
      PROVE  b \in SharesOf(profiles)
  <2>1. \A j \in Jobs : b[j] \in U /\ b[j] <= MaxShare(profiles[j])
    BY <1>4, <1>7, <1>9
  <2>2. b \in [Jobs -> U]
    BY <1>9, <2>1
  <2> QED
    BY <1>5, <2>1, <2>2
<1> QED
  BY <1>3, <1>8, <1>9

\* The job with headroom has a next share, and one that was given a GPU a last.
LEMMA StepsTyped ==
    ASSUME GreedyInv, profiles # <<>>, NEW j \in Jobs, NEW n, n = MaxShare(profiles[j])
    PROVE  /\ n \in Nat \ {0} /\ alloc[j] \in 1 .. n /\ start[j] \in 1 .. n /\ start[j] <= alloc[j]
           /\ DeltaT(j) = Gain(j, alloc[j])
           /\ j \in Headroom => /\ alloc[j] \in 1 .. n - 1
                                /\ DeltaT(j) \in Nat /\ Cost(j, alloc[j]) \in Nat
           /\ alloc[j] > start[j] => /\ alloc[j] - 1 \in 1 .. n - 1
                                     /\ Gain(j, alloc[j] - 1) \in Nat /\ Cost(j, alloc[j] - 1) \in Nat
<1>1. /\ Called /\ alloc \in SharesOf(profiles) /\ start \in SharesOf(profiles)
      /\ start[j] <= alloc[j]
  BY DEF GreedyInv, Called
<1>2. /\ n \in Nat \ {0}
      /\ \A y \in 1 .. n - 1 : Gain(j, y) \in Nat /\ Cost(j, y) \in Nat
  BY <1>1, JobShape DEF Called
<1>3. alloc[j] \in 1 .. n /\ start[j] \in 1 .. n
  BY <1>1, SharesTyped
<1>4. DeltaT(j) = Gain(j, alloc[j])
  BY DEF DeltaT, Gain
<1>5. j \in Headroom => alloc[j] \in 1 .. n - 1
  BY <1>2, <1>3 DEF Headroom
<1>6. alloc[j] > start[j] => alloc[j] - 1 \in 1 .. n - 1
  BY <1>2, <1>3
<1> QED
  BY <1>1, <1>2, <1>3, <1>4, <1>5, <1>6

\* The best candidate gains most for what it costs.
LEMMA BestPaysLeast ==
    ASSUME GreedyInv, profiles # <<>>, NEW k, Best(k), NEW j \in Candidates
    PROVE  Cost(k, alloc[k]) * DeltaT(j) <= Cost(j, alloc[j]) * DeltaT(k)
<1>1. k \in Candidates /\ ~Better(j, k)
  BY DEF Best
<1>2. /\ j \in Headroom /\ k \in Headroom /\ j \in Jobs /\ k \in Jobs
  BY <1>1 DEF Candidates, Headroom
<1>3. /\ DeltaT(j) \in Nat /\ DeltaT(k) \in Nat
      /\ Cost(j, alloc[j]) \in Nat /\ Cost(k, alloc[k]) \in Nat
  BY <1>2, StepsTyped
<1>4. CASE objective = "throughput"
  <2>1. Cost(j, alloc[j]) = 1 /\ Cost(k, alloc[k]) = 1
    BY <1>4 DEF Cost
  <2>2. ~(DeltaT(j) > DeltaT(k))
    BY <1>1, <1>4 DEF Better
  <2> QED
    BY <1>3, <2>1, <2>2
<1>5. CASE objective # "throughput"
  <2>1. Cost(j, alloc[j]) = DeltaP(j) /\ Cost(k, alloc[k]) = DeltaP(k)
    BY <1>5 DEF Cost, DeltaP
  <2>2. ~(DeltaP(j) * DeltaT(k) < DeltaP(k) * DeltaT(j))
    BY <1>1, <1>5 DEF Better
  <2>3. /\ Cost(k, alloc[k]) * DeltaT(j) \in Nat /\ Cost(j, alloc[j]) * DeltaT(k) \in Nat
        /\ ~(Cost(j, alloc[j]) * DeltaT(k) < Cost(k, alloc[k]) * DeltaT(j))
    BY <1>3, <2>1, <2>2, NatProduct
  <2> DEFINE A == Cost(k, alloc[k]) * DeltaT(j)
             B == Cost(j, alloc[j]) * DeltaT(k)
  <2>4. A \in Nat /\ B \in Nat /\ ~(B < A)
    BY <2>3
  <2> HIDE DEF A, B
  <2>5. A <= B
    BY <2>4
  <2> QED
    BY <2>5 DEF A, B
<1> QED
  BY <1>4, <1>5

\* What a job paid for its last GPU stays below what any job would pay for the
\* next one, for the job that is given a GPU is the one that would pay least.
LEMMA GiveKeeps == ASSUME GreedyInv, Give PROVE GreedyInv'
<1>1. PICK g \in Jobs : Best(g) /\ alloc' = [alloc EXCEPT ![g] = @ + 1]
  BY DEF Give
<1>2. /\ profiles' = profiles /\ start' = start /\ available' = available /\ objective' = objective
      /\ CanGive
  BY DEF Give
<1>3. profiles # <<>>
  <2>1. g \in DOMAIN profiles
    BY <1>1 DEF Jobs
  <2>2. DOMAIN <<>> = {}
    OBVIOUS
  <2> QED
    BY <2>1, <2>2
<1>4. /\ Called /\ alloc \in SharesOf(profiles) /\ start \in SharesOf(profiles)
      /\ available \in Nat
      /\ \A j \in Jobs : start[j] <= alloc[j]
      /\ alloc = start \/ Total(alloc) <= available
      /\ Threshold
  BY <1>3 DEF GreedyInv, Called
<1>5. /\ IsFiniteSet(Jobs)
      /\ alloc = [j \in Jobs |-> alloc[j]] /\ start = [j \in Jobs |-> start[j]]
  BY <1>4, SharesTyped
<1>6. /\ g \in Candidates /\ g \in Headroom /\ (objective = "energy" => DeltaT(g) > 0)
  BY <1>1 DEF Best, Candidates
<1> DEFINE a == [j \in Jobs |-> IF j = g THEN alloc[j] + 1 ELSE alloc[j]]
<1>7. alloc' = a
  BY <1>1, <1>5, Zenon
<1>8. ASSUME NEW j \in Jobs
      PROVE  /\ MaxShare(profiles[j]) \in Nat \ {0}
             /\ alloc[j] \in 1 .. MaxShare(profiles[j]) /\ start[j] \in 1 .. MaxShare(profiles[j])
             /\ start[j] <= alloc[j]
             /\ DeltaT(j) = Gain(j, alloc[j])
             /\ j \in Headroom => /\ alloc[j] \in 1 .. MaxShare(profiles[j]) - 1
                                  /\ DeltaT(j) \in Nat /\ Cost(j, alloc[j]) \in Nat
             /\ alloc[j] > start[j] => /\ alloc[j] - 1 \in 1 .. MaxShare(profiles[j]) - 1
                                       /\ Gain(j, alloc[j] - 1) \in Nat
                                       /\ Cost(j, alloc[j] - 1) \in Nat
  BY <1>3, StepsTyped
<1>9. a \in SharesOf(profiles) /\ \A j \in Jobs : a[j] \in 1 .. MaxShare(profiles[j]) /\ start[j] <= a[j]
  <2>1. ASSUME NEW j \in Jobs PROVE a[j] \in 1 .. MaxShare(profiles[j]) /\ start[j] <= a[j]
    BY <1>6, <1>8
  <2>2. a = [j \in Jobs |-> a[j]]
    BY Zenon
  <2> HIDE DEF a
  <2> QED
    BY <1>4, <2>1, <2>2, SharesTyped
<1>10. Total(a) <= available
  <2>1. IntegersOn(alloc, Jobs)
    BY <1>8 DEF IntegersOn
  <2>2. IntegersOn(a, Jobs)
    BY <1>8 DEF IntegersOn
  <2>3. a[g] = alloc[g] + 1 /\ \A j \in Jobs \ {g} : a[j] = alloc[j]
    OBVIOUS
  <2> HIDE DEF a
  <2>4. /\ SumOver(alloc, Jobs) = alloc[g] + SumOver(alloc, Jobs \ {g})
        /\ SumOver(a, Jobs) = a[g] + SumOver(a, Jobs \ {g})
        /\ SumOver(alloc, Jobs) \in Int
    BY <1>5, <2>1, <2>2, SumStep
  <2>5. SumOver(a, Jobs \ {g}) = SumOver(alloc, Jobs \ {g})
    <3>1. IsFiniteSet(Jobs \ {g}) /\ IntegersOn(alloc, Jobs \ {g})
      BY <1>5, <2>1, FS_Subset DEF IntegersOn
    <3> QED
      BY <2>3, <3>1, SumSame
  <2>6. SumOver(alloc, Jobs \ {g}) \in Int
    <3>1. IsFiniteSet(Jobs \ {g}) /\ IntegersOn(alloc, Jobs \ {g})
      BY <1>5, <2>1, FS_Subset DEF IntegersOn
    <3> QED
      BY <3>1, SumStep
  <2>7. Total(a) = Total(alloc) + 1 /\ Total(alloc) \in Int
    <3>1. alloc[g] \in Int
      BY <1>8
    <3> QED
      BY <2>3, <2>4, <2>5, <2>6, <3>1, TotalSum
  <2>8. available > Total(alloc)
    BY <1>2 DEF CanGive
  <2> QED
    BY <1>4, <2>7, <2>8
<1> DEFINE Room == {j \in Jobs : a[j] < MaxShare(profiles[j])}
           Cand == IF objective = "throughput" THEN Room
                   ELSE {j \in Room : Gain(j, a[j]) > 0}
           Thr == \A i \in Jobs : a[i] > start[i] =>
                    /\ objective = "energy" => Gain(i, a[i] - 1) > 0
                    /\ \A j \in Cand :
                         Cost(i, a[i] - 1) * Gain(j, a[j]) <= Cost(j, a[j]) * Gain(i, a[i] - 1)
<1>11. Thr
  <2> SUFFICES ASSUME NEW i \in Jobs, a[i] > start[i]
               PROVE  /\ objective = "energy" => Gain(i, a[i] - 1) > 0
                      /\ \A j \in Cand :
                           Cost(i, a[i] - 1) * Gain(j, a[j]) <= Cost(j, a[j]) * Gain(i, a[i] - 1)
    BY Zenon
  <2>0. g \in Jobs
    OBVIOUS
  <2> DEFINE C == Cost(i, a[i] - 1)
             G == Gain(i, a[i] - 1)
  \* At the shares before the step.
  <2>1. /\ C \in Nat /\ G \in Nat /\ (objective = "energy" => G > 0)
        /\ \A j \in Candidates : C * DeltaT(j) <= Cost(j, alloc[j]) * G
    <3>1. CASE i = g
      <4>1. a[i] - 1 = alloc[g]
        BY <1>8, <3>1
      <4>2. C = Cost(g, alloc[g]) /\ G = DeltaT(g)
        BY <1>8, <3>1, <4>1
      <4>3. \A j \in Candidates : Cost(g, alloc[g]) * DeltaT(j) <= Cost(j, alloc[j]) * DeltaT(g)
        BY <1>1, <1>3, BestPaysLeast
      <4>4. Cost(g, alloc[g]) \in Nat /\ DeltaT(g) \in Nat
        BY <1>6, <1>8
      <4> HIDE DEF C, G
      <4> QED
        BY <1>6, <4>2, <4>3, <4>4
    <3>2. CASE i # g
      <4>1. a[i] = alloc[i] /\ alloc[i] > start[i]
        BY <3>2
      <4>2. C = Cost(i, alloc[i] - 1) /\ G = Gain(i, alloc[i] - 1)
        BY <4>1
      <4>3. /\ objective = "energy" => Gain(i, alloc[i] - 1) > 0
            /\ \A j \in Candidates :
                 Cost(i, alloc[i] - 1) * DeltaT(j) <= Cost(j, alloc[j]) * Gain(i, alloc[i] - 1)
        BY <1>4, <4>1 DEF Threshold
      <4>4. Cost(i, alloc[i] - 1) \in Nat /\ Gain(i, alloc[i] - 1) \in Nat
        BY <1>8, <4>1
      <4> HIDE DEF C, G
      <4> QED
        BY <4>2, <4>3, <4>4
    <3> QED
      BY <3>1, <3>2
  <2> HIDE DEF C, G
  <2>2. ASSUME NEW j \in Cand PROVE C * Gain(j, a[j]) <= Cost(j, a[j]) * G
    <3>1. CASE j = g
      <4>1. a[g] = alloc[g] + 1 /\ g \in Room
        BY <2>0, <3>1
      <4> DEFINE n == MaxShare(profiles[g])
                 k == alloc[g] + 1
      <4>2. k \in 2 .. n - 1 /\ k - 1 = alloc[g] /\ alloc[g] \in 1 .. n - 1 /\ k \in 1 .. n - 1
        BY <1>8, <2>0, <4>1
      <4>3. /\ \A y \in 1 .. n - 1 : Gain(g, y) \in Nat /\ Cost(g, y) \in Nat
            /\ Gain(g, k) <= Gain(g, k - 1) /\ Cost(g, k - 1) <= Cost(g, k)
        BY <1>4, <4>2, JobShape DEF Called
      <4>4. a[j] = k /\ DeltaT(g) = Gain(g, alloc[g])
        BY <1>8, <3>1, <4>1
      <4> HIDE DEF k, n
      <4> DEFINE G0 == Gain(g, alloc[g])
                 G1 == Gain(g, k)
                 C0 == Cost(g, alloc[g])
                 C1 == Cost(g, k)
      <4>5. /\ G0 \in Nat /\ G1 \in Nat /\ C0 \in Nat /\ C1 \in Nat
            /\ G1 <= G0 /\ C0 <= C1
        BY <4>2, <4>3
      <4>6. C * G0 <= C0 * G
        BY <1>6, <2>1, <4>4, Zenon
      <4> HIDE DEF G0, G1, C0, C1
      <4>7. C * G1 <= C * G0 /\ C0 * G <= C1 * G
        BY <2>1, <4>5, Scaled
      <4>8. C * G1 \in Nat /\ C * G0 \in Nat /\ C0 * G \in Nat /\ C1 * G \in Nat
        BY <2>1, <4>5, NatProduct
      <4>9. C * G1 <= C1 * G
        BY <4>6, <4>7, <4>8
      <4> QED
        BY <3>1, <4>4, <4>9 DEF G1, C1
    <3>2. CASE j # g
      <4>1. j \in Jobs /\ a[j] = alloc[j]
        BY <3>2
      <4>2. j \in Candidates
        BY <1>8, <4>1 DEF Candidates, Headroom
      <4> QED
        BY <1>8, <2>1, <4>1, <4>2
    <3> QED
      BY <3>1, <3>2
  <2> QED
    BY <2>1, <2>2 DEF C, G
<1>12. Threshold'
  <2>1. Jobs' = Jobs /\ Candidates' = Cand
    BY <1>2, <1>7 DEF Candidates, Headroom, DeltaT, Gain, MaxShare, Jobs
  <2>2. ASSUME NEW i
        PROVE  /\ Gain(i, alloc[i] - 1)' = Gain(i, a[i] - 1) /\ Cost(i, alloc[i] - 1)' = Cost(i, a[i] - 1)
               /\ Cost(i, alloc[i])' = Cost(i, a[i]) /\ DeltaT(i)' = Gain(i, a[i])
    <3> HIDE DEF a
    <3> QED
      BY <1>2, <1>7, Zenon DEF Gain, Cost, DeltaT
  <2> HIDE DEF Cand, a
  <2>3. ASSUME NEW i \in Jobs, a[i] > start[i]
        PROVE  /\ objective = "energy" => Gain(i, a[i] - 1) > 0
               /\ \A j \in Cand :
                    Cost(i, a[i] - 1) * Gain(j, a[j]) <= Cost(j, a[j]) * Gain(i, a[i] - 1)
    BY <1>11, <2>3, Zenon
  <2> HIDE DEF Thr
  <2> SUFFICES ASSUME NEW i \in Jobs', (alloc[i] > start[i])'
               PROVE  /\ (objective = "energy" => Gain(i, alloc[i] - 1) > 0)'
                      /\ \A j \in Candidates' :
                           (Cost(i, alloc[i] - 1) * DeltaT(j) <= Cost(j, alloc[j]) * Gain(i, alloc[i] - 1))'
    BY Zenon DEF Threshold
  <2>4. i \in Jobs /\ a[i] > start[i]
    BY <1>2, <1>7, <2>1, Zenon
  <2> QED
    BY <1>2, <2>1, <2>2, <2>3, <2>4, Zenon
<1> HIDE DEF a, Cand, Room, Thr
<1>13. SharesOf(profiles)' = SharesOf(profiles) /\ Total(alloc)' = Total(a) /\ Jobs' = Jobs
  <2>1. SharesOf(profiles)' = SharesOf(profiles) /\ Jobs' = Jobs
    BY <1>2, SMT DEF SharesOf, MaxShare, Jobs
  <2>2. Total(alloc)' = Total(a)
    <3>1. Total(alloc)' = SumOver(alloc', Jobs')
      BY Zenon DEF Total, SumOver, MapThenSumSet, MapThenFoldSet, Jobs
    <3> QED
      BY <1>7, <2>1, <3>1, TotalSum, Zenon
  <2> QED
    BY <2>1, <2>2
<1> QED
  BY <1>2, <1>4, <1>7, <1>9, <1>10, <1>12, <1>13 DEF GreedyInv, Called

\* When the allocator returns, a weighing of gains against costs puts every step
\* taken on one side and every step left on the other.
LEMMA Separates ==
    ASSUME GreedyInv, profiles # <<>>
    PROVE  \E u, v \in Nat :
             /\ objective = "throughput" => u = 1 /\ (Candidates = {} => v = 0)
             /\ objective = "energy" => v > 0
             /\ \A j \in Jobs :
                  /\ j \in Headroom => u * DeltaT(j) <= v * Cost(j, alloc[j])
                  /\ alloc[j] > start[j] => v * Cost(j, alloc[j] - 1) <= u * Gain(j, alloc[j] - 1)
<1> DEFINE Separated(u, v) ==
             /\ objective = "throughput" => u = 1 /\ (Candidates = {} => v = 0)
             /\ objective = "energy" => v > 0
             /\ \A j \in Jobs :
                  /\ j \in Headroom => u * DeltaT(j) <= v * Cost(j, alloc[j])
                  /\ alloc[j] > start[j] => v * Cost(j, alloc[j] - 1) <= u * Gain(j, alloc[j] - 1)
<1>1. Called /\ Threshold /\ alloc \in SharesOf(profiles)
  BY DEF GreedyInv, Called
<1>2. IsFiniteSet(Jobs)
  BY <1>1, SharesTyped
<1>3. ASSUME NEW j \in Jobs
      PROVE  /\ j \in Headroom => /\ DeltaT(j) \in Nat /\ Cost(j, alloc[j]) \in Nat
             /\ alloc[j] > start[j] => /\ Gain(j, alloc[j] - 1) \in Nat
                                       /\ Cost(j, alloc[j] - 1) \in Nat
             /\ alloc[j] \in Int /\ start[j] \in Int
  BY StepsTyped
<1>4. /\ objective \in {"throughput", "energy"}
      /\ Candidates \subseteq Headroom /\ Headroom \subseteq Jobs
      /\ objective = "throughput" => Candidates = Headroom
      /\ objective = "energy" => Candidates = {j \in Headroom : DeltaT(j) > 0}
  BY <1>1 DEF Called, Candidates, Headroom
<1>5. ASSUME Candidates # {} PROVE \E u, v \in Nat : Separated(u, v)
  <2> DEFINE c == [j \in Candidates |-> Cost(j, alloc[j])]
             d == [j \in Candidates |-> DeltaT(j)]
  <2>1. /\ IsFiniteSet(Candidates)
        /\ \A j \in Candidates : c[j] \in Nat /\ d[j] \in Nat /\ (d[j] > 0 \/ c[j] > 0)
    <3>1. IsFiniteSet(Candidates)
      BY <1>2, <1>4, FS_Subset
    <3>2. ASSUME NEW j \in Candidates PROVE c[j] \in Nat /\ d[j] \in Nat /\ (d[j] > 0 \/ c[j] > 0)
      <4>1. c[j] \in Nat /\ d[j] \in Nat
        BY <1>3, <1>4
      <4>2. objective = "throughput" => c[j] = 1
        BY DEF Cost
      <4>3. objective = "energy" => d[j] > 0
        BY <1>4
      <4> HIDE DEF c, d
      <4> QED
        BY <1>4, <4>1, <4>2, <4>3
    <3> QED
      BY <3>1, <3>2
  <2>2. \A j \in Candidates : c[j] = Cost(j, alloc[j]) /\ d[j] = DeltaT(j)
    OBVIOUS
  <2> HIDE DEF c, d
  <2>3. PICK k \in Candidates : \A j \in Candidates : c[k] * d[j] <= c[j] * d[k]
    BY <1>5, <2>1, Cheapest
  <2> DEFINE u == Cost(k, alloc[k])
             v == DeltaT(k)
  <2>4. /\ u \in Nat /\ v \in Nat
        /\ objective = "throughput" => u = 1
        /\ objective = "energy" => v > 0
    <3>1. u \in Nat /\ v \in Nat
      BY <2>1, <2>2, Zenon
    <3>2. objective = "throughput" => u = 1
      BY DEF Cost
    <3>3. objective = "energy" => v > 0
      BY <1>4
    <3> QED
      BY <3>1, <3>2, <3>3
  <2>5. \A j \in Candidates : u * DeltaT(j) <= Cost(j, alloc[j]) * v
    BY <2>2, <2>3, Zenon
  <2>6. ASSUME NEW j \in Jobs, j \in Headroom PROVE u * DeltaT(j) <= v * Cost(j, alloc[j])
    <3>1. DeltaT(j) \in Nat /\ Cost(j, alloc[j]) \in Nat
      BY <1>3, <2>6
    <3>2. CASE j \in Candidates
      <4>1. u * DeltaT(j) <= Cost(j, alloc[j]) * v
        BY <2>5, <3>2
      <4>2. Cost(j, alloc[j]) * v = v * Cost(j, alloc[j])
        BY <2>4, <3>1
      <4> QED
        BY <4>1, <4>2, Zenon
    <3>3. CASE j \notin Candidates
      <4>1. DeltaT(j) = 0
        BY <1>4, <2>6, <3>1, <3>3
      <4> HIDE DEF u, v
      <4>2. u * DeltaT(j) = 0 /\ v * Cost(j, alloc[j]) \in Nat
        BY <2>4, <3>1, <4>1, NatProduct
      <4> QED
        BY <4>2
    <3> QED
      BY <3>2, <3>3
  <2>7. ASSUME NEW j \in Jobs, alloc[j] > start[j]
        PROVE  v * Cost(j, alloc[j] - 1) <= u * Gain(j, alloc[j] - 1)
    <3>1. Cost(j, alloc[j] - 1) * v <= u * Gain(j, alloc[j] - 1)
      BY <1>1, <2>7 DEF Threshold
    <3>2. Cost(j, alloc[j] - 1) \in Nat
      BY <1>3, <2>7
    <3>3. Cost(j, alloc[j] - 1) * v = v * Cost(j, alloc[j] - 1)
      BY <2>4, <3>2
    <3> QED
      BY <3>1, <3>3, Zenon
  <2> HIDE DEF u, v
  <2>8. Separated(u, v)
    BY <1>5, <2>4, <2>6, <2>7, Zenon
  <2> QED
    BY <2>4, <2>8, Zenon
<1>6. ASSUME Candidates = {}, objective = "throughput" PROVE \E u, v \in Nat : Separated(u, v)
  <2>1. Headroom = {}
    BY <1>4, <1>6
  <2>2. ASSUME NEW j \in Jobs, alloc[j] > start[j]
        PROVE  0 * Cost(j, alloc[j] - 1) <= 1 * Gain(j, alloc[j] - 1)
    BY <1>3, <2>2
  <2>3. Separated(1, 0)
    <3>1. objective # "energy"
      BY <1>6
    <3> QED
      BY <2>1, <2>2, <3>1, Zenon
  <2>4. 1 \in Nat /\ 0 \in Nat
    OBVIOUS
  <2> QED
    BY <2>3, <2>4, Zenon
<1>7. ASSUME Candidates = {}, objective = "energy" PROVE \E u, v \in Nat : Separated(u, v)
  <2> DEFINE f == [j \in Jobs |-> IF alloc[j] > start[j] THEN Cost(j, alloc[j] - 1) ELSE 0]
             u == SumOver(f, Jobs)
  <2>1. \A j \in Jobs : f[j] \in Nat
    BY <1>3
  <2>2. \A j \in Jobs : alloc[j] > start[j] => f[j] = Cost(j, alloc[j] - 1)
    OBVIOUS
  <2> HIDE DEF f
  <2>3. u \in Nat /\ \A j \in Jobs : f[j] <= u
    BY <1>2, <2>1, SumNaturals
  <2> HIDE DEF u
  <2>4. ASSUME NEW j \in Jobs, j \in Headroom PROVE u * DeltaT(j) <= 1 * Cost(j, alloc[j])
    <3>1. DeltaT(j) \in Nat /\ Cost(j, alloc[j]) \in Nat
      BY <1>3, <2>4
    <3>2. DeltaT(j) = 0
      BY <1>4, <1>7, <2>4, <3>1
    <3> QED
      BY <2>3, <3>1, <3>2
  <2>5. ASSUME NEW j \in Jobs, alloc[j] > start[j]
        PROVE  1 * Cost(j, alloc[j] - 1) <= u * Gain(j, alloc[j] - 1)
    <3> DEFINE C == Cost(j, alloc[j] - 1)
               G == Gain(j, alloc[j] - 1)
    <3>1. C \in Nat /\ G \in Nat /\ G > 0
      BY <1>1, <1>3, <1>7, <2>5 DEF Threshold
    <3>2. C <= u
      BY <2>2, <2>3, <2>5
    <3> HIDE DEF C, G
    <3>3. u * 1 <= u * G
      BY <2>3, <3>1, Scaled
    <3>4. u * G \in Nat
      BY <2>3, <3>1, NatProduct
    <3>5. 1 * C <= u * G
      BY <2>3, <3>1, <3>2, <3>3, <3>4
    <3> QED
      BY <3>5 DEF C, G
  <2>6. Separated(u, 1)
    <3>1. objective # "throughput" /\ 1 > 0
      BY <1>7
    <3> QED
      BY <2>4, <2>5, <3>1, Zenon
  <2>7. 1 \in Nat
    OBVIOUS
  <2> QED
    BY <2>3, <2>6, <2>7, Zenon
<1> HIDE DEF Separated
<1>8. \E u, v \in Nat : Separated(u, v)
  BY <1>4, <1>5, <1>6, <1>7
<1> QED
  BY <1>8 DEF Separated

\* What holds of every gain against its cost holds of their sums.
LEMMA WeighedSums ==
    ASSUME NEW S, IsFiniteSet(S), NEW u \in Nat, NEW v \in Nat, NEW ra, NEW rb, NEW wa, NEW wb,
           \A j \in S : ra[j] \in Nat /\ rb[j] \in Nat /\ wa[j] \in Nat /\ wb[j] \in Nat,
           \A j \in S : u * (rb[j] - ra[j]) <= v * (wb[j] - wa[j])
    PROVE  /\ SumOver(ra, S) \in Nat /\ SumOver(rb, S) \in Nat
           /\ SumOver(wa, S) \in Nat /\ SumOver(wb, S) \in Nat
           /\ u * (SumOver(rb, S) - SumOver(ra, S)) <= v * (SumOver(wb, S) - SumOver(wa, S))
<1>1. /\ SumOver(ra, S) \in Nat /\ SumOver(rb, S) \in Nat
      /\ SumOver(wa, S) \in Nat /\ SumOver(wb, S) \in Nat
  BY SumNaturals
<1>2. IntegersOn(ra, S) /\ IntegersOn(rb, S) /\ IntegersOn(wa, S) /\ IntegersOn(wb, S)
  BY DEF IntegersOn
<1>3. ASSUME NEW r, NEW w, IntegersOn(r, S), IntegersOn(w, S)
      PROVE  /\ IntegersOn([j \in S |-> v * w[j] - u * r[j]], S)
             /\ SumOver([j \in S |-> v * w[j] - u * r[j]], S) = v * SumOver(w, S) - u * SumOver(r, S)
  <2> DEFINE f == [j \in S |-> v * w[j]]
             h == [j \in S |-> v * w[j] - u * r[j]]
  <2>1. \A j \in S : w[j] \in Int /\ r[j] \in Int
    BY <1>3 DEF IntegersOn
  <2>2. \A y \in Int : v * y \in Int /\ u * y \in Int /\ (-u) * y = -(u * y)
    OBVIOUS
  <2>3. \A j \in S : f[j] = v * w[j] /\ h[j] = v * w[j] - u * r[j]
    OBVIOUS
  <2> HIDE DEF f, h
  <2>4. IntegersOn(f, S) /\ IntegersOn(h, S)
    BY <2>1, <2>2, <2>3 DEF IntegersOn
  <2>5. SumOver(f, S) = v * SumOver(w, S)
    BY <1>3, <2>3, SumScaled
  <2>6. Combines(h, f, -u, r, S)
    BY <2>1, <2>2, <2>3 DEF Combines
  <2>7. SumOver(h, S) = SumOver(f, S) + (-u) * SumOver(r, S)
    <3>1. -u \in Int
      OBVIOUS
    <3> QED
      BY <1>3, <2>4, <2>6, <3>1, SumLinear
  <2>8. SumOver(r, S) \in Int /\ SumOver(w, S) \in Int
    BY <1>3, SumStep
  <2>9. SumOver(h, S) = v * SumOver(w, S) - u * SumOver(r, S)
    BY <2>2, <2>5, <2>7, <2>8
  <2> QED
    BY <2>4, <2>9 DEF h
<1> DEFINE f == [j \in S |-> v * wa[j] - u * ra[j]]
           g == [j \in S |-> v * wb[j] - u * rb[j]]
<1>4. /\ IntegersOn(f, S) /\ SumOver(f, S) = v * SumOver(wa, S) - u * SumOver(ra, S)
      /\ IntegersOn(g, S) /\ SumOver(g, S) = v * SumOver(wb, S) - u * SumOver(rb, S)
  BY <1>2, <1>3
<1>5. ASSUME NEW j \in S PROVE f[j] <= g[j]
  <2>1. f[j] = v * wa[j] - u * ra[j] /\ g[j] = v * wb[j] - u * rb[j]
    OBVIOUS
  <2> HIDE DEF f, g
  <2>2. /\ wa[j] \in Nat /\ wb[j] \in Nat /\ ra[j] \in Nat /\ rb[j] \in Nat
        /\ u * (rb[j] - ra[j]) <= v * (wb[j] - wa[j])
    OBVIOUS
  <2>3. v * wa[j] - u * ra[j] <= v * wb[j] - u * rb[j]
    BY ONLY u \in Nat, v \in Nat, <2>2, Weighed, Zenon
  <2> QED
    BY <2>1, <2>3, Zenon
<1> HIDE DEF f, g
<1>6. SumOver(f, S) <= SumOver(g, S)
  BY <1>4, <1>5, SumAtMost
<1>7. v * SumOver(wa, S) - u * SumOver(ra, S) <= v * SumOver(wb, S) - u * SumOver(rb, S)
  BY <1>4, <1>6, Zenon
<1>8. u * (SumOver(rb, S) - SumOver(ra, S)) <= v * (SumOver(wb, S) - SumOver(wa, S))
  BY ONLY u \in Nat, v \in Nat, <1>1, <1>7, Weighed, Zenon
<1> QED
  BY <1>1, <1>8

\* A greedy choice nobody can improve on: whatever the others gain over it, they pay for.
LEMMA NoneBetter == ASSUME GreedyInv PROVE GreedyIsBest
<1> SUFFICES ASSUME profiles # <<>>, ~CanGive
             PROVE  /\ alloc \in Others
                    /\ \A b \in Others :
                         IF objective = "throughput" THEN Rate(b) <= Rate(alloc)
                         ELSE Rate(b) >= Rate(alloc) => Power(b) >= Power(alloc)
  BY DEF GreedyIsBest
<1>1. /\ Called /\ alloc \in SharesOf(profiles) /\ start \in SharesOf(profiles)
      /\ available \in Nat
      /\ \A j \in Jobs : start[j] <= alloc[j]
      /\ alloc = start \/ Total(alloc) <= available
  BY DEF GreedyInv, Called
<1>2. alloc \in Others
  BY <1>1 DEF Others
<1> SUFFICES ASSUME NEW b \in Others
             PROVE  IF objective = "throughput" THEN Rate(b) <= Rate(alloc)
                    ELSE Rate(b) >= Rate(alloc) => Power(b) >= Power(alloc)
  BY <1>2
<1>3. /\ b \in SharesOf(profiles) /\ \A j \in Jobs : start[j] <= b[j]
      /\ b = start \/ Total(b) <= available
  BY DEF Others
<1>4. IsFiniteSet(Jobs) /\ \A j \in Jobs : /\ alloc[j] \in 1 .. MaxShare(profiles[j])
                                           /\ start[j] \in 1 .. MaxShare(profiles[j])
                                           /\ b[j] \in 1 .. MaxShare(profiles[j])
  BY <1>1, <1>3, SharesTyped
<1>5. PICK u \in Nat, v \in Nat :
             /\ objective = "throughput" => u = 1 /\ (Candidates = {} => v = 0)
             /\ objective = "energy" => v > 0
             /\ \A j \in Jobs :
                  /\ j \in Headroom => u * DeltaT(j) <= v * Cost(j, alloc[j])
                  /\ alloc[j] > start[j] => v * Cost(j, alloc[j] - 1) <= u * Gain(j, alloc[j] - 1)
  BY Separates
<1> DEFINE ra == [j \in Jobs |-> profiles[j].rate[alloc[j]]]
           rb == [j \in Jobs |-> profiles[j].rate[b[j]]]
           wa == [j \in Jobs |-> Weight(j)[alloc[j]]]
           wb == [j \in Jobs |-> Weight(j)[b[j]]]
<1>6. ASSUME NEW j \in Jobs
      PROVE  /\ ra[j] \in Nat /\ rb[j] \in Nat /\ wa[j] \in Nat /\ wb[j] \in Nat
             /\ u * (rb[j] - ra[j]) <= v * (wb[j] - wa[j])
  <2> DEFINE n == MaxShare(profiles[j])
             r == profiles[j].rate
             w == Weight(j)
             k == alloc[j]
             m == b[j]
  <2>1. /\ n \in Nat \ {0} /\ r \in [1 .. n -> Nat] /\ w \in [1 .. n -> Nat]
        /\ \A y \in 1 .. n - 1 : /\ Gain(j, y) = r[y + 1] - r[y]
                                 /\ Cost(j, y) = w[y + 1] - w[y]
        /\ \A y \in 2 .. n - 1 : Gain(j, y) <= Gain(j, y - 1) /\ Cost(j, y - 1) <= Cost(j, y)
    BY <1>1, JobShape DEF Called
  <2>2. k \in 1 .. n /\ m \in 1 .. n /\ start[j] \in 1 .. n /\ start[j] <= m
    BY <1>3, <1>4
  <2>3. DeltaT(j) = Gain(j, k)
    BY DEF DeltaT, Gain
  <2>4. k < n => u * Gain(j, k) <= v * Cost(j, k)
    BY <1>5, <2>3 DEF Headroom
  <2>5. k > start[j] => v * Cost(j, k - 1) <= u * Gain(j, k - 1)
    BY <1>5
  <2>6. ra[j] = r[k] /\ rb[j] = r[m] /\ wa[j] = w[k] /\ wb[j] = w[m]
    OBVIOUS
  <2> HIDE DEF n, r, w, k, m, ra, rb, wa, wb
  <2>7. \A y \in 2 .. n - 1 : /\ r[y + 1] - r[y] <= r[y] - r[y - 1]
                              /\ w[y] - w[y - 1] <= w[y + 1] - w[y]
    <3> SUFFICES ASSUME NEW y \in 2 .. n - 1
                 PROVE  /\ r[y + 1] - r[y] <= r[y] - r[y - 1]
                        /\ w[y] - w[y - 1] <= w[y + 1] - w[y]
      OBVIOUS
    <3>1. y \in 1 .. n - 1 /\ y - 1 \in 1 .. n - 1 /\ (y - 1) + 1 = y
      BY <2>1
    <3>2. /\ Gain(j, y) = r[y + 1] - r[y] /\ Gain(j, y - 1) = r[y] - r[y - 1]
          /\ Cost(j, y) = w[y + 1] - w[y] /\ Cost(j, y - 1) = w[y] - w[y - 1]
      BY <2>1, <3>1
    <3> QED
      BY <2>1, <3>2
  <2>8. k < n => u * (r[k + 1] - r[k]) <= v * (w[k + 1] - w[k])
    <3>1. k < n => k \in 1 .. n - 1
      BY <2>1, <2>2
    <3> QED
      BY <2>1, <2>4, <3>1, Zenon
  <2>9. m < k => v * (w[k] - w[k - 1]) <= u * (r[k] - r[k - 1])
    <3> SUFFICES ASSUME m < k PROVE v * (w[k] - w[k - 1]) <= u * (r[k] - r[k - 1])
      OBVIOUS
    <3>1. k > start[j] /\ k - 1 \in 1 .. n - 1 /\ (k - 1) + 1 = k
      BY <2>1, <2>2
    <3>2. Gain(j, k - 1) = r[k] - r[k - 1] /\ Cost(j, k - 1) = w[k] - w[k - 1]
      BY <2>1, <3>1
    <3> QED
      BY <2>5, <3>1, <3>2, Zenon
  <2>10. u * (r[m] - r[k]) <= v * (w[m] - w[k])
    <3>1. n \in Nat
      BY <2>1
    <3> QED
      BY ONLY u \in Nat, v \in Nat, <3>1, <2>1, <2>2, <2>7, <2>8, <2>9, Support
  <2>11. r[k] \in Nat /\ r[m] \in Nat /\ w[k] \in Nat /\ w[m] \in Nat
    BY <2>1, <2>2
  <2> QED
    BY <2>6, <2>10, <2>11, Zenon
<1>7. /\ Rate(alloc) = SumOver(ra, Jobs) /\ Rate(b) = SumOver(rb, Jobs)
  BY TotalSum DEF Rate
<1>8. objective = "energy" => /\ Power(alloc) = SumOver(wa, Jobs) /\ Power(b) = SumOver(wb, Jobs)
  <2> SUFFICES ASSUME objective = "energy"
               PROVE  Power(alloc) = SumOver(wa, Jobs) /\ Power(b) = SumOver(wb, Jobs)
    OBVIOUS
  <2>1. \A j \in Jobs : Weight(j) = profiles[j].power
    BY DEF Weight
  <2>2. /\ wa = [j \in Jobs |-> profiles[j].power[alloc[j]]]
        /\ wb = [j \in Jobs |-> profiles[j].power[b[j]]]
    BY <2>1
  <2> HIDE DEF wa, wb
  <2> QED
    BY <2>2, TotalSum DEF Power
<1>9. objective = "throughput" => \A j \in Jobs : wa[j] = alloc[j] /\ wb[j] = b[j]
  BY <1>4 DEF Weight
<1> HIDE DEF ra, rb, wa, wb
<1>10. /\ SumOver(ra, Jobs) \in Nat /\ SumOver(rb, Jobs) \in Nat
       /\ SumOver(wa, Jobs) \in Nat /\ SumOver(wb, Jobs) \in Nat
       /\ u * (SumOver(rb, Jobs) - SumOver(ra, Jobs)) <= v * (SumOver(wb, Jobs) - SumOver(wa, Jobs))
  BY ONLY u \in Nat, v \in Nat, <1>4, <1>6, WeighedSums, ZenonT(40)
<1> DEFINE A == SumOver(ra, Jobs)
           B == SumOver(rb, Jobs)
           C == SumOver(wa, Jobs)
           D == SumOver(wb, Jobs)
<1>11. /\ A \in Nat /\ B \in Nat /\ C \in Nat /\ D \in Nat
       /\ u * (B - A) <= v * (D - C)
  BY <1>10
<1>12. CASE objective = "throughput"
  <2>1. /\ IntegersOn(alloc, Jobs) /\ IntegersOn(b, Jobs) /\ IntegersOn(start, Jobs)
    BY <1>4 DEF IntegersOn
  <2>2. C = Total(alloc) /\ D = Total(b)
    BY <1>4, <1>9, <1>12, <2>1, SumSame, TotalSum
  <2>3. Total(start) <= Total(alloc)
    BY <1>1, <1>4, <2>1, SumAtMost, TotalSum
  <2>4. Candidates # {} => D <= C
    <3>1. Candidates # {} => available <= Total(alloc)
      <4>1. Total(alloc) \in Int /\ available \in Int
        BY <1>1, <1>11, <2>2
      <4> QED
        BY <4>1 DEF CanGive
    <3>2. Total(b) <= available \/ Total(b) <= Total(alloc)
      BY <1>3, <2>3, Zenon
    <3>3. Total(alloc) \in Int /\ Total(b) \in Int /\ available \in Int
      BY <1>1, <1>11, <2>2
    <3>4. Candidates # {} => Total(b) <= Total(alloc)
      BY ONLY <3>1, <3>2, <3>3
    <3> QED
      BY <2>2, <3>4, Zenon
  <2> HIDE DEF A, B, C, D
  <2>5. v * (D - C) <= 0
    <3>1. CASE Candidates = {}
      <4>1. v = 0
        BY <1>5, <1>12, <3>1
      <4> QED
        BY <1>11, <4>1
    <3>2. CASE Candidates # {}
      <4>1. C - D \in Nat
        BY <1>11, <2>4, <3>2
      <4>2. v * (C - D) \in Nat
        BY <4>1, NatProduct
      <4>3. v * (D - C) = -(v * (C - D))
        BY <1>11
      <4> QED
        BY <4>2, <4>3
    <3> QED
      BY <3>1, <3>2
  <2>6. u = 1
    BY <1>5, <1>12
  <2>7. B - A <= v * (D - C)
    BY <1>11, <2>6
  <2>8. v * (D - C) \in Int
    BY <1>11
  <2>9. B <= A
    BY <1>11, <2>5, <2>7, <2>8
  <2> QED
    BY <1>7, <1>12, <2>9 DEF A, B
<1>13. CASE objective # "throughput"
  <2>1. objective = "energy" /\ v > 0
    BY <1>1, <1>5, <1>13 DEF Called
  <2> HIDE DEF A, B, C, D
  <2>2. ASSUME B >= A, D < C PROVE FALSE
    <3>1. B - A \in Nat /\ C - D \in Nat \ {0}
      BY <1>11, <2>2
    <3>2. u * (B - A) \in Nat
      BY <3>1, NatProduct
    <3>3. v * (C - D) \in Nat /\ v * 1 <= v * (C - D)
      <4>1. 1 <= C - D
        BY <3>1
      <4> QED
        BY <3>1, <4>1, NatProduct, Scaled
    <3>4. v * (D - C) = -(v * (C - D))
      BY <1>11
    <3> QED
      BY <1>11, <2>1, <3>2, <3>3, <3>4
  <2>3. B >= A => D >= C
    BY <1>11, <2>2
  <2> QED
    BY <1>7, <1>8, <1>13, <2>1, <2>3 DEF A, B, C, D
<1> QED
  BY <1>12, <1>13

\* The greedy allocators hand out the GPUs as well as they can be handed out:
\* no other way gains more throughput, or as much for less power.
THEOREM GreedyAlwaysBest == SharingSpec => []GreedyIsBest
<1>1. SharingInit => GreedyInv
  <2>1. ASSUME GreedyIdle PROVE GreedyInv
    BY <2>1 DEF GreedyIdle, GreedyInv
  <2>2. ASSUME GreedyCall PROVE GreedyInv
    <3> SUFFICES ASSUME profiles # <<>> PROVE GreedyInv
      BY DEF GreedyInv
    <3>1. /\ Called /\ start \in SharesOf(profiles) /\ alloc = start /\ available \in Nat
      BY <2>2, GreedyAssumption DEF GreedyCall, Called
    <3>2. \A j \in Jobs : start[j] \in 1 .. MaxShare(profiles[j]) /\ MaxShare(profiles[j]) \in Nat
      BY <3>1, SharesTyped, JobShape DEF Called
    <3>3. \A j \in Jobs : start[j] <= alloc[j] /\ ~(alloc[j] > start[j])
      BY <3>1, <3>2
    <3> QED
      BY <3>1, <3>3 DEF GreedyInv, Called, Threshold
  <2> QED
    BY <2>1, <2>2 DEF SharingInit
<1>2. ASSUME GreedyInv, UNCHANGED greedyVars PROVE GreedyInv'
  <2>1. /\ profiles' = profiles /\ alloc' = alloc /\ start' = start
        /\ available' = available /\ objective' = objective
    BY <1>2 DEF greedyVars
  <2>2. SharesOf(profiles)' = SharesOf(profiles) /\ Jobs' = Jobs
    BY <2>1, Zenon DEF SharesOf, MaxShare, Jobs
  <2>3. Total(alloc)' = Total(alloc)
    <3>1. Total(alloc)' = SumOver(alloc', Jobs')
      BY Zenon DEF Total, SumOver, MapThenSumSet, MapThenFoldSet, Jobs
    <3> QED
      BY <2>1, <2>2, <3>1, TotalSum, Zenon
  <2>4. Candidates' = Candidates
    BY <2>1, Zenon DEF Candidates, Headroom, DeltaT, MaxShare, Jobs
  <2>5. Threshold' <=> Threshold
    BY <2>1, <2>2, <2>4 DEF Threshold, DeltaT, Gain, Cost
  <2> QED
    BY <1>2, <2>1, <2>2, <2>3, <2>5 DEF GreedyInv
<1>3. GreedyInv /\ [SharingNext]_<<vars, greedyVars>> => GreedyInv'
  <2> SUFFICES ASSUME GreedyInv, [SharingNext]_<<vars, greedyVars>> PROVE GreedyInv'
    OBVIOUS
  <2>1. UNCHANGED greedyVars \/ Give
    BY DEF SharingNext
  <2> QED
    BY <1>2, <2>1, GiveKeeps
<1>4. GreedyInv => GreedyIsBest
  BY NoneBetter
<1> QED
  BY <1>1, <1>3, <1>4, PTL DEF SharingSpec
=============================================================================
