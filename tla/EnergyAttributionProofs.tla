----------------------- MODULE EnergyAttributionProofs -----------------------
(***************************************************************************)
(* The meters' inductive invariant, for any clock, any number of threads   *)
(* and any counter range, and what it gives: no tick is billed twice or    *)
(* outside the meter's time, every wrap of the RAPL counter is made good,  *)
(* a ledger's readings never run backwards, and its two reports agree.     *)
(***************************************************************************)
EXTENDS EnergyAttribution, Induction, TLAPS

USE SourcesAssumption, MarksAssumption DEF Pollers, NoSample, NoThread

\* Dividing by the range: the quotient and the residue.
LEMMA Divided == ASSUME NEW a \in Nat, NEW r \in Nat \ {0}
                 PROVE  /\ a % r \in 0 .. r - 1 /\ a \div r \in Nat
                        /\ a = r * (a \div r) + (a % r)
OBVIOUS

\* Less than a whole range between two readings: the residues tell how much.
LEMMA Wrap == ASSUME NEW a \in Nat, NEW b \in Nat, NEW r \in Nat \ {0}, a <= b, b - a < r
              PROVE  (IF (b % r) < (a % r) THEN ((b % r) - (a % r)) + r
                                           ELSE (b % r) - (a % r)) = b - a
<1> DEFINE qa == a \div r
           qb == b \div r
           ra == a % r
           rb == b % r
<1>1. /\ ra \in 0 .. r - 1 /\ rb \in 0 .. r - 1 /\ qa \in Nat /\ qb \in Nat
      /\ a = r * qa + ra /\ b = r * qb + rb
  BY Divided
<1> HIDE DEF qa, qb, ra, rb
<1>2. r * qb - r * qa = r * (qb - qa)
  BY <1>1
<1>3. ~ (qb - qa >= 2)
  <2>1. qb - qa >= 2 => r * (qb - qa) >= r * 2
    BY <1>1
  <2>2. QED  BY <2>1, <1>1, <1>2
<1>4. ~ (qb - qa <= -1)
  <2>1. qb - qa <= -1 => r * (qb - qa) <= -r
    BY <1>1
  <2>2. QED  BY <2>1, <1>1, <1>2
<1>5. qb - qa = 0 \/ qb - qa = 1
  BY <1>1, <1>3, <1>4
<1>6. CASE qb - qa = 0
  BY <1>1, <1>2, <1>6 DEF ra, rb
<1>7. CASE qb - qa = 1
  BY <1>1, <1>2, <1>7 DEF ra, rb
<1> QED  BY <1>5, <1>6, <1>7
-----------------------------------------------------------------------------
\* One step of Next, by its action.
Step ==
    \/ BeginMark \/ EndMark
    \/ UNCHANGED <<marks, marking, sampled>> /\ (BeginStop \/ Tick \/ RaplPoll)
    \/ UNCHANGED <<marks, marking, sampled>> /\ \E inTime \in BOOLEAN : EndStop(inTime)
    \/ UNCHANGED <<marks, marking, sampled>>
       /\ \E p \in Pollers : Start(p) \/ CheckStop(p) \/ ReadPower(p) \/ Integrate(p)

USE DEF sourceVars, pollVars, raplVars, threadVars, vars

LEMMA NextIsStep == Next => Step
BY DEF Next, Step

LEMMA Kept == TypeOK /\ Step => TypeOK'
<1> SUFFICES ASSUME TypeOK, Step PROVE TypeOK'
  OBVIOUS
<1> USE DEF TypeOK
<1>1. CASE BeginMark
  BY <1>1 DEF BeginMark
<1>2. CASE EndMark
  <2>1. UNCHANGED sourceVars /\ marks' \in Seq(LedgerMark) /\ marking' \in Int
    BY <1>2 DEF EndMark, LedgerMark
  <2>2. sampled' \in Seq(Nat)
    <3>1. Len(trace) \in Nat
      OBVIOUS
    <3> QED
      BY <1>2, <3>1 DEF EndMark
  <2> QED
    BY <2>1, <2>2
<1>3. CASE UNCHANGED <<marks, marking, sampled>> /\ BeginStop
  BY <1>3 DEF BeginStop
<1>4. CASE UNCHANGED <<marks, marking, sampled>> /\ Tick
  BY <1>4 DEF Tick
<1>5. CASE UNCHANGED <<marks, marking, sampled>> /\ RaplPoll
  <2>1. drawn % MaxRange \in 0 .. MaxRange - 1
    BY Divided
  <2>2. raplLast # NoSample => Delta(drawn % MaxRange) \in Nat
    BY <2>1 DEF Delta
  <2>3. QED  BY <1>5, <2>1, <2>2 DEF RaplPoll
<1>6. ASSUME UNCHANGED <<marks, marking, sampled>>, NEW inTime \in BOOLEAN, EndStop(inTime)
      PROVE  TypeOK'
  BY <1>6 DEF EndStop
<1>7. ASSUME UNCHANGED <<marks, marking, sampled>>, NEW p \in Pollers, Start(p)
      PROVE  TypeOK'
  <2>1. [pc |-> "check", at |-> NoSample, w |-> 0] \in Poller
    BY DEF Poller, Places
  <2>2. poller' \in [Pollers -> Poller]
    BY <1>7, <2>1 DEF Start
  <2>3. lastTs' \in Int
    BY <1>7 DEF Start
  <2>4. QED  BY <1>7, <2>2, <2>3 DEF Start
<1>8. ASSUME UNCHANGED <<marks, marking, sampled>>, NEW p \in Pollers, CheckStop(p)
      PROVE  TypeOK'
  BY <1>8 DEF CheckStop, Poller, Places
<1>9. ASSUME UNCHANGED <<marks, marking, sampled>>, NEW p \in Pollers, ReadPower(p)
      PROVE  TypeOK'
  BY <1>9 DEF ReadPower, Poller, Places
<1>10. ASSUME UNCHANGED <<marks, marking, sampled>>, NEW p \in Pollers, Integrate(p)
       PROVE  TypeOK'
  <2>1. Slice(p) \in Nat
    BY DEF Slice, Poller
  <2>2. [t |-> poller[p].at, w |-> poller[p].w] \in Sample
    BY DEF Poller, Sample
  <2>3. poller' \in [Pollers -> Poller] /\ lastTs' \in Int
    BY <1>10 DEF Integrate, Poller, Places
  <2>4. energy' \in Nat
    <3>1. energy' \in {energy, energy + 0, energy + Slice(p)}
      BY <1>10 DEF Integrate
    <3>2. QED  BY <3>1, <2>1
  <2>5. trace' \in Seq(Sample)
    <3>1. trace' \in {trace, Append(trace, [t |-> poller[p].at, w |-> poller[p].w])}
      BY <1>10 DEF Integrate
    <3>2. trace \in Seq(Sample)
      OBVIOUS
    <3> HIDE DEF TypeOK
    <3>3. QED  BY <3>1, <3>2, <2>2
  <2>6. UNCHANGED <<kind, now, due, raplVars, threadVars, marks, marking, sampled>>
    BY <1>10 DEF Integrate
  <2>7. QED  BY <2>3, <2>4, <2>5, <2>6 DEF raplVars, threadVars
<1> QED
  BY <1>1, <1>2, <1>3, <1>4, <1>5, <1>6, <1>7, <1>8, <1>9, <1>10 DEF Step

\* start finds no thread of its own alive; stop forgets one only when it is
\* dead, or else abandons it.
LEMMA OneThreadKept == TypeOK /\ OneThread /\ Step => OneThread'
<1> SUFFICES ASSUME TypeOK, OneThread, Step, NEW q \in Pollers
             PROVE  /\ ~abandoned' /\ Alive(q)' => q = thread'
                    /\ kind' = "rapl" => poller'[q].pc = "unborn"
  BY DEF OneThread
<1> DEFINE Goal == /\ ~abandoned' /\ Alive(q)' => q = thread'
                   /\ kind' = "rapl" => poller'[q].pc = "unborn"
<1> USE DEF TypeOK, Alive
<1>1. CASE BeginMark \/ EndMark
  BY <1>1 DEF BeginMark, EndMark, OneThread
<1>2. CASE BeginStop \/ Tick \/ RaplPoll
  BY <1>2 DEF BeginStop, Tick, RaplPoll, OneThread
<1>3. ASSUME NEW inTime \in BOOLEAN, EndStop(inTime) PROVE Goal
  BY <1>3 DEF EndStop, OneThread
<1>4. ASSUME NEW p \in Pollers, Start(p) PROVE Goal
  <2>1. kind' # "rapl" /\ abandoned' = abandoned /\ thread' = p /\ poller' = [poller EXCEPT ![p] = [pc |-> "check", at |-> NoSample, w |-> 0]]
    BY <1>4 DEF Start
  <2>2. ~abandoned => \A r \in Pollers : ~Alive(r)
    BY <1>4 DEF Start, OneThread
  <2>3. q # p => poller'[q] = poller[q]
    BY <2>1
  <2>4. ~abandoned /\ Alive(q)' => q = p
    BY <2>2, <2>3
  <2>5. QED  BY <2>1, <2>4
<1>5. ASSUME NEW p \in Pollers, CheckStop(p) PROVE Goal
  <2>1. /\ Alive(q)' => Alive(q)
        /\ poller[q].pc = "unborn" => poller'[q].pc = "unborn"
        /\ UNCHANGED <<kind, thread, abandoned>>
    BY <1>5 DEF CheckStop
  <2>2. QED  BY <2>1 DEF OneThread
<1>6. ASSUME NEW p \in Pollers, ReadPower(p) PROVE Goal
  <2>1. /\ Alive(q)' => Alive(q)
        /\ poller[q].pc = "unborn" => poller'[q].pc = "unborn"
        /\ UNCHANGED <<kind, thread, abandoned>>
    BY <1>6 DEF ReadPower
  <2>2. QED  BY <2>1 DEF OneThread
<1>7. ASSUME NEW p \in Pollers, Integrate(p) PROVE Goal
  <2>1. /\ Alive(q)' => Alive(q)
        /\ poller[q].pc = "unborn" => poller'[q].pc = "unborn"
        /\ UNCHANGED <<kind, thread, abandoned>>
    BY <1>7 DEF Integrate
  <2>2. QED  BY <2>1 DEF OneThread
<1> QED
  BY <1>1, <1>2, <1>3, <1>4, <1>5, <1>6, <1>7 DEF Step

\* What the readings of the counter add up to.
LEMMA CountedKept == TypeOK /\ Counted /\ OneThread /\ Step => Counted'
<1> SUFFICES ASSUME TypeOK, Counted, OneThread, Step PROVE Counted'
  OBVIOUS
<1> USE DEF TypeOK
<1>1. CASE BeginMark \/ EndMark
  <2>1. UNCHANGED <<kind, raplLast, energy, missed, drawn, lastDrawn, firstDrawn>>
    BY <1>1 DEF BeginMark, EndMark
  <2>2. (lastDrawn <= drawn)' <=> lastDrawn <= drawn
    BY <2>1
  <2>3. QED  BY <2>1, <2>2, Zenon DEF Counted
<1>2. CASE BeginStop
  <2>1. UNCHANGED <<kind, raplLast, energy, missed, drawn, lastDrawn, firstDrawn>>
    BY <1>2 DEF BeginStop
  <2>2. (lastDrawn <= drawn)' <=> lastDrawn <= drawn
    BY <2>1
  <2>3. QED  BY <2>1, <2>2, Zenon DEF Counted
<1>3. CASE Tick
  <2>1. drawn' >= drawn
    BY <1>3 DEF Tick
  <2>2. UNCHANGED <<kind, raplLast, energy, missed, lastDrawn, firstDrawn>>
    BY <1>3 DEF Tick
  <2>3. lastDrawn <= drawn => lastDrawn <= drawn'
    <3>1. drawn' \in Nat
      BY <1>3 DEF Tick
    <3>2. QED  BY <2>1, <3>1
  <2>4. QED  BY <2>2, <2>3, Zenon DEF Counted
<1>4. CASE RaplPoll
  <2>1. CASE raplLast = NoSample
    <3>1. drawn % MaxRange \in 0 .. MaxRange - 1
      BY Divided
    <3>2. QED  BY <1>4, <2>1, <3>1 DEF RaplPoll, Counted
  <2>2. CASE raplLast # NoSample
    <3>1. drawn % MaxRange \in 0 .. MaxRange - 1
      BY Divided
    <3>2. raplLast = lastDrawn % MaxRange /\ lastDrawn <= drawn
      BY <2>2 DEF Counted
    <3>3. drawn - lastDrawn < MaxRange => Delta(drawn % MaxRange) = drawn - lastDrawn
      BY <3>2, Wrap DEF Delta
    <3>4. ASSUME ~missed' PROVE energy' = lastDrawn' - firstDrawn'
      <4>1. drawn - lastDrawn < MaxRange /\ ~missed
        <5>1. missed' = (missed \/ (raplLast # NoSample /\ drawn - lastDrawn >= MaxRange))
          BY <1>4 DEF RaplPoll
        <5>2. ~(drawn - lastDrawn >= MaxRange) /\ ~missed
          BY <5>1, <3>4, <2>2, Zenon
        <5>3. QED  BY <5>2
      <4>2. energy = lastDrawn - firstDrawn
        BY <2>2, <4>1 DEF Counted
      <4>3. energy' = energy + Delta(drawn % MaxRange)
        BY <1>4, <2>2 DEF RaplPoll
      <4>4. energy' = energy + (drawn - lastDrawn)
        BY <3>3, <4>1, <4>3
      <4>5. lastDrawn' = drawn /\ firstDrawn' = firstDrawn
        BY <1>4, <2>2 DEF RaplPoll
      <4>6. QED  BY <4>2, <4>4, <4>5
    <3>5. QED  BY <1>4, <2>2, <3>1, <3>4 DEF RaplPoll, Counted
  <2>3. QED  BY <2>1, <2>2
<1>5. ASSUME NEW inTime \in BOOLEAN, EndStop(inTime) PROVE Counted'
  BY <1>5 DEF EndStop, Counted
<1>6. ASSUME NEW p \in Pollers, Start(p) \/ CheckStop(p) \/ ReadPower(p) PROVE Counted'
  <2>1. CASE Start(p)
    BY <1>6, <2>1 DEF Start, Counted
  <2>2. CASE CheckStop(p)
    BY <1>6, <2>2 DEF CheckStop, Counted
  <2>3. CASE ReadPower(p)
    BY <1>6, <2>3 DEF ReadPower, Counted
  <2>4. QED  BY <1>6, <2>1, <2>2, <2>3
<1>7. ASSUME NEW p \in Pollers, Integrate(p) PROVE Counted'
  <2>1. kind # "rapl"
    BY <1>7 DEF Integrate, OneThread
  <2>2. QED  BY <1>7, <2>1 DEF Integrate, Counted
<1> QED
  BY <1>1, <1>2, <1>3, <1>4, <1>5, <1>6, <1>7 DEF Step

\* A poll bills the slice from the last sample to its clock: what is billed and
\* what is still to bill stay within the time that may be billed.
LEMMA BilledKept == TypeOK /\ OneThread /\ Billed /\ Step => Billed'
<1> SUFFICES ASSUME TypeOK, OneThread, Billed, Step PROVE Billed'
  OBVIOUS
<1> USE DEF TypeOK
<1>1. CASE BeginMark \/ EndMark
  BY <1>1 DEF BeginMark, EndMark, Billed, Running, Alive
<1>2. CASE BeginStop
  BY <1>2 DEF BeginStop, Billed, Running, Alive
<1>3. CASE Tick
  <2>1. now' = now + 1 /\ due' \in {due, due + 1}
    BY <1>3 DEF Tick
  <2>2. UNCHANGED <<kind, poller, lastTs, energy, abandoned>>
    BY <1>3 DEF Tick
  <2>3. Running /\ lastTs # NoSample /\ kind # "rapl" => due' = due + 1
    BY <1>3 DEF Tick, Running, Billed, Kinds
  <2>4. kind = "rapl" => ~Running
    BY DEF Running, OneThread, Alive
  <2>5. Running' <=> Running
    BY <2>2 DEF Running, Alive
  <2>6. ASSUME NEW p \in Pollers, poller[p].pc \in {"clock", "power"} PROVE due' = due + 1
    BY <1>3, <2>6 DEF Tick, Alive, OneThread, Kinds
  <2>7. QED  BY <2>1, <2>2, <2>3, <2>4, <2>5, <2>6 DEF Billed, Poller
<1>4. CASE RaplPoll
  <2>1. kind = "rapl" /\ UNCHANGED <<kind, poller, lastTs, now, due, abandoned>>
    BY <1>4 DEF RaplPoll
  <2>2. ~Running /\ ~Running' /\ \A p \in Pollers : poller[p].pc = "unborn"
    BY <2>1 DEF Running, OneThread, Alive
  <2>3. QED  BY <2>1, <2>2 DEF Billed
<1>5. ASSUME NEW inTime \in BOOLEAN, EndStop(inTime) PROVE Billed'
  BY <1>5 DEF EndStop, Billed, Running, Alive
<1>6. ASSUME NEW p \in Pollers, Start(p) PROVE Billed'
  <2>1. UNCHANGED <<kind, now, due, energy, abandoned>> /\ kind # "rapl"
    BY <1>6 DEF Start
  <2>2. lastTs' = IF kind = "marginal" THEN NoSample ELSE lastTs
    BY <1>6 DEF Start
  <2>3. /\ poller' = [poller EXCEPT ![p] = [pc |-> "check", at |-> NoSample, w |-> 0]]
        /\ poller[p].pc = "unborn"
    BY <1>6 DEF Start
  <2>4. \A q \in Pollers : poller'[q].pc \in {"clock", "power"} =>
           poller[q].pc \in {"clock", "power"} /\ poller'[q].at = poller[q].at
    BY <2>3
  <2>5. \A q \in Pollers : poller[q].pc # "unborn" => poller'[q].pc # "unborn"
    BY <2>3
  <2>6. kind = "nvml" => Running /\ lastTs' = lastTs
    BY <2>2 DEF Running
  <2>7. kind # "nvml" => lastTs' = NoSample
    BY <2>1, <2>2 DEF Kinds
  <2>8. lastTs' = NoSample \/ lastTs' = lastTs
    BY <2>2
  <2>9. \A q \in Pollers : poller'[q].pc \in {"clock", "power"} => poller'[q].at <= now'
    BY <2>1, <2>4 DEF Billed
  <2>10. ASSUME ~abandoned'
         PROVE  /\ energy' <= due'
                /\ \A q \in Pollers : poller'[q].pc \notin {"clock", "power"}
                /\ lastTs' <= now'
                /\ Running' /\ lastTs' # NoSample => energy' + (now' - lastTs') <= due'
    <3>1. \A q \in Pollers : poller[q].pc \notin {"clock", "power"}
      BY <1>6, <2>1, <2>10 DEF Start, OneThread, Alive
    <3>2. ~abandoned /\ energy <= due /\ lastTs <= now
      BY <2>1, <2>10 DEF Billed
    <3>3. kind = "nvml" /\ lastTs # NoSample => energy + (now - lastTs) <= due
      BY <2>6, <3>2 DEF Billed
    <3>4. \A q \in Pollers : poller'[q].pc \notin {"clock", "power"}
      BY <3>1, <2>4
    <3>5. lastTs' <= now'
      BY <2>1, <2>8, <3>2
    <3>6. lastTs' # NoSample => energy' + (now' - lastTs') <= due'
      BY <2>1, <2>6, <2>7, <3>3
    <3>7. QED  BY <2>1, <3>2, <3>4, <3>5, <3>6
  <2>11. poller'[p].pc # "unborn"
    BY <2>3
  <2>12. QED  BY <2>1, <2>7, <2>9, <2>10, <2>11 DEF Billed
<1>7. ASSUME NEW p \in Pollers, CheckStop(p) PROVE Billed'
  <2>1. UNCHANGED <<kind, now, due, energy, lastTs, abandoned>> /\ Alive(p)
    BY <1>7 DEF CheckStop, Alive
  <2>2. \A q \in Pollers : poller'[q].pc \in {"clock", "power"} =>
           \/ poller'[q].at = now
           \/ poller[q].pc \in {"clock", "power"} /\ poller'[q].at = poller[q].at
    BY <1>7 DEF CheckStop
  <2>3. \A q \in Pollers : poller[q].pc # "unborn" => poller'[q].pc # "unborn"
    BY <1>7 DEF CheckStop
  <2>4. Running
    BY <2>1 DEF Running
  <2>5. \A q \in Pollers : poller'[q].pc \in {"clock", "power"} => poller'[q].at <= now'
    <3>1. \A q \in Pollers : poller[q].pc \in {"clock", "power"} => poller[q].at <= now
      BY DEF Billed
    <3>2. now' = now /\ now \in Int
      BY <2>1
    <3> HIDE DEF TypeOK
    <3> QED
      BY <2>2, <3>1, <3>2
  <2>6. ASSUME ~abandoned, NEW q \in Pollers, poller'[q].pc \in {"clock", "power"}
        PROVE  lastTs <= poller'[q].at /\ energy + (now - poller'[q].at) <= due
    <3>1. kind # "rapl" /\ energy <= due /\ lastTs <= now
      BY <2>1, <2>6 DEF Billed, OneThread, Alive
    <3>2. CASE poller'[q].at = now
      BY <3>1, <3>2
    <3>3. CASE poller[q].pc \in {"clock", "power"} /\ poller'[q].at = poller[q].at
      BY <2>6, <3>3 DEF Billed
    <3>4. QED  BY <2>2, <2>6, <3>2, <3>3
  <2>7. kind = "nvml" /\ lastTs' # NoSample => \E q \in Pollers : poller'[q].pc # "unborn"
    BY <2>1, <2>3 DEF Billed
  <2>8. QED  BY <2>1, <2>4, <2>5, <2>6, <2>7 DEF Billed
<1>8. ASSUME NEW p \in Pollers, ReadPower(p) PROVE Billed'
  <2>1. UNCHANGED <<kind, now, due, energy, lastTs, abandoned>> /\ Alive(p)
    BY <1>8 DEF ReadPower, Alive
  <2>2. \A q \in Pollers : poller'[q].pc \in {"clock", "power"} =>
           poller[q].pc \in {"clock", "power"} /\ poller'[q].at = poller[q].at
    BY <1>8 DEF ReadPower
  <2>3. \A q \in Pollers : poller[q].pc # "unborn" => poller'[q].pc # "unborn"
    BY <1>8 DEF ReadPower
  <2>4. Running
    BY <2>1 DEF Running
  <2>5. \A q \in Pollers : poller'[q].pc \in {"clock", "power"} => poller'[q].at <= now'
    BY <2>1, <2>2 DEF Billed, Poller
  <2>6. ASSUME ~abandoned, NEW q \in Pollers, poller'[q].pc \in {"clock", "power"}
        PROVE  lastTs <= poller'[q].at /\ energy + (now - poller'[q].at) <= due
    BY <2>1, <2>2, <2>6 DEF Billed, OneThread, Alive, Poller
  <2>7. kind = "nvml" /\ lastTs' # NoSample => \E q \in Pollers : poller'[q].pc # "unborn"
    BY <2>1, <2>3 DEF Billed
  <2>8. QED  BY <2>1, <2>4, <2>5, <2>6, <2>7 DEF Billed
<1>9. ASSUME NEW p \in Pollers, Integrate(p) PROVE Billed'
  <2>1. UNCHANGED <<kind, now, due, abandoned>> /\ Alive(p) /\ kind # "rapl"
    BY <1>9 DEF Integrate, Alive, OneThread
  <2>2. lastTs' = poller[p].at /\ poller[p].at <= now /\ poller[p].at \in Int
    BY <1>9 DEF Integrate, Billed, Poller
  <2>3. \A q \in Pollers : poller'[q].pc \in {"clock", "power"} =>
           q # p /\ poller[q].pc \in {"clock", "power"} /\ poller'[q].at = poller[q].at
    BY <1>9 DEF Integrate
  <2>4. \A q \in Pollers : poller[q].pc # "unborn" => poller'[q].pc # "unborn"
    BY <1>9 DEF Integrate
  <2>5. poller[p].pc # "unborn" /\ Running
    BY <2>1 DEF Running, Alive
  <2>6. \A q \in Pollers : poller'[q].pc \in {"clock", "power"} => poller'[q].at <= now'
    BY <2>1, <2>3 DEF Billed
  <2>7. ASSUME ~abandoned'
        PROVE  /\ energy' <= due'
               /\ \A q \in Pollers : poller'[q].pc \notin {"clock", "power"}
               /\ lastTs' <= now'
               /\ energy' + (now' - lastTs') <= due'
    <3>1. \A q \in Pollers : poller'[q].pc \notin {"clock", "power"}
      BY <2>1, <2>3, <2>7 DEF OneThread, Alive
    <3>2. energy' \in {energy, energy + 0, energy + Slice(p)}
      BY <1>9 DEF Integrate
    <3>3. /\ energy <= due
          /\ lastTs # NoSample => energy + (now - lastTs) <= due
          /\ lastTs <= poller[p].at /\ energy + (now - poller[p].at) <= due
      <4>1. ~abandoned /\ Running /\ kind # "rapl" /\ poller[p].pc = "power"
        BY <1>9, <2>1, <2>5, <2>7 DEF Integrate
      <4>2. QED  BY <4>1 DEF Billed
    <3>4. CASE lastTs = NoSample
      <4>1. energy' = energy
        BY <3>2, <3>4 DEF Slice
      <4>2. energy' <= due' /\ energy' + (now' - lastTs') <= due'
        BY <3>3, <4>1, <2>1, <2>2
      <4>3. lastTs' <= now'
        BY <2>1, <2>2
      <4>4. QED  BY <3>1, <4>2, <4>3
    <3>5. CASE lastTs # NoSample
      <4>1. Slice(p) = poller[p].at - lastTs
        BY <3>3, <3>5, <2>2 DEF Slice
      <4>2. energy + (now - lastTs) <= due
        BY <3>3, <3>5
      <4>3. /\ poller[p].at \in Int /\ lastTs \in Int /\ energy \in Int /\ now \in Int
            /\ due \in Int
        BY <2>1, <2>2
      <4> HIDE DEF TypeOK
      <4>4. energy' <= energy + (poller[p].at - lastTs) /\ energy' \in Int
        BY <3>2, <3>3, <4>1, <4>3
      <4>5. energy' + (now - poller[p].at) <= due
        BY <4>2, <4>3, <4>4
      <4>6. /\ now' = now /\ due' = due /\ lastTs' = poller[p].at /\ poller[p].at <= now
        BY <2>1, <2>2
      <4>7. QED  BY <3>1, <4>3, <4>4, <4>5, <4>6
    <3>6. QED  BY <3>4, <3>5
  <2>8. QED  BY <2>1, <2>4, <2>5, <2>6, <2>7 DEF Billed
<1> QED
  BY <1>1, <1>2, <1>3, <1>4, <1>5, <1>6, <1>7, <1>8, <1>9 DEF Step

\* The clock and the meter only go up, so that a new mark is the latest.
LEMMA Forward == TypeOK /\ Step => now' >= now /\ energy' >= energy
<1> SUFFICES ASSUME TypeOK, Step PROVE now' >= now /\ energy' >= energy
  OBVIOUS
<1> USE DEF TypeOK
<1>1. CASE BeginMark \/ EndMark \/ BeginStop \/ Tick
  BY <1>1 DEF BeginMark, EndMark, BeginStop, Tick
<1>2. CASE RaplPoll
  <2>1. drawn % MaxRange \in 0 .. MaxRange - 1
    BY Divided
  <2>2. raplLast # NoSample => Delta(drawn % MaxRange) \in Nat
    BY <2>1 DEF Delta
  <2>3. QED  BY <1>2, <2>2 DEF RaplPoll
<1>3. ASSUME NEW inTime \in BOOLEAN, EndStop(inTime) PROVE now' >= now /\ energy' >= energy
  BY <1>3 DEF EndStop
<1>4. ASSUME NEW p \in Pollers, Start(p) \/ CheckStop(p) \/ ReadPower(p)
      PROVE  now' >= now /\ energy' >= energy
  BY <1>4, SMTT(30) DEF Start, CheckStop, ReadPower
<1>5. ASSUME NEW p \in Pollers, Integrate(p) PROVE now' >= now /\ energy' >= energy
  <2>1. Slice(p) \in Nat
    BY DEF Slice, Poller
  <2>2. energy' \in {energy, energy + 0, energy + Slice(p)}
    BY <1>5 DEF Integrate
  <2>3. now' = now
    BY <1>5 DEF Integrate
  <2>4. energy' >= energy
    BY <2>1, <2>2
  <2>5. QED  BY <2>3, <2>4
<1> QED
  BY <1>1, <1>2, <1>3, <1>4, <1>5 DEF Step

LEMMA InOrderKept == TypeOK /\ TypeOK' /\ MarksInOrder /\ Step => MarksInOrder'
<1> SUFFICES ASSUME TypeOK, TypeOK', MarksInOrder, Step PROVE MarksInOrder'
  OBVIOUS
<1>1. now' >= now /\ energy' >= energy /\ now \in Nat /\ now' \in Nat /\ energy \in Nat /\ energy' \in Nat
  BY Forward DEF TypeOK
<1>2. ASSUME NEW i \in 1 .. Len(marks) PROVE marks[i].t \in Int /\ marks[i].e \in Int
  <2>1. marks \in Seq(LedgerMark)
    BY DEF TypeOK
  <2>2. marks[i] \in LedgerMark
    BY <2>1
  <2>3. QED  BY <2>2 DEF LedgerMark
<1>3. CASE UNCHANGED <<marks, marking>>
  <2>1. marks' = marks /\ marking' = marking /\ marking \in Int
    BY <1>3 DEF TypeOK
  <2>2. marking' <= now'
    BY <2>1, <1>1 DEF MarksInOrder
  <2>3. ASSUME NEW i \in 1 .. Len(marks)
        PROVE  /\ marks[i].t <= now' /\ marks[i].e <= energy'
               /\ marking # NoSample => marks[i].t <= marking
               /\ \A j \in 1 .. i : marks[j].t <= marks[i].t /\ marks[j].e <= marks[i].e
    BY <1>1, <1>2 DEF MarksInOrder
  <2>4. QED  BY <2>1, <2>2, <2>3 DEF MarksInOrder
<1>4. CASE BeginMark
  <2>1. marks' = marks /\ marking' = now /\ now' = now /\ energy' = energy
    BY <1>4 DEF BeginMark
  <2>2. QED  BY <2>1, <1>1, <1>2 DEF MarksInOrder
<1>5. CASE EndMark
  <2> DEFINE new == [t |-> marking, e |-> energy]
  <2>1. /\ marks' = Append(marks, new) /\ marking' = NoSample /\ marking # NoSample
        /\ now' = now /\ energy' = energy
    BY <1>5 DEF EndMark
  <2>2. marks \in Seq(LedgerMark) /\ new \in LedgerMark /\ Len(marks) \in Nat
    BY DEF TypeOK, LedgerMark
  <2>3. /\ Len(marks') = Len(marks) + 1 /\ marks'[Len(marks) + 1] = new
        /\ \A i \in 1 .. Len(marks) : marks'[i] = marks[i]
    BY <2>1, <2>2
  <2>4. marking <= now /\ \A i \in 1 .. Len(marks) : marks[i].t <= marking /\ marks[i].e <= energy
    BY <2>1 DEF MarksInOrder
  <2>5. ASSUME NEW i \in 1 .. Len(marks')
        PROVE  /\ marks'[i].t <= now' /\ marks'[i].e <= energy'
               /\ \A j \in 1 .. i : marks'[j].t <= marks'[i].t /\ marks'[j].e <= marks'[i].e
    <3>1. CASE i = Len(marks) + 1
      <4>1. marks'[i].t = marking /\ marks'[i].e = energy
        BY <2>3, <3>1
      <4>2. \A j \in 1 .. Len(marks) : marks'[j].t <= marking /\ marks'[j].e <= energy
        BY <2>3, <2>4
      <4>3. \A j \in 1 .. i : j = i \/ j \in 1 .. Len(marks)
        BY <3>1, <2>2
      <4>4. marking \in Int
        BY DEF TypeOK
      <4>5. QED  BY <4>1, <4>2, <4>3, <4>4, <2>1, <2>4, <1>1
    <3>2. CASE i \in 1 .. Len(marks)
      <4>1. \A j \in 1 .. i : j \in 1 .. Len(marks)
        BY <3>2, <2>2
      <4>2. QED  BY <4>1, <3>2, <2>1, <2>3, <1>1, <1>2 DEF MarksInOrder
    <3>3. QED  BY <3>1, <3>2, <2>2, <2>3
  <2>6. marking' <= now'
    BY <2>1, <1>1
  <2>7. QED  BY <2>1, <2>5, <2>6 DEF MarksInOrder
<1> QED
  BY <1>3, <1>4, <1>5 DEF Step

\* The ledger's sum is a sum over an interval.
LEMMA TotalIsSum == ASSUME NEW f, NEW n PROVE Total(f, n) = SumOver(f, 1 .. n)
BY Zenon DEF Total, SumOver, MapThenFoldSet

\* Only Start and Integrate touch what the trace's invariant is about.
LEMMA TracedSame ==
    ASSUME TypeOK, TypeOK', Traced, kind' = kind, abandoned' = FALSE => abandoned = FALSE,
           \/ kind = "rapl"
           \/ lastTs' = lastTs /\ energy' = energy /\ trace' = trace,
           \A p \in Pollers : poller'[p].pc = "unborn" <=> poller[p].pc = "unborn",
           \A p \in Pollers : poller'[p].pc \in {"clock", "power"} => poller'[p].at \in Nat
    PROVE  Traced'
<1>1. CASE kind = "rapl"
  BY <1>1 DEF Traced, FirstLife
<1>2. CASE lastTs' = lastTs /\ energy' = energy /\ trace' = trace
  <2>1. Slices' = Slices
    BY <1>2 DEF Slices
  <2>2. FirstLife' => FirstLife
    BY DEF FirstLife, TypeOK
  <2>3. (\A p \in Pollers : poller'[p].pc = "unborn") => \A p \in Pollers : poller[p].pc = "unborn"
    OBVIOUS
  <2> QED
    BY <1>2, <2>1, <2>2, <2>3 DEF Traced
<1> QED
  BY <1>1, <1>2

LEMMA TracedKept == TypeOK /\ TypeOK' /\ OneThread /\ Billed /\ Traced /\ Step => Traced'
<1> SUFFICES ASSUME TypeOK, TypeOK', OneThread, Billed, Traced, Step PROVE Traced'
  OBVIOUS
<1>1. \A p \in Pollers : poller[p].pc \in {"clock", "power"} => poller[p].at \in Nat
  BY DEF Traced
<1>2. CASE BeginMark \/ EndMark
  <2>1. UNCHANGED sourceVars
    BY <1>2 DEF BeginMark, EndMark
  <2> QED
    BY <1>1, <2>1, TracedSame
<1>3. CASE BeginStop \/ Tick
  <2>1. UNCHANGED <<kind, poller, lastTs, energy, trace, abandoned>>
    BY <1>3 DEF BeginStop, Tick
  <2> QED
    BY <1>1, <2>1, TracedSame
<1>4. CASE RaplPoll
  <2>1. kind = "rapl" /\ UNCHANGED <<kind, poller, abandoned>>
    BY <1>4 DEF RaplPoll
  <2> QED
    BY <1>1, <2>1, TracedSame
<1>5. ASSUME NEW inTime \in BOOLEAN, EndStop(inTime) PROVE Traced'
  <2>1. UNCHANGED <<kind, poller, lastTs, energy, trace>> /\ (abandoned' = FALSE => abandoned = FALSE)
    BY <1>5 DEF EndStop, TypeOK
  <2> QED
    BY <1>1, <2>1, TracedSame
<1>6. ASSUME NEW p \in Pollers, CheckStop(p) PROVE Traced'
  <2>1. UNCHANGED <<kind, lastTs, energy, trace, abandoned>>
    BY <1>6 DEF CheckStop
  <2>2. \A q \in Pollers :
           /\ poller'[q].pc = "unborn" <=> poller[q].pc = "unborn"
           /\ poller'[q].pc \in {"clock", "power"} => poller'[q].at \in Nat
    BY <1>1, <1>6 DEF CheckStop, TypeOK
  <2> QED
    BY <2>1, <2>2, TracedSame
<1>7. ASSUME NEW p \in Pollers, ReadPower(p) PROVE Traced'
  <2>1. UNCHANGED <<kind, lastTs, energy, trace, abandoned>>
    BY <1>7 DEF ReadPower
  <2>2. \A q \in Pollers :
           /\ poller'[q].pc = "unborn" <=> poller[q].pc = "unborn"
           /\ poller'[q].pc \in {"clock", "power"} => poller'[q].at \in Nat
    BY <1>1, <1>7 DEF ReadPower, TypeOK
  <2> QED
    BY <2>1, <2>2, TracedSame
<1>8. ASSUME NEW p \in Pollers, Start(p) PROVE Traced'
  <2>1. UNCHANGED <<kind, energy, trace, abandoned>>
    BY <1>8 DEF Start
  <2>2. /\ poller' = [poller EXCEPT ![p] = [pc |-> "check", at |-> NoSample, w |-> 0]]
        /\ poller[p].pc = "unborn" /\ \A q \in 1 .. p - 1 : poller[q].pc # "unborn"
    BY <1>8 DEF Start
  <2>3. \A q \in Pollers : poller'[q].pc \in {"clock", "power"} => poller'[q].at \in Nat
    BY <1>1, <2>2 DEF TypeOK
  <2>4. ASSUME FirstLife'
        PROVE  FirstLife /\ trace = <<>> /\ lastTs' = NoSample
    <3>1. p = 1
      <4>1. poller'[p].pc = "check"
        BY <2>2 DEF TypeOK
      <4> QED
        BY <2>4, <4>1 DEF FirstLife
    <3>2. \A q \in Pollers : q > 1 => poller[q].pc = "unborn"
      BY <2>2, <2>4, <3>1 DEF FirstLife, TypeOK
    <3>3. \A q \in Pollers : poller[q].pc = "unborn"
      BY <2>2, <3>1, <3>2
    <3>4. FirstLife
      BY <2>1, <2>4, <3>2 DEF FirstLife
    <3>5. lastTs' = NoSample
      BY <1>8, <2>1, <2>4 DEF Start, FirstLife
    <3> QED
      BY <3>3, <3>4, <3>5 DEF Traced
  <2>5. Slices' = Slices
    BY <2>1 DEF Slices
  <2>6. ASSUME FirstLife'
        PROVE  /\ \A i \in 1 .. Len(trace') :
                    trace'[i].t >= 0 /\ \A j \in 1 .. i : trace'[j].t <= trace'[i].t
               /\ lastTs' = IF trace' = <<>> THEN NoSample ELSE trace'[Len(trace')].t
               /\ energy' = Total(Slices', Len(trace') - 1)
               /\ trace' = <<>>
    BY <2>1, <2>4, <2>5, <2>6, Zenon DEF Traced
  <2> QED
    BY <2>3, <2>6, Zenon DEF Traced
<1>9. ASSUME NEW p \in Pollers, Integrate(p) PROVE Traced'
  <2> DEFINE new == [t |-> poller[p].at, w |-> poller[p].w]
             n == Len(trace)
  <2>1. /\ UNCHANGED <<kind, abandoned>> /\ lastTs' = poller[p].at
        /\ poller' = [poller EXCEPT ![p] = [pc |-> "check", at |-> poller[p].at, w |-> 0]]
        /\ poller[p].pc = "power"
        /\ energy' = energy + (IF poller[p].w = 1 THEN Slice(p) ELSE 0)
    BY <1>9 DEF Integrate
  <2>2. \A q \in Pollers :
           /\ poller'[q].pc = "unborn" <=> poller[q].pc = "unborn"
           /\ poller'[q].pc \in {"clock", "power"} => poller'[q].at \in Nat
    BY <1>1, <2>1 DEF TypeOK
  <2>3. ASSUME FirstLife'
        PROVE  /\ \A i \in 1 .. Len(trace') :
                    trace'[i].t >= 0 /\ \A j \in 1 .. i : trace'[j].t <= trace'[i].t
               /\ lastTs' = IF trace' = <<>> THEN NoSample ELSE trace'[Len(trace')].t
               /\ energy' = Total(Slices', Len(trace') - 1)
               /\ ~ \A q \in Pollers : poller'[q].pc = "unborn"
    <3>1. FirstLife
      BY <2>1, <2>2, <2>3 DEF FirstLife
    <3>2. /\ \A i \in 1 .. n :
               trace[i].t >= 0 /\ \A j \in 1 .. i : trace[j].t <= trace[i].t
          /\ lastTs = IF trace = <<>> THEN NoSample ELSE trace[n].t
          /\ energy = Total(Slices, n - 1)
      BY <3>1 DEF Traced
    <3>3. trace \in Seq(Sample) /\ n \in Nat /\ (trace = <<>> <=> n = 0)
      BY DEF TypeOK
    <3>4. new \in Sample /\ new.t = poller[p].at /\ new.w = poller[p].w /\ new.t \in Nat
      BY <1>1, <2>1 DEF TypeOK, Poller, Sample
    <3>5. trace' = Append(trace, new)
      BY <1>9, <3>1 DEF Integrate, FirstLife
    <3>6. /\ Len(trace') = n + 1 /\ trace'[n + 1] = new
          /\ \A i \in 1 .. n : trace'[i] = trace[i]
      <4>1. n = Len(trace)
        OBVIOUS
      <4> HIDE DEF new, n
      <4> QED
        BY <3>3, <3>4, <3>5, <4>1
    <3>7. \A i \in 1 .. n : trace[i] \in Sample /\ trace[i].t \in Int /\ trace[i].w \in 0 .. 1
      <4>1. \A i \in 1 .. n : trace[i] \in Sample
        BY <3>3
      <4> QED
        BY <4>1 DEF Sample
    <3>8. lastTs <= new.t
      <4>1. kind # "rapl" /\ ~abandoned
        BY <3>1 DEF FirstLife
      <4> QED
        BY <2>1, <3>4, <4>1 DEF Billed
    <3>9. \A i \in 1 .. n : trace[i].t <= new.t
      <4>1. n # 0 => lastTs = trace[n].t
        BY <3>2, <3>3
      <4>2. ASSUME NEW i \in 1 .. n PROVE trace[i].t <= trace[n].t
        <5>1. n \in 1 .. n /\ i \in 1 .. n
          BY <3>3
        <5> QED
          BY <3>2, <5>1
      <4>3. ASSUME NEW i \in 1 .. n PROVE n # 0 /\ n \in 1 .. n
        BY <3>3
      <4> QED
        BY <3>4, <3>7, <3>8, <4>1, <4>2, <4>3
    <3> HIDE DEF new, n
    <3>10. ASSUME NEW i \in 1 .. n + 1
           PROVE  trace'[i].t >= 0 /\ \A j \in 1 .. i : trace'[j].t <= trace'[i].t
      <4>1. CASE i = n + 1
        <5>1. \A j \in 1 .. i : j = n + 1 \/ j \in 1 .. n
          BY <3>3, <4>1
        <5> QED
          BY <3>4, <3>6, <3>9, <4>1, <5>1
      <4>2. CASE i \in 1 .. n
        <5>1. \A j \in 1 .. i : j \in 1 .. n
          BY <3>3, <4>2
        <5> QED
          BY <3>2, <3>6, <4>2, <5>1
      <4> QED
        BY <3>3, <4>1, <4>2
    <3>11. trace' # <<>>
      BY <3>3, <3>5, <3>6
    <3>12. energy' = Total(Slices', n)
      <4>1. Slices' = [i \in 1 .. n |-> trace'[i + 1].w * (trace'[i + 1].t - trace'[i].t)]
        <5>1. (n + 1) - 1 = n
          BY <3>3
        <5> QED
          BY <3>6, <5>1 DEF Slices
      <4>2. CASE n = 0
        <5>1. 1 .. n = {} /\ 1 .. n - 1 = {}
          BY <4>2
        <5>2. Total(Slices', n) = 0 /\ energy = 0
          BY <3>2, <5>1, SumEmpty, TotalIsSum
        <5>3. lastTs = NoSample
          BY <3>2, <3>3, <4>2
        <5>4. energy' = 0
          BY <2>1, <5>2, <5>3 DEF Slice
        <5> QED
          BY <5>2, <5>4
      <4>3. CASE n # 0
        <5>1. n - 1 \in Nat /\ n \in 1 .. n /\ (n - 1) + 1 = n
          BY <3>3, <4>3
        <5>2. Slices = [i \in 1 .. n - 1 |-> trace[i + 1].w * (trace[i + 1].t - trace[i].t)]
          BY DEF Slices, n
        <5>3. ASSUME NEW i \in 1 .. n - 1 PROVE Slices[i] \in Int /\ Slices'[i] = Slices[i]
          <6>1. i \in 1 .. n /\ i + 1 \in 1 .. n
            BY <5>1
          <6>2. Slices[i] = trace[i + 1].w * (trace[i + 1].t - trace[i].t)
            BY <5>2
          <6>3. Slices'[i] = trace[i + 1].w * (trace[i + 1].t - trace[i].t)
            BY <3>6, <4>1, <6>1
          <6>4. trace[i + 1].w \in Int /\ trace[i + 1].t \in Int /\ trace[i].t \in Int
            BY <3>7, <6>1
          <6> QED
            BY <6>2, <6>3, <6>4
        <5>4. lastTs = trace[n].t /\ lastTs # NoSample /\ lastTs \in Int
          <6>1. lastTs = trace[n].t
            BY <3>2, <3>3, <4>3
          <6>2. trace[n].t >= 0 /\ trace[n].t \in Int
            BY <3>2, <3>7, <5>1
          <6> QED
            BY <6>1, <6>2
        <5>5. Slice(p) = new.t - lastTs
          BY <3>4, <3>8, <5>4 DEF Slice
        <5>6. Slices'[n] = IF new.w = 1 THEN Slice(p) ELSE 0
          <6>1. Slices'[n] = new.w * (new.t - trace[n].t)
            BY <3>6, <4>1, <5>1
          <6>2. new.w = 0 \/ new.w = 1
            BY <3>4 DEF Sample
          <6>3. new.t - trace[n].t \in Int
            BY <3>4, <5>4
          <6> QED
            BY <5>4, <5>5, <6>1, <6>2, <6>3
        <5>7. \A i \in 1 .. n : i = n \/ i \in 1 .. n - 1
          BY <3>3
        <5>8. Slices'[n] \in Int
          BY <3>4, <5>4, <5>5, <5>6
        <5>9. IntegersOn(Slices', 1 .. (n - 1) + 1) /\ IntegersOn(Slices, 1 .. n - 1)
          BY <5>1, <5>3, <5>7, <5>8 DEF IntegersOn
        <5>10. SumOver(Slices', 1 .. (n - 1) + 1) = Slices'[(n - 1) + 1] + SumOver(Slices', 1 .. n - 1)
          BY <5>1, <5>9, SumLast, Zenon
        <5>11. SumOver(Slices', 1 .. n - 1) = SumOver(Slices, 1 .. n - 1)
          <6>1. IsFiniteSet(1 .. n - 1) /\ \A i \in 1 .. n - 1 : Slices'[i] = Slices[i]
            BY <3>3, <5>3, FS_Interval
          <6> QED
            BY <5>9, <6>1, SumSame, Zenon
        <5>12. Total(Slices', n) = Slices'[n] + energy
          BY <3>2, <5>1, <5>10, <5>11, TotalIsSum
        <5>13. energy' = energy + Slices'[n] /\ energy \in Int
          BY <2>1, <3>4, <5>6 DEF TypeOK
        <5> HIDE DEF Slices
        <5> QED
          BY <5>8, <5>12, <5>13
      <4> QED
        BY <4>2, <4>3
    <3>13. (n + 1) - 1 = n
      BY <3>3
    <3>14. lastTs' = trace'[Len(trace')].t
      BY <2>1, <3>4, <3>6
    <3>15. poller'[p].pc # "unborn"
      BY <2>1, <2>2
    <3> QED
      BY <3>6, <3>10, <3>11, <3>12, <3>13, <3>14, <3>15
  <2> QED
    BY <2>2, <2>3, Zenon DEF Traced
<1> QED
  BY <1>2, <1>3, <1>4, <1>5, <1>6, <1>7, <1>8, <1>9 DEF Step

\* What the marks' readings include stays true while the trace stays, and a
\* poll begun meanwhile reads a clock that no mark is ahead of.
LEMMA SampledSame ==
    ASSUME TypeOK, MarksInOrder, Sampled, UNCHANGED <<marks, sampled>>, trace' = trace,
           FirstLife' => FirstLife,
           FirstLife => \A p \in Pollers : poller'[p].pc \in {"clock", "power"} =>
               \/ poller'[p].at = now
               \/ poller[p].pc \in {"clock", "power"} /\ poller'[p].at = poller[p].at
    PROVE  Sampled'
<1>1. Slices' = Slices
  BY DEF Slices
<1>2. SUFFICES ASSUME FirstLife, NEW k \in 1 .. Len(marks), sampled[k] < Len(trace),
                      NEW p \in Pollers, poller'[p].pc \in {"clock", "power"}
               PROVE  marks[k].t <= poller'[p].at
  <2>1. Len(sampled') = Len(marks')
    BY DEF Sampled
  <2>2. FirstLife => \A k \in 1 .. Len(marks) :
          /\ sampled[k] <= Len(trace)
          /\ marks[k].e = Total(Slices, sampled[k] - 1)
          /\ \A i \in sampled[k] + 2 .. Len(trace) : marks[k].t <= trace[i].t
    BY DEF Sampled
  <2> QED
    BY <1>1, <1>2, <2>1, <2>2 DEF Sampled
<1>3. marks[k].t <= now
  BY <1>2 DEF MarksInOrder
<1>4. poller[p].pc \in {"clock", "power"} => marks[k].t <= poller[p].at
  BY <1>2 DEF Sampled
<1> QED
  BY <1>2, <1>3, <1>4

LEMMA SampledKept == TypeOK /\ TypeOK' /\ MarksInOrder /\ Traced /\ Sampled /\ Step => Sampled'
<1> SUFFICES ASSUME TypeOK, TypeOK', MarksInOrder, Traced, Sampled, Step PROVE Sampled'
  OBVIOUS
<1>1. CASE BeginMark
  <2>1. UNCHANGED <<kind, poller, trace, abandoned, marks, sampled>>
    BY <1>1 DEF BeginMark
  <2> QED
    BY <2>1, SampledSame DEF FirstLife
<1>2. CASE EndMark
  <2> DEFINE new == [t |-> marking, e |-> energy]
             n == Len(marks)
  <2>1. /\ UNCHANGED <<kind, poller, trace, abandoned, energy>>
        /\ marks' = Append(marks, new) /\ sampled' = Append(sampled, Len(trace))
    BY <1>2 DEF EndMark
  <2>2. /\ marks \in Seq(LedgerMark) /\ new \in LedgerMark /\ sampled \in Seq(Nat)
        /\ Len(trace) \in Nat /\ n \in Nat /\ Len(sampled) = n
    <3>1. /\ marks \in Seq(LedgerMark) /\ sampled \in Seq(Nat) /\ trace \in Seq(Sample)
          /\ marking \in Int /\ energy \in Int
      BY DEF TypeOK
    <3>2. Len(sampled) = n
      BY DEF Sampled
    <3> QED
      BY <3>1, <3>2 DEF LedgerMark
  <2>3. /\ Len(marks') = n + 1 /\ Len(sampled') = n + 1
        /\ marks'[n + 1].e = energy /\ sampled'[n + 1] = Len(trace)
        /\ \A k \in 1 .. n : marks'[k] = marks[k] /\ sampled'[k] = sampled[k]
    <3>1. new.e = energy
      OBVIOUS
    <3> HIDE DEF new
    <3> QED
      BY <2>1, <2>2, <3>1
  <2>4. FirstLife' <=> FirstLife
    BY <2>1 DEF FirstLife
  <2>5. Slices' = Slices
    BY <2>1 DEF Slices
  <2> DEFINE Holds(k) ==
               /\ sampled'[k] <= Len(trace)
               /\ marks'[k].e = Total(Slices, sampled'[k] - 1)
               /\ \A i \in sampled'[k] + 2 .. Len(trace) : marks'[k].t <= trace[i].t
               /\ sampled'[k] < Len(trace) => \A p \in Pollers :
                    poller[p].pc \in {"clock", "power"} => marks'[k].t <= poller[p].at
  <2>6. ASSUME FirstLife, NEW k \in 1 .. n PROVE Holds(k)
    BY <2>3, <2>6 DEF Sampled
  <2>7. ASSUME FirstLife PROVE Holds(n + 1)
    <3>1. energy = Total(Slices, Len(trace) - 1)
      BY <2>7 DEF Traced
    <3>2. Len(trace) + 2 .. Len(trace) = {} /\ ~ (Len(trace) < Len(trace))
      BY <2>2
    <3> QED
      BY <2>2, <2>3, <3>1, <3>2
  <2>8. \A k \in 1 .. n + 1 : k \in 1 .. n \/ k = n + 1
    BY <2>2
  <2>9. ASSUME FirstLife, NEW k \in 1 .. n + 1 PROVE Holds(k)
    <3> HIDE DEF Holds
    <3> QED
      BY <2>6, <2>7, <2>8, <2>9, Zenon
  <2> HIDE DEF n, new
  <2> QED
    BY <2>1, <2>3, <2>4, <2>5, <2>9 DEF Sampled
<1>3. CASE UNCHANGED <<marks, marking, sampled>> /\ (BeginStop \/ Tick \/ RaplPoll)
  <2>1. UNCHANGED <<kind, poller, abandoned, marks, sampled, trace>>
    BY <1>3 DEF BeginStop, Tick, RaplPoll
  <2> QED
    BY <2>1, SampledSame DEF FirstLife
<1>4. ASSUME UNCHANGED <<marks, marking, sampled>>, NEW inTime \in BOOLEAN, EndStop(inTime)
      PROVE  Sampled'
  <2>1. /\ UNCHANGED <<kind, poller, marks, sampled, trace>>
        /\ abandoned' = FALSE => abandoned = FALSE
    BY <1>4 DEF EndStop, TypeOK
  <2>2. FirstLife' => FirstLife
    BY <2>1 DEF FirstLife, TypeOK
  <2> QED
    BY <2>1, <2>2, SampledSame
<1>5. ASSUME UNCHANGED <<marks, marking, sampled>>, NEW p \in Pollers,
             Start(p) \/ CheckStop(p) \/ ReadPower(p)
      PROVE  Sampled'
  <2>1. UNCHANGED <<kind, abandoned, marks, sampled, trace>>
    BY <1>5 DEF Start, CheckStop, ReadPower
  <2>2. ASSUME NEW q \in Pollers
        PROVE  /\ poller'[q].pc = "unborn" => poller[q].pc = "unborn"
               /\ poller'[q].pc \in {"clock", "power"} =>
                    \/ poller'[q].at = now
                    \/ poller[q].pc \in {"clock", "power"} /\ poller'[q].at = poller[q].at
    <3>1. CASE Start(p)
      BY <3>1 DEF Start, TypeOK
    <3>2. CASE CheckStop(p)
      BY <3>2 DEF CheckStop, TypeOK
    <3>3. CASE ReadPower(p)
      BY <3>3 DEF ReadPower, TypeOK
    <3> QED
      BY <1>5, <3>1, <3>2, <3>3
  <2>3. FirstLife' => FirstLife
    BY <2>1, <2>2 DEF FirstLife
  <2> QED
    BY <2>1, <2>2, <2>3, SampledSame
<1>6. ASSUME UNCHANGED <<marks, marking, sampled>>, NEW p \in Pollers, Integrate(p)
      PROVE  Sampled'
  <2> DEFINE new == [t |-> poller[p].at, w |-> poller[p].w]
             n == Len(trace)
  <2>1. /\ UNCHANGED <<kind, abandoned, marks, sampled>> /\ poller[p].pc = "power"
        /\ poller' = [poller EXCEPT ![p] = [pc |-> "check", at |-> poller[p].at, w |-> 0]]
    BY <1>6 DEF Integrate
  <2>2. ASSUME NEW q \in Pollers
        PROVE  /\ poller'[q].pc = "unborn" <=> poller[q].pc = "unborn"
               /\ poller'[q].pc \in {"clock", "power"} => q # p /\ poller[q].pc # "unborn"
    BY <2>1 DEF TypeOK
  <2>3. FirstLife' => FirstLife
    BY <2>1, <2>2 DEF FirstLife
  <2>4. Len(sampled') = Len(marks')
    BY <2>1 DEF Sampled
  <2>5. SUFFICES ASSUME FirstLife, NEW k \in 1 .. Len(marks)
                 PROVE  /\ sampled[k] <= Len(trace')
                        /\ marks[k].e = Total(Slices', sampled[k] - 1)
                        /\ \A i \in sampled[k] + 2 .. Len(trace') : marks[k].t <= trace'[i].t
                        /\ \A q \in Pollers : poller'[q].pc \notin {"clock", "power"}
    BY <2>1, <2>3, <2>4, <2>5 DEF Sampled
  <2>6. /\ sampled[k] <= n /\ marks[k].e = Total(Slices, sampled[k] - 1)
        /\ \A i \in sampled[k] + 2 .. n : marks[k].t <= trace[i].t
        /\ sampled[k] < n => marks[k].t <= new.t
    BY <2>1, <2>5 DEF Sampled
  <2>7. trace' = Append(trace, new)
    BY <1>6, <2>5 DEF Integrate, FirstLife
  <2>8. trace \in Seq(Sample) /\ new \in Sample /\ n \in Nat
    <3>1. trace \in Seq(Sample) /\ poller[p] \in Poller
      BY DEF TypeOK
    <3>2. poller[p].at \in Int /\ poller[p].w \in 0 .. 1
      BY <3>1 DEF Poller
    <3> QED
      BY <3>1, <3>2 DEF Sample
  <2>9. sampled[k] \in Nat
    <3>1. sampled \in Seq(Nat) /\ k \in 1 .. Len(sampled)
      BY <2>5 DEF TypeOK, Sampled
    <3> QED
      BY <3>1
  <2>10. /\ Len(trace') = n + 1 /\ trace'[n + 1] = new
         /\ \A i \in 1 .. n : trace'[i] = trace[i]
    <3>1. n = Len(trace)
      OBVIOUS
    <3> HIDE DEF new, n
    <3> QED
      BY <2>7, <2>8, <3>1
  <2>11. \A i \in 1 .. n : trace[i].t \in Int /\ trace[i].w \in 0 .. 1
    <3>1. \A i \in 1 .. n : trace[i] \in Sample
      BY <2>8
    <3> QED
      BY <3>1 DEF Sample
  <2>12. \A q \in Pollers : poller'[q].pc \notin {"clock", "power"}
    <3>1. \A q \in Pollers : q > 1 => poller[q].pc = "unborn"
      BY <2>5 DEF FirstLife
    <3>2. ~ (p > 1)
      BY <2>1, <3>1
    <3>3. ASSUME NEW q \in Pollers, q # p PROVE q > 1
      BY <3>2, <3>3, SourcesAssumption
    <3> QED
      BY <2>2, <3>1, <3>3
  <2>13. \A i \in sampled[k] + 2 .. n + 1 : marks[k].t <= trace'[i].t
    <3>1. \A i \in sampled[k] + 2 .. n + 1 :
            \/ i \in sampled[k] + 2 .. n /\ i \in 1 .. n
            \/ i = n + 1 /\ sampled[k] < n
      BY <2>8, <2>9
    <3> HIDE DEF n, new
    <3> QED
      BY <2>6, <2>10, <3>1
  <2>14. Total(Slices', sampled[k] - 1) = Total(Slices, sampled[k] - 1)
    <3> DEFINE S == 1 .. sampled[k] - 1
    <3>1. ASSUME NEW i \in S PROVE Slices[i] \in Int /\ Slices'[i] = Slices[i]
      <4>1. i \in 1 .. n - 1 /\ i \in 1 .. (n + 1) - 1 /\ i \in 1 .. n /\ i + 1 \in 1 .. n
        BY <2>6, <2>8, <2>9
      <4>2. Slices[i] = trace[i + 1].w * (trace[i + 1].t - trace[i].t)
        BY <4>1 DEF Slices
      <4>3. Slices'[i] = trace[i + 1].w * (trace[i + 1].t - trace[i].t)
        <5>1. Slices' = [j \in 1 .. (n + 1) - 1 |-> trace'[j + 1].w * (trace'[j + 1].t - trace'[j].t)]
          BY <2>10 DEF Slices
        <5> QED
          BY <2>10, <4>1, <5>1
      <4>4. trace[i + 1].w \in Int /\ trace[i + 1].t \in Int /\ trace[i].t \in Int
        BY <2>11, <4>1
      <4> QED
        BY <4>2, <4>3, <4>4
    <3>2. IsFiniteSet(S)
      BY <2>9, FS_Interval
    <3> HIDE DEF S
    <3>3. SumOver(Slices', S) = SumOver(Slices, S)
      <4>1. IntegersOn(Slices, S) /\ \A i \in S : Slices'[i] = Slices[i]
        BY <3>1 DEF IntegersOn
      <4> QED
        BY <3>2, <4>1, SumSame, Zenon
    <3> QED
      BY <3>3, TotalIsSum DEF S
  <2>15. sampled[k] <= n + 1
    BY <2>6, <2>8, <2>9
  <2> HIDE DEF n, new
  <2> QED
    BY <2>6, <2>10, <2>12, <2>13, <2>14, <2>15
<1> QED
  BY <1>1, <1>2, <1>3, <1>4, <1>5, <1>6 DEF Step
-----------------------------------------------------------------------------
LEMMA Initially == Init => IInv
<1> SUFFICES ASSUME Init PROVE IInv
  OBVIOUS
<1> USE DEF Init, SourcesInit
<1>1. TypeOK
  <2>1. poller \in [Pollers -> Poller]
    BY DEF Poller, Places
  <2>2. drawn \in Nat /\ trace \in Seq(Sample) /\ marks \in Seq(LedgerMark) /\ sampled \in Seq(Nat)
    OBVIOUS
  <2>3. kind \in Kinds /\ thread \in Pollers \cup {NoThread} /\ raplLast \in {NoSample} \cup 0 .. MaxRange - 1
    OBVIOUS
  <2>4. now \in Nat /\ due \in Nat /\ energy \in Nat /\ lastTs \in Int /\ marking \in Int
    OBVIOUS
  <2>5. firstDrawn \in Nat /\ lastDrawn \in Nat
    OBVIOUS
  <2>6. /\ stopping \in BOOLEAN /\ initialized \in BOOLEAN /\ missed \in BOOLEAN
        /\ abandoned \in BOOLEAN /\ client \in {"ready", "joining"}
    OBVIOUS
  <2>7. QED  BY <2>1, <2>2, <2>3, <2>4, <2>5, <2>6, Zenon DEF TypeOK
<1>2. \A p \in Pollers : poller[p].pc = "unborn" /\ ~Alive(p)
  BY DEF Alive
<1>3. OneThread /\ Billed
  BY <1>2 DEF OneThread, Billed
<1>4. Counted /\ MarksInOrder
  BY DEF Counted, MarksInOrder
<1>5. Total(Slices, Len(trace) - 1) = 0
  <2>1. 1 .. Len(trace) - 1 = {}
    OBVIOUS
  <2> QED
    BY <2>1, SumEmpty, TotalIsSum
<1>6. Len(trace) = 0 /\ energy = 0 /\ lastTs = NoSample /\ trace = <<>>
  OBVIOUS
<1>7. Traced
  BY <1>2, <1>5, <1>6 DEF Traced
<1>8. Sampled
  BY DEF Sampled
<1> QED  BY <1>1, <1>3, <1>4, <1>7, <1>8 DEF IInv

\* The meters' invariant holds in every reachable state: one live thread, what
\* is billed within the time that may be billed, the counter's readings added
\* up, and the ledger's marks in order.
THEOREM MetersInvariance == Spec => []IInv
<1>1. IInv /\ [Next]_vars => IInv'
  <2> SUFFICES ASSUME IInv, [Next]_vars PROVE IInv'
    OBVIOUS
  <2>1. CASE Next
    <3>1. Step
      BY <2>1, NextIsStep
    <3>2. TypeOK'
      BY <3>1, Kept DEF IInv
    <3>3. OneThread' /\ Billed' /\ Counted' /\ MarksInOrder'
      BY <3>1, <3>2, OneThreadKept, BilledKept, CountedKept, InOrderKept DEF IInv
    <3>4. Traced'
      BY <3>1, <3>2, TracedKept DEF IInv
    <3>5. Sampled'
      BY <3>1, <3>2, SampledKept DEF IInv
    <3>6. QED  BY <3>2, <3>3, <3>4, <3>5 DEF IInv
  <2>2. CASE UNCHANGED vars
    <3>1. TypeOK'
      BY <2>2 DEF IInv, TypeOK
    <3>2. OneThread' /\ Billed'
      BY <2>2 DEF IInv, OneThread, Billed, Running, Alive
    <3>3. (lastDrawn <= drawn)' <=> lastDrawn <= drawn
      BY <2>2
    <3>4. UNCHANGED <<kind, raplLast, energy, missed, drawn, lastDrawn, firstDrawn>>
      BY <2>2
    <3>5. Counted'
      BY <3>3, <3>4, Zenon DEF IInv, Counted
    <3>6. MarksInOrder'
      BY <2>2 DEF IInv, MarksInOrder
    <3>7. Traced'
      <4>1. \A p \in Pollers : poller[p].pc \in {"clock", "power"} => poller[p].at \in Nat
        BY DEF IInv, Traced
      <4>2. TypeOK /\ Traced /\ UNCHANGED <<kind, poller, lastTs, energy, trace, abandoned>>
        BY <2>2 DEF IInv
      <4> QED
        BY <3>1, <4>1, <4>2, TracedSame
    <3>8. Sampled'
      BY <2>2, SampledSame DEF IInv, FirstLife
    <3>9. QED  BY <3>1, <3>2, <3>5, <3>6, <3>7, <3>8 DEF IInv
  <2>3. QED  BY <2>1, <2>2
<1>2. QED
  BY <1>1, Initially, PTL DEF Spec

\* For every source: a meter whose threads all ended in time bills no tick
\* twice and none outside its time, and a RAPL source polled at least once per
\* range of its counter bills every watt-tick, however often it wrapped.
THEOREM MetersNeverOverbill == Spec => []NotOverbilled
<1>1. IInv => NotOverbilled
  <2> SUFFICES ASSUME IInv PROVE NotOverbilled
    OBVIOUS
  <2>1. CASE kind = "rapl"
    <3>1. CASE raplLast = NoSample
      <4>1. energy = 0 /\ lastDrawn = firstDrawn
        BY <2>1, <3>1 DEF IInv, Counted
      <4>2. lastDrawn - firstDrawn = 0
        BY <4>1 DEF IInv, TypeOK
      <4>3. QED  BY <2>1, <4>1, <4>2 DEF NotOverbilled
    <3>2. CASE raplLast # NoSample
      BY <2>1, <3>2, Zenon DEF IInv, Counted, NotOverbilled
    <3>3. QED  BY <3>1, <3>2
  <2>2. CASE kind # "rapl"
    BY <2>2 DEF IInv, Billed, NotOverbilled
  <2>3. QED  BY <2>1, <2>2
<1>2. QED
  BY <1>1, MetersInvariance, PTL

\* The part of a slice before x; what a slice shares with an interval is the
\* difference of such parts, also for a last interval that ends before it starts.
Before(a, b, x) == AtLeast(0, AtMost(b, x) - a)

LEMMA Shared ==
    ASSUME NEW a \in Int, NEW b \in Int, a <= b, NEW from \in Int, NEW to \in Int,
           from <= to \/ b <= to
    PROVE  AtLeast(0, AtMost(b, to) - AtLeast(a, from)) = Before(a, b, to) - Before(a, b, from)
BY DEF Before, AtLeast, AtMost

\* What the trace's slices bill before x.
BilledBefore(x) ==
    SumOver([i \in 1 .. Len(trace) - 1 |->
               trace[i + 1].w * Before(trace[i].t, trace[i + 1].t, x)], 1 .. Len(trace) - 1)

\* A watt or none, so that a product with a difference splits.
LEMMA Watt == ASSUME NEW w \in 0 .. 1, NEW u \in Int, NEW v \in Int
              PROVE  w * u \in Int /\ w * (u - v) = w * u + (-1) * (w * v)
<1>1. CASE w = 0
  BY <1>1
<1>2. CASE w = 1
  BY <1>2
<1> QED
  BY <1>1, <1>2

\* Facts of a trace in order.
InOrder ==
    /\ Len(trace) \in Nat
    /\ \A i \in 1 .. Len(trace) :
         /\ trace[i].t \in Int /\ trace[i].w \in 0 .. 1
         /\ \A j \in 1 .. i : trace[j].t <= trace[i].t

LEMMA SliceFacts ==
    ASSUME InOrder, NEW i \in 1 .. Len(trace) - 1
    PROVE  /\ i \in 1 .. Len(trace) /\ i + 1 \in 1 .. Len(trace)
           /\ trace[i].t \in Int /\ trace[i + 1].t \in Int /\ trace[i + 1].w \in 0 .. 1
           /\ trace[i].t <= trace[i + 1].t
<1>1. i \in 1 .. Len(trace) /\ i + 1 \in 1 .. Len(trace) /\ i \in 1 .. i + 1
  BY DEF InOrder
<1> QED
  BY <1>1 DEF InOrder

LEMMA BilledBetween ==
    ASSUME InOrder, NEW from \in Int, NEW to \in Int,
           from <= to \/ (Len(trace) # 0 /\ to = trace[Len(trace)].t)
    PROVE  /\ BilledBefore(to) \in Int /\ BilledBefore(from) \in Int
           /\ MarginalFromTrace(trace, from, to) = BilledBefore(to) - BilledBefore(from)
<1> DEFINE S == 1 .. Len(trace) - 1
           B(x) == [i \in S |-> trace[i + 1].w * Before(trace[i].t, trace[i + 1].t, x)]
           M == [i \in S |-> trace[i + 1].w * Overlap(trace, i, from, to)]
<1>1. ASSUME NEW i \in S
      PROVE  /\ Before(trace[i].t, trace[i + 1].t, from) \in Int
             /\ Before(trace[i].t, trace[i + 1].t, to) \in Int
             /\ Overlap(trace, i, from, to) = Before(trace[i].t, trace[i + 1].t, to)
                                                - Before(trace[i].t, trace[i + 1].t, from)
  <2>1. /\ i + 1 \in 1 .. Len(trace)
        /\ trace[i].t \in Int /\ trace[i + 1].t \in Int /\ trace[i].t <= trace[i + 1].t
    BY SliceFacts
  <2>2. from <= to \/ trace[i + 1].t <= to
    <3>1. CASE Len(trace) # 0 /\ to = trace[Len(trace)].t
      <4>1. Len(trace) \in 1 .. Len(trace) /\ i + 1 \in 1 .. Len(trace)
        BY <2>1, <3>1 DEF InOrder
      <4> QED
        BY <3>1, <4>1 DEF InOrder
    <3> QED
      BY <3>1
  <2>3. Overlap(trace, i, from, to) = AtLeast(0, AtMost(trace[i + 1].t, to) - AtLeast(trace[i].t, from))
    BY DEF Overlap
  <2>4. \A x \in Int : Before(trace[i].t, trace[i + 1].t, x) \in Int
    BY <2>1 DEF Before, AtLeast, AtMost
  <2> QED
    BY <2>1, <2>2, <2>3, <2>4, Shared
<1>2. ASSUME NEW i \in S PROVE B(from)[i] \in Int /\ B(to)[i] \in Int /\ M[i] = B(to)[i] + (-1) * B(from)[i]
  <2>1. trace[i + 1].w \in 0 .. 1
    BY SliceFacts
  <2> DEFINE w == trace[i + 1].w
             u == Before(trace[i].t, trace[i + 1].t, to)
             v == Before(trace[i].t, trace[i + 1].t, from)
  <2>2. B(from)[i] = w * v /\ B(to)[i] = w * u /\ M[i] = w * (u - v)
    <3>1. M[i] = w * Overlap(trace, i, from, to)
      OBVIOUS
    <3> QED
      BY <1>1, <3>1
  <2>3. w \in 0 .. 1 /\ u \in Int /\ v \in Int
    BY <1>1, <2>1
  <2> HIDE DEF w, u, v, B, M
  <2> QED
    BY <2>2, <2>3, Watt
<1>3. IsFiniteSet(S)
  BY FS_Interval DEF InOrder
<1>4. MarginalFromTrace(trace, from, to) = SumOver(M, S)
  BY TotalIsSum DEF MarginalFromTrace
<1>5. BilledBefore(from) = SumOver(B(from), S) /\ BilledBefore(to) = SumOver(B(to), S)
  BY DEF BilledBefore
<1> HIDE DEF B, M, S
<1>6. IntegersOn(B(from), S) /\ IntegersOn(B(to), S) /\ Combines(M, B(to), -1, B(from), S)
  BY <1>2 DEF IntegersOn, Combines
<1>7. SumOver(M, S) = SumOver(B(to), S) + (-1) * SumOver(B(from), S)
  <2>1. -1 \in Int
    OBVIOUS
  <2> QED
    BY <1>3, <1>6, <2>1, SumLinear, Zenon
<1>8. SumOver(B(to), S) \in Int /\ SumOver(B(from), S) \in Int
  BY <1>3, <1>6, SumStep, Zenon
<1> QED
  BY <1>4, <1>5, <1>7, <1>8

\* Nothing is billed backwards.
LEMMA BilledBackwards ==
    ASSUME InOrder, NEW from \in Int, NEW to \in Int, to <= from
    PROVE  MarginalFromTrace(trace, from, to) = 0
<1> DEFINE S == 1 .. Len(trace) - 1
           M == [i \in S |-> trace[i + 1].w * Overlap(trace, i, from, to)]
<1>1. ASSUME NEW i \in S PROVE M[i] = 0
  <2>1. trace[i].t \in Int /\ trace[i + 1].t \in Int /\ trace[i + 1].w \in 0 .. 1
    BY SliceFacts
  <2>2. Overlap(trace, i, from, to) = 0
    BY <2>1 DEF Overlap, AtLeast, AtMost
  <2>3. M[i] = trace[i + 1].w * 0
    BY <2>2
  <2> QED
    BY <2>1, <2>3
<1>2. MarginalFromTrace(trace, from, to) = SumOver(M, S)
  BY TotalIsSum DEF MarginalFromTrace
<1>3. IsFiniteSet(S)
  BY FS_Interval DEF InOrder
<1> HIDE DEF M, S
<1>4. IntegersOn(M, S) /\ {} \in SUBSET S /\ \A i \in S \ {} : M[i] = 0
  BY <1>1 DEF IntegersOn
<1>5. SumOver(M, S) = SumOver(M, {})
  BY <1>3, <1>4, SumOfRest, Zenon
<1> QED
  BY <1>2, <1>5, SumEmpty

\* What is billed before a sample are the slices that end with it or earlier.
LEMMA BilledAtSample ==
    ASSUME InOrder, NEW n \in 1 .. Len(trace)
    PROVE  BilledBefore(trace[n].t) = Total(Slices, n - 1)
<1> DEFINE S == 1 .. Len(trace) - 1
           s == 1 .. n - 1
           x == trace[n].t
           B == [i \in S |-> trace[i + 1].w * Before(trace[i].t, trace[i + 1].t, x)]
<1>1. IsFiniteSet(S) /\ IsFiniteSet(s) /\ s \in SUBSET S /\ x \in Int
  <2>1. Len(trace) \in Nat /\ n \in Nat /\ n - 1 <= Len(trace) - 1 /\ x \in Int
    BY DEF InOrder
  <2>2. n - 1 \in Int /\ Len(trace) - 1 \in Int /\ 1 \in Int
    BY <2>1
  <2> HIDE DEF x
  <2> QED
    <3>1. IsFiniteSet(S) /\ IsFiniteSet(s)
      BY <2>2, FS_Interval, Zenon
    <3> QED
      BY <2>1, <3>1
<1>2. ASSUME NEW i \in S
      PROVE  /\ B[i] = trace[i + 1].w * Before(trace[i].t, trace[i + 1].t, x)
             /\ trace[i].t \in Int /\ trace[i + 1].t \in Int /\ trace[i + 1].w \in 0 .. 1
             /\ trace[i].t <= trace[i + 1].t
             /\ i \in 1 .. Len(trace) /\ i + 1 \in 1 .. Len(trace)
  BY SliceFacts
<1>3. ASSUME NEW i \in s PROVE B[i] = Slices[i] /\ Slices[i] \in Int
  <2>1. i \in S
    BY <1>1
  <2>2. i + 1 \in 1 .. n
    BY DEF InOrder
  <2>3. trace[i + 1].t <= x
    BY <2>2 DEF InOrder
  <2>4. Slices[i] = trace[i + 1].w * (trace[i + 1].t - trace[i].t)
    BY <2>1 DEF Slices
  <2> HIDE DEF B, S, s, x
  <2>5. Before(trace[i].t, trace[i + 1].t, x) = trace[i + 1].t - trace[i].t
    BY <1>1, <1>2, <2>1, <2>3 DEF Before, AtLeast, AtMost
  <2> QED
    BY <1>2, <2>1, <2>4, <2>5
<1>4. ASSUME NEW i \in S \ s PROVE B[i] = 0
  <2>1. n \in 1 .. i /\ i \in 1 .. Len(trace)
    BY <1>2 DEF InOrder
  <2>2. x <= trace[i].t
    BY <2>1 DEF InOrder
  <2> HIDE DEF B, S, s, x
  <2>3. Before(trace[i].t, trace[i + 1].t, x) = 0
    BY <1>1, <1>2, <2>2 DEF Before, AtLeast, AtMost
  <2>4. B[i] = trace[i + 1].w * 0
    BY <1>2, <2>3
  <2> QED
    BY <1>2, <2>4
<1>5. BilledBefore(x) = SumOver(B, S)
  BY DEF BilledBefore
<1>6. Total(Slices, n - 1) = SumOver(Slices, s)
  BY TotalIsSum
<1> HIDE DEF B, S, s
<1>7. IntegersOn(B, S) /\ IntegersOn(Slices, s)
  <2>1. ASSUME NEW i \in S PROVE B[i] \in Int
    BY <1>3, <1>4
  <2> QED
    BY <1>3, <2>1 DEF IntegersOn
<1>8. SumOver(B, S) = SumOver(B, s)
  BY <1>1, <1>4, <1>7, SumOfRest, Zenon
<1>9. SumOver(B, s) = SumOver(Slices, s)
  BY <1>1, <1>3, <1>7, SumSame, Zenon
<1> QED
  BY <1>5, <1>6, <1>8, <1>9

\* A mark's reading is what the trace bills up to its last sample, and that is
\* ahead of the timestamp by as much.
LEMMA AheadIs ==
    ASSUME TypeOK, MarksInOrder, Sampled, FirstLife, InOrder, Len(trace) # 0,
           NEW k \in 1 .. Len(marks)
    PROVE  /\ marks[k].t \in Int /\ marks[k].e \in Int /\ BilledBefore(marks[k].t) \in Int
           /\ Ahead(k) = marks[k].e - BilledBefore(marks[k].t)
<1> DEFINE m == marks[k].t
           at == ReadUpTo(k)
           n == AtLeast(1, sampled[k])
<1>1. m \in Int /\ marks[k].e \in Int
  <2>1. marks \in Seq(LedgerMark)
    BY DEF TypeOK
  <2>2. marks[k] \in LedgerMark
    BY <2>1
  <2> QED
    BY <2>2 DEF LedgerMark
<1>2. sampled[k] \in Nat /\ sampled[k] <= Len(trace) /\ marks[k].e = Total(Slices, sampled[k] - 1)
  <2>1. sampled \in Seq(Nat) /\ k \in 1 .. Len(sampled)
    BY DEF TypeOK, Sampled
  <2>2. sampled[k] \in Nat
    BY <2>1
  <2> QED
    BY <2>2 DEF Sampled
<1>3. n \in 1 .. Len(trace) /\ 1 .. n - 1 = 1 .. sampled[k] - 1
  BY <1>2 DEF AtLeast, InOrder
<1>4. at \in Int /\ at = trace[n].t
  BY <1>3 DEF ReadUpTo, InOrder
<1>5. marks[k].e = BilledBefore(at)
  <2>1. Total(Slices, n - 1) = Total(Slices, sampled[k] - 1)
    BY <1>3, TotalIsSum
  <2>2. BilledBefore(trace[n].t) = Total(Slices, n - 1)
    BY <1>3, BilledAtSample
  <2> QED
    BY <1>2, <1>4, <2>1, <2>2
<1>6. Ahead(k) = MarginalFromTrace(trace, m, at) - MarginalFromTrace(trace, at, m)
  <2>1. ~ (k > Len(marks))
    OBVIOUS
  <2> QED
    BY <2>1 DEF Ahead
<1> HIDE DEF m, at, n
<1>7. CASE m <= at
  <2>1. /\ MarginalFromTrace(trace, m, at) = BilledBefore(at) - BilledBefore(m)
        /\ BilledBefore(at) \in Int /\ BilledBefore(m) \in Int
    BY <1>1, <1>4, <1>7, BilledBetween
  <2>2. MarginalFromTrace(trace, at, m) = 0
    BY <1>1, <1>4, <1>7, BilledBackwards
  <2> QED
    BY <1>1, <1>5, <1>6, <2>1, <2>2 DEF m
<1>8. CASE at <= m
  <2>1. /\ MarginalFromTrace(trace, at, m) = BilledBefore(m) - BilledBefore(at)
        /\ BilledBefore(at) \in Int /\ BilledBefore(m) \in Int
    BY <1>1, <1>4, <1>8, BilledBetween
  <2>2. MarginalFromTrace(trace, m, at) = 0
    BY <1>1, <1>4, <1>8, BilledBackwards
  <2> QED
    BY <1>1, <1>5, <1>6, <2>1, <2>2 DEF m
<1> QED
  BY <1>1, <1>4, <1>7, <1>8

\* Append adds its element after the others.
LEMMA Appended ==
    ASSUME NEW q \in Seq(Int), NEW x \in Int
    PROVE  Append(q, x)[Len(q) + 1] = x /\ \A i \in 1 .. Len(q) : Append(q, x)[i] = q[i]
OBVIOUS

\* The readings never run backwards, so report gives an interval the difference
\* of those at its ends.
LEMMA ReportAt ==
    ASSUME TypeOK, MarksInOrder, NEW k \in 1 .. Len(marks)
    PROVE  Report(marks, energy)[k]
             = (IF k = Len(marks) THEN energy ELSE marks[k + 1].e) - marks[k].e
<1> DEFINE n == Len(marks)
           es == [i \in DOMAIN marks |-> marks[i].e]
           reading == Append(es, energy)
<1>1. /\ marks \in Seq(LedgerMark) /\ n \in Nat /\ DOMAIN marks = 1 .. n /\ energy \in Int
      /\ k \in 1 .. n
  BY DEF TypeOK
<1>2. \A i \in 1 .. n : marks[i].e \in Int
  <2>1. \A i \in 1 .. n : marks[i] \in LedgerMark
    BY <1>1
  <2> QED
    BY <2>1 DEF LedgerMark
<1>3. es \in Seq(Int) /\ Len(es) = n /\ \A i \in 1 .. n : es[i] = marks[i].e
  <2>1. es \in [1 .. n -> Int] /\ \A i \in 1 .. n : es[i] = marks[i].e
    BY <1>1, <1>2
  <2> HIDE DEF es, n
  <2> QED
    BY <1>1, <2>1
<1>4. reading[n + 1] = energy /\ \A i \in 1 .. n : reading[i] = marks[i].e
  <2> HIDE DEF es, n
  <2>1. reading[Len(es) + 1] = energy /\ \A i \in 1 .. Len(es) : reading[i] = es[i]
    BY <1>1, <1>3, Appended
  <2> HIDE DEF reading
  <2> QED
    BY <1>3, <2>1, Zenon
<1>5. Report(marks, energy)[k] = AtLeast(0, reading[k + 1] - reading[k])
  BY <1>1 DEF Report
<1> HIDE DEF reading, es
<1>6. CASE k = n
  <2>1. marks[k].e <= energy
    BY DEF MarksInOrder
  <2> QED
    BY <1>1, <1>2, <1>4, <1>5, <1>6, <2>1 DEF AtLeast
<1>7. CASE k # n
  <2>1. k + 1 \in 1 .. n /\ k \in 1 .. k + 1
    <3> HIDE DEF n
    <3> QED
      BY <1>1, <1>7
  <2>2. marks[k].e <= marks[k + 1].e
    BY <2>1 DEF MarksInOrder
  <2> QED
    <3>1. /\ reading[k] = marks[k].e /\ reading[k + 1] = marks[k + 1].e
          /\ marks[k].e \in Int /\ marks[k + 1].e \in Int
      BY <1>1, <1>2, <1>4, <2>1
    <3> QED
      BY <1>5, <1>7, <2>2, <3>1 DEF AtLeast
<1> QED
  BY <1>6, <1>7

\* report_from_trace gives it the difference of what the trace bills before its
\* ends; the last interval ends with the trace.
LEMMA TraceReportAt ==
    ASSUME TypeOK, MarksInOrder, InOrder, Len(trace) # 0, NEW k \in 1 .. Len(marks)
    PROVE  ReportFromTrace(marks, trace)[k]
             = BilledBefore(IF k = Len(marks) THEN trace[Len(trace)].t ELSE marks[k + 1].t)
               - BilledBefore(marks[k].t)
<1> DEFINE n == Len(marks)
           end == trace[Len(trace)].t
           ts == [i \in DOMAIN marks |-> marks[i].t]
           times == Append(ts, end)
<1>1. marks \in Seq(LedgerMark) /\ n \in Nat /\ DOMAIN marks = 1 .. n /\ k \in 1 .. n
  BY DEF TypeOK
<1>2. \A i \in 1 .. n : marks[i].t \in Int
  <2>1. \A i \in 1 .. n : marks[i] \in LedgerMark
    BY <1>1
  <2> QED
    BY <2>1 DEF LedgerMark
<1>3. end \in Int /\ trace # <<>>
  BY DEF InOrder
<1>4. ts \in Seq(Int) /\ Len(ts) = n /\ \A i \in 1 .. n : ts[i] = marks[i].t
  <2>1. ts \in [1 .. n -> Int] /\ \A i \in 1 .. n : ts[i] = marks[i].t
    BY <1>1, <1>2
  <2> HIDE DEF ts, n
  <2> QED
    BY <1>1, <2>1
<1> HIDE DEF end
<1>5. times[n + 1] = end /\ \A i \in 1 .. n : times[i] = marks[i].t
  <2> HIDE DEF ts, n
  <2>1. times[Len(ts) + 1] = end /\ \A i \in 1 .. Len(ts) : times[i] = ts[i]
    BY <1>3, <1>4, Appended
  <2> HIDE DEF times
  <2> QED
    BY <1>4, <2>1, Zenon
<1>6. ReportFromTrace(marks, trace)[k] = MarginalFromTrace(trace, times[k], times[k + 1])
  BY <1>1, <1>3 DEF ReportFromTrace, end
<1> HIDE DEF times, ts
<1>7. CASE k = n
  <2>1. MarginalFromTrace(trace, marks[k].t, end) = BilledBefore(end) - BilledBefore(marks[k].t)
    BY <1>2, <1>3, BilledBetween DEF end
  <2> QED
    BY <1>5, <1>6, <1>7, <2>1 DEF end
<1>8. CASE k # n
  <2>1. k + 1 \in 1 .. n /\ k \in 1 .. k + 1
    <3> HIDE DEF n
    <3> QED
      BY <1>1, <1>8
  <2>2. marks[k].t <= marks[k + 1].t /\ marks[k].t \in Int /\ marks[k + 1].t \in Int
    BY <1>2, <2>1 DEF MarksInOrder
  <2>3. MarginalFromTrace(trace, marks[k].t, marks[k + 1].t)
          = BilledBefore(marks[k + 1].t) - BilledBefore(marks[k].t)
    BY <2>2, BilledBetween
  <2> QED
    BY <1>5, <1>6, <1>8, <2>1, <2>3
<1> QED
  BY <1>7, <1>8

\* The two ledgers agree, whatever the trace and however many marks: in a
\* meter's first life its two reports give every interval the same energy, but
\* for how far the meter's readings at its ends are ahead of their timestamps;
\* and a reading lacks one sample older than its timestamp at most.
THEOREM LedgersAlwaysAgree == Spec => []LedgersAgree
<1>1. IInv => LedgersAgree
  <2> SUFFICES ASSUME IInv, FirstLife, trace # <<>>, NEW k \in 1 .. Len(marks)
               PROVE  /\ Report(marks, energy)[k] - ReportFromTrace(marks, trace)[k]
                           = Ahead(k + 1) - Ahead(k)
                      /\ \A i \in sampled[k] + 2 .. Len(trace) : marks[k].t <= trace[i].t
    BY DEF LedgersAgree
  <2>1. \A i \in sampled[k] + 2 .. Len(trace) : marks[k].t <= trace[i].t
    BY DEF IInv, Sampled
  <2>2. TypeOK /\ MarksInOrder /\ Sampled /\ Traced
    BY DEF IInv
  <2>3. trace \in Seq(Sample) /\ marks \in Seq(LedgerMark) /\ energy \in Int
    BY <2>2 DEF TypeOK
  <2>4. InOrder /\ Len(trace) # 0 /\ Len(trace) \in 1 .. Len(trace)
    <3>1. \A i \in 1 .. Len(trace) : trace[i].t \in Int /\ trace[i].w \in 0 .. 1
      <4>1. \A i \in 1 .. Len(trace) : trace[i] \in Sample
        BY <2>3
      <4> QED
        BY <4>1 DEF Sample
    <3>2. Len(trace) \in Nat /\ Len(trace) # 0
      BY <2>3
    <3> QED
      BY <2>2, <3>1, <3>2 DEF Traced, InOrder
  <2>5. /\ marks[k].e \in Int /\ BilledBefore(marks[k].t) \in Int
        /\ Ahead(k) = marks[k].e - BilledBefore(marks[k].t)
    BY <2>2, <2>4, AheadIs
  <2>6. CASE k = Len(marks)
    <3>1. Ahead(k + 1) = 0
      <4>1. k + 1 > Len(marks)
        BY <2>3, <2>6
      <4> QED
        BY <4>1 DEF Ahead
    <3>2. energy = BilledBefore(trace[Len(trace)].t)
      BY <2>2, <2>4, BilledAtSample DEF Traced
    <3>3. Report(marks, energy)[k] = energy - marks[k].e
      BY <2>2, <2>6, ReportAt
    <3>4. ReportFromTrace(marks, trace)[k] = energy - BilledBefore(marks[k].t)
      BY <2>2, <2>4, <2>6, <3>2, TraceReportAt
    <3> QED
      BY <2>1, <2>3, <2>5, <3>1, <3>3, <3>4
  <2>7. CASE k # Len(marks)
    <3>1. k + 1 \in 1 .. Len(marks)
      BY <2>3, <2>7
    <3>2. /\ marks[k + 1].e \in Int /\ BilledBefore(marks[k + 1].t) \in Int
          /\ Ahead(k + 1) = marks[k + 1].e - BilledBefore(marks[k + 1].t)
      BY <2>2, <2>4, <3>1, AheadIs
    <3>3. Report(marks, energy)[k] = marks[k + 1].e - marks[k].e
      BY <2>2, <2>7, ReportAt
    <3>4. ReportFromTrace(marks, trace)[k]
            = BilledBefore(marks[k + 1].t) - BilledBefore(marks[k].t)
      BY <2>2, <2>4, <2>7, TraceReportAt
    <3> QED
      BY <2>1, <2>5, <3>2, <3>3, <3>4
  <2> QED
    BY <2>6, <2>7
<1>2. QED
  BY <1>1, MetersInvariance, PTL

\* The clamp of the ledger's report never drops energy: the readings at the
\* marks, and the reading that seals the report, never run backwards.
THEOREM NothingClamped ==
    Spec => [](\A i \in 1 .. Len(marks) : \A j \in 1 .. i :
                  marks[j].e <= marks[i].e /\ marks[i].e <= energy)
<1>1. IInv => \A i \in 1 .. Len(marks) : \A j \in 1 .. i :
                  marks[j].e <= marks[i].e /\ marks[i].e <= energy
  BY DEF IInv, MarksInOrder
<1>2. QED
  BY <1>1, MetersInvariance, PTL
=============================================================================
